-------------------------- MODULE QueueBelief_proofs --------------------------
(***************************************************************************)
(* Theorems about QueueBelief, for every order size, level and feed bound: *)
(* the belief stays a record of sizes, its quantiles stay ordered, and its *)
(* bounds hold what is ahead of the order.                                 *)
(***************************************************************************)
EXTENDS QueueBelief, SequenceTheorems, TLAPS

Beliefs == [lower : Nat, p10 : Nat, p50 : Nat, p90 : Nat, upper : Nat, visible : Nat]

Ordered(b) == /\ b.lower <= b.p10 /\ b.p10 <= b.p50
              /\ b.p50 <= b.p90 /\ b.p90 <= b.upper

-----------------------------------------------------------------------------
(* What the operators of state.rs return *)

LEMMA NotNegativeNat == \A x \in Int : /\ NotNegative(x) \in Nat
                                       /\ x <= NotNegative(x)
                                       /\ \A y \in Int : x <= y => NotNegative(x) <= NotNegative(y)
BY DEF NotNegative

LEMMA ClampedBetween ==
  ASSUME NEW x \in Nat, NEW low \in Nat, NEW high \in Nat
  PROVE  /\ Clamped(x, low, high) \in Nat
         /\ low <= high => /\ low <= Clamped(x, low, high)
                           /\ Clamped(x, low, high) <= high
BY DEF Clamped

LEMMA InitializeBelief ==
  ASSUME NEW visible \in Nat, NEW size \in Nat
  PROVE  Initialize(visible, size) \in Beliefs /\ Ordered(Initialize(visible, size))
<1> DEFINE possible == NotNegative(visible - size)
<1>1. possible \in Nat
  BY NotNegativeNat
<1>2. Initialize(visible, size)
        = [lower |-> 0, p10 |-> possible, p50 |-> 5 * possible, p90 |-> 9 * possible,
           upper |-> 10 * possible, visible |-> visible]
  BY DEF Initialize
<1> HIDE DEF possible
<1> QED
  BY <1>1, <1>2 DEF Beliefs, Ordered

LEMMA ObserveTradeBelief ==
  ASSUME NEW b \in Beliefs, NEW size \in Nat
  PROVE  /\ ObserveTrade(b, size) \in Beliefs
         /\ Ordered(b) => Ordered(ObserveTrade(b, size))
<1>1. /\ b.lower \in Nat /\ b.p10 \in Nat /\ b.p50 \in Nat /\ b.p90 \in Nat
      /\ b.upper \in Nat /\ b.visible \in Nat
  BY DEF Beliefs
<1> DEFINE lower == NotNegative(b.lower - 10 * size)
           p10 == NotNegative(b.p10 - 10 * size)
           p50 == NotNegative(b.p50 - 10 * size)
           p90 == NotNegative(b.p90 - 10 * size)
           upper == NotNegative(b.upper - 10 * size)
<1>2. /\ lower \in Nat /\ p10 \in Nat /\ p50 \in Nat /\ p90 \in Nat /\ upper \in Nat
      /\ Ordered(b) => lower <= p10 /\ p10 <= p50 /\ p50 <= p90 /\ p90 <= upper
  BY <1>1 DEF NotNegative, Ordered
<1>3. ObserveTrade(b, size)
        = [b EXCEPT !.lower = lower, !.p10 = p10, !.p50 = p50, !.p90 = p90, !.upper = upper]
  BY DEF ObserveTrade
<1> HIDE DEF lower, p10, p50, p90, upper
<1>4. ObserveTrade(b, size)
        = [lower |-> lower, p10 |-> p10, p50 |-> p50, p90 |-> p90, upper |-> upper,
           visible |-> b.visible]
  BY <1>3 DEF Beliefs
<1> QED
  BY <1>1, <1>2, <1>4 DEF Beliefs, Ordered

LEMMA ObserveVisibleBelief ==
  ASSUME NEW b \in Beliefs, NEW visible \in Nat
  PROVE  /\ ObserveVisible(b, visible) \in Beliefs
         /\ Ordered(b) => Ordered(ObserveVisible(b, visible))
<1> DEFINE removed == NotNegative(b.visible - visible)
           lower == NotNegative(b.lower - 10 * removed)
           p10 == Clamped(NotNegative(b.p10 - removed), lower, b.upper)
           p50 == Clamped(NotNegative(b.p50 - 5 * removed), p10, b.upper)
           p90 == Clamped(NotNegative(b.p90 - 9 * removed), p50, b.upper)
<1>1. /\ b.lower \in Nat /\ b.p10 \in Nat /\ b.p50 \in Nat /\ b.p90 \in Nat
      /\ b.upper \in Nat /\ b.visible \in Nat
  BY DEF Beliefs
<1>2. removed \in Nat
  BY <1>1, NotNegativeNat
<1>3. /\ lower \in Nat /\ NotNegative(b.p10 - removed) \in Nat
      /\ NotNegative(b.p50 - 5 * removed) \in Nat
      /\ NotNegative(b.p90 - 9 * removed) \in Nat
  <2> HIDE DEF removed
  <2> QED BY <1>1, <1>2, NotNegativeNat
<1>4. lower <= b.lower
  <2> HIDE DEF removed
  <2> QED BY <1>1, <1>2 DEF NotNegative
<1> HIDE DEF removed, lower
<1>5. p10 \in Nat /\ (lower <= b.upper => lower <= p10 /\ p10 <= b.upper)
  BY <1>1, <1>3, ClampedBetween
<1> HIDE DEF p10
<1>6. p50 \in Nat /\ (p10 <= b.upper => p10 <= p50 /\ p50 <= b.upper)
  BY <1>1, <1>3, <1>5, ClampedBetween
<1> HIDE DEF p50
<1>7. p90 \in Nat /\ (p50 <= b.upper => p50 <= p90 /\ p90 <= b.upper)
  BY <1>1, <1>3, <1>6, ClampedBetween
<1>8. ObserveVisible(b, visible)
        = [b EXCEPT !.lower = lower, !.p10 = p10, !.p50 = p50, !.p90 = p90, !.visible = visible]
  BY DEF ObserveVisible, removed, lower, p10, p50
<1> HIDE DEF p90
<1>9. ObserveVisible(b, visible) \in Beliefs
  BY <1>3, <1>5, <1>6, <1>7, <1>8 DEF Beliefs
<1>10. ASSUME Ordered(b) PROVE Ordered(ObserveVisible(b, visible))
  <2>1. lower <= b.upper
    BY <1>1, <1>3, <1>4, <1>10 DEF Ordered
  <2>2. lower <= p10 /\ p10 <= p50 /\ p50 <= p90 /\ p90 <= b.upper
    BY <2>1, <1>5, <1>6, <1>7
  <2> QED BY <2>2, <1>8 DEF Ordered, Beliefs
<1> QED BY <1>9, <1>10

LEMMA ObservePartialFillBelief ==
  ASSUME NEW b \in Beliefs
  PROVE  ObservePartialFill(b) \in Beliefs /\ Ordered(ObservePartialFill(b))
<1>1. ObservePartialFill(b)
        = [lower |-> 0, p10 |-> 0, p50 |-> 0, p90 |-> 0, upper |-> 0, visible |-> b.visible]
  <2> DEFINE zero == 0
  <2>1. ObservePartialFill(b)
          = [b EXCEPT !.lower = zero, !.p10 = zero, !.p50 = zero, !.p90 = zero, !.upper = zero]
    BY DEF ObservePartialFill
  <2> HIDE DEF zero
  <2>2. ObservePartialFill(b)
          = [lower |-> zero, p10 |-> zero, p50 |-> zero, p90 |-> zero, upper |-> zero,
             visible |-> b.visible]
    BY <2>1 DEF Beliefs
  <2> QED BY <2>2 DEF zero
<1>2. b.visible \in Nat
  BY DEF Beliefs
<1> QED
  BY <1>1, <1>2 DEF Beliefs, Ordered

-----------------------------------------------------------------------------
(* Type correctness *)

LEMMA PublishedFeed ==
  ASSUME feed \in Seq(Sizes), NEW frames \in Seq(Sizes), Publish(frames)
  PROVE  feed' \in Seq(Sizes)
BY DEF Publish

LEMMA FeedHead ==
  ASSUME feed \in Seq(Sizes), feed # <<>>
  PROVE  Head(feed) \in Sizes /\ Tail(feed) \in Seq(Sizes)
OBVIOUS

LEMMA FrameSizes ==
  ASSUME NEW size \in Nat
  PROVE  Book(size) \in Sizes /\ Trades(size) \in Sizes
BY DEF Book, Trades, Sizes

LEMMA TypeInit == Init => TypeOK
<1> SUFFICES ASSUME Init PROVE TypeOK
  OBVIOUS
<1>1. Initialize(0, 0) \in Beliefs
  BY InitializeBelief
<1> QED BY <1>1, OwnAssumption, LevelAssumption DEF Init, TypeOK, Beliefs

LEMMA TypeStep == TypeOK /\ [Next]_vars => TypeOK'
<1> SUFFICES ASSUME TypeOK, [Next]_vars PROVE TypeOK'
  OBVIOUS
<1> USE OwnAssumption, LevelAssumption
<1>0. belief \in Beliefs /\ Level \in Nat
  BY DEF TypeOK, Beliefs, Level
<1>1. CASE Place
  <2>1. <<Book(Level + Own)>> \in Seq(Sizes)
    BY <1>0, FrameSizes
  <2>2. feed' \in Seq(Sizes)
    BY <1>1, <2>1, PublishedFeed DEF Place, TypeOK
  <2> QED BY <1>1, <2>2 DEF Place, TypeOK
<1>2. CASE Join
  <2>1. PICK lots \in 1 .. MaxLevel - ahead - behind :
          /\ own > 0 /\ behind' = behind + lots
          /\ Publish(<<Book(Level + lots)>>)
          /\ UNCHANGED <<ahead, own, slow, view, watch, belief>>
    BY <1>2 DEF Join
  <2>2. <<Book(Level + lots)>> \in Seq(Sizes)
    BY <1>0, FrameSizes
  <2>3. feed' \in Seq(Sizes)
    BY <2>1, <2>2, PublishedFeed DEF TypeOK
  <2> QED BY <2>1, <2>3 DEF TypeOK
<1>3. CASE Leave
  <2>1. PICK a \in 0 .. ahead, b \in 0 .. behind :
          /\ a + b > 0 /\ ahead' = ahead - a /\ behind' = behind - b
          /\ Publish(<<Book(Level - a - b)>>)
          /\ UNCHANGED <<own, slow, view, watch, belief>>
    BY <1>3 DEF Leave
  <2>2. Level - a - b \in Nat
    BY DEF Level, TypeOK
  <2>3. <<Book(Level - a - b)>> \in Seq(Sizes)
    BY <2>2, FrameSizes
  <2>4. feed' \in Seq(Sizes)
    BY <2>1, <2>3, PublishedFeed DEF TypeOK
  <2> QED BY <2>1, <2>4 DEF TypeOK
<1>4. CASE Take
  <2>1. PICK lots \in 1 .. Level :
          /\ ahead' = ahead - Smaller(lots, ahead)
          /\ own' = own - Smaller(lots - Smaller(lots, ahead), own)
          /\ behind' = behind - (lots - Smaller(lots, ahead)
                                   - Smaller(lots - Smaller(lots, ahead), own))
          /\ \/ Publish(<<Trades(lots), Book(Level - lots)>>)
             \/ Publish(<<Book(Level - lots), Trades(lots)>>)
          /\ UNCHANGED <<slow, view, watch, belief>>
    BY <1>4 DEF Take
  <2>2. ahead' \in Nat /\ own' \in 0 .. Own /\ behind' \in Nat
    BY <2>1 DEF Smaller, Level, TypeOK
  <2>3. lots \in Nat /\ Level - lots \in Nat
    BY <1>0, <2>1
  <2>4. /\ <<Trades(lots), Book(Level - lots)>> \in Seq(Sizes)
        /\ <<Book(Level - lots), Trades(lots)>> \in Seq(Sizes)
    BY <2>3, FrameSizes
  <2>5. feed' \in Seq(Sizes)
    BY <2>1, <2>4, PublishedFeed DEF TypeOK
  <2> QED BY <2>1, <2>2, <2>5 DEF TypeOK
<1>5. CASE Open
  <2>1. Initialize(view, own) \in Beliefs
    BY InitializeBelief DEF TypeOK
  <2> QED BY <1>5, <2>1 DEF Open, TypeOK, Beliefs
<1>6. CASE BookFrame
  <2>1. Head(feed).size \in Nat /\ feed' \in Seq(Sizes)
    BY <1>6, FeedHead DEF BookFrame, TypeOK, Sizes
  <2>2. view' \in Nat
    BY <1>6, <2>1 DEF BookFrame
  <2>3. belief' \in Beliefs
    BY <1>6, <1>0, <2>2, ObserveVisibleBelief DEF BookFrame
  <2> QED BY <1>6, <2>1, <2>2, <2>3 DEF BookFrame, TypeOK, Beliefs
<1>7. CASE TradeFrame
  <2>1. Head(feed).size \in Nat /\ feed' \in Seq(Sizes)
    BY <1>7, FeedHead DEF TradeFrame, TypeOK, Sizes
  <2>2. belief' \in Beliefs
    BY <1>7, <1>0, <2>1, ObserveTradeBelief DEF TradeFrame
  <2> QED BY <1>7, <2>1, <2>2 DEF TradeFrame, TypeOK, Beliefs
<1>8. CASE Fill
  <2>1. belief' \in Beliefs
    BY <1>8, <1>0, ObservePartialFillBelief DEF Fill
  <2> QED BY <1>8, <2>1 DEF Fill, TypeOK, Beliefs
<1>9. CASE Picture
  BY <1>9, <1>0 DEF Picture, TypeOK
<1>10. CASE DefaultBookFrame
  <2>1. view' \in Nat
    BY <1>10 DEF DefaultBookFrame, TypeOK
  <2>2. belief' \in Beliefs
    BY <1>10, <1>0, <2>1, ObserveVisibleBelief DEF DefaultBookFrame
  <2> QED BY <1>10, <2>1, <2>2 DEF DefaultBookFrame, TypeOK, Beliefs
<1>11. CASE UNCHANGED vars
  BY <1>11 DEF vars, TypeOK
<1> QED BY <1>1, <1>2, <1>3, <1>4, <1>5, <1>6, <1>7, <1>8, <1>9, <1>10, <1>11 DEF Next

\* Every reachable state is well-typed: no size of the belief is ever negative.
THEOREM TypeCorrect == Spec => []TypeOK
BY TypeInit, TypeStep, PTL DEF Spec

-----------------------------------------------------------------------------
(* The quantiles stay ordered.  QuantilesOrdered is inductive relative to      *)
(* TypeOK: each observation maps an ordered belief to an ordered one.          *)

LEMMA OrderedInit == Init => QuantilesOrdered
BY InitializeBelief DEF Init, Ordered, QuantilesOrdered

LEMMA OrderedStep == TypeOK /\ QuantilesOrdered /\ [Next]_vars => QuantilesOrdered'
<1> SUFFICES ASSUME TypeOK, QuantilesOrdered, [Next]_vars PROVE QuantilesOrdered'
  OBVIOUS
<1>0. belief \in Beliefs /\ Ordered(belief)
  BY DEF TypeOK, QuantilesOrdered, Beliefs, Ordered
<1> SUFFICES Ordered(belief')
  BY DEF QuantilesOrdered, Ordered
<1>1. CASE UNCHANGED belief
  BY <1>0, <1>1
<1>2. CASE Open
  BY <1>2, InitializeBelief DEF Open, TypeOK
<1>3. CASE BookFrame
  <2>1. view' \in Nat
    BY <1>3, FeedHead DEF BookFrame, TypeOK, Sizes
  <2> QED BY <1>3, <1>0, <2>1, ObserveVisibleBelief DEF BookFrame
<1>4. CASE TradeFrame
  <2>1. Head(feed).size \in Nat
    BY <1>4, FeedHead DEF TradeFrame, TypeOK, Sizes
  <2> QED BY <1>4, <1>0, <2>1, ObserveTradeBelief DEF TradeFrame
<1>5. CASE Fill
  BY <1>5, <1>0, ObservePartialFillBelief DEF Fill
<1>6. Place \/ Join \/ Leave \/ Take \/ Picture => UNCHANGED belief
  BY DEF Place, Join, Leave, Take, Picture
<1>7. CASE DefaultBookFrame
  <2>1. view' \in Nat
    BY <1>7 DEF DefaultBookFrame, TypeOK
  <2> QED BY <1>7, <1>0, <2>1, ObserveVisibleBelief DEF DefaultBookFrame
<1> QED BY <1>1, <1>2, <1>3, <1>4, <1>5, <1>6, <1>7 DEF Next, vars

\* Whatever frames and fills arrive, in whatever order, the quantiles stay ordered
\* between the bounds: the clamps of observe_visible never meet crossed bounds.
THEOREM BeliefOrdered == Spec => []QuantilesOrdered
<1>1. Init => TypeOK /\ QuantilesOrdered
  BY TypeInit, OrderedInit
<1>2. (TypeOK /\ QuantilesOrdered) /\ [Next]_vars => (TypeOK /\ QuantilesOrdered)'
  BY TypeStep, OrderedStep
<1> QED BY <1>1, <1>2, PTL DEF Spec

-----------------------------------------------------------------------------
(* The bounds hold what is ahead.  The lower bound never leaves 0.  For the    *)
(* upper bound the trades that are still on their way count: each of them will *)
(* lower it.  Their sums are the values of a function of the positions in the  *)
(* feed, of which the invariant says that it exists; a frame that is published *)
(* or handled gives the next one, so no induction over the feed is needed.     *)

\* What a frame takes from the upper bound when it is handled.
Traded(frame) == IF frame.kind = "trade" THEN frame.size ELSE 0

\* w[i] lots are traded in the frames of f from the i-th on.
SuffixSums(w, f) == /\ w \in [1 .. Len(f) + 1 -> Nat] /\ w[Len(f) + 1] = 0
                    /\ \A i \in 1 .. Len(f) : w[i] = Traded(f[i]) + w[i + 1]

\* Trades take the order only when nothing is ahead of it.
FirstInFirstOut == watch # "unplaced" /\ own < Own => ahead = 0

\* Either nothing is ahead, or the upper bound will still cover it when all that
\* was traded has been observed.
Covered(w) == ahead = 0 \/ belief.upper >= 10 * (ahead + w[1])

BoundsInv == /\ FirstInFirstOut
             /\ watch = "open" => /\ belief.lower = 0
                                  /\ \E w : SuffixSums(w, feed) /\ Covered(w)

LEMMA AppendSums ==
  ASSUME NEW f \in Seq(Sizes), NEW frame \in Sizes, NEW w, SuffixSums(w, f)
  PROVE  \E u : SuffixSums(u, f \o <<frame>>) /\ u[1] = w[1] + Traded(frame)
<1> DEFINE u == [i \in 1 .. Len(f) + 2 |-> IF i <= Len(f) + 1 THEN w[i] + Traded(frame) ELSE 0]
           g == f \o <<frame>>
<1>1. Traded(frame) \in Nat
  BY DEF Traded, Sizes
<1>2. Len(f) \in Nat /\ Len(g) = Len(f) + 1 /\ g[Len(f) + 1] = frame
  OBVIOUS
<1>3. \A i \in 1 .. Len(f) : g[i] = f[i]
  OBVIOUS
<1>4. u \in [1 .. Len(g) + 1 -> Nat] /\ u[Len(g) + 1] = 0 /\ u[1] = w[1] + Traded(frame)
  BY <1>1, <1>2 DEF SuffixSums
<1>5. ASSUME NEW i \in 1 .. Len(g) PROVE u[i] = Traded(g[i]) + u[i + 1]
  <2>1. CASE i <= Len(f)
    <3>1. u[i] = w[i] + Traded(frame) /\ u[i + 1] = w[i + 1] + Traded(frame)
      BY <1>2, <2>1
    <3>2. w[i] = Traded(f[i]) + w[i + 1] /\ w[i] \in Nat /\ w[i + 1] \in Nat
      BY <1>2, <2>1 DEF SuffixSums
    <3>3. f[i] \in Sizes /\ g[i] = f[i]
      BY <1>2, <1>3, <2>1
    <3>4. Traded(g[i]) = Traded(f[i]) /\ Traded(f[i]) \in Nat
      BY <3>3 DEF Traded, Sizes
    <3> QED BY <3>1, <3>2, <3>4, <1>1
  <2>2. CASE i = Len(f) + 1
    <3>1. u[i] = w[i] + Traded(frame) /\ u[i + 1] = 0 /\ w[i] = 0
      BY <1>2, <2>2 DEF SuffixSums
    <3> QED BY <3>1, <1>1, <1>2, <2>2
  <2> QED BY <1>2, <2>1, <2>2
<1>6. SuffixSums(u, g)
  BY <1>4, <1>5 DEF SuffixSums
<1> QED BY <1>4, <1>6

LEMMA TailSums ==
  ASSUME NEW f \in Seq(Sizes), f # <<>>, NEW w, SuffixSums(w, f)
  PROVE  \E u : SuffixSums(u, Tail(f)) /\ w[1] = Traded(Head(f)) + u[1]
<1> DEFINE u == [i \in 1 .. Len(f) |-> w[i + 1]]
<1>1. /\ Len(f) \in Nat \ {0} /\ Len(Tail(f)) = Len(f) - 1 /\ Head(f) = f[1]
      /\ \A i \in 1 .. Len(f) - 1 : Tail(f)[i] = f[i + 1]
  OBVIOUS
<1>2. u \in [1 .. Len(Tail(f)) + 1 -> Nat] /\ u[Len(Tail(f)) + 1] = 0
  BY <1>1 DEF SuffixSums
<1>3. w[1] = Traded(f[1]) + w[2] /\ u[1] = w[2]
  BY <1>1 DEF SuffixSums
<1>4. ASSUME NEW i \in 1 .. Len(Tail(f)) PROVE u[i] = Traded(Tail(f)[i]) + u[i + 1]
  <2>1. w[i + 1] = Traded(f[i + 1]) + w[i + 2]
    BY <1>1 DEF SuffixSums
  <2>2. u[i] = w[i + 1] /\ u[i + 1] = w[i + 2] /\ Tail(f)[i] = f[i + 1]
    BY <1>1
  <2> QED BY <2>1, <2>2
<1> QED BY <1>1, <1>2, <1>3, <1>4 DEF SuffixSums

LEMMA BoundsInit == Init => BoundsInv
BY DEF Init, BoundsInv, FirstInFirstOut

\* Publishing one frame that trades nothing keeps the cover.
LEMMA BookKeepsCover ==
  ASSUME TypeOK, NEW size \in Nat, feed' = feed \o <<Book(size)>>,
         \E w : SuffixSums(w, feed) /\ Covered(w),
         ahead' \in Nat, ahead' <= ahead, belief' = belief
  PROVE  \E w : SuffixSums(w, feed') /\ Covered(w)'
<1>1. PICK w : SuffixSums(w, feed) /\ Covered(w)
  OBVIOUS
<1>2. PICK u : SuffixSums(u, feed \o <<Book(size)>>) /\ u[1] = w[1] + Traded(Book(size))
  BY <1>1, AppendSums, FrameSizes DEF TypeOK
<1>3. Traded(Book(size)) = 0 /\ w[1] \in Nat
  <2>1. Len(feed) \in Nat
    BY DEF TypeOK
  <2>2. w[1] \in Nat
    BY <1>1, <2>1 DEF SuffixSums
  <2> QED BY <2>2 DEF Traded, Book
<1>4. u[1] = w[1]
  BY <1>2, <1>3
<1>5. ahead' = 0 \/ belief'.upper >= 10 * (ahead' + u[1])
  <2>1. ahead \in Nat /\ belief.upper \in Nat /\ belief'.upper = belief.upper
    BY DEF TypeOK
  <2>2. ahead = 0 \/ belief.upper >= 10 * (ahead + w[1])
    BY <1>1 DEF Covered
  <2> QED BY <1>3, <1>4, <2>1, <2>2
<1> QED BY <1>2, <1>5 DEF Covered

\* Handling a frame that trades nothing keeps the cover.
LEMMA HandledBookKeepsCover ==
  ASSUME TypeOK, feed # <<>>, Head(feed).kind = "book", feed' = Tail(feed),
         \E w : SuffixSums(w, feed) /\ Covered(w),
         ahead' = ahead, belief'.upper = belief.upper
  PROVE  \E w : SuffixSums(w, feed') /\ Covered(w)'
<1>1. PICK w : SuffixSums(w, feed) /\ Covered(w)
  OBVIOUS
<1>2. PICK u : SuffixSums(u, Tail(feed)) /\ w[1] = Traded(Head(feed)) + u[1]
  BY <1>1, TailSums DEF TypeOK
<1>3. Traded(Head(feed)) = 0 /\ u[1] \in Nat
  <2>1. Len(Tail(feed)) \in Nat
    BY DEF TypeOK
  <2> QED BY <1>2, <2>1 DEF Traded, SuffixSums
<1>4. u[1] = w[1]
  BY <1>2, <1>3
<1> QED BY <1>1, <1>2, <1>4 DEF Covered

LEMMA VisibleKeepsBounds ==
  ASSUME NEW b \in Beliefs, NEW visible \in Nat
  PROVE  /\ ObserveVisible(b, visible).upper = b.upper
         /\ b.lower = 0 => ObserveVisible(b, visible).lower = 0
BY DEF ObserveVisible, NotNegative, Beliefs

\* The bounds after a frame of a book, whatever it shows.
LEMMA BookFrameBounds ==
  ASSUME TypeOK, BoundsInv, NEW visible \in Nat, watch = "open",
         belief' = IF watch = "open" /\ visible > 0
                   THEN ObserveVisible(belief, visible) ELSE belief
  PROVE  belief'.lower = 0 /\ belief'.upper = belief.upper
BY VisibleKeepsBounds DEF TypeOK, Beliefs, BoundsInv

LEMMA TakeBounds ==
  ASSUME TypeOK, BoundsInv, Take
  PROVE  BoundsInv'
<1> USE OwnAssumption
<1>1. PICK lots \in 1 .. Level :
        /\ ahead' = ahead - Smaller(lots, ahead)
        /\ own' = own - Smaller(lots - Smaller(lots, ahead), own)
        /\ \/ feed' = feed \o <<Trades(lots), Book(Level - lots)>>
           \/ feed' = feed \o <<Book(Level - lots), Trades(lots)>>
        /\ UNCHANGED <<slow, view, watch, belief>>
  BY DEF Take, Publish
<1>2. ahead \in Nat /\ own \in 0 .. Own /\ Level \in Nat /\ lots \in Nat /\ Level - lots \in Nat
  BY <1>1 DEF TypeOK, Level
<1>3. \/ ahead' = 0
      \/ lots < ahead /\ ahead' = ahead - lots /\ own' = own
  BY <1>1, <1>2 DEF Smaller
<1>4. FirstInFirstOut'
  BY <1>1, <1>2, <1>3 DEF BoundsInv, FirstInFirstOut
<1>5. ASSUME watch = "open" PROVE \E w : SuffixSums(w, feed') /\ Covered(w)'
  <2>1. PICK w : SuffixSums(w, feed) /\ Covered(w)
    BY <1>5 DEF BoundsInv
  <2>2. Trades(lots) \in Sizes /\ Book(Level - lots) \in Sizes /\ feed \in Seq(Sizes)
    BY <1>2, FrameSizes DEF TypeOK
  <2>3. Traded(Trades(lots)) = lots /\ Traded(Book(Level - lots)) = 0
    BY DEF Traded, Trades, Book
  <2>4. w[1] \in Nat
    <3>1. Len(feed) \in Nat
      BY <2>2
    <3> QED BY <2>1, <3>1 DEF SuffixSums
  <2>5. \E u : SuffixSums(u, feed') /\ u[1] = w[1] + lots
    <3>1. CASE feed' = feed \o <<Trades(lots), Book(Level - lots)>>
      <4>1. PICK v : SuffixSums(v, feed \o <<Trades(lots)>>) /\ v[1] = w[1] + Traded(Trades(lots))
        BY <2>1, <2>2, AppendSums
      <4>2. feed \o <<Trades(lots)>> \in Seq(Sizes)
        BY <2>2
      <4>3. PICK u : /\ SuffixSums(u, (feed \o <<Trades(lots)>>) \o <<Book(Level - lots)>>)
                     /\ u[1] = v[1] + Traded(Book(Level - lots))
        BY <4>1, <4>2, <2>2, AppendSums
      <4>4. feed' = (feed \o <<Trades(lots)>>) \o <<Book(Level - lots)>>
        BY <3>1, <2>2
      <4> QED BY <4>1, <4>3, <4>4, <2>3, <2>4, <1>2
    <3>2. CASE feed' = feed \o <<Book(Level - lots), Trades(lots)>>
      <4>1. PICK v : /\ SuffixSums(v, feed \o <<Book(Level - lots)>>)
                     /\ v[1] = w[1] + Traded(Book(Level - lots))
        BY <2>1, <2>2, AppendSums
      <4>2. feed \o <<Book(Level - lots)>> \in Seq(Sizes)
        BY <2>2
      <4>3. PICK u : /\ SuffixSums(u, (feed \o <<Book(Level - lots)>>) \o <<Trades(lots)>>)
                     /\ u[1] = v[1] + Traded(Trades(lots))
        BY <4>1, <4>2, <2>2, AppendSums
      <4>4. feed' = (feed \o <<Book(Level - lots)>>) \o <<Trades(lots)>>
        BY <3>2, <2>2
      <4> QED BY <4>1, <4>3, <4>4, <2>3, <2>4, <1>2
    <3> QED BY <1>1, <3>1, <3>2
  <2>6. PICK u : SuffixSums(u, feed') /\ u[1] = w[1] + lots
    BY <2>5
  <2>7. Covered(u)'
    <3>1. belief'.upper = belief.upper /\ belief.upper \in Nat
      BY <1>1 DEF TypeOK
    <3> QED BY <1>2, <1>3, <2>1, <2>4, <2>6, <3>1 DEF Covered
  <2> QED BY <2>6, <2>7
<1> QED BY <1>1, <1>4, <1>5 DEF BoundsInv

LEMMA TradeFrameBounds ==
  ASSUME TypeOK, BoundsInv, TradeFrame
  PROVE  BoundsInv'
<1>1. /\ feed # <<>> /\ Head(feed).kind = "trade" /\ feed' = Tail(feed)
      /\ UNCHANGED <<ahead, own, watch>>
  BY DEF TradeFrame
<1>2. FirstInFirstOut'
  BY <1>1 DEF BoundsInv, FirstInFirstOut
<1>3. ASSUME watch = "open"
      PROVE  belief'.lower = 0 /\ \E w : SuffixSums(w, feed') /\ Covered(w)'
  <2>1. PICK w : SuffixSums(w, feed) /\ Covered(w)
    BY <1>3 DEF BoundsInv
  <2>2. PICK u : SuffixSums(u, Tail(feed)) /\ w[1] = Traded(Head(feed)) + u[1]
    BY <1>1, <2>1, TailSums DEF TypeOK
  <2>3. Traded(Head(feed)) = Head(feed).size /\ Head(feed).size \in Nat
    BY <1>1, FeedHead DEF Traded, TypeOK, Sizes
  <2>4. u[1] \in Nat
    <3>1. Len(Tail(feed)) \in Nat
      BY <1>1 DEF TypeOK
    <3> QED BY <2>2, <3>1 DEF SuffixSums
  <2>5. /\ belief'.upper = NotNegative(belief.upper - 10 * Head(feed).size)
        /\ belief'.lower = NotNegative(belief.lower - 10 * Head(feed).size)
    BY <1>3 DEF TradeFrame, ObserveTrade, TypeOK
  <2>6. belief.upper \in Nat /\ belief.lower = 0 /\ ahead \in Nat
    BY <1>3 DEF TypeOK, BoundsInv
  <2>7. belief'.lower = 0
    BY <2>3, <2>5, <2>6 DEF NotNegative
  <2>8. Covered(u)'
    <3>1. CASE ahead = 0
      BY <1>1, <3>1 DEF Covered
    <3>2. CASE belief.upper >= 10 * (ahead + w[1])
      <4>1. belief.upper - 10 * Head(feed).size >= 10 * (ahead + u[1])
        BY <2>2, <2>3, <2>4, <2>6, <3>2
      <4>2. belief'.upper >= 10 * (ahead + u[1])
        BY <2>3, <2>4, <2>5, <2>6, <4>1 DEF NotNegative
      <4> QED BY <1>1, <4>2 DEF Covered
    <3> QED BY <2>1, <3>1, <3>2 DEF Covered
  <2> QED BY <1>1, <2>2, <2>7, <2>8
<1> QED BY <1>1, <1>2, <1>3 DEF BoundsInv

LEMMA OpenBounds ==
  ASSUME TypeOK, BoundsInv, InSync, Open
  PROVE  BoundsInv'
<1> DEFINE w == [i \in 1 .. 1 |-> 0]
<1>1. /\ feed = <<>> /\ feed' = feed /\ view = Level /\ watch = "placed"
      /\ belief' = Initialize(view, own) /\ UNCHANGED <<ahead, own, behind>>
  BY DEF Open
<1>2. ahead \in Nat /\ own \in Nat /\ behind \in Nat
  BY OwnAssumption DEF TypeOK
<1>3. belief'.lower = 0 /\ belief'.upper = 10 * (ahead + behind)
  BY <1>1, <1>2 DEF Initialize, NotNegative, Level
<1>4. SuffixSums(w, feed')
  <2>1. Len(feed') = 0
    BY <1>1
  <2> QED BY <2>1 DEF SuffixSums
<1>5. Covered(w)'
  BY <1>1, <1>2, <1>3 DEF Covered
<1>6. FirstInFirstOut'
  BY <1>1 DEF BoundsInv, FirstInFirstOut
<1> QED BY <1>3, <1>4, <1>5, <1>6 DEF BoundsInv

LEMMA BoundsStep ==
  ASSUME InSync
  PROVE  TypeOK /\ BoundsInv /\ [Next]_vars => BoundsInv'
<1> SUFFICES ASSUME TypeOK, BoundsInv, [Next]_vars PROVE BoundsInv'
  OBVIOUS
<1> USE OwnAssumption
<1>1. CASE Place
  BY <1>1 DEF Place, BoundsInv, FirstInFirstOut
<1>2. CASE Join
  <2>1. PICK lots \in 1 .. MaxLevel - ahead - behind :
          feed' = feed \o <<Book(Level + lots)>> /\ UNCHANGED <<ahead, own, watch, belief>>
    BY <1>2 DEF Join, Publish
  <2>2. Level + lots \in Nat
    BY LevelAssumption DEF Level, TypeOK
  <2>3. ahead' \in Nat /\ ahead' <= ahead /\ belief' = belief
    BY <2>1 DEF TypeOK
  <2>4. watch = "open" => \E w : SuffixSums(w, feed') /\ Covered(w)'
    BY <2>1, <2>2, <2>3, BookKeepsCover DEF BoundsInv
  <2> QED BY <2>1, <2>4 DEF BoundsInv, FirstInFirstOut
<1>3. CASE Leave
  <2>1. PICK a \in 0 .. ahead, b \in 0 .. behind :
          /\ feed' = feed \o <<Book(Level - a - b)>> /\ ahead' = ahead - a
          /\ UNCHANGED <<own, watch, belief>>
    BY <1>3 DEF Leave, Publish
  <2>2. Level - a - b \in Nat /\ ahead' \in Nat /\ ahead' <= ahead
    BY <2>1 DEF Level, TypeOK
  <2>3. watch = "open" => \E w : SuffixSums(w, feed') /\ Covered(w)'
    BY <2>1, <2>2, BookKeepsCover DEF BoundsInv
  <2>4. FirstInFirstOut'
    BY <2>1, <2>2 DEF BoundsInv, FirstInFirstOut, TypeOK
  <2> QED BY <2>1, <2>3, <2>4 DEF BoundsInv
<1>4. CASE Take
  BY <1>4, TakeBounds
<1>5. CASE Picture
  BY <1>5 DEF Picture, BoundsInv, FirstInFirstOut, Covered
<1>6. CASE Open
  BY <1>6, OpenBounds
<1>7. CASE BookFrame
  <2>1. /\ feed # <<>> /\ Head(feed).kind = "book" /\ feed' = Tail(feed)
        /\ UNCHANGED <<ahead, own, watch>>
    BY <1>7 DEF BookFrame
  <2>2. view' \in Nat
    BY <1>7, FeedHead DEF BookFrame, TypeOK, Sizes
  <2>3. watch = "open" => belief'.lower = 0 /\ belief'.upper = belief.upper
    BY <1>7, <2>2, BookFrameBounds DEF BookFrame
  <2>4. watch = "open" => \E w : SuffixSums(w, feed') /\ Covered(w)'
    BY <2>1, <2>3, HandledBookKeepsCover DEF BoundsInv
  <2> QED BY <2>1, <2>3, <2>4 DEF BoundsInv, FirstInFirstOut
<1>8. CASE DefaultBookFrame
  <2>1. view' \in Nat /\ UNCHANGED <<ahead, own, feed, watch>>
    BY <1>8 DEF DefaultBookFrame, TypeOK
  <2>2. watch = "open" => belief'.lower = 0 /\ belief'.upper = belief.upper
    BY <1>8, <2>1, BookFrameBounds DEF DefaultBookFrame
  <2> QED BY <2>1, <2>2 DEF BoundsInv, FirstInFirstOut, Covered
<1>9. CASE TradeFrame
  BY <1>9, TradeFrameBounds
<1>10. CASE Fill
  <2>1. /\ ahead = 0 /\ UNCHANGED <<ahead, own, feed>> /\ watch = "open"
        /\ watch' # "unplaced"
    BY <1>10 DEF Fill, BoundsInv, FirstInFirstOut, TypeOK
  <2>2. belief'.lower = 0
    BY <1>10 DEF Fill, ObservePartialFill, TypeOK
  <2>3. \E w : SuffixSums(w, feed') /\ Covered(w)'
    BY <2>1 DEF BoundsInv, Covered
  <2> QED BY <2>1, <2>2, <2>3 DEF BoundsInv, FirstInFirstOut
<1>11. CASE UNCHANGED vars
  BY <1>11 DEF vars, BoundsInv, FirstInFirstOut, Covered
<1> QED BY <1>1, <1>2, <1>3, <1>4, <1>5, <1>6, <1>7, <1>8, <1>9, <1>10, <1>11 DEF Next

LEMMA BoundsImply == TypeOK /\ BoundsInv => BoundsHoldAhead
<1> SUFFICES ASSUME TypeOK, BoundsInv, watch = "open"
             PROVE  10 * ahead \in belief.lower .. belief.upper
  BY DEF BoundsHoldAhead
<1>1. PICK w : SuffixSums(w, feed) /\ Covered(w)
  BY DEF BoundsInv
<1>2. w[1] \in Nat
  <2>1. Len(feed) \in Nat
    BY DEF TypeOK
  <2> QED BY <1>1, <2>1 DEF SuffixSums
<1>3. belief.lower = 0 /\ belief.upper \in Nat /\ ahead \in Nat
  BY DEF BoundsInv, TypeOK
<1> QED BY <1>1, <1>2, <1>3 DEF Covered

\* When the belief starts from the present state of the level, its bounds hold
\* what is ahead of the order for ever after: for every order size and level,
\* every number of frames on their way, and every mixture of two feeds' books.
THEOREM BeliefHoldsAhead ==
  ASSUME InSync
  PROVE  Spec => []BoundsHoldAhead
<1>1. Init => TypeOK /\ BoundsInv
  BY TypeInit, BoundsInit
<1>2. (TypeOK /\ BoundsInv) /\ [Next]_vars => (TypeOK /\ BoundsInv)'
  BY TypeStep, BoundsStep
<1>3. TypeOK /\ BoundsInv => BoundsHoldAhead
  BY BoundsImply
<1> QED BY <1>1, <1>2, <1>3, PTL DEF Spec
=============================================================================
