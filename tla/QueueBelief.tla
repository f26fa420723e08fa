----------------------------- MODULE QueueBelief -----------------------------
(***************************************************************************)
(* The queue belief of state.rs: an interval, with quantiles, for the size *)
(* ahead of the resting probe order, estimated from aggregate book frames  *)
(* and trades, beside the price level as the exchange really keeps it.     *)
(* Sizes are lots; the belief counts tenths of a lot, so that the weights  *)
(* .1, .5 and .9 of the code are exact (f64 rounding is left out).         *)
(***************************************************************************)
EXTENDS Integers, Sequences

CONSTANTS Own,       \* lots of the probe order
          MaxLevel,  \* bound: lots at the price level
          MaxFeed,   \* bound: public frames on their way
          InSync     \* whether the private "open" waits for the public frames before it, and
                     \* the book received last is then not an older default book

ASSUME OwnAssumption == Own \in Nat \ {0}
ASSUME LevelAssumption == MaxLevel \in Nat /\ MaxFeed \in Nat /\ InSync \in BOOLEAN

VARIABLES ahead,   \* lots truly ahead of the order (all lots, before it is placed)
          own,     \* lots left of the order
          behind,  \* lots behind the order
          feed,    \* frames of the fast books and of the trades, oldest first
          slow,    \* the size in a default book on its way, NoFrame for none
          view,    \* the size of the level in book_for_queue
          watch,   \* "unplaced", "placed", "open" (Resting or Partial), "done"
          belief   \* queue_belief of the active probe

vars == <<ahead, own, behind, feed, slow, view, watch, belief>>

NoFrame == -1

-----------------------------------------------------------------------------
(* state.rs *)

\* Mutant: max(0.) is forgotten.
Unclamped(x) == x

NotNegative(x) == IF x > 0 THEN x ELSE 0

\* f64::clamp, which panics unless low <= high.
Clamped(x, low, high) == IF x < low THEN low ELSE IF x > high THEN high ELSE x

Initialize(visible, size) ==
  LET possible == NotNegative(visible - size)
  IN [lower |-> 0, p10 |-> possible, p50 |-> 5 * possible, p90 |-> 9 * possible,
      upper |-> 10 * possible, visible |-> visible]

\* Mutant: a trade moves the bounds and leaves the quantiles.
TradeMovesBounds(b, size) ==
  [b EXCEPT !.lower = NotNegative(@ - 10 * size), !.upper = NotNegative(@ - 10 * size)]

ObserveTrade(b, size) ==
  [b EXCEPT !.lower = NotNegative(@ - 10 * size), !.p10 = NotNegative(@ - 10 * size),
            !.p50 = NotNegative(@ - 10 * size), !.p90 = NotNegative(@ - 10 * size),
            !.upper = NotNegative(@ - 10 * size)]

\* Mutant: what disappears from the level is taken to be ahead, as if traded.
RemovalsAreTrades(b, visible) ==
  [ObserveTrade(b, NotNegative(b.visible - visible)) EXCEPT !.visible = visible]

\* Trades and removals both lower the quantiles, but only trades the upper bound.
ObserveVisible(b, visible) ==
  LET removed == NotNegative(b.visible - visible)
      p10 == Clamped(NotNegative(b.p10 - removed), NotNegative(b.lower - 10 * removed), b.upper)
      p50 == Clamped(NotNegative(b.p50 - 5 * removed), p10, b.upper)
      p90 == Clamped(NotNegative(b.p90 - 9 * removed), p50, b.upper)
  IN [b EXCEPT !.lower = NotNegative(@ - 10 * removed), !.p10 = p10, !.p50 = p50, !.p90 = p90,
               !.visible = visible]

ObservePartialFill(b) == [b EXCEPT !.lower = 0, !.p10 = 0, !.p50 = 0, !.p90 = 0, !.upper = 0]

-----------------------------------------------------------------------------
(* The exchange: a first-in first-out level, its book frames and its trades *)

Smaller(a, b) == IF a <= b THEN a ELSE b
Level == ahead + own + behind
Book(size) == [kind |-> "book", size |-> size]
Trades(size) == [kind |-> "trade", size |-> size]

Publish(frames) == Len(feed) + Len(frames) <= MaxFeed /\ feed' = feed \o frames

Init == /\ ahead \in 0 .. MaxLevel /\ own = 0 /\ behind = 0
        /\ feed = <<>> /\ slow = NoFrame /\ view = ahead /\ watch = "unplaced" /\ belief = Initialize(0, 0)

Place == /\ watch = "unplaced" /\ watch' = "placed" /\ own' = Own
         /\ Publish(<<Book(Level + Own)>>)
         /\ UNCHANGED <<ahead, behind, slow, view, belief>>

\* Other participants join behind the order, or leave.
Join == \E lots \in 1 .. MaxLevel - ahead - behind :
          /\ own > 0 /\ behind' = behind + lots
          /\ Publish(<<Book(Level + lots)>>)
          /\ UNCHANGED <<ahead, own, slow, view, watch, belief>>

Leave == \E a \in 0 .. ahead, b \in 0 .. behind :
           /\ a + b > 0 /\ ahead' = ahead - a /\ behind' = behind - b
           /\ Publish(<<Book(Level - a - b)>>)
           /\ UNCHANGED <<own, slow, view, watch, belief>>

\* A taker consumes the level from its head; the two frames come in either order.
Take == \E lots \in 1 .. Level :
  LET fromAhead == Smaller(lots, ahead)
      fromOwn == Smaller(lots - fromAhead, own)
      book == Book(Level - lots)
  IN /\ ahead' = ahead - fromAhead /\ own' = own - fromOwn
     /\ behind' = behind - (lots - fromAhead - fromOwn)
     /\ Publish(<<Trades(lots), book>>) \/ Publish(<<book, Trades(lots)>>)
     /\ UNCHANGED <<slow, view, watch, belief>>

\* The default book is a picture of the level that may arrive when the fast
\* books have long shown what came after it.
Picture == /\ slow = NoFrame /\ slow' = Level
           /\ UNCHANGED <<ahead, own, behind, feed, view, watch, belief>>

-----------------------------------------------------------------------------
(* base.rs *)

\* The first private "open" update initialises the belief from the book received
\* last and remaining_size, for which the lots left now stand in: they differ only
\* once the order has traded, and then nothing is ahead of it.
Open == /\ watch = "placed" /\ own > 0 /\ (InSync => feed = <<>> /\ view = Level)
        /\ watch' = "open" /\ belief' = Initialize(view, own)
        /\ UNCHANGED <<ahead, own, behind, feed, slow, view>>

\* A book frame without the level changes the view only.
BookFrame == /\ feed # <<>> /\ Head(feed).kind = "book"
             /\ feed' = Tail(feed) /\ view' = Head(feed).size
             /\ belief' = IF watch = "open" /\ view' > 0
                          THEN ObserveVisible(belief, view') ELSE belief
             /\ UNCHANGED <<ahead, own, behind, slow, watch>>

\* A default book is the one received last, so book_for_queue picks it although
\* it may be older than the view.
DefaultBookFrame == /\ slow # NoFrame /\ slow' = NoFrame /\ view' = slow
                    /\ belief' = IF watch = "open" /\ view' > 0
                                 THEN ObserveVisible(belief, view') ELSE belief
                    /\ UNCHANGED <<ahead, own, behind, feed, watch>>

TradeFrame == /\ feed # <<>> /\ Head(feed).kind = "trade"
              /\ feed' = Tail(feed)
              /\ belief' = IF watch = "open" THEN ObserveTrade(belief, Head(feed).size) ELSE belief
              /\ UNCHANGED <<ahead, own, behind, slow, view, watch>>

\* The private fill of what was taken of the order; with nothing left the probe
\* leaves the phases that update the belief.
Fill == /\ watch = "open" /\ own < Own
        /\ belief' = ObservePartialFill(belief)
        /\ watch' = IF own > 0 THEN "open" ELSE "done"
        /\ UNCHANGED <<ahead, own, behind, feed, slow, view>>

Next == \/ Place \/ Join \/ Leave \/ Take \/ Picture
        \/ Open \/ BookFrame \/ DefaultBookFrame \/ TradeFrame \/ Fill

Spec == Init /\ [][Next]_vars

-----------------------------------------------------------------------------
(* Properties *)

Sizes == [kind : {"book", "trade"}, size : Nat]

\* The sizes stay the non-negative numbers that the records report.
TypeOK == /\ ahead \in Nat /\ own \in 0 .. Own /\ behind \in Nat
          /\ feed \in Seq(Sizes) /\ slow \in Nat \cup {NoFrame} /\ view \in Nat
          /\ watch \in {"unplaced", "placed", "open", "done"}
          /\ belief \in [lower : Nat, p10 : Nat, p50 : Nat, p90 : Nat, upper : Nat, visible : Nat]

\* The belief is an interval with ordered quantiles whatever frames arrive, so no
\* clamp of the next book frame has its bounds crossed, which would panic
\* (queue_belief_preserves_uncertainty asserts it of one example).
QuantilesOrdered == /\ belief.lower <= belief.p10 /\ belief.p10 <= belief.p50
                    /\ belief.p50 <= belief.p90 /\ belief.p90 <= belief.upper

\* "lower/upper queue-ahead bounds" (README.md): what is really ahead of the order
\* lies between them as long as the order is watched, although the sizes it is
\* judged by jump back and forth between a fast and a slower picture of the level.
BoundsHoldAhead == watch = "open" =>
                     10 * ahead \in belief.lower .. belief.upper
=============================================================================
