-------------------------- MODULE OrderEntry_proofs --------------------------
(***************************************************************************)
(* Theorems about OrderEntry, for every market, every set of prices, every *)
(* list of horizons and every bound: the quotes that are acted on are      *)
(* fresh, prices keep their side, requests are numbered once, and markouts *)
(* are complete.                                                           *)
(***************************************************************************)
EXTENDS OrderEntry, FiniteSetTheorems, TLAPS

-----------------------------------------------------------------------------
(* The market                                                              *)

LEMMA MarketStep ==
  ASSUME MarketTypeOK, MarketNext \/ UNCHANGED market
  PROVE  MarketTypeOK'
<1> USE MarketAssumption
<1>1. CASE Pass
  BY <1>1 DEF Pass, MarketTypeOK
<1>2. ASSUME NEW f \in FeedNames, BookFrame(f) PROVE MarketTypeOK'
  <2>1. PICK q \in Quotes :
          books' = [books EXCEPT ![f] = [bid |-> q.bid, ask |-> q.ask, at |-> now]]
    BY <1>2 DEF BookFrame
  <2>2. q.bid \in Nat /\ q.ask \in Nat
    BY <2>1
  <2> QED BY <1>2, <2>1, <2>2 DEF BookFrame, MarketTypeOK, BookRecords
<1>3. ASSUME NEW socket \in Sockets, Reconnect(socket) PROVE MarketTypeOK'
  BY <1>3 DEF Reconnect, MarketTypeOK, BookRecords, NoBook
<1>4. ASSUME NEW v \in Venues, VenueFrame(v) \/ ReconnectVenue(v) PROVE MarketTypeOK'
  BY <1>4 DEF VenueFrame, ReconnectVenue, MarketTypeOK
<1>5. CASE UNCHANGED market
  BY <1>5 DEF market, MarketTypeOK
<1> QED BY <1>1, <1>2, <1>3, <1>4, <1>5 DEF MarketNext

\* Of three receive times one is not exceeded: some index is a maximum in the
\* order of freshest_hl_book as soon as one book has a midpoint.
LEMMA SomeFreshest ==
  ASSUME MarketTypeOK, NEW k \in 1 .. 3, HasMidpoint(books[Feeds[k]])
  PROVE  Freshest # {}
<1> DEFINE valid(i) == HasMidpoint(books[Feeds[i]])
           at(i) == books[Feeds[i]].at
           above(i, j) == at(j) < at(i) \/ (at(j) = at(i) /\ j <= i)
<1>1. at(1) \in Nat /\ at(2) \in Nat /\ at(3) \in Nat
  BY DEF MarketTypeOK, BookRecords, Feeds, FeedNames
<1>2. Freshest = {i \in 1 .. 3 : valid(i) /\ \A j \in 1 .. 3 : valid(j) => above(i, j)}
  BY DEF Freshest
<1>3. valid(1) \/ valid(2) \/ valid(3)
  BY DEF Feeds
<1> HIDE DEF valid, at
<1>4. \E i \in 1 .. 3 : valid(i) /\ \A j \in {1, 2, 3} : valid(j) => above(i, j)
  BY <1>1, <1>3
<1>5. 1 .. 3 = {1, 2, 3}
  OBVIOUS
<1> QED BY <1>2, <1>4, <1>5

\* A book that is taken was received no earlier than any other with a midpoint.
LEMMA FreshestIsNewest ==
  ASSUME MarketTypeOK, NEW i \in Freshest, NEW j \in 1 .. 3, HasMidpoint(books[Feeds[j]])
  PROVE  books[Feeds[j]].at <= books[Feeds[i]].at
<1>1. books[Feeds[i]].at \in Nat /\ books[Feeds[j]].at \in Nat
  BY DEF MarketTypeOK, BookRecords, Feeds, FeedNames, Freshest
<1> QED BY <1>1 DEF Freshest

LEMMA FreshQuotes == MarketTypeOK => FreshQuotesAreUsed
<1> SUFFICES ASSUME MarketTypeOK, RequiredQuotesFresh
             PROVE  /\ FreshestBook # {}
                    /\ \A b \in FreshestBook : now - b.at <= Freshness
  BY DEF FreshQuotesAreUsed
<1>1. PICK k \in 1 .. 3 : Usable(Feeds[k], Freshness)
  <2>1. Feeds[1] = "hl_bbo" /\ Feeds[2] = "hl_fast_l2"
    BY DEF Feeds
  <2> QED BY <2>1 DEF RequiredQuotesFresh
<1>2. HasMidpoint(books[Feeds[k]]) /\ now - books[Feeds[k]].at <= Freshness
  BY <1>1 DEF Usable, FeedFresh
<1>3. Freshest # {}
  BY <1>2, SomeFreshest
<1>4. ASSUME NEW i \in Freshest PROVE now - books[Feeds[i]].at <= Freshness
  <2>1. books[Feeds[k]].at <= books[Feeds[i]].at
    BY <1>2, FreshestIsNewest
  <2>2. books[Feeds[k]].at \in Nat /\ books[Feeds[i]].at \in Nat /\ now \in Nat
    BY DEF MarketTypeOK, BookRecords, Feeds, FeedNames, Freshest
  <2> QED BY <1>2, <2>1, <2>2, MarketAssumption
<1> QED BY <1>3, <1>4 DEF FreshestBook

-----------------------------------------------------------------------------
(* The gateway                                                             *)

LEMMA GatewayStep ==
  ASSUME GatewayTypeOK, \/ \E sent \in BOOLEAN : SendAction(sent)
                        \/ UNCHANGED <<gateway, written>>
  PROVE  GatewayTypeOK'
<1>1. CASE UNCHANGED <<gateway, written>>
  BY <1>1 DEF GatewayTypeOK
<1>2. ASSUME NEW sent \in BOOLEAN, SendAction(sent) PROVE GatewayTypeOK'
  <2>1. PICK wall \in 1 .. MaxWall :
          /\ gateway' = [nextRequest |-> gateway.nextRequest + 1, lastNonce |-> NextNonce(wall)]
          /\ written' \in {written, written \cup {<<gateway.nextRequest, NextNonce(wall)>>}}
    BY <1>2 DEF SendAction
  <2>2. /\ gateway.nextRequest \in Nat \ {0} /\ gateway.lastNonce \in Nat
        /\ NextNonce(wall) \in Nat \ {0}
    BY GatewayAssumption DEF GatewayTypeOK, NextNonce
  <2> QED BY <2>1, <2>2 DEF GatewayTypeOK
<1> QED BY <1>1, <1>2

\* What was written carries numbers that the gateway has passed.
NumbersPassed ==
  \A r \in written : r[1] < gateway.nextRequest /\ r[2] <= gateway.lastNonce

LEMMA NumbersStep ==
  ASSUME GatewayTypeOK, NumbersPassed, ActionsAreNumberedOnce,
         \/ \E sent \in BOOLEAN : SendAction(sent)
         \/ UNCHANGED <<gateway, written>>
  PROVE  NumbersPassed' /\ ActionsAreNumberedOnce'
<1>1. CASE UNCHANGED <<gateway, written>>
  BY <1>1 DEF NumbersPassed, ActionsAreNumberedOnce
<1>2. ASSUME NEW sent \in BOOLEAN, SendAction(sent)
      PROVE  NumbersPassed' /\ ActionsAreNumberedOnce'
  <2>1. PICK wall \in 1 .. MaxWall :
          /\ gateway' = [nextRequest |-> gateway.nextRequest + 1, lastNonce |-> NextNonce(wall)]
          /\ written' \in {written, written \cup {<<gateway.nextRequest, NextNonce(wall)>>}}
    BY <1>2 DEF SendAction
  <2>2. /\ gateway.nextRequest \in Nat /\ gateway.lastNonce \in Nat
        /\ NextNonce(wall) \in Nat /\ NextNonce(wall) > gateway.lastNonce
    BY GatewayAssumption DEF GatewayTypeOK, NextNonce
  <2>3. \A r \in written : r[1] \in Nat /\ r[2] \in Nat
    BY DEF GatewayTypeOK
  <2>4. \A r \in written : r[1] < gateway.nextRequest /\ r[2] < NextNonce(wall)
    BY <2>2, <2>3 DEF NumbersPassed
  <2>5. NumbersPassed'
    BY <2>1, <2>2, <2>3, <2>4 DEF NumbersPassed
  <2>6. ActionsAreNumberedOnce'
    BY <2>1, <2>2, <2>3, <2>4 DEF ActionsAreNumberedOnce
  <2> QED BY <2>5, <2>6
<1> QED BY <1>1, <1>2

-----------------------------------------------------------------------------
(* Markouts                                                                *)

LEMMA IntervalCardinality ==
  ASSUME NEW a \in Int, NEW b \in Int, a <= b + 1
  PROVE  IsFiniteSet(a .. b) /\ Cardinality(a .. b) = b + 1 - a
<1>1. IsFiniteSet(a .. b) /\ Cardinality(a .. b) = IF a > b THEN 0 ELSE b - a + 1
  BY FS_Interval
<1> QED BY <1>1

\* Horizons grow, so those that are due are the next ones without a gap.
LEMMA DueIsNext ==
  ASSUME MarkoutsTypeOK, NEW p \in pending, NEW t \in Nat
  PROVE  LET n == Cardinality(Due(p, t))
         IN n \in Nat /\ p.next + n <= Len(Horizons) + 1 /\ Due(p, t) = p.next .. p.next + n - 1
<1> DEFINE H == Len(Horizons)
           D == Due(p, t)
           n == Cardinality(D)
<1>1. /\ H \in Nat /\ p.next \in 1 .. H + 1 /\ fills[p.fill] \in Nat
      /\ \A i \in 1 .. H : Horizons[i] \in Nat
      /\ \A i, j \in 1 .. H : i < j => Horizons[i] < Horizons[j]
  BY HorizonsAssumption DEF MarkoutsTypeOK, Fills
<1>2. D \subseteq p.next .. H /\ \A i \in D, j \in p.next .. H : j < i => j \in D
  <2>1. D = {i \in p.next .. H : t - fills[p.fill] >= Horizons[i]}
    BY DEF Due
  <2>2. ASSUME NEW i \in D, NEW j \in p.next .. H, j < i PROVE j \in D
    <3>1. i \in 1 .. H /\ j \in 1 .. H /\ t - fills[p.fill] >= Horizons[i]
      BY <1>1, <2>1, <2>2
    <3>2. Horizons[j] < Horizons[i] /\ Horizons[i] \in Nat /\ Horizons[j] \in Nat
      BY <1>1, <2>2, <3>1
    <3>3. t - fills[p.fill] >= Horizons[j]
      BY <1>1, <3>1, <3>2
    <3> QED BY <2>1, <2>2, <3>3
  <2> QED BY <2>1, <2>2
<1>3. IsFiniteSet(p.next .. H) /\ Cardinality(p.next .. H) = H + 1 - p.next
  <2>1. p.next \in Int /\ H \in Int /\ p.next <= H + 1
    BY <1>1
  <2> HIDE DEF H
  <2> QED BY <2>1, IntervalCardinality
<1>4. IsFiniteSet(D) /\ n \in Nat /\ n <= H + 1 - p.next
  BY <1>1, <1>2, <1>3, FS_Subset, FS_CardinalityType
<1> HIDE DEF D, H
<1>5. ASSUME NEW i \in D PROVE i \in p.next .. p.next + n - 1
  <2>1. i \in p.next .. H /\ p.next .. i \subseteq D
    <3>1. i \in p.next .. H
      BY <1>2
    <3>2. ASSUME NEW j \in p.next .. i PROVE j \in D
      <4>1. j = i \/ (j \in p.next .. H /\ j < i)
        BY <1>1, <3>1
      <4> QED BY <1>2, <4>1
    <3> QED BY <3>1, <3>2
  <2>2. Cardinality(p.next .. i) = i + 1 - p.next
    <3>1. p.next \in Int /\ i \in Int /\ p.next <= i + 1
      BY <1>1, <2>1
    <3> QED BY <3>1, IntervalCardinality
  <2>3. Cardinality(p.next .. i) <= n
    BY <1>4, <2>1, FS_Subset
  <2> QED BY <1>1, <1>4, <2>1, <2>2, <2>3
<1>6. /\ IsFiniteSet(p.next .. p.next + n - 1)
      /\ Cardinality(p.next .. p.next + n - 1) = n
  <2>1. p.next \in Int /\ p.next + n - 1 \in Int /\ p.next <= (p.next + n - 1) + 1
    BY <1>1, <1>4
  <2>2. /\ IsFiniteSet(p.next .. p.next + n - 1)
        /\ Cardinality(p.next .. p.next + n - 1) = (p.next + n - 1) + 1 - p.next
    BY <2>1, IntervalCardinality
  <2>3. (p.next + n - 1) + 1 - p.next = n
    BY <1>1, <1>4
  <2> QED BY <2>2, <2>3
<1>7. D = p.next .. p.next + n - 1
  <2>1. D \subseteq p.next .. p.next + n - 1
    BY <1>5
  <2> QED BY <1>6, <2>1, FS_Subset
<1> QED BY <1>1, <1>4, <1>7 DEF D, H

\* The records of one call and the list after it.
DueSamples(t) == UNION {{<<p.fill, i, t>> : i \in Due(p, t)} : p \in pending}
Advanced(p, t) == [p EXCEPT !.next = @ + Cardinality(Due(p, t))]

LEMMA SampleOutcome ==
  ASSUME NEW t, SampleMarkouts(t)
  PROVE  /\ UNCHANGED <<fills, censored>>
         /\ \/ /\ samples' = samples \cup DueSamples(t)
               /\ pending' = Retain({Advanced(p, t) : p \in pending})
               /\ UNCHANGED writerUp
            \/ /\ \E S \in SUBSET DueSamples(t) : samples' = samples \cup S
               /\ pending' = {Advanced(p, t) : p \in pending}
               /\ writerUp' = FALSE
<1> DEFINE Before(s, u) == s[1] < u[1] \/ (s[1] = u[1] /\ s[2] < u[2])
<1>1. CASE /\ samples' = samples \cup DueSamples(t)
           /\ pending' = Retain({Advanced(p, t) : p \in pending})
           /\ UNCHANGED writerUp
  BY <1>1 DEF SampleMarkouts
<1>2. ASSUME NEW failed \in DueSamples(t),
             samples' = IF writerUp
                        THEN samples \cup {s \in DueSamples(t) : Before(s, failed)}
                        ELSE samples,
             pending' = {Advanced(p, t) : p \in pending}, writerUp' = FALSE
      PROVE  \E S \in SUBSET DueSamples(t) : samples' = samples \cup S
  <2>1. CASE writerUp
    BY <1>2, <2>1
  <2>2. CASE ~writerUp
    <3>1. samples' = samples \cup {}
      BY <1>2, <2>2
    <3> QED BY <3>1
  <2> QED BY <2>1, <2>2
<1> QED BY <1>1, <1>2 DEF SampleMarkouts, DueSamples, Advanced

\* What a call does to one pending fill.
LEMMA AdvancedFill ==
  ASSUME MarkoutsTypeOK, NEW t \in Nat, NEW p \in pending
  PROVE  /\ Advanced(p, t).fill = p.fill
         /\ Advanced(p, t) \in [fill : Fills, next : 1 .. Len(Horizons) + 1]
         /\ p.next <= Advanced(p, t).next
         /\ Due(p, t) = p.next .. Advanced(p, t).next - 1
<1>1. /\ p \in [fill : Fills, next : 1 .. Len(Horizons) + 1] /\ Len(Horizons) \in Nat
      /\ p.next \in Nat /\ p.fill \in Fills
  BY HorizonsAssumption DEF MarkoutsTypeOK
<1> DEFINE n == Cardinality(Due(p, t))
<1>2. n \in Nat /\ p.next + n <= Len(Horizons) + 1 /\ Due(p, t) = p.next .. p.next + n - 1
  BY DueIsNext
<1>3. Advanced(p, t) = [fill |-> p.fill, next |-> p.next + n]
  BY <1>1 DEF Advanced
<1> HIDE DEF n
<1> QED BY <1>1, <1>2, <1>3

LEMMA DueSample ==
  ASSUME MarkoutsTypeOK, NEW t \in Nat, NEW s \in DueSamples(t)
  PROVE  /\ s \in Fills \X (1 .. Len(Horizons)) \X Nat /\ s[3] = t
         /\ t >= fills[s[1]] + Horizons[s[2]]
         /\ \E p \in pending : s[1] = p.fill /\ s[2] \in Due(p, t)
<1>1. PICK p \in pending : s \in {<<p.fill, i, t>> : i \in Due(p, t)}
  BY DEF DueSamples
<1>2. PICK i \in Due(p, t) : s = <<p.fill, i, t>>
  BY <1>1
<1>3. /\ Len(Horizons) \in Nat /\ p.fill \in Fills /\ p.next \in 1 .. Len(Horizons) + 1
      /\ fills[p.fill] \in Nat
  BY HorizonsAssumption DEF MarkoutsTypeOK, Fills
<1>4. i \in 1 .. Len(Horizons) /\ t - fills[p.fill] >= Horizons[i]
  BY <1>3 DEF Due
<1>5. Horizons[i] \in Nat
  BY <1>4, HorizonsAssumption
<1> QED BY <1>2, <1>3, <1>4, <1>5

LEMMA MarkoutsTypeStep ==
  ASSUME MarkoutsTypeOK, NEW t \in Nat,
         \/ FillArrives(t) \/ SampleMarkouts(t)
         \/ (ClearMarkouts /\ Records)
         \/ (Records /\ UNCHANGED <<fills, pending, samples, censored>>)
  PROVE  MarkoutsTypeOK'
<1>0. Len(fills) \in Nat /\ Len(Horizons) \in Nat
  BY HorizonsAssumption DEF MarkoutsTypeOK
<1>1. CASE FillArrives(t)
  <2>1. fills' \in Seq(Nat) /\ Len(fills') = Len(fills) + 1
    BY <1>1 DEF FillArrives, MarkoutsTypeOK
  <2>2. Fills \subseteq Fills' /\ Len(fills) + 1 \in Fills'
    BY <1>0, <2>1 DEF Fills
  <2>3. [fill |-> Len(fills) + 1, next |-> 1] \in [fill : Fills', next : 1 .. Len(Horizons) + 1]
    BY <1>0, <2>2
  <2>4. pending' \subseteq [fill : Fills', next : 1 .. Len(Horizons) + 1]
    BY <1>1, <2>2, <2>3 DEF FillArrives, MarkoutsTypeOK
  <2>5. samples' \subseteq Fills' \X (1 .. Len(Horizons)) \X Nat /\ censored' \subseteq Fills'
    BY <1>1, <2>2 DEF FillArrives, MarkoutsTypeOK
  <2> QED BY <1>1, <2>1, <2>4, <2>5 DEF FillArrives, Records, MarkoutsTypeOK
<1>2. CASE SampleMarkouts(t)
  <2>1. /\ Fills' = Fills /\ UNCHANGED <<fills, censored>> /\ writerUp' \in BOOLEAN
        /\ \E S \in SUBSET DueSamples(t) : samples' = samples \cup S
        /\ pending' \subseteq {Advanced(p, t) : p \in pending}
    BY <1>2, SampleOutcome DEF Fills, Retain, MarkoutsTypeOK
  <2>2. DueSamples(t) \subseteq Fills \X (1 .. Len(Horizons)) \X Nat
    BY DueSample
  <2>3. pending' \subseteq [fill : Fills, next : 1 .. Len(Horizons) + 1]
    BY <2>1, AdvancedFill
  <2> QED BY <2>1, <2>2, <2>3 DEF MarkoutsTypeOK
<1>3. CASE ClearMarkouts /\ Records
  <2>1. {p.fill : p \in pending} \subseteq Fills
    BY DEF MarkoutsTypeOK
  <2> QED BY <1>3, <2>1 DEF ClearMarkouts, Records, MarkoutsTypeOK, Fills
<1>4. CASE Records /\ UNCHANGED <<fills, pending, samples, censored>>
  BY <1>4 DEF Records, MarkoutsTypeOK, Fills
<1> QED BY <1>1, <1>2, <1>3, <1>4

\* A fill is pending once, and is not sampled past its next horizon.
PendingAhead ==
  /\ \A p, q \in pending : p.fill = q.fill => p = q
  /\ \A p \in pending, s \in samples : s[1] = p.fill => s[2] < p.next

\* The two halves of MarkoutsAreComplete.
SamplesAreDue ==
  \A s \in samples :
    /\ s[3] >= fills[s[1]] + Horizons[s[2]]
    /\ \A u \in samples : (s[1] = u[1] /\ s[2] = u[2]) => s = u

PendingIsSampled == \A p \in pending : Sampled(p.fill) = 1 .. p.next - 1
RestIsSampled ==
  \A f \in Fills \ (censored \cup {p.fill : p \in pending}) :
    Sampled(f) = 1 .. Len(Horizons)

LEMMA CompleteParts ==
  MarkoutsAreComplete <=>
    (writerUp => PendingIsSampled /\ RestIsSampled) /\ SamplesAreDue
BY DEF MarkoutsAreComplete, SamplesAreDue, PendingIsSampled, RestIsSampled

\* With the writer gone only the order of the samples is left to show.
LEMMA SampleStep ==
  ASSUME MarkoutsTypeOK, PendingAhead, SamplesAreDue, NEW t \in Nat, SampleMarkouts(t)
  PROVE  PendingAhead' /\ SamplesAreDue'
<1>1. /\ UNCHANGED <<fills, censored>>
      /\ \E S \in SUBSET DueSamples(t) : samples' = samples \cup S
      /\ pending' \subseteq {Advanced(p, t) : p \in pending}
  BY SampleOutcome DEF Retain
<1>2. \A s \in samples' : s \in samples \/ s \in DueSamples(t)
  BY <1>1
<1>3. ASSUME NEW p \in pending
      PROVE  /\ Advanced(p, t).fill = p.fill /\ p.next \in Nat
             /\ Advanced(p, t).next \in Nat /\ p.next <= Advanced(p, t).next
             /\ Due(p, t) = p.next .. Advanced(p, t).next - 1
  <2>1. p.next \in Nat /\ Len(Horizons) \in Nat
    BY HorizonsAssumption DEF MarkoutsTypeOK
  <2> QED BY <2>1, AdvancedFill
<1>4. PendingAhead'
  <2>1. ASSUME NEW a \in pending', NEW b \in pending', a.fill = b.fill PROVE a = b
    <3>1. PICK p \in pending : a = Advanced(p, t)
      BY <1>1
    <3>2. PICK q \in pending : b = Advanced(q, t)
      BY <1>1
    <3>3. p = q
      BY <1>3, <2>1, <3>1, <3>2 DEF PendingAhead
    <3> QED BY <3>1, <3>2, <3>3
  <2>2. ASSUME NEW a \in pending', NEW s \in samples', s[1] = a.fill PROVE s[2] < a.next
    <3>1. PICK p \in pending : a = Advanced(p, t)
      BY <1>1
    <3>2. CASE s \in samples
      <4>1. s[2] \in Nat
        BY <3>2, HorizonsAssumption DEF MarkoutsTypeOK
      <4> QED BY <1>3, <2>2, <3>1, <3>2, <4>1 DEF PendingAhead
    <3>3. CASE s \in DueSamples(t)
      <4>1. PICK q \in pending : s[1] = q.fill /\ s[2] \in Due(q, t)
        BY <3>3, DueSample
      <4>2. p = q
        BY <1>3, <2>2, <3>1, <4>1 DEF PendingAhead
      <4> QED BY <1>3, <3>1, <4>1, <4>2
    <3> QED BY <1>2, <3>2, <3>3
  <2> QED BY <2>1, <2>2 DEF PendingAhead
<1>5. ASSUME NEW s \in samples' PROVE s[3] >= fills'[s[1]] + Horizons[s[2]]
  BY <1>1, <1>2, DueSample DEF SamplesAreDue
<1>6. ASSUME NEW s \in samples', NEW u \in samples', s[1] = u[1], s[2] = u[2] PROVE s = u
  <2>1. ASSUME NEW a \in samples, NEW b \in DueSamples(t), a[1] = b[1], a[2] = b[2]
        PROVE  FALSE
    <3>1. PICK q \in pending : b[1] = q.fill /\ b[2] \in Due(q, t)
      BY DueSample
    <3>2. a[2] < q.next
      BY <2>1, <3>1 DEF PendingAhead
    <3> QED BY <1>3, <2>1, <3>1, <3>2
  <2>2. ASSUME NEW a \in DueSamples(t), NEW b \in DueSamples(t), a[1] = b[1], a[2] = b[2]
        PROVE  a = b
    <3>1. a[3] = t /\ b[3] = t
      BY DueSample
    <3>2. \A c \in DueSamples(t) : c = <<c[1], c[2], c[3]>>
      BY DEF DueSamples
    <3> QED BY <2>2, <3>1, <3>2
  <2> QED BY <1>2, <1>6, <2>1, <2>2 DEF SamplesAreDue
<1> QED BY <1>4, <1>5, <1>6 DEF SamplesAreDue

\* The samples of one fill after a call whose records were all accepted.
LEMMA SampledAfter ==
  ASSUME MarkoutsTypeOK, PendingAhead, NEW t \in Nat, NEW f \in Fills,
         samples' = samples \cup DueSamples(t)
  PROVE  /\ \A p \in pending : p.fill = f => Sampled(f)' = Sampled(f) \cup Due(p, t)
         /\ (\A p \in pending : p.fill # f) => Sampled(f)' = Sampled(f)
<1>1. ASSUME NEW i PROVE i \in Sampled(f) <=> \E s \in samples : s[1] = f /\ s[2] = i
  BY DEF Sampled
<1>2. ASSUME NEW i PROVE i \in Sampled(f)' <=> \E s \in samples' : s[1] = f /\ s[2] = i
  BY DEF Sampled
<1>3. ASSUME NEW p \in pending, NEW i \in Due(p, t)
      PROVE  \E s \in DueSamples(t) : s[1] = p.fill /\ s[2] = i
  <2>1. <<p.fill, i, t>> \in DueSamples(t)
    BY DEF DueSamples
  <2> QED BY <2>1
<1>4. ASSUME NEW s \in DueSamples(t)
      PROVE  \E p \in pending : s[1] = p.fill /\ s[2] \in Due(p, t)
  BY DueSample
<1>5. ASSUME NEW p \in pending, p.fill = f PROVE Sampled(f)' = Sampled(f) \cup Due(p, t)
  <2>1. ASSUME NEW i \in Sampled(f)' PROVE i \in Sampled(f) \cup Due(p, t)
    <3>1. PICK s \in samples' : s[1] = f /\ s[2] = i
      BY <1>2, <2>1
    <3>2. CASE s \in samples
      BY <1>1, <3>1, <3>2
    <3>3. CASE s \in DueSamples(t)
      <4>1. PICK q \in pending : s[1] = q.fill /\ s[2] \in Due(q, t)
        BY <1>4, <3>3
      <4>2. q = p
        BY <1>5, <3>1, <4>1 DEF PendingAhead
      <4> QED BY <3>1, <4>1, <4>2
    <3> QED BY <3>2, <3>3
  <2>2. ASSUME NEW i \in Sampled(f) \cup Due(p, t) PROVE i \in Sampled(f)'
    <3>1. CASE i \in Sampled(f)
      BY <1>1, <1>2, <3>1
    <3>2. CASE i \in Due(p, t)
      BY <1>2, <1>3, <1>5, <3>2
    <3> QED BY <2>2, <3>1, <3>2
  <2> QED BY <2>1, <2>2
<1>6. ASSUME \A p \in pending : p.fill # f PROVE Sampled(f)' = Sampled(f)
  <2>1. ASSUME NEW i \in Sampled(f)' PROVE i \in Sampled(f)
    <3>1. PICK s \in samples' : s[1] = f /\ s[2] = i
      BY <1>2, <2>1
    <3>2. s \in samples
      BY <1>4, <1>6, <3>1
    <3> QED BY <1>1, <3>1, <3>2
  <2>2. ASSUME NEW i \in Sampled(f) PROVE i \in Sampled(f)'
    BY <1>1, <1>2, <2>2
  <2> QED BY <2>1, <2>2
<1> QED BY <1>5, <1>6

LEMMA SampleCompletes ==
  ASSUME MarkoutsTypeOK, PendingAhead, PendingIsSampled, RestIsSampled, NEW t \in Nat,
         UNCHANGED <<fills, censored>>, samples' = samples \cup DueSamples(t),
         pending' = Retain({Advanced(p, t) : p \in pending})
  PROVE  PendingIsSampled' /\ RestIsSampled'
<1>1. Fills' = Fills /\ Len(Horizons) \in Nat
  BY HorizonsAssumption DEF Fills
<1>2. ASSUME NEW p \in pending
      PROVE  /\ p.fill \in Fills /\ Advanced(p, t).fill = p.fill
             /\ Advanced(p, t).next \in 1 .. Len(Horizons) + 1
             /\ Sampled(p.fill)' = 1 .. Advanced(p, t).next - 1
  <2>1. p.fill \in Fills /\ p.next \in 1 .. Len(Horizons) + 1
    BY DEF MarkoutsTypeOK
  <2>2. /\ Advanced(p, t).fill = p.fill /\ p.next <= Advanced(p, t).next
        /\ Advanced(p, t).next \in 1 .. Len(Horizons) + 1
        /\ Due(p, t) = p.next .. Advanced(p, t).next - 1
    BY AdvancedFill
  <2>3. Sampled(p.fill)' = Sampled(p.fill) \cup Due(p, t)
    BY <2>1, SampledAfter
  <2>4. Sampled(p.fill)' = (1 .. p.next - 1) \cup (p.next .. Advanced(p, t).next - 1)
    BY <2>2, <2>3 DEF PendingIsSampled
  <2>5. ASSUME NEW a \in Nat, NEW b \in Nat, 1 <= a, a <= b
        PROVE  (1 .. a - 1) \cup (a .. b - 1) = 1 .. b - 1
    BY <2>5
  <2>6. p.next \in Nat /\ Advanced(p, t).next \in Nat /\ 1 <= p.next
    BY <1>1, <2>1, <2>2
  <2>7. (1 .. p.next - 1) \cup (p.next .. Advanced(p, t).next - 1) = 1 .. Advanced(p, t).next - 1
    BY <2>2, <2>5, <2>6
  <2> QED BY <2>1, <2>2, <2>4, <2>7
<1>3. PendingIsSampled'
  <2>1. ASSUME NEW a \in pending' PROVE Sampled(a.fill)' = 1 .. a.next - 1
    <3>1. PICK p \in pending : a = Advanced(p, t)
      BY DEF Retain
    <3> QED BY <1>2, <3>1
  <2> QED BY <2>1 DEF PendingIsSampled, Sampled
<1>4. ASSUME NEW f \in Fills, f \notin censored, \A a \in pending' : f # a.fill
      PROVE  Sampled(f)' = 1 .. Len(Horizons)
  <2>1. CASE \E p \in pending : p.fill = f
    <3>1. PICK p \in pending : p.fill = f
      BY <2>1
    <3>2. ~(Advanced(p, t).next <= Len(Horizons))
      BY <1>2, <1>4, <3>1 DEF Retain
    <3>3. Advanced(p, t).next - 1 = Len(Horizons)
      BY <1>1, <1>2, <3>2
    <3> QED BY <1>2, <3>1, <3>3
  <2>2. CASE \A p \in pending : p.fill # f
    <3>1. f \in Fills \ (censored \cup {p.fill : p \in pending})
      BY <1>4, <2>2
    <3>2. Sampled(f) = 1 .. Len(Horizons)
      BY <3>1 DEF RestIsSampled
    <3> QED BY <2>2, <3>2, SampledAfter
  <2> QED BY <2>1, <2>2
<1>5. RestIsSampled'
  <2>1. ASSUME NEW f \in Fills' \ (censored' \cup {a.fill : a \in pending'})
        PROVE  Sampled(f)' = 1 .. Len(Horizons)
    BY <1>1, <1>4, <2>1
  <2> QED BY <2>1 DEF RestIsSampled, Sampled
<1> QED BY <1>3, <1>5

\* The inductive invariant of the markouts: that they are complete follows by
\* induction only together with the place of `next' behind the samples.
MarkoutsInv == MarkoutsTypeOK /\ PendingAhead /\ MarkoutsAreComplete

\* The steps of OrderEntry, as the markouts see them.
MarkoutsMove(t) ==
  \/ FillArrives(t) \/ SampleMarkouts(t)
  \/ ClearMarkouts /\ Records
  \/ Records /\ UNCHANGED <<fills, pending, samples, censored>>

LEMMA FillStep ==
  ASSUME MarkoutsInv, NEW t \in Nat, FillArrives(t)
  PROVE  PendingAhead' /\ MarkoutsAreComplete'
<1> DEFINE new == [fill |-> Len(fills) + 1, next |-> 1]
<1>1. /\ Len(fills) \in Nat /\ fills \in Seq(Nat) /\ Len(Horizons) \in Nat
      /\ \A p \in pending : p.fill \in Fills
      /\ \A s \in samples : s[1] \in Fills /\ s[2] \in 1 .. Len(Horizons)
  BY HorizonsAssumption DEF MarkoutsInv, MarkoutsTypeOK
<1>2. /\ fills' = Append(fills, t) /\ pending' = pending \cup {new}
      /\ UNCHANGED <<samples, censored>>
  BY DEF FillArrives
<1>3. /\ Fills' = Fills \cup {Len(fills) + 1} /\ Len(fills) + 1 \notin Fills
      /\ \A f \in Fills : fills'[f] = fills[f]
  BY <1>1, <1>2 DEF Fills
<1>4. new.fill = Len(fills) + 1 /\ new.next = 1
  OBVIOUS
<1> HIDE DEF new
<1>5. PendingAhead'
  <2>1. ASSUME NEW p \in pending', NEW q \in pending', p.fill = q.fill PROVE p = q
    BY <1>1, <1>2, <1>3, <1>4, <2>1 DEF MarkoutsInv, PendingAhead
  <2>2. ASSUME NEW p \in pending', NEW s \in samples', s[1] = p.fill PROVE s[2] < p.next
    BY <1>1, <1>2, <1>3, <1>4, <2>2 DEF MarkoutsInv, PendingAhead
  <2> QED BY <2>1, <2>2 DEF PendingAhead
<1>6. SamplesAreDue'
  BY <1>1, <1>2, <1>3, CompleteParts DEF MarkoutsInv, SamplesAreDue
<1>7. ASSUME writerUp' PROVE PendingIsSampled' /\ RestIsSampled'
  <2>1. writerUp
    BY <1>7 DEF FillArrives, Records
  <2>2. PendingIsSampled /\ RestIsSampled
    BY <2>1, CompleteParts DEF MarkoutsInv
  <2>3. \A f : Sampled(f)' = Sampled(f)
    BY <1>2 DEF Sampled
  <2>4. Sampled(new.fill) = {}
    BY <1>1, <1>3, <1>4 DEF Sampled
  <2>5. 1 .. new.next - 1 = {}
    BY <1>4
  <2>6. ASSUME NEW p \in pending' PROVE Sampled(p.fill)' = 1 .. p.next - 1
    BY <1>2, <2>2, <2>3, <2>4, <2>5 DEF PendingIsSampled
  <2>7. ASSUME NEW f \in Fills' \ (censored' \cup {p.fill : p \in pending'})
        PROVE  Sampled(f)' = 1 .. Len(Horizons)
    <3>1. f # new.fill
      BY <1>2, <2>7
    <3>2. f \in Fills \ (censored \cup {p.fill : p \in pending})
      BY <1>2, <1>3, <1>4, <2>7, <3>1
    <3> QED BY <2>2, <2>3, <3>2 DEF RestIsSampled
  <2> QED BY <2>6, <2>7 DEF PendingIsSampled, RestIsSampled, Sampled
<1> QED BY <1>5, <1>6, <1>7
        DEF MarkoutsAreComplete, PendingIsSampled, RestIsSampled, SamplesAreDue

LEMMA MarkoutsStep ==
  ASSUME MarkoutsInv, NEW t \in Nat, MarkoutsMove(t)
  PROVE  MarkoutsInv'
<1> USE DEF MarkoutsInv
<1>1. MarkoutsTypeOK'
  BY MarkoutsTypeStep DEF MarkoutsMove
<1>6. ASSUME Records, writerUp' PROVE writerUp
  BY <1>6, Zenon DEF Records
<1>2. CASE FillArrives(t)
  BY <1>1, <1>2, FillStep
<1>3. CASE SampleMarkouts(t)
  <2>1. PendingAhead' /\ SamplesAreDue'
    BY <1>3, CompleteParts, SampleStep
  <2>2. ASSUME writerUp' PROVE PendingIsSampled' /\ RestIsSampled'
    <3>1. /\ writerUp /\ UNCHANGED <<fills, censored>>
          /\ samples' = samples \cup DueSamples(t)
          /\ pending' = Retain({Advanced(p, t) : p \in pending})
      BY <1>3, <2>2, SampleOutcome
    <3>2. PendingIsSampled /\ RestIsSampled
      BY <3>1, CompleteParts
    <3> QED BY <3>1, <3>2, SampleCompletes
  <2> QED BY <1>1, <2>1, <2>2
          DEF MarkoutsAreComplete, PendingIsSampled, RestIsSampled, SamplesAreDue
<1>4. CASE ClearMarkouts /\ Records
  <2>1. /\ pending' = {} /\ UNCHANGED <<fills, samples>> /\ (writerUp' => writerUp)
        /\ censored' = censored \cup {p.fill : p \in pending} /\ Fills' = Fills
    BY <1>4, <1>6 DEF ClearMarkouts, Fills
  <2>2. MarkoutsAreComplete'
    BY <2>1 DEF MarkoutsAreComplete, Sampled
  <2> QED BY <1>1, <2>1, <2>2 DEF PendingAhead
<1>5. CASE Records /\ UNCHANGED <<fills, pending, samples, censored>>
  <2>1. (writerUp' => writerUp) /\ Fills' = Fills
    BY <1>5, <1>6 DEF Fills
  <2> QED BY <1>1, <1>5, <2>1 DEF PendingAhead, MarkoutsAreComplete, Sampled
<1> QED BY <1>2, <1>3, <1>4, <1>5 DEF MarkoutsMove

-----------------------------------------------------------------------------
(* Order entry                                                             *)

\* The parts have no variable in common, and each action is a move of each.
LEMMA StepOfParts ==
  ASSUME TypeOK, [Next]_vars
  PROVE  /\ MarketNext \/ UNCHANGED market
         /\ (\E sent \in BOOLEAN : SendAction(sent)) \/ UNCHANGED <<gateway, written>>
         /\ MarkoutsMove(now) \/ UNCHANGED markouts
<1>1. CASE MarketNext /\ UNCHANGED <<gateway, written, markouts>>
  BY <1>1 DEF markouts
<1>2. CASE Place
  BY <1>2 DEF Place, MarkoutsMove, Records
<1>3. CASE Cancel
  BY <1>3 DEF Cancel, MarkoutsMove, Records
<1>4. ASSUME NEW risk \in BOOLEAN, Flatten(risk)
      PROVE  /\ UNCHANGED market /\ MarkoutsMove(now)
             /\ \E sent \in BOOLEAN : SendAction(sent)
  BY <1>4 DEF Flatten, MarkoutsMove
<1>5. CASE StopRequested
  BY <1>5 DEF StopRequested, MarkoutsMove
<1>6. CASE Fill
  BY <1>6 DEF Fill, MarkoutsMove
<1>7. CASE Sample
  BY <1>7 DEF Sample, MarkoutsMove
<1>8. CASE UNCHANGED vars
  BY <1>8 DEF vars, market, markouts
<1> QED BY <1>1, <1>2, <1>3, <1>4, <1>5, <1>6, <1>7, <1>8 DEF Next

\* The inductive invariant.
Inv == TypeOK /\ MarkoutsInv /\ NumbersPassed /\ ActionsAreNumberedOnce

LEMMA InvInit == Init => Inv
<1> SUFFICES ASSUME Init PROVE Inv
  OBVIOUS
<1>1. MarketTypeOK
  BY DEF Init, MarketInit, MarketTypeOK, BookRecords, NoBook
<1>2. GatewayTypeOK /\ NumbersPassed /\ ActionsAreNumberedOnce
  BY DEF Init, GatewayInit, GatewayTypeOK, NumbersPassed, ActionsAreNumberedOnce
<1>3. MarkoutsTypeOK /\ PendingAhead /\ MarkoutsAreComplete
  BY DEF Init, MarkoutsInit, MarkoutsTypeOK, Fills, PendingAhead, MarkoutsAreComplete
<1> QED BY <1>1, <1>2, <1>3 DEF Inv, TypeOK, MarkoutsInv

LEMMA InvNext == Inv /\ [Next]_vars => Inv'
<1> SUFFICES ASSUME Inv, [Next]_vars PROVE Inv'
  OBVIOUS
<1> USE DEF Inv, TypeOK
<1>1. MarketTypeOK'
  BY StepOfParts, MarketStep
<1>2. GatewayTypeOK' /\ NumbersPassed' /\ ActionsAreNumberedOnce'
  BY StepOfParts, GatewayStep, NumbersStep
<1>3. MarkoutsInv'
  <2>1. now \in Nat
    BY DEF MarketTypeOK
  <2>2. CASE MarkoutsMove(now)
    BY <2>1, <2>2, MarkoutsStep
  <2>3. CASE UNCHANGED markouts
    BY <2>3 DEF markouts, MarkoutsInv, MarkoutsTypeOK, PendingAhead,
                MarkoutsAreComplete, Sampled, Fills
  <2> QED BY <2>2, <2>3, StepOfParts
<1> QED BY <1>1, <1>2, <1>3 DEF MarkoutsInv

LEMMA Invariance == Spec => []Inv
BY InvInit, InvNext, PTL DEF Spec

\* The state of the market, of the gateway and of the markouts keeps its type.
THEOREM TypeCorrect == Spec => []TypeOK
<1>1. Inv => TypeOK
  BY DEF Inv
<1> QED BY <1>1, Invariance, PTL

\* freshest_hl_book and required_quotes_fresh, written apart from each other,
\* agree: quotes that are fresh enough to act on are the quotes acted on.
THEOREM ActsOnFreshQuotes == Spec => []FreshQuotesAreUsed
<1>1. Inv => FreshQuotesAreUsed
  BY FreshQuotes DEF Inv, TypeOK
<1> QED BY <1>1, Invariance, PTL

\* Request ids and nonces of ActionGateway are used once and grow together,
\* whatever the wall clock shows and whichever writes fail.
THEOREM NumberedOnce == Spec => []ActionsAreNumberedOnce
<1>1. Inv => ActionsAreNumberedOnce
  BY DEF Inv
<1> QED BY <1>1, Invariance, PTL

\* sample_markouts records every horizon of every fill once and never early,
\* for any list of horizons, as long as the writer accepts records.
THEOREM MarkoutsCorrect == Spec => []MarkoutsAreComplete
<1>1. Inv => MarkoutsAreComplete
  BY DEF Inv, MarkoutsInv
<1> QED BY <1>1, Invariance, PTL

-----------------------------------------------------------------------------
(* Prices                                                                  *)

LEMMA Floor ==
  ASSUME NEW x \in Int, NEW s \in Nat \ {0}
  PROVE  /\ x \div s \in Int
         /\ (x \div s) * s <= x /\ x < (x \div s) * s + s
OBVIOUS

LEMMA TickPositive == ASSUME NEW price PROVE TickSize(price) \in Nat \ {0}
<1> DEFINE ticks == {t \in {10 ^ k : k \in 0 .. MaxDigits} \cap (1 .. price) :
                       price \div t \in 10 ^ (Digits - 1) .. 10 ^ Digits - 1}
<1>1. ticks \subseteq Nat \ {0}
  OBVIOUS
<1>2. TickSize(price) = IF ticks = {} THEN 1 ELSE CHOOSE t \in ticks : TRUE
  BY DEF TickSize
<1> HIDE DEF ticks
<1>3. ASSUME ticks # {} PROVE (CHOOSE t \in ticks : TRUE) \in ticks
  <2>1. \E t : t \in ticks
    BY <1>3
  <2> QED BY <2>1
<1>4. CASE ticks = {}
  BY <1>2, <1>4
<1>5. CASE ticks # {}
  <2>1. TickSize(price) \in ticks
    BY <1>2, <1>3, <1>5
  <2> QED BY <1>1, <2>1
<1> QED BY <1>4, <1>5

\* round_price_to_tick stays on its side of the price, within a tick.
LEMMA RoundedDown ==
  ASSUME NEW price \in Int, NEW scale \in Nat \ {0}, NEW tick \in Nat \ {0}
  PROVE  LET down == (price \div (scale * tick)) * tick
         IN /\ down \in Int
            /\ down * scale <= price /\ price < down * scale + scale * tick
<1> DEFINE step == scale * tick
           q == price \div step
<1>1. step \in Nat \ {0}
  OBVIOUS
<1> HIDE DEF step
<1>2. q \in Int /\ q * step <= price /\ price < q * step + step
  BY <1>1, Floor
<1> HIDE DEF q
<1>3. (q * tick) * scale = q * step /\ q * tick \in Int
  BY <1>2 DEF step
<1>4. q * tick = (price \div (scale * tick)) * tick /\ step = scale * tick
  BY DEF q, step
<1> QED BY <1>2, <1>3, <1>4

LEMMA Rounded ==
  ASSUME NEW price \in Int, NEW scale \in Nat \ {0}, NEW tick \in Nat \ {0}, NEW up,
         NEW r, r = RoundToTick(price, scale, tick, up)
  PROVE  /\ r \in Int
         /\ up => price <= r * scale /\ r * scale < price + scale * tick
         /\ ~up => r * scale <= price /\ price < r * scale + scale * tick
<1> DEFINE step == scale * tick
           next == price + step - 1
           above == (next \div step) * tick
           below == (price \div step) * tick
<1>1. r = IF up THEN above ELSE below
  BY DEF RoundToTick
<1>2. step \in Nat \ {0} /\ next \in Int
  OBVIOUS
<1>3. /\ above \in Int
      /\ above * scale <= next /\ next < above * scale + step
  <2> HIDE DEF next
  <2> QED BY <1>2, RoundedDown
<1>4. below \in Int /\ below * scale <= price /\ price < below * scale + step
  BY RoundedDown
<1> HIDE DEF above, below
<1>5. price <= above * scale /\ above * scale < price + step
  <2>1. above * scale \in Int
    BY <1>3
  <2> HIDE DEF step
  <2> QED BY <1>2, <1>3, <2>1
<1>6. CASE up
  <2>1. r = above
    BY <1>1, <1>6
  <2> QED BY <1>3, <1>5, <1>6, <2>1
<1>7. CASE ~up
  <2>1. r = below
    BY <1>1, <1>7
  <2> QED BY <1>4, <1>7, <2>1
<1> QED BY <1>6, <1>7

\* What the slippage leaves of a quote is exact up to one unit.
LEMMA Slips ==
  ASSUME NEW quote \in Nat, NEW tick \in Nat \ {0}, NEW price \in Int,
         NEW allowed, allowed = (quote * Slippage) \div 10000 + tick + 1
  PROVE  /\ /\ price * 10000 <= quote * (10000 - Slippage)
            /\ quote * (10000 - Slippage) < price * 10000 + 10000 * tick
            => Between(price, quote, allowed)
         /\ /\ quote * (10000 + Slippage) <= price * 10000
            /\ price * 10000 < quote * (10000 + Slippage) + 10000 * tick
            => Between(quote, price, allowed)
<1> DEFINE given == quote * Slippage
           units == given \div 10000
<1>1. /\ given \in Nat
      /\ quote * (10000 - Slippage) = 10000 * quote - given
      /\ quote * (10000 + Slippage) = 10000 * quote + given
  BY PricingAssumption
<1>2. units \in Int /\ units * 10000 <= given /\ given < units * 10000 + 10000
  <2> HIDE DEF given
  <2> QED BY <1>1, Floor
<1>3. allowed = units + tick + 1
  OBVIOUS
<1> HIDE DEF given, units
<1> QED BY <1>1, <1>2, <1>3 DEF Between

\* The price of a probe, measured from the quote and its level.
LEMMA PlacedInItsCell ==
  ASSUME MarketTypeOK, NEW side \in Sides, NEW level \in Levels
  PROVE  IF side = "bid"
         THEN Between(PlacePrice(side, level), BBO.bid - level * Tick, Tick)
         ELSE Between(BBO.ask + level * Tick, PlacePrice(side, level), Tick)
<1> DEFINE raw == RawPrice(side, level)
           price == PlacePrice(side, level)
<1>1. BBO.bid \in Nat /\ BBO.ask \in Nat
  BY DEF BBO, FeedNames, MarketTypeOK, BookRecords
<1>2. Tick \in Nat \ {0}
  BY TickPositive DEF Tick
<1>3. raw = IF side = "bid" THEN BBO.bid - level * Tick ELSE BBO.ask + level * Tick
  BY DEF RawPrice
<1>4. raw \in Int
  BY <1>1, <1>2, PricingAssumption DEF RawPrice
<1>5. price = RoundToTick(raw, 1, Tick, side = "ask")
  BY DEF PlacePrice
<1> HIDE DEF raw, price
<1>6. /\ price \in Int
      /\ side = "ask" => raw <= price * 1 /\ price * 1 < raw + 1 * Tick
      /\ side # "ask" => price * 1 <= raw /\ raw < price * 1 + 1 * Tick
  <2>1. 1 \in Nat \ {0}
    OBVIOUS
  <2> QED BY <1>2, <1>4, <1>5, <2>1, Rounded, Zenon
<1>7. IF side = "bid" THEN Between(price, raw, Tick) ELSE Between(raw, price, Tick)
  BY <1>2, <1>4, <1>6 DEF Between, Sides
<1> QED BY <1>3, <1>7 DEF price

\* The price of an IOC, measured from the quote it is to take.
LEMMA FlattenWithinSlippage ==
  ASSUME MarketTypeOK, NEW b \in FreshestBook, NEW side \in Sides
  PROVE  LET price == FlattenPrice(side, b)
             quote == Crossed(side, b)
             allowed == (quote * Slippage) \div 10000 + TickSize(quote) + 1
         IN IF side = "ask" THEN Between(price, quote, allowed)
            ELSE Between(quote, price, allowed)
<1> DEFINE price == FlattenPrice(side, b)
           quote == Crossed(side, b)
           tick == TickSize(quote)
           slipped == Slipped(side, b)
           allowed == (quote * Slippage) \div 10000 + tick + 1
           scale == 10000
<1>1. tick \in Nat \ {0}
  BY TickPositive
<1>2. quote \in Nat
  <2>1. \A i \in 1 .. 3 : Feeds[i] \in FeedNames
    BY DEF Feeds, FeedNames
  <2>2. b.bid \in Nat /\ b.ask \in Nat
    BY <2>1 DEF FreshestBook, Freshest, MarketTypeOK, BookRecords
  <2> QED BY <2>2 DEF Crossed
<1>3. slipped = quote * (IF side = "ask" THEN 10000 - Slippage ELSE 10000 + Slippage)
  BY DEF Slipped
<1>4. slipped \in Int
  <2> HIDE DEF slipped, quote
  <2> QED BY <1>2, <1>3, PricingAssumption
<1>5. price = RoundToTick(slipped, scale, tick, side = "bid")
  BY DEF FlattenPrice
<1>6. scale \in Nat \ {0}
  OBVIOUS
<1> HIDE DEF price, quote, tick, slipped, allowed, scale
<1>7. /\ price \in Int
      /\ side = "bid" => slipped <= price * scale /\ price * scale < slipped + scale * tick
      /\ side # "bid" => price * scale <= slipped /\ slipped < price * scale + scale * tick
  BY <1>1, <1>4, <1>5, <1>6, Rounded, Zenon
<1>8. allowed = (quote * Slippage) \div 10000 + tick + 1
  BY DEF allowed
<1>9. CASE side = "ask"
  <2>1. slipped = quote * (10000 - Slippage)
    BY <1>3, <1>9
  <2>2. Between(price, quote, allowed)
    BY <1>1, <1>2, <1>7, <1>8, <1>9, <2>1, Slips DEF scale
  <2> QED BY <1>9, <2>2 DEF price, quote, tick, allowed
<1>10. CASE side = "bid"
  <2>1. slipped = quote * (10000 + Slippage)
    BY <1>3, <1>10
  <2>2. Between(quote, price, allowed)
    BY <1>1, <1>2, <1>7, <1>8, <1>10, <2>1, Slips DEF scale
  <2> QED BY <1>10, <2>2 DEF price, quote, tick, allowed
<1> QED BY <1>9, <1>10 DEF Sides

LEMMA PricesOnSide == MarketTypeOK => PricesKeepTheirSide
BY PlacedInItsCell, FlattenWithinSlippage DEF PricesKeepTheirSide

\* maybe_start_probe and maybe_flatten price on the right side of the quote and
\* within a tick, at every price, level and slippage: also where the tick is
\* that of another price than the one that is rounded.
THEOREM PricesCorrect == Spec => []PricesKeepTheirSide
<1>1. Inv => PricesKeepTheirSide
  BY PricesOnSide DEF Inv, TypeOK
<1> QED BY <1>1, Invariance, PTL
=============================================================================
