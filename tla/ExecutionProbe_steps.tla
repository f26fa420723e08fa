------------------------- MODULE ExecutionProbe_steps -------------------------
(***************************************************************************)
(* Theorems about the steps of ExecutionProbe, for every value of the      *)
(* constants: what a callback may never do, and that only messages about   *)
(* the active probe bind to it.                                            *)
(*                                                                         *)
(* ExecutionProbe_proofs shows that every operator keeps a context good;   *)
(* here each operator is related to the context it was given.  The         *)
(* relation Evolves is reflexive and transitive, so a callback, which is a *)
(* composition of operators, evolves the state it started from.            *)
(***************************************************************************)
EXTENDS ExecutionProbe_proofs

-----------------------------------------------------------------------------
(* What holds of every context *)

OwnProbe(p, i) ==
  /\ p.oid \in {NoOid, Maker(p.id)} \cup Flattens(p.flatOid[2])
  /\ p.flatOid \in {NoOid} \cup Flattens(i.flattens)
  /\ p.flatReq > 0 => p.flatReq \in p.flatOid[2] .. i.flattens
  /\ IF p.phase = "Absent" THEN p.flatReq = 0 ELSE p.id = i.probes

OwnMarks(marks, p, ids, i) ==
  \A m \in marks : /\ m.fill \in ids
                   /\ m.fill[1] \in {Maker(m.probe)} \cup Flattens(i.flattens)
                   /\ p.phase # "Absent" => m.probe = p.id
                   /\ \A n \in marks : m.fill = n.fill => m = n

\* A flatten is numbered from 1, so that its answer never meets a probe that has
\* sent none.
OwnWire(requests) == \A r \in requests : r[1] = "flatten" => r[2][2] > 0

Own(c) == /\ OwnProbe(c.probe, c.issued)
          /\ OwnMarks(c.markouts, c.probe, c.seen, c.issued)
          /\ OwnWire(c.wire)

-----------------------------------------------------------------------------
(* How a context follows from an earlier one of the same callback *)

\* The callbacks never publish a snapshot, end the worker or revive the writer.
Outlasts(c, d) == /\ d.rest.worker = c.rest.worker
                  /\ d.rest.unread => c.rest.unread
                  /\ d.writerUp => c.writerUp

\* Records, requests to the REST worker: the strategy's own state is as before.
Background(c, d) ==
  /\ d.probe = c.probe /\ d.account = c.account /\ d.markouts = c.markouts /\ d.seen = c.seen
  /\ d.cooling = c.cooling /\ d.wire = c.wire /\ d.issued = c.issued
  /\ d.shutdown.signal = c.shutdown.signal /\ d.shutdown.notified = c.shutdown.notified
  /\ d.fuel <= c.fuel /\ (c.err => d.err) /\ Outlasts(c, d)

\* No order is placed, no probe appears, and one that goes leaves a cooldown or
\* an error behind.
Follows(c, d) ==
  /\ d.fuel <= c.fuel /\ (c.err => d.err) /\ (c.cooling => d.cooling) /\ Outlasts(c, d)
  /\ c.wire \subseteq d.wire
  /\ \A r \in d.wire \ c.wire : r[1] # "place"
  /\ d.issued.probes = c.issued.probes
  /\ d.shutdown.signal = c.shutdown.signal
  /\ Active(d) => Active(c)
  /\ Active(c) => Active(d) \/ d.cooling \/ d.err
  /\ Own(c) => Own(d)

\* A cancel is sent, and waited for, only by a probe that has not asked for one,
\* and that it has asked is not forgotten.
CancelsOnce(c, d) ==
  /\ c.probe.cancelReq /\ Active(d) => d.probe.cancelReq
  /\ \A r \in d.wire \ c.wire : r[1] = "cancel" => Active(c) /\ ~c.probe.cancelReq
  /\ d.probe.phase = "CancelPending" =>
       c.probe.phase = "CancelPending" \/ (Active(c) /\ ~c.probe.cancelReq)

Reacts(c, d) == /\ Follows(c, d) /\ CancelsOnce(c, d)
                /\ d.shutdown.notified = c.shutdown.notified

\* Without news about the account.
Evolves(c, d) == Reacts(c, d) /\ d.account = c.account

LEMMA BackgroundEvolves ==
  ASSUME NEW c, NEW d, Background(c, d)
  PROVE  Evolves(c, d)
BY DEF Background, Outlasts, Evolves, Reacts, Follows, CancelsOnce, Own, Active

LEMMA BackgroundTrans ==
  ASSUME NEW c \in Contexts, NEW d \in Contexts, NEW e \in Contexts,
         Background(c, d), Background(d, e)
  PROVE  Background(c, e)
<1>1. c.fuel \in Nat /\ d.fuel \in Nat /\ e.fuel \in Nat
  BY ContextParts
<1> QED BY <1>1 DEF Background, Outlasts

LEMMA EvolvesRefl ==
  ASSUME NEW c \in Contexts
  PROVE  Evolves(c, c)
<1>1. c.fuel \in Nat
  BY ContextParts
<1> QED BY <1>1 DEF Evolves, Reacts, Follows, Outlasts, CancelsOnce

LEMMA FollowsTrans ==
  ASSUME NEW c \in Contexts, NEW d \in Contexts, NEW e \in Contexts,
         Follows(c, d), Follows(d, e)
  PROVE  Follows(c, e)
<1>1. c.fuel \in Nat /\ d.fuel \in Nat /\ e.fuel \in Nat
  BY ContextParts
<1>2. e.fuel <= c.fuel
  BY <1>1 DEF Follows
<1>3. c.wire \subseteq e.wire /\ \A r \in e.wire \ c.wire : r[1] # "place"
  BY DEF Follows
<1> QED BY <1>2, <1>3, Zenon DEF Follows, Outlasts

LEMMA CancelsTrans ==
  ASSUME NEW c, NEW d, NEW e, Follows(c, d), Follows(d, e),
         CancelsOnce(c, d), CancelsOnce(d, e)
  PROVE  CancelsOnce(c, e)
<1>1. c.probe.cancelReq /\ Active(e) => e.probe.cancelReq
  BY DEF Follows, CancelsOnce
<1>2. ASSUME NEW r \in e.wire \ c.wire, r[1] = "cancel" PROVE Active(c) /\ ~c.probe.cancelReq
  <2>1. CASE r \in d.wire
    BY <1>2, <2>1 DEF CancelsOnce
  <2>2. CASE r \notin d.wire
    BY <1>2, <2>2 DEF Follows, CancelsOnce
  <2> QED BY <2>1, <2>2
<1>3. e.probe.phase = "CancelPending" =>
        c.probe.phase = "CancelPending" \/ (Active(c) /\ ~c.probe.cancelReq)
  BY DEF Follows, CancelsOnce
<1> QED BY <1>1, <1>2, <1>3 DEF CancelsOnce

LEMMA ReactsTrans ==
  ASSUME NEW c \in Contexts, NEW d \in Contexts, NEW e \in Contexts,
         Reacts(c, d), Reacts(d, e)
  PROVE  Reacts(c, e)
BY FollowsTrans, CancelsTrans DEF Reacts

LEMMA EvolvesTrans ==
  ASSUME NEW c \in Contexts, NEW d \in Contexts, NEW e \in Contexts,
         Evolves(c, d), Evolves(d, e)
  PROVE  Evolves(c, e)
BY ReactsTrans DEF Evolves

-----------------------------------------------------------------------------
(* Records and requests *)

LEMMA OfferBackground ==
  ASSUME NEW c \in Contexts, NEW n \in Nat
  PROVE  Background(c, Offer(c, n))
<1>1. c.fuel \in Nat
  BY ContextParts
<1>2. Offer(c, n).fuel \in {c.fuel, IF c.fuel < n THEN 0 ELSE c.fuel - n}
  BY DEF Offer, Contexts
<1>3. Offer(c, n).fuel <= c.fuel
  BY <1>1, <1>2
<1> QED BY <1>3 DEF Offer, Contexts, Background, Outlasts

LEMMA RecordBackground ==
  ASSUME NEW c \in Contexts, NEW n \in Nat
  PROVE  Background(c, Record(c, n))
<1> DEFINE o == Offer(c, n)
           short == c.fuel < n
<1>1. Background(c, o) /\ o \in Contexts
  BY OfferBackground, OfferContext
<1>2. Background(c, c)
  BY ContextParts DEF Background, Outlasts
<1>3. Record(c, n) = IF c.err \/ Unlimited(c) THEN c ELSE [o EXCEPT !.err = short]
  BY DEF Record
<1> HIDE DEF o, short
<1>4. ASSUME ~c.err PROVE Background(c, [o EXCEPT !.err = short])
  BY <1>1, <1>4 DEF Background, Outlasts, Contexts
<1> QED BY <1>2, <1>3, <1>4

LEMMA RequestRestBackground ==
  ASSUME NEW c \in Contexts
  PROVE  Background(c, RequestRest(c))
<1>1. Background(c, c)
  BY ContextParts DEF Background, Outlasts
<1>2. CASE c.err \/ ~RequestAccepted(c)
  BY <1>1, <1>2 DEF RequestRest
<1>3. CASE ~c.err /\ RequestAccepted(c)
  <2> DEFINE asked == [c.rest EXCEPT !.pending = TRUE, !.queued = TRUE]
  <2>1. RequestRest(c) = [c EXCEPT !.rest = asked]
    BY <1>3 DEF RequestRest, Contexts, GateRests, RestRecords
  <2>2. asked.worker = c.rest.worker /\ asked.unread = c.rest.unread
    BY ContextParts DEF GateRests, RestRecords
  <2> HIDE DEF asked
  <2> QED BY <1>1, <2>1, <2>2 DEF Background, Outlasts, Contexts
<1> QED BY <1>2, <1>3

LEMMA RequestThrottledBackground ==
  ASSUME NEW c \in Contexts, NEW t
  PROVE  Background(c, RequestThrottled(c, t))
<1>1. Background(c, c)
  BY ContextParts DEF Background, Outlasts
<1> QED BY <1>1, RequestRestBackground DEF RequestThrottled

LEMMA TouchBackground ==
  ASSUME NEW c \in Contexts
  PROVE  Background(c, Touch(c))
<1> DEFINE stale == c.rest.worker = "reading" \/ c.rest.unread
           snapshot == IF c.shutdown.snapshot = "requested" THEN "fresh" ELSE c.shutdown.snapshot
           rested == [c.rest EXCEPT !.stale = stale]
           shut == [c.shutdown EXCEPT !.snapshot = snapshot]
<1>1. c.rest \in RestRecords /\ c.shutdown \in ShutdownRecords /\ c.fuel \in Nat
  BY ContextParts DEF GateRests
<1>2. Touch(c) = [c EXCEPT !.rest = rested, !.shutdown = shut]
  BY <1>1 DEF Touch, Contexts
<1>3. shut.signal = c.shutdown.signal /\ shut.notified = c.shutdown.notified
  BY <1>1 DEF ShutdownRecords
<1>4. rested.worker = c.rest.worker /\ rested.unread = c.rest.unread
  BY <1>1 DEF RestRecords
<1> HIDE DEF rested, shut
<1> QED BY <1>1, <1>2, <1>3, <1>4 DEF Background, Outlasts, Contexts

-----------------------------------------------------------------------------
(* The probe *)

LEMMA FlattensGrow ==
  ASSUME NEW i \in Nat, NEW j \in Nat, i <= j
  PROVE  Flattens(i) \subseteq Flattens(j)
BY DEF Flattens

\* What binds a probe to its messages is kept by a change of the other fields,
\* and by forgetting the flatten request.
LEMMA BindingKept ==
  ASSUME NEW p, NEW q, NEW i, OwnProbe(p, i), p.phase # "Absent", q.phase # "Absent",
         q.id = p.id, q.oid = p.oid, q.flatOid = p.flatOid, q.flatReq = p.flatReq \/ q.flatReq = 0
  PROVE  OwnProbe(q, i)
<1>1. q.flatReq > 0 => q.flatReq = p.flatReq
  OBVIOUS
<1> QED BY <1>1 DEF OwnProbe

LEMMA ProbeMoves ==
  ASSUME NEW c \in Contexts, NEW q,
         q.phase # "Absent" <=> Active(c), q.id = c.probe.id, c.probe.cancelReq => q.cancelReq,
         q.phase = "CancelPending" => c.probe.phase = "CancelPending",
         OwnProbe(c.probe, c.issued) => OwnProbe(q, c.issued)
  PROVE  Evolves(c, [c EXCEPT !.probe = q])
<1> DEFINE d == [c EXCEPT !.probe = q]
<1>1. /\ d.probe = q /\ d.fuel = c.fuel /\ d.err = c.err /\ d.cooling = c.cooling
      /\ d.wire = c.wire /\ d.issued = c.issued /\ d.shutdown = c.shutdown
      /\ d.account = c.account /\ d.markouts = c.markouts /\ d.seen = c.seen /\ c.fuel \in Nat
      /\ d.rest = c.rest /\ d.writerUp = c.writerUp
  BY DEF Contexts
<1> HIDE DEF d
<1>2. Own(c) => Own(d)
  BY <1>1 DEF Own, OwnMarks, Active
<1>3. Follows(c, d)
  BY <1>1, <1>2 DEF Follows, Outlasts, Active
<1>4. CancelsOnce(c, d)
  BY <1>1 DEF CancelsOnce
<1> QED BY <1>1, <1>3, <1>4 DEF Evolves, Reacts, d

LEMMA RecoverMoves ==
  ASSUME NEW c \in Contexts, Active(c)
  PROVE  Evolves(c, [c EXCEPT !.probe = Recover(c.probe)])
<1> DEFINE q == Recover(c.probe)
<1>1. c.probe \in ProbeRecords
  BY ContextParts
<1>2. /\ q.phase = "Recovering" /\ q.id = c.probe.id /\ q.oid = c.probe.oid
      /\ q.flatOid = c.probe.flatOid /\ q.flatReq = c.probe.flatReq
      /\ q.cancelReq = c.probe.cancelReq
  BY <1>1 DEF Recover, ProbeRecords
<1> HIDE DEF q
<1>3. OwnProbe(c.probe, c.issued) => OwnProbe(q, c.issued)
  BY <1>2, BindingKept DEF Active
<1>4. Evolves(c, [c EXCEPT !.probe = q])
  BY <1>2, <1>3, ProbeMoves DEF Active
<1> QED BY <1>4 DEF q

\* The probe is taken before the record, and the cooldown starts after it.
LEMMA FinishProbeEvolves ==
  ASSUME NEW c \in Contexts
  PROVE  Evolves(c, FinishProbe(c)) /\ (~c.err => ~Active(FinishProbe(c)))
<1> DEFINE taken == [c EXCEPT !.probe = NoProbe]
           d == Record(taken, 1)
           cooled == d.cooling \/ ~d.err
           e == [d EXCEPT !.cooling = cooled]
<1>1. taken \in Contexts
  BY WithProbe, NoProbeGood
<1>2. d \in Contexts /\ Background(taken, d)
  BY <1>1, RecordContext, RecordBackground
<1>3. /\ taken.probe = NoProbe /\ taken.fuel = c.fuel /\ taken.err = c.err
      /\ taken.cooling = c.cooling /\ taken.wire = c.wire /\ taken.issued = c.issued
      /\ taken.shutdown = c.shutdown /\ taken.account = c.account
      /\ taken.markouts = c.markouts /\ taken.seen = c.seen /\ c.fuel \in Nat
      /\ taken.rest = c.rest /\ taken.writerUp = c.writerUp
  BY DEF Contexts
<1>4. FinishProbe(c) = IF c.err THEN c ELSE e
  BY DEF FinishProbe
<1> HIDE DEF taken, d
<1>5. cooled \in BOOLEAN /\ d.err \in BOOLEAN /\ d.cooling \in BOOLEAN
  BY <1>2, ContextParts
<1>6. /\ e.probe = d.probe /\ e.fuel = d.fuel /\ e.err = d.err /\ e.cooling = cooled
      /\ e.wire = d.wire /\ e.issued = d.issued /\ e.shutdown = d.shutdown
      /\ e.account = d.account /\ e.markouts = d.markouts /\ e.seen = d.seen
      /\ e.rest = d.rest /\ e.writerUp = d.writerUp
  <2> HIDE DEF cooled
  <2> QED BY <1>2 DEF Contexts
<1> HIDE DEF e
<1>7. e.probe = NoProbe /\ ~Active(e)
  BY <1>2, <1>3, <1>6 DEF Background, Active, NoProbe
<1>8. Own(c) => Own(e)
  <2>1. OwnProbe(NoProbe, c.issued)
    BY DEF OwnProbe, NoProbe
  <2>2. OwnMarks(c.markouts, c.probe, c.seen, c.issued)
          => OwnMarks(c.markouts, NoProbe, c.seen, c.issued)
    BY DEF OwnMarks, NoProbe
  <2> QED BY <1>2, <1>3, <1>6, <1>7, <2>1, <2>2 DEF Own, Background
<1>9. Follows(c, e)
  BY <1>2, <1>3, <1>5, <1>6, <1>7, <1>8 DEF Follows, Outlasts, Background
<1>10. Evolves(c, e)
  BY <1>2, <1>3, <1>6, <1>7, <1>9 DEF Active, Evolves, Reacts, CancelsOnce, Background
<1> QED BY <1>4, <1>7, <1>10, EvolvesRefl

LEMMA MaybeFinishFlattenEvolves ==
  ASSUME NEW c \in Contexts
  PROVE  Evolves(c, MaybeFinishFlatten(c))
BY FinishProbeEvolves, EvolvesRefl DEF MaybeFinishFlatten

\* An action that is not a place, of an active probe that keeps its binding.
LEMMA DispatchEvolves ==
  ASSUME NEW c \in Contexts, NEW request, NEW p, NEW send \in BOOLEAN, Active(c), ~c.err, request[1] # "place",
         request[1] = "cancel" => ~c.probe.cancelReq,
         request[1] = "flatten" => request[2][2] > 0,
         p.phase # "Absent", p.id = c.probe.id, c.probe.cancelReq => p.cancelReq,
         p.phase = "CancelPending" => ~c.probe.cancelReq,
         send /\ OwnProbe(c.probe, c.issued) => OwnProbe(p, c.issued)
  PROVE  Evolves(c, Dispatch(c, request, p, send))
<1> DEFINE failed == c.fuel < 2
           o == Offer(c, 2)
           sent == o.wire \cup {request}
           d == [o EXCEPT !.wire = sent, !.probe = p, !.err = failed]
           lost == [Offer(c, 1) EXCEPT !.err = TRUE]
<1>1. o \in Contexts /\ Background(c, o) /\ Offer(c, 1) \in Contexts /\ Background(c, Offer(c, 1))
  BY OfferContext, OfferBackground
<1>2. Dispatch(c, request, p, send) = IF ~send THEN lost ELSE d
  BY DEF Dispatch
<1>3. Evolves(c, lost)
  <2>1. Background(c, lost)
    BY <1>1 DEF Background, Outlasts, Contexts
  <2> QED BY <2>1, BackgroundEvolves
<1>4. ASSUME send PROVE Evolves(c, d)
  <2> HIDE DEF o, failed, sent
  <2>1. /\ d.probe = p /\ d.wire = sent /\ d.fuel = o.fuel /\ d.cooling = o.cooling
        /\ d.issued = o.issued /\ d.shutdown = o.shutdown /\ d.account = o.account
        /\ d.markouts = o.markouts /\ d.seen = o.seen
        /\ d.rest = o.rest /\ d.writerUp = o.writerUp
    BY <1>1 DEF Contexts
  <2> HIDE DEF d
  <2>2. sent = c.wire \cup {request}
    BY <1>1 DEF sent, Background
  <2>3. Own(c) => Own(d)
    <3>1. OwnWire(c.wire) => OwnWire(d.wire)
      BY <2>1, <2>2 DEF OwnWire
    <3>2. OwnMarks(c.markouts, c.probe, c.seen, c.issued)
            => OwnMarks(c.markouts, p, c.seen, c.issued)
      BY DEF OwnMarks, Active
    <3> QED BY <1>1, <1>4, <2>1, <3>1, <3>2 DEF Own, Background
  <2>4. Follows(c, d)
    BY <1>1, <2>1, <2>2, <2>3 DEF Follows, Outlasts, Background, Active
  <2>5. CancelsOnce(c, d)
    BY <2>1, <2>2 DEF CancelsOnce
  <2> QED BY <1>1, <2>1, <2>4, <2>5 DEF Evolves, Reacts, Background
<1> QED BY <1>2, <1>3, <1>4

LEMMA CancelActiveEvolves ==
  ASSUME NEW c \in Contexts, NEW send \in BOOLEAN
  PROVE  Evolves(c, CancelActive(c, send))
<1> DEFINE p == c.probe
           request == <<"cancel", p.oid, 0>>
           entered == Enter(p, "CancelPending")
           armed == entered.armed \cup {"cancel"}
           terminal == IF entered.terminal = "current" THEN "stale" ELSE entered.terminal
           cancelled == [entered EXCEPT !.cancelReq = TRUE, !.armed = armed,
                                        !.terminal = terminal]
           recovering == [c EXCEPT !.probe = Recover(p)]
<1>1. p \in ProbeRecords
  BY ContextParts
<1>2. /\ cancelled.phase = "CancelPending" /\ cancelled.id = p.id /\ cancelled.oid = p.oid
      /\ cancelled.flatOid = p.flatOid /\ cancelled.flatReq = p.flatReq /\ cancelled.cancelReq
  <2>1. /\ entered \in ProbeRecords /\ entered.phase = "CancelPending" /\ entered.id = p.id
        /\ entered.oid = p.oid /\ entered.flatOid = p.flatOid /\ entered.flatReq = p.flatReq
    <3>1. entered \in ProbeRecords
      BY <1>1, EnterRecord DEF Phases
    <3> QED BY <1>1, <3>1 DEF Enter, ProbeRecords
  <2> HIDE DEF entered, armed, terminal
  <2> QED BY <2>1 DEF ProbeRecords
<1>3. ASSUME Active(c) PROVE Evolves(c, RequestRest(recovering))
  <2>1. recovering \in Contexts /\ Evolves(c, recovering)
    BY <1>1, <1>3, RecoverGood, WithProbe, RecoverMoves
  <2> HIDE DEF recovering
  <2> QED BY <2>1, RequestRestContext, RequestRestBackground, BackgroundEvolves, EvolvesTrans
<1>4. ASSUME Active(c), ~c.err, ~CancelAsked(p)
      PROVE  Evolves(c, Dispatch(c, request, cancelled, send))
  <2>1. request[1] = "cancel"
    OBVIOUS
  <2> HIDE DEF cancelled, request
  <2>2. OwnProbe(c.probe, c.issued) => OwnProbe(cancelled, c.issued)
    BY <1>2, <1>4, BindingKept DEF Active
  <2>3. cancelled.phase # "Absent" /\ ~c.probe.cancelReq
    BY <1>2, <1>4 DEF CancelAsked
  <2> QED BY <1>2, <1>4, <2>1, <2>2, <2>3, DispatchEvolves
<1>5. CancelActive(c, send)
        = IF c.err \/ ~Active(c) THEN c
          ELSE IF p.oid = NoOid THEN RequestRest(recovering)
          ELSE IF CancelAsked(p) THEN c
          ELSE Dispatch(c, request, cancelled, send)
  BY DEF CancelActive
<1> HIDE DEF p, request, cancelled, recovering
<1> QED BY <1>3, <1>4, <1>5, EvolvesRefl

\* A flatten is counted before it is sent, and is the newest of its probe.
LEMMA MaybeFlattenEvolves ==
  ASSUME NEW c \in Contexts, NEW risk \in BOOLEAN, NEW t \in TickRecords
  PROVE  Evolves(c, MaybeFlatten(c, risk, t))
<1> DEFINE p == c.probe
           i == c.issued.flattens
           n == i + 1
           entered == Enter(p, "FlattenPending")
           armed == entered.armed \cup {"flatten"}
           flattening == [entered EXCEPT !.flatReq = n, !.armed = armed]
           unsampled == \E m \in c.markouts : m.probe = p.id
           request == <<"flatten", Flatten(n), c.account.inv>>
           counted == [c.issued EXCEPT !.flattens = n]
           d == IF t.send THEN [c EXCEPT !.issued = counted] ELSE c
<1>1. p \in ProbeRecords /\ c.issued \in Counters /\ i \in Nat /\ n \in Nat
  BY ContextParts DEF Counters
<1>2. counted \in Counters /\ counted.probes = c.issued.probes /\ counted.flattens = n
  BY <1>1 DEF Counters
<1>3. /\ flattening.phase = "FlattenPending" /\ flattening.id = p.id /\ flattening.oid = p.oid
      /\ flattening.flatOid = p.flatOid /\ flattening.flatReq = n
      /\ flattening.cancelReq = p.cancelReq
  <2>1. /\ entered \in ProbeRecords /\ entered.phase = "FlattenPending" /\ entered.id = p.id
        /\ entered.oid = p.oid /\ entered.flatOid = p.flatOid /\ entered.cancelReq = p.cancelReq
    <3>1. entered \in ProbeRecords
      BY <1>1, EnterRecord DEF Phases
    <3> QED BY <1>1, <3>1 DEF Enter, ProbeRecords
  <2> HIDE DEF entered, armed, n
  <2> QED BY <2>1 DEF ProbeRecords
<1>4. d \in Contexts
  <2> HIDE DEF counted
  <2> QED BY <1>2 DEF Contexts
<1>5. /\ d.probe = p /\ d.fuel = c.fuel /\ d.err = c.err /\ d.cooling = c.cooling
      /\ d.wire = c.wire /\ d.shutdown = c.shutdown /\ d.account = c.account
      /\ d.markouts = c.markouts /\ d.seen = c.seen /\ c.fuel \in Nat
      /\ d.issued = IF t.send THEN counted ELSE c.issued
      /\ d.rest = c.rest /\ d.writerUp = c.writerUp
  <2> HIDE DEF counted
  <2> QED BY DEF Contexts
<1>6. Flattens(i) \subseteq Flattens(n)
  BY <1>1, FlattensGrow
<1>7. OwnProbe(p, c.issued) => OwnProbe(p, counted)
  <2>1. p.flatOid[2] \in Nat /\ p.flatReq \in Nat
    BY <1>1 DEF ProbeRecords, Oids
  <2>2. p.flatReq \in p.flatOid[2] .. i => p.flatReq \in p.flatOid[2] .. n
    BY <1>1, <2>1
  <2> HIDE DEF counted, n, p
  <2> QED BY <1>2, <1>6, <2>2 DEF OwnProbe
<1>8. OwnMarks(c.markouts, p, c.seen, c.issued) => OwnMarks(c.markouts, p, c.seen, counted)
  <2> HIDE DEF counted, n
  <2> QED BY <1>2, <1>6 DEF OwnMarks
<1>9. Evolves(c, d)
  <2> HIDE DEF d, counted, p
  <2>1. Own(c) => Own(d)
    BY <1>5, <1>7, <1>8 DEF Own, p
  <2>2. d.issued.probes = c.issued.probes
    BY <1>2, <1>5
  <2> QED BY <1>5, <2>1, <2>2 DEF Evolves, Reacts, Follows, Outlasts, CancelsOnce, Active, p
<1>10. ASSUME t.send, OwnProbe(p, d.issued), Active(c) PROVE OwnProbe(flattening, d.issued)
  <2>1. d.issued.flattens = n
    BY <1>2, <1>5, <1>10
  <2>2. n \in p.flatOid[2] .. n
    <3>1. p.flatOid[2] \in Nat /\ p.flatOid[2] <= n
      BY <1>1, <1>10, <2>1 DEF OwnProbe, Flattens, Flatten, NoOid
    <3> HIDE DEF n
    <3> QED BY <1>1, <3>1
  <2> HIDE DEF n, d, flattening
  <2> QED BY <1>3, <1>5, <1>10, <2>1, <2>2 DEF OwnProbe, Active, p
<1>11. ASSUME Active(c), ~c.err PROVE Evolves(c, Dispatch(d, request, flattening, t.send))
  <2>1. request[1] = "flatten" /\ request[2][2] > 0
    BY <1>1 DEF Flatten
  <2>2. t.send \in BOOLEAN
    BY DEF TickRecords
  <2> HIDE DEF d, request, flattening
  <2>3. Active(d) /\ ~d.err /\ d.probe.cancelReq = p.cancelReq /\ d.probe.id = p.id
    BY <1>5, <1>11 DEF Active
  <2>4. /\ flattening.phase # "Absent" /\ flattening.phase # "CancelPending"
        /\ request[1] # "place" /\ request[1] # "cancel"
    BY <1>3, <2>1
  <2>5. t.send /\ OwnProbe(d.probe, d.issued) => OwnProbe(flattening, d.issued)
    BY <1>5, <1>10, <1>11
  <2>6. Evolves(d, Dispatch(d, request, flattening, t.send))
    <3> HIDE DEF p, n
    <3> QED BY <1>3, <1>4, <2>1, <2>2, <2>3, <2>4, <2>5, DispatchEvolves
  <2>7. ASSUME NEW e, Evolves(d, e) PROVE Evolves(c, e)
    <3> QED BY <1>5, <1>9, <2>7 DEF Evolves, Reacts, Follows, Outlasts, CancelsOnce, Active, p
  <2> QED BY <2>6, <2>7
<1>12. Evolves(c, [c EXCEPT !.err = TRUE])
  <2>1. Background(c, [c EXCEPT !.err = TRUE])
    BY <1>5 DEF Background, Outlasts, Contexts
  <2> QED BY <2>1, BackgroundEvolves
<1>13. MaybeFlatten(c, risk, t)
        = IF c.err \/ ~Active(c) \/ p.phase = "FlattenPending" \/ (~risk /\ unsampled) THEN c
          ELSE IF c.account.inv = 0 THEN (IF p.cum > 0 THEN RequestThrottled(c, t) ELSE c)
          ELSE IF t.view = "none" THEN [c EXCEPT !.err = TRUE]
          ELSE Dispatch(d, request, flattening, t.send)
  BY DEF MaybeFlatten
<1> HIDE DEF p, d, request, flattening, unsampled
<1> QED BY <1>11, <1>12, <1>13, EvolvesRefl, RequestThrottledBackground, BackgroundEvolves

LEMMA FailedEvolves ==
  ASSUME NEW c \in Contexts
  PROVE  Evolves(c, [c EXCEPT !.err = TRUE])
<1>1. c.fuel \in Nat
  BY ContextParts
<1>2. Background(c, [c EXCEPT !.err = TRUE])
  BY <1>1 DEF Background, Outlasts, Contexts
<1> QED BY <1>2, BackgroundEvolves

LEMMA RecordEvolves ==
  ASSUME NEW c \in Contexts, NEW n \in Nat
  PROVE  Evolves(c, Record(c, n)) /\ Record(c, n) \in Contexts
BY RecordBackground, BackgroundEvolves, RecordContext

\* A probe ends when its order is rejected.
LEMMA RecordedEnd ==
  ASSUME NEW c \in Contexts, NEW n \in Nat
  PROVE  Evolves(c, FinishProbe(Record(c, n)))
BY RecordEvolves, FinishProbeEvolves, FinishProbeContext, EvolvesTrans

-----------------------------------------------------------------------------
(* Responses on the action websocket *)

\* A response to a place gives the probe the order id of its own maker order.
LEMMA PlacePostEvolves ==
  ASSUME NEW c \in Contexts, NEW k \in Nat, NEW outcome \in Outcomes
  PROVE  Evolves(c, PlacePost(c, k, outcome))
<1> DEFINE armed == c.probe.armed \cup {"post"}
           accepted == [c.probe EXCEPT !.oid = Maker(k), !.armed = armed]
           resting == [c EXCEPT !.probe = AfterRestingPost(accepted)]
           filled == [c EXCEPT !.probe = AfterFilledPost(accepted)]
<1>1. c.probe \in ProbeRecords
  BY ContextParts
<1>2. /\ accepted \in GoodProbes /\ "post" \in accepted.armed /\ accepted.oid = Maker(k)
      /\ accepted.oid # NoOid
      /\ accepted.id = c.probe.id /\ accepted.phase = c.probe.phase
      /\ accepted.cancelReq = c.probe.cancelReq /\ accepted.flatReq = c.probe.flatReq
      /\ accepted.flatOid = c.probe.flatOid
  <2>1. /\ CanTimeOut(c.probe) /\ MatchesProgress(c.probe)
        /\ Maker(k) \in Oids /\ Maker(k) # NoOid
    BY ContextParts, OidValues DEF GoodProbes
  <2>2. /\ armed \in SUBSET {"post", "cancel", "flatten"}
        /\ "post" \in armed /\ c.probe.armed \subseteq armed
    BY <1>1 DEF ProbeRecords
  <2> HIDE DEF armed
  <2>3. accepted \in ProbeRecords /\ accepted.armed = armed /\ accepted.oid = Maker(k)
    BY <1>1, <2>1, <2>2 DEF ProbeRecords
  <2>4. CanTimeOut(accepted)
    BY <1>1, <2>1, <2>2 DEF CanTimeOut, Waiting, ProbeRecords
  <2>5. MatchesProgress(accepted)
    BY <1>1, <2>1 DEF MatchesProgress, ProbeRecords
  <2>6. /\ accepted.id = c.probe.id /\ accepted.phase = c.probe.phase
        /\ accepted.cancelReq = c.probe.cancelReq /\ accepted.flatReq = c.probe.flatReq
        /\ accepted.flatOid = c.probe.flatOid
    BY <1>1 DEF ProbeRecords
  <2> QED BY <2>1, <2>2, <2>3, <2>4, <2>5, <2>6 DEF GoodProbes
<1>3. ASSUME NEW q \in {AfterRestingPost(accepted), AfterFilledPost(accepted)}, c.probe.id = k
      PROVE  Evolves(c, Record([c EXCEPT !.probe = q], 1))
  <2> HIDE DEF accepted
  <2>1. /\ q \in GoodProbes /\ (q.phase # "Absent" <=> Active(c))
        /\ (q.phase = "CancelPending" => c.probe.phase = "CancelPending")
        /\ q.id = c.probe.id /\ q.oid = Maker(k) /\ q.cancelReq = c.probe.cancelReq
        /\ q.flatReq = c.probe.flatReq /\ q.flatOid = c.probe.flatOid
    <3>1. q \in GoodProbes /\ accepted \in ProbeRecords
      BY <1>2, PostedGood DEF GoodProbes
    <3>2. q \in {accepted, Enter(accepted, "PostAccepted"), Enter(accepted, "Filled")}
          /\ (q # accepted => accepted.phase # "Absent")
      BY DEF AfterRestingPost, AfterFilledPost
    <3> QED BY <1>2, <3>1, <3>2 DEF Enter, ProbeRecords, Active
  <2>2. OwnProbe(c.probe, c.issued) => OwnProbe(q, c.issued)
    BY <1>3, <2>1 DEF OwnProbe, Active
  <2>3. [c EXCEPT !.probe = q] \in Contexts /\ Evolves(c, [c EXCEPT !.probe = q])
    BY <2>1, <2>2, ProbeMoves, WithProbe
  <2> QED BY <2>3, RecordEvolves, EvolvesTrans
<1>4. PlacePost(c, k, outcome)
        \in {Record(c, 1), FinishProbe(Record(c, 2)), [c EXCEPT !.err = TRUE]}
          \cup (IF c.probe.id = k THEN {Record(resting, 1), Record(filled, 1)} ELSE {})
  BY Zenon DEF PlacePost, Outcomes
<1>5. c.probe.id = k => Evolves(c, Record(resting, 1)) /\ Evolves(c, Record(filled, 1))
  <2> HIDE DEF accepted
  <2> QED BY <1>3
<1> HIDE DEF resting, filled
<1> QED BY <1>4, <1>5, RecordEvolves, RecordedEnd, FailedEvolves

\* A response to a flatten binds the order id of the request the probe waits for.
LEMMA FlattenPostEvolves ==
  ASSUME NEW c \in Contexts, NEW n \in Nat, n > 0, NEW outcome \in Outcomes, Own(c)
  PROVE  Evolves(c, FlattenPost(c, n, outcome))
<1> DEFINE r == Record(c, 1)
           bound == [r.probe EXCEPT !.flatOid = Flatten(n)]
           armed == r.probe.armed \ {"flatten"}
           dropped == [r.probe EXCEPT !.flatReq = 0, !.armed = armed]
           Retry(p) == RequestRest(Record([r EXCEPT !.probe = Recover(p)], 1))
<1>1. /\ r \in Contexts /\ r.probe = c.probe /\ Evolves(c, r) /\ r.issued = c.issued
      /\ c.probe \in ProbeRecords /\ c.issued \in Counters
  BY RecordContext, RecordKeeps, RecordBackground, RecordEvolves, ContextParts DEF Background
<1>2. /\ bound.phase = c.probe.phase /\ bound.id = c.probe.id
      /\ bound.oid = c.probe.oid /\ bound.cancelReq = c.probe.cancelReq
      /\ bound.flatReq = c.probe.flatReq /\ bound.flatOid = Flatten(n)
      /\ dropped.phase = c.probe.phase /\ dropped.id = c.probe.id
      /\ dropped.oid = c.probe.oid /\ dropped.cancelReq = c.probe.cancelReq
      /\ dropped.flatReq = 0 /\ dropped.flatOid = c.probe.flatOid
  <2> HIDE DEF r, armed
  <2> QED BY <1>1 DEF ProbeRecords
<1>3. bound \in GoodProbes /\ bound \in ProbeRecords /\ dropped \in ProbeRecords
  <2>1. /\ c.probe \in ProbeRecords /\ CanTimeOut(c.probe) /\ MatchesProgress(c.probe)
        /\ Flatten(n) \in Oids
    BY ContextParts, OidValues DEF GoodProbes
  <2> HIDE DEF r
  <2>2. bound \in ProbeRecords /\ dropped \in ProbeRecords
    BY <1>1, <2>1 DEF ProbeRecords
  <2>3. CanTimeOut(bound) /\ MatchesProgress(bound)
    BY <1>1, <2>1 DEF CanTimeOut, MatchesProgress, Waiting, ProbeRecords
  <2> QED BY <2>2, <2>3 DEF GoodProbes
<1>4. c.probe.flatReq = n => OwnProbe(bound, c.issued)
  <2>1. c.issued.flattens \in Nat /\ c.probe.flatOid[2] \in Nat
    BY <1>1 DEF Counters, ProbeRecords, Oids
  <2> HIDE DEF bound
  <2>2. ASSUME c.probe.flatReq = n
        PROVE  /\ n \in c.probe.flatOid[2] .. c.issued.flattens /\ n \in n .. c.issued.flattens
               /\ c.probe.flatOid[2] <= n /\ Flatten(n) \in Flattens(c.issued.flattens)
               /\ c.probe.phase # "Absent" /\ c.probe.id = c.issued.probes
    BY <2>1, <2>2 DEF Own, OwnProbe, Flattens
  <2>3. ASSUME c.probe.flatReq = n
        PROVE  bound.oid \in {NoOid, Maker(bound.id)} \cup Flattens(bound.flatOid[2])
    <3>1. bound.flatOid[2] = n
      BY <1>2 DEF Flatten
    <3>2. Flattens(c.probe.flatOid[2]) \subseteq Flattens(n)
      BY <2>1, <2>2, <2>3, FlattensGrow
    <3> QED BY <1>2, <3>1, <3>2 DEF Own, OwnProbe
  <2> QED BY <1>2, <2>2, <2>3 DEF OwnProbe, Flatten
<1>5. Active(c) => OwnProbe(dropped, c.issued)
  <2> HIDE DEF dropped
  <2> QED BY <1>2 DEF Own, OwnProbe, Active
<1>6. ASSUME NEW p \in {bound, dropped}, Active(c), OwnProbe(p, c.issued)
      PROVE  Evolves(c, Retry(p))
  <2>1. p \in ProbeRecords /\ p.phase # "Absent" /\ p.id = c.probe.id
        /\ p.cancelReq = c.probe.cancelReq
    <3> HIDE DEF bound, dropped
    <3> QED BY <1>2, <1>3, <1>6 DEF Active
  <2> DEFINE q == Recover(p)
             moved == [r EXCEPT !.probe = q]
  <2>2. q \in GoodProbes
    BY <2>1, RecoverGood
  <2>3. /\ q.phase = "Recovering" /\ q.id = p.id /\ q.oid = p.oid /\ q.flatOid = p.flatOid
        /\ q.flatReq = p.flatReq /\ q.cancelReq = p.cancelReq
    <3> HIDE DEF bound, dropped
    <3> QED BY <2>1 DEF Recover, ProbeRecords
  <2> HIDE DEF q, r, bound, dropped
  <2>4. OwnProbe(q, c.issued)
    BY <1>6, <2>1, <2>3, BindingKept
  <2>5. moved \in Contexts /\ Evolves(r, moved)
    BY <1>1, <1>6, <2>1, <2>2, <2>3, <2>4, ProbeMoves, WithProbe DEF Active
  <2>6. Evolves(c, moved)
    BY <1>1, <2>5, EvolvesTrans
  <2> HIDE DEF moved
  <2>7. Evolves(moved, Record(moved, 1)) /\ Record(moved, 1) \in Contexts
    BY <2>5, RecordEvolves
  <2>8. /\ Evolves(Record(moved, 1), RequestRest(Record(moved, 1)))
        /\ RequestRest(Record(moved, 1)) \in Contexts
    BY <2>7, RequestRestBackground, BackgroundEvolves, RequestRestContext
  <2>9. Evolves(c, RequestRest(Record(moved, 1)))
    BY <2>5, <2>6, <2>7, <2>8, EvolvesTrans
  <2> QED BY <2>9 DEF moved, q
<1>7. ASSUME c.probe.flatReq = n, Active(c) PROVE Evolves(c, [r EXCEPT !.probe = bound])
  <2> HIDE DEF bound, r
  <2>1. Evolves(r, [r EXCEPT !.probe = bound]) /\ [r EXCEPT !.probe = bound] \in Contexts
    BY <1>1, <1>2, <1>3, <1>4, <1>7, ProbeMoves, WithProbe DEF Active
  <2> QED BY <1>1, <2>1, EvolvesTrans
<1>8. c.probe.flatReq = n => Active(c)
  BY DEF Own, OwnProbe, Active
<1>9. c.probe.flatReq = n => Evolves(c, Retry(bound)) /\ Evolves(c, Retry(dropped))
  <2> HIDE DEF bound, dropped, Retry
  <2> QED BY <1>4, <1>5, <1>6, <1>8
<1>10. FlattenPost(c, n, outcome)
        \in {r, [c EXCEPT !.err = TRUE]}
          \cup (IF c.probe.flatReq = n
                THEN {[r EXCEPT !.probe = bound], Retry(bound), Retry(dropped)} ELSE {})
  BY Zenon DEF FlattenPost, Outcomes
<1> HIDE DEF r, bound, dropped, Retry
<1> QED BY <1>1, <1>7, <1>8, <1>9, <1>10, FailedEvolves

\* The answered request leaves the wire; what the answer does follows from there.
LEMMA PostResponseEvolves ==
  ASSUME NEW c \in Contexts, NEW request \in c.wire, NEW outcome \in Outcomes, Own(c)
  PROVE  Evolves([c EXCEPT !.wire = @ \ {request}], PostResponse(c, request, outcome))
<1> DEFINE d == [c EXCEPT !.wire = @ \ {request}]
<1>1. d \in Contexts /\ d.wire = c.wire \ {request} /\ d.probe = c.probe
      /\ d.issued = c.issued /\ d.markouts = c.markouts /\ d.seen = c.seen
  BY DEF Contexts
<1>2. request \in Requests /\ request[1] \in {"place", "cancel", "flatten"}
      /\ request[2][2] \in Nat
  BY ContextParts DEF Requests, Oids
<1>3. PostResponse(c, request, outcome)
        \in {d, PlacePost(d, request[2][2], outcome), CancelPost(d, outcome)}
          \cup (IF request[1] = "flatten" THEN {FlattenPost(d, request[2][2], outcome)} ELSE {})
  BY <1>2, Zenon DEF PostResponse
<1> HIDE DEF d
<1>4. Own(d)
  BY <1>1 DEF Own, OwnWire
<1>5. request[1] = "flatten" => request[2][2] > 0
  BY DEF Own, OwnWire
<1>6. Evolves(d, CancelPost(d, outcome))
  BY <1>1, FailedEvolves, RecordEvolves DEF CancelPost
<1>7. request[1] = "flatten" => Evolves(d, FlattenPost(d, request[2][2], outcome))
  BY <1>1, <1>2, <1>4, <1>5, FlattenPostEvolves
<1>8. Evolves(d, PlacePost(d, request[2][2], outcome)) /\ Evolves(d, d)
  BY <1>1, <1>2, PlacePostEvolves, EvolvesRefl
<1>9. Evolves(d, PostResponse(c, request, outcome))
  BY <1>3, <1>6, <1>7, <1>8
<1> QED BY <1>9 DEF d

-----------------------------------------------------------------------------
(* Private feed *)

\* An update that matched gives the probe an order id that is its own.
LEMMA MatchedMoves ==
  ASSUME NEW c \in Contexts, NEW oid, Matches(c, oid), NEW q,
         q.phase # "Absent", q.id = c.probe.id, q.oid \in {oid, c.probe.oid},
         q.flatOid = c.probe.flatOid, q.flatReq = c.probe.flatReq,
         q.cancelReq = c.probe.cancelReq, q.phase # "CancelPending"
  PROVE  Evolves(c, [c EXCEPT !.probe = q])
<1>1. Active(c) /\ oid \in {Maker(c.probe.id), c.probe.oid}
  BY DEF Matches
<1>2. OwnProbe(c.probe, c.issued) => OwnProbe(q, c.issued)
  BY <1>1 DEF OwnProbe, Active
<1> QED BY <1>1, <1>2, ProbeMoves

LEMMA OrderDoneFields ==
  ASSUME NEW p \in ProbeRecords, NEW u \in Updates
  PROVE  LET q == OrderDone(p, u) IN
         /\ q.phase = "MarkoutPending" /\ q.id = p.id /\ q.oid = p.oid /\ q.flatOid = p.flatOid
         /\ q.flatReq = p.flatReq /\ q.cancelReq = p.cancelReq
<1> DEFINE entered == Enter(p, "MarkoutPending")
           cum == Larger(entered.cum, u.filled)
           done == [entered EXCEPT !.rem = 0, !.cum = cum, !.terminal = "current"]
<1>1. /\ entered \in ProbeRecords /\ entered.phase = "MarkoutPending" /\ entered.id = p.id
      /\ entered.oid = p.oid /\ entered.flatOid = p.flatOid
      /\ entered.flatReq = p.flatReq /\ entered.cancelReq = p.cancelReq
  <2>1. entered \in ProbeRecords
    BY EnterRecord DEF Phases
  <2> QED BY <2>1 DEF Enter, ProbeRecords
<1>2. OrderDone(p, u) = done
  BY DEF OrderDone
<1> HIDE DEF entered, cum
<1>3. /\ done.phase = "MarkoutPending" /\ done.id = p.id /\ done.oid = p.oid
      /\ done.flatOid = p.flatOid /\ done.flatReq = p.flatReq /\ done.cancelReq = p.cancelReq
  BY <1>1 DEF ProbeRecords
<1> QED BY <1>2, <1>3

LEMMA OrderOpenEvolves ==
  ASSUME NEW c \in Contexts, NEW u \in Updates, Matches(c, u.oid)
  PROVE  Evolves(c, OrderOpen(c, u))
<1> DEFINE p == [c.probe EXCEPT !.oid = u.oid, !.rem = u.left, !.cum = u.filled, !.opened = TRUE]
           phase == IF u.filled > 0 THEN "Partial" ELSE "Resting"
           q == Enter(p, phase)
           d == [c EXCEPT !.probe = q]
<1>1. /\ p \in ProbeRecords /\ p.opened /\ p.cum = u.filled /\ u.filled \in Nat
      /\ p.id = c.probe.id /\ p.oid = u.oid /\ p.flatOid = c.probe.flatOid
      /\ p.flatReq = c.probe.flatReq /\ p.cancelReq = c.probe.cancelReq
  <2>1. c.probe \in ProbeRecords
    BY ContextParts
  <2>2. u.oid \in Oids /\ u.left \in Lots /\ u.filled \in Lots /\ u.filled \in Nat
    BY LotsNat DEF Updates
  <2>3. p \in ProbeRecords
    BY <2>1, <2>2 DEF ProbeRecords
  <2> QED BY <2>1, <2>2, <2>3 DEF ProbeRecords
<1>2. phase \in Phases /\ phase \in {"Partial", "Resting"} /\ (phase = "Resting" => u.filled = 0)
  BY <1>1 DEF Phases
<1>3. /\ q \in ProbeRecords /\ q.phase = phase /\ q.opened /\ q.cum = u.filled
      /\ q.id = p.id /\ q.oid = p.oid /\ q.flatOid = p.flatOid /\ q.flatReq = p.flatReq
      /\ q.cancelReq = p.cancelReq
  <2> HIDE DEF p, phase
  <2>1. q \in ProbeRecords
    BY <1>1, <1>2, EnterRecord
  <2> QED BY <1>1, <2>1 DEF Enter, ProbeRecords
<1>4. d \in Contexts
  <2> HIDE DEF q, phase, p
  <2>1. q \in GoodProbes
    BY <1>2, <1>3 DEF GoodProbes, CanTimeOut, MatchesProgress, Waiting
  <2> QED BY <2>1, WithProbe
<1>5. Evolves(c, d)
  <2> HIDE DEF p, q, phase
  <2>1. q.phase # "Absent" /\ q.phase # "CancelPending" /\ q.oid = u.oid
    BY <1>1, <1>2, <1>3
  <2> QED BY <1>1, <1>3, <2>1, MatchedMoves
<1>6. OrderOpen(c, u) = IF c.probe.opened THEN d ELSE Record(d, 1)
  BY DEF OrderOpen
<1> HIDE DEF d
<1> QED BY <1>4, <1>5, <1>6, RecordEvolves, EvolvesTrans

LEMMA OrderCancelledEvolves ==
  ASSUME NEW c \in Contexts, NEW u \in Updates, Matches(c, u.oid)
  PROVE  Evolves(c, OrderCancelled(c, u))
<1> DEFINE r == Record(c, 1)
           settling == [r.probe EXCEPT !.phase = "Recovering", !.late = FALSE,
                                       !.rem = 0, !.terminal = "current"]
           waiting == [r EXCEPT !.probe = settling]
           done == [r EXCEPT !.probe = OrderDone(r.probe, u)]
<1>1. r \in Contexts /\ r.probe = c.probe /\ Evolves(c, r) /\ c.probe \in ProbeRecords
      /\ Matches(r, u.oid)
  BY RecordContext, RecordKeeps, RecordEvolves, ContextParts DEF Matches, Active
<1>2. settling \in ProbeRecords /\ settling.phase = "Recovering" /\ ~settling.late
      /\ settling.id = c.probe.id /\ settling.oid = c.probe.oid
      /\ settling.flatOid = c.probe.flatOid /\ settling.flatReq = c.probe.flatReq
      /\ settling.cancelReq = c.probe.cancelReq
  <2> HIDE DEF r
  <2> QED BY <1>1, LotsNat DEF ProbeRecords, Phases
<1>3. waiting \in Contexts /\ Evolves(r, waiting)
  <2> HIDE DEF r, settling
  <2>1. settling \in GoodProbes
    BY <1>2 DEF GoodProbes, CanTimeOut, MatchesProgress
  <2>2. Evolves(r, waiting)
    BY <1>1, <1>2, MatchedMoves
  <2> QED BY <1>1, <2>1, <2>2, WithProbe
<1>4. Larger(c.probe.cum, u.filled) > 0 => done \in Contexts
  <2>1. Larger(c.probe.cum, u.filled) > 0 => OrderDone(r.probe, u) \in GoodProbes
    BY <1>1, ContextParts, OrderDoneGood
  <2> HIDE DEF r
  <2> QED BY <1>1, <2>1, WithProbe
<1>5. Evolves(r, done)
  <2> HIDE DEF r
  <2> QED BY <1>1, OrderDoneFields, MatchedMoves
<1>6. OrderCancelled(c, u) = IF r.err THEN r
                             ELSE IF Larger(c.probe.cum, u.filled) > 0 THEN done
                             ELSE Record(waiting, 1)
  BY DEF OrderCancelled
<1> HIDE DEF r, done, waiting
<1>7. Evolves(c, waiting) /\ Evolves(waiting, Record(waiting, 1)) /\ Record(waiting, 1) \in Contexts
  BY <1>1, <1>3, EvolvesTrans, RecordEvolves
<1>8. Evolves(c, Record(waiting, 1))
  BY <1>3, <1>7, EvolvesTrans
<1> QED BY <1>1, <1>4, <1>5, <1>6, <1>8, EvolvesTrans

LEMMA OrderUpdateEvolves ==
  ASSUME NEW c \in Contexts, NEW u \in Updates
  PROVE  Evolves(c, OrderUpdate(c, u))
<1> DEFINE matched == [c.probe EXCEPT !.oid = u.oid]
           q == OrderDone(matched, u)
           filled == [c EXCEPT !.probe = q]
<1>1. /\ matched \in ProbeRecords /\ matched.oid = u.oid /\ matched.id = c.probe.id
      /\ matched.flatOid = c.probe.flatOid /\ matched.flatReq = c.probe.flatReq
      /\ matched.cancelReq = c.probe.cancelReq
  BY ContextParts DEF ProbeRecords, Updates
<1>2. Matches(c, u.oid) => Evolves(c, filled)
  <2>1. /\ q.phase = "MarkoutPending" /\ q.id = c.probe.id /\ q.oid = u.oid
        /\ q.flatOid = c.probe.flatOid /\ q.flatReq = c.probe.flatReq
        /\ q.cancelReq = c.probe.cancelReq
    <3> HIDE DEF matched
    <3> QED BY <1>1, OrderDoneFields
  <2> HIDE DEF q
  <2> QED BY <2>1, MatchedMoves
<1>3. u.status \in {"open", "filled", "canceled", "rejected"}
  BY DEF Updates
<1>4. OrderUpdate(c, u)
        \in {c} \cup (IF Matches(c, u.oid)
                      THEN {OrderOpen(c, u), OrderCancelled(c, u), filled,
                            FinishProbe(Record(c, 1))} ELSE {})
  BY <1>3, Zenon DEF OrderUpdate
<1> HIDE DEF filled
<1> QED BY <1>2, <1>4, EvolvesRefl, OrderOpenEvolves, OrderCancelledEvolves, RecordedEnd

\* News about the position: whatever follows it reacts to it.
LEMMA AccountMoves ==
  ASSUME NEW c \in Contexts, NEW inv \in Int
  PROVE  LET d == [c EXCEPT !.account = [c.account EXCEPT !.inv = inv]] IN
         d \in Contexts /\ Reacts(c, d)
<1> DEFINE account1 == [c.account EXCEPT !.inv = inv]
           d == [c EXCEPT !.account = account1]
<1>1. account1 \in AccountRecords
  BY ContextParts DEF AccountRecords
<1> HIDE DEF account1
<1>2. d \in Contexts
  BY <1>1 DEF Contexts
<1>3. /\ d.probe = c.probe /\ d.fuel = c.fuel /\ d.err = c.err /\ d.cooling = c.cooling
      /\ d.wire = c.wire /\ d.issued = c.issued /\ d.shutdown = c.shutdown
      /\ d.markouts = c.markouts /\ d.seen = c.seen /\ c.fuel \in Nat
      /\ d.rest = c.rest /\ d.writerUp = c.writerUp
  BY DEF Contexts
<1> HIDE DEF d
<1>4. Reacts(c, d)
  BY <1>3 DEF Reacts, Follows, Outlasts, CancelsOnce, Own, Active
<1> QED BY <1>2, <1>4 DEF d, account1

LEMMA EvolvesAfter ==
  ASSUME NEW c \in Contexts, NEW d \in Contexts, NEW e \in Contexts,
         Reacts(c, d), Evolves(d, e)
  PROVE  Reacts(c, e)
BY ReactsTrans DEF Evolves

LEMMA TouchEvolves ==
  ASSUME NEW c \in Contexts
  PROVE  Evolves(c, Touch(c)) /\ Touch(c) \in Contexts
BY TouchBackground, BackgroundEvolves, TouchContext

LEMMA RequestRestEvolves ==
  ASSUME NEW c \in Contexts
  PROVE  Evolves(c, RequestRest(c)) /\ RequestRest(c) \in Contexts
BY RequestRestBackground, BackgroundEvolves, RequestRestContext

LEMMA FlattenFillReacts ==
  ASSUME NEW c \in Contexts, NEW f \in Fills
  PROVE  Reacts(c, FlattenFill(c, f))
<1> DEFINE inv == c.account.inv + f.sign * f.size
           sold == [c EXCEPT !.account = [c.account EXCEPT !.inv = inv]]
           touched == Touch(sold)
           d == Record(touched, 1)
           e == IF d.err THEN d ELSE MaybeFinishFlatten(d)
<1>1. inv \in Int
  BY ContextParts DEF AccountRecords, Fills
<1>2. sold \in Contexts /\ Reacts(c, sold)
  <2> HIDE DEF inv
  <2> QED BY <1>1, AccountMoves
<1> HIDE DEF sold
<1>3. touched \in Contexts /\ Reacts(c, touched)
  BY <1>2, TouchEvolves, EvolvesAfter
<1> HIDE DEF touched
<1>4. d \in Contexts /\ Reacts(c, d)
  BY <1>3, RecordEvolves, EvolvesAfter
<1> HIDE DEF d
<1>5. e \in Contexts /\ Reacts(c, e)
  BY <1>4, MaybeFinishFlattenEvolves, MaybeFinishFlattenContext, EvolvesAfter
<1>6. FlattenFill(c, f) = IF Active(e) THEN RequestRest(e) ELSE e
  BY DEF FlattenFill, d, touched, sold
<1> HIDE DEF e
<1> QED BY <1>5, <1>6, RequestRestEvolves, EvolvesAfter

LEMMA ClearinghouseReacts ==
  ASSUME NEW c \in Contexts, NEW inv \in Int
  PROVE  Reacts(c, Clearinghouse(c, inv))
<1> DEFINE moved == [c EXCEPT !.account = [c.account EXCEPT !.inv = inv]]
           touched == Touch(moved)
<1>1. moved \in Contexts /\ Reacts(c, moved)
  BY AccountMoves
<1>2. Clearinghouse(c, inv) = IF c.err THEN c ELSE MaybeFinishFlatten(touched)
  BY DEF Clearinghouse
<1> HIDE DEF moved
<1>3. touched \in Contexts /\ Reacts(c, touched)
  BY <1>1, TouchEvolves, EvolvesAfter
<1> HIDE DEF touched
<1>4. Reacts(c, MaybeFinishFlatten(touched))
  BY <1>3, MaybeFinishFlattenEvolves, MaybeFinishFlattenContext, EvolvesAfter
<1> QED BY <1>2, <1>4, EvolvesRefl DEF Evolves

LEMMA PrivateReconnectEvolves ==
  ASSUME NEW c \in Contexts
  PROVE  Evolves(c, PrivateReconnect(c))
<1> DEFINE p == [c.probe EXCEPT !.terminal = "none"]
           cleared == [c EXCEPT !.probe = p]
<1>1. /\ c.probe \in ProbeRecords /\ CanTimeOut(c.probe) /\ MatchesProgress(c.probe)
  BY ContextParts DEF GoodProbes
<1>2. p \in ProbeRecords /\ CanTimeOut(p) /\ MatchesProgress(p)
  BY <1>1 DEF CanTimeOut, MatchesProgress, Waiting, ProbeRecords
<1>3. p.phase = c.probe.phase /\ p.id = c.probe.id /\ p.oid = c.probe.oid
      /\ p.flatOid = c.probe.flatOid /\ p.flatReq = c.probe.flatReq
      /\ p.cancelReq = c.probe.cancelReq
  BY <1>1 DEF ProbeRecords
<1> HIDE DEF p
<1>4. OwnProbe(c.probe, c.issued) => OwnProbe(p, c.issued)
  BY <1>3 DEF OwnProbe
<1>5. cleared \in Contexts /\ Evolves(c, cleared)
  BY <1>2, <1>3, <1>4, ProbeMoves, WithProbe DEF GoodProbes, Active
<1>6. PrivateReconnect(c) = Record(cleared, 1)
  BY DEF PrivateReconnect, p
<1> HIDE DEF cleared
<1> QED BY <1>5, <1>6, RecordEvolves, EvolvesTrans

\* A fill of the order the probe holds: the markout it opens is the probe's own.
LEMMA MakerFillReacts ==
  ASSUME NEW c \in Contexts, NEW f \in Fills, NEW send \in BOOLEAN,
         Active(c), c.probe.oid = f.oid, f.oid # NoOid, FillId(f) \in c.seen,
         \A m \in c.markouts : m.fill # FillId(f)
  PROVE  Reacts(c, MakerFill(c, f, send))
<1> DEFINE left == Larger(c.probe.rem - f.size, 0)
           cum == c.probe.cum + f.size
           terminal == IF left > 0 THEN c.probe.terminal ELSE "current"
           p == [c.probe EXCEPT !.cum = cum, !.rem = left, !.terminal = terminal]
           phase == IF left > 0 THEN "Partial" ELSE "MarkoutPending"
           q == Enter(p, phase)
           mark == [probe |-> p.id, fill |-> FillId(f), done |-> FALSE]
           inv == c.account.inv + f.size
           marks == c.markouts \cup {mark}
           funds == [c.account EXCEPT !.inv = inv]
           bought == [c EXCEPT !.probe = q, !.account = funds, !.markouts = marks]
           touched == Touch(bought)
           r == Record(touched, 1)
           e == RequestRest(r)
<1>1. /\ c.probe \in ProbeRecords /\ funds \in AccountRecords /\ c.fuel \in Nat
      /\ f.oid \in Oids /\ f.trade \in Nat /\ c.markouts \in SUBSET MarkoutRecords
  BY ContextParts DEF AccountRecords, Fills
<1>2. p \in ProbeRecords /\ q \in GoodProbes
  BY MakerFillGood
<1>3. /\ p.id = c.probe.id /\ p.oid = c.probe.oid /\ p.flatOid = c.probe.flatOid
      /\ p.flatReq = c.probe.flatReq /\ p.cancelReq = c.probe.cancelReq
  <2> HIDE DEF left, cum, terminal
  <2> QED BY <1>1 DEF ProbeRecords
<1>4. /\ q.phase \notin {"Absent", "CancelPending"} /\ q.id = c.probe.id /\ q.oid = c.probe.oid
      /\ q.flatOid = c.probe.flatOid /\ q.flatReq = c.probe.flatReq
      /\ q.cancelReq = c.probe.cancelReq
  <2>1. phase \notin {"Absent", "CancelPending"}
    OBVIOUS
  <2> HIDE DEF p, phase
  <2> QED BY <1>2, <1>3, <2>1 DEF Enter, ProbeRecords
<1>5. mark.probe = c.probe.id /\ mark.fill = FillId(f) /\ mark \in MarkoutRecords
  <2> HIDE DEF p
  <2> QED BY <1>1, <1>3 DEF MarkoutRecords, FillId, ProbeRecords
<1> HIDE DEF p, q, mark, funds
<1>6. bought \in Contexts
  <2>1. marks \in SUBSET MarkoutRecords
    BY <1>1, <1>5
  <2> HIDE DEF marks
  <2> QED BY <1>1, <1>2, <2>1 DEF Contexts
<1>7. /\ bought.probe = q /\ bought.markouts = marks /\ bought.fuel = c.fuel
      /\ bought.err = c.err /\ bought.cooling = c.cooling /\ bought.wire = c.wire
      /\ bought.issued = c.issued /\ bought.shutdown = c.shutdown /\ bought.seen = c.seen
      /\ bought.rest = c.rest /\ bought.writerUp = c.writerUp
  <2> HIDE DEF marks
  <2> QED BY DEF Contexts
<1> HIDE DEF bought
<1>8. ASSUME Own(c) PROVE Own(bought)
  <2>1. OwnProbe(q, c.issued)
    BY <1>4, <1>8, BindingKept DEF Own, Active
  <2>2. f.oid \in {Maker(c.probe.id)} \cup Flattens(c.issued.flattens)
    <3>1. c.probe.flatOid[2] \in Nat /\ c.issued.flattens \in Nat
      BY ContextParts DEF Counters, ProbeRecords, Oids
    <3>2. c.probe.flatOid[2] <= c.issued.flattens
      BY <1>8, <3>1 DEF Own, OwnProbe, Flattens, Flatten, NoOid
    <3>3. f.oid \in {Maker(c.probe.id)} \cup Flattens(c.probe.flatOid[2])
      BY <1>8 DEF Own, OwnProbe
    <3> QED BY <3>1, <3>2, <3>3, FlattensGrow
  <2>3. FillId(f)[1] = f.oid
    BY DEF FillId
  <2>4. \A m \in marks : m # mark => m \in c.markouts /\ m.fill # mark.fill
    BY <1>5, <1>8
  <2>5. \A m \in marks : m.fill \in c.seen
    BY <1>5, <1>8, <2>4 DEF Own, OwnMarks
  <2>6. \A m \in marks : m.fill[1] \in {Maker(m.probe)} \cup Flattens(c.issued.flattens)
    BY <1>5, <1>8, <2>2, <2>3, <2>4 DEF Own, OwnMarks
  <2>7. \A m \in marks : m.probe = q.id
    BY <1>4, <1>5, <1>8, <2>4 DEF Own, OwnMarks, Active
  <2>8. \A m, n \in marks : m.fill = n.fill => m = n
    <3> HIDE DEF marks
    <3> QED BY <1>8, <2>4 DEF Own, OwnMarks
  <2>9. OwnMarks(marks, q, c.seen, c.issued)
    BY <2>5, <2>6, <2>7, <2>8 DEF OwnMarks
  <2> QED BY <1>7, <1>8, <2>1, <2>9 DEF Own
<1>9. Reacts(c, bought)
  <2>1. Follows(c, bought)
    BY <1>1, <1>4, <1>7, <1>8 DEF Follows, Outlasts, Active
  <2>2. CancelsOnce(c, bought)
    BY <1>4, <1>7 DEF CancelsOnce
  <2> QED BY <1>7, <2>1, <2>2 DEF Reacts
<1>10. touched \in Contexts /\ Reacts(c, touched)
  BY <1>6, <1>9, TouchEvolves, EvolvesAfter
<1> HIDE DEF touched
<1>11. r \in Contexts /\ Reacts(c, r)
  BY <1>10, RecordEvolves, EvolvesAfter
<1> HIDE DEF r
<1>12. e \in Contexts /\ Reacts(c, e)
  BY <1>11, RequestRestEvolves, EvolvesAfter
<1>13. MakerFill(c, f, send) = IF left > 0 /\ ~p.cancelReq THEN CancelActive(e, send) ELSE Record(e, 1)
  BY DEF MakerFill, e, r, touched, bought, funds, q, p, mark
<1> HIDE DEF e, left
<1>14. Reacts(c, CancelActive(e, send)) /\ Reacts(c, Record(e, 1))
  BY <1>12, CancelActiveEvolves, CancelActiveContext, RecordEvolves, EvolvesAfter
<1> QED BY <1>13, <1>14

\* A fill is taken once, by the flatten or the order it names.
LEMMA UserFillReacts ==
  ASSUME NEW c \in Contexts, NEW f \in Fills, NEW send \in BOOLEAN, f.oid # NoOid,
         Own(c)
  PROVE  Reacts(c, UserFill(c, f, send))
<1> DEFINE seenNow == c.seen \cup {FillId(f)}
           d == [c EXCEPT !.seen = seenNow]
<1>1. d \in Contexts
  <2>1. seenNow \in SUBSET (Oids \X Nat)
    BY ContextParts DEF FillId, Fills
  <2> HIDE DEF seenNow
  <2> QED BY <2>1 DEF Contexts
<1>2. /\ d.probe = c.probe /\ d.fuel = c.fuel /\ d.err = c.err /\ d.cooling = c.cooling
      /\ d.wire = c.wire /\ d.issued = c.issued /\ d.shutdown = c.shutdown
      /\ d.markouts = c.markouts /\ d.seen = seenNow /\ d.account = c.account /\ c.fuel \in Nat
      /\ d.rest = c.rest /\ d.writerUp = c.writerUp
  BY DEF Contexts
<1>3. UserFill(c, f, send)
        \in {c, Record(d, 1)}
          \cup (IF FillId(f) \notin c.seen
                THEN {FlattenFill(d, f)}
                     \cup (IF Active(c) /\ c.probe.oid = f.oid THEN {MakerFill(d, f, send)} ELSE {})
                ELSE {})
  BY Zenon DEF UserFill
<1> HIDE DEF d
<1>4. Evolves(c, d)
  <2>1. Own(c) => Own(d)
    BY <1>2 DEF Own, OwnMarks
  <2> QED BY <1>2, <2>1 DEF Evolves, Reacts, Follows, Outlasts, CancelsOnce, Active
<1>5. ASSUME FillId(f) \notin c.seen, Active(c), c.probe.oid = f.oid
      PROVE  Reacts(d, MakerFill(d, f, send))
  <2>1. \A m \in d.markouts : m.fill # FillId(f)
    BY <1>2, <1>5 DEF Own, OwnMarks
  <2>2. Active(d) /\ FillId(f) \in d.seen
    BY <1>2, <1>5 DEF Active
  <2> QED BY <1>1, <1>2, <1>5, <2>1, <2>2, MakerFillReacts
<1>6. Reacts(d, FlattenFill(d, f)) /\ Reacts(d, Record(d, 1))
  BY <1>1, FlattenFillReacts, RecordEvolves DEF Evolves
<1>7. ASSUME NEW e \in Contexts, Reacts(d, e) PROVE Reacts(c, e)
  BY <1>1, <1>4, <1>7, ReactsTrans DEF Evolves
<1> QED BY <1>1, <1>3, <1>5, <1>6, <1>7, EvolvesRefl, FlattenFillContext, MakerFillContext,
           RecordContext DEF Evolves

-----------------------------------------------------------------------------
(* The timer *)

\* The first order a snapshot lists is one the probe can own.
Listed(c, t) == t.found \in SeenOpen(c.probe, t.latest.orders)

LEMMA ListedOwn ==
  ASSUME NEW c \in Contexts, NEW t \in TickRecords, Listed(c, t), Own(c), t.found # NoOid
  PROVE  t.found \in {NoOid, Maker(c.probe.id)} \cup Flattens(c.probe.flatOid[2])
<1>1. t.found \in {c.probe.oid, c.probe.flatOid, Maker(c.probe.id)}
  BY DEF Listed, SeenOpen, ProbeOids
<1>2. c.probe.flatOid # NoOid => c.probe.flatOid \in Flattens(c.probe.flatOid[2])
  BY DEF Own, OwnProbe, Flattens, Flatten
<1>3. c.probe.oid \in {NoOid, Maker(c.probe.id)} \cup Flattens(c.probe.flatOid[2])
  BY DEF Own, OwnProbe
<1> QED BY <1>1, <1>2, <1>3

\* With the snapshot taken over, a recovering probe may cancel its order again.
LEMMA ReconcileFollows ==
  ASSUME NEW c \in Contexts, NEW t \in TickRecords, Listed(c, t)
  PROVE  LET d == Reconcile(c, t) IN
         /\ Follows(c, d) /\ d.account = c.account
         /\ d.shutdown.notified = c.shutdown.notified
         /\ \/ CancelsOnce(c, d)
            \/ c.probe.phase = "Recovering" /\ c.probe.late /\ t.latest.orders # {}
<1> DEFINE p == c.probe
           reopened == [p EXCEPT !.oid = t.found, !.cancelReq = FALSE]
           entered == Enter(p, "MarkoutPending")
           armed == entered.armed \ {"flatten"}
           residual == [entered EXCEPT !.rem = 0, !.flatReq = 0, !.armed = armed]
           open == [c EXCEPT !.probe = reopened]
           held == [c EXCEPT !.probe = residual]
           found == p.phase = "Recovering" /\ p.late /\ t.found # NoOid
           d == Reconcile(c, t)
           result(e) == /\ Follows(c, e) /\ e.account = c.account
                        /\ e.shutdown.notified = c.shutdown.notified
                        /\ CancelsOnce(c, e) \/ found
<1>1. p \in ProbeRecords /\ t.found \in Oids /\ t.send \in BOOLEAN /\ c.fuel \in Nat
  BY ContextParts DEF TickRecords
<1>2. ASSUME found PROVE result(CancelActive(open, t.send))
  <2>1. /\ reopened \in ProbeRecords /\ reopened.phase = "Recovering" /\ reopened.id = p.id
        /\ reopened.oid = t.found /\ reopened.flatOid = p.flatOid /\ reopened.flatReq = p.flatReq
    <3> HIDE DEF p
    <3> QED BY <1>1, <1>2 DEF ProbeRecords
  <2> HIDE DEF reopened
  <2>2. open \in Contexts
    <3>1. reopened \in GoodProbes
      BY <2>1 DEF GoodProbes, CanTimeOut, MatchesProgress, Waiting
    <3> QED BY <3>1, WithProbe
  <2>3. /\ open.probe = reopened /\ open.fuel = c.fuel /\ open.err = c.err
        /\ open.cooling = c.cooling /\ open.wire = c.wire /\ open.issued = c.issued
        /\ open.shutdown = c.shutdown /\ open.account = c.account
        /\ open.markouts = c.markouts /\ open.seen = c.seen
        /\ open.rest = c.rest /\ open.writerUp = c.writerUp
    BY DEF Contexts
  <2> HIDE DEF open
  <2>4. ASSUME Own(c) PROVE Own(open)
    <3>1. t.found \in {NoOid, Maker(p.id)} \cup Flattens(p.flatOid[2])
      BY <1>2, <2>4, ListedOwn
    <3>2. OwnProbe(reopened, c.issued)
      BY <1>2, <2>1, <2>4, <3>1 DEF Own, OwnProbe
    <3>3. OwnMarks(c.markouts, reopened, c.seen, c.issued)
      BY <1>2, <2>1, <2>4 DEF Own, OwnMarks
    <3> QED BY <2>3, <2>4, <3>2, <3>3 DEF Own
  <2>5. Follows(c, open)
    BY <1>1, <1>2, <2>1, <2>3, <2>4 DEF Follows, Outlasts, Active
  <2> DEFINE e == CancelActive(open, t.send)
  <2>6. e \in Contexts /\ Evolves(open, e)
    BY <1>1, <2>2, CancelActiveEvolves, CancelActiveContext
  <2> HIDE DEF e
  <2>7. Follows(c, e)
    BY <2>2, <2>5, <2>6, FollowsTrans DEF Evolves, Reacts
  <2>8. e.account = c.account /\ e.shutdown.notified = c.shutdown.notified
    BY <2>3, <2>6 DEF Evolves, Reacts
  <2> HIDE DEF found
  <2>9. result(e)
    BY <1>2, <2>7, <2>8
  <2> QED BY <2>9 DEF e
<1>3. ASSUME Active(c), p.phase = "Recovering" PROVE Evolves(c, held)
  <2>1. /\ residual.phase = "MarkoutPending" /\ residual.id = p.id /\ residual.oid = p.oid
        /\ residual.flatOid = p.flatOid /\ residual.flatReq = 0
        /\ residual.cancelReq = p.cancelReq
    <3>1. /\ entered \in ProbeRecords /\ entered.phase = "MarkoutPending" /\ entered.id = p.id
          /\ entered.oid = p.oid /\ entered.flatOid = p.flatOid /\ entered.cancelReq = p.cancelReq
      <4>1. entered \in ProbeRecords
        BY <1>1, EnterRecord DEF Phases
      <4> HIDE DEF p
      <4> QED BY <1>1, <4>1 DEF Enter, ProbeRecords
    <3> HIDE DEF entered, armed
    <3> QED BY <3>1 DEF ProbeRecords
  <2> HIDE DEF residual
  <2>2. OwnProbe(p, c.issued) => OwnProbe(residual, c.issued)
    BY <1>3, <2>1, BindingKept DEF Active
  <2> QED BY <1>3, <2>1, <2>2, ProbeMoves DEF Active
<1>4. ASSUME NEW e, Evolves(c, e) PROVE result(e)
  BY <1>4 DEF Evolves, Reacts
<1>5. d \in {c, MaybeFinishFlatten(c), FinishProbe(c)}
          \cup (IF found THEN {CancelActive(open, t.send)} ELSE {})
          \cup (IF Active(c) /\ p.phase = "Recovering" THEN {held} ELSE {})
  BY DEF Reconcile
<1>6. found => t.latest.orders # {}
  BY DEF Listed, SeenOpen
<1>7. result(d)
  <2> HIDE DEF d, open, held, found, p, result
  <2> QED BY <1>2, <1>3, <1>4, <1>5, EvolvesRefl, MaybeFinishFlattenEvolves, FinishProbeEvolves
<1> QED BY <1>6, <1>7

LEMMA FollowsRefl ==
  ASSUME NEW c \in Contexts
  PROVE  Follows(c, c) /\ CancelsOnce(c, c)
BY EvolvesRefl DEF Evolves, Reacts

\* A recovery takes over a snapshot that lists an open order.
Relisted(c, d) == /\ c.probe.phase = "Recovering" /\ c.probe.late
                  /\ c.rest.unread /\ ~d.rest.unread /\ d.account.open

\* What a REST snapshot does to the strategy.
Refreshed(c, d) ==
  /\ Follows(c, d) /\ d.shutdown.notified = c.shutdown.notified
  /\ \/ CancelsOnce(c, d)
     \/ Relisted(c, d)

LEMMA RefreshAccountFollows ==
  ASSUME NEW c \in Contexts, NEW t \in TickRecords, Listed(c, t)
  PROVE  Refreshed(c, RefreshAccount(c, t))
<1>1. CASE ~c.rest.unread \/ c.rest.worker = "gone"
  BY <1>1, FollowsRefl DEF RefreshAccount, Refreshed
<1>2. CASE c.rest.unread /\ c.rest.worker # "gone"
  <2> DEFINE taken == TakeOver(c)
             read == [inv |-> t.latest.inv, open |-> t.latest.orders # {}, healthy |-> TRUE]
             snapshot == IF taken.shutdown.snapshot = "requested" THEN "fresh"
                         ELSE taken.shutdown.snapshot
             shut == [taken.shutdown EXCEPT !.snapshot = snapshot]
             adopted == [taken EXCEPT !.account = read, !.shutdown = shut]
             again == [taken.shutdown EXCEPT !.snapshot = "none"]
             asking == [taken EXCEPT !.shutdown = again]
             e == Reconcile(adopted, t)
  <2>1. taken \in Contexts
    BY <1>2, TakeOverContext
  <2>2. /\ taken.probe = c.probe /\ taken.fuel = c.fuel /\ taken.err = c.err
        /\ taken.cooling = c.cooling /\ taken.wire = c.wire /\ taken.issued = c.issued
        /\ taken.shutdown = c.shutdown /\ taken.markouts = c.markouts /\ taken.seen = c.seen
        /\ taken.account = c.account /\ c.fuel \in Nat
        /\ taken.rest.worker = c.rest.worker /\ ~taken.rest.unread
        /\ taken.writerUp = c.writerUp
    BY ContextParts DEF TakeOver, Contexts, GateRests, RestRecords
  <2> HIDE DEF taken
  <2>3. shut \in ShutdownRecords /\ again \in ShutdownRecords /\ read \in AccountRecords
        /\ shut.signal = c.shutdown.signal /\ shut.notified = c.shutdown.notified
        /\ again.signal = c.shutdown.signal /\ again.notified = c.shutdown.notified
    <3>1. taken.shutdown \in ShutdownRecords
      BY <2>1, ContextParts
    <3>2. read \in AccountRecords
      BY DEF TickRecords, AccountRecords
    <3> HIDE DEF read
    <3> QED BY <2>2, <3>1, <3>2 DEF ShutdownRecords
  <2>4. read.open = (t.latest.orders # {})
    OBVIOUS
  <2> HIDE DEF read, shut, again
  <2>5. ASSUME NEW s \in ShutdownRecords, NEW a \in AccountRecords,
               s.signal = c.shutdown.signal, s.notified = c.shutdown.notified,
               NEW d, d = [taken EXCEPT !.account = a, !.shutdown = s]
        PROVE  /\ d \in Contexts /\ Reacts(c, d) /\ d.account = a /\ d.probe = c.probe
               /\ ~d.rest.unread
    <3>1. d \in Contexts
      BY <2>1, <2>5 DEF Contexts
    <3>2. /\ d.probe = c.probe /\ d.fuel = c.fuel /\ d.err = c.err
          /\ d.cooling = c.cooling /\ d.wire = c.wire /\ d.issued = c.issued
          /\ d.shutdown = s /\ d.markouts = c.markouts /\ d.seen = c.seen /\ d.account = a
          /\ d.rest = taken.rest /\ d.writerUp = taken.writerUp
      BY <2>1, <2>2, <2>5 DEF Contexts
    <3>3. Reacts(c, d)
      BY <2>2, <2>5, <3>2 DEF Reacts, Follows, Outlasts, CancelsOnce, Own, Active
    <3> QED BY <2>2, <3>1, <3>2, <3>3
  <2>6. adopted \in Contexts /\ Reacts(c, adopted) /\ adopted.account = read
        /\ adopted.probe = c.probe /\ ~adopted.rest.unread
    BY <2>3, <2>5
  <2>7. asking \in Contexts /\ Reacts(c, asking)
    <3>1. asking = [taken EXCEPT !.account = c.account, !.shutdown = again]
      BY <2>1, <2>2 DEF Contexts
    <3> HIDE DEF asking
    <3> QED BY <2>3, <2>5, <3>1, ContextParts
  <2>8. Reacts(c, taken)
    BY <2>2 DEF Reacts, Follows, Outlasts, CancelsOnce, Own, Active
  <2> HIDE DEF adopted, asking
  <2>9. ASSUME NEW d, Reacts(c, d) PROVE Refreshed(c, d)
    BY <2>9 DEF Reacts, Refreshed
  <2>10. Refreshed(c, Record(asking, 1)) /\ Refreshed(c, taken)
    <3>1. Reacts(c, Record(asking, 1))
      BY <2>7, RecordEvolves, EvolvesAfter
    <3> QED BY <2>8, <2>9, <3>1
  <2>11. Refreshed(c, e)
    <3>1. Listed(adopted, t)
      BY <2>6 DEF Listed
    <3>2. /\ Follows(adopted, e) /\ e.account = adopted.account
          /\ e.shutdown.notified = adopted.shutdown.notified
          /\ \/ CancelsOnce(adopted, e)
             \/ c.probe.phase = "Recovering" /\ c.probe.late /\ t.latest.orders # {}
      BY <2>6, <3>1, ReconcileFollows
    <3>3. e \in Contexts
      BY <2>6, ReconcileContext
    <3> HIDE DEF e
    <3>4. Follows(c, e) /\ e.shutdown.notified = c.shutdown.notified
      BY <2>6, <3>2, <3>3, FollowsTrans DEF Reacts
    <3>5. CASE CancelsOnce(adopted, e)
      <4>1. Reacts(adopted, e)
        BY <3>2, <3>5 DEF Reacts
      <4>2. Reacts(c, e)
        BY <2>6, <3>3, <4>1, ReactsTrans
      <4> QED BY <4>2, <2>9
    <3>6. CASE c.probe.phase = "Recovering" /\ c.probe.late /\ t.latest.orders # {}
      BY <1>2, <2>4, <2>6, <3>2, <3>4, <3>6 DEF Refreshed, Relisted, Follows, Outlasts
    <3> QED BY <3>2, <3>5, <3>6
  <2>12. RefreshAccount(c, t) \in {Record(asking, 1), taken, e}
    BY <1>2 DEF RefreshAccount, asking, taken, adopted, read, shut, again
  <2> QED BY <2>10, <2>11, <2>12
<1> QED BY <1>1, <1>2

\* Markouts that are dropped, or counted as sampled, are still about the same fills.
LEMMA MarksReplaced ==
  ASSUME NEW c \in Contexts, NEW marks, OwnMarks(c.markouts, c.probe, c.seen, c.issued)
                                          => OwnMarks(marks, c.probe, c.seen, c.issued)
  PROVE  Evolves(c, [c EXCEPT !.markouts = marks])
<1> DEFINE d == [c EXCEPT !.markouts = marks]
<1>1. /\ d.probe = c.probe /\ d.fuel = c.fuel /\ d.err = c.err /\ d.cooling = c.cooling
      /\ d.wire = c.wire /\ d.issued = c.issued /\ d.shutdown = c.shutdown
      /\ d.account = c.account /\ d.seen = c.seen /\ d.markouts = marks /\ c.fuel \in Nat
      /\ d.rest = c.rest /\ d.writerUp = c.writerUp
  BY DEF Contexts
<1> HIDE DEF d
<1>2. Own(c) => Own(d)
  BY <1>1 DEF Own
<1>3. Evolves(c, d)
  BY <1>1, <1>2 DEF Evolves, Reacts, Follows, Outlasts, CancelsOnce, Active
<1> QED BY <1>3 DEF d

LEMMA SampleMarkoutsEvolves ==
  ASSUME NEW c \in Contexts, NEW t \in TickRecords
  PROVE  Evolves(c, SampleMarkouts(c, t))
<1> DEFINE due == {m \in c.markouts : m \in t.due /\ ~m.done}
           kept == {m \in c.markouts : m \notin t.due /\ ~m.done}
           counted == {[m EXCEPT !.done = TRUE] : m \in due}
           n == IF due = {} THEN 0 ELSE 1
           r == Record(c, n)
           left == (r.markouts \ due) \cup counted
<1>1. r \in Contexts /\ Evolves(c, r) /\ r.markouts = c.markouts /\ r.probe = c.probe
      /\ r.seen = c.seen /\ r.issued = c.issued
  <2>1. n \in Nat
    OBVIOUS
  <2> HIDE DEF n
  <2> QED BY <2>1, RecordEvolves, RecordBackground DEF Background
<1>2. c.markouts \in SUBSET MarkoutRecords
  BY ContextParts
<1>3. SampleMarkouts(c, t) \in {c, [r EXCEPT !.markouts = left], [r EXCEPT !.markouts = kept]}
  BY Zenon DEF SampleMarkouts
<1> HIDE DEF r
<1>4. OwnMarks(r.markouts, r.probe, r.seen, r.issued)
        => OwnMarks(kept, r.probe, r.seen, r.issued)
  BY <1>1 DEF OwnMarks
<1>5. OwnMarks(r.markouts, r.probe, r.seen, r.issued)
        => OwnMarks(left, r.probe, r.seen, r.issued)
  <2>1. ASSUME NEW m \in left
        PROVE  \E o \in c.markouts :
                 /\ m.fill = o.fill /\ m.probe = o.probe
                 /\ m = IF o \in due THEN [o EXCEPT !.done = TRUE] ELSE o
    <3>1. CASE m \in counted
      <4>1. PICK o \in due : m = [o EXCEPT !.done = TRUE]
        BY <3>1
      <4>2. o \in c.markouts /\ m.fill = o.fill /\ m.probe = o.probe
        BY <1>2, <4>1 DEF MarkoutRecords
      <4> QED BY <4>1, <4>2
    <3>2. CASE m \notin counted
      BY <1>1, <2>1, <3>2
    <3> QED BY <3>1, <3>2
  <2> HIDE DEF left, due
  <2> SUFFICES ASSUME OwnMarks(c.markouts, c.probe, c.seen, c.issued)
               PROVE  OwnMarks(left, c.probe, c.seen, c.issued)
    BY <1>1
  <2>2. ASSUME NEW m \in left
        PROVE  /\ m.fill \in c.seen
               /\ m.fill[1] \in {Maker(m.probe)} \cup Flattens(c.issued.flattens)
               /\ c.probe.phase # "Absent" => m.probe = c.probe.id
    BY <2>1 DEF OwnMarks
  <2>3. ASSUME NEW m \in left, NEW n1 \in left, m.fill = n1.fill PROVE m = n1
    <3>1. PICK o \in c.markouts : m.fill = o.fill
                                  /\ m = IF o \in due THEN [o EXCEPT !.done = TRUE] ELSE o
      BY <2>1
    <3>2. PICK o1 \in c.markouts : n1.fill = o1.fill
                                   /\ n1 = IF o1 \in due THEN [o1 EXCEPT !.done = TRUE] ELSE o1
      BY <2>1
    <3>3. o = o1
      BY <2>3, <3>1, <3>2 DEF OwnMarks
    <3> QED BY <3>1, <3>2, <3>3
  <2> QED BY <2>2, <2>3 DEF OwnMarks
<1> HIDE DEF left, kept
<1>6. /\ Evolves(r, [r EXCEPT !.markouts = left])
      /\ Evolves(r, [r EXCEPT !.markouts = kept])
  BY <1>1, <1>4, <1>5, MarksReplaced
<1> QED BY <1>1, <1>3, <1>6, SampleMarkoutsContext, EvolvesRefl, EvolvesTrans

LEMMA NoMarks ==
  ASSUME NEW c \in Contexts
  PROVE  [c EXCEPT !.markouts = {}] \in Contexts /\ Evolves(c, [c EXCEPT !.markouts = {}])
<1>1. [c EXCEPT !.markouts = {}] \in Contexts
  BY DEF Contexts
<1>2. OwnMarks({}, c.probe, c.seen, c.issued)
  BY DEF OwnMarks
<1> QED BY <1>1, <1>2, MarksReplaced

LEMMA GuardInventoryEvolves ==
  ASSUME NEW c \in Contexts, NEW t \in TickRecords
  PROVE  Evolves(c, GuardInventory(c, t))
<1> DEFINE d == [c EXCEPT !.markouts = {}]
<1>1. GuardInventory(c, t) \in {c, MaybeFlatten(d, TRUE, t)}
  BY DEF GuardInventory
<1>2. d \in Contexts /\ Evolves(c, d)
  BY NoMarks
<1> HIDE DEF d
<1>3. MaybeFlatten(d, TRUE, t) \in Contexts /\ Evolves(d, MaybeFlatten(d, TRUE, t))
  BY <1>2, MaybeFlattenEvolves, MaybeFlattenContext
<1> QED BY <1>1, <1>2, <1>3, EvolvesRefl, EvolvesTrans

LEMMA GuardedEvolves ==
  ASSUME NEW c \in Contexts, NEW d \in Contexts, NEW t \in TickRecords, Evolves(c, d)
  PROVE  Evolves(c, GuardInventory(d, t))
BY GuardInventoryEvolves, GuardInventoryContext, EvolvesTrans

LEMMA EvaluateRestingEvolves ==
  ASSUME NEW c \in Contexts, NEW t \in TickRecords
  PROVE  Evolves(c, EvaluateResting(c, t))
<1> DEFINE n == IF t.keep THEN 1 ELSE 0
           r == Record(c, n)
<1>1. t.send \in BOOLEAN /\ n \in Nat
  BY DEF TickRecords
<1>2. EvaluateResting(c, t) \in {CancelActive(c, t.send), GuardInventory(r, t)}
  BY Zenon DEF EvaluateResting
<1> HIDE DEF n
<1>3. r \in Contexts /\ Evolves(c, r)
  BY <1>1, RecordEvolves
<1> HIDE DEF r
<1> QED BY <1>1, <1>2, <1>3, CancelActiveEvolves, GuardedEvolves

LEMMA EvaluateActiveEvolves ==
  ASSUME NEW c \in Contexts, NEW t \in TickRecords
  PROVE  Evolves(c, EvaluateActive(c, t))
<1> DEFINE moved == [c EXCEPT !.probe = Recover(c.probe)]
           asked == RequestRest(moved)
           recovering == Record(asked, 1)
<1>1. Active(c) => Evolves(c, recovering)
  <2>1. moved \in Contexts
    BY ContextParts, RecoverGood, WithProbe
  <2>2. Active(c) => Evolves(c, moved)
    BY RecoverMoves
  <2> HIDE DEF moved
  <2>3. asked \in Contexts /\ Evolves(moved, asked)
    BY <2>1, RequestRestEvolves
  <2> HIDE DEF asked
  <2>4. recovering \in Contexts /\ Evolves(asked, recovering)
    BY <2>3, RecordEvolves
  <2> HIDE DEF recovering
  <2>5. Active(c) => Evolves(c, asked)
    BY <2>1, <2>2, <2>3, EvolvesTrans
  <2> QED BY <2>3, <2>4, <2>5, EvolvesTrans
<1>2. Evolves(c, FinishProbe(Record(c, 1)))
  BY RecordedEnd
<1>3. Evolves(c, GuardInventory(RequestThrottled(c, t), t))
  BY RequestThrottledBackground, RequestThrottledContext, BackgroundEvolves, GuardedEvolves
<1>4. Evolves(c, GuardInventory(MaybeFlatten(c, FALSE, t), t))
  BY MaybeFlattenEvolves, MaybeFlattenContext, GuardedEvolves
<1>5. EvaluateActive(c, t)
        \in {c, FinishProbe(Record(c, 1)), GuardInventory(RequestThrottled(c, t), t),
             EvaluateResting(c, t), GuardInventory(MaybeFlatten(c, FALSE, t), t),
             GuardInventory(c, t)} \cup (IF Active(c) THEN {recovering} ELSE {})
  BY Zenon DEF EvaluateActive
<1> HIDE DEF recovering
<1> QED BY <1>1, <1>2, <1>3, <1>4, <1>5, EvolvesRefl, EvaluateRestingEvolves,
           GuardInventoryEvolves

\* What a callback may do when it starts a probe.
Starts(c, d) ==
  /\ ~Active(c) /\ ~c.cooling /\ ~c.err
  /\ c.account.healthy /\ c.account.inv = 0 /\ ~c.account.open /\ d.account = c.account
  /\ d.shutdown.notified = c.shutdown.notified /\ d.shutdown.signal = c.shutdown.signal
  /\ c.wire \subseteq d.wire /\ Outlasts(c, d) /\ d.probe.phase # "CancelPending"
  /\ \A r \in d.wire \ c.wire : r[1] = "place" /\ c.fuel > 0
  /\ Own(c) => Own(d)

LEMMA StartProbeStarts ==
  ASSUME NEW c \in Contexts, NEW t \in TickRecords
  PROVE  StartProbe(c, t) = c \/ Starts(c, StartProbe(c, t))
<1> DEFINE k == c.issued.probes + 1
           counted == [c.issued EXCEPT !.probes = k]
           next == [c EXCEPT !.issued = counted]
           r == Record(next, 1)
           request == <<"place", Maker(k), Size>>
           sent == r.wire \cup {request}
           s == [r EXCEPT !.wire = sent]
           a == Record(s, 1)
           failed == [r EXCEPT !.err = TRUE]
           b == [a EXCEPT !.probe = NewProbe(k)]
           d == StartProbe(c, t)
<1> SUFFICES ASSUME ~c.err, ~Active(c), MayStart(c, t) PROVE Starts(c, d)
  BY DEF StartProbe
<1>1. /\ k \in Nat /\ counted \in Counters /\ counted.flattens = c.issued.flattens
      /\ counted.probes = k /\ c.fuel \in Nat
  BY ContextParts DEF Counters
<1>2. next \in Contexts
  <2> HIDE DEF counted
  <2> QED BY <1>1 DEF Contexts
<1>3. /\ next.probe = c.probe /\ next.fuel = c.fuel /\ next.err = c.err /\ next.wire = c.wire
      /\ next.issued = counted /\ next.shutdown = c.shutdown /\ next.account = c.account
      /\ next.markouts = c.markouts /\ next.seen = c.seen
      /\ next.rest = c.rest /\ next.writerUp = c.writerUp
  <2> HIDE DEF counted
  <2> QED BY DEF Contexts
<1> HIDE DEF next, counted
<1>4. r \in Contexts /\ Background(next, r)
  BY <1>2, RecordContext, RecordBackground
<1>5. c.fuel = 0 => r.err
  <2> SUFFICES ASSUME c.fuel = 0 PROVE r.err
    OBVIOUS
  <2>0. next.fuel = 0 /\ ~Unlimited(next)
    BY <1>3 DEF Unlimited, RecordLimit
  <2>1. next.fuel < 1
    BY <2>0
  <2>2. Record(next, 1) = [Offer(next, 1) EXCEPT !.err = next.fuel < 1]
    BY <1>3, <2>0 DEF Record
  <2>3. Offer(next, 1) \in Contexts
    BY <1>2, OfferContext
  <2> QED BY <2>1, <2>2, <2>3 DEF Contexts
<1> HIDE DEF r
<1>6. Own(c) => Own(r)
  <2>1. OwnProbe(c.probe, c.issued) => OwnProbe(c.probe, counted)
    BY <1>1 DEF OwnProbe, Active
  <2>2. c.markouts = {}
    BY DEF MayStart
  <2>3. OwnMarks(c.markouts, c.probe, c.seen, counted)
    BY <2>2 DEF OwnMarks
  <2> QED BY <1>3, <1>4, <2>1, <2>3 DEF Own, Background
<1>7. Starts(c, r) /\ r.issued = counted /\ r.markouts = {}
  BY <1>3, <1>4, <1>6 DEF Starts, Background, Outlasts, Active, MayStart
<1>8. failed \in Contexts /\ Starts(c, failed)
  <2>1. /\ failed.probe = r.probe /\ failed.account = r.account /\ failed.shutdown = r.shutdown
        /\ failed.wire = r.wire /\ failed.issued = r.issued /\ failed.markouts = r.markouts
        /\ failed.seen = r.seen /\ failed \in Contexts
        /\ failed.rest = r.rest /\ failed.writerUp = r.writerUp
    BY <1>4 DEF Contexts
  <2> HIDE DEF failed
  <2> QED BY <1>7, <2>1 DEF Starts, Outlasts, Own
<1>9. s \in Contexts /\ s.wire = r.wire \cup {request} /\ s.probe = r.probe
      /\ s.account = r.account /\ s.shutdown = r.shutdown /\ s.issued = r.issued
      /\ s.markouts = r.markouts /\ s.seen = r.seen
      /\ s.rest = r.rest /\ s.writerUp = r.writerUp
  <2>1. sent \in SUBSET Requests
    <3> HIDE DEF k
    <3> QED BY <1>1, <1>4, OidValues, SizeAssumption, RequestValues, ContextParts
  <2> HIDE DEF sent
  <2> QED BY <1>4, <2>1 DEF Contexts, sent
<1> HIDE DEF s
<1>10. a \in Contexts /\ Background(s, a)
  BY <1>9, RecordContext, RecordBackground
<1> HIDE DEF a
<1>11. request[1] = "place"
  OBVIOUS
<1> HIDE DEF request
<1>12. a.wire = r.wire \cup {request} /\ a.account = r.account /\ a.probe = r.probe
       /\ a.shutdown.notified = r.shutdown.notified /\ a.shutdown.signal = r.shutdown.signal
       /\ a.issued = r.issued /\ a.markouts = r.markouts /\ a.seen = r.seen
       /\ Outlasts(r, a)
  BY <1>9, <1>10 DEF Background, Outlasts
<1>13. ~r.err => c.fuel > 0
  BY <1>1, <1>5
<1>14. OwnWire(r.wire) => OwnWire(a.wire)
  BY <1>11, <1>12 DEF OwnWire
<1>15. ~r.err => Starts(c, a)
  BY <1>7, <1>11, <1>12, <1>13, <1>14 DEF Starts, Outlasts, Own
<1>16. ~r.err => Starts(c, b)
  <2>1. /\ b.probe = NewProbe(k) /\ b.account = a.account /\ b.shutdown = a.shutdown
        /\ b.wire = a.wire /\ b.issued = a.issued /\ b.markouts = a.markouts
        /\ b.seen = a.seen /\ b.rest = a.rest /\ b.writerUp = a.writerUp
    BY <1>10 DEF Contexts
  <2>2. OwnProbe(NewProbe(k), counted)
    BY <1>1 DEF OwnProbe, NewProbe, NoProbe
  <2>3. OwnMarks({}, NewProbe(k), a.seen, counted)
    BY DEF OwnMarks
  <2> HIDE DEF b
  <2>4. Own(a) => Own(b)
    BY <1>7, <1>12, <2>1, <2>2, <2>3 DEF Own
  <2> QED BY <1>15, <2>1, <2>4 DEF Starts, Outlasts, NewProbe, NoProbe
<1>17. d \in {r, failed} \cup (IF ~r.err THEN {a, b} ELSE {})
  BY DEF StartProbe, r, next, counted, a, s, request
<1> HIDE DEF d, failed, b
<1> QED BY <1>7, <1>8, <1>15, <1>16, <1>17

-----------------------------------------------------------------------------
(* The shutdown *)

\* A step of the shutdown tells main only that nothing is left to reconcile.
Stops(c, d) ==
  /\ Follows(c, d) /\ CancelsOnce(c, d) /\ d.account = c.account
  /\ d.shutdown.notified =>
       c.shutdown.notified \/ (~Active(d) /\ d.shutdown.snapshot = "fresh")

LEMMA EvolvesStops ==
  ASSUME NEW c, NEW d, Evolves(c, d)
  PROVE  Stops(c, d)
BY DEF Evolves, Reacts, Stops

LEMMA StopRequestedEvolves ==
  ASSUME NEW c \in Contexts
  PROVE  Evolves(c, StopRequested(c))
<1> DEFINE n == IF c.markouts = {} THEN 1 ELSE 2
           o == Offer(c, n)
           shut == [o.shutdown EXCEPT !.started = TRUE]
           d == [o EXCEPT !.shutdown = shut, !.markouts = {}]
<1>1. n \in Nat
  OBVIOUS
<1> HIDE DEF n
<1>2. o \in Contexts /\ Background(c, o)
  BY <1>1, OfferContext, OfferBackground
<1>3. StopRequested(c) = IF c.shutdown.started THEN c ELSE d
  BY DEF StopRequested, n
<1> HIDE DEF o
<1>4. shut.signal = o.shutdown.signal /\ shut.notified = o.shutdown.notified
  BY <1>2, ContextParts DEF ShutdownRecords
<1> HIDE DEF shut
<1>5. /\ d.probe = o.probe /\ d.fuel = o.fuel /\ d.err = o.err /\ d.cooling = o.cooling
      /\ d.wire = o.wire /\ d.issued = o.issued /\ d.shutdown = shut /\ d.markouts = {}
      /\ d.account = o.account /\ d.seen = o.seen
      /\ d.rest = o.rest /\ d.writerUp = o.writerUp
  BY <1>2 DEF Contexts
<1> HIDE DEF d
<1>6. OwnMarks({}, d.probe, d.seen, d.issued)
  BY DEF OwnMarks
<1>7. Own(c) => Own(d)
  BY <1>2, <1>5, <1>6 DEF Own, Background
<1>8. Evolves(c, d)
  BY <1>2, <1>4, <1>5, <1>7 DEF Evolves, Reacts, Follows, Outlasts, CancelsOnce, Background, Active
<1> QED BY <1>3, <1>8, EvolvesRefl

LEMMA StopWhenIdleStops ==
  ASSUME NEW c \in Contexts, ~Active(c)
  PROVE  Stops(c, StopWhenIdle(c))
<1> DEFINE r == RequestRest(c)
           wanted == [r.shutdown EXCEPT !.snapshot = "requested"]
           asked == [r EXCEPT !.shutdown = wanted]
           o == Offer(c, 1)
           done == [o.shutdown EXCEPT !.notified = TRUE]
           told == [o EXCEPT !.shutdown = done]
<1>1. r \in Contexts /\ Background(c, r) /\ o \in Contexts /\ Background(c, o)
      /\ o.shutdown = c.shutdown
  BY RequestRestContext, RequestRestBackground, OfferContext, OfferBackground DEF Offer, Contexts
<1>2. /\ wanted.signal = r.shutdown.signal /\ wanted.notified = r.shutdown.notified
      /\ done.signal = o.shutdown.signal /\ done.snapshot = o.shutdown.snapshot
  BY <1>1, ContextParts DEF ShutdownRecords
<1>3. StopWhenIdle(c) \in {c, asked} \cup (IF c.shutdown.snapshot = "fresh" THEN {told} ELSE {})
  BY DEF StopWhenIdle
<1> HIDE DEF r, o, wanted, done
<1>4. Stops(c, asked)
  <2>1. /\ asked.probe = r.probe /\ asked.fuel = r.fuel /\ asked.err = r.err
        /\ asked.cooling = r.cooling /\ asked.wire = r.wire /\ asked.issued = r.issued
        /\ asked.shutdown = wanted /\ asked.markouts = r.markouts
        /\ asked.account = r.account /\ asked.seen = r.seen
        /\ asked.rest = r.rest /\ asked.writerUp = r.writerUp
    BY <1>1 DEF Contexts
  <2> HIDE DEF asked
  <2>2. Own(c) => Own(asked)
    BY <1>1, <2>1 DEF Background, Own
  <2>3. Follows(c, asked) /\ CancelsOnce(c, asked)
    BY <1>1, <1>2, <2>1, <2>2 DEF Follows, Outlasts, CancelsOnce, Background, Active
  <2> QED BY <1>1, <1>2, <2>1, <2>3 DEF Stops, Background
<1>5. c.shutdown.snapshot = "fresh" => Stops(c, told)
  <2>1. /\ told.probe = o.probe /\ told.fuel = o.fuel /\ told.err = o.err
        /\ told.cooling = o.cooling /\ told.wire = o.wire /\ told.issued = o.issued
        /\ told.shutdown = done /\ told.markouts = o.markouts
        /\ told.account = o.account /\ told.seen = o.seen
        /\ told.rest = o.rest /\ told.writerUp = o.writerUp
    BY <1>1 DEF Contexts
  <2> HIDE DEF told
  <2>2. Own(c) => Own(told)
    BY <1>1, <2>1 DEF Background, Own
  <2>3. Follows(c, told) /\ CancelsOnce(c, told)
    BY <1>1, <1>2, <2>1, <2>2 DEF Follows, Outlasts, CancelsOnce, Background, Active
  <2>4. ~Active(told) /\ (c.shutdown.snapshot = "fresh" => told.shutdown.snapshot = "fresh")
    BY <1>1, <1>2, <2>1 DEF Background, Active
  <2> QED BY <1>1, <2>1, <2>3, <2>4 DEF Stops, Background
<1> HIDE DEF asked, told
<1> QED BY <1>3, <1>4, <1>5, EvolvesRefl, EvolvesStops

LEMMA DriveShutdownStops ==
  ASSUME NEW c \in Contexts, NEW t \in TickRecords
  PROVE  Stops(c, DriveShutdown(c, t))
<1> DEFINE d == StopRequested(c)
           e == EvaluateActive(d, t)
           recovering == [d EXCEPT !.probe = Recover(d.probe)]
<1>1. d \in Contexts /\ Evolves(c, d)
  BY StopRequestedContext, StopRequestedEvolves
<1>2. t.send \in BOOLEAN
  BY DEF TickRecords
<1> HIDE DEF d
<1>3. e \in Contexts /\ recovering \in Contexts /\ Evolves(d, e)
      /\ (Active(d) => Evolves(d, recovering))
  BY <1>1, EvaluateActiveContext, ContextParts, RecoverGood, WithProbe, EvaluateActiveEvolves,
     RecoverMoves
<1>4. d.probe.phase \in Phases
  BY <1>1, ContextParts DEF ProbeRecords
<1>5. DriveShutdown(c, t)
        \in {CancelActive(d, t.send), MaybeFlatten(d, TRUE, t), RequestThrottled(e, t), e}
          \cup (IF Active(d) THEN {RequestThrottled(recovering, t)} ELSE {StopWhenIdle(d)})
  BY <1>4, Zenon DEF DriveShutdown, d, Phases, Active
<1> HIDE DEF e, recovering
<1>6. ASSUME NEW f \in Contexts, Evolves(d, f) PROVE Stops(c, f)
  BY <1>1, <1>6, EvolvesTrans, EvolvesStops
<1>7. ASSUME NEW f \in Contexts, Evolves(d, f)
      PROVE  RequestThrottled(f, t) \in Contexts /\ Evolves(d, RequestThrottled(f, t))
  BY <1>1, <1>7, RequestThrottledBackground, RequestThrottledContext, BackgroundEvolves,
     EvolvesTrans
<1>8. Stops(c, CancelActive(d, t.send)) /\ Stops(c, MaybeFlatten(d, TRUE, t)) /\ Stops(c, e)
  BY <1>1, <1>2, <1>3, <1>6, CancelActiveEvolves, CancelActiveContext, MaybeFlattenEvolves,
     MaybeFlattenContext
<1>9. Stops(c, RequestThrottled(e, t)) /\ (Active(d) => Stops(c, RequestThrottled(recovering, t)))
  BY <1>3, <1>6, <1>7
<1>10. ~Active(d) => Stops(c, StopWhenIdle(d))
  <2> DEFINE f == StopWhenIdle(d)
  <2>1. f \in Contexts
    BY <1>1, StopWhenIdleContext
  <2>2. ~Active(d) => Stops(d, f)
    BY <1>1, StopWhenIdleStops
  <2> HIDE DEF f
  <2>3. ~Active(d) => Follows(c, f) /\ CancelsOnce(c, f)
    BY <1>1, <2>1, <2>2, FollowsTrans, CancelsTrans DEF Evolves, Reacts, Stops
  <2>4. ~Active(d) => Stops(c, f)
    BY <1>1, <2>2, <2>3 DEF Evolves, Reacts, Stops
  <2> QED BY <2>4 DEF f
<1> QED BY <1>5, <1>8, <1>9, <1>10

-----------------------------------------------------------------------------
(* What a callback may do *)

\* The response to the k-th place ends the probe or moves only its own, onward,
\* and leaves what is known of it.
Answered(c, d, k) ==
  Active(d) =>
    /\ d.probe # c.probe => k = c.probe.id
    /\ Known(d.probe) = Known(c.probe)
    /\ \/ d.probe.phase = c.probe.phase
       \/ c.probe.phase = "PlacePending" /\ d.probe.phase = "PostAccepted"
       \/ /\ c.probe.phase \in {"PlacePending", "PostAccepted", "Resting"}
          /\ d.probe.phase = "Filled"

Cancels(c, d) == \/ \E r \in d.wire \ c.wire : r[1] = "cancel"
                 \/ c.probe.phase # "CancelPending" /\ d.probe.phase = "CancelPending"

Permitted(c, d) ==
  /\ Own(c) => Own(d)
  /\ \A r \in c.wire \ d.wire : r[1] = "place" => Answered(c, d, r[2][2])
  /\ d.shutdown.signal = c.shutdown.signal
  /\ d.issued.probes # c.issued.probes =>
       /\ ~Active(c) /\ ~c.cooling /\ ~c.shutdown.signal
       /\ d.account.healthy /\ d.account.inv = 0 /\ ~d.account.open
  /\ \A r \in d.wire \ c.wire : r[1] = "place" => c.fuel > 0
  /\ Cancels(c, d) => ~c.probe.cancelReq \/ Relisted(c, d)
  /\ d.shutdown.notified =>
       \/ c.shutdown.notified
       \/ c.shutdown.signal /\ ~Active(d) /\ d.shutdown.snapshot = "fresh"
  /\ c.shutdown.signal /\ ~Active(c) => ~Active(d)
  /\ Outlasts(c, d)

LEMMA OnceCancels ==
  ASSUME NEW c, NEW d, CancelsOnce(c, d), Cancels(c, d)
  PROVE  ~c.probe.cancelReq
BY DEF CancelsOnce, Cancels

LEMMA ReactsPermitted ==
  ASSUME NEW c, NEW d, Reacts(c, d)
  PROVE  Permitted(c, d)
BY OnceCancels DEF Reacts, Follows, Permitted

LEMMA RefreshedTrans ==
  ASSUME NEW c \in Contexts, NEW d \in Contexts, NEW e \in Contexts,
         Refreshed(c, d), Evolves(d, e)
  PROVE  Refreshed(c, e)
<1>1. Follows(c, d) /\ Follows(d, e) /\ Follows(c, e) /\ CancelsOnce(d, e)
  BY FollowsTrans DEF Refreshed, Evolves, Reacts
<1>2. CancelsOnce(c, d) => CancelsOnce(c, e)
  BY <1>1, CancelsTrans
<1>3. Relisted(c, d) => Relisted(c, e)
  BY <1>1 DEF Relisted, Follows, Outlasts, Evolves
<1> QED BY <1>1, <1>2, <1>3 DEF Refreshed, Evolves, Reacts

\* A place response, however late, takes back nothing.
LEMMA PlacePostAnswers ==
  ASSUME NEW c \in Contexts, NEW k \in Nat, NEW outcome \in Outcomes
  PROVE  Answered(c, PlacePost(c, k, outcome), k)
<1> DEFINE armed == c.probe.armed \cup {"post"}
           accepted == [c.probe EXCEPT !.oid = Maker(k), !.armed = armed]
           resting == [c EXCEPT !.probe = AfterRestingPost(accepted)]
           filled == [c EXCEPT !.probe = AfterFilledPost(accepted)]
           finished == FinishProbe(Record(c, 2))
           failed == [c EXCEPT !.err = TRUE]
<1>1. /\ accepted \in ProbeRecords /\ accepted.phase = c.probe.phase
      /\ Known(accepted) = Known(c.probe)
  <2>1. c.probe \in ProbeRecords /\ Maker(k) \in Oids
    BY ContextParts, OidValues
  <2>2. armed \in SUBSET {"post", "cancel", "flatten"}
    BY <2>1 DEF ProbeRecords
  <2> HIDE DEF armed
  <2> QED BY <2>1, <2>2 DEF ProbeRecords, Known
<1>2. PlacePost(c, k, outcome)
        \in {Record(c, 1), finished, failed}
          \cup (IF c.probe.id = k THEN {Record(resting, 1), Record(filled, 1)} ELSE {})
  BY Zenon DEF PlacePost, Outcomes
<1>3. Record(c, 1).probe = c.probe /\ failed.probe = c.probe
  BY RecordKeeps DEF Contexts
<1>4. finished.probe = c.probe \/ finished.probe.phase = "Absent"
  <2> DEFINE r == Record(c, 2)
  <2>1. r \in Contexts /\ r.probe = c.probe
    BY RecordContext, RecordKeeps
  <2> HIDE DEF r
  <2>2. r.err => FinishProbe(r) = r
    BY DEF FinishProbe
  <2>3. ~r.err => FinishProbe(r).probe.phase = "Absent"
    BY <2>1, FinishProbeEvolves DEF Active
  <2>4. FinishProbe(r).probe = c.probe \/ FinishProbe(r).probe.phase = "Absent"
    BY <2>1, <2>2, <2>3
  <2> QED BY <2>4 DEF r
<1>5. ASSUME NEW q, NEW d, d = [c EXCEPT !.probe = q] PROVE Record(d, 1).probe = q
  BY <1>5 DEF Record, Offer, Contexts
<1>6. /\ Record(resting, 1).probe = AfterRestingPost(accepted)
      /\ Record(filled, 1).probe = AfterFilledPost(accepted)
  BY <1>5
<1> HIDE DEF accepted, resting, filled, finished, failed
<1>7. ASSUME NEW phase \in {"PostAccepted", "Filled"}
      PROVE  LET q == Enter(accepted, phase) IN
             q.phase = phase /\ Known(q) = Known(c.probe)
  <2>1. Enter(accepted, phase).phase = phase
    BY <1>1 DEF Enter, ProbeRecords
  <2>2. Known(Enter(accepted, phase)) = Known(accepted)
    BY <1>1 DEF Enter, Known, ProbeRecords
  <2> QED BY <1>1, <2>1, <2>2
<1>8. LET q == AfterRestingPost(accepted) IN
      /\ Known(q) = Known(c.probe)
      /\ q.phase = c.probe.phase \/ (c.probe.phase = "PlacePending" /\ q.phase = "PostAccepted")
  BY <1>1, <1>7 DEF AfterRestingPost
<1>9. LET q == AfterFilledPost(accepted) IN
      /\ Known(q) = Known(c.probe)
      /\ \/ q.phase = c.probe.phase
         \/ /\ c.probe.phase \in {"PlacePending", "PostAccepted", "Resting"}
            /\ q.phase = "Filled"
  BY <1>1, <1>7 DEF AfterFilledPost
<1>10. CASE PlacePost(c, k, outcome) \in {Record(c, 1), failed}
  BY <1>3, <1>10 DEF Answered
<1>11. CASE PlacePost(c, k, outcome) = finished
  BY <1>4, <1>11 DEF Answered, Active
<1>12. CASE c.probe.id = k /\ PlacePost(c, k, outcome) \in {Record(resting, 1), Record(filled, 1)}
  BY <1>6, <1>8, <1>9, <1>12 DEF Answered
<1> QED BY <1>2, <1>10, <1>11, <1>12

\* The account is refreshed first, so a probe starts, and an order is cancelled
\* again, on what the newest snapshot says.
LEMMA TimerPermitted ==
  ASSUME NEW c \in Contexts, NEW t \in TickRecords, Listed(c, t)
  PROVE  Permitted(c, Timer(c, t))
<1> DEFINE r == RefreshAccount(c, t)
           p == IF t.pace = "periodic" THEN RequestRest(r) ELSE r
           m == SampleMarkouts(p, t)
           e == EvaluateActive(m, t)
           s == StartProbe(e, t)
           w == DriveShutdown(r, t)
<1>1. r \in Contexts /\ Refreshed(c, r)
  BY RefreshAccountContext, RefreshAccountFollows
<1>2. Timer(c, t) = IF r.err THEN r ELSE IF c.shutdown.signal THEN w ELSE s
  BY DEF Timer
<1> HIDE DEF r
<1>3. p \in Contexts /\ Refreshed(c, p)
  BY <1>1, RequestRestEvolves, RefreshedTrans
<1> HIDE DEF p
<1>4. m \in Contexts /\ Refreshed(c, m)
  BY <1>3, SampleMarkoutsContext, SampleMarkoutsEvolves, RefreshedTrans
<1> HIDE DEF m
<1>5. e \in Contexts /\ Refreshed(c, e)
  BY <1>4, EvaluateActiveContext, EvaluateActiveEvolves, RefreshedTrans
<1> HIDE DEF e
<1>6. ASSUME NEW d, Refreshed(c, d) PROVE Permitted(c, d)
  <2>1. Cancels(c, d) => ~c.probe.cancelReq \/ Relisted(c, d)
    BY <1>6, OnceCancels DEF Refreshed
  <2> QED BY <1>6, <2>1 DEF Refreshed, Follows, Permitted
<1>7. ~c.shutdown.signal => Permitted(c, s)
  <2>1. CASE s = e
    BY <1>5, <1>6, <2>1
  <2>2. CASE Starts(e, s) /\ ~c.shutdown.signal
    <3>1. e.fuel \in Nat /\ c.fuel \in Nat
      BY <1>5, ContextParts
    <3> HIDE DEF s
    <3>2. e.fuel > 0 => c.fuel > 0
      BY <1>5, <3>1 DEF Refreshed, Follows
    <3>3. ~Active(c) /\ ~c.cooling
      BY <1>5, <2>2 DEF Starts, Refreshed, Follows
    <3>4. s.shutdown.signal = c.shutdown.signal /\ s.shutdown.notified = c.shutdown.notified
      BY <1>5, <2>2 DEF Starts, Refreshed, Follows
    <3>5. /\ \A q \in s.wire \ c.wire : q[1] = "place" => c.fuel > 0
          /\ Cancels(c, s) => ~c.probe.cancelReq \/ Relisted(c, s)
      <4>1. \A q \in s.wire \ e.wire : q[1] = "place" /\ c.fuel > 0
        BY <2>2, <3>2 DEF Starts
      <4>2. \A q \in e.wire \ c.wire : q[1] # "place"
        BY <1>5 DEF Refreshed, Follows
      <4>3. Cancels(c, s) => Cancels(c, e)
        BY <2>2, <4>1 DEF Cancels, Starts
      <4>4. Cancels(c, e) => ~c.probe.cancelReq \/ Relisted(c, e)
        BY <1>5, OnceCancels DEF Refreshed
      <4>5. Relisted(c, e) => Relisted(c, s)
        BY <2>2 DEF Relisted, Starts, Outlasts
      <4> QED BY <4>1, <4>2, <4>3, <4>4, <4>5
    <3>6. Own(c) => Own(s)
      BY <1>5, <2>2 DEF Starts, Refreshed, Follows
    <3>7. s.account.healthy /\ s.account.inv = 0 /\ ~s.account.open
      BY <2>2 DEF Starts
    <3>8. c.wire \subseteq s.wire
      BY <1>5, <2>2 DEF Starts, Refreshed, Follows
    <3>9. Outlasts(c, s)
      BY <1>5, <2>2 DEF Starts, Refreshed, Follows, Outlasts
    <3> QED BY <2>2, <3>3, <3>4, <3>5, <3>6, <3>7, <3>8, <3>9 DEF Permitted
  <2> QED BY <1>5, <2>1, <2>2, StartProbeStarts
<1>8. c.shutdown.signal => Permitted(c, w)
  <2>1. w \in Contexts /\ Stops(r, w)
    BY <1>1, DriveShutdownContext, DriveShutdownStops
  <2> HIDE DEF w
  <2>2. Follows(c, w)
    BY <1>1, <2>1, FollowsTrans DEF Refreshed, Stops
  <2>3. CancelsOnce(c, r) => CancelsOnce(c, w)
    BY <1>1, <2>1, CancelsTrans DEF Refreshed, Stops
  <2>4. Cancels(c, w) => ~c.probe.cancelReq \/ Relisted(c, w)
    <3>1. Relisted(c, r) => Relisted(c, w)
      BY <2>1 DEF Relisted, Stops, Follows, Outlasts
    <3> QED BY <1>1, <2>3, <3>1, OnceCancels DEF Refreshed
  <2>5. w.shutdown.notified =>
          c.shutdown.notified \/ (~Active(w) /\ w.shutdown.snapshot = "fresh")
    BY <1>1, <2>1 DEF Refreshed, Stops
  <2> QED BY <2>2, <2>4, <2>5 DEF Follows, Permitted
<1> HIDE DEF s, w
<1> QED BY <1>1, <1>2, <1>6, <1>7, <1>8

-----------------------------------------------------------------------------
(* Steps *)

OwnInv == /\ OwnProbe(probe, issued) /\ OwnMarks(markouts, probe, seen, issued)
          /\ OwnWire(wire)

\* Once main is told that all is reconciled, the signal is still up and no probe
\* is left.
IdleInv == shutdown.notified => shutdown.signal /\ probe.phase = "Absent"

\* The REST worker ends only over a record that failed.
GoneInv == rest.worker = "gone" => ~writerUp

StepInv == Inv /\ OwnInv /\ IdleInv /\ GoneInv

\* The action properties of ExecutionProbe, without their boxes.
Acknowledges == shutdown'.notified => /\ probe'.phase = "Absent"
                                      /\ shutdown.notified \/ shutdown'.snapshot = "fresh"
Places == issued'.probes # issued.probes =>
            /\ probe.phase = "Absent" /\ ~cooling /\ ~shutdown.signal
            /\ account'.healthy /\ account'.inv = 0 /\ ~account'.open
Recancels == CancelSent =>
               \/ ~probe.cancelReq
               \/ /\ probe.phase = "Recovering" /\ probe.late
                  /\ rest.unread /\ ~rest'.unread /\ account'.open
Records == ~writerUp => \A r \in wire' \ wire : r[1] # "place"
Answers == \A k \in 1 .. issued.probes :
             (<<"place", Maker(k), Size>> \in wire \ wire' /\ probe'.phase # "Absent") =>
                /\ probe' # probe => k = probe.id
                /\ Known(probe') = Known(probe)
                /\ \/ probe'.phase = probe.phase
                   \/ probe.phase = "PlacePending" /\ probe'.phase = "PostAccepted"
                   \/ /\ probe.phase \in {"PlacePending", "PostAccepted", "Resting"}
                      /\ probe'.phase = "Filled"

\* What every step of StepInv must be shown to do.
StepGood == OwnInv' /\ IdleInv' /\ GoneInv' /\ Acknowledges /\ Places /\ Recancels /\ Records /\ Answers

LEMMA SelfFields ==
  ASSUME NEW fuel
  PROVE  LET c == Self(fuel) IN
         /\ c.probe = probe /\ c.account = account /\ c.markouts = markouts /\ c.seen = seen
         /\ c.cooling = cooling /\ c.rest = rest /\ c.shutdown = shutdown /\ c.wire = wire
         /\ c.issued = issued /\ c.writerUp = writerUp /\ c.fuel = fuel /\ c.err = FALSE
         /\ Own(c) <=> OwnInv
BY DEF Self, Own, OwnInv

LEMMA PermittedStep ==
  ASSUME StepInv, NEW fuel \in Fuel, NEW d, Permitted(Self(fuel), d), Become(d)
  PROVE  StepGood
<1> DEFINE c == Self(fuel)
<1>1. /\ c.probe = probe /\ c.shutdown = shutdown /\ c.wire = wire /\ c.issued = issued
      /\ c.cooling = cooling /\ c.fuel = fuel /\ Own(c) /\ c.rest = rest
      /\ c.writerUp = writerUp
  BY SelfFields DEF StepInv
<1>2. Permitted(c, d)
  OBVIOUS
<1> HIDE DEF c
<1>3. /\ probe' = d.probe /\ account' = d.account /\ markouts' = d.markouts /\ seen' = d.seen
      /\ shutdown' = d.shutdown /\ wire' = d.wire /\ issued' = d.issued
      /\ rest' = d.rest /\ writerUp' = d.writerUp
  BY DEF Become
<1>4. OwnInv'
  <2>1. Own(d)
    BY <1>1, <1>2 DEF Permitted
  <2> QED BY <1>3, <2>1 DEF Own, OwnInv, OwnProbe, OwnMarks, OwnWire
<1>5. IdleInv' /\ Acknowledges
  <2>1. d.shutdown.signal = shutdown.signal
    BY <1>1, <1>2 DEF Permitted
  <2>2. d.shutdown.notified => \/ shutdown.notified
                               \/ /\ shutdown.signal /\ d.probe.phase = "Absent"
                                  /\ d.shutdown.snapshot = "fresh"
    BY <1>1, <1>2 DEF Permitted, Active
  <2>3. shutdown.signal /\ probe.phase = "Absent" => d.probe.phase = "Absent"
    BY <1>1, <1>2 DEF Permitted, Active
  <2>4. shutdown.notified => shutdown.signal /\ probe.phase = "Absent"
    BY DEF StepInv, IdleInv
  <2> QED BY <1>3, <2>1, <2>2, <2>3, <2>4 DEF IdleInv, Acknowledges
<1>6. Places
  BY <1>1, <1>2, <1>3 DEF Permitted, Places, Active
<1>7. Recancels
  BY <1>1, <1>2, <1>3 DEF Permitted, Cancels, Relisted, Recancels, CancelSent
<1>8. Records
  <2>1. ~writerUp => fuel = 0
    BY DEF Fuel
  <2>2. fuel = 0 => ~(fuel > 0)
    OBVIOUS
  <2>3. \A r \in wire' \ wire : r[1] = "place" => fuel > 0
    BY <1>1, <1>2, <1>3 DEF Permitted
  <2> QED BY <2>1, <2>2, <2>3 DEF Records
<1>9. Answers
  <2>1. \A r \in wire \ wire' : r[1] = "place" => Answered(c, d, r[2][2])
    BY <1>1, <1>2, <1>3 DEF Permitted
  <2> SUFFICES ASSUME NEW k \in 1 .. issued.probes, <<"place", Maker(k), Size>> \in wire \ wire'
               PROVE  Answered(c, d, k)
    BY <1>1, <1>3 DEF Answers, Answered, Active
  <2> DEFINE r == <<"place", Maker(k), Size>>
  <2>2. r[1] = "place" /\ r[2][2] = k /\ r \in wire \ wire'
    BY DEF Maker
  <2> HIDE DEF r
  <2> QED BY <2>1, <2>2
<1>10. GoneInv'
  BY <1>1, <1>2, <1>3 DEF Permitted, Outlasts, StepInv, GoneInv
<1> QED BY <1>4, <1>5, <1>6, <1>7, <1>8, <1>9, <1>10 DEF StepGood

\* A frame is recorded first; what follows reacts to it.
LEMMA FrameReacts ==
  ASSUME StepInv, NEW fuel \in Fuel
  PROVE  LET f == Frame(fuel) IN
         /\ f \in Contexts /\ Self(fuel) \in Contexts /\ Background(Self(fuel), f)
         /\ Evolves(Self(fuel), f) /\ Own(f) /\ f.wire = wire /\ f.probe = probe
         /\ f.issued = issued
<1> DEFINE c == Self(fuel)
<1>1. c \in Contexts /\ c.probe = probe /\ c.wire = wire /\ c.issued = issued /\ Own(c)
  BY FuelNat, SelfContext, SelfFields DEF StepInv
<1> HIDE DEF c
<1>2. Record(c, 1) \in Contexts /\ Background(c, Record(c, 1)) /\ Evolves(c, Record(c, 1))
  BY <1>1, RecordBackground, RecordEvolves
<1>3. /\ Own(Record(c, 1)) /\ Record(c, 1).wire = wire /\ Record(c, 1).probe = probe
      /\ Record(c, 1).issued = issued
  BY <1>1, <1>2 DEF Background, Evolves, Reacts, Follows
<1> QED BY <1>1, <1>2, <1>3 DEF Frame, c

\* A step that changes nothing but the probe's deadline, the wire, the signal or
\* the REST worker.
LEMMA OwnKept ==
  ASSUME StepInv, wire' \subseteq wire, UNCHANGED <<markouts, seen, issued>>,
         probe'.phase = probe.phase, probe'.id = probe.id, probe'.oid = probe.oid,
         probe'.flatOid = probe.flatOid, probe'.flatReq = probe.flatReq
  PROVE  OwnInv'
<1>1. OwnProbe(probe, issued)' /\ OwnMarks(markouts, probe, seen, issued)'
  BY DEF StepInv, OwnInv, OwnProbe, OwnMarks
<1>2. OwnWire(wire)'
  BY DEF StepInv, OwnInv, OwnWire
<1> QED BY <1>1, <1>2 DEF OwnInv

LEMMA QuietStep ==
  ASSUME StepInv, wire' \subseteq wire, UNCHANGED <<markouts, seen, issued>>,
         probe'.phase = probe.phase, probe'.id = probe.id, probe'.oid = probe.oid,
         probe'.flatOid = probe.flatOid, probe'.flatReq = probe.flatReq,
         Known(probe') = Known(probe),
         \A r \in wire \ wire' : r[1] = "place" => probe' = probe,
         shutdown'.notified = shutdown.notified, shutdown.signal => shutdown'.signal,
         rest'.worker = "gone" => rest.worker = "gone" \/ ~writerUp', writerUp' => writerUp
  PROVE  StepGood
<1>1. OwnInv' /\ IdleInv' /\ GoneInv' /\ Acknowledges
  BY OwnKept DEF StepInv, IdleInv, GoneInv, Acknowledges
<1>2. Places /\ Recancels /\ Records
  BY DEF Places, Recancels, CancelSent, Records
<1>3. Answers
  BY DEF Answers
<1> QED BY <1>1, <1>2, <1>3 DEF StepGood

LEMMA TimerTickStep ==
  ASSUME StepInv, NEW latest \in SUBSET [healthy : BOOLEAN, inv : Int, orders : SUBSET Oids],
         NEW ripe \in SUBSET MarkoutRecords, TimerTick(latest, ripe)
  PROVE  StepGood
<1>1. PICK t \in Ticks(latest, ripe), fuel \in Fuel :
        /\ t.found \in SeenOpen(probe, t.latest.orders)
        /\ Become(Timer(Self(fuel), t))
  BY DEF TimerTick
<1>2. t \in TickRecords
  BY <1>1, TicksTyped DEF StepInv
<1>3. Self(fuel) \in Contexts /\ Self(fuel).probe = probe
  BY FuelNat, SelfContext, SelfFields DEF StepInv
<1>4. Permitted(Self(fuel), Timer(Self(fuel), t))
  BY <1>1, <1>2, <1>3, TimerPermitted DEF Listed
<1> QED BY <1>1, <1>4, PermittedStep

LEMMA DroppedContext ==
  ASSUME NEW c \in Contexts, NEW request
  PROVE  [c EXCEPT !.wire = @ \ {request}] \in Contexts
BY DEF Contexts

LEMMA StepGoodStep == StepInv /\ [Next]_vars => StepGood
<1> SUFFICES ASSUME StepInv, [Next]_vars PROVE StepGood
  OBVIOUS
<1>1. CASE PostFrame
  <2>1. PICK request \in wire, fuel \in Fuel, outcome \in Outcomes :
          Become(PostResponse(Frame(fuel), request, outcome))
    BY <1>1 DEF PostFrame, Outcomes
  <2> DEFINE c == Self(fuel)
             f == Frame(fuel)
             d == [f EXCEPT !.wire = @ \ {request}]
             e == PostResponse(f, request, outcome)
  <2>2. f \in Contexts /\ Background(c, f) /\ Own(f) /\ f.wire = wire
    BY FrameReacts
  <2>3. Evolves(d, e)
    BY <2>2, PostResponseEvolves
  <2>4. /\ d.probe = f.probe /\ d.account = f.account /\ d.markouts = f.markouts
        /\ d.seen = f.seen /\ d.cooling = f.cooling /\ d.wire = f.wire \ {request}
        /\ d.issued = f.issued /\ d.shutdown = f.shutdown /\ d.fuel = f.fuel
        /\ d.rest = f.rest /\ d.writerUp = f.writerUp
    BY <2>2 DEF Contexts
  <2> HIDE DEF c, f, d, e
  <2>5. Own(d)
    BY <2>2, <2>4 DEF Own, OwnWire
  <2>6. Permitted(d, e)
    BY <2>3, ReactsPermitted DEF Evolves
  <2>7. Permitted(c, e)
    <3>1. /\ \A r \in e.wire \ c.wire : r[1] # "place" /\ (r[1] = "cancel" => ~c.probe.cancelReq)
          /\ Cancels(c, e) => ~c.probe.cancelReq
      BY <2>2, <2>3, <2>4 DEF Evolves, Reacts, Follows, CancelsOnce, Cancels, Background
    <3>2. /\ e.shutdown.signal = c.shutdown.signal /\ e.shutdown.notified = c.shutdown.notified
          /\ e.issued.probes = c.issued.probes /\ (Active(e) => Active(c)) /\ Own(e)
          /\ Outlasts(c, e)
      BY <2>2, <2>3, <2>4, <2>5 DEF Evolves, Reacts, Follows, Outlasts, Background, Active
    <3>3. ASSUME NEW r \in c.wire \ e.wire, r[1] = "place" PROVE Answered(c, e, r[2][2])
      <4>1. r = request
        BY <2>2, <2>3, <2>4, <3>3 DEF Evolves, Reacts, Follows, Background
      <4>2. d \in Contexts /\ request[2][2] \in Nat
        BY <2>2, ContextParts, DroppedContext DEF d, Requests, Oids
      <4>3. e \in {d, PlacePost(d, request[2][2], outcome)}
        BY <3>3, <4>1 DEF PostResponse, d, e
      <4>4. Answered(d, e, request[2][2])
        BY <4>2, <4>3, PlacePostAnswers DEF Answered, Active
      <4> QED BY <2>2, <2>4, <4>1, <4>4 DEF Answered, Background, Active
    <3> QED BY <3>1, <3>2, <3>3 DEF Permitted
  <2> QED BY <2>1, <2>7, PermittedStep DEF c, e, f
<1>2. CASE OrderUpdateFrame
  <2>1. PICK u \in OrderUpdates, fuel \in Fuel : Become(OrderUpdate(Frame(fuel), u))
    BY <1>2 DEF OrderUpdateFrame
  <2>2. u \in Updates
    BY UpdatesTyped DEF StepInv
  <2>3. Evolves(Frame(fuel), OrderUpdate(Frame(fuel), u))
    BY <2>2, FrameReacts, OrderUpdateEvolves
  <2>4. Evolves(Self(fuel), OrderUpdate(Frame(fuel), u))
    BY <2>2, <2>3, FrameReacts, OrderUpdateContext, EvolvesTrans
  <2> QED BY <2>1, <2>4, ReactsPermitted, PermittedStep DEF Evolves
<1>3. CASE UserFillFrame
  <2>1. PICK f \in UserFills, send \in Sends, fuel \in Fuel :
          Become(UserFill(Frame(fuel), f, send))
    BY <1>3 DEF UserFillFrame
  <2>2. f \in Fills /\ f.oid # NoOid
    BY IssuedOidsOids, SizeAssumption, BoundsAssumption DEF StepInv, UserFills, Fills
  <2>3. Reacts(Frame(fuel), UserFill(Frame(fuel), f, send))
    BY <2>2, SendsBoolean, FrameReacts, UserFillReacts
  <2>4. Reacts(Self(fuel), UserFill(Frame(fuel), f, send))
    BY <2>2, <2>3, SendsBoolean, FrameReacts, UserFillContext, ReactsTrans DEF Evolves
  <2> QED BY <2>1, <2>4, ReactsPermitted, PermittedStep
<1>4. CASE ClearinghouseFrame
  <2>1. PICK inv \in 1 .. Size, fuel \in Fuel : Become(Clearinghouse(Frame(fuel), inv))
    BY <1>4 DEF ClearinghouseFrame
  <2>2. inv \in Int
    OBVIOUS
  <2>3. Reacts(Self(fuel), Clearinghouse(Frame(fuel), inv))
    BY <2>2, FrameReacts, ClearinghouseReacts, ClearinghouseContext, ReactsTrans DEF Evolves
  <2> QED BY <2>1, <2>3, ReactsPermitted, PermittedStep
<1>5. CASE RestPublish
  <2>1. PICK fuel \in Fuel :
          /\ rest' = IF fuel = 0 THEN [rest EXCEPT !.worker = "gone"]
                     ELSE [rest EXCEPT !.worker = "idle", !.unread = TRUE]
          /\ writerUp' = (writerUp /\ fuel > 0)
    BY <1>5 DEF RestPublish
  <2>2. rest \in RestRecords
    BY DEF StepInv, Inv, TypeOK
  <2>3. CASE fuel = 0
    <3>1. ~(fuel > 0)
      BY <2>3
    <3> QED BY <1>5, <2>1, <3>1, QuietStep DEF RestPublish
  <2>4. CASE fuel # 0
    <3>1. rest'.worker # "gone"
      BY <2>1, <2>2, <2>4 DEF RestRecords
    <3>2. writerUp' => writerUp
      BY <2>1, Zenon
    <3> QED BY <1>5, <3>1, <3>2, QuietStep DEF RestPublish
  <2> QED BY <2>3, <2>4
<1>6. CASE TimerTick(IF rest.unread THEN Snapshots ELSE {NoSnapshot}, markouts)
  <2> DEFINE latest == IF rest.unread THEN Snapshots ELSE {NoSnapshot}
  <2>1. latest \in SUBSET [healthy : BOOLEAN, inv : Int, orders : SUBSET Oids]
    BY SnapshotsTyped DEF NoSnapshot, StepInv
  <2>2. markouts \in SUBSET MarkoutRecords
    BY DEF StepInv, Inv, TypeOK
  <2>3. TimerTick(latest, markouts)
    BY <1>6
  <2> HIDE DEF latest
  <2> QED BY <2>1, <2>2, <2>3, TimerTickStep
<1>7. CASE RequestLost
  BY <1>7, QuietStep DEF RequestLost
<1>8. CASE Reconnect
  <2>1. PICK fuel \in Fuel : Become(PrivateReconnect(Self(fuel)))
    BY <1>8 DEF Reconnect
  <2>2. Evolves(Self(fuel), PrivateReconnect(Self(fuel)))
    BY FrameReacts, PrivateReconnectEvolves
  <2> QED BY <2>1, <2>2, ReactsPermitted, PermittedStep DEF Evolves
<1>9. CASE Elapse
  <2>1. probe \in ProbeRecords
    BY DEF StepInv, Inv, TypeOK
  <2>2. /\ probe'.phase = probe.phase /\ probe'.id = probe.id /\ probe'.oid = probe.oid
        /\ probe'.flatOid = probe.flatOid /\ probe'.flatReq = probe.flatReq
        /\ Known(probe') = Known(probe)
    BY <1>9, <2>1 DEF Elapse, Known, ProbeRecords
  <2> QED BY <1>9, <2>2, QuietStep DEF Elapse
<1>10. CASE CoolDown
  BY <1>10, QuietStep DEF CoolDown
<1>11. CASE Signal
  <2>1. shutdown \in ShutdownRecords
    BY DEF StepInv, Inv, TypeOK
  <2>2. shutdown'.notified = shutdown.notified /\ shutdown'.signal
    BY <1>11, <2>1 DEF Signal, ShutdownRecords
  <2> QED BY <1>11, <2>2, QuietStep DEF Signal
<1>12. CASE RestTake
  <2>1. rest \in RestRecords
    BY DEF StepInv, Inv, TypeOK
  <2>2. rest'.worker # "gone"
    BY <1>12, <2>1 DEF RestTake, RestRecords
  <2> QED BY <1>12, <2>2, QuietStep DEF RestTake
<1>13. CASE UNCHANGED vars
  BY <1>13, QuietStep DEF vars
<1> QED BY <1>1, <1>2, <1>3, <1>4, <1>5, <1>6, <1>7, <1>8, <1>9, <1>10, <1>11, <1>12, <1>13
        DEF Next, Internal

LEMMA StepInvInit == Init => StepInv
<1> SUFFICES ASSUME Init PROVE OwnInv /\ IdleInv /\ GoneInv
  BY InvInit DEF StepInv
<1> QED BY DEF Init, NoProbe, OwnInv, OwnProbe, OwnMarks, OwnWire, IdleInv, GoneInv

LEMMA StepInvStep == StepInv /\ [Next]_vars => StepInv'
BY InvStep, StepGoodStep DEF StepInv, StepGood

\* Whatever arrives, however late: the active probe is bound to its own orders and
\* to flattens it has sent, and each markout belongs to one fill of the probe.
THEOREM BindingsCorrect == Spec => []OnlyOwnMessagesBind
<1>1. StepInv => OnlyOwnMessagesBind
  BY DEF StepInv, OwnInv, OwnProbe, OwnMarks, OnlyOwnMessagesBind
<1> QED BY StepInvInit, StepInvStep, <1>1, PTL DEF Spec

\* An order is placed only by an idle strategy whose account, as just refreshed, is
\* flat without open orders.
THEOREM PlacesCorrect == Spec => PlacesOnlyWhenIdle
<1>1. StepInv /\ [Next]_vars => Places
  BY StepGoodStep DEF StepGood
<1> QED BY StepInvInit, StepInvStep, <1>1, PTL DEF Spec, PlacesOnlyWhenIdle, Places

\* main is told only when the probe is gone and the final snapshot is in.
THEOREM AcknowledgesCorrect == Spec => AcknowledgesWhenIdle
<1>1. StepInv /\ [Next]_vars => Acknowledges
  BY StepGoodStep DEF StepGood
<1> QED BY StepInvInit, StepInvStep, <1>1, PTL DEF Spec, AcknowledgesWhenIdle, Acknowledges

\* The REST gate counts exactly one request under way, whatever the callbacks, the
\* worker and the telemetry writer do in between, and is closed for good only once
\* the telemetry writer has stopped.
THEOREM GateCorrect == Spec => []GateCountsOneRequest
<1>1. StepInv => GateCountsOneRequest
  BY DEF StepInv, GoneInv, Inv, GateCountsOneRequest
<1> QED BY StepInvInit, StepInvStep, <1>1, PTL DEF Spec

\* A probe asks for a second cancel only when the same callback takes over a
\* snapshot that lists an open order.
THEOREM RecancelsCorrect == Spec => RecancelsOnlySeenOrders
<1>1. StepInv /\ [Next]_vars => Recancels
  BY StepGoodStep DEF StepGood
<1> QED BY StepInvInit, StepInvStep, <1>1, PTL DEF Spec, RecancelsOnlySeenOrders, Recancels

\* Nothing is placed once the telemetry writer is gone.
THEOREM RecordsCorrect == Spec => PlacesAreRecorded
<1>1. StepInv /\ [Next]_vars => Records
  BY StepGoodStep DEF StepGood
<1> QED BY StepInvInit, StepInvStep, <1>1, PTL DEF Spec, PlacesAreRecorded, Records

\* A late answer to a place takes no probe back: it moves its own probe only, onward
\* only, and leaves what private updates have told of it.
THEOREM AnswersCorrect == Spec => LateResponseNeverRegresses
<1>1. StepInv /\ [Next]_vars => Answers
  BY StepGoodStep DEF StepGood
<1> QED BY StepInvInit, StepInvStep, <1>1, PTL DEF Spec, LateResponseNeverRegresses, Answers
=============================================================================
