------------------------ MODULE ExecutionProbe_proofs ------------------------
(***************************************************************************)
(* Theorems about ExecutionProbe, for every order size, guard, bound and   *)
(* set of faults: type correctness, the REST gate's accounting, and that   *)
(* every wait can time out and every phase matches the probe's progress.   *)
(*                                                                         *)
(* Every callback is a composition of operators on contexts, so there is   *)
(* one lemma per operator: it maps a context that satisfies the invariants *)
(* to one that does.  Contexts is the inductive invariant.      *)
(***************************************************************************)
EXTENDS ExecutionProbe, TLAPS

GoodProbes == {p \in ProbeRecords : CanTimeOut(p) /\ MatchesProgress(p)}
GateRests == {r \in RestRecords : OneRequest(r)}

Contexts == [probe : GoodProbes, account : AccountRecords, markouts : SUBSET MarkoutRecords,
             seen : SUBSET (Oids \X Nat), cooling : BOOLEAN, rest : GateRests,
             shutdown : ShutdownRecords, wire : SUBSET Requests, issued : Counters,
             writerUp : BOOLEAN, fuel : Nat, err : BOOLEAN]

-----------------------------------------------------------------------------
(* Records and phases *)

LEMMA OfferContext ==
  ASSUME NEW c \in Contexts, NEW n \in Nat
  PROVE  Offer(c, n) \in Contexts
<1>1. c.fuel \in Nat /\ c.writerUp \in BOOLEAN
  BY DEF Contexts
<1> DEFINE fuel == IF c.fuel < n THEN 0 ELSE c.fuel - n
           enough == c.fuel >= n
           up == c.writerUp /\ enough
<1>2. fuel \in Nat
  BY <1>1
<1>3. enough \in BOOLEAN
  BY <1>1
<1> HIDE DEF enough
<1>4. up \in BOOLEAN
  BY <1>1, <1>3
<1>5. Offer(c, n) = IF Unlimited(c) THEN c ELSE [c EXCEPT !.fuel = fuel, !.writerUp = up]
  BY DEF Offer, enough
<1> HIDE DEF fuel, up
<1> QED BY <1>2, <1>4, <1>5 DEF Contexts

LEMMA RecordContext ==
  ASSUME NEW c \in Contexts, NEW n \in Nat
  PROVE  Record(c, n) \in Contexts
<1>1. Offer(c, n) \in Contexts
  BY OfferContext
<1> DEFINE short == c.fuel < n
<1>2. short \in BOOLEAN
  OBVIOUS
<1>3. Record(c, n) = IF c.err \/ Unlimited(c) THEN c
                      ELSE [Offer(c, n) EXCEPT !.err = short]
  BY DEF Record
<1> HIDE DEF short
<1>4. [Offer(c, n) EXCEPT !.err = short] \in Contexts
  BY <1>1, <1>2 DEF Contexts
<1> QED BY <1>3, <1>4

LEMMA LotsNat == Lots \subseteq Nat /\ 0 \in Lots /\ Size \in Lots
BY SizeAssumption DEF Lots

LEMMA NoProbeGood == NoProbe \in GoodProbes
BY LotsNat DEF NoProbe, GoodProbes, CanTimeOut, MatchesProgress, ProbeRecords, Phases, Oids, NoOid

LEMMA OidValues ==
  ASSUME NEW k \in Nat
  PROVE  /\ Maker(k) \in Oids /\ Flatten(k) \in Oids /\ NoOid \in Oids
         /\ Maker(k) # NoOid /\ Flatten(k) # NoOid
BY DEF Maker, Flatten, NoOid, Oids

LEMMA EnterRecord ==
  ASSUME NEW p \in ProbeRecords, NEW phase \in Phases
  PROVE  Enter(p, phase) \in ProbeRecords
BY DEF Enter, ProbeRecords

LEMMA RecoverGood ==
  ASSUME NEW p \in ProbeRecords
  PROVE  Recover(p) \in GoodProbes
BY DEF Recover, GoodProbes, CanTimeOut, MatchesProgress, Waiting, ProbeRecords, Phases

-----------------------------------------------------------------------------
(* The REST gate *)

LEMMA TouchContext ==
  ASSUME NEW c \in Contexts
  PROVE  Touch(c) \in Contexts
<1>1. c.rest \in GateRests /\ c.shutdown \in ShutdownRecords
  BY DEF Contexts
<1> DEFINE stale == c.rest.worker = "reading" \/ c.rest.unread
           snapshot == IF c.shutdown.snapshot = "requested" THEN "fresh" ELSE c.shutdown.snapshot
<1>2. stale \in BOOLEAN /\ snapshot \in {"none", "requested", "fresh"}
  BY <1>1 DEF GateRests, RestRecords, ShutdownRecords
<1>3. Touch(c) = [c EXCEPT !.rest.stale = stale, !.shutdown.snapshot = snapshot]
  BY DEF Touch
<1> HIDE DEF stale, snapshot
<1>4. [c.rest EXCEPT !.stale = stale] \in GateRests
  BY <1>1, <1>2 DEF GateRests, RestRecords, OneRequest
<1>5. [c.shutdown EXCEPT !.snapshot = snapshot] \in ShutdownRecords
  BY <1>1, <1>2 DEF ShutdownRecords
<1> QED BY <1>3, <1>4, <1>5 DEF Contexts

LEMMA RequestRestContext ==
  ASSUME NEW c \in Contexts
  PROVE  RequestRest(c) \in Contexts
<1>1. CASE c.err \/ ~RequestAccepted(c)
  BY <1>1 DEF RequestRest
<1>2. CASE ~c.err /\ RequestAccepted(c)
  <2>1. c.rest \in GateRests
    BY DEF Contexts
  <2>2. [c.rest EXCEPT !.pending = TRUE, !.queued = TRUE] \in GateRests
    BY <1>2, <2>1 DEF GateRests, RestRecords, OneRequest, RequestAccepted
  <2>3. RequestRest(c) = [c EXCEPT !.rest = [c.rest EXCEPT !.pending = TRUE, !.queued = TRUE]]
    BY <1>2, <2>1 DEF RequestRest, Contexts, GateRests, RestRecords
  <2> QED BY <2>2, <2>3 DEF Contexts
<1> QED BY <1>1, <1>2

LEMMA RequestThrottledContext ==
  ASSUME NEW c \in Contexts, NEW t
  PROVE  RequestThrottled(c, t) \in Contexts
BY RequestRestContext DEF RequestThrottled

LEMMA TakeOverContext ==
  ASSUME NEW c \in Contexts, c.rest.unread, c.rest.worker # "gone"
  PROVE  TakeOver(c) \in Contexts
<1>1. c.rest \in GateRests
  BY DEF Contexts
<1>2. [c.rest EXCEPT !.unread = FALSE, !.pending = FALSE, !.stale = FALSE] \in GateRests
  BY <1>1 DEF GateRests, RestRecords, OneRequest
<1>3. TakeOver(c) = [c EXCEPT !.rest =
                       [c.rest EXCEPT !.unread = FALSE, !.pending = FALSE, !.stale = FALSE]]
  BY <1>1 DEF TakeOver, Contexts, GateRests, RestRecords
<1> QED BY <1>2, <1>3 DEF Contexts

-----------------------------------------------------------------------------
(* The end of a probe, cancels and flattens *)

LEMMA WithProbe ==
  ASSUME NEW c \in Contexts, NEW p \in GoodProbes
  PROVE  [c EXCEPT !.probe = p] \in Contexts
BY DEF Contexts

LEMMA FailedContext ==
  ASSUME NEW c \in Contexts
  PROVE  [c EXCEPT !.err = TRUE] \in Contexts
BY DEF Contexts

LEMMA ContextParts ==
  ASSUME NEW c \in Contexts
  PROVE  /\ c.probe \in GoodProbes /\ c.probe \in ProbeRecords /\ c.account \in AccountRecords
         /\ c.markouts \in SUBSET MarkoutRecords /\ c.seen \in SUBSET (Oids \X Nat)
         /\ c.cooling \in BOOLEAN /\ c.rest \in GateRests /\ c.shutdown \in ShutdownRecords
         /\ c.wire \in SUBSET Requests /\ c.issued \in Counters /\ c.writerUp \in BOOLEAN
         /\ c.fuel \in Nat /\ c.err \in BOOLEAN
BY DEF Contexts, GoodProbes

LEMMA FinishProbeContext ==
  ASSUME NEW c \in Contexts
  PROVE  FinishProbe(c) \in Contexts
<1> DEFINE d == Record([c EXCEPT !.probe = NoProbe], 1)
           cooled == d.cooling \/ ~d.err
<1>1. d \in Contexts
  BY WithProbe, NoProbeGood, RecordContext
<1>2. cooled \in BOOLEAN
  BY <1>1, ContextParts
<1>3. FinishProbe(c) = IF c.err THEN c ELSE [d EXCEPT !.cooling = cooled]
  BY DEF FinishProbe
<1> HIDE DEF d, cooled
<1>4. [d EXCEPT !.cooling = cooled] \in Contexts
  BY <1>1, <1>2 DEF Contexts
<1> QED BY <1>3, <1>4

LEMMA MaybeFinishFlattenContext ==
  ASSUME NEW c \in Contexts
  PROVE  MaybeFinishFlatten(c) \in Contexts
BY FinishProbeContext DEF MaybeFinishFlatten

LEMMA DispatchContext ==
  ASSUME NEW c \in Contexts, NEW request \in Requests, NEW p \in GoodProbes,
         NEW send \in BOOLEAN
  PROVE  Dispatch(c, request, p, send) \in Contexts
<1> DEFINE failed == c.fuel < 2
           sent == Offer(c, 2).wire \cup {request}
<1>1. Offer(c, 1) \in Contexts /\ Offer(c, 2) \in Contexts
  BY OfferContext
<1>2. failed \in BOOLEAN
  OBVIOUS
<1>3. sent \in SUBSET Requests
  BY <1>1, ContextParts
<1>4. Dispatch(c, request, p, send)
        = IF ~send THEN [Offer(c, 1) EXCEPT !.err = TRUE]
          ELSE [Offer(c, 2) EXCEPT !.wire = sent, !.probe = p, !.err = failed]
  BY DEF Dispatch
<1> HIDE DEF failed, sent
<1>5. [Offer(c, 2) EXCEPT !.wire = sent, !.probe = p, !.err = failed] \in Contexts
  BY <1>1, <1>2, <1>3 DEF Contexts
<1> QED BY <1>1, <1>4, <1>5, FailedContext

LEMMA RequestValues ==
  ASSUME NEW kind \in {"place", "cancel", "flatten"}, NEW oid \in Oids, NEW lots \in Int
  PROVE  <<kind, oid, lots>> \in Requests
BY DEF Requests

LEMMA CancelActiveContext ==
  ASSUME NEW c \in Contexts, NEW send \in BOOLEAN
  PROVE  CancelActive(c, send) \in Contexts
<1> DEFINE p == c.probe
           entered == Enter(p, "CancelPending")
           armed == entered.armed \cup {"cancel"}
           terminal == IF entered.terminal = "current" THEN "stale" ELSE entered.terminal
           cancelled == [entered EXCEPT !.cancelReq = TRUE, !.armed = armed,
                                        !.terminal = terminal]
<1>1. p \in ProbeRecords
  BY ContextParts
<1>2. entered \in ProbeRecords
  BY <1>1, EnterRecord DEF Phases
<1>3. ASSUME p.oid # NoOid PROVE cancelled \in GoodProbes
  <2>1. armed \in SUBSET {"post", "cancel", "flatten"} /\ terminal \in {"none", "current", "stale"}
    <3> HIDE DEF entered
    <3> QED BY <1>2 DEF ProbeRecords
  <2>2. entered.phase = "CancelPending" /\ entered.oid = p.oid /\ "cancel" \in armed
    BY <1>1 DEF Enter, ProbeRecords
  <2> HIDE DEF entered, armed, terminal
  <2>3. cancelled \in ProbeRecords
    BY <1>2, <2>1 DEF ProbeRecords
  <2>4. /\ cancelled.phase = "CancelPending" /\ "cancel" \in cancelled.armed
        /\ cancelled.cancelReq /\ cancelled.oid # NoOid
    BY <1>2, <1>3, <2>2 DEF ProbeRecords
  <2> HIDE DEF cancelled
  <2> QED BY <2>3, <2>4 DEF GoodProbes, CanTimeOut, MatchesProgress, Waiting
<1>4. <<"cancel", p.oid, 0>> \in Requests
  BY <1>1, RequestValues DEF ProbeRecords
<1>5. RequestRest([c EXCEPT !.probe = Recover(p)]) \in Contexts
  BY <1>1, RecoverGood, WithProbe, RequestRestContext
<1>6. ASSUME p.oid # NoOid
      PROVE  Dispatch(c, <<"cancel", p.oid, 0>>, cancelled, send) \in Contexts
  <2> HIDE DEF cancelled, p
  <2> QED BY <1>3, <1>4, <1>6, DispatchContext
<1>7. CancelActive(c, send)
        = IF c.err \/ ~Active(c) THEN c
          ELSE IF p.oid = NoOid THEN RequestRest([c EXCEPT !.probe = Recover(p)])
          ELSE IF CancelAsked(p) THEN c
          ELSE Dispatch(c, <<"cancel", p.oid, 0>>, cancelled, send)
  BY DEF CancelActive
<1> HIDE DEF p, cancelled
<1> QED BY <1>5, <1>6, <1>7

\* What a tick carries, for every value of the constants.
TickRecords == [view : {"none", "unfit", "good", "eligible"},
                pace : {"recent", "spaced", "periodic"}, due : SUBSET MarkoutRecords,
                send : BOOLEAN, keep : BOOLEAN,
                latest : [healthy : BOOLEAN, inv : Int, orders : SUBSET Oids], found : Oids]

LEMMA MaybeFlattenContext ==
  ASSUME NEW c \in Contexts, NEW risk \in BOOLEAN, NEW t \in TickRecords
  PROVE  MaybeFlatten(c, risk, t) \in Contexts
<1> DEFINE p == c.probe
           n == c.issued.flattens + 1
           entered == Enter(p, "FlattenPending")
           armed == entered.armed \cup {"flatten"}
           flattening == [entered EXCEPT !.flatReq = n, !.armed = armed]
           unsampled == \E m \in c.markouts : m.probe = p.id
           request == <<"flatten", Flatten(n), c.account.inv>>
           counted == [c.issued EXCEPT !.flattens = n]
           d == IF t.send THEN [c EXCEPT !.issued = counted] ELSE c
<1>1. p \in ProbeRecords /\ c.issued \in Counters /\ c.account.inv \in Int
  BY ContextParts DEF AccountRecords
<1>2. n \in Nat /\ counted \in Counters
  BY <1>1 DEF Counters
<1>3. entered \in ProbeRecords
  BY <1>1, EnterRecord DEF Phases
<1>4. flattening \in GoodProbes
  <2>1. n > 0
    BY <1>1 DEF Counters
  <2>2. entered.phase = "FlattenPending"
    BY <1>1 DEF Enter, ProbeRecords
  <2> HIDE DEF entered, n
  <2>3. /\ flattening \in ProbeRecords /\ flattening.phase = "FlattenPending"
        /\ "flatten" \in flattening.armed /\ flattening.flatReq > 0
    BY <1>2, <1>3, <2>1, <2>2 DEF ProbeRecords
  <2> HIDE DEF flattening
  <2> QED BY <2>3 DEF GoodProbes, CanTimeOut, MatchesProgress, Waiting
<1>5. request \in Requests
  <2> HIDE DEF n
  <2> QED BY <1>1, <1>2, OidValues, RequestValues
<1>6. d \in Contexts
  <2> HIDE DEF counted
  <2> QED BY <1>2 DEF Contexts
<1>7. t.send \in BOOLEAN
  BY DEF TickRecords
<1>8. Dispatch(d, request, flattening, t.send) \in Contexts
  <2> HIDE DEF d, request, flattening
  <2> QED BY <1>4, <1>5, <1>6, <1>7, DispatchContext
<1>9. d = IF t.send THEN [c EXCEPT !.issued.flattens = n] ELSE c
  OBVIOUS
<1>10. MaybeFlatten(c, risk, t)
        = IF c.err \/ ~Active(c) \/ p.phase = "FlattenPending" \/ (~risk /\ unsampled) THEN c
          ELSE IF c.account.inv = 0 THEN (IF p.cum > 0 THEN RequestThrottled(c, t) ELSE c)
          ELSE IF t.view = "none" THEN [c EXCEPT !.err = TRUE]
          ELSE Dispatch(d, request, flattening, t.send)
  BY DEF MaybeFlatten
<1> HIDE DEF p, d, request, flattening, unsampled
<1> QED BY <1>8, <1>10, RequestThrottledContext, FailedContext

-----------------------------------------------------------------------------
(* Responses on the action websocket *)

Outcomes == {"resting", "filled", "rejected", "error"}

LEMMA PostedGood ==
  ASSUME NEW p \in GoodProbes, "post" \in p.armed, p.oid # NoOid
  PROVE  AfterRestingPost(p) \in GoodProbes /\ AfterFilledPost(p) \in GoodProbes
<1>1. p \in ProbeRecords /\ CanTimeOut(p) /\ MatchesProgress(p)
  BY DEF GoodProbes
<1>2. ASSUME p.phase = "PlacePending" PROVE Enter(p, "PostAccepted") \in GoodProbes
  BY <1>1, <1>2 DEF Enter, GoodProbes, CanTimeOut, MatchesProgress, Waiting, ProbeRecords, Phases
<1>3. ASSUME p.phase \in {"PlacePending", "PostAccepted", "Resting"}
      PROVE  Enter(p, "Filled") \in GoodProbes
  <2> DEFINE q == Enter(p, "Filled")
  <2>1. q \in ProbeRecords
    BY <1>1, EnterRecord DEF Phases
  <2>2. q.phase = "Filled" /\ q.cum = p.cum /\ q.late = FALSE
    BY <1>1, <1>3 DEF Enter, ProbeRecords
  <2>3. p.cum = 0
    BY <1>1, <1>3 DEF MatchesProgress
  <2> HIDE DEF q
  <2>4. q \in GoodProbes
    BY <2>1, <2>2, <2>3 DEF GoodProbes, CanTimeOut, MatchesProgress
  <2> QED BY <2>4 DEF q
<1> QED BY <1>2, <1>3 DEF AfterRestingPost, AfterFilledPost

LEMMA PlacePostContext ==
  ASSUME NEW c \in Contexts, NEW k \in Nat, NEW outcome \in Outcomes
  PROVE  PlacePost(c, k, outcome) \in Contexts
<1> DEFINE armed == c.probe.armed \cup {"post"}
           accepted == [c.probe EXCEPT !.oid = Maker(k), !.armed = armed]
<1>1. accepted \in GoodProbes /\ "post" \in accepted.armed /\ accepted.oid # NoOid
  <2>1. /\ c.probe \in ProbeRecords /\ CanTimeOut(c.probe) /\ MatchesProgress(c.probe)
        /\ Maker(k) \in Oids /\ Maker(k) # NoOid
    BY ContextParts, OidValues DEF GoodProbes
  <2>2. /\ armed \in SUBSET {"post", "cancel", "flatten"}
        /\ "post" \in armed /\ c.probe.armed \subseteq armed
    BY <2>1 DEF ProbeRecords
  <2> HIDE DEF armed
  <2>3. accepted \in ProbeRecords /\ accepted.armed = armed /\ accepted.oid = Maker(k)
    BY <2>1, <2>2 DEF ProbeRecords
  <2>4. CanTimeOut(accepted)
    BY <2>1, <2>2 DEF CanTimeOut, Waiting, ProbeRecords
  <2>5. MatchesProgress(accepted)
    BY <2>1 DEF MatchesProgress, ProbeRecords
  <2> QED BY <2>1, <2>2, <2>3, <2>4, <2>5 DEF GoodProbes
<1>2. /\ Record([c EXCEPT !.probe = AfterRestingPost(accepted)], 1) \in Contexts
      /\ Record([c EXCEPT !.probe = AfterFilledPost(accepted)], 1) \in Contexts
  <2> HIDE DEF accepted
  <2> QED BY <1>1, PostedGood, WithProbe, RecordContext
<1>3. Record(c, 1) \in Contexts /\ FinishProbe(Record(c, 2)) \in Contexts
  BY RecordContext, FinishProbeContext
<1>4. PlacePost(c, k, outcome)
        \in {Record(c, 1), Record([c EXCEPT !.probe = AfterRestingPost(accepted)], 1),
             Record([c EXCEPT !.probe = AfterFilledPost(accepted)], 1),
             FinishProbe(Record(c, 2)), [c EXCEPT !.err = TRUE]}
  BY Zenon DEF PlacePost, Outcomes
<1> QED BY <1>2, <1>3, <1>4, FailedContext

LEMMA FlattenPostContext ==
  ASSUME NEW c \in Contexts, NEW n \in Nat, NEW outcome \in Outcomes
  PROVE  FlattenPost(c, n, outcome) \in Contexts
<1> DEFINE r == Record(c, 1)
           bound == [r.probe EXCEPT !.flatOid = Flatten(n)]
           dropped == [r.probe EXCEPT !.flatReq = 0, !.armed = @ \ {"flatten"}]
           Retry(p) == RequestRest(Record([r EXCEPT !.probe = Recover(p)], 1))
<1>1. r \in Contexts
  BY RecordContext
<1>2. bound \in GoodProbes /\ bound \in ProbeRecords /\ dropped \in ProbeRecords
  <2>1. /\ r.probe \in ProbeRecords /\ CanTimeOut(r.probe) /\ MatchesProgress(r.probe)
        /\ Flatten(n) \in Oids
    BY <1>1, ContextParts, OidValues DEF GoodProbes
  <2> HIDE DEF r
  <2>2. bound \in ProbeRecords /\ dropped \in ProbeRecords
    BY <2>1 DEF ProbeRecords
  <2>3. CanTimeOut(bound) /\ MatchesProgress(bound)
    BY <2>1 DEF CanTimeOut, MatchesProgress, Waiting, ProbeRecords
  <2> QED BY <2>2, <2>3 DEF GoodProbes
<1>3. ASSUME NEW p \in ProbeRecords PROVE Retry(p) \in Contexts
  <2> HIDE DEF r
  <2> QED BY <1>1, <1>3, RecoverGood, WithProbe, RecordContext, RequestRestContext
<1>4. [r EXCEPT !.probe = bound] \in Contexts
  <2> HIDE DEF r, bound
  <2> QED BY <1>1, <1>2, WithProbe
<1>5. FlattenPost(c, n, outcome)
        \in {r, [c EXCEPT !.err = TRUE], [r EXCEPT !.probe = bound], Retry(bound), Retry(dropped)}
  BY Zenon DEF FlattenPost, Outcomes
<1>6. Retry(bound) \in Contexts /\ Retry(dropped) \in Contexts
  <2> HIDE DEF bound, dropped, Retry
  <2> QED BY <1>2, <1>3
<1> HIDE DEF r, bound, dropped, Retry
<1> QED BY <1>1, <1>4, <1>5, <1>6, FailedContext

LEMMA PostResponseContext ==
  ASSUME NEW c \in Contexts, NEW request \in Requests, NEW outcome \in Outcomes
  PROVE  PostResponse(c, request, outcome) \in Contexts
<1> DEFINE d == [c EXCEPT !.wire = @ \ {request}]
<1>1. d \in Contexts
  BY DEF Contexts
<1>2. request[1] \in {"place", "cancel", "flatten"} /\ request[2][2] \in Nat
  BY DEF Requests, Oids
<1>3. PostResponse(c, request, outcome)
        \in {d, PlacePost(d, request[2][2], outcome), FlattenPost(d, request[2][2], outcome),
             CancelPost(d, outcome)}
  BY <1>2, Zenon DEF PostResponse
<1> HIDE DEF d
<1>4. CancelPost(d, outcome) \in Contexts
  BY <1>1, FailedContext, RecordContext DEF CancelPost
<1> QED BY <1>1, <1>2, <1>3, <1>4, PlacePostContext, FlattenPostContext

-----------------------------------------------------------------------------
(* Private feed *)

\* Updates and fills, for every value of the constants.
Updates == {u \in [oid : Oids, status : {"open", "filled", "canceled", "rejected"},
                   filled : Lots, left : Lots] :
              u.oid # NoOid /\ (u.status = "filled" => u.filled > 0)}
Fills == [oid : Oids, trade : Nat, size : Nat \ {0}, sign : {-1, 1}]

\* A terminal update with something filled leaves a probe to be marked out.

LEMMA OrderDoneGood ==
  ASSUME NEW p \in GoodProbes, NEW u \in Updates, Larger(p.cum, u.filled) > 0
  PROVE  OrderDone(p, u) \in GoodProbes
<1> DEFINE entered == Enter(p, "MarkoutPending")
           cum == Larger(entered.cum, u.filled)
           done == [entered EXCEPT !.rem = 0, !.cum = cum, !.terminal = "current"]
<1>1. p \in ProbeRecords /\ CanTimeOut(p)
  BY DEF GoodProbes
<1>2. /\ entered \in ProbeRecords /\ entered.phase = "MarkoutPending"
      /\ entered.cum = p.cum /\ entered.late = FALSE
  <2>1. entered \in ProbeRecords
    BY <1>1, EnterRecord DEF Phases
  <2>2. p.late => p.phase # "MarkoutPending"
    BY <1>1 DEF CanTimeOut, Waiting
  <2> QED BY <1>1, <2>1, <2>2 DEF Enter, ProbeRecords
<1>3. cum \in Nat /\ cum > 0
  <2>1. p.cum \in Nat /\ u.filled \in Nat
    BY <1>1, LotsNat DEF ProbeRecords, Updates
  <2> HIDE DEF entered
  <2> QED BY <1>2, <2>1 DEF Larger
<1>4. OrderDone(p, u) = done
  BY DEF OrderDone
<1> HIDE DEF entered, cum
<1>5. /\ done \in ProbeRecords /\ done.phase = "MarkoutPending" /\ done.late = FALSE
      /\ done.rem = 0 /\ done.cum > 0
  BY <1>2, <1>3, LotsNat DEF ProbeRecords
<1> HIDE DEF done
<1> QED BY <1>4, <1>5 DEF GoodProbes, CanTimeOut, MatchesProgress

LEMMA OrderOpenContext ==
  ASSUME NEW c \in Contexts, NEW u \in Updates
  PROVE  OrderOpen(c, u) \in Contexts
<1> DEFINE p == [c.probe EXCEPT !.oid = u.oid, !.rem = u.left, !.cum = u.filled, !.opened = TRUE]
           phase == IF u.filled > 0 THEN "Partial" ELSE "Resting"
           q == Enter(p, phase)
           d == [c EXCEPT !.probe = q]
<1>1. /\ p \in ProbeRecords /\ p.opened /\ p.cum = u.filled /\ u.filled \in Nat
  BY ContextParts, LotsNat DEF ProbeRecords, Updates
<1>2. phase \in Phases /\ phase \in {"Partial", "Resting"} /\ (phase = "Resting" => u.filled = 0)
  BY <1>1 DEF Phases
<1>3. q \in ProbeRecords /\ q.phase = phase /\ q.opened /\ q.cum = u.filled
  <2> HIDE DEF p, phase
  <2>1. q \in ProbeRecords
    BY <1>1, <1>2, EnterRecord
  <2> QED BY <1>1, <2>1 DEF Enter, ProbeRecords
<1>4. q \in GoodProbes
  <2> HIDE DEF q, phase
  <2> QED BY <1>2, <1>3 DEF GoodProbes, CanTimeOut, MatchesProgress, Waiting
<1>5. d \in Contexts
  <2> HIDE DEF q
  <2> QED BY <1>4, WithProbe
<1>6. OrderOpen(c, u) = IF c.probe.opened THEN d ELSE Record(d, 1)
  BY DEF OrderOpen
<1> HIDE DEF d
<1> QED BY <1>5, <1>6, RecordContext

LEMMA RecordKeeps ==
  ASSUME NEW c \in Contexts, NEW n \in Nat
  PROVE  Record(c, n).probe = c.probe
BY DEF Record, Offer, Contexts

LEMMA OrderCancelledContext ==
  ASSUME NEW c \in Contexts, NEW u \in Updates
  PROVE  OrderCancelled(c, u) \in Contexts
<1> DEFINE r == Record(c, 1)
           settling == [r.probe EXCEPT !.phase = "Recovering", !.late = FALSE,
                                       !.rem = 0, !.terminal = "current"]
           done == [r EXCEPT !.probe = OrderDone(r.probe, u)]
           settled == Record([r EXCEPT !.probe = settling], 1)
<1>1. r \in Contexts /\ r.probe = c.probe
  BY RecordContext, RecordKeeps
<1>2. r.probe \in GoodProbes /\ r.probe \in ProbeRecords
  BY <1>1, ContextParts
<1>3. settling \in GoodProbes
  <2> HIDE DEF r
  <2>1. settling \in ProbeRecords /\ settling.phase = "Recovering" /\ settling.late = FALSE
    BY <1>2, LotsNat DEF ProbeRecords, Phases
  <2> HIDE DEF settling
  <2> QED BY <2>1 DEF GoodProbes, CanTimeOut, MatchesProgress
<1>4. ASSUME Larger(c.probe.cum, u.filled) > 0 PROVE done \in Contexts
  <2>1. OrderDone(r.probe, u) \in GoodProbes
    BY <1>1, <1>2, <1>4, OrderDoneGood
  <2> HIDE DEF r
  <2> QED BY <1>1, <2>1, WithProbe
<1>5. settled \in Contexts
  <2> HIDE DEF r, settling
  <2> QED BY <1>1, <1>3, WithProbe, RecordContext
<1>6. OrderCancelled(c, u) = IF r.err THEN r
                             ELSE IF Larger(c.probe.cum, u.filled) > 0 THEN done ELSE settled
  BY DEF OrderCancelled
<1> HIDE DEF r, done, settled
<1> QED BY <1>1, <1>4, <1>5, <1>6

LEMMA OrderUpdateContext ==
  ASSUME NEW c \in Contexts, NEW u \in Updates
  PROVE  OrderUpdate(c, u) \in Contexts
<1> DEFINE matched == [c.probe EXCEPT !.oid = u.oid]
           filled == [c EXCEPT !.probe = OrderDone(matched, u)]
<1>1. matched \in GoodProbes
  <2>1. /\ c.probe \in ProbeRecords /\ CanTimeOut(c.probe) /\ MatchesProgress(c.probe)
        /\ u.oid \in Oids /\ u.oid # NoOid
    BY ContextParts DEF GoodProbes, Updates
  <2>2. matched \in ProbeRecords
    BY <2>1 DEF ProbeRecords
  <2>3. CanTimeOut(matched) /\ MatchesProgress(matched)
    BY <2>1 DEF CanTimeOut, MatchesProgress, Waiting, ProbeRecords
  <2> QED BY <2>2, <2>3 DEF GoodProbes
<1>2. ASSUME u.status = "filled" PROVE filled \in Contexts
  <2>1. matched.cum \in Nat /\ u.filled \in Nat /\ u.filled > 0
    BY <1>1, <1>2, LotsNat DEF GoodProbes, ProbeRecords, Updates
  <2> HIDE DEF matched
  <2>2. Larger(matched.cum, u.filled) > 0
    BY <2>1 DEF Larger
  <2> QED BY <1>1, <2>2, OrderDoneGood, WithProbe
<1>3. FinishProbe(Record(c, 1)) \in Contexts
  BY RecordContext, FinishProbeContext
<1>4. u.status \in {"open", "filled", "canceled", "rejected"}
  BY DEF Updates
<1>5. OrderUpdate(c, u)
        \in {c, OrderOpen(c, u), OrderCancelled(c, u), FinishProbe(Record(c, 1))}
          \cup (IF u.status = "filled" THEN {filled} ELSE {})
  BY <1>4, Zenon DEF OrderUpdate
<1> HIDE DEF filled
<1> QED BY <1>2, <1>3, <1>5, OrderOpenContext, OrderCancelledContext

LEMMA FlattenFillContext ==
  ASSUME NEW c \in Contexts, NEW f \in Fills
  PROVE  FlattenFill(c, f) \in Contexts
<1> DEFINE inv == c.account.inv + f.sign * f.size
           sold == [c EXCEPT !.account = [c.account EXCEPT !.inv = inv]]
           d == Record(Touch(sold), 1)
           e == IF d.err THEN d ELSE MaybeFinishFlatten(d)
<1>1. inv \in Int
  BY ContextParts DEF AccountRecords, Fills
<1>2. sold \in Contexts
  <2> HIDE DEF inv
  <2> QED BY <1>1, ContextParts DEF AccountRecords, Contexts
<1>3. d \in Contexts
  <2> HIDE DEF sold
  <2> QED BY <1>2, TouchContext, RecordContext
<1>4. e \in Contexts
  <2> HIDE DEF d
  <2> QED BY <1>3, MaybeFinishFlattenContext
<1>5. FlattenFill(c, f) = IF Active(e) THEN RequestRest(e) ELSE e
  BY DEF FlattenFill
<1> HIDE DEF e
<1> QED BY <1>4, <1>5, RequestRestContext

\* The probe after a maker fill: partly filled, or waiting for its markouts.
LEMMA MakerFillGood ==
  ASSUME NEW c \in Contexts, NEW f \in Fills
  PROVE  LET left == Larger(c.probe.rem - f.size, 0)
             p == [c.probe EXCEPT !.cum = @ + f.size, !.rem = left,
                                  !.terminal = IF left > 0 THEN @ ELSE "current"]
         IN p \in ProbeRecords /\ left \in Lots
            /\ Enter(p, IF left > 0 THEN "Partial" ELSE "MarkoutPending") \in GoodProbes
<1> DEFINE left == Larger(c.probe.rem - f.size, 0)
           cum == c.probe.cum + f.size
           terminal == IF left > 0 THEN c.probe.terminal ELSE "current"
           p == [c.probe EXCEPT !.cum = cum, !.rem = left, !.terminal = terminal]
           phase == IF left > 0 THEN "Partial" ELSE "MarkoutPending"
<1>1. c.probe \in ProbeRecords
  BY ContextParts
<1>2. f.oid \in Oids /\ f.trade \in Nat /\ f.size \in Nat
  BY DEF Fills
<1>3. left \in Lots
  <2>1. c.probe.rem \in Lots
    BY <1>1 DEF ProbeRecords
  <2> QED BY <1>2, <2>1, SizeAssumption DEF Lots, Larger
<1>4. cum \in Nat
  BY <1>1, <1>2 DEF ProbeRecords
<1>5. terminal \in {"none", "current", "stale"}
  <2> HIDE DEF left
  <2> QED BY <1>1 DEF ProbeRecords
<1>6. p \in ProbeRecords
  <2> HIDE DEF left, cum, terminal
  <2> QED BY <1>1, <1>3, <1>4, <1>5 DEF ProbeRecords
<1>7. phase \in Phases
  BY DEF Phases
<1>8. Enter(p, phase) \in GoodProbes
  <2> DEFINE q == Enter(p, phase)
  <2>1. /\ p.cum > 0 /\ p.rem = left /\ p.phase = c.probe.phase /\ p.opened = c.probe.opened
        /\ p.late = c.probe.late
    <3>1. cum > 0
      BY <1>1, <1>2 DEF ProbeRecords, Fills
    <3> HIDE DEF left, cum, terminal
    <3> QED BY <1>1, <3>1 DEF ProbeRecords
  <2>2. phase = "Partial" \/ (phase = "MarkoutPending" /\ left = 0)
    <3>1. left \in Nat
      BY <1>3, LotsNat
    <3> HIDE DEF left
    <3> QED BY <3>1
  <2>3. c.probe.late => /\ c.probe.phase # "MarkoutPending"
                        /\ c.probe.phase = "Partial" => c.probe.opened
    BY ContextParts DEF GoodProbes, CanTimeOut, Waiting
  <2> HIDE DEF p, phase, left
  <2>4. /\ q \in ProbeRecords /\ q.phase = phase /\ q.cum = p.cum /\ q.rem = p.rem
        /\ q.opened = p.opened /\ (q.late => p.late /\ p.phase = phase)
    BY <1>6, <1>7, EnterRecord DEF Enter, ProbeRecords
  <2> HIDE DEF q
  <2>5. q \in GoodProbes
    <3>1. q.late => Waiting(q)
      BY <2>1, <2>2, <2>3, <2>4 DEF Waiting
    <3> QED BY <2>1, <2>2, <2>4, <3>1 DEF GoodProbes, CanTimeOut, MatchesProgress
  <2> QED BY <2>5 DEF q
<1> QED BY <1>3, <1>6, <1>8

LEMMA MakerFillContext ==
  ASSUME NEW c \in Contexts, NEW f \in Fills, NEW send \in BOOLEAN
  PROVE  MakerFill(c, f, send) \in Contexts
<1> DEFINE left == Larger(c.probe.rem - f.size, 0)
           cum == c.probe.cum + f.size
           terminal == IF left > 0 THEN c.probe.terminal ELSE "current"
           p == [c.probe EXCEPT !.cum = cum, !.rem = left, !.terminal = terminal]
           phase == IF left > 0 THEN "Partial" ELSE "MarkoutPending"
           mark == [probe |-> p.id, fill |-> FillId(f), done |-> FALSE]
           inv == c.account.inv + f.size
           marks == c.markouts \cup {mark}
           bought == [c EXCEPT !.probe = Enter(p, phase),
                               !.account = [c.account EXCEPT !.inv = inv], !.markouts = marks]
           e == RequestRest(Record(Touch(bought), 1))
<1>1. c.account \in AccountRecords /\ f.oid \in Oids /\ f.trade \in Nat /\ f.size \in Nat
  BY ContextParts DEF Fills
<1>2. p \in ProbeRecords /\ Enter(p, phase) \in GoodProbes
  BY MakerFillGood
<1>3. inv \in Int
  BY <1>1 DEF AccountRecords
<1>4. marks \in SUBSET MarkoutRecords
  <2>1. p.id \in Nat
    <3> HIDE DEF p
    <3> QED BY <1>2 DEF ProbeRecords
  <2>2. FillId(f) \in Oids \X Nat
    BY <1>1 DEF FillId
  <2>3. mark \in MarkoutRecords
    <3> HIDE DEF p
    <3> QED BY <2>1, <2>2 DEF MarkoutRecords
  <2> HIDE DEF mark
  <2> QED BY <2>3, ContextParts
<1>5. bought \in Contexts
  <2> HIDE DEF p, phase, inv, marks
  <2>1. [c.account EXCEPT !.inv = inv] \in AccountRecords
    BY <1>1, <1>3 DEF AccountRecords
  <2> QED BY <1>2, <1>4, <2>1 DEF Contexts
<1>6. e \in Contexts
  <2> HIDE DEF bought
  <2> QED BY <1>5, TouchContext, RecordContext, RequestRestContext
<1>7. MakerFill(c, f, send) = IF left > 0 /\ ~p.cancelReq THEN CancelActive(e, send) ELSE Record(e, 1)
  BY DEF MakerFill
<1> HIDE DEF e, left, p
<1> QED BY <1>6, <1>7, CancelActiveContext, RecordContext

LEMMA UserFillContext ==
  ASSUME NEW c \in Contexts, NEW f \in Fills, NEW send \in BOOLEAN
  PROVE  UserFill(c, f, send) \in Contexts
<1> DEFINE seenNow == c.seen \cup {FillId(f)}
           d == [c EXCEPT !.seen = seenNow]
<1>1. seenNow \in SUBSET (Oids \X Nat)
  BY ContextParts DEF FillId, Fills
<1>2. d \in Contexts
  <2> HIDE DEF seenNow
  <2> QED BY <1>1 DEF Contexts
<1>3. UserFill(c, f, send) \in {c, FlattenFill(d, f), MakerFill(d, f, send), Record(d, 1)}
  BY DEF UserFill
<1> HIDE DEF d
<1> QED BY <1>2, <1>3, FlattenFillContext, MakerFillContext, RecordContext

LEMMA ClearinghouseContext ==
  ASSUME NEW c \in Contexts, NEW inv \in Int
  PROVE  Clearinghouse(c, inv) \in Contexts
<1> DEFINE moved == [c EXCEPT !.account = [c.account EXCEPT !.inv = inv]]
<1>1. moved \in Contexts
  BY ContextParts DEF AccountRecords, Contexts
<1>2. Clearinghouse(c, inv) = IF c.err THEN c ELSE MaybeFinishFlatten(Touch(moved))
  BY DEF Clearinghouse
<1> HIDE DEF moved
<1> QED BY <1>1, <1>2, TouchContext, MaybeFinishFlattenContext

LEMMA PrivateReconnectContext ==
  ASSUME NEW c \in Contexts
  PROVE  PrivateReconnect(c) \in Contexts
<1> DEFINE cleared == [c EXCEPT !.probe = [c.probe EXCEPT !.terminal = "none"]]
<1>1. cleared \in Contexts
  <2> DEFINE p == [c.probe EXCEPT !.terminal = "none"]
  <2>1. c.probe \in ProbeRecords /\ CanTimeOut(c.probe) /\ MatchesProgress(c.probe)
    BY ContextParts DEF GoodProbes
  <2>2. p \in ProbeRecords
    BY <2>1 DEF ProbeRecords
  <2>3. CanTimeOut(p) /\ MatchesProgress(p)
    BY <2>1 DEF CanTimeOut, MatchesProgress, Waiting, ProbeRecords
  <2>4. p \in GoodProbes
    BY <2>2, <2>3 DEF GoodProbes
  <2> HIDE DEF p
  <2>5. [c EXCEPT !.probe = p] \in Contexts
    BY <2>4, WithProbe
  <2> QED BY <2>5 DEF p
<1>2. PrivateReconnect(c) = Record(cleared, 1)
  BY DEF PrivateReconnect
<1> HIDE DEF cleared
<1> QED BY <1>1, <1>2, RecordContext

-----------------------------------------------------------------------------
(* The timer *)

LEMMA ReconcileContext ==
  ASSUME NEW c \in Contexts, NEW t \in TickRecords
  PROVE  Reconcile(c, t) \in Contexts
<1> DEFINE p == c.probe
           reopened == [p EXCEPT !.oid = t.found, !.cancelReq = FALSE]
           entered == Enter(p, "MarkoutPending")
           armed == entered.armed \ {"flatten"}
           residual == [entered EXCEPT !.rem = 0, !.flatReq = 0, !.armed = armed]
           open == [c EXCEPT !.probe = reopened]
           held == [c EXCEPT !.probe = residual]
<1>1. p \in ProbeRecords /\ t.found \in Oids /\ t.send \in BOOLEAN
  BY ContextParts DEF TickRecords
<1>2. ASSUME p.phase = "Recovering" PROVE open \in Contexts
  <2> HIDE DEF p
  <2>1. reopened \in ProbeRecords /\ reopened.phase = "Recovering"
    BY <1>1, <1>2 DEF ProbeRecords
  <2> HIDE DEF reopened
  <2>2. reopened \in GoodProbes
    BY <2>1 DEF GoodProbes, CanTimeOut, MatchesProgress, Waiting
  <2> QED BY <2>2, WithProbe
<1>3. ASSUME p.phase = "Recovering", p.cum > 0 PROVE held \in Contexts
  <2> HIDE DEF p
  <2>1. /\ entered \in ProbeRecords /\ entered.phase = "MarkoutPending"
        /\ entered.late = FALSE /\ entered.cum = p.cum
    <3>1. entered \in ProbeRecords
      BY <1>1, EnterRecord DEF Phases
    <3> QED BY <1>1, <1>3, <3>1 DEF Enter, ProbeRecords
  <2> HIDE DEF entered
  <2>2. /\ residual \in ProbeRecords /\ residual.phase = "MarkoutPending"
        /\ residual.late = FALSE /\ residual.cum = p.cum /\ residual.rem = 0
    BY <2>1, LotsNat DEF ProbeRecords
  <2> HIDE DEF residual
  <2>3. residual \in GoodProbes
    BY <1>3, <2>2 DEF GoodProbes, CanTimeOut, MatchesProgress
  <2> QED BY <2>3, WithProbe
<1>4. Reconcile(c, t)
        \in {c, MaybeFinishFlatten(c), FinishProbe(c)}
          \cup (IF p.phase = "Recovering" THEN {CancelActive(open, t.send)} ELSE {})
          \cup (IF p.phase = "Recovering" /\ p.cum > 0 THEN {held} ELSE {})
  BY DEF Reconcile
<1> HIDE DEF p, open, held
<1> QED BY <1>1, <1>2, <1>3, <1>4, MaybeFinishFlattenContext, CancelActiveContext,
           FinishProbeContext

LEMMA ShutdownSnapshot ==
  ASSUME NEW c \in Contexts, NEW snapshot \in {"none", "requested", "fresh"}
  PROVE  [c EXCEPT !.shutdown = [c.shutdown EXCEPT !.snapshot = snapshot]] \in Contexts
<1>1. [c.shutdown EXCEPT !.snapshot = snapshot] \in ShutdownRecords
  BY ContextParts DEF ShutdownRecords
<1> QED BY <1>1 DEF Contexts

LEMMA RefreshAccountContext ==
  ASSUME NEW c \in Contexts, NEW t \in TickRecords
  PROVE  RefreshAccount(c, t) \in Contexts
<1>1. CASE ~c.rest.unread \/ c.rest.worker = "gone"
  BY <1>1 DEF RefreshAccount
<1>2. CASE c.rest.unread /\ c.rest.worker # "gone"
  <2> DEFINE d == TakeOver(c)
             read == [inv |-> t.latest.inv, open |-> t.latest.orders # {}, healthy |-> TRUE]
             snapshot == IF d.shutdown.snapshot = "requested" THEN "fresh"
                         ELSE d.shutdown.snapshot
             shut == [d.shutdown EXCEPT !.snapshot = snapshot]
             adopted == [d EXCEPT !.account = read, !.shutdown = shut]
             asking == [d EXCEPT !.shutdown = [d.shutdown EXCEPT !.snapshot = "none"]]
  <2>1. d \in Contexts
    BY <1>2, TakeOverContext
  <2>2. adopted \in Contexts
    <3> HIDE DEF d
    <3>1. read \in AccountRecords
      BY DEF TickRecords, AccountRecords
    <3>2. shut \in ShutdownRecords
      BY <2>1, ContextParts DEF ShutdownRecords
    <3> HIDE DEF read, shut
    <3> QED BY <2>1, <3>1, <3>2 DEF Contexts
  <2>3. asking \in Contexts
    <3> HIDE DEF d
    <3> QED BY <2>1, ShutdownSnapshot
  <2>4. RefreshAccount(c, t) \in {Record(asking, 1), d, Reconcile(adopted, t)}
    BY <1>2 DEF RefreshAccount
  <2> HIDE DEF d, adopted, asking
  <2> QED BY <2>1, <2>2, <2>3, <2>4, RecordContext, ReconcileContext
<1> QED BY <1>1, <1>2

LEMMA SampleMarkoutsContext ==
  ASSUME NEW c \in Contexts, NEW t \in TickRecords
  PROVE  SampleMarkouts(c, t) \in Contexts
<1> DEFINE due == {m \in c.markouts : m \in t.due /\ ~m.done}
           kept == {m \in c.markouts : m \notin t.due /\ ~m.done}
           counted == {[m EXCEPT !.done = TRUE] : m \in due}
           r == Record(c, IF due = {} THEN 0 ELSE 1)
           left == (r.markouts \ due) \cup counted
<1>1. r \in Contexts
  <2> HIDE DEF due
  <2> QED BY RecordContext
<1>2. due \in SUBSET MarkoutRecords /\ kept \in SUBSET MarkoutRecords
  BY ContextParts
<1>3. counted \in SUBSET MarkoutRecords
  <2> HIDE DEF due
  <2> QED BY <1>2 DEF MarkoutRecords
<1>4. left \in SUBSET MarkoutRecords
  <2> HIDE DEF r, due, counted
  <2> QED BY <1>1, <1>3, ContextParts
<1>5. SampleMarkouts(c, t) \in {c, [r EXCEPT !.markouts = left], [r EXCEPT !.markouts = kept]}
  BY Zenon DEF SampleMarkouts
<1> HIDE DEF r, left, kept
<1>6. [r EXCEPT !.markouts = left] \in Contexts /\ [r EXCEPT !.markouts = kept] \in Contexts
  BY <1>1, <1>2, <1>4 DEF Contexts
<1> QED BY <1>5, <1>6

LEMMA GuardInventoryContext ==
  ASSUME NEW c \in Contexts, NEW t \in TickRecords
  PROVE  GuardInventory(c, t) \in Contexts
<1> DEFINE d == [c EXCEPT !.markouts = {}]
<1>1. d \in Contexts
  BY DEF Contexts
<1>2. GuardInventory(c, t) \in {c, MaybeFlatten(d, TRUE, t)}
  BY DEF GuardInventory
<1> HIDE DEF d
<1> QED BY <1>1, <1>2, MaybeFlattenContext

LEMMA EvaluateRestingContext ==
  ASSUME NEW c \in Contexts, NEW t \in TickRecords
  PROVE  EvaluateResting(c, t) \in Contexts
<1>1. t.send \in BOOLEAN
  BY DEF TickRecords
<1>2. Record(c, IF t.keep THEN 1 ELSE 0) \in Contexts
  BY RecordContext
<1>3. EvaluateResting(c, t)
        \in {CancelActive(c, t.send), GuardInventory(Record(c, IF t.keep THEN 1 ELSE 0), t)}
  BY Zenon DEF EvaluateResting
<1> QED BY <1>1, <1>2, <1>3, CancelActiveContext, GuardInventoryContext

LEMMA EvaluateActiveContext ==
  ASSUME NEW c \in Contexts, NEW t \in TickRecords
  PROVE  EvaluateActive(c, t) \in Contexts
<1> DEFINE recovering == Record(RequestRest([c EXCEPT !.probe = Recover(c.probe)]), 1)
<1>1. recovering \in Contexts
  BY ContextParts, RecoverGood, WithProbe, RequestRestContext, RecordContext
<1>2. FinishProbe(Record(c, 1)) \in Contexts
  BY RecordContext, FinishProbeContext
<1>3. GuardInventory(RequestThrottled(c, t), t) \in Contexts
  BY RequestThrottledContext, GuardInventoryContext
<1>4. GuardInventory(MaybeFlatten(c, FALSE, t), t) \in Contexts
  BY MaybeFlattenContext, GuardInventoryContext
<1>5. EvaluateActive(c, t)
        \in {c, recovering, FinishProbe(Record(c, 1)), GuardInventory(RequestThrottled(c, t), t),
             EvaluateResting(c, t), GuardInventory(MaybeFlatten(c, FALSE, t), t),
             GuardInventory(c, t)}
  BY Zenon DEF EvaluateActive
<1> HIDE DEF recovering
<1> QED BY <1>1, <1>2, <1>3, <1>4, <1>5, EvaluateRestingContext, GuardInventoryContext

LEMMA StartProbeContext ==
  ASSUME NEW c \in Contexts, NEW t \in TickRecords
  PROVE  StartProbe(c, t) \in Contexts
<1> DEFINE k == c.issued.probes + 1
           counted == [c.issued EXCEPT !.probes = k]
           r == Record([c EXCEPT !.issued = counted], 1)
           sent == r.wire \cup {<<"place", Maker(k), Size>>}
           a == Record([r EXCEPT !.wire = sent], 1)
<1>1. k \in Nat /\ counted \in Counters
  BY ContextParts DEF Counters
<1>2. r \in Contexts
  <2> HIDE DEF counted
  <2>1. [c EXCEPT !.issued = counted] \in Contexts
    BY <1>1 DEF Contexts
  <2> QED BY <2>1, RecordContext
<1>3. a \in Contexts
  <2> HIDE DEF r, k
  <2>1. sent \in SUBSET Requests
    BY <1>1, <1>2, OidValues, SizeAssumption, RequestValues, ContextParts
  <2> HIDE DEF sent
  <2>2. [r EXCEPT !.wire = sent] \in Contexts
    BY <1>2, <2>1 DEF Contexts
  <2> QED BY <2>2, RecordContext
<1>4. NewProbe(k) \in GoodProbes
  <2> HIDE DEF k
  <2>1. NoProbe \in ProbeRecords
    BY NoProbeGood DEF GoodProbes
  <2>2. NewProbe(k) \in ProbeRecords
    BY <1>1, <2>1, LotsNat DEF NewProbe, ProbeRecords, Phases
  <2>3. CanTimeOut(NewProbe(k)) /\ MatchesProgress(NewProbe(k))
    BY DEF NewProbe, NoProbe, CanTimeOut, MatchesProgress
  <2> QED BY <2>2, <2>3 DEF GoodProbes
<1>5. [a EXCEPT !.probe = NewProbe(k)] \in Contexts
  <2> HIDE DEF a, k
  <2> QED BY <1>3, <1>4, WithProbe
<1>6. StartProbe(c, t) \in {c, r, [r EXCEPT !.err = TRUE], a, [a EXCEPT !.probe = NewProbe(k)]}
  BY DEF StartProbe
<1> HIDE DEF r, a, k
<1> QED BY <1>2, <1>3, <1>5, <1>6, FailedContext

LEMMA StopRequestedContext ==
  ASSUME NEW c \in Contexts
  PROVE  StopRequested(c) \in Contexts
<1> DEFINE n == IF c.markouts = {} THEN 1 ELSE 2
           d == Offer(c, n)
<1>1. d \in Contexts
  <2>1. n \in Nat
    OBVIOUS
  <2> HIDE DEF n
  <2> QED BY <2>1, OfferContext
<1>2. StopRequested(c)
        = IF c.shutdown.started THEN c
          ELSE [d EXCEPT !.shutdown = [d.shutdown EXCEPT !.started = TRUE], !.markouts = {}]
  BY DEF StopRequested
<1> HIDE DEF d
<1>3. [d.shutdown EXCEPT !.started = TRUE] \in ShutdownRecords
  BY <1>1, ContextParts DEF ShutdownRecords
<1> QED BY <1>1, <1>2, <1>3 DEF Contexts

LEMMA StopWhenIdleContext ==
  ASSUME NEW c \in Contexts
  PROVE  StopWhenIdle(c) \in Contexts
<1> DEFINE r == RequestRest(c)
           asked == [r EXCEPT !.shutdown = [r.shutdown EXCEPT !.snapshot = "requested"]]
           o == Offer(c, 1)
           told == [o EXCEPT !.shutdown = [o.shutdown EXCEPT !.notified = TRUE]]
<1>1. asked \in Contexts
  <2>1. r \in Contexts
    BY RequestRestContext
  <2> HIDE DEF r
  <2> QED BY <2>1, ShutdownSnapshot
<1>2. told \in Contexts
  <2>1. o \in Contexts
    BY OfferContext
  <2> HIDE DEF o
  <2>2. [o.shutdown EXCEPT !.notified = TRUE] \in ShutdownRecords
    BY <2>1, ContextParts DEF ShutdownRecords
  <2> QED BY <2>1, <2>2 DEF Contexts
<1>3. StopWhenIdle(c) \in {c, asked, told}
  BY DEF StopWhenIdle
<1> HIDE DEF asked, told
<1> QED BY <1>1, <1>2, <1>3

LEMMA DriveShutdownContext ==
  ASSUME NEW c \in Contexts, NEW t \in TickRecords
  PROVE  DriveShutdown(c, t) \in Contexts
<1> DEFINE d == StopRequested(c)
           e == EvaluateActive(d, t)
           recovering == [d EXCEPT !.probe = Recover(d.probe)]
<1>1. d \in Contexts
  BY StopRequestedContext
<1>2. t.send \in BOOLEAN
  BY DEF TickRecords
<1> HIDE DEF d
<1>3. e \in Contexts /\ recovering \in Contexts
  BY <1>1, EvaluateActiveContext, ContextParts, RecoverGood, WithProbe
<1>4. d.probe.phase \in Phases
  BY <1>1, ContextParts DEF ProbeRecords
<1>5. DriveShutdown(c, t)
        \in {CancelActive(d, t.send), RequestThrottled(recovering, t), MaybeFlatten(d, TRUE, t),
             RequestThrottled(e, t), e, StopWhenIdle(d)}
  BY <1>4, Zenon DEF DriveShutdown, d, Phases
<1> HIDE DEF e, recovering
<1> QED BY <1>1, <1>2, <1>3, <1>5, CancelActiveContext, RequestThrottledContext,
           MaybeFlattenContext, StopWhenIdleContext

LEMMA TimerContext ==
  ASSUME NEW c \in Contexts, NEW t \in TickRecords
  PROVE  Timer(c, t) \in Contexts
<1> DEFINE r == RefreshAccount(c, t)
           p == IF t.pace = "periodic" THEN RequestRest(r) ELSE r
<1>1. r \in Contexts
  BY RefreshAccountContext
<1>2. p \in Contexts
  <2> HIDE DEF r
  <2> QED BY <1>1, RequestRestContext
<1>3. StartProbe(EvaluateActive(SampleMarkouts(p, t), t), t) \in Contexts
  <2> HIDE DEF p
  <2> QED BY <1>2, SampleMarkoutsContext, EvaluateActiveContext, StartProbeContext
<1>4. Timer(c, t)
        \in {r, DriveShutdown(r, t), StartProbe(EvaluateActive(SampleMarkouts(p, t), t), t)}
  BY DEF Timer
<1> HIDE DEF r, p
<1> QED BY <1>1, <1>3, <1>4, DriveShutdownContext

-----------------------------------------------------------------------------
(* Steps *)

Inv == TypeOK /\ OneRequest(rest) /\ WaitsCanTimeOut /\ PhasesMatchProgress

LEMMA SelfContext ==
  ASSUME Inv, NEW fuel \in Nat
  PROVE  Self(fuel) \in Contexts
BY DEF Inv, TypeOK, WaitsCanTimeOut, PhasesMatchProgress,
       GoodProbes, GateRests, Contexts, Self

LEMMA BecomeInv ==
  ASSUME NEW context \in Contexts, Become(context)
  PROVE  Inv'
<1>1. /\ probe' = context.probe /\ account' = context.account
      /\ markouts' = context.markouts /\ seen' = context.seen /\ cooling' = context.cooling
      /\ rest' = context.rest /\ shutdown' = context.shutdown /\ wire' = context.wire
      /\ issued' = context.issued /\ writerUp' = context.writerUp
  BY DEF Become
<1>2. context.rest \in RestRecords /\ OneRequest(context.rest)
  BY ContextParts DEF GateRests
<1>3. TypeOK'
  BY <1>1, <1>2, ContextParts DEF TypeOK
<1>4. OneRequest(rest)'
  BY <1>1, <1>2 DEF OneRequest
<1>5. WaitsCanTimeOut' /\ PhasesMatchProgress'
  <2>1. CanTimeOut(context.probe) /\ MatchesProgress(context.probe)
    BY ContextParts DEF GoodProbes
  <2> QED BY <1>1, <2>1 DEF WaitsCanTimeOut, PhasesMatchProgress
<1> QED BY <1>3, <1>4, <1>5 DEF Inv

LEMMA FuelNat == \A fuel \in Fuel : fuel \in Nat
BY DEF Fuel, RecordLimit

LEMMA FrameContext ==
  ASSUME Inv, NEW fuel \in Fuel
  PROVE  Frame(fuel) \in Contexts
BY FuelNat, SelfContext, RecordContext DEF Frame

LEMMA IssuedOidsOids == Inv => IssuedOids \subseteq Oids \ {NoOid}
BY OidValues DEF Inv, TypeOK, Counters, IssuedOids, Flattens

LEMMA UpdatesTyped ==
  ASSUME Inv, NEW u \in OrderUpdates
  PROVE  u \in Updates
<1>1. /\ u.oid \in IssuedOids /\ u.status \in {"open", "filled", "canceled", "rejected"}
      /\ u.filled \in Lots /\ u.left \in Lots /\ u.filled + u.left = Size
      /\ u.status = "filled" => u.left = 0
      /\ u = [oid |-> u.oid, status |-> u.status, filled |-> u.filled, left |-> u.left]
  BY DEF OrderUpdates
<1>2. u.oid \in Oids /\ u.oid # NoOid
  BY <1>1, IssuedOidsOids
<1>3. u.status = "filled" => u.filled > 0
  BY <1>1, LotsNat, SizeAssumption
<1> QED BY <1>1, <1>2, <1>3 DEF Updates

LEMMA SendsBoolean == Sends \subseteq BOOLEAN
BY DEF Sends

LEMMA TicksTyped ==
  ASSUME Inv, NEW latest \in SUBSET [healthy : BOOLEAN, inv : Int, orders : SUBSET Oids],
         NEW ripe \in SUBSET MarkoutRecords,
         NEW t \in Ticks(latest, ripe), t.found \in SeenOpen(probe, t.latest.orders)
  PROVE  t \in TickRecords
<1>1. ProbeOids(probe) \subseteq Oids /\ NoOid \in Oids
  BY OidValues DEF Inv, TypeOK, ProbeRecords, ProbeOids
<1>2. t.found \in Oids
  BY <1>1 DEF SeenOpen
<1>3. /\ t.view \in Views /\ t.pace \in {"recent", "spaced", "periodic"}
      /\ t.due \in SUBSET MarkoutRecords /\ t.send \in Sends /\ t.keep \in BOOLEAN
      /\ t.latest \in latest
      /\ t = [view |-> t.view, pace |-> t.pace, due |-> t.due, send |-> t.send,
              keep |-> t.keep, latest |-> t.latest, found |-> t.found]
  <2>1. Paces \subseteq {"recent", "spaced", "periodic"}
    BY DEF Paces
  <2> QED BY <2>1 DEF Ticks
<1>4. t.view \in {"none", "unfit", "good", "eligible"}
  <2>1. Views \subseteq {"none", "unfit", "good", "eligible"}
    BY DEF Views
  <2> QED BY <1>3, <2>1
<1> QED BY <1>2, <1>3, <1>4, SendsBoolean DEF TickRecords

LEMMA SnapshotsTyped ==
  ASSUME Inv
  PROVE  Snapshots \in SUBSET [healthy : BOOLEAN, inv : Int, orders : SUBSET Oids]
<1>1. NoSnapshot \in [healthy : BOOLEAN, inv : Int, orders : SUBSET Oids]
  BY DEF NoSnapshot
<1>2. ASSUME NEW s \in [healthy : {TRUE}, inv : 0 .. Size, orders : SUBSET IssuedOids]
      PROVE  s \in [healthy : BOOLEAN, inv : Int, orders : SUBSET Oids]
  <2>1. IssuedOids \subseteq Oids
    BY IssuedOidsOids
  <2>2. s.orders \in SUBSET Oids /\ s.inv \in Int /\ s.healthy \in BOOLEAN
    <3>1. s.orders \in SUBSET IssuedOids /\ s.inv \in 0 .. Size /\ s.healthy = TRUE
      OBVIOUS
    <3>2. s.orders \in SUBSET Oids
      BY <2>1, <3>1, Zenon
    <3>3. s.inv \in Int
      BY <3>1
    <3>4. s.healthy \in BOOLEAN
      BY <3>1, Zenon
    <3> QED BY <3>2, <3>3, <3>4
  <2>3. s = [healthy |-> s.healthy, inv |-> s.inv, orders |-> s.orders]
    OBVIOUS
  <2> QED BY <2>2, <2>3
<1>3. ASSUME NEW s \in Snapshots, s # NoSnapshot
      PROVE  s \in [healthy : {TRUE}, inv : 0 .. Size, orders : SUBSET IssuedOids]
  <2>1. 0 \in 0 .. Size
    BY LotsNat DEF Lots
  <2>2. CASE rest.stale
    BY <1>3, <2>1, <2>2 DEF Snapshots
  <2>3. CASE ~rest.stale
    BY <1>3, <2>3 DEF Snapshots
  <2> QED BY <2>2, <2>3
<1> QED BY <1>1, <1>2, <1>3

LEMMA TimerTickInv ==
  ASSUME Inv, NEW latest \in SUBSET [healthy : BOOLEAN, inv : Int, orders : SUBSET Oids],
         NEW ripe \in SUBSET MarkoutRecords, TimerTick(latest, ripe)
  PROVE  Inv'
<1>1. PICK t \in Ticks(latest, ripe), fuel \in Fuel :
        /\ t.found \in SeenOpen(probe, t.latest.orders)
        /\ Become(Timer(Self(fuel), t))
  BY DEF TimerTick
<1>2. t \in TickRecords
  BY <1>1, TicksTyped
<1>3. Timer(Self(fuel), t) \in Contexts
  BY <1>2, FuelNat, SelfContext, TimerContext
<1> QED BY <1>1, <1>3, BecomeInv

LEMMA InvInit == Init => Inv
<1> SUFFICES ASSUME Init PROVE Inv
  OBVIOUS
<1>1. probe \in ProbeRecords /\ WaitsCanTimeOut /\ PhasesMatchProgress
  BY NoProbeGood DEF Init, GoodProbes, WaitsCanTimeOut, PhasesMatchProgress
<1>2. account \in AccountRecords /\ shutdown \in ShutdownRecords /\ issued \in Counters
  BY DEF Init, AccountRecords, ShutdownRecords, Counters
<1>3. rest \in RestRecords /\ OneRequest(rest)
  BY DEF Init, RestRecords, OneRequest
<1> QED BY <1>1, <1>2, <1>3 DEF Init, Inv, TypeOK

\* A step that leaves the probe alone leaves what is said of it alone.
LEMMA ProbeKept ==
  ASSUME Inv, UNCHANGED probe
  PROVE  WaitsCanTimeOut' /\ PhasesMatchProgress'
BY DEF Inv, WaitsCanTimeOut, PhasesMatchProgress

LEMMA InvStep == Inv /\ [Next]_vars => Inv'
<1> SUFFICES ASSUME Inv, [Next]_vars PROVE Inv'
  OBVIOUS
<1>1. CASE PostFrame
  <2>1. PICK request \in wire, fuel \in Fuel, outcome \in Outcomes :
          Become(PostResponse(Frame(fuel), request, outcome))
    BY <1>1 DEF PostFrame, Outcomes
  <2>2. request \in Requests
    BY DEF Inv, TypeOK
  <2>3. PostResponse(Frame(fuel), request, outcome) \in Contexts
    BY <2>2, FrameContext, PostResponseContext
  <2> QED BY <2>1, <2>3, BecomeInv
<1>2. CASE OrderUpdateFrame
  <2>1. PICK u \in OrderUpdates, fuel \in Fuel : Become(OrderUpdate(Frame(fuel), u))
    BY <1>2 DEF OrderUpdateFrame
  <2>2. u \in Updates
    BY UpdatesTyped
  <2>3. OrderUpdate(Frame(fuel), u) \in Contexts
    BY <2>2, FrameContext, OrderUpdateContext
  <2> QED BY <2>1, <2>3, BecomeInv
<1>3. CASE UserFillFrame
  <2>1. PICK f \in UserFills, send \in Sends, fuel \in Fuel :
          Become(UserFill(Frame(fuel), f, send))
    BY <1>3 DEF UserFillFrame
  <2>2. f \in Fills
    BY IssuedOidsOids, SizeAssumption, BoundsAssumption DEF UserFills, Fills
  <2>3. UserFill(Frame(fuel), f, send) \in Contexts
    BY <2>2, SendsBoolean, FrameContext, UserFillContext
  <2> QED BY <2>1, <2>3, BecomeInv
<1>4. CASE ClearinghouseFrame
  <2>1. PICK inv \in 1 .. Size, fuel \in Fuel : Become(Clearinghouse(Frame(fuel), inv))
    BY <1>4 DEF ClearinghouseFrame
  <2>2. inv \in Int
    OBVIOUS
  <2>3. Clearinghouse(Frame(fuel), inv) \in Contexts
    BY <2>2, FrameContext, ClearinghouseContext
  <2> QED BY <2>1, <2>3, BecomeInv
<1>5. CASE RestPublish
  <2>1. PICK fuel \in Fuel :
          /\ rest' = IF fuel = 0 THEN [rest EXCEPT !.worker = "gone"]
                     ELSE [rest EXCEPT !.worker = "idle", !.unread = TRUE]
          /\ writerUp' = (writerUp /\ fuel > 0)
    BY <1>5 DEF RestPublish
  <2>2. rest.worker = "reading" /\ rest \in RestRecords /\ OneRequest(rest)
    BY <1>5 DEF RestPublish, Inv, TypeOK
  <2>3. rest' \in RestRecords /\ OneRequest(rest')
    BY <2>1, <2>2 DEF RestRecords, OneRequest
  <2>4. writerUp' \in BOOLEAN
    BY <2>1
  <2>5. UNCHANGED <<probe, account, markouts, seen, cooling, shutdown, wire, issued>>
    BY <1>5 DEF RestPublish
  <2> QED BY <2>3, <2>4, <2>5, ProbeKept DEF Inv, TypeOK
<1>6. CASE TimerTick(IF rest.unread THEN Snapshots ELSE {NoSnapshot}, markouts)
  <2> DEFINE latest == IF rest.unread THEN Snapshots ELSE {NoSnapshot}
  <2>1. latest \in SUBSET [healthy : BOOLEAN, inv : Int, orders : SUBSET Oids]
    BY SnapshotsTyped DEF NoSnapshot
  <2>2. markouts \in SUBSET MarkoutRecords
    BY DEF Inv, TypeOK
  <2>3. TimerTick(latest, markouts)
    BY <1>6
  <2> HIDE DEF latest
  <2> QED BY <2>1, <2>2, <2>3, TimerTickInv
<1>7. CASE RequestLost
  BY <1>7, ProbeKept DEF RequestLost, Inv, TypeOK
<1>8. CASE Reconnect
  <2>1. PICK fuel \in Fuel : Become(PrivateReconnect(Self(fuel)))
    BY <1>8 DEF Reconnect
  <2>2. PrivateReconnect(Self(fuel)) \in Contexts
    BY FuelNat, SelfContext, PrivateReconnectContext
  <2> QED BY <2>1, <2>2, BecomeInv
<1>9. CASE Elapse
  <2>1. Waiting(probe) /\ probe' = [probe EXCEPT !.late = TRUE] /\ probe \in ProbeRecords
    BY <1>9 DEF Elapse, Inv, TypeOK
  <2>2. probe' \in ProbeRecords
    BY <2>1 DEF ProbeRecords
  <2>3. CanTimeOut(probe') /\ MatchesProgress(probe')
    BY <2>1 DEF Inv, WaitsCanTimeOut, PhasesMatchProgress, CanTimeOut, MatchesProgress,
                Waiting, ProbeRecords
  <2> QED BY <1>9, <2>2, <2>3 DEF Elapse, Inv, TypeOK, WaitsCanTimeOut,
                                   PhasesMatchProgress
<1>10. CASE CoolDown
  BY <1>10, ProbeKept DEF CoolDown, Inv, TypeOK
<1>11. CASE Signal
  <2>1. shutdown' \in ShutdownRecords
    BY <1>11 DEF Signal, Inv, TypeOK, ShutdownRecords
  <2> QED BY <1>11, <2>1, ProbeKept DEF Signal, Inv, TypeOK
<1>12. CASE RestTake
  <2>1. rest \in RestRecords /\ OneRequest(rest) /\ rest.worker = "idle" /\ rest.queued
    BY <1>12 DEF RestTake, Inv, TypeOK
  <2>2. rest' \in RestRecords /\ OneRequest(rest')
    BY <1>12, <2>1 DEF RestTake, RestRecords, OneRequest
  <2> QED BY <1>12, <2>2, ProbeKept DEF RestTake, Inv, TypeOK
<1>13. CASE UNCHANGED vars
  BY <1>13, ProbeKept DEF vars, Inv, TypeOK
<1> QED BY <1>1, <1>2, <1>3, <1>4, <1>5, <1>6, <1>7, <1>8, <1>9, <1>10, <1>11, <1>12, <1>13
        DEF Next, Internal

\* Type correctness for any order size, number of probes, flattens and trades,
\* and any set of faults.
THEOREM TypeCorrect == Spec => []TypeOK
<1>1. Inv => TypeOK
  BY DEF Inv
<1> QED BY InvInit, InvStep, <1>1, PTL DEF Spec

\* No order of responses, updates, fills, reconnects and reads leaves the probe in a
\* wait that evaluate_active_probe cannot time out.
THEOREM WaitsCorrect == Spec => []WaitsCanTimeOut
<1>1. Inv => WaitsCanTimeOut
  BY DEF Inv
<1> QED BY InvInit, InvStep, <1>1, PTL DEF Spec

\* Nor does it take the probe back to a phase that its fills and its order have
\* already left behind.
THEOREM PhasesCorrect == Spec => []PhasesMatchProgress
<1>1. Inv => PhasesMatchProgress
  BY DEF Inv
<1> QED BY InvInit, InvStep, <1>1, PTL DEF Spec
=============================================================================
