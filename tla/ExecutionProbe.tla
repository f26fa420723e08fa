--------------------------- MODULE ExecutionProbe ---------------------------
(***************************************************************************)
(* The ExecutionProbe strategy of execution_probe_module/base.rs: at most  *)
(* one maker order at a time is placed, watched, cancelled or filled, its  *)
(* markouts are sampled, the inventory is flattened, and everything is     *)
(* reconciled against REST snapshots.                                      *)
(*                                                                         *)
(* The strategy is single-threaded (&mut self): one callback is one step.  *)
(* A callback is written as a function of a context `c', a record of the   *)
(* variables plus                                                          *)
(*   fuel   how many more records the telemetry writer accepts,            *)
(*   err    an Err is being propagated by `?': nothing below it runs.      *)
(* The exchange, the market and the clock are open: any message about an   *)
(* order that was sent may arrive, in any order and number.                *)
(***************************************************************************)
EXTENDS Integers, FiniteSets

CONSTANTS Size,          \* lots of a probe order
          MaxInventory,  \* lots that max_abs_inventory_usd buys (the hard guard)
          MaxProbes,     \* bound: probe_sequence
          MaxFlattens,   \* bound: flatten actions sent
          MaxTrades,     \* bound: distinct trades of one order
          Faults         \* bound: which of the faults below may happen

ASSUME SizeAssumption == Size \in Nat \ {0}
ASSUME GuardAssumption == MaxInventory \in Nat /\ MaxInventory >= Size
ASSUME BoundsAssumption == MaxProbes \in Nat /\ MaxFlattens \in Nat /\ MaxTrades \in Nat

\* The telemetry writer stops, a websocket write fails, the private feed
\* reconnects, a request or answer on the action websocket is lost, the process
\* is asked to stop.
ASSUME FaultsAssumption == Faults \subseteq {"writer", "send", "reconnect", "loss", "signal"}

VARIABLES probe,     \* active_probe; phase "Absent" is None
          account,   \* AccountState: inventory, whether orders are open, ever healthy
          markouts,  \* pending_markouts
          seen,      \* seen_fill_ids
          cooling,   \* now < cooldown_until_ns
          rest,      \* rest_request_gate, request channel, worker, watch channel
          shutdown,  \* the shutdown flags and the watch signal
          wire,      \* unanswered action requests <<kind, order, lots>>; a cancel
                     \* that repeats an unanswered one adds nothing: cancelling the
                     \* same order again changes nothing at the exchange
          issued,    \* probe_sequence and the number of flatten actions
          writerUp   \* the storage channel is open

vars == <<probe, account, markouts, seen, cooling, rest, shutdown, wire, issued, writerUp>>

Phases == {"Absent", "PlacePending", "PostAccepted", "Resting", "Partial", "CancelPending",
           "Filled", "MarkoutPending", "FlattenPending", "Recovering"}
Oids == {"none", "maker", "flatten"} \X Nat
NoOid == <<"none", 0>>
Lots == 0 .. Size
Maker(k) == <<"maker", k>>
Flatten(n) == <<"flatten", n>>

\* rem, cum: remaining_size, cumulative_filled_size.  opened: open_monotonic_ns is Some.
\* armed: which of post_accepted, cancel_send and flatten_send times are Some.
\* late: the deadline that the current phase compares with the clock has passed.
\* terminal: terminal_order_update time, "stale" when older than the last cancel.
NoProbe == [id |-> 0, phase |-> "Absent", oid |-> NoOid, rem |-> 0, cum |-> 0,
            opened |-> FALSE, cancelReq |-> FALSE, flatReq |-> 0, flatOid |-> NoOid,
            terminal |-> "none", armed |-> {}, late |-> FALSE]
NewProbe(k) == [NoProbe EXCEPT !.id = k, !.phase = "PlacePending", !.rem = Size]

\* Nothing published, or nothing usable: AccountState of a failed read.
NoSnapshot == [healthy |-> FALSE, inv |-> 0, orders |-> {}]

Active(c) == c.probe.phase # "Absent"

-----------------------------------------------------------------------------
(* Contexts *)

RecordLimit == 7  \* no callback writes more records than this

Self(fuel) == [probe |-> probe, account |-> account, markouts |-> markouts, seen |-> seen,
               cooling |-> cooling, rest |-> rest, shutdown |-> shutdown, wire |-> wire,
               issued |-> issued, writerUp |-> writerUp, fuel |-> fuel, err |-> FALSE]

Become(context) ==
  \E c \in {context} :
    /\ c.issued.probes <= MaxProbes /\ c.issued.flattens <= MaxFlattens
    /\ probe' = c.probe /\ account' = c.account /\ markouts' = c.markouts
    /\ seen' = c.seen /\ cooling' = c.cooling /\ rest' = c.rest
    /\ shutdown' = c.shutdown /\ wire' = c.wire /\ issued' = c.issued
    /\ writerUp' = c.writerUp

Fuel == IF writerUp THEN (IF "writer" \in Faults THEN 0 .. RecordLimit ELSE {RecordLimit}) ELSE {0}

\* A writer that is up and cannot fail accepts any number of records.
Unlimited(c) == "writer" \notin Faults /\ c.fuel = RecordLimit

\* n records are offered to the writer and their results ignored.
Offer(c, n) == IF Unlimited(c) THEN c
               ELSE [c EXCEPT !.fuel = IF @ < n THEN 0 ELSE @ - n, !.writerUp = @ /\ c.fuel >= n]

\* Mutant: the result of the record is ignored.
RecordUnchecked(c, n) == IF c.err THEN c ELSE Offer(c, n)

\* storage.record(..).await?, n times
Record(c, n) == IF c.err \/ Unlimited(c) THEN c
                ELSE [Offer(c, n) EXCEPT !.err = c.fuel < n]

-----------------------------------------------------------------------------
(* Phases and deadlines *)

Enter(p, phase) == [p EXCEPT !.phase = phase, !.late = @ /\ p.phase = phase]

\* recovery_not_before_monotonic_ns = now
Recover(p) == [p EXCEPT !.phase = "Recovering", !.late = TRUE]

\* The phases that compare the clock with a deadline, when that deadline is set.
Waiting(p) == \/ p.phase \in {"PlacePending", "Recovering"}
              \/ p.phase = "PostAccepted" /\ "post" \in p.armed
              \/ p.phase = "CancelPending" /\ "cancel" \in p.armed
              \/ p.phase = "FlattenPending" /\ "flatten" \in p.armed
              \/ p.phase \in {"Resting", "Partial"} /\ p.opened

\* account.snapshot_monotonic_ns = received_ns: newer than a REST read under way.
Touch(c) == [c EXCEPT !.rest.stale = c.rest.worker = "reading" \/ c.rest.unread,
                      !.shutdown.snapshot = IF @ = "requested" THEN "fresh" ELSE @]

-----------------------------------------------------------------------------
(* REST requests *)

\* Mutant: the gate is not asked, only the request channel.
RequestQueued(c) == ~c.rest.queued /\ c.rest.worker # "gone"

RequestAccepted(c) == ~c.rest.pending /\ ~c.rest.queued /\ c.rest.worker # "gone"

\* try_begin, then try_send; a failed try_send completes the gate again.
RequestRest(c) == IF c.err \/ ~RequestAccepted(c) THEN c
                  ELSE [c EXCEPT !.rest.pending = TRUE, !.rest.queued = TRUE]

RequestThrottled(c, t) == IF t.pace = "recent" THEN c ELSE RequestRest(c)

-----------------------------------------------------------------------------
(* The end of a probe, cancels and flattens *)

\* The probe is taken before it is recorded, the cooldown starts after.
FinishProbe(c) ==
  IF c.err THEN c
  ELSE LET d == Record([c EXCEPT !.probe = NoProbe], 1)
       IN [d EXCEPT !.cooling = @ \/ ~d.err]

\* Mutant: zero inventory finishes the probe in any phase.
FinishWhenFlat(c) == IF Active(c) /\ c.account.inv = 0 THEN FinishProbe(c) ELSE c

MaybeFinishFlatten(c) ==
  IF c.probe.phase = "FlattenPending" /\ c.account.inv = 0 THEN FinishProbe(c) ELSE c

\* An action is written between its decision and its action record; the state
\* is updated even if a record failed, and the error is returned afterwards.
Dispatch(c, request, p, send) ==
  IF ~send THEN [Offer(c, 1) EXCEPT !.err = TRUE]
  ELSE [Offer(c, 2) EXCEPT !.wire = @ \cup {request}, !.probe = p, !.err = c.fuel < 2]

\* Mutant: the phase is asked instead of the request id.
CancelUnderWay(p) == p.phase = "CancelPending"

\* cancel_request_id.is_some(): the probe has asked for its cancel.
CancelAsked(p) == p.cancelReq

CancelActive(c, send) ==
  LET p == c.probe
      cancelled == [Enter(p, "CancelPending") EXCEPT
                      !.cancelReq = TRUE, !.armed = @ \cup {"cancel"},
                      !.terminal = IF @ = "current" THEN "stale" ELSE @]
  IN IF c.err \/ ~Active(c) THEN c
     ELSE IF p.oid = NoOid THEN RequestRest([c EXCEPT !.probe = Recover(p)])
     ELSE IF CancelAsked(p) THEN c
     ELSE Dispatch(c, <<"cancel", p.oid, 0>>, cancelled, send)

MaybeFlatten(c, risk, t) ==
  LET p == c.probe
      n == c.issued.flattens + 1
      flattening == [Enter(p, "FlattenPending") EXCEPT
                       !.flatReq = n, !.armed = @ \cup {"flatten"}]
      unsampled == \E m \in c.markouts : m.probe = p.id
  IN IF c.err \/ ~Active(c) \/ p.phase = "FlattenPending" \/ (~risk /\ unsampled) THEN c
     ELSE IF c.account.inv = 0
          THEN (IF p.cum > 0 THEN RequestThrottled(c, t) ELSE c)
     ELSE IF t.view = "none" THEN [c EXCEPT !.err = TRUE]
     ELSE Dispatch(IF t.send THEN [c EXCEPT !.issued.flattens = n] ELSE c,
                   <<"flatten", Flatten(n), c.account.inv>>, flattening, t.send)

-----------------------------------------------------------------------------
(* Responses on the action websocket *)

\* Mutants: the response decides the phase, whatever came before it.
RestingPostWins(p) == Enter(p, "PostAccepted")
FilledPostWins(p) == Enter(p, "Filled")

AfterRestingPost(p) == IF p.phase = "PlacePending" THEN Enter(p, "PostAccepted") ELSE p
AfterFilledPost(p) ==
  IF p.phase \in {"PlacePending", "PostAccepted", "Resting"} THEN Enter(p, "Filled") ELSE p

PlacePost(c, k, outcome) ==
  LET accepted == [c.probe EXCEPT !.oid = Maker(k), !.armed = @ \cup {"post"}]
  IN IF c.probe.id # k THEN Record(c, 1)  \* orphan or unmatched
     ELSE CASE outcome = "resting" -> Record([c EXCEPT !.probe = AfterRestingPost(accepted)], 1)
            [] outcome = "filled"  -> Record([c EXCEPT !.probe = AfterFilledPost(accepted)], 1)
            [] outcome = "rejected" -> FinishProbe(Record(c, 2))
            [] outcome = "error"    -> [c EXCEPT !.err = TRUE]

FlattenPost(c, n, outcome) ==
  LET r == Record(c, 1)
      bound == [r.probe EXCEPT !.flatOid = Flatten(n)]
      dropped == [r.probe EXCEPT !.flatReq = 0, !.armed = @ \ {"flatten"}]
      Retry(p) == RequestRest(Record([r EXCEPT !.probe = Recover(p)], 1))
  IN IF c.probe.flatReq # n THEN r
     ELSE IF outcome = "error" THEN [c EXCEPT !.err = TRUE]
     ELSE IF r.err THEN r
     ELSE CASE outcome = "filled"   -> [r EXCEPT !.probe = bound]
            [] outcome = "resting"  -> Retry(bound)
            [] outcome = "rejected" -> Retry(dropped)

\* A cancel response is recorded, or is an error; it never moves the probe.
CancelPost(c, outcome) ==
  IF outcome = "error" THEN [c EXCEPT !.err = TRUE] ELSE Record(c, 1)

PostResponse(c, request, outcome) ==
  LET d == [c EXCEPT !.wire = @ \ {request}]
  IN IF d.err THEN d
     ELSE CASE request[1] = "place"   -> PlacePost(d, request[2][2], outcome)
            [] request[1] = "flatten" -> FlattenPost(d, request[2][2], outcome)
            [] request[1] = "cancel"  -> CancelPost(d, outcome)

-----------------------------------------------------------------------------
(* Private feed: orderUpdates, userFills, clearinghouseState *)

\* Mutant: any maker order of ours is taken for the one of the active probe.
MatchesAny(c, oid) == Active(c) /\ oid[1] = "maker"

\* Matched by cloid, which is the maker order of this probe, or by oid.
Matches(c, oid) == Active(c) /\ oid \in {Maker(c.probe.id), c.probe.oid}

\* Mutant: open_monotonic_ns is not set.
OrderOpenUntimed(c, u) ==
  LET p == [c.probe EXCEPT !.oid = u.oid, !.rem = u.left, !.cum = u.filled]
  IN Record([c EXCEPT !.probe = Enter(p, IF u.filled > 0 THEN "Partial" ELSE "Resting")], 1)

OrderOpen(c, u) ==
  LET p == [c.probe EXCEPT !.oid = u.oid, !.rem = u.left, !.cum = u.filled, !.opened = TRUE]
      d == [c EXCEPT !.probe = Enter(p, IF u.filled > 0 THEN "Partial" ELSE "Resting")]
  IN IF c.probe.opened THEN d ELSE Record(d, 1)

\* Mutant: a difference is not kept from going below zero.
LargerUnclamped(a, b) == a

Larger(a, b) == IF a >= b THEN a ELSE b

\* A terminal update that leaves a fill to be marked out.
OrderDone(p, u) == [Enter(p, "MarkoutPending") EXCEPT
                      !.rem = 0, !.cum = Larger(@, u.filled), !.terminal = "current"]

OrderCancelled(c, u) ==
  LET r == Record(c, 1)
      settling == [r.probe EXCEPT !.phase = "Recovering", !.late = FALSE,
                                  !.rem = 0, !.terminal = "current"]
  IN IF r.err THEN r
     ELSE IF Larger(c.probe.cum, u.filled) > 0
          THEN [r EXCEPT !.probe = OrderDone(@, u)]
          ELSE Record([r EXCEPT !.probe = settling], 1)

OrderUpdate(c, u) ==
  IF c.err \/ ~Matches(c, u.oid) THEN c
  ELSE CASE u.status = "open"     -> OrderOpen(c, u)
         [] u.status = "filled"   -> [c EXCEPT !.probe = OrderDone([@ EXCEPT !.oid = u.oid], u)]
         [] u.status = "canceled" -> OrderCancelled(c, u)
         [] u.status = "rejected" -> FinishProbe(Record(c, 1))

FillId(f) == <<f.oid, f.trade>>

FlattenFill(c, f) ==
  LET d == Record(Touch([c EXCEPT !.account.inv = @ + f.sign * f.size]), 1)
      e == IF d.err THEN d ELSE MaybeFinishFlatten(d)
  IN IF Active(e) THEN RequestRest(e) ELSE e

MakerFill(c, f, send) ==
  LET left == Larger(c.probe.rem - f.size, 0)
      p == [c.probe EXCEPT !.cum = @ + f.size, !.rem = left,
                           !.terminal = IF left > 0 THEN @ ELSE "current"]
      d == Touch([c EXCEPT !.probe = Enter(p, IF left > 0 THEN "Partial" ELSE "MarkoutPending"),
                           !.account.inv = @ + f.size,
                           !.markouts = @ \cup {[probe |-> p.id, fill |-> FillId(f),
                                                 done |-> FALSE]}])
      e == RequestRest(Record(d, 1))
  IN IF left > 0 /\ ~p.cancelReq THEN CancelActive(e, send) ELSE Record(e, 1)

UserFill(c, f, send) ==
  LET d == [c EXCEPT !.seen = @ \cup {FillId(f)}]
  IN IF c.err \/ FillId(f) \in c.seen THEN c
     ELSE IF Active(c) /\ c.probe.flatOid = f.oid THEN FlattenFill(d, f)
     ELSE IF Active(c) /\ c.probe.oid = f.oid THEN MakerFill(d, f, send)
     ELSE Record(d, 1)

Clearinghouse(c, inv) ==
  IF c.err THEN c ELSE MaybeFinishFlatten(Touch([c EXCEPT !.account.inv = inv]))

\* connect_feed of the private feed, from the second connection on
PrivateReconnect(c) ==
  Record([c EXCEPT !.probe.terminal = "none"], 1)

-----------------------------------------------------------------------------
(* The timer.  A tick `t' carries what the callback reads of its surroundings: *)
(*   view   "none": no valid HL book; "unfit": a resting order must be pulled  *)
(*          (stale data, price guard, writer backpressure); "good"; "eligible":*)
(*          every market and account condition for a new probe also holds      *)
(*   pace   time since the last REST request: "recent" (under 1 s), "spaced",  *)
(*          "periodic" (account_snapshot_interval_sec)                         *)
(*   due    pending markouts whose last horizon has passed                     *)
(*   send   whether a websocket write succeeds                                 *)
(*   keep   a KEEP decision is due                                             *)
(*   latest what the REST worker published last                                *)
(*   found  the order of this probe that `latest' lists first                  *)

ProbeOids(p) == {p.oid, p.flatOid, Maker(p.id)} \ {NoOid}
SeenOpen(p, orders) == IF ProbeOids(p) \cap orders = {} THEN {NoOid} ELSE ProbeOids(p) \cap orders

Sends == IF "send" \in Faults THEN BOOLEAN ELSE {TRUE}

\* What a callback in this state does not look at is not varied.
Views == CASE probe.phase = "Absent" -> {"good", "eligible"}
           [] probe.phase \in {"Resting", "Partial"} -> {"none", "unfit", "good"}
           [] OTHER -> {"none", "good"}

Paces == IF rest.pending /\ ~rest.unread THEN {"spaced"}
         ELSE IF probe.phase \in {"Filled", "MarkoutPending", "Recovering"} \/ shutdown.signal
         THEN {"recent", "spaced", "periodic"}
         ELSE {"spaced", "periodic"}

Ticks(latest, ripe) ==
         [view : Views, pace : Paces,
          due : SUBSET {m \in ripe : ~m.done},
          send : Sends,
          keep : IF "writer" \in Faults THEN BOOLEAN ELSE {FALSE},
          latest : latest,
          found : UNION {SeenOpen(probe, l.orders) : l \in latest}]

Reconcile(c, t) ==
  LET p == c.probe
      reopened == [p EXCEPT !.oid = t.found, !.cancelReq = FALSE]
      residual == [Enter(p, "MarkoutPending") EXCEPT
                     !.rem = 0, !.flatReq = 0, !.armed = @ \ {"flatten"}]
  IN IF ~Active(c) THEN c
     ELSE IF p.phase # "Recovering" THEN MaybeFinishFlatten(c)
     ELSE IF ~p.late THEN c
     ELSE IF t.found # NoOid THEN CancelActive([c EXCEPT !.probe = reopened], t.send)
     ELSE IF c.account.inv # 0 /\ p.cum > 0 THEN [c EXCEPT !.probe = residual]
     ELSE FinishProbe(c)

\* Mutant: complete() is forgotten.
TakeOverOnly(c) == [c EXCEPT !.rest.unread = FALSE, !.rest.stale = FALSE]

\* borrow_and_update, then complete() on the gate
TakeOver(c) == [c EXCEPT !.rest.unread = FALSE, !.rest.pending = FALSE, !.rest.stale = FALSE]

\* An older snapshot than the account is dropped; an unhealthy one makes the
\* shutdown ask again.
RefreshAccount(c, t) ==
  LET d == TakeOver(c)
      adopted == [d EXCEPT
                    !.account = [inv |-> t.latest.inv, open |-> t.latest.orders # {},
                                 healthy |-> TRUE],
                    !.shutdown.snapshot = IF @ = "requested" THEN "fresh" ELSE @]
  IN IF ~c.rest.unread \/ c.rest.worker = "gone" THEN c
     ELSE IF ~t.latest.healthy THEN Record([d EXCEPT !.shutdown.snapshot = "none"], 1)
     ELSE IF c.rest.stale THEN d
     ELSE Reconcile(adopted, t)

\* The samples that are due are recorded together; a mark that was counted but
\* not recorded stays until the next tick drops it.
SampleMarkouts(c, t) ==
  LET due == {m \in c.markouts : m \in t.due /\ ~m.done}
      kept == {m \in c.markouts : m \notin t.due /\ ~m.done}
      counted == {[m EXCEPT !.done = TRUE] : m \in due}
      r == Record(c, IF due = {} THEN 0 ELSE 1)
  IN IF c.err THEN c
     ELSE IF r.err THEN [r EXCEPT !.markouts = (@ \ due) \cup counted]
     ELSE [r EXCEPT !.markouts = kept]

WsConfirmsFlat(c) == /\ c.probe.terminal = "current"
                     /\ c.probe.rem = 0 /\ c.probe.cum = 0
                     /\ c.account.healthy /\ c.account.inv = 0

\* The hard inventory guard does not wait for markouts.
GuardInventory(c, t) ==
  IF c.err \/ t.view = "none" \/ c.account.inv \in -MaxInventory .. MaxInventory THEN c
  ELSE MaybeFlatten([c EXCEPT !.markouts = {}], TRUE, t)

EvaluateResting(c, t) ==
  IF t.view \in {"none", "unfit"} \/ c.probe.late THEN CancelActive(c, t.send)
  ELSE GuardInventory(Record(c, IF t.keep THEN 1 ELSE 0), t)

EvaluateActive(c, t) ==
  LET p == c.probe
  IN IF c.err \/ ~Active(c) THEN c
     ELSE IF p.late /\ p.phase \in {"PlacePending", "PostAccepted",
                                    "CancelPending", "FlattenPending"}
          THEN Record(RequestRest([c EXCEPT !.probe = Recover(p)]), 1)
     ELSE IF p.late /\ p.phase = "Recovering"
          THEN (IF WsConfirmsFlat(c) THEN FinishProbe(Record(c, 1))
                ELSE GuardInventory(RequestThrottled(c, t), t))
     ELSE IF p.phase \in {"Resting", "Partial"} THEN EvaluateResting(c, t)
     ELSE IF p.phase \in {"MarkoutPending", "Filled"}
          THEN GuardInventory(MaybeFlatten(c, FALSE, t), t)
     ELSE GuardInventory(c, t)

\* Mutant: the inventory that is left is not looked at.
MayStartHolding(c, t) == /\ t.view = "eligible" /\ ~c.cooling /\ c.markouts = {}
                         /\ c.account.healthy /\ ~c.account.open

MayStart(c, t) == /\ t.view = "eligible" /\ ~c.cooling /\ c.markouts = {}
                  /\ c.account.healthy /\ ~c.account.open /\ c.account.inv = 0

\* The probe becomes active only after its action record is accepted.
StartProbe(c, t) ==
  LET k == c.issued.probes + 1
      r == Record([c EXCEPT !.issued.probes = k], 1)
      a == Record([r EXCEPT !.wire = @ \cup {<<"place", Maker(k), Size>>}], 1)
  IN IF c.err \/ Active(c) \/ ~MayStart(c, t) THEN c
     ELSE IF r.err THEN r
     ELSE IF ~t.send THEN [r EXCEPT !.err = TRUE]
     ELSE IF a.err THEN a
     ELSE [a EXCEPT !.probe = NewProbe(k)]

StopRequested(c) ==
  IF c.shutdown.started THEN c
  ELSE [Offer(c, IF c.markouts = {} THEN 1 ELSE 2) EXCEPT
          !.shutdown.started = TRUE, !.markouts = {}]

\* Mutant: the final snapshot is requested but not awaited.
StopAtOnce(c) ==
  CASE c.shutdown.snapshot = "none" /\ RequestAccepted(c) ->
         [RequestRest(c) EXCEPT !.shutdown.snapshot = "requested"]
    [] c.shutdown.snapshot # "none" /\ ~c.shutdown.notified ->
         [Offer(c, 1) EXCEPT !.shutdown.notified = TRUE]
    [] OTHER -> c

\* With no probe left: one more REST snapshot, then the acknowledgement.
StopWhenIdle(c) ==
  CASE c.shutdown.snapshot = "none" /\ RequestAccepted(c) ->
         [RequestRest(c) EXCEPT !.shutdown.snapshot = "requested"]
    [] c.shutdown.snapshot = "fresh" /\ ~c.shutdown.notified ->
         [Offer(c, 1) EXCEPT !.shutdown.notified = TRUE]
    [] OTHER -> c

DriveShutdown(c, t) ==
  LET d == StopRequested(c)
      e == EvaluateActive(d, t)
      phase == d.probe.phase
  IN CASE phase \in {"Resting", "Partial", "PostAccepted"} -> CancelActive(d, t.send)
       [] phase = "PlacePending" -> RequestThrottled([d EXCEPT !.probe = Recover(@)], t)
       [] phase \in {"Filled", "MarkoutPending"} -> MaybeFlatten(d, TRUE, t)
       [] phase \in {"CancelPending", "FlattenPending", "Recovering"} ->
            (IF Active(e) THEN RequestThrottled(e, t) ELSE e)
       [] phase = "Absent" -> StopWhenIdle(d)

Timer(c, t) ==
  LET r == RefreshAccount(c, t)
      p == IF t.pace = "periodic" THEN RequestRest(r) ELSE r
  IN IF r.err THEN r
     ELSE IF c.shutdown.signal THEN DriveShutdown(r, t)
     ELSE StartProbe(EvaluateActive(SampleMarkouts(p, t), t), t)

-----------------------------------------------------------------------------
(* Steps *)

\* initialize_module: the process_start request is already with the worker.
Init == /\ probe = NoProbe
        /\ account = [inv |-> 0, open |-> FALSE, healthy |-> FALSE]
        /\ markouts = {} /\ seen = {} /\ cooling = FALSE
        /\ rest = [pending |-> TRUE, queued |-> TRUE, worker |-> "idle", unread |-> FALSE,
                   stale |-> FALSE]
        /\ shutdown = [signal |-> FALSE, started |-> FALSE, snapshot |-> "none",
                       notified |-> FALSE]
        /\ wire = {} /\ issued = [probes |-> 0, flattens |-> 0] /\ writerUp = TRUE

Flattens(n) == {Flatten(k) : k \in 1 .. n}
IssuedOids == {Maker(k) : k \in 1 .. issued.probes} \cup Flattens(issued.flattens)

\* handle_raw_frame records a frame before it looks at it.
Frame(fuel) == Record(Self(fuel), 1)

PostFrame == \E request \in wire, fuel \in Fuel,
                outcome \in {"resting", "filled", "rejected", "error"} :
               Become(PostResponse(Frame(fuel), request, outcome))

\* sz and origSz of an update agree with its status.
OrderUpdates == {u \in [oid : IssuedOids, status : {"open", "filled", "canceled", "rejected"},
                        filled : Lots, left : Lots] :
                   /\ u.filled + u.left = Size
                   /\ u.status = "open" => u.left > 0
                   /\ u.status = "filled" => u.left = 0}

OrderUpdateFrame == \E u \in OrderUpdates, fuel \in Fuel :
                      Become(OrderUpdate(Frame(fuel), u))

UserFills == [oid : IssuedOids, trade : 1 .. MaxTrades, size : 1 .. Size, sign : {-1, 1}]

UserFillFrame == \E f \in UserFills, send \in Sends, fuel \in Fuel :
                   /\ f.oid[1] = "maker" => f.sign = 1
                   /\ Become(UserFill(Frame(fuel), f, send))

\* A flat account has no position entry, and the frame is ignored.
ClearinghouseFrame == \E inv \in 1 .. Size, fuel \in Fuel :
                        Become(Clearinghouse(Frame(fuel), inv))

Reconnect == /\ "reconnect" \in Faults
             /\ \E fuel \in Fuel : Become(PrivateReconnect(Self(fuel)))

\* The first order of the snapshot that belongs to the probe is picked by the tick.
TimerTick(latest, ripe) ==
  \E t \in Ticks(latest, ripe), fuel \in Fuel :
    /\ t.found \in SeenOpen(probe, t.latest.orders)
    /\ Become(Timer(Self(fuel), t))

\* A reconnect of the action websocket loses a request or its answer.
RequestLost == \E request \in wire :
                 /\ "loss" \in Faults
                 /\ wire' = wire \ {request}
                 /\ UNCHANGED <<probe, account, markouts, seen, cooling, rest, shutdown, issued,
                                writerUp>>

\* Time passes the deadline of the current phase.
Elapse == /\ Waiting(probe) /\ ~probe.late
          /\ probe' = [probe EXCEPT !.late = TRUE]
          /\ UNCHANGED <<account, markouts, seen, cooling, rest, shutdown, wire, issued, writerUp>>

CoolDown == /\ cooling /\ cooling' = FALSE
            /\ UNCHANGED <<probe, account, markouts, seen, rest, shutdown, wire, issued, writerUp>>

Signal == /\ "signal" \in Faults /\ ~shutdown.signal
          /\ shutdown' = [shutdown EXCEPT !.signal = TRUE]
          /\ UNCHANGED <<probe, account, markouts, seen, cooling, rest, wire, issued, writerUp>>

RestTake == /\ rest.worker = "idle" /\ rest.queued
            /\ rest' = [rest EXCEPT !.queued = FALSE, !.worker = "reading", !.stale = FALSE]
            /\ UNCHANGED <<probe, account, markouts, seen, cooling, shutdown, wire, issued,
                           writerUp>>

\* The snapshot is recorded before it is published; without a writer the worker ends.
RestPublish ==
  /\ rest.worker = "reading"
  /\ \E fuel \in Fuel :
       /\ rest' = IF fuel = 0 THEN [rest EXCEPT !.worker = "gone"]
                  ELSE [rest EXCEPT !.worker = "idle", !.unread = TRUE]
       /\ writerUp' = (writerUp /\ fuel > 0)
  /\ UNCHANGED <<probe, account, markouts, seen, cooling, shutdown, wire, issued>>

\* What an unhealthy or outdated snapshot holds is not looked at, and of the
\* orders at most one is.
Snapshots == [healthy : {TRUE}, inv : IF rest.stale THEN {0} ELSE 0 .. Size,
              orders : {{}} \cup (IF rest.stale THEN {} ELSE {{oid} : oid \in IssuedOids})]
             \cup {NoSnapshot}

\* Steps that do not depend on what the exchange answers.
Internal == RequestLost \/ Reconnect \/ Elapse \/ CoolDown \/ Signal \/ RestTake

Next == \/ PostFrame \/ OrderUpdateFrame \/ UserFillFrame \/ ClearinghouseFrame
        \/ RestPublish \/ TimerTick(IF rest.unread THEN Snapshots ELSE {NoSnapshot}, markouts)
        \/ Internal

Spec == Init /\ [][Next]_vars

-----------------------------------------------------------------------------
(* Properties *)

ProbeRecords == [id : Nat, phase : Phases, oid : Oids, rem : Lots, cum : Nat,
                 opened : BOOLEAN, cancelReq : BOOLEAN, flatReq : Nat, flatOid : Oids,
                 terminal : {"none", "current", "stale"},
                 armed : SUBSET {"post", "cancel", "flatten"}, late : BOOLEAN]
AccountRecords == [inv : Int, open : BOOLEAN, healthy : BOOLEAN]
MarkoutRecords == [probe : Nat, fill : Oids \X Nat, done : BOOLEAN]
RestRecords == [pending : BOOLEAN, queued : BOOLEAN, worker : {"idle", "reading", "gone"},
                unread : BOOLEAN, stale : BOOLEAN]
ShutdownRecords == [signal : BOOLEAN, started : BOOLEAN,
                    snapshot : {"none", "requested", "fresh"}, notified : BOOLEAN]
Requests == {"place", "cancel", "flatten"} \X Oids \X Int
Counters == [probes : Nat, flattens : Nat]

\* Every variable keeps the shape its Rust type gives it; remaining_size never
\* exceeds the order and cumulative_filled_size is never negative.
TypeOK == /\ probe \in ProbeRecords /\ account \in AccountRecords
          /\ markouts \in SUBSET MarkoutRecords /\ seen \in SUBSET (Oids \X Nat)
          /\ cooling \in BOOLEAN /\ rest \in RestRecords /\ shutdown \in ShutdownRecords
          /\ wire \in SUBSET Requests /\ issued \in Counters /\ writerUp \in BOOLEAN

CanTimeOut(p) ==
  /\ p.phase = "PostAccepted" => "post" \in p.armed /\ p.oid # NoOid
  /\ p.phase = "Resting" => p.opened
  /\ p.phase = "CancelPending" => "cancel" \in p.armed /\ p.cancelReq /\ p.oid # NoOid
  /\ p.phase = "FlattenPending" => "flatten" \in p.armed /\ p.flatReq > 0
  /\ p.late => Waiting(p)

\* A phase that waits for an answer of the exchange always has the request it
\* waits for and the time from which evaluate_active_probe counts its timeout:
\* no order of responses, rejections and recoveries leaves a wait without an end.
WaitsCanTimeOut == CanTimeOut(probe)

MatchesProgress(p) ==
  /\ p.phase \in {"PlacePending", "PostAccepted"} =>
       /\ ~p.opened /\ ~p.cancelReq /\ p.flatReq = 0 /\ p.rem = Size /\ p.terminal = "none"
  /\ p.phase \in {"PlacePending", "PostAccepted", "Resting", "Filled"} => p.cum = 0
  /\ p.phase = "MarkoutPending" => p.rem = 0 /\ p.cum > 0

\* PlacePending and PostAccepted are never re-entered: in them nothing later has
\* happened to the order.  No phase before a fill holds one, and MarkoutPending
\* holds a fill and no remainder, in whatever order messages arrive.  (Later phases
\* may be left for earlier ones: a late update reopens CancelPending, and takes
\* FlattenPending to MarkoutPending.)
PhasesMatchProgress == MatchesProgress(probe)

\* The REST gate is closed exactly while one request is queued, being read or
\* published but not taken over, so no two are ever under way and none gets lost
\* with the gate closed, except that the worker ends over a read: this closes the
\* gate for good, and happens only after the telemetry writer has stopped.
OneRequest(r) == /\ ~(r.queued /\ r.worker # "idle")
                 /\ ~(r.unread /\ (r.queued \/ r.worker # "idle"))
                 /\ r.pending <=> r.queued \/ r.worker # "idle" \/ r.unread
GateCountsOneRequest == OneRequest(rest) /\ (rest.worker = "gone" => ~writerUp)

\* Messages about an earlier probe never bind to the active one, however late:
\* its order id is its own maker order's or, after an IOC that rested, that of a
\* flatten it has sent; its flatten id is not of a later request than the one it
\* waits for; and every pending markout is of one fill, seen once, while this
\* probe held that order id.
OnlyOwnMessagesBind ==
  /\ probe.oid \in {NoOid, Maker(probe.id)} \cup Flattens(probe.flatOid[2])
  /\ probe.flatOid \in {NoOid} \cup Flattens(issued.flattens)
  /\ probe.flatReq > 0 => probe.flatReq \in probe.flatOid[2] .. issued.flattens
  /\ probe.phase # "Absent" => probe.id = issued.probes
  /\ \A m \in markouts : /\ m.fill \in seen
                         /\ m.fill[1] \in {Maker(m.probe)} \cup Flattens(issued.flattens)
                         /\ probe.phase # "Absent" => m.probe = probe.id
                         /\ \A n \in markouts : m.fill = n.fill => m = n

\* main is told that everything is reconciled only when the probe is gone and the
\* account is newer than the request for the final snapshot; no probe appears
\* later, although the callbacks go on until main aborts the runtime.
AcknowledgesWhenIdle ==
  [][shutdown'.notified => /\ probe'.phase = "Absent"
                           /\ shutdown.notified \/ shutdown'.snapshot = "fresh"]_vars

\* "maximum active probe: 1": an order is placed only when no probe is active or
\* cooling down, no shutdown is requested, and the account, as refreshed by the
\* same timer callback, is flat without open orders.
PlacesOnlyWhenIdle ==
  [][issued'.probes # issued.probes =>
       /\ probe.phase = "Absent" /\ ~cooling /\ ~shutdown.signal
       /\ account'.healthy /\ account'.inv = 0 /\ ~account'.open]_vars

\* A second cancel of the same probe is sent only by a recovery, in the callback
\* that takes over a REST snapshot which lists an open order.  (While the first is
\* unanswered, a second is seen by the phase that it moves the probe to.)
CancelSent == \/ \E r \in wire' \ wire : r[1] = "cancel"
              \/ probe.phase # "CancelPending" /\ probe'.phase = "CancelPending"
RecancelsOnlySeenOrders ==
  [][CancelSent =>
       \/ ~probe.cancelReq
       \/ /\ probe.phase = "Recovering" /\ probe.late
          /\ rest.unread /\ ~rest'.unread /\ account'.open]_vars

\* What private updates and the probe's own requests have told of it.
Known(p) == <<p.id, p.rem, p.cum, p.opened, p.terminal, p.cancelReq, p.flatReq, p.flatOid>>

\* A late place response never takes a probe back: it moves only the probe it
\* answers, to PostAccepted only from PlacePending, to Filled only from a phase
\* before the fills, and takes back nothing that private updates have told; a
\* refusal ends the probe (late_post_response_never_regresses_private_order_state).
LateResponseNeverRegresses ==
  [][\A k \in 1 .. issued.probes :
       (<<"place", Maker(k), Size>> \in wire \ wire' /\ probe'.phase # "Absent") =>
          /\ probe' # probe => k = probe.id
          /\ Known(probe') = Known(probe)
          /\ \/ probe'.phase = probe.phase
             \/ probe.phase = "PlacePending" /\ probe'.phase = "PostAccepted"
             \/ /\ probe.phase \in {"PlacePending", "PostAccepted", "Resting"}
                /\ probe'.phase = "Filled"]_vars

\* Without a telemetry writer no order is placed: a probe that cannot be recorded
\* is not run ("probe selection ... must be recorded", README.md).
PlacesAreRecorded == [][~writerUp => \A r \in wire' \ wire : r[1] # "place"]_vars
=============================================================================
