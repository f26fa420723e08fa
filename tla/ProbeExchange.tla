---------------------------- MODULE ProbeExchange ----------------------------
(***************************************************************************)
(* ExecutionProbe composed with the exchange it talks to: the action       *)
(* websocket, the matching of the probe's orders, the three private        *)
(* subscriptions, each delivered in order but not in step with the others  *)
(* or with the action websocket, and the two REST reads of one snapshot,   *)
(* which tokio::join! runs side by side.  The exchange is external code,   *)
(* modelled from how base.rs uses it; the handlers are ExecutionProbe's.   *)
(***************************************************************************)
EXTENDS ExecutionProbe, Sequences, SequencesExt

CONSTANTS InTurn,      \* whether actions are processed in the order they were written
          Shortfalls,  \* what an IOC may leave unsold: "some", "all" of its lots
          Timely,      \* whether deadlines pass only when no message is on its way
          RestTimely,  \* whether deadlines pass only when no REST request is under way
          InOrder,     \* whether the subscriptions keep their common order
          ResizeUpdates, \* whether a partial fill also yields an "open" update
          PositionFeed,  \* whether clearinghouseState frames arrive
          MaxLosses      \* bound: reconnects, lost requests and IOCs that fall short

ASSUME NetworkAssumption == /\ InTurn \in BOOLEAN /\ Shortfalls \subseteq {"some", "all"}
                            /\ Timely \in BOOLEAN /\ RestTimely \in BOOLEAN /\ InOrder \in BOOLEAN
                            /\ ResizeUpdates \in BOOLEAN /\ PositionFeed \in BOOLEAN
                            /\ MaxLosses \in Nat

VARIABLES book,      \* lots left of every order the exchange has seen; 0: not live
          line,      \* the unprocessed requests, in the order they were written
          position,  \* lots held
          answers,   \* outcome of the processed requests whose answer is on its way
          frames,    \* frames of the private feed on their way
          history,   \* all fills, replayed to a new userFills subscription
          snap,      \* what the REST worker has read so far
          losses     \* connections and requests lost, and IOCs that fell short

exVars == <<book, line, position, answers, frames, history, snap, losses>>
allVars == <<vars, exVars>>

NoRead == [got |-> {}, inv |-> 0, orders |-> {}]

Live(oid) == oid \in DOMAIN book /\ book[oid] > 0
LiveOids == {oid \in DOMAIN book : book[oid] > 0}

SetBook(oid, lots) ==
  [o \in DOMAIN book \cup {oid} |-> IF o = oid THEN lots ELSE book[o]]
Answer(request, outcome) ==
  [r \in DOMAIN answers \cup {request} |-> IF r = request THEN outcome ELSE answers[r]]
Forget(request) == [r \in DOMAIN answers \ {request} |-> answers[r]]

Update(oid, status, left) ==
  [kind |-> "update", oid |-> oid, status |-> status, filled |-> Size - left, left |-> left]
Fill(oid, trade, size, sign) ==
  [kind |-> "fill", oid |-> oid, trade |-> trade, size |-> size, sign |-> sign]

-----------------------------------------------------------------------------
(* The exchange *)

Pending(kind) == {r \in wire \ DOMAIN answers : r[1] = kind}
Due(kind) == {r \in Pending(kind) : InTurn => r = line[1]}

\* What a callback writes, at most a cancel and then a flatten, or one place, goes
\* to the end of the line; what was processed or lost leaves it.
Written(kind) == SetToSeq({r \in wire' \ wire : r[1] = kind})
Lined == line' = IF ~InTurn THEN <<>>
                 ELSE SelectSeq(line, LAMBDA r : r \in wire' \ DOMAIN answers')
                      \o Written("cancel") \o Written("flatten") \o Written("place")

\* A post-only order rests, or is refused because it would trade at once.
AcceptPlace == \E r \in Due("place") :
  /\ book' = SetBook(r[2], r[3])
  /\ answers' = Answer(r, "resting")
  /\ frames' = Append(frames, Update(r[2], "open", r[3]))
  /\ UNCHANGED <<vars, position, history, snap, losses>> /\ Lined

RejectPlace == \E r \in Due("place") :
  /\ book' = SetBook(r[2], 0)
  /\ answers' = Answer(r, "rejected")
  /\ UNCHANGED <<vars, position, frames, history, snap, losses>> /\ Lined

\* The answer to a cancel does not move the probe and is left out.  One that was
\* sent twice is processed once: it would find nothing live the second time.
ProcessCancel == \E r \in Due("cancel") :
  /\ IF Live(r[2])
     THEN /\ book' = SetBook(r[2], 0)
          /\ frames' = Append(frames, Update(r[2], "canceled", book[r[2]]))
     ELSE UNCHANGED <<book, frames>>
  /\ wire' = wire \ {r}
  /\ UNCHANGED <<probe, account, markouts, seen, cooling, rest, shutdown, issued, writerUp>>
  /\ UNCHANGED <<position, answers, history, snap, losses>> /\ Lined

\* A trade takes some of a resting maker order; its fill and the order update
\* are sent in either order.
Trade == \E oid \in LiveOids : \E size \in 1 .. book[oid] :
  LET left == book[oid] - size
      fill == Fill(oid, Size - left, size, 1)
      update == Update(oid, IF left = 0 THEN "filled" ELSE "open", left)
  IN /\ book' = SetBook(oid, left)
     /\ position' = position + size
     /\ history' = Append(history, fill)
     /\ IF left = 0 \/ ResizeUpdates
        THEN \E both \in {<<fill, update>>, <<update, fill>>} : frames' = frames \o both
        ELSE frames' = Append(frames, fill)
     /\ UNCHANGED <<vars, line, answers, snap, losses>>

\* What a reduce-only IOC may sell: never more than the position.
Sellable(r) == IF r[3] < position THEN r[3] ELSE position

\* It sells at once, or is refused, as a buy of a negative inventory always is.
Sell(r, lots) ==
  LET fill == Fill(r[2], 1, lots, -1)
  IN /\ IF r[3] > 0 /\ lots > 0
        THEN /\ position' = position - lots
             /\ frames' = Append(frames, fill) /\ history' = Append(history, fill)
             /\ answers' = Answer(r, "filled")
        ELSE /\ answers' = Answer(r, "rejected")
             /\ UNCHANGED <<position, frames, history>>
     /\ UNCHANGED <<vars, book, snap>> /\ Lined

ProcessFlatten == \E r \in Due("flatten") : Sell(r, Sellable(r)) /\ UNCHANGED losses

\* The book does not hold enough bids above the limit price.
FallShort == \E r \in Due("flatten") : \E lots \in 0 .. Sellable(r) - 1 :
  /\ (IF lots = 0 THEN "all" ELSE "some") \in Shortfalls
  /\ losses < MaxLosses /\ losses' = losses + 1
  /\ Sell(r, lots)

PushPosition == /\ PositionFeed /\ position > 0
                /\ \A i \in 1 .. Len(frames) : frames[i].kind # "position"
                /\ frames' = Append(frames, [kind |-> "position", lots |-> position])
                /\ UNCHANGED <<vars, book, line, position, answers, history, snap, losses>>

-----------------------------------------------------------------------------
(* Delivery; main aborts the runtime once it has the acknowledgement *)

Running == ~shutdown.notified

DeliverAnswer == \E r \in DOMAIN answers, fuel \in Fuel :
  /\ Running /\ Become(PostResponse(Frame(fuel), r, answers[r]))
  /\ answers' = Forget(r)
  /\ UNCHANGED <<book, line, position, frames, history, snap, losses>>

\* Each subscription is delivered in order.
Deliverable(kind) == {i \in 1 .. Len(frames) :
                  /\ frames[i].kind = kind
                  /\ \A j \in 1 .. i - 1 : ~InOrder /\ frames[j].kind # kind}

DeliverUpdate == \E i \in Deliverable("update"), fuel \in Fuel :
  /\ Running /\ Become(OrderUpdate(Frame(fuel), frames[i]))
  /\ frames' = RemoveAt(frames, i)
  /\ UNCHANGED <<book, line, position, answers, history, snap, losses>>

DeliverFill == \E i \in Deliverable("fill"), fuel \in Fuel, send \in Sends :
  /\ Running /\ Become(UserFill(Frame(fuel), frames[i], send))
  /\ frames' = RemoveAt(frames, i)
  /\ UNCHANGED <<book, position, answers, history, snap, losses>> /\ Lined

DeliverPosition == \E i \in Deliverable("position"), fuel \in Fuel :
  /\ Running /\ Become(Clearinghouse(Frame(fuel), frames[i].lots))
  /\ frames' = RemoveAt(frames, i)
  /\ UNCHANGED <<book, line, position, answers, history, snap, losses>>

\* The frames on their way are lost; the new userFills subscription replays
\* every fill, and order updates that were missed are not repeated.
FeedLost == /\ Running /\ losses < MaxLosses /\ losses' = losses + 1
            /\ Reconnect
            /\ frames' = history
            /\ UNCHANGED <<book, line, position, answers, history, snap>>

ActionLost == /\ losses < MaxLosses /\ losses' = losses + 1
              /\ RequestLost
              /\ answers' = [r \in DOMAIN answers \cap wire' |-> answers[r]]
              /\ UNCHANGED <<book, position, frames, history, snap>> /\ Lined

-----------------------------------------------------------------------------
(* The REST worker *)

TakeRequest == RestTake /\ UNCHANGED exVars

ReadOrders == /\ rest.worker = "reading" /\ "orders" \notin snap.got
              /\ snap' = [snap EXCEPT !.got = @ \cup {"orders"}, !.orders = LiveOids]
              /\ UNCHANGED <<vars, book, line, position, answers, frames, history, losses>>

ReadPositions == /\ rest.worker = "reading" /\ "positions" \notin snap.got
                 /\ snap' = [snap EXCEPT !.got = @ \cup {"positions"}, !.inv = position]
                 /\ UNCHANGED <<vars, book, line, position, answers, frames, history,
                                losses>>

\* Without the one or the other read the snapshot is unhealthy.
Publish == /\ RestPublish
           /\ snap.got = {"orders", "positions"} \/ losses < MaxLosses
           /\ losses' = losses + (IF snap.got = {"orders", "positions"} THEN 0 ELSE 1)
           /\ UNCHANGED <<book, line, position, answers, frames, history, snap>>

Published == IF snap.got = {"orders", "positions"}
             THEN [healthy |-> TRUE, inv |-> snap.inv, orders |-> snap.orders] ELSE NoSnapshot

-----------------------------------------------------------------------------
(* The clock *)

Quiet == /\ Timely => wire = {} /\ frames = <<>>
         /\ RestTimely => ~rest.pending

\* Every timer callback takes over what was published, and may write.
TakenOver == /\ snap' = IF rest.unread THEN NoRead ELSE snap
             /\ UNCHANGED <<book, position, answers, frames, history, losses>> /\ Lined

\* The markout horizons, and the cooldown, are deadlines too.
ExTimer == /\ Running
           /\ TimerTick({IF rest.unread THEN Published ELSE NoSnapshot},
                        IF Quiet THEN markouts ELSE {})
           /\ TakenOver

ExElapse == /\ Elapse /\ UNCHANGED exVars
            /\ probe.phase \in {"Resting", "Partial"} \/ Quiet

ExInit == /\ Init
          /\ book = <<>> /\ position = 0 /\ answers = <<>> /\ frames = <<>>
          /\ history = <<>> /\ snap = NoRead /\ losses = 0 /\ line = <<>>

ExNext == \/ AcceptPlace \/ RejectPlace \/ ProcessCancel \/ ProcessFlatten \/ FallShort
          \/ Trade \/ PushPosition
          \/ DeliverAnswer \/ DeliverUpdate \/ DeliverFill \/ DeliverPosition
          \/ FeedLost \/ ActionLost
          \/ TakeRequest \/ ReadOrders \/ ReadPositions \/ Publish
          \/ ExTimer \/ ExElapse
          \/ ((CoolDown /\ Quiet) \/ Signal) /\ UNCHANGED exVars

ExSpec == ExInit /\ [][ExNext]_allVars

\* The runtime keeps calling the timer: sooner or later with a valid book, after
\* the snapshot interval, with every horizon passed and a writable socket.
HealthyTick ==
  /\ Running
  /\ \E t \in Ticks({IF rest.unread THEN Published ELSE NoSnapshot}, markouts) :
       /\ t.view \in {"good", "eligible"} /\ t.pace # "recent" /\ t.due = {m \in markouts : ~m.done}
       /\ t.found \in SeenOpen(probe, t.latest.orders)
       /\ t.send /\ Become(Timer(Self(RecordLimit), t))
  /\ TakenOver

ExchangeAnswers == \/ AcceptPlace \/ RejectPlace \/ ProcessCancel
                   \/ ProcessFlatten \/ FallShort
WorkerRuns == TakeRequest \/ ReadOrders \/ ReadPositions \/ Publish

MessagesArrive == ExchangeAnswers \/ DeliverAnswer \/ DeliverUpdate \/ DeliverFill \/ DeliverPosition

\* Such a tick changes something: it takes over a snapshot, or requests one; only
\* a stopping process that has asked for its cancel does neither.
TickDue == /\ Running
           /\ \/ rest.unread
              \/ ~rest.pending /\ ~(/\ shutdown.signal /\ probe.cancelReq
                                   /\ probe.phase \in {"Resting", "Partial"})

Fairness == /\ WF_allVars(MessagesArrive) /\ WF_allVars(WorkerRuns)
            /\ SF_allVars(ExElapse)
            /\ []<>rest.unread => []<>~rest.pending
            /\ <>[]~TickDue \/ []<><<HealthyTick>>_allVars

FairSpec == ExSpec /\ Fairness

-----------------------------------------------------------------------------
(* Properties *)

\* Whenever no probe is active nothing of one is left at the exchange: no live
\* order, no order on its way, no position ("reconcile zero open orders and zero
\* inventory -> finalize the probe", README.md).
CleanSlate == LiveOids = {} /\ position = 0 /\ Pending("place") = {}
FinishedIsClean == probe.phase = "Absent" => CleanSlate

\* main is told that the strategy has stopped only when the account, as the final
\* snapshot showed it, is flat and without orders ("a clean SIGINT/SIGTERM first
\* drives the probe through cancel/reconciliation and reduce-only flattening when
\* needed, then finalizes storage", README.md).
AcknowledgedIsClean == shutdown.notified => ~account.open /\ account.inv = 0

\* The lots at risk follow ProbeContract: a probe starts only on a clean slate,
\* never adds a second order while one may still trade, and ends on a clean slate.
\* The lots left of an order are counted one by one.
LotsOnBook == {lot \in LiveOids \X (1 .. Size) : lot[2] <= book[lot[1]]}
LotsAtRisk == Cardinality(LotsOnBook) + Size * Cardinality(Pending("place"))
AtRisk == INSTANCE ProbeContract WITH
            running <- probe.phase # "Absent", exposed <- LotsAtRisk, held <- position
MeetsContract == AtRisk!Contract

\* A stop that was asked for is acknowledged to main.
ShutdownCompletes == shutdown.signal ~> shutdown.notified

\* The two dead ends: all fills are accounted for but the flatten phase was left,
\* or the phase went back to the book after the only cancel was sent.
Stalled == \/ probe.phase = "MarkoutPending" /\ account.inv = 0
           \/ probe.phase \in {"Resting", "Partial"} /\ probe.cancelReq

\* A probe that does not end is in a dead end for good: no other phase can be
\* stuck on a lost message, a closed REST gate, a timeout or another phase.
EndsOrStalls == []<>(probe.phase = "Absent") \/ <>[]Stalled

\* The same of a stop: nothing but a dead end of the probe keeps main waiting.
StopsOrStalls == ShutdownCompletes \/ <>[]Stalled
=============================================================================
