------------------------- MODULE ProbeExchange_proofs -------------------------
(***************************************************************************)
(* Theorems about ProbeExchange under the assumptions of exchange_clean,   *)
(* for every order size, guard, number of probes, flattens and lost reads: *)
(* a probe ends with no order and no position.                             *)
(*                                                                         *)
(* The invariant follows a probe through four stages: its place is on the  *)
(* way (Placed); its order may trade, or the news of its end is on the way *)
(* (Early); its order is over and known to be, and a position is left      *)
(* (Settling); nothing of it is left at the exchange (Spent).  It is a     *)
(* predicate of a context and of the exchange's variables, collected in a  *)
(* record, so that it is shown operator by operator.                       *)
(***************************************************************************)
EXTENDS ProbeExchange, ExecutionProbe_steps, SequenceTheorems, FiniteSetTheorems

\* No fault, IOCs that sell what they may, deadlines longer than what is on its way,
\* one order of the private frames, and a guard of two orders.  The requests may be
\* processed in any order.
CleanNetwork == /\ Faults = {} /\ Shortfalls = {} /\ Timely /\ InOrder /\ ~ResizeUpdates
                /\ MaxInventory >= 2 * Size

-----------------------------------------------------------------------------
(* The exchange and what is on its way *)

Net == [book |-> book, position |-> position, answers |-> answers, frames |-> frames,
        snap |-> snap]

IsFill(f) == f.kind = "fill"
IsOpen(f) == f.kind = "update" /\ f.status = "open"
IsEnd(f) == f.kind = "update" /\ f.status # "open"
IsPosition(f) == f.kind = "position"

Names == Oids \ {NoOid}
UpdateFrames ==
  {u \in [kind : {"update"}, oid : Names, status : {"open", "filled", "canceled"},
          filled : Lots, left : Lots] :
     u.filled + u.left = Size /\ (u.status = "filled" => u.left = 0)}
FillFrames ==
  [kind : {"fill"}, oid : Names, trade : Nat, size : Lots \ {0}, sign : {-1, 1}]
PositionFrames == [kind : {"position"}, lots : Lots \ {0}]
Frames == UpdateFrames \cup FillFrames \cup PositionFrames

NetTyped(N) ==
  /\ N.position \in Lots
  /\ \A o \in DOMAIN N.book : o \in Oids /\ N.book[o] \in Lots
  /\ N.frames \in Seq(Frames)
  /\ \A r \in DOMAIN N.answers : N.answers[r] \in {"resting", "filled", "rejected"}
  /\ N.snap.inv \in Lots /\ N.snap.orders \in SUBSET Oids

NoLive(N) == \A o \in DOMAIN N.book : N.book[o] = 0
NoPlace(c, N) == \A r \in c.wire \ DOMAIN N.answers : r[1] # "place"
Over(c, N) == NoLive(N) /\ N.position = 0 /\ NoPlace(c, N)

\* The REST worker has read the positions and no news has come since.
Counted(c, N) == "positions" \in N.snap.got /\ ~c.rest.stale
ReadZero(c, N) == Counted(c, N) => N.snap.inv = 0

\* Lots that had traded before this fill; `trade' counts those after it.
Before(f) == f.trade - f.size

\* The private frames of the order m, of which `cum' lots are known to have
\* traded and `pos' lots have: each fill continues what was known before it, the
\* last one says what has traded.
FillsFollow(cum, pos, fr) ==
  /\ cum <= pos /\ (pos = cum \/ \E i \in DOMAIN fr : IsFill(fr[i]) /\ fr[i].trade = pos)
  /\ \A i \in DOMAIN fr : IsFill(fr[i]) =>
       /\ fr[i].trade <= pos /\ cum <= Before(fr[i])
       /\ \/ Before(fr[i]) = cum
          \/ \E j \in DOMAIN fr : j < i /\ IsFill(fr[j]) /\ fr[j].trade = Before(fr[i])
  /\ \A i, j \in DOMAIN fr : i < j /\ IsFill(fr[i]) /\ IsFill(fr[j]) =>
       fr[i].trade <= Before(fr[j])

\* The order's end is announced once, after all its fills or just before the last.
EndsLast(pos, fr) ==
  \A i \in DOMAIN fr : IsEnd(fr[i]) =>
    /\ \A j \in DOMAIN fr : IsEnd(fr[j]) => i = j
    /\ \A j \in DOMAIN fr : IsFill(fr[j]) /\ i < j =>
         fr[i].status = "filled" /\ j = i + 1 /\ fr[j].trade = Size
    /\ fr[i].filled = pos

\* A clearinghouseState frame shows what had traded when it was sent.
PositionsFit(cum, pos, fr) ==
  \A i \in DOMAIN fr : IsPosition(fr[i]) =>
    /\ cum <= fr[i].lots /\ fr[i].lots <= pos
    /\ \A j \in DOMAIN fr : IsFill(fr[j]) =>
         IF j < i THEN fr[j].trade <= fr[i].lots ELSE fr[i].lots <= Before(fr[j])

OpensFirst(cum, fr) == \A i \in DOMAIN fr : IsOpen(fr[i]) => i = 1 /\ cum = 0 /\ fr[i].filled = 0
OnlyOf(m, fr) == \A i \in DOMAIN fr : ~IsPosition(fr[i]) => fr[i].oid = m

Traded(m, cum, pos, fr) ==
  /\ OnlyOf(m, fr) /\ OpensFirst(cum, fr) /\ FillsFollow(cum, pos, fr) /\ PositionsFit(cum, pos, fr)
Stream(m, cum, pos, fr) == Traded(m, cum, pos, fr) /\ EndsLast(pos, fr)

Announced(fr) == \E i \in DOMAIN fr : IsOpen(fr[i])
Ended(fr) == \E i \in DOMAIN fr : IsEnd(fr[i])
Filling(fr) == \E i \in DOMAIN fr : IsFill(fr[i])

-----------------------------------------------------------------------------
(* The stages of a probe *)

Common(c, N) ==
  /\ c.writerUp /\ ~c.shutdown.signal /\ c.rest.worker # "gone"
  /\ c.rest.worker = "idle" /\ ~c.rest.unread => N.snap.got = {}
  /\ DOMAIN N.answers \subseteq c.wire
  /\ \A m \in c.markouts : ~m.done
  /\ \A r \in c.wire : r[1] = "flatten" => r[2][1] = "flatten"
  /\ \A x \in c.seen : x[1][1] = "maker" => x[1][2] <= c.issued.probes
  /\ \A i \in DOMAIN N.frames : IsFill(N.frames[i]) /\ N.frames[i].oid[1] = "maker" =>
       N.frames[i].oid[2] <= c.issued.probes

Idle(c, N) == /\ Over(c, N) /\ ReadZero(c, N)
              /\ ~c.cooling => c.wire = {} /\ N.frames = <<>>

\* A probe of which nothing has traded has read no position, and a refused place
\* is the first and last that is heard of it.
Spent(c, N) ==
  /\ Over(c, N)
  /\ OpensFirst(c.probe.cum, N.frames)
  /\ c.probe.cum = 0 => ReadZero(c, N) /\ ~Filling(N.frames)
  /\ \A r \in DOMAIN N.answers : r[1] = "place" /\ N.answers[r] = "rejected" =>
       N.frames = <<>> /\ c.probe.cum = 0

Placed(c, N) ==
  /\ c.probe.phase = "PlacePending" /\ c.probe.cum = 0 /\ ~c.probe.late
  /\ c.probe.flatOid = NoOid
  /\ c.wire = {<<"place", Maker(c.probe.id), Size>>} /\ DOMAIN N.answers = {}
  /\ N.frames = <<>> /\ NoLive(N) /\ N.position = 0 /\ c.account.inv = 0 /\ ReadZero(c, N)
  /\ \A x \in c.seen : x[1] # Maker(c.probe.id)

\* Everything on its way between the probe and the exchange is about its order.
Bound(c, N) ==
  /\ NoPlace(c, N) /\ c.probe.flatOid = NoOid
  /\ \A o \in DOMAIN N.book : N.book[o] > 0 =>
       o = Maker(c.probe.id) /\ N.position = Size - N.book[o]
  /\ \A r \in DOMAIN N.answers : r[1] = "place" /\ N.answers[r] = "resting"
  /\ \A r \in c.wire : r[1] \in {"place", "cancel"} => r[2] = Maker(c.probe.id)

EarlyPhases == {"PlacePending", "PostAccepted", "Resting", "Partial", "CancelPending"}

\* Before the open update the probe waits for it; from its first fill on it has
\* asked for a cancel, so that its end is on the way.
Follow(p, requests, fr) ==
  /\ p.phase \in EarlyPhases /\ p.rem = Size - p.cum
  /\ p.phase \in {"PlacePending", "PostAccepted"} <=> Announced(fr)
  /\ ~Announced(fr) => p.oid = Maker(p.id)
  /\ p.phase \notin {"Resting", "Partial"} => ~p.late
  /\ p.cum > 0 \/ p.phase = "CancelPending" => p.cancelReq
  /\ p.cancelReq => <<"cancel", Maker(p.id), 0>> \in requests \/ Ended(fr)
  /\ \A r \in requests : r[1] # "flatten"

\* While the whole order has traded at once and its fill is on the way, the
\* account shows all of it or nothing.
Whole(c, N) == /\ c.account.inv \in {0, Size}
               /\ Counted(c, N) => N.snap.inv \in {0, Size}
               /\ Counted(c, N) /\ c.account.inv # 0 => N.snap.inv = Size

\* The account never shows less than the fills that were handled, nor more than
\* them and the position together, and neither does what the worker has read.
Worth(c, N) ==
  /\ c.probe.cum <= c.account.inv /\ c.account.inv <= N.position + c.probe.cum
  /\ Counted(c, N) => c.probe.cum <= N.snap.inv /\ N.snap.inv <= N.position
  /\ \A i \in DOMAIN N.frames : IsFill(N.frames[i]) /\ N.frames[i].size = Size => Whole(c, N)

Early(c, N) ==
  /\ Bound(c, N)
  /\ Stream(Maker(c.probe.id), c.probe.cum, N.position, N.frames)
  /\ Follow(c.probe, c.wire, N.frames)
  /\ NoLive(N) <=> Ended(N.frames)
  /\ Worth(c, N)
  /\ c.probe.cum > 0 => c.markouts # {}
  /\ \A x \in c.seen : x[1] = Maker(c.probe.id) => x[2] <= c.probe.cum

Flattening(c) == \E r \in c.wire : r[1] = "flatten"
Asked(c) == c.probe.phase = "FlattenPending" \/ Flattening(c)

\* What may still come of an order whose end is known.
Rest(m, pos, fr) ==
  /\ OnlyOf(m, fr) /\ ~Announced(fr)
  /\ \A i \in DOMAIN fr : IsPosition(fr[i]) => pos <= fr[i].lots
  /\ \A i \in DOMAIN fr : IsFill(fr[i]) => i = 1 /\ fr[i].trade = Size

\* The last fill came after the filled update: nothing is flattened before it is
\* handled, unless it is the only one and a snapshot shows it already.
LastFill(c, N, f) ==
  /\ N.position = Size
  /\ <<Maker(c.probe.id), Size>> \notin c.seen
  /\ Before(f) <= c.account.inv /\ c.account.inv <= 2 * Size
  /\ Counted(c, N) => Before(f) <= N.snap.inv
  /\ \/ c.markouts # {} /\ ~Asked(c)
     \/ f.size = Size /\ Whole(c, N) /\ (c.account.inv = 0 => ~Asked(c))

Settling(c, N) ==
  /\ Bound(c, N)
  /\ c.probe.phase \in {"MarkoutPending", "FlattenPending"} /\ ~c.probe.late
  /\ c.probe.cum > 0 /\ c.probe.rem = 0 /\ c.probe.oid = Maker(c.probe.id)
  /\ NoLive(N) /\ N.position > 0
  /\ Rest(Maker(c.probe.id), N.position, N.frames)
  /\ c.probe.phase = "FlattenPending" => Flattening(c)
  /\ \A r \in c.wire : r[1] = "flatten" => N.position <= r[3]
  /\ ~Filling(N.frames) =>
       N.position <= c.account.inv /\ (Counted(c, N) => N.position <= N.snap.inv)
  /\ \A i \in DOMAIN N.frames : IsFill(N.frames[i]) => LastFill(c, N, N.frames[i])

Good(c, N) ==
  /\ Common(c, N)
  /\ IF Active(c) THEN Spent(c, N) \/ Placed(c, N) \/ Early(c, N) \/ Settling(c, N)
                  ELSE Idle(c, N)

CleanInv == NetTyped(Net) /\ Good(Self(RecordLimit), Net)

-----------------------------------------------------------------------------
(* Frames and sequences of frames *)

LEMMA FrameKinds ==
  ASSUME NEW f \in Frames
  PROVE  /\ IsFill(f) => f \in FillFrames
         /\ IsPosition(f) => f \in PositionFrames
         /\ IsOpen(f) \/ IsEnd(f) => f \in UpdateFrames
         /\ IsFill(f) \/ IsPosition(f) \/ IsOpen(f) \/ IsEnd(f)
         /\ ~(IsFill(f) /\ IsPosition(f)) /\ ~(IsFill(f) /\ IsOpen(f)) /\ ~(IsFill(f) /\ IsEnd(f))
         /\ ~(IsPosition(f) /\ IsOpen(f)) /\ ~(IsPosition(f) /\ IsEnd(f)) /\ ~(IsOpen(f) /\ IsEnd(f))
<1>1. CASE f \in UpdateFrames
  BY <1>1 DEF UpdateFrames, IsFill, IsPosition, IsOpen, IsEnd
<1>2. CASE f \in FillFrames
  BY <1>2 DEF FillFrames, IsFill, IsPosition, IsOpen, IsEnd
<1>3. CASE f \in PositionFrames
  BY <1>3 DEF PositionFrames, IsFill, IsPosition, IsOpen, IsEnd
<1> QED BY <1>1, <1>2, <1>3 DEF Frames

LEMMA FillFields ==
  ASSUME NEW f \in Frames, IsFill(f)
  PROVE  /\ f.oid \in Oids /\ f.oid # NoOid /\ f.trade \in Nat /\ f.size \in Nat /\ f.size > 0
         /\ f.size <= Size /\ f.sign \in {-1, 1} /\ Before(f) \in Int
         /\ Before(f) + f.size = f.trade
<1>1. f \in FillFrames
  BY FrameKinds
<1> QED BY <1>1, SizeAssumption DEF FillFrames, Names, Lots, Before

LEMMA PositionFields ==
  ASSUME NEW f \in Frames, IsPosition(f)
  PROVE  f.lots \in Nat /\ f.lots > 0 /\ f.lots <= Size
<1>1. f \in PositionFrames
  BY FrameKinds
<1> QED BY <1>1, SizeAssumption DEF PositionFrames, Lots

LEMMA UpdateFields ==
  ASSUME NEW f \in Frames, IsOpen(f) \/ IsEnd(f)
  PROVE  /\ f.oid \in Oids /\ f.oid # NoOid /\ f.filled \in Lots /\ f.left \in Lots
         /\ f.filled \in Nat /\ f.left \in Nat /\ f.filled + f.left = Size
         /\ f.status \in {"open", "filled", "canceled"} /\ (f.status = "filled" => f.left = 0)
         /\ f.kind = "update"
<1>1. f \in UpdateFrames
  BY FrameKinds
<1> QED BY <1>1, SizeAssumption DEF UpdateFrames, Names, Lots

LEMMA HeadRemoved ==
  ASSUME NEW fr \in Seq(Frames), 1 \in DOMAIN fr
  PROVE  LET gr == RemoveAt(fr, 1) IN
         /\ gr \in Seq(Frames) /\ Len(fr) \in Nat /\ Len(gr) = Len(fr) - 1
         /\ DOMAIN fr = 1 .. Len(fr) /\ DOMAIN gr = 1 .. Len(fr) - 1
         /\ \A i \in DOMAIN gr : i + 1 \in DOMAIN fr /\ gr[i] = fr[i + 1]
<1>1. RemoveAt(fr, 1) = SubSeq(fr, 1, 0) \o SubSeq(fr, 2, Len(fr))
  BY DEF RemoveAt
<1>2. Len(fr) \in Nat /\ Len(fr) >= 1 /\ DOMAIN fr = 1 .. Len(fr)
  OBVIOUS
<1>3. SubSeq(fr, 1, 0) = <<>>
  OBVIOUS
<1>4. SubSeq(fr, 2, Len(fr)) \in Seq(Frames) /\ Len(SubSeq(fr, 2, Len(fr))) = Len(fr) - 1
  BY <1>2
<1>5. \A i \in 1 .. Len(fr) - 1 : SubSeq(fr, 2, Len(fr))[i] = fr[i + 1]
  BY <1>2
<1>6. RemoveAt(fr, 1) = SubSeq(fr, 2, Len(fr))
  BY <1>1, <1>3, <1>4
<1>7. DOMAIN SubSeq(fr, 2, Len(fr)) = 1 .. Len(fr) - 1
  BY <1>2, <1>4
<1>8. \A i \in 1 .. Len(fr) - 1 : i + 1 \in DOMAIN fr
  BY <1>2
<1> QED BY <1>2, <1>4, <1>5, <1>6, <1>7, <1>8

LEMMA Appended ==
  ASSUME NEW fr \in Seq(Frames), NEW f \in Frames
  PROVE  LET gr == Append(fr, f)
             n == Len(fr)
         IN /\ gr \in Seq(Frames) /\ n \in Nat /\ Len(gr) = n + 1
            /\ DOMAIN fr = 1 .. n /\ DOMAIN gr = 1 .. n + 1
            /\ \A i \in 1 .. n : gr[i] = fr[i]
            /\ gr[n + 1] = f
OBVIOUS

LEMMA BothAppended ==
  ASSUME NEW fr \in Seq(Frames), NEW f \in Frames, NEW g \in Frames
  PROVE  LET gr == fr \o <<f, g>>
             n == Len(fr)
         IN /\ gr \in Seq(Frames) /\ n \in Nat /\ Len(gr) = n + 2
            /\ DOMAIN fr = 1 .. n /\ DOMAIN gr = 1 .. n + 2
            /\ \A i \in 1 .. n : gr[i] = fr[i]
            /\ gr[n + 1] = f /\ gr[n + 2] = g
OBVIOUS

-----------------------------------------------------------------------------
(* The private frames of an order *)

LEMMA HeadKinds ==
  ASSUME NEW fr \in Seq(Frames), 1 \in DOMAIN fr
  PROVE  LET gr == RemoveAt(fr, 1) IN
         /\ Announced(gr) => Announced(fr)
         /\ Ended(gr) => Ended(fr)
         /\ Filling(gr) => Filling(fr)
         /\ ~IsOpen(fr[1]) /\ Announced(fr) => Announced(gr)
         /\ ~IsEnd(fr[1]) /\ Ended(fr) => Ended(gr)
         /\ ~IsFill(fr[1]) /\ Filling(fr) => Filling(gr)
<1> DEFINE gr == RemoveAt(fr, 1)
<1>1. \A i \in DOMAIN gr : i + 1 \in DOMAIN fr /\ gr[i] = fr[i + 1]
  BY HeadRemoved
<1>2. ASSUME NEW i \in DOMAIN fr, i # 1 PROVE i - 1 \in DOMAIN gr /\ gr[i - 1] = fr[i]
  <2>1. i \in 1 .. Len(fr) /\ Len(fr) \in Nat /\ DOMAIN gr = 1 .. Len(fr) - 1
    BY HeadRemoved
  <2>2. i - 1 \in DOMAIN gr /\ (i - 1) + 1 = i
    BY <1>2, <2>1
  <2> QED BY <1>1, <2>2
<1> HIDE DEF gr
<1>3. (Announced(gr) => Announced(fr)) /\ (Ended(gr) => Ended(fr)) /\ (Filling(gr) => Filling(fr))
  BY <1>1 DEF Announced, Ended, Filling
<1>4. ~IsOpen(fr[1]) /\ Announced(fr) => Announced(gr)
  BY <1>2 DEF Announced
<1>5. ~IsEnd(fr[1]) /\ Ended(fr) => Ended(gr)
  BY <1>2 DEF Ended
<1>6. ~IsFill(fr[1]) /\ Filling(fr) => Filling(gr)
  BY <1>2 DEF Filling
<1> QED BY <1>3, <1>4, <1>5, <1>6 DEF gr

\* The parts of a stream that a delivery never disturbs.
LEMMA HeadParts ==
  ASSUME NEW fr \in Seq(Frames), 1 \in DOMAIN fr, NEW m, NEW cum, NEW pos,
         OnlyOf(m, fr), OpensFirst(cum, fr), EndsLast(pos, fr)
  PROVE  LET gr == RemoveAt(fr, 1) IN
         OnlyOf(m, gr) /\ ~Announced(gr) /\ EndsLast(pos, gr)
<1> DEFINE gr == RemoveAt(fr, 1)
<1>1. \A i \in DOMAIN gr : i + 1 \in DOMAIN fr /\ gr[i] = fr[i + 1] /\ i \in Int /\ i + 1 # 1
  BY HeadRemoved
<1> HIDE DEF gr
<1>2. OnlyOf(m, gr)
  BY <1>1 DEF OnlyOf
<1>3. ~Announced(gr)
  BY <1>1 DEF OpensFirst, Announced
<1>4. EndsLast(pos, gr)
  <2> SUFFICES ASSUME NEW i \in DOMAIN gr, IsEnd(gr[i])
               PROVE  /\ \A j \in DOMAIN gr : IsEnd(gr[j]) => i = j
                      /\ \A j \in DOMAIN gr : IsFill(gr[j]) /\ i < j =>
                           gr[i].status = "filled" /\ j = i + 1 /\ gr[j].trade = Size
                      /\ gr[i].filled = pos
    BY DEF EndsLast
  <2>1. i \in Int /\ i + 1 \in DOMAIN fr /\ gr[i] = fr[i + 1] /\ IsEnd(fr[i + 1])
    BY <1>1
  <2>2. ASSUME NEW j \in DOMAIN gr, IsEnd(gr[j]) PROVE i = j
    <3>1. j \in Int /\ j + 1 \in DOMAIN fr /\ IsEnd(fr[j + 1])
      BY <1>1, <2>2
    <3>2. i + 1 = j + 1
      BY <2>1, <3>1 DEF EndsLast
    <3> QED BY <2>1, <3>1, <3>2
  <2>3. ASSUME NEW j \in DOMAIN gr, IsFill(gr[j]), i < j
        PROVE  gr[i].status = "filled" /\ j = i + 1 /\ gr[j].trade = Size
    <3>1. j \in Int /\ j + 1 \in DOMAIN fr /\ gr[j] = fr[j + 1] /\ IsFill(fr[j + 1])
      BY <1>1, <2>3
    <3>2. i + 1 < j + 1
      BY <2>1, <2>3, <3>1
    <3>3. fr[i + 1].status = "filled" /\ j + 1 = (i + 1) + 1 /\ fr[j + 1].trade = Size
      BY <2>1, <3>1, <3>2 DEF EndsLast
    <3> QED BY <2>1, <3>1, <3>3
  <2>4. gr[i].filled = pos
    BY <2>1 DEF EndsLast
  <2> QED BY <2>2, <2>3, <2>4
<1> QED BY <1>2, <1>3, <1>4 DEF gr

LEMMA NoneAnnounced ==
  ASSUME NEW fr, ~Announced(fr), NEW cum
  PROVE  OpensFirst(cum, fr)
BY DEF Announced, OpensFirst

\* After the open update, the order's end or a position the same fills follow.
LEMMA StreamOther ==
  ASSUME NEW fr \in Seq(Frames), 1 \in DOMAIN fr, NEW m, NEW cum \in Nat, NEW pos \in Nat,
         Stream(m, cum, pos, fr), ~IsFill(fr[1])
  PROVE  Stream(m, cum, pos, RemoveAt(fr, 1))
<1> DEFINE gr == RemoveAt(fr, 1)
<1>1. /\ \A i \in DOMAIN gr : i + 1 \in DOMAIN fr /\ gr[i] = fr[i + 1] /\ i \in Int
      /\ DOMAIN gr = 1 .. Len(fr) - 1 /\ DOMAIN fr = 1 .. Len(fr) /\ Len(fr) \in Nat
  BY HeadRemoved
<1>2. OnlyOf(m, gr) /\ OpensFirst(cum, gr) /\ EndsLast(pos, gr)
  BY HeadParts, NoneAnnounced DEF Stream, Traded
<1> HIDE DEF gr
<1>3. ASSUME NEW j \in DOMAIN fr, IsFill(fr[j])
      PROVE  j - 1 \in DOMAIN gr /\ gr[j - 1] = fr[j] /\ j \in Int
  <2>1. j \in 1 .. Len(fr) /\ j # 1
    BY <1>1, <1>3
  <2>2. j - 1 \in DOMAIN gr /\ (j - 1) + 1 = j
    BY <1>1, <2>1
  <2> QED BY <1>1, <2>1, <2>2
<1>4. FillsFollow(cum, pos, gr)
  <2>1. cum <= pos /\ (pos = cum \/ \E i \in DOMAIN gr : IsFill(gr[i]) /\ gr[i].trade = pos)
    BY <1>3 DEF Stream, Traded, FillsFollow
  <2>2. ASSUME NEW i \in DOMAIN gr, IsFill(gr[i])
        PROVE  /\ gr[i].trade <= pos /\ cum <= Before(gr[i])
               /\ \/ Before(gr[i]) = cum
                  \/ \E j \in DOMAIN gr : j < i /\ IsFill(gr[j]) /\ gr[j].trade = Before(gr[i])
    <3>1. i + 1 \in DOMAIN fr /\ gr[i] = fr[i + 1] /\ i \in Int /\ IsFill(fr[i + 1])
      BY <1>1, <2>2
    <3>2. fr[i + 1].trade <= pos /\ cum <= Before(fr[i + 1])
      BY <3>1 DEF Stream, Traded, FillsFollow
    <3>3. ASSUME Before(fr[i + 1]) # cum
          PROVE  \E j \in DOMAIN gr : j < i /\ IsFill(gr[j]) /\ gr[j].trade = Before(gr[i])
      <4>1. PICK j \in DOMAIN fr : j < i + 1 /\ IsFill(fr[j]) /\ fr[j].trade = Before(fr[i + 1])
        BY <3>1, <3>3 DEF Stream, Traded, FillsFollow
      <4>2. j - 1 \in DOMAIN gr /\ gr[j - 1] = fr[j] /\ j \in Int
        BY <1>3, <4>1
      <4>3. j - 1 < i
        BY <3>1, <4>1, <4>2
      <4> QED BY <3>1, <4>1, <4>2, <4>3
    <3> QED BY <3>1, <3>2, <3>3
  <2>3. ASSUME NEW i \in DOMAIN gr, NEW j \in DOMAIN gr, i < j, IsFill(gr[i]), IsFill(gr[j])
        PROVE  gr[i].trade <= Before(gr[j])
    <3>1. /\ i + 1 \in DOMAIN fr /\ gr[i] = fr[i + 1] /\ i \in Int
          /\ j + 1 \in DOMAIN fr /\ gr[j] = fr[j + 1] /\ j \in Int
      BY <1>1
    <3>2. i + 1 < j + 1
      BY <2>3, <3>1
    <3> QED BY <2>3, <3>1, <3>2 DEF Stream, Traded, FillsFollow
  <2> QED BY <2>1, <2>2, <2>3 DEF FillsFollow
<1>5. PositionsFit(cum, pos, gr)
  <2> SUFFICES ASSUME NEW i \in DOMAIN gr, IsPosition(gr[i])
               PROVE  /\ cum <= gr[i].lots /\ gr[i].lots <= pos
                      /\ \A j \in DOMAIN gr : IsFill(gr[j]) =>
                           IF j < i THEN gr[j].trade <= gr[i].lots ELSE gr[i].lots <= Before(gr[j])
    BY DEF PositionsFit
  <2>1. i + 1 \in DOMAIN fr /\ gr[i] = fr[i + 1] /\ i \in Int
    BY <1>1
  <2>2. ASSUME NEW j \in DOMAIN gr, IsFill(gr[j])
        PROVE  IF j < i THEN gr[j].trade <= gr[i].lots ELSE gr[i].lots <= Before(gr[j])
    <3>1. j + 1 \in DOMAIN fr /\ gr[j] = fr[j + 1] /\ j \in Int
      BY <1>1
    <3>2. j < i <=> j + 1 < i + 1
      BY <2>1, <3>1
    <3>3. IF j + 1 < i + 1 THEN fr[j + 1].trade <= fr[i + 1].lots
                           ELSE fr[i + 1].lots <= Before(fr[j + 1])
      BY <2>1, <2>2, <3>1 DEF Stream, Traded, PositionsFit
    <3> QED BY <2>1, <3>1, <3>2, <3>3
  <2>3. cum <= fr[i + 1].lots /\ fr[i + 1].lots <= pos
    BY <2>1 DEF Stream, Traded, PositionsFit
  <2> QED BY <2>1, <2>2, <2>3
<1> QED BY <1>2, <1>4, <1>5 DEF Stream, Traded, gr

\* The first fill continues what is known; what it tells is known from then on.
LEMMA StreamFill ==
  ASSUME NEW fr \in Seq(Frames), 1 \in DOMAIN fr, NEW m, NEW cum \in Nat, NEW pos \in Nat,
         Stream(m, cum, pos, fr), IsFill(fr[1])
  PROVE  /\ Before(fr[1]) = cum /\ fr[1].trade = cum + fr[1].size /\ fr[1].trade <= pos
         /\ Stream(m, fr[1].trade, pos, RemoveAt(fr, 1))
         /\ \A i \in DOMAIN RemoveAt(fr, 1) :
              IsFill(RemoveAt(fr, 1)[i]) => fr[1].trade <= Before(RemoveAt(fr, 1)[i])
         /\ \A i \in DOMAIN RemoveAt(fr, 1) :
              IsPosition(RemoveAt(fr, 1)[i]) => fr[1].trade <= RemoveAt(fr, 1)[i].lots
<1> DEFINE gr == RemoveAt(fr, 1)
           f == fr[1]
<1>1. /\ \A i \in DOMAIN gr : i + 1 \in DOMAIN fr /\ gr[i] = fr[i + 1] /\ i \in Int /\ 1 < i + 1
      /\ DOMAIN gr = 1 .. Len(fr) - 1 /\ DOMAIN fr = 1 .. Len(fr) /\ Len(fr) \in Nat
  BY HeadRemoved
<1>2. OnlyOf(m, gr) /\ OpensFirst(f.trade, gr) /\ EndsLast(pos, gr)
  BY HeadParts, NoneAnnounced DEF Stream, Traded
<1>3. f \in Frames
  OBVIOUS
<1>4. f.trade \in Nat /\ f.size \in Nat /\ f.size > 0 /\ Before(f) \in Int /\ Before(f) + f.size = f.trade
  BY <1>3, FillFields
<1> HIDE DEF gr, f
<1>5. Before(f) = cum /\ f.trade <= pos
  <2>1. \A j \in DOMAIN fr : ~(j < 1)
    BY <1>1
  <2> QED BY <2>1 DEF Stream, Traded, FillsFollow, f
<1>6. \A i \in DOMAIN gr : IsFill(gr[i]) => f.trade <= Before(gr[i])
  <2> SUFFICES ASSUME NEW i \in DOMAIN gr, IsFill(gr[i]) PROVE f.trade <= Before(gr[i])
    OBVIOUS
  <2>1. i + 1 \in DOMAIN fr /\ gr[i] = fr[i + 1] /\ 1 < i + 1
    BY <1>1
  <2> QED BY <2>1 DEF Stream, Traded, FillsFollow, f
<1>7. \A i \in DOMAIN gr : IsPosition(gr[i]) => f.trade <= gr[i].lots
  <2> SUFFICES ASSUME NEW i \in DOMAIN gr, IsPosition(gr[i]) PROVE f.trade <= gr[i].lots
    OBVIOUS
  <2>1. i + 1 \in DOMAIN fr /\ gr[i] = fr[i + 1] /\ 1 < i + 1
    BY <1>1
  <2> QED BY <2>1 DEF Stream, Traded, PositionsFit, f
<1>8. ASSUME NEW j \in DOMAIN fr, j # 1
      PROVE  j - 1 \in DOMAIN gr /\ gr[j - 1] = fr[j] /\ j \in Int
  <2>1. j \in 1 .. Len(fr)
    BY <1>1, <1>8
  <2>2. j - 1 \in DOMAIN gr /\ (j - 1) + 1 = j
    BY <1>1, <1>8, <2>1
  <2> QED BY <1>1, <2>1, <2>2
<1>9. FillsFollow(f.trade, pos, gr)
  <2>1. pos = f.trade \/ \E i \in DOMAIN gr : IsFill(gr[i]) /\ gr[i].trade = pos
    <3>1. CASE pos = cum
      BY <1>4, <1>5, <3>1
    <3>2. CASE \E i \in DOMAIN fr : IsFill(fr[i]) /\ fr[i].trade = pos
      BY <1>8, <3>2 DEF f
    <3> QED BY <3>1, <3>2 DEF Stream, Traded, FillsFollow
  <2>2. ASSUME NEW i \in DOMAIN gr, IsFill(gr[i])
        PROVE  /\ gr[i].trade <= pos /\ f.trade <= Before(gr[i])
               /\ \/ Before(gr[i]) = f.trade
                  \/ \E j \in DOMAIN gr : j < i /\ IsFill(gr[j]) /\ gr[j].trade = Before(gr[i])
    <3>1. i + 1 \in DOMAIN fr /\ gr[i] = fr[i + 1] /\ i \in Int /\ IsFill(fr[i + 1])
      BY <1>1, <2>2
    <3>2. gr[i].trade <= pos /\ f.trade <= Before(gr[i])
      BY <1>6, <2>2, <3>1 DEF Stream, Traded, FillsFollow
    <3>3. Before(gr[i]) # cum
      BY <1>4, <1>5, <3>2
    <3>4. PICK j \in DOMAIN fr : j < i + 1 /\ IsFill(fr[j]) /\ fr[j].trade = Before(fr[i + 1])
      BY <3>1, <3>3 DEF Stream, Traded, FillsFollow
    <3>5. CASE j = 1
      BY <3>1, <3>2, <3>4, <3>5 DEF f
    <3>6. CASE j # 1
      <4>1. j - 1 \in DOMAIN gr /\ gr[j - 1] = fr[j] /\ j \in Int
        BY <1>8, <3>6
      <4>2. j - 1 < i
        BY <3>1, <3>4, <4>1
      <4> QED BY <3>1, <3>2, <3>4, <4>1, <4>2
    <3> QED BY <3>5, <3>6
  <2>3. ASSUME NEW i \in DOMAIN gr, NEW j \in DOMAIN gr, i < j, IsFill(gr[i]), IsFill(gr[j])
        PROVE  gr[i].trade <= Before(gr[j])
    <3>1. /\ i + 1 \in DOMAIN fr /\ gr[i] = fr[i + 1] /\ i \in Int
          /\ j + 1 \in DOMAIN fr /\ gr[j] = fr[j + 1] /\ j \in Int
      BY <1>1
    <3>2. i + 1 < j + 1
      BY <2>3, <3>1
    <3> QED BY <2>3, <3>1, <3>2 DEF Stream, Traded, FillsFollow
  <2> QED BY <1>5, <2>1, <2>2, <2>3 DEF FillsFollow
<1>10. PositionsFit(f.trade, pos, gr)
  <2> SUFFICES ASSUME NEW i \in DOMAIN gr, IsPosition(gr[i])
               PROVE  /\ f.trade <= gr[i].lots /\ gr[i].lots <= pos
                      /\ \A j \in DOMAIN gr : IsFill(gr[j]) =>
                           IF j < i THEN gr[j].trade <= gr[i].lots ELSE gr[i].lots <= Before(gr[j])
    BY DEF PositionsFit
  <2>1. i + 1 \in DOMAIN fr /\ gr[i] = fr[i + 1] /\ i \in Int
    BY <1>1
  <2>2. ASSUME NEW j \in DOMAIN gr, IsFill(gr[j])
        PROVE  IF j < i THEN gr[j].trade <= gr[i].lots ELSE gr[i].lots <= Before(gr[j])
    <3>1. j + 1 \in DOMAIN fr /\ gr[j] = fr[j + 1] /\ j \in Int
      BY <1>1
    <3>2. j < i <=> j + 1 < i + 1
      BY <2>1, <3>1
    <3>3. IF j + 1 < i + 1 THEN fr[j + 1].trade <= fr[i + 1].lots
                           ELSE fr[i + 1].lots <= Before(fr[j + 1])
      BY <2>1, <2>2, <3>1 DEF Stream, Traded, PositionsFit
    <3> QED BY <2>1, <3>1, <3>2, <3>3
  <2>3. fr[i + 1].lots <= pos
    BY <2>1 DEF Stream, Traded, PositionsFit
  <2> QED BY <1>7, <2>1, <2>2, <2>3
<1>11. f.trade = cum + f.size
  BY <1>4, <1>5
<1> QED BY <1>2, <1>5, <1>6, <1>7, <1>9, <1>10, <1>11 DEF Stream, Traded, gr, f

-----------------------------------------------------------------------------
(* What the exchange sends *)

\* A frame at the end of the private feed, which is no open update.
LEMMA TailKinds ==
  ASSUME NEW fr \in Seq(Frames), NEW f \in Frames, ~IsOpen(f)
  PROVE  /\ Announced(Append(fr, f)) <=> Announced(fr)
         /\ Ended(Append(fr, f)) <=> Ended(fr) \/ IsEnd(f)
         /\ Filling(Append(fr, f)) <=> Filling(fr) \/ IsFill(f)
<1> DEFINE gr == Append(fr, f)
           n == Len(fr)
<1>1. /\ DOMAIN gr = DOMAIN fr \cup {n + 1} /\ gr[n + 1] = f
      /\ \A i \in DOMAIN fr : gr[i] = fr[i]
  BY Appended
<1> HIDE DEF gr, n
<1>2. Announced(gr) <=> Announced(fr)
  BY <1>1 DEF Announced
<1>3. Ended(gr) <=> Ended(fr) \/ IsEnd(f)
  BY <1>1 DEF Ended
<1>4. Filling(gr) <=> Filling(fr) \/ IsFill(f)
  BY <1>1 DEF Filling
<1> QED BY <1>2, <1>3, <1>4 DEF gr

\* A fill of the live order: all that were before it had traded.
LEMMA TradedGrows ==
  ASSUME NEW fr \in Seq(Frames), NEW f \in Frames, IsFill(f), NEW m, f.oid = m,
         NEW cum \in Nat, NEW pos \in Nat, Traded(m, cum, pos, fr), Before(f) = pos
  PROVE  Traded(m, cum, f.trade, Append(fr, f))
<1> DEFINE gr == Append(fr, f)
           n == Len(fr)
<1>1. /\ n \in Nat /\ n + 1 \notin DOMAIN fr /\ \A i \in DOMAIN fr : i \in Int /\ i < n + 1
      /\ DOMAIN gr = DOMAIN fr \cup {n + 1} /\ gr[n + 1] = f
      /\ \A i \in DOMAIN fr : gr[i] = fr[i]
      /\ \A i \in DOMAIN fr : fr[i] \in Frames
  BY Appended
<1>2. f.trade \in Nat /\ f.size > 0 /\ pos < f.trade /\ ~IsOpen(f) /\ ~IsPosition(f)
  BY FillFields, FrameKinds
<1> HIDE DEF gr, n
<1>3. OnlyOf(m, gr) /\ OpensFirst(cum, gr) 
  <2>1. OnlyOf(m, gr)
    BY <1>1 DEF Traded, OnlyOf
  <2>2. OpensFirst(cum, gr)
    BY <1>1, <1>2 DEF Traded, OpensFirst
  <2> QED BY <2>1, <2>2
<1>4. \A i \in DOMAIN fr : IsFill(fr[i]) => fr[i].trade <= pos /\ fr[i].trade \in Nat
  BY <1>1, FillFields DEF Traded, FillsFollow
<1>5. FillsFollow(cum, f.trade, gr)
  <2>1. cum <= f.trade /\ \E i \in DOMAIN gr : IsFill(gr[i]) /\ gr[i].trade = f.trade
    BY <1>1, <1>2 DEF Traded, FillsFollow
  <2>2. ASSUME NEW i \in DOMAIN gr, IsFill(gr[i])
        PROVE  /\ gr[i].trade <= f.trade /\ cum <= Before(gr[i])
               /\ \/ Before(gr[i]) = cum
                  \/ \E j \in DOMAIN gr : j < i /\ IsFill(gr[j]) /\ gr[j].trade = Before(gr[i])
    <3>1. CASE i = n + 1
      <4>1. cum <= pos /\ (pos = cum \/ \E j \in DOMAIN fr : IsFill(fr[j]) /\ fr[j].trade = pos)
        BY DEF Traded, FillsFollow
      <4> QED BY <1>1, <1>2, <3>1, <4>1
    <3>2. CASE i \in DOMAIN fr
      <4>1. fr[i].trade <= pos /\ fr[i].trade \in Nat /\ cum <= Before(fr[i])
        BY <1>1, <1>4, <2>2, <3>2 DEF Traded, FillsFollow
      <4>2. \/ Before(fr[i]) = cum
            \/ \E j \in DOMAIN fr : j < i /\ IsFill(fr[j]) /\ fr[j].trade = Before(fr[i])
        BY <1>1, <2>2, <3>2 DEF Traded, FillsFollow
      <4> QED BY <1>1, <1>2, <3>2, <4>1, <4>2
    <3> QED BY <1>1, <3>1, <3>2
  <2>3. ASSUME NEW i \in DOMAIN gr, NEW j \in DOMAIN gr, i < j, IsFill(gr[i]), IsFill(gr[j])
        PROVE  gr[i].trade <= Before(gr[j])
    <3>1. i \in DOMAIN fr
      BY <1>1, <2>3
    <3>2. CASE j = n + 1
      BY <1>1, <1>4, <2>3, <3>1, <3>2
    <3>3. CASE j \in DOMAIN fr
      BY <1>1, <2>3, <3>1, <3>3 DEF Traded, FillsFollow
    <3> QED BY <1>1, <3>2, <3>3
  <2> QED BY <2>1, <2>2, <2>3 DEF FillsFollow
<1>6. PositionsFit(cum, f.trade, gr)
  <2> SUFFICES ASSUME NEW i \in DOMAIN gr, IsPosition(gr[i])
               PROVE  /\ cum <= gr[i].lots /\ gr[i].lots <= f.trade
                      /\ \A j \in DOMAIN gr : IsFill(gr[j]) =>
                           IF j < i THEN gr[j].trade <= gr[i].lots ELSE gr[i].lots <= Before(gr[j])
    BY DEF PositionsFit
  <2>1. i \in DOMAIN fr /\ gr[i] = fr[i] /\ i \in Int
    BY <1>1, <1>2
  <2>2. cum <= gr[i].lots /\ gr[i].lots <= pos /\ gr[i].lots \in Nat
    BY <1>1, <2>1, PositionFields DEF Traded, PositionsFit
  <2>3. ASSUME NEW j \in DOMAIN gr, IsFill(gr[j])
        PROVE  IF j < i THEN gr[j].trade <= gr[i].lots ELSE gr[i].lots <= Before(gr[j])
    <3>1. CASE j = n + 1
      BY <1>1, <2>1, <2>2, <3>1
    <3>2. CASE j \in DOMAIN fr
      BY <1>1, <2>1, <2>3, <3>2 DEF Traded, PositionsFit
    <3> QED BY <1>1, <3>1, <3>2
  <2>4. gr[i].lots <= f.trade
    BY <1>2, <2>2
  <2> QED BY <2>2, <2>3, <2>4
<1> QED BY <1>3, <1>5, <1>6 DEF Traded, gr

\* The order's end, or a position, says nothing new about the fills.
LEMMA TradedEnds ==
  ASSUME NEW fr \in Seq(Frames), NEW u \in Frames, IsEnd(u), NEW m, u.oid = m,
         NEW cum, NEW pos, Traded(m, cum, pos, fr)
  PROVE  Traded(m, cum, pos, Append(fr, u))
<1> DEFINE gr == Append(fr, u)
           n == Len(fr)
<1>1. /\ n + 1 \notin DOMAIN fr /\ DOMAIN gr = DOMAIN fr \cup {n + 1} /\ gr[n + 1] = u
      /\ \A i \in DOMAIN fr : gr[i] = fr[i]
  BY Appended
<1>2. ~IsOpen(u) /\ ~IsFill(u) /\ ~IsPosition(u)
  BY FrameKinds
<1> HIDE DEF gr, n
<1>3. OnlyOf(m, gr)
  BY <1>1 DEF Traded, OnlyOf
<1>4. OpensFirst(cum, gr)
  BY <1>1, <1>2 DEF Traded, OpensFirst
<1>5. FillsFollow(cum, pos, gr)
  BY <1>1, <1>2 DEF Traded, FillsFollow
<1>6. PositionsFit(cum, pos, gr)
  BY <1>1, <1>2 DEF Traded, PositionsFit
<1> QED BY <1>3, <1>4, <1>5, <1>6 DEF Traded, gr

LEMMA StreamPosition ==
  ASSUME NEW fr \in Seq(Frames), NEW f \in Frames, IsPosition(f), NEW m,
         NEW cum \in Nat, NEW pos \in Nat, Stream(m, cum, pos, fr), f.lots = pos
  PROVE  Stream(m, cum, pos, Append(fr, f))
<1> DEFINE gr == Append(fr, f)
           n == Len(fr)
<1>1. /\ n + 1 \notin DOMAIN fr /\ DOMAIN gr = DOMAIN fr \cup {n + 1} /\ gr[n + 1] = f
      /\ \A i \in DOMAIN fr : gr[i] = fr[i] /\ i \in Int /\ i < n + 1
  BY Appended
<1>2. ~IsOpen(f) /\ ~IsFill(f) /\ ~IsEnd(f)
  BY FrameKinds
<1> HIDE DEF gr, n
<1>3. OnlyOf(m, gr)
  BY <1>1 DEF Stream, Traded, OnlyOf
<1>4. OpensFirst(cum, gr)
  BY <1>1, <1>2 DEF Stream, Traded, OpensFirst
<1>5. FillsFollow(cum, pos, gr)
  BY <1>1, <1>2 DEF Stream, Traded, FillsFollow
<1>6. EndsLast(pos, gr)
  BY <1>1, <1>2 DEF Stream, EndsLast
<1>7. PositionsFit(cum, pos, gr)
  <2> SUFFICES ASSUME NEW i \in DOMAIN gr, IsPosition(gr[i])
               PROVE  /\ cum <= gr[i].lots /\ gr[i].lots <= pos
                      /\ \A j \in DOMAIN gr : IsFill(gr[j]) =>
                           IF j < i THEN gr[j].trade <= gr[i].lots ELSE gr[i].lots <= Before(gr[j])
    BY DEF PositionsFit
  <2>1. CASE i = n + 1
    <3>1. cum <= pos /\ \A j \in DOMAIN fr : IsFill(fr[j]) => fr[j].trade <= pos
      BY DEF Stream, Traded, FillsFollow
    <3> QED BY <1>1, <1>2, <2>1, <3>1
  <2>2. CASE i \in DOMAIN fr
    BY <1>1, <1>2, <2>2 DEF Stream, Traded, PositionsFit
  <2> QED BY <1>1, <2>1, <2>2
<1> QED BY <1>3, <1>4, <1>5, <1>6, <1>7 DEF Stream, Traded, gr

LEMMA EndAppended ==
  ASSUME NEW fr \in Seq(Frames), NEW f \in Frames, ~Ended(fr), NEW pos,
         IsEnd(f) => f.filled = pos
  PROVE  EndsLast(pos, Append(fr, f))
<1> DEFINE gr == Append(fr, f)
           n == Len(fr)
<1>1. /\ n + 1 \notin DOMAIN fr /\ DOMAIN gr = DOMAIN fr \cup {n + 1} /\ gr[n + 1] = f
      /\ \A i \in DOMAIN fr : gr[i] = fr[i] /\ i \in Int /\ i < n + 1
      /\ n \in Nat
  BY Appended
<1> HIDE DEF gr, n
<1>2. \A i \in DOMAIN fr : ~IsEnd(fr[i])
  BY DEF Ended
<1>3. \A i \in DOMAIN gr : IsEnd(gr[i]) => i = n + 1
  BY <1>1, <1>2
<1>4. \A j \in DOMAIN gr : ~(n + 1 < j)
  BY <1>1
<1> QED BY <1>1, <1>3, <1>4 DEF EndsLast, gr

\* The filled update may overtake the last fill.
LEMMA EndOvertakes ==
  ASSUME NEW fr \in Seq(Frames), NEW u \in Frames, NEW f \in Frames, ~Ended(fr),
         IsEnd(u), u.status = "filled", u.filled = Size, IsFill(f), f.trade = Size
  PROVE  EndsLast(Size, fr \o <<u, f>>)
<1> DEFINE gr == fr \o <<u, f>>
           n == Len(fr)
<1>1. /\ n \in Nat /\ DOMAIN gr = 1 .. n + 2 /\ DOMAIN fr = 1 .. n
      /\ gr[n + 1] = u /\ gr[n + 2] = f /\ \A i \in 1 .. n : gr[i] = fr[i]
  BY BothAppended
<1> HIDE DEF gr, n
<1>2. \A i \in DOMAIN fr : ~IsEnd(fr[i])
  BY DEF Ended
<1>3. ~IsEnd(f)
  BY FrameKinds
<1>4. \A i \in DOMAIN gr : i \in 1 .. n \/ i = n + 1 \/ i = n + 2
  BY <1>1
<1>5. \A i \in DOMAIN gr : IsEnd(gr[i]) => i = n + 1
  BY <1>1, <1>2, <1>3, <1>4
<1>6. \A j \in DOMAIN gr : n + 1 < j => j = (n + 1) + 1
  BY <1>1
<1>7. gr[(n + 1) + 1] = f
  BY <1>1
<1> QED BY <1>1, <1>5, <1>6, <1>7 DEF EndsLast, gr

LEMMA BothInTurn ==
  ASSUME NEW fr \in Seq(Frames), NEW f \in Frames, NEW g \in Frames
  PROVE  fr \o <<f, g>> = Append(Append(fr, f), g)
<1> DEFINE a == fr \o <<f, g>>
           b == Append(Append(fr, f), g)
           n == Len(fr)
<1>1. /\ a \in Seq(Frames) /\ n \in Nat /\ Len(a) = n + 2
      /\ \A i \in 1 .. n : a[i] = fr[i]
      /\ a[n + 1] = f /\ a[n + 2] = g
  BY BothAppended
<1>2. /\ Append(fr, f) \in Seq(Frames) /\ Len(Append(fr, f)) = n + 1
      /\ \A i \in 1 .. n : Append(fr, f)[i] = fr[i]
      /\ Append(fr, f)[n + 1] = f
  BY Appended
<1>3. /\ b \in Seq(Frames) /\ Len(b) = (n + 1) + 1
      /\ \A i \in 1 .. n + 1 : b[i] = Append(fr, f)[i]
      /\ b[(n + 1) + 1] = g
  BY <1>2, Appended
<1>4. \A i \in 1 .. n + 2 : a[i] = b[i]
  <2> SUFFICES ASSUME NEW i \in 1 .. n + 2 PROVE a[i] = b[i]
    OBVIOUS
  <2> HIDE DEF a, b, n
  <2>1. CASE i \in 1 .. n
    BY <1>1, <1>2, <1>3, <2>1
  <2>2. CASE i = n + 1
    BY <1>1, <1>2, <1>3, <2>2
  <2>3. CASE i = n + 2
    BY <1>1, <1>2, <1>3, <2>3
  <2> QED BY <1>1, <2>1, <2>2, <2>3
<1>5. Len(a) = n + 2 /\ Len(b) = n + 2 /\ a \in Seq(Frames) /\ b \in Seq(Frames)
  BY <1>1, <1>3
<1> HIDE DEF a, b, n
<1>7. a = b
  BY <1>4, <1>5, SeqEqual
<1> QED BY <1>7 DEF a, b

-----------------------------------------------------------------------------
(* Contexts of a strategy whose telemetry writer is up *)

\* A callback of a strategy without faults, before anything has failed.
Working(c) == c \in Contexts /\ Own(c) /\ Unlimited(c)

\* The stages of d are those of c: only what they do not look at is changed.
Apart(c, d) ==
  /\ d.account = c.account /\ d.seen = c.seen /\ d.issued.probes = c.issued.probes
  /\ d.writerUp = c.writerUp /\ d.shutdown.signal = c.shutdown.signal
  /\ d.rest.worker = c.rest.worker /\ d.rest.unread = c.rest.unread
  /\ d.rest.stale = c.rest.stale /\ d.fuel = c.fuel
Alike(c, d) ==
  /\ Apart(c, d) /\ d.probe = c.probe /\ d.markouts = c.markouts
  /\ d.cooling = c.cooling /\ d.wire = c.wire

LEMMA AlikeRefl ==
  ASSUME NEW c
  PROVE  Alike(c, c) /\ Apart(c, c)
BY DEF Alike, Apart

LEMMA ApartTrans ==
  ASSUME NEW c, NEW d, NEW e, Apart(c, d), Apart(d, e)
  PROVE  Apart(c, e)
BY DEF Apart

LEMMA AlikeTrans ==
  ASSUME NEW c, NEW d, NEW e, Alike(c, d), Alike(d, e)
  PROVE  Alike(c, e)
BY ApartTrans DEF Alike

\* What Common says does not depend on the probe.
LEMMA CommonKept ==
  ASSUME NEW c, NEW d, NEW N, Common(c, N), Apart(c, d), c.wire \subseteq d.wire,
         \A m \in d.markouts : ~m.done,
         \A r \in d.wire \ c.wire : r[1] = "flatten" => r[2][1] = "flatten"
  PROVE  Common(d, N)
BY DEF Common, Apart

LEMMA CountedAlike ==
  ASSUME NEW c, NEW d, NEW N, d.rest.stale = c.rest.stale
  PROVE  Counted(d, N) <=> Counted(c, N)
BY DEF Counted

LEMMA OverAlike ==
  ASSUME NEW c, NEW d, NEW N, Over(c, N), \A r \in d.wire \ c.wire : r[1] # "place"
  PROVE  Over(d, N)
BY DEF Over, NoPlace

\* A context of a probe whose orders are gone.
Gone(c, N) == IF Active(c) THEN Spent(c, N) ELSE Idle(c, N)

\* The end of a probe with nothing left, and whatever else a callback does to one.
LEMMA SpentEnds ==
  ASSUME NEW c, NEW d, NEW N, Spent(c, N), ~Active(d), d.cooling, d.cooling \in BOOLEAN,
         ReadZero(d, N), \A r \in d.wire \ c.wire : r[1] # "place"
  PROVE  Gone(d, N)
BY OverAlike DEF Spent, Gone, Idle

LEMMA SpentKept ==
  ASSUME NEW c, NEW d, NEW N, Spent(c, N), Active(d), d.probe.cum = c.probe.cum,
         ReadZero(c, N) => ReadZero(d, N),
         \A r \in d.wire \ c.wire : r[1] # "place"
  PROVE  Gone(d, N)
BY OverAlike DEF Spent, Gone

LEMMA IdleKept ==
  ASSUME NEW c, NEW d, NEW N, Idle(c, N), ~Active(d), c.cooling => d.cooling,
         ReadZero(c, N) => ReadZero(d, N), d.wire = c.wire
  PROVE  Gone(d, N)
<1>1. Over(d, N)
  BY OverAlike DEF Idle
<1> QED BY <1>1 DEF Idle, Gone

\* The other stages do not look at the cooldown, and at the markouts only while
\* a fill is known and more may come.
LEMMA PlacedKept ==
  ASSUME NEW c, NEW d, NEW N, Placed(c, N), Apart(c, d), d.probe = c.probe, d.wire = c.wire
  PROVE  Placed(d, N)
BY CountedAlike DEF Placed, Apart, ReadZero

LEMMA EarlyKept ==
  ASSUME NEW c, NEW d, NEW N, Early(c, N), Apart(c, d), d.probe = c.probe, d.wire = c.wire,
         d.markouts = c.markouts \/ c.probe.cum = 0, c.probe.cum \in Nat
  PROVE  Early(d, N)
<1>1. d.account = c.account /\ d.seen = c.seen /\ (Counted(d, N) <=> Counted(c, N))
  BY CountedAlike DEF Apart
<1>2. Bound(d, N)
  BY DEF Early, Bound, NoPlace
<1>3. Worth(d, N)
  BY <1>1 DEF Early, Worth, Whole
<1>4. d.probe.cum > 0 => d.markouts # {}
  BY DEF Early
<1> QED BY <1>1, <1>2, <1>3, <1>4 DEF Early

LEMMA SettlingKept ==
  ASSUME NEW c, NEW d, NEW N, Settling(c, N), Apart(c, d), d.probe = c.probe, d.wire = c.wire,
         d.markouts = c.markouts \/ ~Filling(N.frames)
  PROVE  Settling(d, N)
<1>1. d.account = c.account /\ d.seen = c.seen /\ (Counted(d, N) <=> Counted(c, N))
  BY CountedAlike DEF Apart
<1>2. Bound(d, N)
  BY DEF Settling, Bound, NoPlace
<1>3. (Flattening(c) <=> Flattening(d)) /\ (Asked(c) <=> Asked(d)) /\ (Whole(c, N) <=> Whole(d, N))
  BY <1>1 DEF Flattening, Asked, Whole
<1>4. \A i \in DOMAIN N.frames : IsFill(N.frames[i]) => LastFill(d, N, N.frames[i])
  BY <1>1, <1>3 DEF Settling, LastFill, Filling
<1> QED BY <1>1, <1>2, <1>3, <1>4 DEF Settling

LEMMA GoodStages ==
  ASSUME NEW c, NEW N
  PROVE  /\ Good(c, N) => /\ Common(c, N)
                          /\ \/ Gone(c, N)
                             \/ Active(c) /\ (Placed(c, N) \/ Early(c, N) \/ Settling(c, N))
         /\ Common(c, N) /\ Gone(c, N) => Good(c, N)
         /\ Common(c, N) /\ Active(c) /\ (Placed(c, N) \/ Early(c, N) \/ Settling(c, N))
              => Good(c, N)
BY DEF Good, Gone

-----------------------------------------------------------------------------
(* Operators of a working strategy *)

LEMMA RecordNothing ==
  ASSUME NEW c, Unlimited(c), NEW n
  PROVE  Record(c, n) = c /\ Offer(c, n) = c
BY DEF Record, Offer

LEMMA UnlimitedKept ==
  ASSUME NEW c, Unlimited(c), NEW d, d.fuel = c.fuel
  PROVE  Unlimited(d)
BY DEF Unlimited

LEMMA RequestRestAlike ==
  ASSUME NEW c \in Contexts
  PROVE  Alike(c, RequestRest(c)) /\ RequestRest(c).err = c.err
<1>1. c.rest \in RestRecords
  BY DEF Contexts, GateRests
<1>2. RequestRest(c) \in {c, [c EXCEPT !.rest = [c.rest EXCEPT !.pending = TRUE, !.queued = TRUE]]}
  BY <1>1 DEF RequestRest, Contexts, RestRecords
<1>3. CASE RequestRest(c) = c
  BY <1>3, AlikeRefl
<1>4. CASE RequestRest(c) = [c EXCEPT !.rest = [c.rest EXCEPT !.pending = TRUE, !.queued = TRUE]]
  <2> DEFINE r == [c.rest EXCEPT !.pending = TRUE, !.queued = TRUE]
  <2>1. r.worker = c.rest.worker /\ r.unread = c.rest.unread /\ r.stale = c.rest.stale
    BY <1>1 DEF RestRecords
  <2> HIDE DEF r
  <2>2. RequestRest(c) = [c EXCEPT !.rest = r]
    BY <1>4 DEF r
  <2>3. RequestRest(c).rest = r
    BY <2>2 DEF Contexts
  <2>4. /\ RequestRest(c).account = c.account /\ RequestRest(c).seen = c.seen
        /\ RequestRest(c).issued = c.issued /\ RequestRest(c).writerUp = c.writerUp
        /\ RequestRest(c).shutdown = c.shutdown /\ RequestRest(c).fuel = c.fuel
        /\ RequestRest(c).probe = c.probe /\ RequestRest(c).markouts = c.markouts
        /\ RequestRest(c).cooling = c.cooling /\ RequestRest(c).wire = c.wire
        /\ RequestRest(c).err = c.err
    BY <2>2 DEF Contexts
  <2> QED BY <2>1, <2>3, <2>4 DEF Alike, Apart
<1> QED BY <1>2, <1>3, <1>4

LEMMA RequestThrottledAlike ==
  ASSUME NEW c \in Contexts, NEW t
  PROVE  Alike(c, RequestThrottled(c, t)) /\ RequestThrottled(c, t).err = c.err
BY RequestRestAlike, AlikeRefl DEF RequestThrottled

\* A probe is finished without an error, and a cooldown starts.
LEMMA FinishProbeDoes ==
  ASSUME NEW c \in Contexts, Unlimited(c), ~c.err
  PROVE  LET d == FinishProbe(c) IN
         /\ Apart(c, d) /\ d.probe = NoProbe /\ d.cooling = TRUE /\ ~Active(d)
         /\ d.wire = c.wire /\ d.markouts = c.markouts /\ d.err = c.err
<1> DEFINE g == [c EXCEPT !.probe = NoProbe]
<1>1. /\ g.probe = NoProbe /\ g.cooling = c.cooling /\ g.err = c.err /\ g.fuel = c.fuel
      /\ g.account = c.account /\ g.seen = c.seen /\ g.issued = c.issued /\ g.writerUp = c.writerUp
      /\ g.shutdown = c.shutdown /\ g.rest = c.rest /\ g.wire = c.wire /\ g.markouts = c.markouts
      /\ g \in Contexts
  BY WithProbe, NoProbeGood DEF Contexts
<1> HIDE DEF g
<1>2. Record(g, 1) = g
  BY <1>1, RecordNothing, UnlimitedKept
<1>3. FinishProbe(c) = [g EXCEPT !.cooling = @ \/ ~g.err]
  BY <1>2 DEF FinishProbe, g
<1>4. (g.cooling \/ ~g.err) = TRUE
  BY <1>1, ContextParts
<1>5. FinishProbe(c) = [g EXCEPT !.cooling = TRUE]
  BY <1>3, <1>4
<1> QED BY <1>1, <1>5 DEF Contexts, Apart, Active, NoProbe

Cancelled(c, d) ==
  /\ d.wire = c.wire \cup {<<"cancel", c.probe.oid, 0>>}
  /\ d.probe.phase = "CancelPending" /\ d.probe.cancelReq = TRUE
  /\ d.probe.late = (c.probe.late /\ c.probe.phase = "CancelPending")
  /\ d.probe.id = c.probe.id /\ d.probe.oid = c.probe.oid /\ d.probe.rem = c.probe.rem
  /\ d.probe.flatOid = c.probe.flatOid

LEMMA CancelActiveDoes ==
  ASSUME NEW c \in Contexts, Unlimited(c), Active(c), NEW send \in BOOLEAN, send
  PROVE  LET d == CancelActive(c, send) IN
         /\ Apart(c, d) /\ d.markouts = c.markouts /\ d.cooling = c.cooling
         /\ Active(d) /\ d.probe.cum = c.probe.cum /\ d.err = c.err
         /\ IF c.err THEN d = c
            ELSE IF c.probe.oid = NoOid THEN d.wire = c.wire
            ELSE IF c.probe.cancelReq THEN d = c
            ELSE Cancelled(c, d)
<1> DEFINE p == c.probe
           cancelled == [Enter(p, "CancelPending") EXCEPT
                           !.cancelReq = TRUE, !.armed = @ \cup {"cancel"},
                           !.terminal = IF @ = "current" THEN "stale" ELSE @]
           d == CancelActive(c, send)
<1>1. p \in ProbeRecords
  BY ContextParts
<1>2. CASE c.err
  BY <1>2, AlikeRefl DEF CancelActive
<1>3. CASE ~c.err /\ p.oid = NoOid
  <2> DEFINE e == [c EXCEPT !.probe = Recover(p)]
  <2>1. d = RequestRest(e)
    BY <1>3 DEF CancelActive
  <2>2. e \in Contexts /\ Apart(c, e) /\ e.probe = Recover(p) /\ e.wire = c.wire
        /\ e.markouts = c.markouts /\ e.cooling = c.cooling /\ e.err = c.err
    BY <1>1, WithProbe, RecoverGood DEF Contexts, Apart
  <2>3. Recover(p).phase = "Recovering" /\ Recover(p).cum = p.cum
    BY <1>1 DEF Recover, ProbeRecords
  <2> HIDE DEF e
  <2>4. Alike(e, d) /\ d.err = e.err
    BY <2>1, <2>2, RequestRestAlike
  <2>5. Apart(c, d) /\ d.probe = Recover(p) /\ d.wire = c.wire /\ d.markouts = c.markouts
        /\ d.cooling = c.cooling
    BY <2>2, <2>4, ApartTrans DEF Alike
  <2> QED BY <1>3, <2>2, <2>3, <2>4, <2>5 DEF Active
<1>4. CASE ~c.err /\ p.oid # NoOid /\ p.cancelReq
  BY <1>4, AlikeRefl DEF CancelActive, CancelAsked
<1>5. CASE ~c.err /\ p.oid # NoOid /\ ~p.cancelReq
  <2> DEFINE request == <<"cancel", p.oid, 0>>
  <2>1. d = [c EXCEPT !.wire = c.wire \cup {request}, !.probe = cancelled, !.err = FALSE]
    <3>1. d = Dispatch(c, request, cancelled, send)
      BY <1>5 DEF CancelActive, CancelAsked
    <3>2. Offer(c, 2) = c /\ (c.fuel < 2) = FALSE
      BY RecordNothing DEF Unlimited, RecordLimit
    <3> HIDE DEF d, cancelled, request
    <3> QED BY <3>1, <3>2 DEF Dispatch
  <2>2. /\ cancelled.phase = "CancelPending" /\ cancelled.cancelReq = TRUE
        /\ cancelled.late = (p.late /\ p.phase = "CancelPending")
        /\ cancelled.id = p.id /\ cancelled.oid = p.oid /\ cancelled.rem = p.rem
        /\ cancelled.flatOid = p.flatOid /\ cancelled.cum = p.cum
    BY <1>1 DEF Enter, ProbeRecords
  <2> HIDE DEF cancelled, d, request
  <2>3. Apart(c, d) /\ d.probe = cancelled /\ d.wire = c.wire \cup {request}
        /\ d.markouts = c.markouts /\ d.cooling = c.cooling /\ d.err = FALSE
    BY <2>1 DEF Contexts, Apart
  <2>4. c.err = FALSE
    BY <1>5, ContextParts
  <2>5. Cancelled(c, d)
    BY <2>2, <2>3 DEF Cancelled, request
  <2>6. Active(d) /\ d.probe.cum = p.cum /\ d.err = c.err
    BY <2>2, <2>3, <2>4 DEF Active
  <2> HIDE DEF p
  <2>7. /\ Apart(c, d) /\ d.markouts = c.markouts /\ d.cooling = c.cooling
        /\ Active(d) /\ d.probe.cum = c.probe.cum /\ d.err = c.err
        /\ IF c.err THEN d = c
           ELSE IF c.probe.oid = NoOid THEN d.wire = c.wire
           ELSE IF c.probe.cancelReq THEN d = c
           ELSE Cancelled(c, d)
    BY <1>5, <2>3, <2>5, <2>6 DEF p
  <2> QED BY <2>7 DEF d
<1> QED BY <1>2, <1>3, <1>4, <1>5

Unsampled(c) == \E m \in c.markouts : m.probe = c.probe.id

\* A flatten is sent for all that the account shows.
Flattened(c, d) ==
  /\ \E n \in Nat : d.wire = c.wire \cup {<<"flatten", Flatten(n), c.account.inv>>}
  /\ d.probe.phase = "FlattenPending"
  /\ d.probe.late = (c.probe.late /\ c.probe.phase = "FlattenPending")
  /\ d.probe.id = c.probe.id /\ d.probe.oid = c.probe.oid /\ d.probe.rem = c.probe.rem
  /\ d.probe.flatOid = c.probe.flatOid

LEMMA MaybeFlattenDoes ==
  ASSUME NEW c \in Contexts, Unlimited(c), NEW risk \in BOOLEAN,
         NEW t \in TickRecords, t.send
  PROVE  LET d == MaybeFlatten(c, risk, t) IN
         /\ Apart(c, d) /\ d.markouts = c.markouts /\ d.cooling = c.cooling
         /\ d.probe.cum = c.probe.cum
         /\ \/ Alike(c, d)
            \/ /\ Active(c) /\ Active(d) /\ c.probe.phase # "FlattenPending"
               /\ risk \/ ~Unsampled(c)
               /\ c.account.inv # 0 /\ Flattened(c, d)
<1> DEFINE p == c.probe
           n == c.issued.flattens + 1
           flattening == [Enter(p, "FlattenPending") EXCEPT
                            !.flatReq = n, !.armed = @ \cup {"flatten"}]
           d == MaybeFlatten(c, risk, t)
           e == [c EXCEPT !.issued.flattens = n]
<1>1. p \in ProbeRecords /\ n \in Nat /\ t.send \in BOOLEAN
  BY ContextParts DEF Counters, TickRecords
<1>2. CASE c.err \/ ~Active(c) \/ p.phase = "FlattenPending" \/ (~risk /\ Unsampled(c))
  <2>1. d = c
    BY <1>2 DEF MaybeFlatten, Unsampled
  <2> QED BY <2>1, AlikeRefl
<1>3. CASE ~(c.err \/ ~Active(c) \/ p.phase = "FlattenPending" \/ (~risk /\ Unsampled(c)))
  <2>1. CASE c.account.inv = 0
    <3>1. d \in {c, RequestThrottled(c, t)}
      BY <1>3, <2>1 DEF MaybeFlatten, Unsampled
    <3>2. Alike(c, d)
      BY <3>1, AlikeRefl, RequestThrottledAlike
    <3> QED BY <3>2 DEF Alike
  <2>2. CASE c.account.inv # 0 /\ t.view = "none"
    <3>1. d = [c EXCEPT !.err = TRUE]
      BY <1>3, <2>2 DEF MaybeFlatten, Unsampled
    <3>2. Alike(c, d)
      BY <3>1 DEF Contexts, Alike, Apart
    <3> QED BY <3>2 DEF Alike
  <2>3. CASE c.account.inv # 0 /\ t.view # "none"
    <3> DEFINE request == <<"flatten", Flatten(n), c.account.inv>>
    <3>1. d = [e EXCEPT !.wire = e.wire \cup {request}, !.probe = flattening, !.err = FALSE]
      <4>1. d = Dispatch(e, request, flattening, t.send)
        BY <1>3, <2>3 DEF MaybeFlatten, Unsampled
      <4>2. Unlimited(e)
        BY DEF Unlimited, Contexts
      <4> HIDE DEF e
      <4>3. Offer(e, 2) = e /\ (e.fuel < 2) = FALSE
        BY <4>2, RecordNothing DEF Unlimited, RecordLimit
      <4> HIDE DEF d, flattening, request
      <4> QED BY <1>1, <4>1, <4>3 DEF Dispatch
    <3>2. /\ e \in Contexts /\ Apart(c, e) /\ e.wire = c.wire /\ e.markouts = c.markouts
          /\ e.cooling = c.cooling /\ Unlimited(e)
      BY <1>1, ContextParts DEF Contexts, Counters, Apart, Unlimited
    <3>3. /\ flattening.phase = "FlattenPending"
          /\ flattening.late = (p.late /\ p.phase = "FlattenPending")
          /\ flattening.id = p.id /\ flattening.oid = p.oid /\ flattening.rem = p.rem
          /\ flattening.flatOid = p.flatOid /\ flattening.cum = p.cum
      BY <1>1 DEF Enter, ProbeRecords
    <3> HIDE DEF e, flattening, n, d, request
    <3>4. /\ Apart(e, d) /\ d.probe = flattening /\ d.markouts = e.markouts /\ d.cooling = e.cooling
          /\ d.wire = e.wire \cup {request}
      BY <3>1, <3>2 DEF Contexts, Apart
    <3>5. Flattened(c, d)
      BY <1>1, <3>2, <3>3, <3>4 DEF Flattened, request
    <3> QED BY <1>3, <2>3, <3>2, <3>3, <3>4, <3>5, ApartTrans DEF Active, Unsampled, d
  <2> QED BY <2>1, <2>2, <2>3
<1> QED BY <1>2, <1>3

-----------------------------------------------------------------------------
(* What a callback does to a probe *)

\* The probe stays, with what it knows of its order; nothing is placed.
Stays(c, d) ==
  /\ Apart(c, d) /\ d.cooling = c.cooling /\ d.markouts \subseteq c.markouts
  /\ Active(d) <=> Active(c)
  /\ d.probe.cum = c.probe.cum
  /\ c.wire \subseteq d.wire
  /\ \A r \in d.wire \ c.wire : r[1] # "place" /\ (r[1] = "flatten" => r[2][1] = "flatten")
  /\ ~Active(c) => d.wire = c.wire

LEMMA StaysTrans ==
  ASSUME NEW c, NEW d, NEW e, Stays(c, d), Stays(d, e)
  PROVE  Stays(c, e)
<1>1. Apart(c, e)
  BY ApartTrans DEF Stays
<1>2. c.wire \subseteq e.wire
  BY DEF Stays
<1>3. \A r \in e.wire \ c.wire : r[1] # "place" /\ (r[1] = "flatten" => r[2][1] = "flatten")
  BY DEF Stays
<1> QED BY <1>1, <1>2, <1>3 DEF Stays

LEMMA AlikeStays ==
  ASSUME NEW c, NEW d, Alike(c, d)
  PROVE  Stays(c, d)
BY DEF Alike, Stays, Active

LEMMA StaysCommon ==
  ASSUME NEW c, NEW d, NEW N, Stays(c, d), Common(c, N)
  PROVE  Common(d, N)
BY CommonKept DEF Stays, Common

LEMMA StaysGone ==
  ASSUME NEW c, NEW d, NEW N, Stays(c, d), Gone(c, N)
  PROVE  Gone(d, N)
<1>1. ReadZero(c, N) => ReadZero(d, N)
  BY CountedAlike DEF ReadZero, Stays, Apart
<1>2. CASE Active(c)
  BY <1>1, <1>2, SpentKept DEF Gone, Stays
<1>3. CASE ~Active(c)
  BY <1>1, <1>3, IdleKept DEF Gone, Stays
<1> QED BY <1>2, <1>3

LEMMA AlikeGood ==
  ASSUME NEW c \in Contexts, NEW d, NEW N, Good(c, N), Alike(c, d)
  PROVE  Good(d, N)
<1>1. /\ Apart(c, d) /\ d.probe = c.probe /\ d.wire = c.wire /\ d.markouts = c.markouts
      /\ (Active(d) <=> Active(c)) /\ c.probe.cum \in Nat
  BY ContextParts DEF Alike, Active, ProbeRecords
<1>2. Common(d, N)
  BY AlikeStays, StaysCommon, GoodStages
<1>3. CASE Gone(c, N)
  BY <1>2, <1>3, AlikeStays, StaysGone, GoodStages
<1>4. CASE Active(c) /\ Placed(c, N)
  BY <1>1, <1>2, <1>4, PlacedKept, GoodStages
<1>5. CASE Active(c) /\ Early(c, N)
  BY <1>1, <1>2, <1>5, EarlyKept, GoodStages
<1>6. CASE Active(c) /\ Settling(c, N)
  BY <1>1, <1>2, <1>6, SettlingKept, GoodStages
<1> QED BY <1>3, <1>4, <1>5, <1>6, GoodStages

LEMMA CancelStays ==
  ASSUME NEW c \in Contexts, Unlimited(c), Active(c), NEW send \in BOOLEAN, send
  PROVE  Stays(c, CancelActive(c, send))
<1> DEFINE d == CancelActive(c, send)
<1>1. /\ Apart(c, d) /\ d.markouts = c.markouts /\ d.cooling = c.cooling
      /\ Active(d) /\ d.probe.cum = c.probe.cum
      /\ d = c \/ d.wire = c.wire \/ Cancelled(c, d)
  BY CancelActiveDoes
<1> HIDE DEF d
<1>2. d.wire \subseteq c.wire \cup {<<"cancel", c.probe.oid, 0>>} /\ c.wire \subseteq d.wire
  BY <1>1 DEF Cancelled
<1>3. Stays(c, d)
  BY <1>1, <1>2 DEF Stays
<1> QED BY <1>3 DEF d

LEMMA FlattenStays ==
  ASSUME NEW c \in Contexts, Unlimited(c), NEW risk \in BOOLEAN,
         NEW t \in TickRecords, t.send
  PROVE  Stays(c, MaybeFlatten(c, risk, t))
<1> DEFINE d == MaybeFlatten(c, risk, t)
<1>1. /\ Apart(c, d) /\ d.markouts = c.markouts /\ d.cooling = c.cooling
      /\ d.probe.cum = c.probe.cum
      /\ Alike(c, d) \/ (Active(c) /\ Active(d) /\ Flattened(c, d))
  BY MaybeFlattenDoes
<1> HIDE DEF d
<1>2. CASE Alike(c, d)
  BY <1>2, AlikeStays DEF d
<1>3. CASE Active(c) /\ Active(d) /\ Flattened(c, d)
  <2>1. PICK n \in Nat : d.wire = c.wire \cup {<<"flatten", Flatten(n), c.account.inv>>}
    BY <1>3 DEF Flattened
  <2>2. Flatten(n)[1] = "flatten"
    BY DEF Flatten
  <2>3. Stays(c, d)
    BY <1>1, <1>3, <2>1, <2>2 DEF Stays
  <2> QED BY <2>3 DEF d
<1> QED BY <1>1, <1>2, <1>3

LEMMA UnmarkedStays ==
  ASSUME NEW c \in Contexts
  PROVE  LET g == [c EXCEPT !.markouts = {}] IN
         /\ Stays(c, g) /\ g.markouts = {} /\ g.probe = c.probe /\ g.wire = c.wire
         /\ g.fuel = c.fuel /\ g.err = c.err /\ Apart(c, g)
BY DEF Contexts, Stays, Apart, Active

LEMMA GuardStays ==
  ASSUME NEW c \in Contexts, Unlimited(c), NEW t \in TickRecords, t.send
  PROVE  Stays(c, GuardInventory(c, t))
<1> DEFINE g == [c EXCEPT !.markouts = {}]
<1>1. g \in Contexts /\ Stays(c, g) /\ Unlimited(g)
  BY NoMarks, UnmarkedStays DEF Unlimited
<1> HIDE DEF g
<1>2. GuardInventory(c, t) = c \/ GuardInventory(c, t) = MaybeFlatten(g, TRUE, t)
  BY DEF GuardInventory, g
<1>3. Stays(g, MaybeFlatten(g, TRUE, t))
  BY <1>1, FlattenStays
<1>4. Stays(c, MaybeFlatten(g, TRUE, t))
  BY <1>1, <1>3, StaysTrans
<1>5. Stays(c, c)
  BY AlikeRefl, AlikeStays
<1> QED BY <1>2, <1>4, <1>5

LEMMA FuelKept ==
  ASSUME NEW c, NEW d, Unlimited(c), Stays(c, d)
  PROVE  Unlimited(d)
BY DEF Unlimited, Stays, Apart

\* A probe that goes on recovering after its deadline.
LEMMA RecoverStays ==
  ASSUME NEW c \in Contexts, Active(c)
  PROVE  LET g == [c EXCEPT !.probe = Recover(c.probe)] IN
         g \in Contexts /\ Stays(c, g) /\ g.err = c.err
<1> DEFINE q == Recover(c.probe)
<1>1. q \in GoodProbes /\ q.phase = "Recovering" /\ q.cum = c.probe.cum
  BY ContextParts, RecoverGood DEF Recover, ProbeRecords
<1> HIDE DEF q
<1>2. [c EXCEPT !.probe = q] \in Contexts
  BY <1>1, WithProbe
<1> QED BY <1>1, <1>2 DEF Contexts, Stays, Apart, Active, q

LEMMA EvaluateRestingStays ==
  ASSUME NEW c \in Contexts, Unlimited(c), Active(c), NEW t \in TickRecords, t.send
  PROVE  Stays(c, EvaluateResting(c, t))
<1>1. EvaluateResting(c, t) \in {CancelActive(c, t.send), GuardInventory(c, t)}
  BY RecordNothing DEF EvaluateResting
<1>2. t.send \in BOOLEAN
  BY DEF TickRecords
<1> QED BY <1>1, <1>2, CancelStays, GuardStays

LEMMA GuardedStays ==
  ASSUME NEW c \in Contexts, Unlimited(c), NEW d \in Contexts, Stays(c, d),
         NEW t \in TickRecords, t.send
  PROVE  Stays(c, GuardInventory(d, t))
BY GuardStays, StaysTrans, FuelKept

\* Without news, a probe ends only when its cancelled order had not traded.
LEMMA EvaluateStays ==
  ASSUME NEW c \in Contexts, Unlimited(c), NEW t \in TickRecords, t.send
  PROVE  \/ Stays(c, EvaluateActive(c, t))
         \/ /\ EvaluateActive(c, t) = FinishProbe(c) /\ ~c.err /\ Active(c)
            /\ c.probe.phase = "Recovering" /\ c.probe.cum = 0
<1> DEFINE d == EvaluateActive(c, t)
           p == c.probe
<1>1. CASE c.err \/ ~Active(c)
  BY <1>1, AlikeRefl, AlikeStays DEF EvaluateActive
<1>2. CASE /\ ~(c.err \/ ~Active(c)) /\ p.late
           /\ p.phase \in {"PlacePending", "PostAccepted", "CancelPending", "FlattenPending"}
  <2> DEFINE g == [c EXCEPT !.probe = Recover(p)]
             e == RequestRest(g)
  <2>1. g \in Contexts /\ Stays(c, g)
    BY <1>2, RecoverStays
  <2>2. d = Record(e, 1)
    BY <1>2 DEF EvaluateActive
  <2> HIDE DEF g
  <2>3. Stays(g, e)
    BY <2>1, RequestRestAlike, AlikeStays
  <2>4. Stays(c, e)
    BY <2>1, <2>3, StaysTrans
  <2>5. d = e
    BY <2>2, <2>4, FuelKept, RecordNothing
  <2> QED BY <2>4, <2>5
<1>3. CASE ~(c.err \/ ~Active(c)) /\ p.late /\ p.phase = "Recovering"
  <2>1. d = IF WsConfirmsFlat(c) THEN FinishProbe(Record(c, 1))
            ELSE GuardInventory(RequestThrottled(c, t), t)
    BY <1>3 DEF EvaluateActive
  <2>2. CASE WsConfirmsFlat(c)
    <3>1. Record(c, 1) = c
      BY RecordNothing
    <3> QED BY <1>3, <2>1, <2>2, <3>1 DEF WsConfirmsFlat
  <2>3. CASE ~WsConfirmsFlat(c)
    <3>1. Stays(c, RequestThrottled(c, t)) /\ RequestThrottled(c, t) \in Contexts
      BY RequestThrottledAlike, AlikeStays, RequestThrottledContext
    <3> QED BY <2>1, <2>3, <3>1, GuardedStays
  <2> QED BY <2>2, <2>3
<1>4. CASE /\ ~(c.err \/ ~Active(c)) /\ ~(p.late /\ p.phase = "Recovering")
           /\ ~(p.late /\ p.phase \in {"PlacePending", "PostAccepted", "CancelPending",
                                       "FlattenPending"})
  <2>1. CASE p.phase \in {"Resting", "Partial"}
    <3>1. d = EvaluateResting(c, t)
      BY <1>4, <2>1 DEF EvaluateActive
    <3> QED BY <1>4, <3>1, EvaluateRestingStays
  <2>2. CASE p.phase \in {"MarkoutPending", "Filled"}
    <3>1. d = GuardInventory(MaybeFlatten(c, FALSE, t), t)
      BY <1>4, <2>2 DEF EvaluateActive
    <3>2. Stays(c, MaybeFlatten(c, FALSE, t)) /\ MaybeFlatten(c, FALSE, t) \in Contexts
      BY FlattenStays, MaybeFlattenContext
    <3> QED BY <3>1, <3>2, GuardedStays
  <2>3. CASE p.phase \notin {"Resting", "Partial", "MarkoutPending", "Filled"}
    <3>1. d = GuardInventory(c, t)
      BY <1>4, <2>3 DEF EvaluateActive
    <3> QED BY <3>1, GuardStays
  <2> QED BY <2>1, <2>2, <2>3
<1> QED BY <1>1, <1>2, <1>3, <1>4

LEMMA EvaluateGone ==
  ASSUME NEW c \in Contexts, Unlimited(c), NEW t \in TickRecords, t.send,
         NEW N, Common(c, N), Gone(c, N)
  PROVE  Common(EvaluateActive(c, t), N) /\ Gone(EvaluateActive(c, t), N)
<1> DEFINE d == EvaluateActive(c, t)
<1>1. CASE Stays(c, d)
  BY <1>1, StaysCommon, StaysGone
<1>2. CASE d = FinishProbe(c) /\ ~c.err /\ Active(c) /\ c.probe.cum = 0
  <2>1. /\ Apart(c, d) /\ d.cooling = TRUE /\ ~Active(d)
        /\ d.wire = c.wire /\ d.markouts = c.markouts
    BY <1>2, FinishProbeDoes
  <2> HIDE DEF d
  <2>2. Spent(c, N) /\ ReadZero(c, N)
    BY <1>2 DEF Gone, Spent
  <2>3. ReadZero(d, N)
    BY <2>1, <2>2, CountedAlike DEF ReadZero, Apart
  <2>4. Gone(d, N)
    BY <2>1, <2>2, <2>3, SpentEnds
  <2>5. Common(d, N)
    BY <2>1, CommonKept DEF Common
  <2> QED BY <2>4, <2>5 DEF d
<1> QED BY <1>1, <1>2, EvaluateStays

\* The guard of two orders is out of reach of one.
LEMMA GuardSilent ==
  ASSUME MaxInventory >= 2 * Size, NEW c \in Contexts, NEW t,
         0 <= c.account.inv, c.account.inv <= 2 * Size
  PROVE  GuardInventory(c, t) = c
<1>1. c.account.inv \in Int
  BY ContextParts DEF AccountRecords
<1>2. c.account.inv \in -MaxInventory .. MaxInventory
  BY <1>1, SizeAssumption, GuardAssumption
<1> QED BY <1>2 DEF GuardInventory

LEMMA EvaluatePlaced ==
  ASSUME MaxInventory >= 2 * Size, NEW c \in Contexts, NEW t, NEW N, Placed(c, N)
  PROVE  EvaluateActive(c, t) = c
<1>1. c.probe.phase = "PlacePending" /\ ~c.probe.late /\ c.account.inv = 0
  BY DEF Placed
<1>2. EvaluateActive(c, t) = c \/ EvaluateActive(c, t) = GuardInventory(c, t)
  BY <1>1 DEF EvaluateActive
<1>3. GuardInventory(c, t) = c
  BY <1>1, GuardSilent, SizeAssumption
<1> QED BY <1>2, <1>3

LEMMA MakerValues ==
  ASSUME NEW k \in Nat
  PROVE  Maker(k) # NoOid /\ Maker(k)[1] = "maker" /\ Maker(k)[2] = k /\ Maker(k) \in Oids
BY DEF Maker, NoOid, Oids

LEMMA WorthAlike ==
  ASSUME NEW c, NEW d, NEW N, Apart(c, d), d.probe.cum = c.probe.cum, Worth(c, N)
  PROVE  Worth(d, N)
<1>1. (Counted(d, N) <=> Counted(c, N)) /\ d.account = c.account
  BY CountedAlike DEF Apart
<1>2. Whole(c, N) => Whole(d, N)
  BY <1>1 DEF Whole
<1> QED BY <1>1, <1>2 DEF Worth

\* The probe asks for its cancel.
LEMMA EarlyCancels ==
  ASSUME NEW c \in Contexts, NEW d, NEW N, Early(c, N),
         ~Announced(N.frames),
         Apart(c, d), d.markouts = c.markouts, d.probe.cum = c.probe.cum, Cancelled(c, d)
  PROVE  Early(d, N)
<1>1. /\ d.wire = c.wire \cup {<<"cancel", Maker(c.probe.id), 0>>}
      /\ c.probe.oid = Maker(c.probe.id)
  BY DEF Early, Follow, Cancelled
<1>2. /\ d.probe.phase = "CancelPending" /\ d.probe.cancelReq = TRUE
      /\ d.probe.late = (c.probe.late /\ c.probe.phase = "CancelPending")
      /\ d.probe.id = c.probe.id /\ d.probe.oid = c.probe.oid /\ d.probe.rem = c.probe.rem
      /\ d.probe.flatOid = c.probe.flatOid /\ d.seen = c.seen /\ d.probe.cum = c.probe.cum
  BY DEF Cancelled, Apart
<1>3. Bound(d, N)
  BY <1>1, <1>2 DEF Early, Bound, NoPlace
<1>4. Follow(d.probe, d.wire, N.frames)
  <2>1. d.probe.late = FALSE
    BY <1>2 DEF Early, Follow
  <2> QED BY <1>1, <1>2, <2>1 DEF Early, Follow, EarlyPhases
<1>5. Worth(d, N)
  BY WorthAlike DEF Early
<1> QED BY <1>2, <1>3, <1>4, <1>5 DEF Early

LEMMA EvaluateEarly ==
  ASSUME MaxInventory >= 2 * Size, NEW c \in Contexts, Unlimited(c),
         NEW t \in TickRecords, t.send, NEW N, NetTyped(N), Early(c, N)
  PROVE  Early(EvaluateActive(c, t), N) /\ Active(EvaluateActive(c, t))
<1> DEFINE d == EvaluateActive(c, t)
           p == c.probe
<1>1. /\ p.phase \in EarlyPhases /\ Active(c) /\ p.id \in Nat
      /\ p.phase \in {"PlacePending", "PostAccepted"} <=> Announced(N.frames)
      /\ ~Announced(N.frames) => p.oid = Maker(p.id)
      /\ p.phase \notin {"Resting", "Partial"} => ~p.late
  BY ContextParts DEF Early, Follow, Active, EarlyPhases, ProbeRecords
<1>2. GuardInventory(c, t) = c
  <2>1. N.position \in Nat /\ N.position <= Size /\ p.cum \in Nat /\ c.account.inv \in Int
    BY ContextParts, SizeAssumption DEF NetTyped, Lots, ProbeRecords, AccountRecords
  <2>2. p.cum <= c.account.inv /\ c.account.inv <= N.position + p.cum
    BY DEF Early, Worth
  <2>3. p.cum <= N.position
    BY DEF Early, Stream, Traded, FillsFollow
  <2>4. 0 <= c.account.inv /\ c.account.inv <= 2 * Size
    BY <2>1, <2>2, <2>3, SizeAssumption
  <2> QED BY <2>4, GuardSilent
<1>3. CASE c.err \/ p.phase \notin {"Resting", "Partial"}
  <2>1. d = c
    BY <1>1, <1>2, <1>3 DEF EvaluateActive, EarlyPhases
  <2> QED BY <1>1, <2>1
<1>4. CASE ~c.err /\ p.phase \in {"Resting", "Partial"}
  <2>1. d = EvaluateResting(c, t)
    BY <1>1, <1>4 DEF EvaluateActive
  <2>2. d \in {c, CancelActive(c, t.send)}
    BY <1>2, <2>1, RecordNothing DEF EvaluateResting
  <2>3. CASE d = CancelActive(c, t.send)
    <3>1. t.send \in BOOLEAN
      BY DEF TickRecords
    <3>2. p.oid # NoOid /\ ~Announced(N.frames)
      BY <1>1, <1>4, MakerValues
    <3>3. /\ Apart(c, d) /\ d.markouts = c.markouts /\ Active(d) /\ d.probe.cum = c.probe.cum
          /\ d = c \/ Cancelled(c, d)
      BY <1>1, <1>4, <2>3, <3>1, <3>2, CancelActiveDoes
    <3> HIDE DEF d
    <3>4. Early(d, N)
      BY <3>2, <3>3, EarlyCancels
    <3> QED BY <3>3, <3>4 DEF d
  <2> QED BY <1>1, <2>2, <2>3
<1> QED BY <1>3, <1>4

-----------------------------------------------------------------------------
(* Flattening *)

\* Until the last fill is handled nothing is flattened, or all of it.
LEMMA SettlingFlattens ==
  ASSUME NEW c \in Contexts, NEW d, NEW N, NetTyped(N), Settling(c, N), Own(c), Active(c),
         Apart(c, d), d.markouts = c.markouts, d.probe.cum = c.probe.cum,
         c.probe.phase # "FlattenPending", c.account.inv # 0,
         ~Filling(N.frames) \/ ~Unsampled(c), Flattened(c, d)
  PROVE  Settling(d, N)
<1>1. PICK n \in Nat : d.wire = c.wire \cup {<<"flatten", Flatten(n), c.account.inv>>}
  BY DEF Flattened
<1> DEFINE r == <<"flatten", Flatten(n), c.account.inv>>
<1>2. /\ d.probe.phase = "FlattenPending"
      /\ d.probe.late = (c.probe.late /\ c.probe.phase = "FlattenPending")
      /\ d.probe.id = c.probe.id /\ d.probe.oid = c.probe.oid /\ d.probe.rem = c.probe.rem
      /\ d.probe.flatOid = c.probe.flatOid /\ d.seen = c.seen /\ d.probe.cum = c.probe.cum
      /\ d.account = c.account /\ (Counted(d, N) <=> Counted(c, N))
  BY CountedAlike DEF Flattened, Apart
<1>3. r[1] = "flatten" /\ r[3] = c.account.inv
  OBVIOUS
<1> HIDE DEF r
<1>4. d.wire = c.wire \cup {r}
  BY <1>1 DEF r
<1>5. Bound(d, N)
  BY <1>2, <1>3, <1>4 DEF Settling, Bound, NoPlace
<1>6. Whole(c, N) => Whole(d, N)
  BY <1>2 DEF Whole
<1>7. ASSUME NEW i \in DOMAIN N.frames, IsFill(N.frames[i])
      PROVE  LastFill(d, N, N.frames[i]) /\ N.position <= c.account.inv
  <2> DEFINE f == N.frames[i]
  <2>1. LastFill(c, N, f)
    BY <1>7 DEF Settling
  <2>2. ~Unsampled(c)
    BY <1>7 DEF Filling
  <2>3. c.markouts = {}
    BY <2>2 DEF Own, OwnMarks, Unsampled, Active
  <2>4. f.size = Size /\ Whole(c, N) /\ N.position = Size
    BY <2>1, <2>3 DEF LastFill
  <2>5. c.account.inv = Size
    BY <2>4 DEF Whole
  <2> HIDE DEF f
  <2>6. Size # 0
    BY SizeAssumption
  <2>7. LastFill(d, N, f)
    BY <1>2, <1>6, <2>1, <2>4, <2>5, <2>6 DEF LastFill
  <2>8. N.position <= c.account.inv
    BY <2>4, <2>5, SizeAssumption
  <2> QED BY <2>7, <2>8 DEF f
<1>8. N.position <= c.account.inv
  <2>1. CASE Filling(N.frames)
    BY <1>7, <2>1 DEF Filling
  <2>2. CASE ~Filling(N.frames)
    BY <2>2 DEF Settling
  <2> QED BY <2>1, <2>2
<1>9. \A q \in d.wire : q[1] = "flatten" => N.position <= q[3]
  BY <1>3, <1>4, <1>8 DEF Settling
<1>10. Flattening(d)
  BY <1>3, <1>4 DEF Flattening
<1>11. d.probe.late = FALSE
  BY <1>2
<1>12. /\ Rest(Maker(d.probe.id), N.position, N.frames)
       /\ NoLive(N) /\ N.position > 0 /\ d.probe.cum > 0 /\ d.probe.rem = 0
       /\ d.probe.oid = Maker(d.probe.id)
  BY <1>2 DEF Settling
<1>13. ~Filling(N.frames) =>
         N.position <= d.account.inv /\ (Counted(d, N) => N.position <= N.snap.inv)
  BY <1>2 DEF Settling
<1> QED BY <1>2, <1>5, <1>7, <1>9, <1>10, <1>11, <1>12, <1>13 DEF Settling

LEMMA SettlingMaybeFlattens ==
  ASSUME NEW c \in Contexts, Unlimited(c), Own(c), Active(c), NEW risk \in BOOLEAN,
         NEW t \in TickRecords, t.send, NEW N, NetTyped(N), Settling(c, N),
         ~Filling(N.frames) \/ ~risk
  PROVE  Settling(MaybeFlatten(c, risk, t), N)
<1> DEFINE d == MaybeFlatten(c, risk, t)
<1>1. /\ Apart(c, d) /\ d.markouts = c.markouts /\ d.probe.cum = c.probe.cum
      /\ \/ Alike(c, d)
         \/ /\ c.probe.phase # "FlattenPending" /\ (risk \/ ~Unsampled(c))
            /\ c.account.inv # 0 /\ Flattened(c, d)
  BY MaybeFlattenDoes
<1> HIDE DEF d
<1>2. CASE Alike(c, d)
  <2>1. Settling(d, N)
    BY <1>2, SettlingKept DEF Alike
  <2> QED BY <2>1 DEF d
<1>3. CASE c.probe.phase # "FlattenPending" /\ (risk \/ ~Unsampled(c))
           /\ c.account.inv # 0 /\ Flattened(c, d)
  <2>1. Settling(d, N)
    BY <1>1, <1>3, SettlingFlattens
  <2> QED BY <2>1 DEF d
<1> QED BY <1>1, <1>2, <1>3

\* The hard guard is out of reach until the last fill is handled.
LEMMA SettlingGuarded ==
  ASSUME MaxInventory >= 2 * Size, NEW c \in Contexts, Unlimited(c), Own(c), Active(c),
         NEW t \in TickRecords, t.send, NEW N, NetTyped(N), Settling(c, N)
  PROVE  Settling(GuardInventory(c, t), N)
<1>1. CASE Filling(N.frames)
  <2>1. PICK i \in DOMAIN N.frames : IsFill(N.frames[i])
    BY <1>1 DEF Filling
  <2>2. N.frames[i] \in Frames
    BY <2>1 DEF NetTyped
  <2>3. LastFill(c, N, N.frames[i]) /\ N.frames[i].trade = Size
    BY <2>1 DEF Settling, Rest
  <2>4. 0 <= Before(N.frames[i]) /\ Before(N.frames[i]) \in Int
    BY <2>1, <2>2, <2>3, FillFields, SizeAssumption
  <2>5. c.account.inv \in Int
    BY ContextParts DEF AccountRecords
  <2>6. 0 <= c.account.inv /\ c.account.inv <= 2 * Size
    BY <2>3, <2>4, <2>5 DEF LastFill
  <2> QED BY <2>6, GuardSilent
<1>2. CASE ~Filling(N.frames)
  <2> DEFINE g == [c EXCEPT !.markouts = {}]
  <2>1. /\ g \in Contexts /\ Apart(c, g) /\ g.probe = c.probe /\ g.wire = c.wire
        /\ Unlimited(g) /\ Own(g) /\ Active(g)
    BY NoMarks, UnmarkedStays DEF Unlimited, Evolves, Reacts, Follows, Active
  <2>2. GuardInventory(c, t) \in {c, MaybeFlatten(g, TRUE, t)}
    BY DEF GuardInventory
  <2> HIDE DEF g
  <2>3. Settling(g, N)
    BY <1>2, <2>1, SettlingKept
  <2>4. Settling(MaybeFlatten(g, TRUE, t), N)
    BY <1>2, <2>1, <2>3, SettlingMaybeFlattens
  <2> QED BY <2>2, <2>4
<1> QED BY <1>1, <1>2

LEMMA EvaluateSettling ==
  ASSUME MaxInventory >= 2 * Size, NEW c \in Contexts, Unlimited(c), Own(c), Active(c),
         NEW t \in TickRecords, t.send, NEW N, NetTyped(N), Settling(c, N)
  PROVE  Settling(EvaluateActive(c, t), N)
<1> DEFINE d == EvaluateActive(c, t)
           e == MaybeFlatten(c, FALSE, t)
<1>1. c.probe.phase \in {"MarkoutPending", "FlattenPending"} /\ ~c.probe.late
  BY DEF Settling
<1>2. CASE c.err
  BY <1>2 DEF EvaluateActive
<1>3. CASE ~c.err /\ c.probe.phase = "MarkoutPending"
  <2>1. d = GuardInventory(e, t)
    BY <1>1, <1>3 DEF EvaluateActive
  <2>2. e \in Contexts /\ Stays(c, e) /\ Evolves(c, e)
    BY MaybeFlattenContext, FlattenStays, MaybeFlattenEvolves
  <2>3. Settling(e, N)
    BY SettlingMaybeFlattens
  <2> HIDE DEF e
  <2>4. Unlimited(e) /\ Active(e) /\ Own(e)
    BY <2>2, FuelKept DEF Stays, Evolves, Reacts, Follows
  <2> QED BY <2>1, <2>2, <2>3, <2>4, SettlingGuarded
<1>4. CASE ~c.err /\ c.probe.phase = "FlattenPending"
  <2>1. d = GuardInventory(c, t)
    BY <1>1, <1>4 DEF EvaluateActive
  <2> QED BY <2>1, SettlingGuarded
<1> QED BY <1>1, <1>2, <1>3, <1>4

LEMMA EvaluateGood ==
  ASSUME MaxInventory >= 2 * Size, NEW c \in Contexts, Unlimited(c), Own(c),
         NEW t \in TickRecords, t.send, NEW N, NetTyped(N), Good(c, N)
  PROVE  Good(EvaluateActive(c, t), N)
<1> DEFINE d == EvaluateActive(c, t)
<1>1. Common(c, N)
  BY DEF Good
<1>2. CASE Gone(c, N)
  BY <1>1, <1>2, EvaluateGone, GoodStages
<1>3. CASE Active(c) /\ Placed(c, N)
  BY <1>3, EvaluatePlaced
<1>4. ASSUME Active(c), c.probe.phase # "Recovering" PROVE Common(d, N) /\ Active(d)
  <2>1. Stays(c, d)
    BY <1>4, EvaluateStays
  <2> QED BY <1>1, <1>4, <2>1, StaysCommon DEF Stays
<1>5. CASE Active(c) /\ Early(c, N)
  <2>1. c.probe.phase # "Recovering"
    BY <1>5 DEF Early, Follow, EarlyPhases
  <2> QED BY <1>4, <1>5, <2>1, EvaluateEarly, GoodStages
<1>6. CASE Active(c) /\ Settling(c, N)
  <2>1. c.probe.phase # "Recovering"
    BY <1>6 DEF Settling
  <2> QED BY <1>4, <1>6, <2>1, EvaluateSettling, GoodStages
<1> QED BY <1>2, <1>3, <1>5, <1>6, GoodStages

-----------------------------------------------------------------------------
(* What the REST worker has read *)

\* The exchange and the probe are as before, and nothing is read that was not.
Unread(c, N, d, M) ==
  /\ M.book = N.book /\ M.position = N.position /\ M.answers = N.answers /\ M.frames = N.frames
  /\ Counted(d, M) => Counted(c, N) /\ M.snap.inv = N.snap.inv
  /\ d.probe = c.probe /\ d.markouts = c.markouts /\ d.seen = c.seen /\ d.wire = c.wire

LEMMA UnreadZero ==
  ASSUME NEW c, NEW N, NEW d, NEW M, Unread(c, N, d, M), ReadZero(c, N)
  PROVE  ReadZero(d, M)
BY DEF Unread, ReadZero

LEMMA UnreadOver ==
  ASSUME NEW c, NEW N, NEW d, NEW M, Unread(c, N, d, M), Over(c, N)
  PROVE  Over(d, M)
BY DEF Unread, Over, NoLive, NoPlace

LEMMA UnreadSpent ==
  ASSUME NEW c, NEW N, NEW d, NEW M, Unread(c, N, d, M), Spent(c, N)
  PROVE  Spent(d, M)
BY UnreadZero, UnreadOver DEF Unread, Spent

LEMMA UnreadIdle ==
  ASSUME NEW c, NEW N, NEW d, NEW M, Unread(c, N, d, M), Idle(c, N), d.cooling = c.cooling
  PROVE  Idle(d, M)
BY UnreadZero, UnreadOver DEF Unread, Idle

LEMMA UnreadPlaced ==
  ASSUME NEW c, NEW N, NEW d, NEW M, Unread(c, N, d, M), Placed(c, N), d.account.inv = 0
  PROVE  Placed(d, M)
BY UnreadZero DEF Unread, Placed, NoLive

LEMMA UnreadBound ==
  ASSUME NEW c, NEW N, NEW d, NEW M, Unread(c, N, d, M), Bound(c, N)
  PROVE  Bound(d, M)
BY DEF Unread, Bound, NoPlace

LEMMA UnreadEarly ==
  ASSUME NEW c, NEW N, NEW d, NEW M, Unread(c, N, d, M), Early(c, N), Worth(d, M)
  PROVE  Early(d, M)
<1>1. Bound(d, M)
  BY UnreadBound DEF Early
<1>2. NoLive(M) <=> NoLive(N)
  BY DEF Unread, NoLive
<1> QED BY <1>1, <1>2 DEF Unread, Early

LEMMA UnreadWorth ==
  ASSUME NEW c, NEW N, NEW d, NEW M, Unread(c, N, d, M), Worth(c, N), d.account = c.account
  PROVE  Worth(d, M)
BY DEF Unread, Worth, Whole

LEMMA UnreadSettling ==
  ASSUME NEW c, NEW N, NEW d, NEW M, Unread(c, N, d, M), Settling(c, N),
         ~Filling(M.frames) => M.position <= d.account.inv,
         \A i \in DOMAIN M.frames : IsFill(M.frames[i]) => LastFill(d, M, M.frames[i])
  PROVE  Settling(d, M)
<1>1. Bound(d, M)
  BY UnreadBound DEF Settling
<1>2. NoLive(M) <=> NoLive(N)
  BY DEF Unread, NoLive
<1>3. Flattening(d) <=> Flattening(c)
  BY DEF Unread, Flattening
<1> QED BY <1>1, <1>2, <1>3 DEF Unread, Settling

LEMMA UnreadLastFill ==
  ASSUME NEW c, NEW N, NEW d, NEW M, Unread(c, N, d, M), NEW f, LastFill(c, N, f),
         d.account = c.account
  PROVE  LastFill(d, M, f)
<1>1. Asked(d) <=> Asked(c)
  BY DEF Unread, Asked, Flattening
<1>2. Whole(c, N) => Whole(d, M)
  BY DEF Unread, Whole
<1> QED BY <1>1, <1>2 DEF Unread, LastFill

LEMMA UnreadGood ==
  ASSUME NEW c, NEW N, NEW d, NEW M, Unread(c, N, d, M), Good(c, N), Common(d, M),
         d.account = c.account, d.cooling = c.cooling
  PROVE  Good(d, M)
<1>1. Active(d) <=> Active(c)
  BY DEF Unread, Active
<1>2. CASE Gone(c, N)
  BY <1>1, <1>2, UnreadSpent, UnreadIdle, GoodStages DEF Gone
<1>3. CASE Active(c) /\ Placed(c, N)
  BY <1>1, <1>3, UnreadPlaced, GoodStages DEF Placed
<1>4. CASE Active(c) /\ Early(c, N)
  BY <1>1, <1>4, UnreadEarly, UnreadWorth, GoodStages DEF Early
<1>5. CASE Active(c) /\ Settling(c, N)
  <2>1. ~Filling(M.frames) => M.position <= d.account.inv
    BY <1>5 DEF Settling, Unread
  <2>2. \A i \in DOMAIN M.frames : IsFill(M.frames[i]) => LastFill(d, M, M.frames[i])
    BY <1>5, UnreadLastFill DEF Settling, Unread
  <2> QED BY <1>1, <1>5, <2>1, <2>2, UnreadSettling, GoodStages
<1> QED BY <1>2, <1>3, <1>4, <1>5, GoodStages

\* A snapshot that is taken over and shows what was read: the account of an idle
\* strategy or of an order not known to have traded shows nothing, that of another
\* order what traded before the fills on their way.
LEMMA AdoptGood ==
  ASSUME NEW c \in Contexts, NEW N, NetTyped(N), NEW d, NEW M, Unread(c, N, d, M),
         Good(c, N), Common(d, M), Counted(c, N), ~Counted(d, M),
         d.account.inv = N.snap.inv, d.cooling = c.cooling
  PROVE  /\ Good(d, M)
         /\ Active(c) /\ c.probe.phase = "FlattenPending" /\ ~Spent(c, N) => d.account.inv # 0
<1>1. Active(d) <=> Active(c)
  BY DEF Unread, Active
<1>2. N.snap.inv \in Nat /\ N.snap.inv <= Size /\ N.position \in Nat /\ Size \in Nat /\ Size > 0
  BY SizeAssumption DEF NetTyped, Lots
<1>3. c.probe.cum \in Nat /\ c.account.inv \in Int
  BY ContextParts DEF ProbeRecords, AccountRecords
<1>4. CASE ~Active(c)
  BY <1>1, <1>4, UnreadIdle, GoodStages DEF Good, Gone
<1>5. CASE Active(c) /\ Spent(c, N)
  BY <1>1, <1>5, UnreadSpent, GoodStages DEF Gone
<1>6. CASE Active(c) /\ Placed(c, N)
  <2>1. d.account.inv = 0
    BY <1>6 DEF Placed, ReadZero
  <2> QED BY <1>1, <1>6, <2>1, UnreadPlaced, GoodStages DEF Placed
<1>7. CASE Active(c) /\ Early(c, N)
  <2>1. Worth(d, M)
    BY <1>2, <1>3, <1>7 DEF Early, Worth, Whole, Unread
  <2>2. c.probe.phase # "FlattenPending"
    BY <1>7 DEF Early, Follow, EarlyPhases
  <2> QED BY <1>1, <1>7, <2>1, <2>2, UnreadEarly, GoodStages
<1>8. CASE Active(c) /\ Settling(c, N)
  <2>1. ~Filling(M.frames) => M.position <= d.account.inv
    BY <1>8 DEF Settling, Unread
  <2>2. ASSUME NEW i \in DOMAIN M.frames, IsFill(M.frames[i])
        PROVE  LastFill(d, M, M.frames[i]) /\ (c.probe.phase = "FlattenPending" => d.account.inv # 0)
    <3> DEFINE f == M.frames[i]
    <3>1. LastFill(c, N, f)
      BY <1>8, <2>2 DEF Settling, Unread
    <3>2. Asked(d) <=> Asked(c)
      BY DEF Unread, Asked, Flattening
    <3>3. Before(f) <= d.account.inv /\ d.account.inv <= 2 * Size
      BY <1>2, <3>1 DEF LastFill
    <3>4. f.size = Size /\ Whole(c, N) /\ (c.account.inv = 0 => ~Asked(c))
            => Whole(d, M) /\ (d.account.inv = 0 => ~Asked(d))
      BY <1>2, <3>2 DEF Whole
    <3>5. \/ d.markouts # {} /\ ~Asked(d)
          \/ f.size = Size /\ Whole(d, M) /\ (d.account.inv = 0 => ~Asked(d))
      BY <3>1, <3>2, <3>4 DEF LastFill, Unread
    <3>6. LastFill(d, M, f)
      BY <3>1, <3>3, <3>5 DEF LastFill, Unread
    <3>7. c.probe.phase = "FlattenPending" => d.account.inv # 0
      BY <3>2, <3>5 DEF Asked
    <3> QED BY <3>6, <3>7
  <2>3. c.probe.phase = "FlattenPending" => d.account.inv # 0
    <3>1. CASE Filling(M.frames)
      BY <2>2, <3>1 DEF Filling
    <3>2. CASE ~Filling(M.frames)
      BY <1>2, <1>8, <2>1, <3>2 DEF Settling, Unread
    <3> QED BY <3>1, <3>2
  <2> QED BY <1>1, <1>8, <2>1, <2>2, <2>3, UnreadSettling, GoodStages
<1> QED BY <1>4, <1>5, <1>6, <1>7, <1>8, GoodStages DEF Good

\* A probe with nothing left is finished, or waits or asks for more.
LEMMA ReconcileGone ==
  ASSUME NEW c \in Contexts, Unlimited(c), ~c.err, Active(c), NEW t \in TickRecords, t.send,
         NEW N, Common(c, N), Spent(c, N), ReadZero(c, N)
  PROVE  LET d == Reconcile(c, t) IN Common(d, N) /\ Gone(d, N) /\ d.fuel = c.fuel
<1> DEFINE p == c.probe
           d == Reconcile(c, t)
           reopened == [p EXCEPT !.oid = t.found, !.cancelReq = FALSE]
           residual == [Enter(p, "MarkoutPending") EXCEPT
                          !.rem = 0, !.flatReq = 0, !.armed = @ \ {"flatten"}]
           e == [c EXCEPT !.probe = reopened]
           g == [c EXCEPT !.probe = residual]
<1>9. \/ d \in {FinishProbe(c), c, g}
      \/ d = CancelActive(e, t.send) /\ p.phase = "Recovering" /\ t.found # NoOid
  BY DEF Reconcile, MaybeFinishFlatten
<1> SUFFICES Common(d, N) /\ Gone(d, N) /\ d.fuel = c.fuel
  OBVIOUS
<1> HIDE DEF d, e, g
<1>1. p \in ProbeRecords /\ p \in GoodProbes /\ t.send \in BOOLEAN /\ t.found \in Oids
  BY ContextParts DEF TickRecords
<1>2. \A m \in c.markouts : ~m.done
  BY DEF Common
<1>3. ASSUME NEW a, Apart(c, a), a.wire = c.wire, a.markouts = c.markouts,
             (a.probe.cum = p.cum /\ Active(a)) \/ (~Active(a) /\ a.cooling = TRUE)
      PROVE  Common(a, N) /\ Gone(a, N) /\ a.fuel = c.fuel
  <2>1. Common(a, N)
    BY <1>2, <1>3, CommonKept
  <2>2. ReadZero(a, N)
    BY <1>3, CountedAlike DEF Apart, ReadZero
  <2>3. Gone(a, N)
    BY <1>3, <2>2, SpentEnds, SpentKept
  <2> QED BY <1>3, <2>1, <2>3 DEF Apart
<1>4. Apart(c, FinishProbe(c)) /\ ~Active(FinishProbe(c)) /\ FinishProbe(c).cooling = TRUE
      /\ FinishProbe(c).wire = c.wire /\ FinishProbe(c).markouts = c.markouts
  BY FinishProbeDoes
<1>5. CASE d = FinishProbe(c)
  BY <1>3, <1>4, <1>5
<1>6. CASE d = c
  <2>1. Common(c, N) /\ Gone(c, N) /\ c.fuel = c.fuel
    BY DEF Gone
  <2> QED BY <1>6, <2>1
<1>7. CASE d = g
  <2>1. Apart(c, g) /\ g.wire = c.wire /\ g.markouts = c.markouts /\ g.probe = residual
    BY DEF Contexts, Apart, g
  <2>2. residual.cum = p.cum /\ residual.phase = "MarkoutPending"
    BY <1>1 DEF Enter, ProbeRecords
  <2> HIDE DEF residual
  <2>3. Active(g) /\ g.probe.cum = p.cum
    BY <2>1, <2>2 DEF Active
  <2>4. Common(g, N) /\ Gone(g, N) /\ g.fuel = c.fuel
    BY <1>3, <2>1, <2>3
  <2> QED BY <1>7, <2>4
<1>8. CASE d = CancelActive(e, t.send) /\ p.phase = "Recovering" /\ t.found # NoOid
  <2>1. reopened \in GoodProbes /\ reopened.cum = p.cum /\ reopened.phase # "Absent"
        /\ reopened.oid = t.found /\ reopened.cancelReq = FALSE
    BY <1>1, <1>8 DEF GoodProbes, ProbeRecords, CanTimeOut, MatchesProgress, Waiting
  <2>2. /\ Apart(c, e) /\ e.wire = c.wire /\ e.markouts = c.markouts /\ e.probe = reopened
        /\ e.err = c.err /\ e.fuel = c.fuel
    BY DEF Contexts, Apart, e
  <2>3. e \in Contexts
    BY <2>1, WithProbe DEF e
  <2> HIDE DEF reopened
  <2>4. Unlimited(e) /\ Active(e)
    BY <2>1, <2>2, UnlimitedKept DEF Active
  <2>5. /\ Apart(e, d) /\ d.markouts = e.markouts /\ Active(d) /\ d.probe.cum = e.probe.cum
        /\ Cancelled(e, d)
    BY <1>1, <1>8, <2>1, <2>2, <2>3, <2>4, CancelActiveDoes
  <2>6. Apart(c, d)
    BY <2>2, <2>5, ApartTrans
  <2>7. d.wire = c.wire \cup {<<"cancel", t.found, 0>>}
    BY <2>1, <2>2, <2>5 DEF Cancelled
  <2>8. Common(d, N)
    BY <1>2, <2>2, <2>5, <2>6, <2>7, CommonKept
  <2>9. ReadZero(d, N)
    BY <2>6, CountedAlike DEF Apart, ReadZero
  <2>10. Gone(d, N)
    BY <2>1, <2>2, <2>5, <2>7, <2>9, SpentKept
  <2> QED BY <2>6, <2>8, <2>10 DEF Apart
<1> QED BY <1>5, <1>6, <1>7, <1>8, <1>9

\* What the REST worker published of what it has read.
Shown(N) == IF N.snap.got = {"orders", "positions"}
            THEN [healthy |-> TRUE, inv |-> N.snap.inv, orders |-> N.snap.orders] ELSE NoSnapshot

LEMMA RefreshGood ==
  ASSUME NEW c \in Contexts, Unlimited(c), ~c.err, NEW t \in TickRecords, t.send,
         NEW N, NetTyped(N), Good(c, N), c.rest.unread, t.latest = Shown(N),
         NEW M, M.book = N.book, M.position = N.position, M.answers = N.answers,
         M.frames = N.frames, M.snap = NoRead
  PROVE  LET d == RefreshAccount(c, t) IN
         /\ Good(d, M) /\ d.fuel = c.fuel
         /\ Active(c) /\ Early(c, N) => d.probe = c.probe
<1> DEFINE d == RefreshAccount(c, t)
           taken == TakeOver(c)
           read == [inv |-> t.latest.inv, open |-> t.latest.orders # {}, healthy |-> TRUE]
           snapshot == IF taken.shutdown.snapshot = "requested" THEN "fresh"
                       ELSE taken.shutdown.snapshot
           shut == [taken.shutdown EXCEPT !.snapshot = snapshot]
           adopted == [taken EXCEPT !.account = read, !.shutdown = shut]
           again == [taken.shutdown EXCEPT !.snapshot = "none"]
           asking == [taken EXCEPT !.shutdown = again]
<1>1. c.rest \in GateRests /\ c.rest.worker # "gone" /\ c.shutdown \in ShutdownRecords
  BY ContextParts DEF Good, Common
<1>2. c.rest.worker = "idle"
  BY <1>1 DEF GateRests, OneRequest, RestRecords
<1>3. taken \in Contexts
  BY <1>1, TakeOverContext
<1>4. /\ taken.probe = c.probe /\ taken.fuel = c.fuel /\ taken.err = c.err
      /\ taken.cooling = c.cooling /\ taken.wire = c.wire /\ taken.issued = c.issued
      /\ taken.shutdown = c.shutdown /\ taken.markouts = c.markouts /\ taken.seen = c.seen
      /\ taken.account = c.account /\ taken.writerUp = c.writerUp
      /\ taken.rest.worker = "idle" /\ taken.rest.unread = FALSE
  BY <1>1, <1>2 DEF TakeOver, Contexts, GateRests, RestRecords
<1>5. d \in {Record(asking, 1), taken, Reconcile(adopted, t)}
      /\ (d = Reconcile(adopted, t) \/ d = Record(asking, 1) \/ d = taken)
      /\ (t.latest.healthy /\ ~c.rest.stale => d = Reconcile(adopted, t))
      /\ (~t.latest.healthy => d = Record(asking, 1))
      /\ (t.latest.healthy /\ c.rest.stale => d = taken)
  BY <1>1 DEF RefreshAccount
<1> HIDE DEF taken
<1>6. /\ shut \in ShutdownRecords /\ again \in ShutdownRecords /\ read \in AccountRecords
      /\ shut.signal = c.shutdown.signal /\ again.signal = c.shutdown.signal
  <2>1. taken.shutdown \in ShutdownRecords
    BY <1>3, ContextParts
  <2>2. read \in AccountRecords
    BY DEF TickRecords, AccountRecords
  <2> HIDE DEF read
  <2> QED BY <1>4, <2>1, <2>2 DEF ShutdownRecords
<1> HIDE DEF shut, again, d
\* Nothing is read but what was asked for again.
<1>7. ASSUME NEW e, e.probe = c.probe, e.fuel = c.fuel, e.cooling = c.cooling, e.wire = c.wire,
             e.issued = c.issued, e.shutdown.signal = c.shutdown.signal, e.markouts = c.markouts,
             e.seen = c.seen, e.writerUp = c.writerUp, e.rest = taken.rest
      PROVE  Unread(c, N, e, M) /\ Common(e, M) /\ ~Counted(e, M)
  <2>1. ~Counted(e, M) /\ M.snap.got = {}
    BY DEF Counted, NoRead
  <2>2. Common(e, M)
    BY <1>4, <1>7, <2>1 DEF Good, Common
  <2> QED BY <1>7, <2>1, <2>2 DEF Unread
<1>8. CASE d = taken
  <2>1. Unread(c, N, taken, M) /\ Common(taken, M)
    BY <1>4, <1>7
  <2> QED BY <1>4, <1>8, <2>1, UnreadGood DEF d
<1>9. CASE d = Record(asking, 1)
  <2>1. /\ asking.probe = c.probe /\ asking.fuel = c.fuel /\ asking.cooling = c.cooling
        /\ asking.wire = c.wire /\ asking.issued = c.issued /\ asking.shutdown = again
        /\ asking.markouts = c.markouts /\ asking.seen = c.seen /\ asking.writerUp = c.writerUp
        /\ asking.rest = taken.rest /\ asking.account = c.account
    BY <1>3, <1>4 DEF Contexts
  <2> HIDE DEF asking
  <2>2. Record(asking, 1) = asking
    BY <2>1, RecordNothing, UnlimitedKept
  <2>3. Unread(c, N, asking, M) /\ Common(asking, M)
    BY <1>6, <1>7, <2>1
  <2>4. Good(asking, M)
    BY <2>1, <2>3, UnreadGood
  <2> QED BY <1>9, <2>1, <2>2, <2>4 DEF d
<1>10. CASE t.latest.healthy /\ ~c.rest.stale /\ d = Reconcile(adopted, t)
  <2>1. /\ adopted.probe = c.probe /\ adopted.fuel = c.fuel /\ adopted.cooling = c.cooling
        /\ adopted.wire = c.wire /\ adopted.issued = c.issued /\ adopted.shutdown = shut
        /\ adopted.markouts = c.markouts /\ adopted.seen = c.seen
        /\ adopted.writerUp = c.writerUp /\ adopted.rest = taken.rest
        /\ adopted.account.inv = t.latest.inv /\ adopted.err = c.err
    BY <1>3, <1>4 DEF Contexts
  <2>2. adopted \in Contexts
    <3> HIDE DEF read
    <3> QED BY <1>3, <1>6 DEF Contexts
  <2>3. N.snap.got = {"orders", "positions"} /\ t.latest.inv = N.snap.inv
    BY <1>10 DEF Shown, NoSnapshot
  <2> HIDE DEF adopted
  <2>4. Unread(c, N, adopted, M) /\ Common(adopted, M) /\ ~Counted(adopted, M)
    BY <1>6, <1>7, <2>1
  <2>5. Counted(c, N)
    BY <1>10, <2>3 DEF Counted
  <2>6. /\ Good(adopted, M)
        /\ Active(c) /\ c.probe.phase = "FlattenPending" /\ ~Spent(c, N) => adopted.account.inv # 0
    BY <2>1, <2>3, <2>4, <2>5, AdoptGood
  <2>7. Active(adopted) <=> Active(c)
    BY <2>1 DEF Active
  <2>8. CASE ~Active(c)
    <3>1. d = adopted
      BY <1>10, <2>7, <2>8 DEF Reconcile
    <3> QED BY <2>1, <2>6, <2>8, <3>1 DEF d
  <2>9. CASE Active(c) /\ (~Spent(c, N) \/ Early(c, N))
    <3>1. c.probe.phase # "Recovering"
      BY <2>9 DEF Good, Placed, Early, Follow, EarlyPhases, Settling
    <3>2. c.probe.phase = "FlattenPending" => adopted.account.inv # 0
      BY <2>6, <2>9 DEF Early, Follow, EarlyPhases
    <3>3. d = adopted
      BY <1>10, <2>1, <2>7, <2>9, <3>1, <3>2 DEF Reconcile, MaybeFinishFlatten
    <3> QED BY <2>1, <2>6, <3>3 DEF d
  <2>10. CASE Active(c) /\ Spent(c, N) /\ ~Early(c, N)
    <3>1. Spent(adopted, M) /\ ReadZero(adopted, M)
      BY <2>4, <2>10, UnreadSpent DEF ReadZero
    <3>2. Unlimited(adopted)
      BY <2>1, UnlimitedKept
    <3>3. Good(d, M) /\ d.fuel = c.fuel
      BY <1>10, <2>1, <2>2, <2>4, <2>7, <2>10, <3>1, <3>2, ReconcileGone, GoodStages
    <3> QED BY <2>10, <3>3 DEF d
  <2> QED BY <2>8, <2>9, <2>10
<1> QED BY <1>5, <1>8, <1>9, <1>10

\* Due marks are dropped only when nothing is on its way.
LEMMA SampleDoes ==
  ASSUME NEW c \in Contexts, Unlimited(c), NEW t, NEW N, Common(c, N)
  PROVE  LET d == SampleMarkouts(c, t) IN
         /\ Apart(c, d) /\ d.probe = c.probe /\ d.wire = c.wire /\ d.cooling = c.cooling
         /\ d.markouts \subseteq c.markouts /\ (t.due = {} => d.markouts = c.markouts)
<1> DEFINE d == SampleMarkouts(c, t)
           kept == {m \in c.markouts : m \notin t.due /\ ~m.done}
           due == {m \in c.markouts : m \in t.due /\ ~m.done}
           n == IF due = {} THEN 0 ELSE 1
<1>1. Record(c, n) = c
  BY RecordNothing
<1>2. d = c \/ d = [c EXCEPT !.markouts = kept]
  <2>1. c.err => d = c
    BY DEF SampleMarkouts
  <2>2. ~c.err => d = [c EXCEPT !.markouts = kept]
    BY <1>1 DEF SampleMarkouts
  <2> QED BY <2>1, <2>2
<1> HIDE DEF d, n
<1>3. kept \subseteq c.markouts /\ (t.due = {} => kept = c.markouts)
  BY DEF Common
<1> HIDE DEF kept
<1>4. /\ Apart(c, d) /\ d.probe = c.probe /\ d.wire = c.wire /\ d.cooling = c.cooling
      /\ d.markouts \subseteq c.markouts /\ (t.due = {} => d.markouts = c.markouts)
  BY <1>2, <1>3 DEF Contexts, Apart
<1> QED BY <1>4 DEF d

LEMMA SampleGood ==
  ASSUME NEW c \in Contexts, Unlimited(c), NEW t, NEW N, Good(c, N),
         t.due = {} \/ (N.frames = <<>> /\ (NoLive(N) \/ c.probe.cum = 0))
  PROVE  Good(SampleMarkouts(c, t), N)
<1> DEFINE d == SampleMarkouts(c, t)
<1>1. Common(c, N)
  BY DEF Good
<1>2. /\ Apart(c, d) /\ d.probe = c.probe /\ d.wire = c.wire /\ d.cooling = c.cooling
      /\ d.markouts \subseteq c.markouts /\ (t.due = {} => d.markouts = c.markouts)
  BY <1>1, SampleDoes
<1> SUFFICES Good(d, N)
  OBVIOUS
<1> HIDE DEF d
<1>3. Active(d) <=> Active(c)
  BY <1>2 DEF Active
<1>4. Stays(c, d)
  BY <1>2, <1>3 DEF Stays
<1>5. Common(d, N)
  BY <1>1, <1>4, StaysCommon
<1>6. c.probe.cum \in Nat
  BY ContextParts DEF ProbeRecords
<1>7. N.frames = <<>> => ~Ended(N.frames) /\ ~Filling(N.frames)
  BY DEF Ended, Filling
<1>8. CASE Gone(c, N)
  BY <1>4, <1>5, <1>8, StaysGone, GoodStages
<1>9. CASE Active(c) /\ Placed(c, N)
  BY <1>2, <1>3, <1>5, <1>9, PlacedKept, GoodStages
<1>10. CASE Active(c) /\ Early(c, N)
  <2>1. d.markouts = c.markouts \/ c.probe.cum = 0
    BY <1>2, <1>7, <1>10 DEF Early
  <2> QED BY <1>2, <1>3, <1>5, <1>6, <1>10, <2>1, EarlyKept, GoodStages
<1>11. CASE Active(c) /\ Settling(c, N)
  BY <1>2, <1>3, <1>5, <1>7, <1>11, SettlingKept, GoodStages
<1> QED BY <1>8, <1>9, <1>10, <1>11, GoodStages

\* A new probe meets an exchange at which nothing is left, and nothing on its way.
LEMMA StartGood ==
  ASSUME NEW c \in Contexts, Unlimited(c), NEW t, t.send, NEW N, NetTyped(N), Good(c, N)
  PROVE  Good(StartProbe(c, t), N)
<1> DEFINE k == c.issued.probes + 1
           place == <<"place", Maker(k), Size>>
           r == [c EXCEPT !.issued.probes = k]
           a == [r EXCEPT !.wire = @ \cup {place}]
           d == [a EXCEPT !.probe = NewProbe(k)]
<1>1. CASE c.err \/ Active(c) \/ ~MayStart(c, t)
  BY <1>1 DEF StartProbe
<1>2. CASE ~(c.err \/ Active(c) \/ ~MayStart(c, t))
  <2>1. c.issued \in Counters /\ c.issued.probes \in Nat /\ k \in Nat /\ c.err = FALSE
    BY <1>2, ContextParts DEF Counters
  <2>2. Record(r, 1) = r
    <3>1. r.fuel = c.fuel
      BY DEF Contexts
    <3> HIDE DEF r
    <3> QED BY <3>1, RecordNothing, UnlimitedKept
  <2>3. Record(a, 1) = a
    <3>1. a.fuel = c.fuel
      BY DEF Contexts
    <3> HIDE DEF a
    <3> QED BY <3>1, RecordNothing, UnlimitedKept
  <2>4. r.err = FALSE /\ a.err = FALSE
    BY <2>1 DEF Contexts
  <2>5. StartProbe(c, t) = d
    <3> HIDE DEF place, k
    <3> QED BY <1>2, <2>2, <2>3, <2>4 DEF StartProbe, k, place
  <2>6. /\ d.probe = NewProbe(k) /\ d.wire = c.wire \cup {place} /\ d.issued.probes = k
        /\ d.account = c.account /\ d.seen = c.seen /\ d.writerUp = c.writerUp
        /\ d.shutdown = c.shutdown /\ d.rest = c.rest /\ d.markouts = c.markouts
    BY <2>1 DEF Contexts, Counters
  <2> HIDE DEF d
  <2>7. Idle(c, N) /\ Common(c, N) /\ ~c.cooling /\ c.account.inv = 0
    BY <1>2 DEF Good, MayStart
  <2>8. c.wire = {} /\ N.frames = <<>> /\ DOMAIN N.answers = {}
    BY <2>7 DEF Idle, Common
  <2>9. Maker(k)[1] = "maker" /\ Maker(k)[2] = k
    BY <2>1, MakerValues
  <2>10. \A x \in c.seen : x[1] # Maker(k)
    <3> SUFFICES ASSUME NEW x \in c.seen, x[1] = Maker(k) PROVE FALSE
      OBVIOUS
    <3>1. x[1][2] <= c.issued.probes
      BY <2>7, <2>9 DEF Common
    <3> QED BY <2>1, <2>9, <3>1
  <2>11. Common(d, N)
    <3>1. \A x \in c.seen : x[1][1] = "maker" => x[1][2] <= k
      <4> SUFFICES ASSUME NEW x \in c.seen, x[1][1] = "maker" PROVE x[1][2] <= k
        OBVIOUS
      <4>1. x[1][2] <= c.issued.probes
        BY <2>7 DEF Common
      <4>2. x[1] \in Oids
        BY ContextParts
      <4>3. x[1][2] \in Nat
        BY <4>2 DEF Oids
      <4> QED BY <2>1, <4>1, <4>3
    <3>2. place[1] # "flatten"
      OBVIOUS
    <3> QED BY <2>6, <2>7, <2>8, <3>1, <3>2 DEF Common
  <2>12. Placed(d, N)
    <3>1. NewProbe(k).phase = "PlacePending" /\ NewProbe(k).cum = 0 /\ ~NewProbe(k).late
          /\ NewProbe(k).flatOid = NoOid /\ NewProbe(k).id = k
      BY DEF NewProbe, NoProbe
    <3>2. ReadZero(d, N)
      BY <2>6, <2>7 DEF Idle, ReadZero, Counted
    <3> HIDE DEF k
    <3> QED BY <2>6, <2>7, <2>8, <2>10, <3>1, <3>2 DEF Placed, Idle, Over
  <2>13. Active(d)
    BY <2>6 DEF Active, NewProbe, NoProbe
  <2> QED BY <2>5, <2>11, <2>12, <2>13, GoodStages
<1> QED BY <1>1, <1>2

LEMMA EvaluateFuel ==
  ASSUME NEW c \in Contexts, Unlimited(c), NEW t \in TickRecords, t.send
  PROVE  EvaluateActive(c, t).fuel = c.fuel
<1>1. CASE Stays(c, EvaluateActive(c, t))
  BY <1>1 DEF Stays, Apart
<1>2. CASE EvaluateActive(c, t) = FinishProbe(c) /\ ~c.err
  BY <1>2, FinishProbeDoes DEF Apart
<1> QED BY <1>1, <1>2, EvaluateStays

\* A timer callback before a stop is asked for, once the snapshot is taken over.
LEMMA TimerGood ==
  ASSUME MaxInventory >= 2 * Size, NEW c \in Contexts, Unlimited(c), Own(c),
         NEW t \in TickRecords, t.send, NEW N, NetTyped(N), Listed(c, t),
         Good(RefreshAccount(c, t), N), RefreshAccount(c, t).fuel = c.fuel, ~c.shutdown.signal,
         t.due = {} \/ (N.frames = <<>> /\ (NoLive(N) \/ RefreshAccount(c, t).probe.cum = 0))
  PROVE  Good(Timer(c, t), N)
<1> DEFINE r == RefreshAccount(c, t)
           p == IF t.pace = "periodic" THEN RequestRest(r) ELSE r
           s == SampleMarkouts(p, t)
           e == EvaluateActive(s, t)
<1>1. Timer(c, t) \in {r, StartProbe(e, t)}
  BY DEF Timer
<1>2. r \in Contexts /\ Own(r) /\ Unlimited(r)
  BY RefreshAccountContext, RefreshAccountFollows, UnlimitedKept DEF Refreshed, Follows
<1> HIDE DEF r
<1>3. Alike(r, p) /\ p \in Contexts /\ Evolves(r, p)
  BY <1>2, RequestRestAlike, RequestRestContext, RequestRestEvolves, EvolvesRefl, AlikeRefl
<1> HIDE DEF p
<1>4. Own(p) /\ Unlimited(p) /\ Good(p, N) /\ p.probe.cum = r.probe.cum
  BY <1>2, <1>3, AlikeGood, UnlimitedKept DEF Alike, Apart, Evolves, Reacts, Follows, r
<1>5. s \in Contexts /\ Evolves(p, s) /\ Good(s, N) /\ s.fuel = p.fuel
  BY <1>3, <1>4, SampleMarkoutsContext, SampleMarkoutsEvolves, SampleGood, SampleDoes
    DEF Good, Apart, r
<1> HIDE DEF s
<1>6. Own(s) /\ Unlimited(s)
  BY <1>4, <1>5, UnlimitedKept DEF Evolves, Reacts, Follows
<1>7. e \in Contexts /\ Good(e, N) /\ e.fuel = s.fuel
  BY <1>5, <1>6, EvaluateActiveContext, EvaluateGood, EvaluateFuel
<1> HIDE DEF e
<1>8. Good(StartProbe(e, t), N)
  BY <1>6, <1>7, StartGood, UnlimitedKept
<1> QED BY <1>1, <1>8 DEF r

-----------------------------------------------------------------------------
(* The answers to the probe's requests *)

\* The probe after the answer that its order rests.
Rested(p, k) ==
  IF p.id # k THEN p ELSE AfterRestingPost([p EXCEPT !.oid = Maker(k), !.armed = @ \cup {"post"}])

LEMMA ProbePut ==
  ASSUME NEW c \in Contexts, NEW p, NEW d, d = [c EXCEPT !.probe = p]
  PROVE  /\ Apart(c, d) /\ d.probe = p /\ d.wire = c.wire /\ d.markouts = c.markouts
         /\ d.cooling = c.cooling /\ d.err = c.err
BY DEF Contexts, Apart

LEMMA PlacePostDoes ==
  ASSUME NEW c \in Contexts, Unlimited(c), ~c.err, NEW k \in Nat,
         NEW outcome \in {"resting", "filled", "rejected"}
  PROVE  LET d == PlacePost(c, k, outcome) IN
         /\ Apart(c, d) /\ d.wire = c.wire /\ d.markouts = c.markouts /\ (c.cooling => d.cooling)
         /\ \/ d.probe.cum = c.probe.cum /\ (Active(d) <=> Active(c))
            \/ ~Active(d) /\ d.cooling /\ outcome = "rejected"
         /\ outcome = "resting" => d.probe = Rested(c.probe, k)
<1> DEFINE p == c.probe
           accepted == [p EXCEPT !.oid = Maker(k), !.armed = @ \cup {"post"}]
           d == PlacePost(c, k, outcome)
           goal(e) == /\ Apart(c, e) /\ e.wire = c.wire /\ e.markouts = c.markouts
                      /\ (c.cooling => e.cooling)
                      /\ \/ e.probe.cum = c.probe.cum /\ (Active(e) <=> Active(c))
                         \/ ~Active(e) /\ e.cooling /\ outcome = "rejected"
                      /\ outcome = "resting" => e.probe = Rested(c.probe, k)
<1>1. p \in ProbeRecords /\ c.err = FALSE
  BY ContextParts
<1>2. CASE p.id # k
  <2>1. d = c
    BY <1>2, RecordNothing DEF PlacePost
  <2> QED BY <1>2, <2>1, AlikeRefl DEF Rested
<1>3. ASSUME NEW q, q.cum = p.cum, q.phase # "Absent" <=> p.phase # "Absent",
             p.id = k, d = Record([c EXCEPT !.probe = q], 1),
             outcome = "resting" => q = Rested(p, k)
      PROVE  goal(d)
  <2> DEFINE e == [c EXCEPT !.probe = q]
  <2>1. /\ Apart(c, e) /\ e.probe = q /\ e.wire = c.wire /\ e.markouts = c.markouts
        /\ e.cooling = c.cooling
    BY ProbePut
  <2> HIDE DEF e, d
  <2>2. Record(e, 1) = e
    BY <2>1, RecordNothing, UnlimitedKept DEF Apart
  <2>3. d = e
    BY <1>3, <2>2 DEF e
  <2> QED BY <1>3, <2>1, <2>3 DEF Active
<1>4. CASE p.id = k /\ outcome = "resting"
  <2>1. d = Record([c EXCEPT !.probe = AfterRestingPost(accepted)], 1)
    BY <1>4 DEF PlacePost
  <2>2. AfterRestingPost(accepted) = Rested(p, k)
    BY <1>4 DEF Rested
  <2>3. AfterRestingPost(accepted).cum = p.cum
        /\ (AfterRestingPost(accepted).phase # "Absent" <=> p.phase # "Absent")
    BY <1>1 DEF AfterRestingPost, Enter, ProbeRecords
  <2> HIDE DEF d, accepted
  <2>4. goal(d)
    BY <1>3, <1>4, <2>1, <2>2, <2>3
  <2> QED BY <2>4 DEF d
<1>5. CASE p.id = k /\ outcome = "filled"
  <2>1. d = Record([c EXCEPT !.probe = AfterFilledPost(accepted)], 1)
    BY <1>5 DEF PlacePost
  <2>2. AfterFilledPost(accepted).cum = p.cum
        /\ (AfterFilledPost(accepted).phase # "Absent" <=> p.phase # "Absent")
    BY <1>1 DEF AfterFilledPost, Enter, ProbeRecords
  <2> HIDE DEF d, accepted
  <2>3. goal(d)
    BY <1>3, <1>5, <2>1, <2>2
  <2> QED BY <2>3 DEF d
<1>6. CASE p.id = k /\ outcome = "rejected"
  <2>1. d = FinishProbe(c)
    BY <1>6, RecordNothing DEF PlacePost
  <2> QED BY <1>6, <2>1, FinishProbeDoes
<1> QED BY <1>2, <1>4, <1>5, <1>6

LEMMA FlattenPostDoes ==
  ASSUME NEW c \in Contexts, Unlimited(c), ~c.err, NEW n, c.probe.flatReq = n => Active(c),
         NEW outcome \in {"resting", "filled", "rejected"}
  PROVE  LET d == FlattenPost(c, n, outcome) IN
         /\ Apart(c, d) /\ d.wire = c.wire /\ d.markouts = c.markouts /\ d.cooling = c.cooling
         /\ d.probe.cum = c.probe.cum /\ (Active(d) <=> Active(c))
<1> DEFINE p == c.probe
           d == FlattenPost(c, n, outcome)
           bound == [p EXCEPT !.flatOid = Flatten(n)]
           dropped == [p EXCEPT !.flatReq = 0, !.armed = @ \ {"flatten"}]
           goal(e) == /\ Apart(c, e) /\ e.wire = c.wire /\ e.markouts = c.markouts
                      /\ e.cooling = c.cooling
                      /\ e.probe.cum = c.probe.cum /\ (Active(e) <=> Active(c))
<1>1. p \in ProbeRecords /\ c.err = FALSE
  BY ContextParts
<1>2. Record(c, 1) = c
  BY RecordNothing
<1>3. CASE p.flatReq # n
  <2>1. d = c
    BY <1>2, <1>3 DEF FlattenPost
  <2> QED BY <2>1, AlikeRefl
<1>4. CASE p.flatReq = n /\ outcome = "filled"
  <2>1. d = [c EXCEPT !.probe = bound]
    BY <1>1, <1>2, <1>4 DEF FlattenPost
  <2>2. bound.cum = p.cum /\ bound.phase = p.phase
    BY <1>1 DEF ProbeRecords
  <2> HIDE DEF d, bound
  <2>3. goal(d)
    BY <2>1, <2>2, ProbePut DEF Active
  <2> QED BY <2>3 DEF d
<1>5. ASSUME NEW q \in ProbeRecords, q.cum = p.cum, p.flatReq = n,
             d = RequestRest(Record([c EXCEPT !.probe = Recover(q)], 1))
      PROVE  goal(d)
  <2> DEFINE e == [c EXCEPT !.probe = Recover(q)]
  <2>1. Recover(q).cum = p.cum /\ Recover(q).phase = "Recovering"
    BY <1>5 DEF Recover, ProbeRecords
  <2>2. /\ Apart(c, e) /\ e.probe = Recover(q) /\ e.wire = c.wire /\ e.markouts = c.markouts
        /\ e.cooling = c.cooling
    BY ProbePut
  <2>3. e \in Contexts
    BY <1>5, RecoverGood, WithProbe
  <2> HIDE DEF e, d
  <2>4. Record(e, 1) = e
    BY <2>2, RecordNothing, UnlimitedKept DEF Apart
  <2>5. Alike(e, d)
    BY <1>5, <2>3, <2>4, RequestRestAlike DEF e
  <2> QED BY <1>5, <2>1, <2>2, <2>5, ApartTrans DEF Alike, Active
<1>6. CASE p.flatReq = n /\ outcome \in {"resting", "rejected"}
  <2>1. d = RequestRest(Record([c EXCEPT !.probe = Recover(bound)], 1))
        \/ d = RequestRest(Record([c EXCEPT !.probe = Recover(dropped)], 1))
    BY <1>1, <1>2, <1>6 DEF FlattenPost
  <2>2. bound \in ProbeRecords /\ bound.cum = p.cum
    BY <1>1, <1>6, OidValues DEF ProbeRecords
  <2>3. dropped \in ProbeRecords /\ dropped.cum = p.cum
    BY <1>1 DEF ProbeRecords
  <2> HIDE DEF d, bound, dropped
  <2>4. goal(d)
    BY <1>5, <1>6, <2>1, <2>2, <2>3
  <2> QED BY <2>4 DEF d
<1> QED BY <1>3, <1>4, <1>6

\* The answer of r is taken; nothing else moves at the exchange.
Replied(r, N, M) ==
  /\ r \in DOMAIN N.answers /\ M.answers = [x \in DOMAIN N.answers \ {r} |-> N.answers[x]]
  /\ M.book = N.book /\ M.position = N.position /\ M.frames = N.frames /\ M.snap = N.snap

LEMMA PostResponseDoes ==
  ASSUME NEW c \in Contexts, Unlimited(c), Own(c), ~c.err, NEW r \in c.wire,
         NEW outcome \in {"resting", "filled", "rejected"}
  PROVE  LET d == PostResponse(c, r, outcome) IN
         /\ Apart(c, d) /\ d.wire = c.wire \ {r} /\ d.markouts = c.markouts
         /\ (c.cooling => d.cooling)
         /\ \/ d.probe.cum = c.probe.cum /\ (Active(d) <=> Active(c))
            \/ ~Active(d) /\ d.cooling /\ r[1] = "place" /\ outcome = "rejected"
         /\ r[1] = "place" /\ outcome = "resting" => d.probe = Rested(c.probe, r[2][2])
<1> DEFINE e == [c EXCEPT !.wire = @ \ {r}]
           d == PostResponse(c, r, outcome)
<1>1. r \in Requests /\ r[1] \in {"place", "cancel", "flatten"} /\ r[2][2] \in Nat
  BY ContextParts DEF Requests, Oids
<1>2. e \in Contexts
  BY DroppedContext
<1>3. /\ Apart(c, e) /\ e.probe = c.probe /\ e.wire = c.wire \ {r} /\ e.markouts = c.markouts
      /\ e.cooling = c.cooling /\ e.err = c.err
  BY DEF Contexts, Apart
<1>4. d = IF e.err THEN e ELSE CASE r[1] = "place" -> PlacePost(e, r[2][2], outcome)
                                 [] r[1] = "flatten" -> FlattenPost(e, r[2][2], outcome)
                                 [] r[1] = "cancel" -> CancelPost(e, outcome)
  BY DEF PostResponse
<1> HIDE DEF e, d
<1>5. Unlimited(e)
  BY <1>3, UnlimitedKept DEF Apart
<1>6. CASE r[1] = "place"
  <2>1. d = PlacePost(e, r[2][2], outcome)
    BY <1>3, <1>4, <1>6
  <2> DEFINE k == r[2][2]
  <2> HIDE DEF k
  <2>2. /\ Apart(e, d) /\ d.wire = e.wire /\ d.markouts = e.markouts /\ (e.cooling => d.cooling)
        /\ \/ d.probe.cum = e.probe.cum /\ (Active(d) <=> Active(e))
           \/ ~Active(d) /\ d.cooling /\ outcome = "rejected"
        /\ outcome = "resting" => d.probe = Rested(e.probe, k)
    <3>1. ~e.err /\ k \in Nat /\ d = PlacePost(e, k, outcome)
      BY <1>1, <1>3, <2>1 DEF k
    <3> QED BY <1>2, <1>5, <3>1, PlacePostDoes
  <2>3. Apart(c, d)
    BY <1>3, <2>2, ApartTrans
  <2> QED BY <1>3, <1>6, <2>2, <2>3 DEF Active, d, k
<1>7. CASE r[1] = "flatten"
  <2>1. d = FlattenPost(e, r[2][2], outcome)
    BY <1>3, <1>4, <1>7
  <2>2. e.probe.flatReq = r[2][2] => Active(e)
    BY <1>1, <1>3, <1>7 DEF Own, OwnWire, OwnProbe, Active
  <2>3. /\ Apart(e, d) /\ d.wire = e.wire /\ d.markouts = e.markouts /\ d.cooling = e.cooling
        /\ d.probe.cum = e.probe.cum /\ (Active(d) <=> Active(e))
    BY <1>2, <1>3, <1>5, <2>1, <2>2, FlattenPostDoes
  <2>4. Apart(c, d)
    BY <1>3, <2>3, ApartTrans
  <2> QED BY <1>3, <1>7, <2>3, <2>4 DEF Active, d
<1>8. CASE r[1] = "cancel"
  <2>1. d = e
    BY <1>3, <1>4, <1>5, <1>8, RecordNothing DEF CancelPost
  <2> QED BY <1>3, <1>8, <2>1 DEF Active, d
<1> QED BY <1>1, <1>6, <1>7, <1>8

LEMMA ReplyGone ==
  ASSUME NEW c, NEW d, NEW N, NEW M, NEW r \in c.wire, Replied(r, N, M), Common(c, N), Gone(c, N),
         Apart(c, d), d.wire = c.wire \ {r}, c.cooling => d.cooling,
         \/ d.probe.cum = c.probe.cum /\ (Active(d) <=> Active(c))
         \/ ~Active(d) /\ d.cooling /\ r[1] = "place" /\ N.answers[r] = "rejected"
  PROVE  Gone(d, M)
<1>1. Over(c, N) => Over(d, M)
  BY DEF Over, NoLive, NoPlace, Replied
<1>2. ReadZero(c, N) => ReadZero(d, M)
  BY CountedAlike DEF ReadZero, Replied, Apart, Counted
<1>3. CASE ~Active(c)
  BY <1>1, <1>2, <1>3 DEF Gone, Idle
<1>4. CASE Active(c) /\ ~Active(d)
  BY <1>1, <1>2, <1>4 DEF Gone, Idle, Spent, Replied
<1>5. CASE Active(c) /\ Active(d)
  BY <1>1, <1>2, <1>5 DEF Gone, Spent, Replied
<1> QED BY <1>3, <1>4, <1>5

\* An order that rests is told so in any of the phases it may be in by then.
LEMMA ReplyBound ==
  ASSUME NEW c \in Contexts, NEW d, NEW N, NEW M, NEW r \in c.wire, Replied(r, N, M), Bound(c, N),
         d.wire = c.wire \ {r}, d.probe = Rested(c.probe, r[2][2])
  PROVE  /\ Bound(d, M) /\ r[1] = "place" /\ N.answers[r] = "resting"
         /\ d.probe.id = c.probe.id /\ d.probe.oid = Maker(c.probe.id)
         /\ d.probe.cum = c.probe.cum /\ d.probe.rem = c.probe.rem
         /\ d.probe.cancelReq = c.probe.cancelReq
         /\ IF c.probe.phase = "PlacePending" THEN d.probe.phase = "PostAccepted" /\ ~d.probe.late
            ELSE d.probe.phase = c.probe.phase /\ d.probe.late = c.probe.late
<1> DEFINE p == c.probe
           k == p.id
           accepted == [p EXCEPT !.oid = Maker(k), !.armed = @ \cup {"post"}]
<1>1. p \in ProbeRecords /\ k \in Nat
  BY ContextParts DEF ProbeRecords
<1>2. r[1] = "place" /\ N.answers[r] = "resting" /\ r[2] = Maker(k)
  BY DEF Bound, Replied
<1>3. r[2][2] = k
  BY <1>1, <1>2, MakerValues
<1>4. d.probe = AfterRestingPost(accepted)
  BY <1>3 DEF Rested
<1>5. /\ accepted.id = k /\ accepted.oid = Maker(k) /\ accepted.cum = p.cum
      /\ accepted.rem = p.rem /\ accepted.cancelReq = p.cancelReq /\ accepted.phase = p.phase
      /\ accepted.late = p.late /\ accepted.flatOid = p.flatOid
      /\ accepted \in ProbeRecords
  BY <1>1, MakerValues DEF ProbeRecords
<1> HIDE DEF accepted
<1>6. /\ d.probe.id = k /\ d.probe.oid = Maker(k) /\ d.probe.cum = p.cum /\ d.probe.rem = p.rem
      /\ d.probe.cancelReq = p.cancelReq /\ d.probe.flatOid = p.flatOid
      /\ IF p.phase = "PlacePending" THEN d.probe.phase = "PostAccepted" /\ ~d.probe.late
         ELSE d.probe.phase = p.phase /\ d.probe.late = p.late
  BY <1>4, <1>5 DEF AfterRestingPost, Enter, ProbeRecords
<1>7. Bound(d, M)
  BY <1>6 DEF Bound, NoPlace, Replied
<1> QED BY <1>2, <1>6, <1>7

LEMMA ReplyGood ==
  ASSUME NEW c \in Contexts, Unlimited(c), Own(c), ~c.err, NEW N, NetTyped(N), Good(c, N),
         NEW r, NEW M, Replied(r, N, M)
  PROVE  Good(PostResponse(c, r, N.answers[r]), M)
<1> DEFINE d == PostResponse(c, r, N.answers[r])
<1>1. Common(c, N) /\ r \in c.wire /\ N.answers[r] \in {"resting", "filled", "rejected"}
  BY DEF Good, Common, Replied, NetTyped
<1>2. /\ Apart(c, d) /\ d.wire = c.wire \ {r} /\ d.markouts = c.markouts
      /\ (c.cooling => d.cooling)
      /\ \/ d.probe.cum = c.probe.cum /\ (Active(d) <=> Active(c))
         \/ ~Active(d) /\ d.cooling /\ r[1] = "place" /\ N.answers[r] = "rejected"
      /\ r[1] = "place" /\ N.answers[r] = "resting" => d.probe = Rested(c.probe, r[2][2])
  <2> DEFINE outcome == N.answers[r]
  <2> HIDE DEF outcome
  <2>1. outcome \in {"resting", "filled", "rejected"}
    BY <1>1 DEF outcome
  <2>2. LET e == PostResponse(c, r, outcome) IN
        /\ Apart(c, e) /\ e.wire = c.wire \ {r} /\ e.markouts = c.markouts
        /\ (c.cooling => e.cooling)
        /\ \/ e.probe.cum = c.probe.cum /\ (Active(e) <=> Active(c))
           \/ ~Active(e) /\ e.cooling /\ r[1] = "place" /\ outcome = "rejected"
        /\ r[1] = "place" /\ outcome = "resting" => e.probe = Rested(c.probe, r[2][2])
    BY <1>1, <2>1, PostResponseDoes
  <2> QED BY <2>2 DEF outcome
<1> SUFFICES Good(d, M)
  OBVIOUS
<1> HIDE DEF d
<1>3. Common(d, M)
  BY <1>1, <1>2 DEF Common, Apart, Replied
<1>4. CASE Gone(c, N)
  BY <1>1, <1>2, <1>3, <1>4, ReplyGone, GoodStages
<1>5. CASE Active(c) /\ Placed(c, N)
  BY <1>5 DEF Placed, Replied
<1>6. /\ Counted(d, M) <=> Counted(c, N)
      /\ Whole(c, N) => Whole(d, M)
      /\ d.account = c.account /\ d.seen = c.seen
  BY <1>2 DEF Counted, Whole, Replied, Apart
<1>7. ASSUME Active(c), Bound(c, N)
      PROVE  /\ Bound(d, M) /\ r[1] = "place" /\ Active(d)
             /\ d.probe.id = c.probe.id /\ d.probe.oid = Maker(c.probe.id)
             /\ d.probe.cum = c.probe.cum /\ d.probe.rem = c.probe.rem
             /\ d.probe.cancelReq = c.probe.cancelReq
             /\ IF c.probe.phase = "PlacePending"
                THEN d.probe.phase = "PostAccepted" /\ ~d.probe.late
                ELSE d.probe.phase = c.probe.phase /\ d.probe.late = c.probe.late
  <2>1. r[1] = "place" /\ N.answers[r] = "resting"
    BY <1>1, <1>7 DEF Bound, Replied
  <2>2. d.probe = Rested(c.probe, r[2][2])
    BY <1>2, <2>1
  <2> QED BY <1>1, <1>2, <1>7, <2>1, <2>2, ReplyBound DEF Active
<1>8. CASE Active(c) /\ Early(c, N)
  <2>1. /\ Bound(d, M) /\ r[1] = "place" /\ Active(d)
        /\ d.probe.id = c.probe.id /\ d.probe.oid = Maker(c.probe.id)
        /\ d.probe.cum = c.probe.cum /\ d.probe.rem = c.probe.rem
        /\ d.probe.cancelReq = c.probe.cancelReq
        /\ IF c.probe.phase = "PlacePending"
           THEN d.probe.phase = "PostAccepted" /\ ~d.probe.late
           ELSE d.probe.phase = c.probe.phase /\ d.probe.late = c.probe.late
    BY <1>7, <1>8 DEF Early
  <2>2. Follow(d.probe, d.wire, M.frames)
    BY <1>2, <1>8, <2>1 DEF Early, Follow, EarlyPhases, Replied
  <2>3. Worth(d, M)
    BY <1>6, <1>8, <2>1 DEF Early, Worth, Replied
  <2>4. NoLive(M) <=> Ended(M.frames)
    BY <1>8 DEF Early, NoLive, Replied
  <2>5. Early(d, M)
    BY <1>2, <1>6, <1>8, <2>1, <2>2, <2>3, <2>4 DEF Early, Replied
  <2> QED BY <1>3, <2>1, <2>5, GoodStages
<1>9. CASE Active(c) /\ Settling(c, N)
  <2>1. /\ Bound(d, M) /\ r[1] = "place" /\ Active(d)
        /\ d.probe.id = c.probe.id /\ d.probe.oid = Maker(c.probe.id)
        /\ d.probe.cum = c.probe.cum /\ d.probe.rem = c.probe.rem
        /\ d.probe.cancelReq = c.probe.cancelReq
        /\ IF c.probe.phase = "PlacePending"
           THEN d.probe.phase = "PostAccepted" /\ ~d.probe.late
           ELSE d.probe.phase = c.probe.phase /\ d.probe.late = c.probe.late
    BY <1>7, <1>9 DEF Settling
  <2>2. (Flattening(c) <=> Flattening(d)) /\ (Asked(c) <=> Asked(d))
    BY <1>2, <1>9, <2>1 DEF Flattening, Asked, Settling
  <2>3. NoLive(M)
    BY <1>9 DEF Settling, NoLive, Replied
  <2>4. \A i \in DOMAIN M.frames : IsFill(M.frames[i]) => LastFill(d, M, M.frames[i])
    <3> SUFFICES ASSUME NEW i \in DOMAIN M.frames, IsFill(M.frames[i])
                 PROVE  LastFill(d, M, M.frames[i])
      OBVIOUS
    <3>1. LastFill(c, N, M.frames[i])
      BY <1>9 DEF Settling, Replied
    <3> QED BY <1>2, <1>6, <2>1, <2>2, <3>1 DEF LastFill, Replied
  <2>5. Settling(d, M)
    BY <1>2, <1>6, <1>9, <2>1, <2>2, <2>3, <2>4 DEF Settling, Replied
  <2> QED BY <1>3, <2>1, <2>5, GoodStages
<1> QED BY <1>4, <1>5, <1>8, <1>9, GoodStages

-----------------------------------------------------------------------------
(* The private feed *)

\* The first frame on its way is handed over.
Delivered(N, M) ==
  /\ 1 \in DOMAIN N.frames /\ M.frames = RemoveAt(N.frames, 1)
  /\ M.book = N.book /\ M.position = N.position /\ M.answers = N.answers /\ M.snap = N.snap

LEMMA DeliveredFrames ==
  ASSUME NEW N, NetTyped(N), NEW M, Delivered(N, M)
  PROVE  /\ NetTyped(M) /\ N.frames[1] \in Frames /\ N.frames \in Seq(Frames) /\ N.frames # <<>>
         /\ \A i \in DOMAIN M.frames : /\ i + 1 \in DOMAIN N.frames /\ M.frames[i] = N.frames[i + 1]
                                       /\ i \in Int /\ i >= 1 /\ i + 1 # 1
<1>1. N.frames \in Seq(Frames)
  BY DEF NetTyped
<1>2. /\ M.frames \in Seq(Frames) /\ DOMAIN M.frames = 1 .. Len(N.frames) - 1
      /\ \A i \in DOMAIN M.frames : i + 1 \in DOMAIN N.frames /\ M.frames[i] = N.frames[i + 1]
      /\ Len(N.frames) \in Nat
  BY <1>1, HeadRemoved DEF Delivered
<1>3. N.frames[1] \in Frames /\ N.frames # <<>>
  BY <1>1 DEF Delivered
<1>4. NetTyped(M)
  BY <1>2 DEF NetTyped, Delivered
<1> QED BY <1>1, <1>2, <1>3, <1>4

LEMMA DeliveredCommon ==
  ASSUME NEW N, NetTyped(N), NEW M, Delivered(N, M), NEW c, Common(c, N)
  PROVE  Common(c, M)
BY DeliveredFrames DEF Common, Delivered

LEMMA DeliveredOver ==
  ASSUME NEW N, NEW M, Delivered(N, M), NEW c, NEW d, Over(c, N),
         \A r \in d.wire \ c.wire : r[1] # "place"
  PROVE  Over(d, M)
BY DEF Over, NoLive, NoPlace, Delivered

LEMMA DeliveredIdle ==
  ASSUME NEW N, NetTyped(N), NEW M, Delivered(N, M), NEW c, NEW d, Idle(c, N),
         d.wire = c.wire, c.cooling => d.cooling, ReadZero(c, N) => ReadZero(d, M)
  PROVE  Idle(d, M)
BY DeliveredFrames, DeliveredOver DEF Idle

LEMMA DeliveredSpent ==
  ASSUME NEW N, NetTyped(N), NEW M, Delivered(N, M), NEW c, NEW d, Spent(c, N),
         \A r \in d.wire \ c.wire : r[1] # "place",
         d.probe.cum = 0 => c.probe.cum = 0 /\ (ReadZero(c, N) => ReadZero(d, M))
  PROVE  Spent(d, M)
<1>1. Over(d, M)
  BY DeliveredOver DEF Spent
<1>2. /\ N.frames \in Seq(Frames) /\ N.frames # <<>>
      /\ \A i \in DOMAIN M.frames :
           i + 1 \in DOMAIN N.frames /\ M.frames[i] = N.frames[i + 1] /\ i + 1 # 1
  BY DeliveredFrames
<1>3. OpensFirst(d.probe.cum, M.frames)
  BY <1>2 DEF Spent, OpensFirst
<1>4. Filling(M.frames) => Filling(N.frames)
  BY <1>2 DEF Filling
<1>5. \A r \in DOMAIN M.answers : ~(r[1] = "place" /\ M.answers[r] = "rejected")
  BY <1>2 DEF Spent, Delivered
<1> QED BY <1>1, <1>3, <1>4, <1>5 DEF Spent

LEMMA DeliveredBound ==
  ASSUME NEW N, NEW M, Delivered(N, M), NEW c, NEW d, Bound(c, N),
         d.probe.id = c.probe.id, d.probe.flatOid = c.probe.flatOid,
         \A r \in d.wire \ c.wire : r[1] # "place" /\ (r[1] = "cancel" => r[2] = Maker(c.probe.id))
  PROVE  Bound(d, M)
BY DEF Bound, NoPlace, Delivered

\* What an update that matches does: an open one sets the amounts, the order's
\* end leaves nothing to trade.
Opened(d, u) ==
  /\ d.probe.phase = IF u.filled > 0 THEN "Partial" ELSE "Resting"
  /\ d.probe.oid = u.oid /\ d.probe.rem = u.left /\ d.probe.cum = u.filled
Closed(c, d, u) ==
  /\ d.probe.rem = 0 /\ d.probe.oid = (IF u.status = "filled" THEN u.oid ELSE c.probe.oid)
  /\ d.probe.cum = Larger(c.probe.cum, u.filled)
  /\ d.probe.phase = (IF u.status = "filled" \/ Larger(c.probe.cum, u.filled) > 0
                      THEN "MarkoutPending" ELSE "Recovering")
  /\ d.probe.phase = "MarkoutPending" =>
       (d.probe.late <=> c.probe.late /\ c.probe.phase = "MarkoutPending")

LEMMA OpenDoes ==
  ASSUME NEW c \in Contexts, Unlimited(c), NEW u \in Frames, IsOpen(u)
  PROVE  LET d == OrderOpen(c, u) IN
         /\ Apart(c, d) /\ d.wire = c.wire /\ d.markouts = c.markouts /\ d.cooling = c.cooling
         /\ d.probe.id = c.probe.id /\ d.probe.flatOid = c.probe.flatOid
         /\ d.probe.cancelReq = c.probe.cancelReq /\ Opened(d, u)
<1> DEFINE p == [c.probe EXCEPT !.oid = u.oid, !.rem = u.left, !.cum = u.filled, !.opened = TRUE]
           q == Enter(p, IF u.filled > 0 THEN "Partial" ELSE "Resting")
           e == [c EXCEPT !.probe = q]
           d == OrderOpen(c, u)
<1>1. c.probe \in ProbeRecords
  BY ContextParts
<1>2. /\ Apart(c, e) /\ e.probe = q /\ e.wire = c.wire /\ e.markouts = c.markouts
      /\ e.cooling = c.cooling
  BY ProbePut
<1>3. d = e
  <2>1. d = e \/ d = Record(e, 1)
    BY DEF OrderOpen
  <2> HIDE DEF e, d
  <2>2. Record(e, 1) = e
    BY <1>2, RecordNothing, UnlimitedKept DEF Apart
  <2> QED BY <2>1, <2>2
<1>4. /\ q.phase = (IF u.filled > 0 THEN "Partial" ELSE "Resting")
      /\ q.oid = u.oid /\ q.rem = u.left /\ q.cum = u.filled
      /\ q.id = c.probe.id /\ q.flatOid = c.probe.flatOid /\ q.cancelReq = c.probe.cancelReq
  BY <1>1 DEF Enter, ProbeRecords
<1> HIDE DEF d, e, q
<1>5. /\ Apart(c, d) /\ d.wire = c.wire /\ d.markouts = c.markouts /\ d.cooling = c.cooling
      /\ d.probe.id = c.probe.id /\ d.probe.flatOid = c.probe.flatOid
      /\ d.probe.cancelReq = c.probe.cancelReq /\ Opened(d, u)
  BY <1>2, <1>3, <1>4 DEF Opened
<1> QED BY <1>5 DEF d

LEMMA DoneFields ==
  ASSUME NEW p \in ProbeRecords, NEW u
  PROVE  LET q == OrderDone(p, u) IN
         /\ q.phase = "MarkoutPending" /\ q.id = p.id /\ q.oid = p.oid /\ q.flatOid = p.flatOid
         /\ q.cancelReq = p.cancelReq /\ q.rem = 0 /\ q.cum = Larger(p.cum, u.filled)
         /\ q.late <=> p.late /\ p.phase = "MarkoutPending"
BY DEF OrderDone, Enter, ProbeRecords

LEMMA CloseDoes ==
  ASSUME NEW c \in Contexts, Unlimited(c), ~c.err, NEW u \in Frames, IsEnd(u), Matches(c, u.oid)
  PROVE  LET d == OrderUpdate(c, u) IN
         /\ Apart(c, d) /\ d.wire = c.wire /\ d.markouts = c.markouts /\ d.cooling = c.cooling
         /\ d.probe.id = c.probe.id /\ d.probe.flatOid = c.probe.flatOid
         /\ d.probe.cancelReq = c.probe.cancelReq /\ Closed(c, d, u)
<1> DEFINE d == OrderUpdate(c, u)
           p == c.probe
           settling == [p EXCEPT !.phase = "Recovering", !.late = FALSE,
                                 !.rem = 0, !.terminal = "current"]
           goal == /\ Apart(c, d) /\ d.wire = c.wire /\ d.markouts = c.markouts
                   /\ d.cooling = c.cooling
                   /\ d.probe.id = c.probe.id /\ d.probe.flatOid = c.probe.flatOid
                   /\ d.probe.cancelReq = c.probe.cancelReq /\ Closed(c, d, u)
<1>1. p \in ProbeRecords /\ p.cum \in Nat
  BY ContextParts DEF ProbeRecords
<1>2. u.status \in {"filled", "canceled"} /\ u.filled \in Nat /\ u.oid \in Oids
  BY UpdateFields DEF IsEnd
<1>3. u.status = "canceled" => d = OrderCancelled(c, u)
  BY DEF OrderUpdate
<1>4. u.status = "filled" => d = [c EXCEPT !.probe = OrderDone([p EXCEPT !.oid = u.oid], u)]
  BY DEF OrderUpdate
<1>5. Record(c, 1) = c
  BY RecordNothing
<1>6. ASSUME NEW q, d = [c EXCEPT !.probe = q], q.id = p.id, q.flatOid = p.flatOid,
             q.cancelReq = p.cancelReq, Closed(c, [probe |-> q], u)
      PROVE  goal
  <2> HIDE DEF d
  <2>1. /\ Apart(c, d) /\ d.probe = q /\ d.wire = c.wire /\ d.markouts = c.markouts
        /\ d.cooling = c.cooling
    BY <1>6, ProbePut
  <2> QED BY <1>6, <2>1 DEF Closed
<1>7. CASE u.status = "filled"
  <2> DEFINE o == [p EXCEPT !.oid = u.oid]
             q == OrderDone(o, u)
  <2>1. o \in ProbeRecords /\ o.id = p.id /\ o.oid = u.oid /\ o.flatOid = p.flatOid
        /\ o.cancelReq = p.cancelReq /\ o.cum = p.cum /\ o.late = p.late /\ o.phase = p.phase
    BY <1>1, <1>2 DEF ProbeRecords
  <2>2. d = [c EXCEPT !.probe = q]
    BY <1>4, <1>7
  <2> HIDE DEF o
  <2>3. /\ q.phase = "MarkoutPending" /\ q.id = o.id /\ q.oid = o.oid /\ q.flatOid = o.flatOid
        /\ q.cancelReq = o.cancelReq /\ q.rem = 0 /\ q.cum = Larger(o.cum, u.filled)
        /\ q.late <=> o.late /\ o.phase = "MarkoutPending"
    BY <2>1, DoneFields
  <2> HIDE DEF q, d
  <2>4. Closed(c, [probe |-> q], u)
    BY <1>7, <2>1, <2>3 DEF Closed
  <2>5. goal
    BY <1>6, <2>1, <2>2, <2>3, <2>4
  <2> QED BY <2>5 DEF d
<1>8. CASE u.status = "canceled" /\ Larger(p.cum, u.filled) > 0
  <2> DEFINE q == OrderDone(p, u)
  <2>1. d = [c EXCEPT !.probe = q]
    BY <1>3, <1>5, <1>8 DEF OrderCancelled
  <2>2. /\ q.phase = "MarkoutPending" /\ q.id = p.id /\ q.oid = p.oid /\ q.flatOid = p.flatOid
        /\ q.cancelReq = p.cancelReq /\ q.rem = 0 /\ q.cum = Larger(p.cum, u.filled)
        /\ q.late <=> p.late /\ p.phase = "MarkoutPending"
    BY <1>1, DoneFields
  <2> HIDE DEF q, d
  <2>3. Closed(c, [probe |-> q], u)
    BY <1>8, <2>2 DEF Closed
  <2>4. goal
    BY <1>6, <2>1, <2>2, <2>3
  <2> QED BY <2>4 DEF d
<1>9. CASE u.status = "canceled" /\ ~(Larger(p.cum, u.filled) > 0)
  <2>1. d = Record([c EXCEPT !.probe = settling], 1)
    BY <1>3, <1>5, <1>9 DEF OrderCancelled
  <2> DEFINE e == [c EXCEPT !.probe = settling]
  <2>2. e.fuel = c.fuel
    BY DEF Contexts
  <2> HIDE DEF e, d, settling
  <2>3. Record(e, 1) = e
    BY <2>2, RecordNothing, UnlimitedKept
  <2>4. d = [c EXCEPT !.probe = settling]
    BY <2>1, <2>3 DEF e
  <2>5. /\ settling.phase = "Recovering" /\ settling.id = p.id /\ settling.oid = p.oid
        /\ settling.flatOid = p.flatOid /\ settling.cancelReq = p.cancelReq
        /\ settling.rem = 0 /\ settling.cum = p.cum
    BY <1>1 DEF ProbeRecords, settling
  <2>6. p.cum = Larger(p.cum, u.filled)
    BY <1>1, <1>2, <1>9 DEF Larger
  <2>7. Closed(c, [probe |-> settling], u)
    BY <1>9, <2>5, <2>6 DEF Closed
  <2>8. goal
    BY <1>6, <2>4, <2>5, <2>7
  <2> QED BY <2>8 DEF d
<1> QED BY <1>2, <1>7, <1>8, <1>9

LEMMA ReadZeroKept ==
  ASSUME NEW c, NEW d, NEW N, NEW M, Apart(c, d), M.snap = N.snap, ReadZero(c, N)
  PROVE  ReadZero(d, M)
BY DEF Apart, ReadZero, Counted

LEMMA UpdateGone ==
  ASSUME NEW c \in Contexts, Unlimited(c), ~c.err, NEW N, NetTyped(N), NEW M, Delivered(N, M),
         N.frames[1].kind = "update", Common(c, N), Gone(c, N)
  PROVE  LET d == OrderUpdate(c, N.frames[1]) IN Common(d, M) /\ Gone(d, M)
<1> DEFINE u == N.frames[1]
           d == OrderUpdate(c, u)
<1>1. u \in Frames /\ c.probe.cum \in Nat /\ (IsOpen(u) \/ IsEnd(u)) /\ Common(c, M)
  BY DeliveredFrames, DeliveredCommon, ContextParts DEF IsOpen, IsEnd, ProbeRecords
<1>2. \A m \in c.markouts : ~m.done
  BY DEF Common
<1> SUFFICES Common(d, M) /\ Gone(d, M)
  OBVIOUS
<1>3. CASE ~Matches(c, u.oid)
  <2>1. d = c
    BY <1>3 DEF OrderUpdate
  <2>2. ReadZero(c, N) => ReadZero(c, M)
    BY AlikeRefl, ReadZeroKept DEF Delivered
  <2>3. Gone(c, M)
    BY <1>1, <2>2, DeliveredIdle, DeliveredSpent DEF Gone
  <2> QED BY <1>1, <2>1, <2>3
<1>4. ASSUME Matches(c, u.oid), Apart(c, d), d.wire = c.wire, d.markouts = c.markouts, Active(d),
             d.probe.cum = 0 => c.probe.cum = 0
      PROVE  Common(d, M) /\ Gone(d, M)
  <2> HIDE DEF d
  <2>1. Common(d, M)
    BY <1>1, <1>2, <1>4, CommonKept
  <2>2. ReadZero(c, N) => ReadZero(d, M)
    BY <1>4, ReadZeroKept DEF Delivered
  <2>3. Spent(c, N)
    BY <1>4 DEF Matches, Gone
  <2>4. Spent(d, M)
    BY <1>4, <2>2, <2>3, DeliveredSpent
  <2> QED BY <1>4, <2>1, <2>4 DEF Gone
<1>5. CASE Matches(c, u.oid) /\ IsOpen(u)
  <2>1. d = OrderOpen(c, u)
    BY <1>5 DEF OrderUpdate, IsOpen
  <2> HIDE DEF d
  <2>2. Apart(c, d) /\ d.wire = c.wire /\ d.markouts = c.markouts /\ Opened(d, u)
    BY <1>1, <1>5, <2>1, OpenDoes
  <2>3. c.probe.cum = 0 /\ u.filled = 0
    BY <1>5 DEF Matches, Gone, Spent, OpensFirst, Delivered
  <2> QED BY <1>4, <1>5, <2>2, <2>3 DEF Opened, Active
<1>6. CASE Matches(c, u.oid) /\ IsEnd(u)
  <2>1. Apart(c, d) /\ d.wire = c.wire /\ d.markouts = c.markouts /\ Closed(c, d, u)
    BY <1>1, <1>6, CloseDoes
  <2> HIDE DEF d
  <2>2. u.filled \in Nat
    BY <1>1, UpdateFields
  <2>3. Active(d) /\ (d.probe.cum = 0 => c.probe.cum = 0)
    BY <1>1, <2>1, <2>2 DEF Closed, Larger, Active
  <2> QED BY <1>4, <1>6, <2>1, <2>3
<1> QED BY <1>1, <1>3, <1>5, <1>6

\* The order of an early probe is heard of, and its place no longer waited for.
LEMMA OpenEarly ==
  ASSUME NEW c \in Contexts, NEW d, NEW N, NetTyped(N), NEW M, Delivered(N, M),
         IsOpen(N.frames[1]), Early(c, N), Apart(c, d), d.wire = c.wire,
         d.probe.id = c.probe.id, d.probe.flatOid = c.probe.flatOid,
         d.probe.cancelReq = c.probe.cancelReq, Opened(d, N.frames[1])
  PROVE  Early(d, M) /\ Active(d)
<1> DEFINE u == N.frames[1]
           m == Maker(c.probe.id)
<1>1. u \in Frames /\ N.frames \in Seq(Frames) /\ 1 \in DOMAIN N.frames
      /\ M.frames = RemoveAt(N.frames, 1)
  BY DeliveredFrames DEF Delivered
<1>2. Stream(m, c.probe.cum, N.position, N.frames)
  BY DEF Early
<1>3. c.probe.cum = 0 /\ u.filled = 0 /\ u.oid = m
  BY <1>1, <1>2 DEF Stream, Traded, OpensFirst, OnlyOf, IsOpen, IsPosition
<1>4. u.left = Size
  BY <1>1, <1>3, UpdateFields, SizeAssumption
<1>5. /\ d.probe.phase = "Resting" /\ d.probe.oid = m /\ d.probe.rem = Size /\ d.probe.cum = 0
  BY <1>3, <1>4 DEF Opened
<1>6. Bound(d, M)
  BY DeliveredBound DEF Early
<1>7. N.position \in Nat
  BY SizeAssumption DEF NetTyped, Lots
<1>8. ~IsFill(u) /\ ~IsEnd(u)
  BY <1>1, FrameKinds
<1>9. Stream(m, 0, N.position, M.frames)
  BY <1>1, <1>2, <1>3, <1>7, <1>8, StreamOther
<1>10. ~Announced(M.frames) /\ (Ended(M.frames) <=> Ended(N.frames))
  BY <1>1, <1>2, <1>8, HeadParts, HeadKinds DEF Stream, Traded
<1>11. ~c.probe.cancelReq
  <2>1. Announced(N.frames)
    BY <1>1 DEF Announced
  <2>2. c.probe.phase \in {"PlacePending", "PostAccepted"}
    BY <2>1 DEF Early, Follow
  <2> QED BY <2>2, ContextParts DEF GoodProbes, MatchesProgress
<1>12. Follow(d.probe, d.wire, M.frames)
  BY <1>5, <1>10, <1>11, SizeAssumption DEF Early, Follow, EarlyPhases
<1>13. Worth(d, M)
  <2>1. \A i \in DOMAIN M.frames : i + 1 \in DOMAIN N.frames /\ M.frames[i] = N.frames[i + 1]
    BY DeliveredFrames
  <2>2. (Counted(d, M) <=> Counted(c, N)) /\ d.account = c.account /\ M.snap = N.snap
        /\ M.position = N.position
    BY DEF Apart, Counted, Delivered
  <2>3. Whole(c, N) => Whole(d, M)
    BY <2>2 DEF Whole
  <2> QED BY <1>3, <1>5, <2>1, <2>2, <2>3 DEF Early, Worth
<1>14. NoLive(M) <=> Ended(M.frames)
  BY <1>10 DEF Early, NoLive, Delivered
<1> QED BY <1>3, <1>5, <1>6, <1>9, <1>12, <1>13, <1>14
        DEF Early, Apart, Delivered, Active

\* The end of its order settles a probe of which something has traded, and leaves
\* nothing of the others.
LEMMA CloseEarly ==
  ASSUME NEW c \in Contexts, NEW d, NEW N, NetTyped(N), NEW M, Delivered(N, M),
         IsEnd(N.frames[1]), Early(c, N), Apart(c, d), d.wire = c.wire, d.markouts = c.markouts,
         d.probe.id = c.probe.id, d.probe.flatOid = c.probe.flatOid,
         Closed(c, d, N.frames[1])
  PROVE  Active(d) /\ (Settling(d, M) \/ Gone(d, M))
<1> DEFINE u == N.frames[1]
           m == Maker(c.probe.id)
           pos == N.position
           cum == c.probe.cum
<1>1. u \in Frames /\ N.frames \in Seq(Frames) /\ 1 \in DOMAIN N.frames
      /\ M.frames = RemoveAt(N.frames, 1)
  BY DeliveredFrames DEF Delivered
<1>2. /\ OnlyOf(m, N.frames) /\ OpensFirst(cum, N.frames) /\ FillsFollow(cum, pos, N.frames)
      /\ PositionsFit(cum, pos, N.frames) /\ EndsLast(pos, N.frames)
  BY DEF Early, Stream, Traded
<1>3. ~IsFill(u) /\ ~IsOpen(u) /\ ~IsPosition(u)
  BY <1>1, FrameKinds
<1>4. u.filled = pos /\ u.oid = m /\ u.status \in {"filled", "canceled"} /\ u.left \in Nat
      /\ (u.status = "filled" => pos = Size) /\ pos \in Nat /\ pos <= Size
      /\ cum \in Nat /\ cum <= pos /\ c.account.inv \in Int /\ Size \in Nat /\ Size > 0
  <2>1. u.filled = pos /\ u.oid = m
    BY <1>1, <1>2, <1>3 DEF EndsLast, OnlyOf
  <2>2. u.status \in {"filled", "canceled"} /\ u.left \in Nat /\ u.filled + u.left = Size
        /\ (u.status = "filled" => u.left = 0) /\ u.filled \in Nat
    BY <1>1, UpdateFields DEF IsEnd
  <2>3. pos \in Nat /\ pos <= Size /\ Size \in Nat /\ Size > 0
    BY SizeAssumption DEF NetTyped, Lots
  <2>4. cum \in Nat /\ cum <= pos /\ c.account.inv \in Int
    BY <1>2, ContextParts DEF FillsFollow, ProbeRecords, AccountRecords
  <2> QED BY <2>1, <2>2, <2>3, <2>4
<1>5. ~Announced(N.frames) /\ ~Announced(M.frames) /\ OnlyOf(m, M.frames)
  <2>1. \A i \in DOMAIN N.frames : ~IsOpen(N.frames[i])
    BY <1>1, <1>2, <1>3 DEF OpensFirst
  <2> QED BY <1>1, <1>2, <2>1, HeadParts DEF Announced
<1>6. /\ c.probe.oid = m /\ c.probe.phase \in EarlyPhases
      /\ \A r \in c.wire : r[1] # "flatten"
      /\ NoLive(N) /\ Worth(c, N) /\ Bound(c, N)
      /\ (cum > 0 => c.markouts # {})
      /\ \A x \in c.seen : x[1] = m => x[2] <= cum
  <2>1. Ended(N.frames)
    BY <1>1 DEF Ended
  <2> QED BY <1>5, <2>1 DEF Early, Follow
<1>7. Bound(d, M)
  BY <1>6, DeliveredBound
<1>8. \A i \in DOMAIN M.frames : /\ i + 1 \in DOMAIN N.frames /\ M.frames[i] = N.frames[i + 1]
                                 /\ i \in Int /\ i >= 1 /\ i + 1 # 1
  BY DeliveredFrames
<1>9. NoLive(M) /\ M.position = pos
  BY <1>6 DEF NoLive, Delivered
<1>10. /\ Counted(d, M) <=> Counted(c, N)
       /\ d.account = c.account /\ d.seen = c.seen /\ M.snap = N.snap
       /\ Whole(c, N) => Whole(d, M)
  BY DEF Apart, Counted, Whole, Delivered
\* Only the fill that the end has overtaken may follow.
<1>11. ASSUME NEW j \in DOMAIN N.frames, IsFill(N.frames[j])
       PROVE  /\ j = 2 /\ N.frames[j].trade = Size /\ u.status = "filled" /\ pos = Size
              /\ Before(N.frames[j]) = cum /\ cum < Size
              /\ (N.frames[j].size = Size => cum = 0) /\ (cum = 0 => N.frames[j].size = Size)
  <2>1. j \in Int /\ 1 < j
    BY <1>1, <1>3, <1>11
  <2>2. u.status = "filled" /\ j = 1 + 1 /\ N.frames[j].trade = Size
    BY <1>1, <1>2, <1>11, <2>1 DEF EndsLast
  <2>3. \A i \in DOMAIN N.frames : i < j => i = 1
    BY <1>1, <2>1, <2>2
  <2>4. Before(N.frames[j]) = cum
    BY <1>2, <1>3, <1>11, <2>3 DEF FillsFollow
  <2>5. N.frames[j] \in Frames
    BY <1>1
  <2> QED BY <1>4, <1>11, <2>2, <2>4, <2>5, FillFields
<1>12. ~Filling(N.frames) => cum = pos
  BY <1>2 DEF FillsFollow, Filling
<1>13. \A i \in DOMAIN N.frames : IsPosition(N.frames[i]) => pos <= N.frames[i].lots
  <2> SUFFICES ASSUME NEW i \in DOMAIN N.frames, IsPosition(N.frames[i])
               PROVE  pos <= N.frames[i].lots
    OBVIOUS
  <2>1. CASE ~Filling(N.frames)
    BY <1>2, <1>12, <2>1 DEF PositionsFit
  <2>2. CASE Filling(N.frames)
    <3>1. PICK j \in DOMAIN N.frames : IsFill(N.frames[j])
      BY <2>2 DEF Filling
    <3>2. j = 2 /\ N.frames[j].trade = Size /\ pos = Size
      BY <1>11, <3>1
    <3>3. i # 1 /\ i # 2 /\ i \in Int /\ i >= 1
      <4>1. i # 1
        BY <1>3
      <4>2. i # 2
        <5>1. N.frames[i] \in Frames
          BY <1>1
        <5> QED BY <3>1, <3>2, <5>1, FrameKinds
      <4> QED BY <1>1, <4>1, <4>2
    <3>4. j < i
      BY <3>2, <3>3
    <3> QED BY <1>2, <3>1, <3>2, <3>4 DEF PositionsFit
  <2> QED BY <2>1, <2>2
<1>14. CASE pos > 0
  <2>1. /\ d.probe.phase = "MarkoutPending" /\ ~d.probe.late /\ d.probe.rem = 0
        /\ d.probe.oid = m /\ d.probe.cum = pos
    BY <1>4, <1>6, <1>14 DEF Closed, Larger, EarlyPhases
  <2>2. Rest(m, pos, M.frames)
    <3>1. \A i \in DOMAIN M.frames : IsPosition(M.frames[i]) => pos <= M.frames[i].lots
      BY <1>8, <1>13
    <3>2. ASSUME NEW i \in DOMAIN M.frames, IsFill(M.frames[i])
          PROVE  i = 1 /\ M.frames[i].trade = Size
      BY <1>8, <1>11, <3>2
    <3> QED BY <1>5, <3>1, <3>2 DEF Rest
  <2>3. ~Filling(M.frames) =>
           pos <= d.account.inv /\ (Counted(d, M) => pos <= M.snap.inv)
    <3>1. ~Filling(M.frames) => ~Filling(N.frames)
      BY <1>1, <1>3, HeadKinds
    <3> QED BY <1>6, <1>10, <1>12, <3>1 DEF Worth
  <2>4. ASSUME NEW i \in DOMAIN M.frames, IsFill(M.frames[i])
        PROVE  LastFill(d, M, M.frames[i])
    <3> DEFINE f == M.frames[i]
    <3>1. i + 1 \in DOMAIN N.frames /\ f = N.frames[i + 1] /\ IsFill(N.frames[i + 1])
      BY <1>8, <2>4
    <3>2. /\ f.trade = Size /\ pos = Size /\ Before(f) = cum /\ cum < Size
          /\ (cum = 0 => f.size = Size)
      BY <1>11, <3>1
    <3>3. <<m, Size>> \notin d.seen
      BY <1>4, <1>6, <1>10, <3>2
    <3>4. Before(f) <= d.account.inv /\ d.account.inv <= 2 * Size
      BY <1>4, <1>6, <1>10, <3>2 DEF Worth
    <3>5. Counted(d, M) => Before(f) <= M.snap.inv
      BY <1>6, <1>10, <3>2 DEF Worth
    <3>6. ~Asked(d)
      BY <1>6, <2>1 DEF Asked, Flattening
    <3>7. d.markouts # {} \/ (f.size = Size /\ Whole(d, M))
      <4>1. cum > 0 => d.markouts # {}
        BY <1>6
      <4>2. cum = 0 => f.size = Size /\ Whole(d, M)
        BY <1>6, <1>10, <3>1, <3>2 DEF Worth
      <4> QED BY <1>4, <4>1, <4>2
    <3> HIDE DEF f
    <3> QED BY <1>9, <3>2, <3>3, <3>4, <3>5, <3>6, <3>7 DEF LastFill, f
  <2>5. Settling(d, M)
    BY <1>4, <1>6, <1>7, <1>9, <1>14, <2>1, <2>2, <2>3, <2>4 DEF Settling
  <2> QED BY <2>1, <2>5 DEF Active
<1>15. CASE pos = 0
  <2>1. cum = 0 /\ u.status = "canceled" /\ d.probe.phase = "Recovering" /\ d.probe.cum = 0
    BY <1>4, <1>15 DEF Closed, Larger
  <2>2. ~Filling(N.frames)
    BY <1>4, <1>11, <1>15 DEF Filling
  <2>3. ~Filling(M.frames)
    BY <1>1, <2>2, HeadKinds
  <2>4. ReadZero(d, M)
    <3>1. Counted(c, N) => N.snap.inv \in Nat /\ N.snap.inv <= 0
      BY <1>6, <1>15 DEF Worth, NetTyped, Lots
    <3> QED BY <1>10, <3>1 DEF ReadZero
  <2>5. Over(d, M)
    BY <1>7, <1>9, <1>15 DEF Over, Bound
  <2>6. OpensFirst(0, M.frames)
    BY <1>5, NoneAnnounced
  <2>7. Spent(d, M)
    BY <1>7, <2>1, <2>3, <2>4, <2>5, <2>6 DEF Spent, Bound
  <2> QED BY <2>1, <2>7 DEF Gone, Active
<1> QED BY <1>4, <1>14, <1>15

\* A settled probe keeps to its last fill and to the positions that show it.
LEMMA DeliveredRest ==
  ASSUME NEW N, NetTyped(N), NEW M, Delivered(N, M), NEW m, NEW pos, Rest(m, pos, N.frames)
  PROVE  Rest(m, pos, M.frames) /\ ~Filling(M.frames)
<1>1. \A i \in DOMAIN M.frames :
        i + 1 \in DOMAIN N.frames /\ M.frames[i] = N.frames[i + 1] /\ i + 1 # 1
  BY DeliveredFrames
<1>2. ~Filling(M.frames)
  BY <1>1 DEF Rest, Filling
<1>3. Rest(m, pos, M.frames)
  BY <1>1 DEF Rest, OnlyOf, Announced
<1> QED BY <1>2, <1>3

LEMMA DeliveredSettling ==
  ASSUME NEW N, NetTyped(N), NEW M, Delivered(N, M), NEW c, NEW d, Settling(c, N),
         d.wire = c.wire, d.probe.id = c.probe.id, d.probe.flatOid = c.probe.flatOid,
         d.probe.oid = Maker(c.probe.id), d.probe.rem = 0, d.probe.cum > 0, ~d.probe.late,
         \/ d.probe.phase = "MarkoutPending"
         \/ d.probe.phase = c.probe.phase,
         N.position <= d.account.inv, Counted(d, M) => N.position <= N.snap.inv
  PROVE  Settling(d, M)
<1>1. Rest(Maker(c.probe.id), N.position, M.frames) /\ ~Filling(M.frames)
  BY DeliveredRest DEF Settling
<1>2. Bound(d, M)
  BY DeliveredBound DEF Settling
<1>3. NoLive(M) /\ M.position = N.position /\ M.snap = N.snap
  BY DEF Settling, NoLive, Delivered
<1>4. Flattening(d) <=> Flattening(c)
  BY DEF Flattening
<1> QED BY <1>1, <1>2, <1>3, <1>4 DEF Settling, Filling

LEMMA CloseSettling ==
  ASSUME NEW c \in Contexts, NEW d, NEW N, NetTyped(N), NEW M, Delivered(N, M),
         IsEnd(N.frames[1]), Settling(c, N), Apart(c, d), d.wire = c.wire,
         d.probe.id = c.probe.id, d.probe.flatOid = c.probe.flatOid,
         Closed(c, d, N.frames[1])
  PROVE  Active(d) /\ Settling(d, M)
<1> DEFINE u == N.frames[1]
<1>1. u \in Frames /\ 1 \in DOMAIN N.frames /\ ~IsFill(u) /\ ~IsPosition(u)
  BY DeliveredFrames, FrameKinds DEF Delivered
<1>2. u.oid = Maker(c.probe.id) /\ c.probe.oid = Maker(c.probe.id)
  BY <1>1 DEF Settling, Rest, OnlyOf
<1>3. u.filled \in Nat /\ c.probe.cum \in Nat /\ c.probe.cum > 0
  BY <1>1, UpdateFields, ContextParts DEF Settling, ProbeRecords
<1>4. /\ d.probe.phase = "MarkoutPending" /\ ~d.probe.late /\ d.probe.rem = 0
      /\ d.probe.oid = Maker(c.probe.id) /\ d.probe.cum > 0
  BY <1>2, <1>3 DEF Closed, Larger, Settling
<1>5. ~Filling(N.frames)
  BY <1>1 DEF Settling, Rest, Filling
<1>6. N.position <= d.account.inv /\ (Counted(d, M) => N.position <= N.snap.inv)
  BY <1>5 DEF Settling, Apart, Counted, Delivered
<1> QED BY <1>4, <1>6, DeliveredSettling DEF Active

LEMMA UpdateGood ==
  ASSUME NEW c \in Contexts, Unlimited(c), ~c.err, NEW N, NetTyped(N), Good(c, N),
         NEW M, Delivered(N, M), N.frames[1].kind = "update"
  PROVE  Good(OrderUpdate(c, N.frames[1]), M)
<1> DEFINE u == N.frames[1]
           d == OrderUpdate(c, u)
<1>1. u \in Frames /\ (IsOpen(u) \/ IsEnd(u)) /\ ~IsPosition(u) /\ 1 \in DOMAIN N.frames
      /\ Common(c, N) /\ Common(c, M)
  BY DeliveredFrames, DeliveredCommon, FrameKinds DEF IsOpen, IsEnd, Good, Delivered
<1>2. CASE Gone(c, N)
  BY <1>1, <1>2, UpdateGone, GoodStages
<1>3. CASE Active(c) /\ Placed(c, N)
  BY <1>1, <1>3 DEF Placed
<1>4. ASSUME Active(c), u.oid = Maker(c.probe.id)
      PROVE  /\ Common(d, M) /\ Apart(c, d) /\ d.wire = c.wire /\ d.markouts = c.markouts
             /\ d.probe.id = c.probe.id /\ d.probe.flatOid = c.probe.flatOid
             /\ d.probe.cancelReq = c.probe.cancelReq
             /\ (IsOpen(u) => Opened(d, u)) /\ (IsEnd(u) => Closed(c, d, u))
  <2>1. Matches(c, u.oid)
    BY <1>4 DEF Matches
  <2>2. CASE IsOpen(u)
    <3>1. d = OrderOpen(c, u)
      BY <2>1, <2>2 DEF OrderUpdate, IsOpen
    <3>2. ~IsEnd(u)
      BY <1>1, <2>2, FrameKinds
    <3> HIDE DEF d
    <3>3. /\ Apart(c, d) /\ d.wire = c.wire /\ d.markouts = c.markouts
          /\ d.probe.id = c.probe.id /\ d.probe.flatOid = c.probe.flatOid
          /\ d.probe.cancelReq = c.probe.cancelReq /\ Opened(d, u)
      BY <1>1, <2>2, <3>1, OpenDoes
    <3>4. Common(d, M)
      BY <1>1, <3>3, CommonKept DEF Common
    <3> QED BY <3>2, <3>3, <3>4
  <2>3. CASE IsEnd(u)
    <3>1. ~IsOpen(u)
      BY <1>1, <2>3, FrameKinds
    <3>2. /\ Apart(c, d) /\ d.wire = c.wire /\ d.markouts = c.markouts
          /\ d.probe.id = c.probe.id /\ d.probe.flatOid = c.probe.flatOid
          /\ d.probe.cancelReq = c.probe.cancelReq /\ Closed(c, d, u)
      BY <1>1, <2>1, <2>3, CloseDoes
    <3> HIDE DEF d
    <3>3. Common(d, M)
      BY <1>1, <3>2, CommonKept DEF Common
    <3> QED BY <3>1, <3>2, <3>3
  <2> QED BY <1>1, <2>2, <2>3
<1> HIDE DEF d
<1>5. CASE Active(c) /\ Early(c, N)
  <2>1. u.oid = Maker(c.probe.id)
    BY <1>1, <1>5 DEF Early, Stream, Traded, OnlyOf
  <2>2. CASE IsOpen(u)
    <3>1. Early(d, M) /\ Active(d)
      BY <1>4, <1>5, <2>1, <2>2, OpenEarly
    <3> QED BY <1>4, <1>5, <2>1, <3>1, GoodStages DEF d
  <2>3. CASE IsEnd(u)
    <3>1. Active(d) /\ (Settling(d, M) \/ Gone(d, M))
      BY <1>4, <1>5, <2>1, <2>3, CloseEarly
    <3> QED BY <1>4, <1>5, <2>1, <3>1, GoodStages DEF d
  <2> QED BY <1>1, <2>2, <2>3
<1>6. CASE Active(c) /\ Settling(c, N)
  <2>1. u.oid = Maker(c.probe.id) /\ IsEnd(u)
    BY <1>1, <1>6 DEF Settling, Rest, OnlyOf, Announced
  <2>2. Settling(d, M) /\ Active(d)
    BY <1>4, <1>6, <2>1, CloseSettling
  <2> QED BY <1>4, <1>6, <2>1, <2>2, GoodStages DEF d
<1> QED BY <1>2, <1>3, <1>5, <1>6, GoodStages

\* After news of the account what the REST worker has read is out of date.
LEMMA TouchDoes ==
  ASSUME NEW c \in Contexts, NEW N, Common(c, N)
  PROVE  LET d == Touch(c) IN
         /\ d.probe = c.probe /\ d.account = c.account /\ d.markouts = c.markouts
         /\ d.seen = c.seen /\ d.cooling = c.cooling /\ d.wire = c.wire /\ d.issued = c.issued
         /\ d.writerUp = c.writerUp /\ d.fuel = c.fuel /\ d.err = c.err
         /\ d.shutdown.signal = c.shutdown.signal /\ d.rest.worker = c.rest.worker
         /\ d.rest.unread = c.rest.unread /\ Common(d, N) /\ ~Counted(d, N)
<1> DEFINE d == Touch(c)
<1>1. c.rest \in RestRecords /\ c.shutdown \in ShutdownRecords
  BY ContextParts DEF GateRests
<1>2. /\ d.probe = c.probe /\ d.account = c.account /\ d.markouts = c.markouts
      /\ d.seen = c.seen /\ d.cooling = c.cooling /\ d.wire = c.wire /\ d.issued = c.issued
      /\ d.writerUp = c.writerUp /\ d.fuel = c.fuel /\ d.err = c.err
      /\ d.shutdown.signal = c.shutdown.signal /\ d.rest.worker = c.rest.worker
      /\ d.rest.unread = c.rest.unread
      /\ d.rest.stale = (c.rest.worker = "reading" \/ c.rest.unread)
  BY <1>1 DEF Touch, Contexts, RestRecords, ShutdownRecords
<1> HIDE DEF d
<1>3. Common(d, N)
  BY <1>2 DEF Common
<1>4. ~Counted(d, N)
  <2>1. c.rest.worker \in {"idle", "reading"}
    BY <1>1 DEF Common, RestRecords
  <2>2. "positions" \in N.snap.got => c.rest.worker = "reading" \/ c.rest.unread
    BY <2>1 DEF Common
  <2> QED BY <1>2, <2>2 DEF Counted
<1> QED BY <1>2, <1>3, <1>4 DEF d

LEMMA UncountedZero ==
  ASSUME NEW d, NEW N, ~Counted(d, N)
  PROVE  ReadZero(d, N)
BY DEF ReadZero

\* A position that the exchange showed is that of the fills before it, or later.
LEMMA PositionGood ==
  ASSUME NEW c \in Contexts, Unlimited(c), ~c.err, NEW N, NetTyped(N), Good(c, N),
         NEW M, Delivered(N, M), IsPosition(N.frames[1])
  PROVE  Good(Clearinghouse(c, N.frames[1].lots), M)
<1> DEFINE lots == N.frames[1].lots
           a == [c EXCEPT !.account = [c.account EXCEPT !.inv = lots]]
           e == Touch(a)
           d == Clearinghouse(c, lots)
<1>1. lots \in Nat /\ lots > 0 /\ lots <= Size /\ 1 \in DOMAIN N.frames
      /\ N.frames[1] \in Frames /\ N.frames # <<>>
  BY DeliveredFrames, PositionFields DEF Delivered
<1>2. Common(c, N) /\ Common(c, M)
  BY DeliveredCommon DEF Good
<1>3. a \in Contexts /\ a.account.inv = lots
  <2>1. lots \in Int
    BY <1>1
  <2> HIDE DEF lots
  <2> QED BY <2>1, AccountMoves, ContextParts DEF Contexts, AccountRecords
<1>4. /\ a.probe = c.probe /\ a.markouts = c.markouts /\ a.seen = c.seen
      /\ a.cooling = c.cooling /\ a.wire = c.wire /\ a.issued = c.issued
      /\ a.writerUp = c.writerUp /\ a.fuel = c.fuel /\ a.err = c.err /\ a.rest = c.rest
      /\ a.shutdown = c.shutdown
  BY DEF Contexts
<1>5. Common(a, M)
  BY <1>2, <1>4 DEF Common
<1>6. d = MaybeFinishFlatten(e)
  BY <1>3 DEF Clearinghouse
<1> HIDE DEF a
<1>7. /\ e.probe = c.probe /\ e.account = a.account /\ e.markouts = c.markouts
      /\ e.seen = c.seen /\ e.cooling = c.cooling /\ e.wire = c.wire /\ e.fuel = c.fuel
      /\ e.err = c.err /\ Common(e, M) /\ ~Counted(e, M) /\ e \in Contexts
  BY <1>3, <1>4, <1>5, TouchDoes, TouchContext
<1> HIDE DEF e, d
<1>8. (e.account.inv = lots) /\ (Active(e) <=> Active(c)) /\ ReadZero(e, M)
  BY <1>3, <1>7, UncountedZero DEF Active
<1>9. lots # 0 => d = e
  BY <1>6, <1>8 DEF MaybeFinishFlatten
<1>10. d = e
  BY <1>1, <1>9
<1>11. \A i \in DOMAIN M.frames : /\ i + 1 \in DOMAIN N.frames /\ M.frames[i] = N.frames[i + 1]
                                  /\ i \in Int /\ i >= 1
  BY DeliveredFrames
<1>12. M.position = N.position
  BY DEF Delivered
<1>13. CASE ~Active(c)
  BY <1>7, <1>8, <1>10, <1>13, DeliveredIdle, GoodStages DEF Good, Gone, d
<1>14. CASE Active(c) /\ Spent(c, N)
  BY <1>7, <1>8, <1>10, <1>14, DeliveredSpent, GoodStages DEF Gone, d
<1>15. CASE Active(c) /\ Placed(c, N)
  BY <1>1, <1>15 DEF Placed
<1>16. CASE Active(c) /\ Early(c, N)
  <2> DEFINE m == Maker(c.probe.id)
             pos == N.position
             cum == c.probe.cum
  <2>1. Stream(m, cum, pos, N.frames) /\ cum \in Nat /\ pos \in Nat
    BY <1>16, ContextParts, SizeAssumption DEF Early, ProbeRecords, NetTyped, Lots
  <2>2. ~IsFill(N.frames[1]) /\ ~IsEnd(N.frames[1]) /\ ~IsOpen(N.frames[1])
        /\ N.frames \in Seq(Frames) /\ M.frames = RemoveAt(N.frames, 1)
    BY <1>1, DeliveredFrames, FrameKinds DEF Delivered
  <2>3. Stream(m, cum, pos, M.frames)
    BY <1>1, <2>1, <2>2, StreamOther
  <2>4. /\ Announced(M.frames) <=> Announced(N.frames)
        /\ Ended(M.frames) <=> Ended(N.frames)
    BY <1>1, <2>2, HeadKinds
  <2>5. cum <= lots /\ lots <= pos
        /\ \A j \in DOMAIN N.frames : IsFill(N.frames[j]) /\ j > 1 => lots <= Before(N.frames[j])
    <3>1. PositionsFit(cum, pos, N.frames)
      BY <2>1 DEF Stream, Traded
    <3>2. IsPosition(N.frames[1]) /\ 1 \in DOMAIN N.frames /\ DOMAIN N.frames \subseteq Int
      BY <1>1, <2>2, HeadRemoved
    <3>3. /\ cum <= N.frames[1].lots /\ N.frames[1].lots <= pos
          /\ \A j \in DOMAIN N.frames : IsFill(N.frames[j]) =>
               IF j < 1 THEN N.frames[j].trade <= N.frames[1].lots
               ELSE N.frames[1].lots <= Before(N.frames[j])
      BY <3>1, <3>2 DEF PositionsFit
    <3> QED BY <3>2, <3>3
  <2>6. Bound(e, M)
    BY <1>7, <1>16, DeliveredBound DEF Early
  <2>7. Follow(e.probe, e.wire, M.frames)
    BY <1>7, <1>16, <2>4 DEF Early, Follow
  <2>8. NoLive(M) <=> Ended(M.frames)
    BY <1>16, <2>4 DEF Early, NoLive, Delivered
  <2>9. \A i \in DOMAIN M.frames : ~(IsFill(M.frames[i]) /\ M.frames[i].size = Size)
    <3> SUFFICES ASSUME NEW i \in DOMAIN M.frames, IsFill(M.frames[i]), M.frames[i].size = Size
                 PROVE  FALSE
      OBVIOUS
    <3>1. i + 1 \in DOMAIN N.frames /\ M.frames[i] = N.frames[i + 1] /\ i + 1 > 1
      BY <1>11
    <3>2. M.frames[i] \in Frames
      BY <2>2, <3>1
    <3>3. lots <= Before(M.frames[i]) /\ M.frames[i].trade <= pos
      BY <2>1, <2>5, <3>1 DEF Stream, Traded, FillsFollow
    <3>4. pos <= Size /\ Size \in Nat
      BY SizeAssumption DEF NetTyped, Lots
    <3> QED BY <1>1, <2>1, <3>2, <3>3, <3>4, FillFields
  <2>10. Worth(e, M)
    BY <1>7, <1>8, <1>12, <2>1, <2>5, <2>9, <1>1 DEF Worth
  <2>11. Early(e, M)
    BY <1>7, <1>12, <1>16, <2>3, <2>6, <2>7, <2>8, <2>10 DEF Early
  <2> QED BY <1>7, <1>8, <1>10, <1>16, <2>11, GoodStages DEF d
<1>17. CASE Active(c) /\ Settling(c, N)
  <2>1. N.position <= lots
    BY <1>1, <1>17 DEF Settling, Rest
  <2>2. Settling(e, M)
    BY <1>7, <1>8, <1>17, <2>1, DeliveredSettling DEF Settling
  <2> QED BY <1>7, <1>8, <1>10, <1>17, <2>2, GoodStages DEF d
<1> QED BY <1>13, <1>14, <1>15, <1>16, <1>17, GoodStages DEF Good

\* What the handler of a fill reads of a frame.
FillOf(f) == [oid |-> f.oid, trade |-> f.trade, size |-> f.size, sign |-> f.sign]

LEMMA FillRead ==
  ASSUME NEW f \in Frames, IsFill(f), NEW c, NEW send
  PROVE  /\ FillOf(f) \in Fills /\ UserFill(c, FillOf(f), send) = UserFill(c, f, send)
         /\ FillId(FillOf(f)) = <<f.oid, f.trade>>
<1> DEFINE g == FillOf(f)
<1>1. g \in Fills
  BY FillFields DEF Fills, FillOf
<1>2. g.oid = f.oid /\ g.trade = f.trade /\ g.size = f.size /\ g.sign = f.sign
  BY DEF FillOf
<1> HIDE DEF g
<1>3. FillId(g) = FillId(f)
  BY <1>2 DEF FillId
<1>4. FlattenFill([c EXCEPT !.seen = @ \cup {FillId(g)}], g)
        = FlattenFill([c EXCEPT !.seen = @ \cup {FillId(f)}], f)
  BY <1>2, <1>3 DEF FlattenFill
<1>5. MakerFill([c EXCEPT !.seen = @ \cup {FillId(g)}], g, send)
        = MakerFill([c EXCEPT !.seen = @ \cup {FillId(f)}], f, send)
  <2>1. ASSUME NEW b PROVE MakerFill(b, g, send) = MakerFill(b, f, send)
    BY <1>2, <1>3 DEF MakerFill
  <2> QED BY <1>3, <2>1
<1>6. UserFill(c, g, send) = UserFill(c, f, send)
  BY <1>2, <1>3, <1>4, <1>5, Zenon DEF UserFill
<1> QED BY <1>1, <1>3, <1>6 DEF g, FillId


\* What a fill of the probe's order does: the amounts and the account follow it,
\* a markout is opened, and a cancel of the rest is asked for.
Filled(c, d, size) ==
  LET left == Larger(c.probe.rem - size, 0) IN
  /\ d.account.inv = c.account.inv + size
  /\ d.probe.id = c.probe.id /\ d.probe.flatOid = c.probe.flatOid /\ d.probe.oid = c.probe.oid
  /\ d.probe.cum = c.probe.cum + size /\ d.probe.rem = left
  /\ d.markouts # {} /\ d.cooling = c.cooling /\ d.seen = c.seen
  /\ IF left > 0 /\ ~c.probe.cancelReq
     THEN /\ d.probe.phase = "CancelPending" /\ d.probe.cancelReq /\ ~d.probe.late
          /\ d.wire = c.wire \cup {<<"cancel", c.probe.oid, 0>>}
     ELSE /\ d.probe.phase = (IF left > 0 THEN "Partial" ELSE "MarkoutPending")
          /\ d.probe.cancelReq = c.probe.cancelReq /\ d.wire = c.wire
          /\ (d.probe.late <=> c.probe.late /\ c.probe.phase = d.probe.phase)

LEMMA MakerFillDoes ==
  ASSUME NEW c \in Contexts, Unlimited(c), ~c.err, NEW f \in Fills, f.oid # NoOid,
         c.probe.oid = f.oid, NEW send \in BOOLEAN, send, NEW N, Common(c, N)
  PROVE  LET d == MakerFill(c, f, send) IN
         Common(d, N) /\ ~Counted(d, N) /\ Active(d) /\ Filled(c, d, f.size)
<1> DEFINE left == Larger(c.probe.rem - f.size, 0)
           cum == c.probe.cum + f.size
           terminal == IF left > 0 THEN c.probe.terminal ELSE "current"
           p == [c.probe EXCEPT !.cum = cum, !.rem = left, !.terminal = terminal]
           phase == IF left > 0 THEN "Partial" ELSE "MarkoutPending"
           q == Enter(p, phase)
           mark == [probe |-> p.id, fill |-> FillId(f), done |-> FALSE]
           inv == c.account.inv + f.size
           funds == [c.account EXCEPT !.inv = inv]
           marks == c.markouts \cup {mark}
           bought == [c EXCEPT !.probe = q, !.account = funds, !.markouts = marks]
           touched == Touch(bought)
           e == RequestRest(touched)
           d == MakerFill(c, f, send)
<1>1. /\ c.account \in AccountRecords /\ f.oid \in Oids /\ f.trade \in Nat /\ f.size \in Nat
      /\ c.probe \in ProbeRecords
  BY ContextParts DEF Fills
<1>2. p \in ProbeRecords /\ q \in GoodProbes
  BY MakerFillGood
<1>3. inv \in Int
  BY <1>1 DEF AccountRecords
<1>4. marks \in SUBSET MarkoutRecords /\ ~mark.done /\ mark \in marks
  <2>1. p.id \in Nat
    <3> HIDE DEF p
    <3> QED BY <1>2 DEF ProbeRecords
  <2>2. FillId(f) \in Oids \X Nat
    BY <1>1 DEF FillId
  <2>3. mark \in MarkoutRecords /\ ~mark.done
    <3> HIDE DEF p
    <3> QED BY <2>1, <2>2 DEF MarkoutRecords
  <2> HIDE DEF mark
  <2> QED BY <2>3, ContextParts
<1>5. funds \in AccountRecords /\ funds.inv = inv
  <2> HIDE DEF inv
  <2> QED BY <1>1, <1>3 DEF AccountRecords
<1>6. /\ q.id = c.probe.id /\ q.flatOid = c.probe.flatOid /\ q.oid = c.probe.oid
      /\ q.cum = cum /\ q.rem = left /\ q.phase = phase /\ q.cancelReq = c.probe.cancelReq
      /\ q.late = (c.probe.late /\ c.probe.phase = phase)
  <2> HIDE DEF left, cum, terminal, phase
  <2> QED BY <1>1 DEF Enter, ProbeRecords
<1>7. /\ bought \in Contexts /\ bought.probe = q /\ bought.account = funds
      /\ bought.markouts = marks /\ bought.seen = c.seen /\ bought.cooling = c.cooling
      /\ bought.wire = c.wire /\ bought.issued = c.issued /\ bought.writerUp = c.writerUp
      /\ bought.fuel = c.fuel /\ bought.err = c.err /\ bought.rest = c.rest
      /\ bought.shutdown = c.shutdown
  <2> HIDE DEF q, funds, marks
  <2> QED BY <1>2, <1>4, <1>5 DEF Contexts
<1>8. d = IF left > 0 /\ ~p.cancelReq THEN CancelActive(RequestRest(Record(touched, 1)), send)
          ELSE Record(RequestRest(Record(touched, 1)), 1)
  BY DEF MakerFill
<1>9. p.cancelReq = c.probe.cancelReq
  BY <1>1 DEF ProbeRecords
<1>10. Common(bought, N)
  <2>1. \A m \in marks : ~m.done
    BY <1>4 DEF Common
  <2> HIDE DEF bought, marks
  <2> QED BY <1>7, <2>1 DEF Common
<1> HIDE DEF bought, marks, funds, q, p, inv, cum, left, d, mark
<1>11. /\ touched \in Contexts /\ touched.probe = q /\ touched.account = funds
       /\ touched.markouts = marks /\ touched.seen = c.seen /\ touched.cooling = c.cooling
       /\ touched.wire = c.wire /\ touched.fuel = c.fuel /\ touched.err = c.err
       /\ Common(touched, N) /\ ~Counted(touched, N)
  BY <1>7, <1>10, TouchDoes, TouchContext
<1> HIDE DEF touched
<1>12. Record(touched, 1) = touched
  BY <1>11, RecordNothing, UnlimitedKept
<1>13. e \in Contexts /\ Alike(touched, e) /\ e.err = touched.err
  BY <1>11, RequestRestAlike, RequestRestContext
<1> HIDE DEF e
<1>14. /\ e.probe = q /\ e.account = funds /\ e.markouts = marks /\ e.seen = c.seen
       /\ e.cooling = c.cooling /\ e.wire = c.wire /\ e.fuel = c.fuel /\ ~e.err
       /\ ~Counted(e, N) /\ Unlimited(e)
  <2>1. e.fuel = c.fuel /\ ~Counted(e, N)
    BY <1>11, <1>13, CountedAlike DEF Alike, Apart
  <2> QED BY <1>11, <1>13, <2>1, UnlimitedKept DEF Alike, Apart
<1>15. Common(e, N)
  BY <1>11, <1>13, CommonKept DEF Alike, Common
<1>16. q.phase # "Absent" /\ Active(e) /\ q.oid # NoOid
  BY <1>6, <1>14 DEF Active
<1>17. d = IF left > 0 /\ ~c.probe.cancelReq THEN CancelActive(e, send) ELSE e
  <2>1. RequestRest(Record(touched, 1)) = e
    BY <1>12 DEF e
  <2>2. Record(e, 1) = e
    BY <1>14, RecordNothing
  <2> QED BY <1>8, <1>9, <2>1, <2>2
<1>18. CASE ~(left > 0 /\ ~c.probe.cancelReq)
  BY <1>4, <1>5, <1>6, <1>14, <1>15, <1>16, <1>17, <1>18 DEF Filled, left, inv, cum, d
<1>19. CASE left > 0 /\ ~c.probe.cancelReq
  <2>1. d = CancelActive(e, send) /\ e.probe.cancelReq = c.probe.cancelReq
    BY <1>6, <1>14, <1>17, <1>19
  <2>2. /\ Apart(e, d) /\ d.markouts = e.markouts /\ d.cooling = e.cooling /\ Active(d)
        /\ d.probe.cum = e.probe.cum /\ Cancelled(e, d)
    <3>1. ~e.err /\ e.probe.oid # NoOid /\ ~e.probe.cancelReq
      BY <1>14, <1>16, <1>19, <2>1
    <3> QED BY <1>13, <1>14, <1>16, <2>1, <3>1, CancelActiveDoes
  <2>3. Common(d, N)
    <3>1. d.wire = e.wire \cup {<<"cancel", e.probe.oid, 0>>}
      BY <2>2 DEF Cancelled
    <3>2. \A m \in d.markouts : ~m.done
      BY <1>15, <2>2 DEF Common
    <3>3. \A r \in d.wire \ e.wire : r[1] = "cancel"
      BY <3>1
    <3>4. e.wire \subseteq d.wire /\ \A r \in d.wire \ e.wire : r[1] = "flatten" => r[2][1] = "flatten"
      BY <3>1, <3>3
    <3> QED BY <1>15, <2>2, <3>2, <3>4, CommonKept
  <2>4. ~Counted(d, N)
    BY <1>14, <2>2, CountedAlike DEF Apart
  <2>5. phase = "Partial" /\ d.account = e.account /\ d.seen = e.seen
    BY <1>19, <2>2 DEF Apart
  <2>6. d.probe.late = FALSE
    BY <1>6, <1>14, <2>2, <2>5 DEF Cancelled
  <2>7. Filled(c, d, f.size)
    BY <1>4, <1>5, <1>6, <1>14, <1>19, <2>2, <2>5, <2>6 DEF Filled, Cancelled, left, inv, cum
  <2> QED BY <2>2, <2>3, <2>4, <2>7 DEF d
<1> QED BY <1>18, <1>19 DEF d

\* A fill of a flatten tells that the account has changed, and may end the probe.
LEMMA FlattenFillGone ==
  ASSUME NEW c \in Contexts, Unlimited(c), ~c.err, Active(c), NEW f \in Fills,
         NEW N, Common(c, N), Spent(c, N)
  PROVE  LET d == FlattenFill(c, f) IN Common(d, N) /\ Gone(d, N)
<1> DEFINE inv == c.account.inv + f.sign * f.size
           sold == [c EXCEPT !.account = [c.account EXCEPT !.inv = inv]]
           touched == Touch(sold)
           e == MaybeFinishFlatten(touched)
           d == FlattenFill(c, f)
<1>1. inv \in Int
  BY ContextParts DEF AccountRecords, Fills
<1>2. /\ sold \in Contexts /\ sold.probe = c.probe /\ sold.markouts = c.markouts
      /\ sold.seen = c.seen /\ sold.cooling = c.cooling /\ sold.wire = c.wire
      /\ sold.issued = c.issued /\ sold.writerUp = c.writerUp /\ sold.fuel = c.fuel
      /\ sold.err = c.err /\ sold.rest = c.rest /\ sold.shutdown = c.shutdown
  <2> HIDE DEF inv
  <2>1. sold \in Contexts
    BY <1>1, AccountMoves
  <2> QED BY <2>1 DEF Contexts
<1> HIDE DEF sold
<1>3. Common(sold, N)
  BY <1>2 DEF Common
<1>4. /\ touched \in Contexts /\ touched.probe = c.probe /\ touched.markouts = c.markouts
      /\ touched.wire = c.wire /\ touched.fuel = c.fuel /\ touched.err = c.err
      /\ Common(touched, N) /\ ~Counted(touched, N)
  BY <1>2, <1>3, TouchDoes, TouchContext
<1> HIDE DEF touched
<1>5. /\ Active(touched) /\ Unlimited(touched) /\ ~touched.err /\ ReadZero(touched, N)
      /\ Record(touched, 1) = touched
  BY <1>4, RecordNothing, UnlimitedKept, UncountedZero DEF Active
<1>6. d = IF Active(e) THEN RequestRest(e) ELSE e
  BY <1>5 DEF FlattenFill, sold, touched
<1>7. Gone(touched, N)
  BY <1>4, <1>5, SpentKept
<1>8. e \in Contexts /\ Common(e, N) /\ Gone(e, N)
  <2>1. CASE e = touched
    BY <1>4, <1>7, <2>1
  <2>2. CASE e = FinishProbe(touched)
    <3> HIDE DEF e
    <3>1. /\ Apart(touched, e) /\ ~Active(e) /\ (e.cooling = TRUE) /\ e.wire = touched.wire
          /\ e.markouts = touched.markouts /\ e \in Contexts
      BY <1>4, <1>5, <2>2, FinishProbeDoes, FinishProbeContext
    <3>2. Common(e, N)
      BY <1>4, <3>1, CommonKept DEF Common
    <3>3. ~Counted(e, N)
      BY <1>4, <3>1, CountedAlike DEF Apart
    <3>4. ReadZero(e, N)
      BY <3>3, UncountedZero
    <3>5. \A r \in e.wire \ c.wire : r[1] # "place"
      BY <1>4, <3>1
    <3>6. e.cooling /\ e.cooling \in BOOLEAN
      BY <3>1
    <3>7. Gone(e, N)
      BY <3>1, <3>4, <3>5, <3>6, SpentEnds
    <3> QED BY <3>1, <3>2, <3>7
  <2> QED BY <2>1, <2>2 DEF MaybeFinishFlatten
<1> HIDE DEF e
<1>9. Good(e, N)
  BY <1>8, GoodStages
<1>10. CASE ~Active(e)
  BY <1>6, <1>8, <1>10
<1>11. CASE Active(e)
  <2>1. Alike(e, RequestRest(e))
    BY <1>8, RequestRestAlike
  <2>2. Good(RequestRest(e), N)
    BY <1>8, <1>9, <2>1, AlikeGood
  <2>3. Active(RequestRest(e))
    BY <1>11, <2>1 DEF Alike, Active
  <2>4. RequestRest(e).probe = e.probe /\ RequestRest(e).wire = e.wire
    BY <2>1 DEF Alike
  <2>5. ReadZero(e, N) => ReadZero(RequestRest(e), N)
    BY <2>1, CountedAlike DEF Alike, Apart, ReadZero
  <2>6. Spent(e, N)
    BY <1>8, <1>11 DEF Gone
  <2>7. Gone(RequestRest(e), N)
    BY <2>3, <2>4, <2>5, <2>6, SpentKept
  <2> QED BY <1>6, <1>11, <2>2, <2>7, GoodStages
<1> QED BY <1>10, <1>11

\* A fill of the order of an early probe: the cancel of the rest is on its way,
\* or all of the order has traded.
LEMMA FillEarly ==
  ASSUME NEW c \in Contexts, NEW b, NEW d, NEW N, NetTyped(N), NEW M, Delivered(N, M),
         IsFill(N.frames[1]), Early(c, N), c.probe.oid = Maker(c.probe.id),
         b.probe = c.probe, b.account = c.account, b.wire = c.wire,
         b.seen = c.seen \cup {<<N.frames[1].oid, N.frames[1].trade>>},
         Filled(b, d, N.frames[1].size), ~Counted(d, M)
  PROVE  Early(d, M) \/ Settling(d, M)
<1> DEFINE f == N.frames[1]
           m == Maker(c.probe.id)
           pos == N.position
           cum == c.probe.cum
           left == Larger(c.probe.rem - f.size, 0)
<1>1. f \in Frames /\ N.frames \in Seq(Frames) /\ 1 \in DOMAIN N.frames
      /\ M.frames = RemoveAt(N.frames, 1) /\ M.position = pos
  BY DeliveredFrames DEF Delivered
<1>2. Stream(m, cum, pos, N.frames) /\ cum \in Nat /\ pos \in Nat /\ pos <= Size
      /\ Size \in Nat /\ Size > 0 /\ c.account.inv \in Int
  BY ContextParts, SizeAssumption
     DEF Early, ProbeRecords, AccountRecords, NetTyped, Lots
<1>3. /\ f.trade \in Nat /\ f.size \in Nat /\ f.size > 0 /\ f.trade = cum + f.size
      /\ f.trade <= pos
      /\ Stream(m, f.trade, pos, M.frames)
  BY <1>1, <1>2, FillFields, StreamFill
<1>4. /\ \A i \in DOMAIN M.frames : IsFill(M.frames[i]) => f.trade <= Before(M.frames[i])
      /\ \A i \in DOMAIN M.frames : IsPosition(M.frames[i]) => f.trade <= M.frames[i].lots
  BY <1>1, <1>2, StreamFill
<1>5. ~IsOpen(f) /\ ~IsEnd(f) /\ ~IsPosition(f)
  BY <1>1, FrameKinds
<1>6. ~Announced(M.frames) /\ (Ended(M.frames) <=> Ended(N.frames)) /\ f.oid = m
  <2>1. OnlyOf(m, N.frames) /\ OpensFirst(cum, N.frames) /\ EndsLast(pos, N.frames)
    BY <1>2 DEF Stream, Traded
  <2>2. ~Announced(M.frames)
    BY <1>1, <2>1, HeadParts
  <2>3. Ended(M.frames) <=> Ended(N.frames)
    BY <1>1, <1>5, HeadKinds
  <2>4. f.oid = m
    BY <1>1, <1>5, <2>1 DEF OnlyOf
  <2> QED BY <2>2, <2>3, <2>4
<1>7. left = Size - f.trade /\ left >= 0
  BY <1>2, <1>3 DEF Early, Follow, Larger
<1>8. \A i \in DOMAIN M.frames : IsFill(M.frames[i]) =>
        /\ M.frames[i].trade <= pos /\ M.frames[i].size # Size /\ f.trade < pos
  <2> SUFFICES ASSUME NEW i \in DOMAIN M.frames, IsFill(M.frames[i])
               PROVE  M.frames[i].trade <= pos /\ M.frames[i].size # Size /\ f.trade < pos
    OBVIOUS
  <2>1. M.frames[i].trade <= pos /\ f.trade <= Before(M.frames[i])
    BY <1>3, <1>4 DEF Stream, Traded, FillsFollow
  <2>2. M.frames[i] \in Frames
    BY DeliveredFrames DEF NetTyped
  <2> QED BY <1>2, <1>3, <2>1, <2>2, FillFields
<1>9. /\ d.account.inv = c.account.inv + f.size
      /\ d.probe.id = c.probe.id /\ d.probe.flatOid = c.probe.flatOid /\ d.probe.oid = m
      /\ d.probe.cum = f.trade /\ d.probe.rem = left /\ d.markouts # {}
      /\ d.seen = c.seen \cup {<<m, f.trade>>}
  BY <1>3, <1>6 DEF Filled
<1>10. d.wire = c.wire \/ d.wire = c.wire \cup {<<"cancel", m, 0>>}
  BY DEF Filled
<1>11. /\ \A r \in d.wire \ c.wire : r[1] # "place" /\ (r[1] = "cancel" => r[2] = m)
       /\ \A r \in d.wire : r[1] # "flatten"
  BY <1>10 DEF Early, Follow
<1>12. Bound(d, M)
  BY <1>9, <1>11, DeliveredBound DEF Early
<1>13. cum <= c.account.inv /\ c.account.inv <= pos + cum
  BY DEF Early, Worth
<1>14. CASE left > 0
  <2>1. /\ d.probe.cancelReq
        /\ \/ d.probe.phase = "CancelPending" /\ ~d.probe.late
           \/ d.probe.phase = "Partial"
    BY <1>9, <1>14 DEF Filled
  <2>2. <<"cancel", m, 0>> \in d.wire \/ Ended(M.frames)
    BY <1>6, <1>10, <1>14 DEF Filled, Early, Follow
  <2>3. Follow(d.probe, d.wire, M.frames)
    BY <1>6, <1>7, <1>9, <1>11, <2>1, <2>2 DEF Follow, EarlyPhases
  <2>4. Worth(d, M)
    <3>1. d.probe.cum <= d.account.inv /\ d.account.inv <= M.position + d.probe.cum
      BY <1>1, <1>2, <1>3, <1>9, <1>13
    <3> QED BY <1>8, <3>1 DEF Worth
  <2>5. NoLive(M) <=> Ended(M.frames)
    BY <1>6 DEF Early, NoLive, Delivered
  <2>6. \A x \in d.seen : x[1] = m => x[2] <= f.trade
    <3>1. \A x \in c.seen : x[1] = m => x[2] <= cum /\ x[2] \in Nat
      BY ContextParts DEF Early
    <3>2. \A x \in c.seen : x[1] = m => x[2] <= f.trade
      BY <1>2, <1>3, <3>1
    <3> QED BY <1>3, <1>9, <3>2
  <2>7. Early(d, M)
    BY <1>1, <1>3, <1>9, <1>12, <2>3, <2>4, <2>5, <2>6 DEF Early
  <2> QED BY <2>7
<1>15. CASE left = 0
  <2>1. f.trade = Size /\ pos = Size
    BY <1>2, <1>3, <1>7, <1>15
  <2>2. d.probe.phase = "MarkoutPending" /\ ~d.probe.late /\ d.wire = c.wire
    BY <1>15 DEF Filled, Early, Follow, EarlyPhases
  <2>3. NoLive(M)
    <3>1. \A o \in DOMAIN N.book : N.book[o] \in Nat /\ ~(N.book[o] > 0)
      BY <1>2, <2>1 DEF NetTyped, Lots, Early, Bound
    <3> QED BY <3>1 DEF NoLive, Delivered
  <2>4. ~Filling(M.frames)
    BY <1>2, <1>8, <2>1 DEF Filling
  <2>5. Rest(m, pos, M.frames)
    BY <1>3, <1>4, <1>6, <2>1, <2>4 DEF Rest, Filling, Stream, Traded
  <2>6. pos <= d.account.inv
    BY <1>2, <1>3, <1>9, <1>13, <2>1
  <2>7. Settling(d, M)
    BY <1>1, <1>2, <1>9, <1>11, <1>12, <1>15, <2>1, <2>2, <2>3, <2>4, <2>5, <2>6
       DEF Settling, Filling
  <2> QED BY <2>7
<1> QED BY <1>2, <1>3, <1>7, <1>14, <1>15

\* The last fill of a settled order.
LEMMA FillSettling ==
  ASSUME NEW c \in Contexts, NEW b, NEW d, NEW N, NetTyped(N), NEW M, Delivered(N, M),
         IsFill(N.frames[1]), Settling(c, N), b.probe = c.probe, b.account = c.account,
         b.wire = c.wire, Filled(b, d, N.frames[1].size), ~Counted(d, M)
  PROVE  Settling(d, M)
<1> DEFINE f == N.frames[1]
           left == Larger(c.probe.rem - f.size, 0)
<1>1. f \in Frames /\ 1 \in DOMAIN N.frames
  BY DeliveredFrames DEF Delivered
<1>2. /\ f.size \in Nat /\ f.size > 0 /\ Before(f) + f.size = f.trade /\ Before(f) \in Int
      /\ c.probe.cum \in Nat /\ c.account.inv \in Int
  BY <1>1, FillFields, ContextParts DEF ProbeRecords, AccountRecords
<1>3. LastFill(c, N, f) /\ f.trade = Size
  BY <1>1 DEF Settling, Rest
<1>4. left = 0
  BY <1>2 DEF Settling, Larger
<1>5. /\ d.account.inv = c.account.inv + f.size
      /\ d.probe.id = c.probe.id /\ d.probe.flatOid = c.probe.flatOid
      /\ d.probe.oid = c.probe.oid /\ d.probe.cum = c.probe.cum + f.size /\ d.probe.rem = 0
      /\ d.probe.phase = "MarkoutPending" /\ d.wire = c.wire
      /\ (d.probe.late <=> c.probe.late /\ c.probe.phase = d.probe.phase)
  BY <1>4 DEF Filled
<1>6. N.position <= d.account.inv
  BY <1>2, <1>3, <1>5 DEF LastFill
<1> QED BY <1>2, <1>5, <1>6, DeliveredSettling DEF Settling

LEMMA FillGood ==
  ASSUME NEW c \in Contexts, Unlimited(c), ~c.err, NEW N, NetTyped(N), Good(c, N),
         NEW M, Delivered(N, M), IsFill(N.frames[1]), NEW send \in BOOLEAN, send
  PROVE  Good(UserFill(c, N.frames[1], send), M)
<1> DEFINE h == N.frames[1]
           f == FillOf(h)
           id == FillId(f)
           seenNow == c.seen \cup {id}
           b == [c EXCEPT !.seen = seenNow]
           d == UserFill(c, h, send)
<1>1. /\ h \in Frames /\ 1 \in DOMAIN N.frames /\ N.frames # <<>> /\ ~IsPosition(h) /\ ~IsOpen(h)
      /\ Common(c, N) /\ Common(c, M)
  BY DeliveredFrames, DeliveredCommon, FrameKinds DEF Good, Delivered
<1>2. /\ f \in Fills /\ f.oid = h.oid /\ f.size = h.size /\ id = <<h.oid, h.trade>>
      /\ h.oid # NoOid /\ h.oid \in Oids /\ h.size \in Nat /\ h.size > 0 /\ h.trade \in Nat
      /\ d = UserFill(c, f, send)
  BY <1>1, FillRead, FillFields DEF FillOf
<1> SUFFICES Good(d, M)
  OBVIOUS
<1>3. /\ b \in Contexts /\ b.seen = c.seen \cup {id} /\ b.probe = c.probe /\ b.account = c.account
      /\ b.markouts = c.markouts /\ b.cooling = c.cooling /\ b.wire = c.wire
      /\ b.issued = c.issued /\ b.writerUp = c.writerUp /\ b.fuel = c.fuel /\ b.err = c.err
      /\ b.rest = c.rest /\ b.shutdown = c.shutdown
  <2>1. seenNow \in SUBSET (Oids \X Nat)
    <3> HIDE DEF f
    <3> QED BY <1>2, ContextParts
  <2> HIDE DEF id, seenNow
  <2>2. b.seen = seenNow
    BY DEF Contexts
  <2> QED BY <2>1, <2>2 DEF Contexts, seenNow
<1>4. d = IF id \in c.seen THEN c
          ELSE IF Active(c) /\ c.probe.flatOid = f.oid THEN FlattenFill(b, f)
          ELSE IF Active(c) /\ c.probe.oid = f.oid THEN MakerFill(b, f, send)
          ELSE Record(b, 1)
  <2> HIDE DEF f
  <2> QED BY <1>2 DEF UserFill, b
<1> HIDE DEF b, f, id, d
<1>5. Unlimited(b) /\ ~b.err /\ Record(b, 1) = b /\ (Active(b) <=> Active(c))
  BY <1>3, RecordNothing, UnlimitedKept DEF Active
<1>6. Common(b, M)
  <2>1. h.oid[1] = "maker" => h.oid[2] <= c.issued.probes
    BY <1>1 DEF Common
  <2>2. \A x \in b.seen : x[1][1] = "maker" => x[1][2] <= b.issued.probes
    BY <1>1, <1>2, <1>3, <2>1 DEF Common
  <2> HIDE DEF h
  <2> QED BY <1>1, <1>3, <2>2 DEF Common
<1>7. /\ ReadZero(c, N) => ReadZero(c, M)
      /\ ReadZero(c, N) => ReadZero(b, M)
  BY <1>3 DEF ReadZero, Counted, Delivered
<1>8. CASE ~Active(c)
  <2>1. Idle(c, N)
    BY <1>8 DEF Good
  <2>2. Gone(c, M) /\ Gone(b, M)
    BY <1>3, <1>5, <1>7, <1>8, <2>1, DeliveredIdle DEF Gone
  <2>3. d = c \/ d = b
    BY <1>4, <1>5, <1>8
  <2> QED BY <1>1, <1>6, <2>2, <2>3, GoodStages
<1>9. CASE Active(c) /\ Spent(c, N)
  <2>1. c.probe.cum # 0 /\ c.probe.cum \in Nat
    BY <1>1, <1>9, ContextParts DEF Spent, Filling, ProbeRecords
  <2>2. Spent(c, M) /\ Spent(b, M)
    BY <1>3, <1>9, <2>1, DeliveredSpent
  <2>3. CASE d = c \/ d = b
    BY <1>1, <1>5, <1>6, <1>9, <2>2, <2>3, GoodStages DEF Gone
  <2>4. CASE d = FlattenFill(b, f)
    <3>1. Common(d, M) /\ Gone(d, M)
      BY <1>2, <1>3, <1>5, <1>6, <1>9, <2>2, <2>4, FlattenFillGone
    <3> QED BY <3>1, GoodStages
  <2>5. CASE Active(c) /\ c.probe.oid = f.oid /\ d = MakerFill(b, f, send)
    <3>1. Common(d, M) /\ Active(d) /\ Filled(b, d, f.size)
      BY <1>2, <1>3, <1>5, <1>6, <2>5, MakerFillDoes
    <3>2. d.probe.cum # 0 /\ \A r \in d.wire \ c.wire : r[1] # "place"
      <4> HIDE DEF h
      <4>1. d.probe.cum = c.probe.cum + h.size
        BY <1>2, <1>3, <3>1 DEF Filled
      <4>2. d.wire = c.wire \/ d.wire = c.wire \cup {<<"cancel", c.probe.oid, 0>>}
        BY <1>3, <3>1 DEF Filled
      <4>3. \A r \in d.wire \ c.wire : r[1] # "place"
        BY <4>2
      <4>4. h.size \in Nat /\ h.size > 0
        BY <1>2
      <4>5. d.probe.cum > 0
        <5> DEFINE x == c.probe.cum
                   y == h.size
        <5>1. x \in Nat /\ y \in Nat /\ y > 0 /\ d.probe.cum = x + y
          BY <2>1, <4>1, <4>4
        <5> HIDE DEF x, y
        <5> QED BY <5>1
      <4>6. d.probe.cum # 0
        BY <4>5
      <4> QED BY <4>3, <4>6
    <3>3. Spent(d, M)
      BY <1>9, <3>2, DeliveredSpent
    <3> QED BY <3>1, <3>3, GoodStages DEF Gone
  <2> QED BY <1>4, <1>5, <1>9, <2>3, <2>4, <2>5
<1>10. CASE Active(c) /\ Placed(c, N)
  BY <1>1, <1>10 DEF Placed
<1>11. ASSUME Active(c), id \notin c.seen, c.probe.flatOid = NoOid, c.probe.oid = h.oid
       PROVE  Common(d, M) /\ ~Counted(d, M) /\ Active(d) /\ Filled(b, d, h.size)
  <2>1. d = MakerFill(b, f, send)
    BY <1>2, <1>4, <1>11
  <2> QED BY <1>2, <1>3, <1>5, <1>6, <1>11, <2>1, MakerFillDoes
<1>12. CASE Active(c) /\ Early(c, N)
  <2>1. Stream(Maker(c.probe.id), c.probe.cum, N.position, N.frames)
        /\ c.probe.cum \in Nat /\ N.position \in Nat /\ N.frames \in Seq(Frames)
    BY <1>12, ContextParts, SizeAssumption DEF Early, ProbeRecords, NetTyped, Lots
  <2>2. h.oid = Maker(c.probe.id)
    BY <1>1, <2>1 DEF Stream, Traded, OnlyOf
  <2>3. ~Announced(N.frames)
    BY <1>1, <2>1 DEF Stream, Traded, OpensFirst, Announced
  <2>4. c.probe.oid = Maker(c.probe.id) /\ c.probe.flatOid = NoOid
    BY <1>12, <2>3 DEF Early, Follow, Bound
  <2>5. id \notin c.seen
    <3>1. h.trade = c.probe.cum + h.size
      BY <1>1, <2>1, StreamFill
    <3>2. \A x \in c.seen : x[1] = Maker(c.probe.id) => x[2] <= c.probe.cum
      BY <1>12 DEF Early
    <3> QED BY <1>2, <2>1, <2>2, <3>1, <3>2
  <2>6. Common(d, M) /\ ~Counted(d, M) /\ Active(d) /\ Filled(b, d, h.size)
    BY <1>11, <1>12, <2>2, <2>4, <2>5
  <2>7. b.seen = c.seen \cup {<<h.oid, h.trade>>}
    BY <1>2, <1>3
  <2>8. Early(d, M) \/ Settling(d, M)
    BY <1>3, <1>12, <2>4, <2>6, <2>7, FillEarly
  <2> QED BY <2>6, <2>8, GoodStages
<1>13. CASE Active(c) /\ Settling(c, N)
  <2>1. h.oid = Maker(c.probe.id) /\ LastFill(c, N, h) /\ h.trade = Size
    BY <1>1, <1>13 DEF Settling, Rest, OnlyOf
  <2>2. id \notin c.seen /\ c.probe.oid = h.oid /\ c.probe.flatOid = NoOid
    BY <1>2, <1>13, <2>1 DEF LastFill, Settling, Bound
  <2>3. Common(d, M) /\ ~Counted(d, M) /\ Active(d) /\ Filled(b, d, h.size)
    BY <1>11, <1>13, <2>2
  <2>4. Settling(d, M)
    BY <1>3, <1>13, <2>3, FillSettling
  <2> QED BY <2>3, <2>4, GoodStages
<1> QED BY <1>8, <1>9, <1>10, <1>12, <1>13 DEF Good

-----------------------------------------------------------------------------
(* The exchange *)

Put(fn, x, value) == [y \in DOMAIN fn \cup {x} |-> IF y = x THEN value ELSE fn[y]]

\* Only the place of a probe that waits for its order is unanswered.
LEMMA PlaceWaits ==
  ASSUME NEW c, NEW N, Good(c, N), NEW r \in c.wire \ DOMAIN N.answers, r[1] = "place"
  PROVE  Active(c) /\ Placed(c, N) /\ r = <<"place", Maker(c.probe.id), Size>>
<1>1. ~NoPlace(c, N)
  BY DEF NoPlace
<1>2. Active(c) /\ Placed(c, N)
  BY <1>1 DEF Good, Idle, Spent, Early, Settling, Over, Bound
<1> QED BY <1>2 DEF Placed

LEMMA OpenFrame ==
  ASSUME NEW k \in Nat
  PROVE  LET u == Update(Maker(k), "open", Size) IN
         /\ u \in Frames /\ IsOpen(u) /\ ~IsFill(u) /\ ~IsEnd(u) /\ ~IsPosition(u)
         /\ u.filled = 0 /\ u.oid = Maker(k)
<1> DEFINE u == Update(Maker(k), "open", Size)
<1>1. u = [kind |-> "update", oid |-> Maker(k), status |-> "open", filled |-> 0, left |-> Size]
  BY SizeAssumption DEF Update
<1>2. Maker(k) \in Names /\ 0 \in Lots /\ Size \in Lots
  BY OidValues, SizeAssumption DEF Names, Lots
<1> HIDE DEF u
<1>3. u \in Frames /\ IsOpen(u) /\ u.filled = 0 /\ u.oid = Maker(k)
  BY <1>1, <1>2, SizeAssumption DEF Frames, UpdateFrames, IsOpen
<1> QED BY <1>3, FrameKinds DEF u

\* The order rests, and the update says so.
LEMMA AcceptGood ==
  ASSUME NEW c \in Contexts, NEW N, NetTyped(N), Good(c, N),
         NEW r \in c.wire \ DOMAIN N.answers, r[1] = "place",
         NEW M, M.book = Put(N.book, r[2], r[3]), M.answers = Put(N.answers, r, "resting"),
         M.frames = Append(N.frames, Update(r[2], "open", r[3])),
         M.position = N.position, M.snap = N.snap
  PROVE  NetTyped(M) /\ Good(c, M)
<1> DEFINE m == Maker(c.probe.id)
           u == Update(m, "open", Size)
<1>1. /\ Active(c) /\ Placed(c, N) /\ r = <<"place", m, Size>> /\ r[2] = m /\ r[3] = Size
      /\ Common(c, N)
  BY PlaceWaits DEF Good
<1>2. c.probe.id \in Nat /\ c.probe \in GoodProbes /\ m \in Oids /\ m # NoOid
  BY ContextParts, OidValues DEF ProbeRecords
<1>3. /\ u \in Frames /\ IsOpen(u) /\ ~IsFill(u) /\ ~IsEnd(u) /\ ~IsPosition(u)
      /\ u.filled = 0 /\ u.oid = m
  BY <1>2, OpenFrame
<1> HIDE DEF m, u
<1>4. /\ DOMAIN M.book = DOMAIN N.book \cup {m} /\ M.book[m] = Size
      /\ \A o \in DOMAIN N.book : o # m => M.book[o] = N.book[o]
  <2>1. M.book = Put(N.book, m, Size)
    BY <1>1
  <2> QED BY <2>1 DEF Put
<1>5. /\ DOMAIN M.answers = {r} /\ M.answers[r] = "resting"
  <2>1. DOMAIN N.answers = {}
    BY <1>1 DEF Placed
  <2>2. DOMAIN M.answers = DOMAIN N.answers \cup {r} /\ M.answers[r] = "resting"
    BY DEF Put
  <2> QED BY <2>1, <2>2
<1>6. M.frames \in Seq(Frames) /\ DOMAIN M.frames = {1} /\ M.frames[1] = u
  <2>1. N.frames = <<>>
    BY <1>1 DEF Placed
  <2>2. M.frames = Append(N.frames, u)
    BY <1>1 DEF u
  <2>3. N.frames \in Seq(Frames) /\ u \in Frames /\ Len(N.frames) = 0
    BY <1>3, <2>1 DEF NetTyped
  <2> DEFINE fr == N.frames
  <2> HIDE DEF fr
  <2>4. /\ Append(fr, u) \in Seq(Frames) /\ DOMAIN Append(fr, u) = 1 .. 0 + 1
        /\ Append(fr, u)[0 + 1] = u
    BY <2>3, Appended DEF fr
  <2>5. Append(fr, u) \in Seq(Frames) /\ DOMAIN Append(fr, u) = {1} /\ Append(fr, u)[1] = u
    BY <2>4
  <2> QED BY <2>2, <2>5 DEF fr
<1>7. NetTyped(M)
  <2>1. \A o \in DOMAIN M.book : o \in Oids /\ M.book[o] \in Lots
    BY <1>2, <1>4, SizeAssumption DEF NetTyped, Lots
  <2> QED BY <1>5, <1>6, <2>1 DEF NetTyped
<1>8. Common(c, M)
  BY <1>1, <1>3, <1>5, <1>6 DEF Common
<1>9. Stream(m, 0, 0, M.frames)
  BY <1>3, <1>6 DEF Stream, Traded, OnlyOf, OpensFirst, FillsFollow, PositionsFit, EndsLast
<1>10. Announced(M.frames) /\ ~Ended(M.frames)
  BY <1>3, <1>6 DEF Announced, Ended
<1>11. Bound(c, M)
  <2>1. NoPlace(c, M) /\ \A x \in c.wire : x[1] \in {"place", "cancel"} => x[2] = m
    BY <1>1, <1>5 DEF Placed, NoPlace, m
  <2>2. \A o \in DOMAIN M.book : M.book[o] > 0 => o = m /\ M.position = Size - M.book[o]
    BY <1>1, <1>4, SizeAssumption DEF Placed, NoLive
  <2> QED BY <1>1, <1>5, <2>1, <2>2 DEF Bound, Placed, m
<1>12. Follow(c.probe, c.wire, M.frames)
  <2>1. ~c.probe.cancelReq /\ c.probe.rem = Size
    BY <1>1, <1>2 DEF Placed, GoodProbes, MatchesProgress
  <2> QED BY <1>1, <1>10, <2>1, SizeAssumption DEF Follow, EarlyPhases, Placed
<1>13. Worth(c, M)
  <2>1. Counted(c, M) => M.snap.inv = 0
    BY <1>1 DEF Placed, ReadZero, Counted
  <2> QED BY <1>1, <1>3, <1>6, <2>1 DEF Worth, Placed
<1>14. ~NoLive(M)
  BY <1>4, SizeAssumption DEF NoLive
<1>15. Early(c, M)
  BY <1>1, <1>9, <1>10, <1>11, <1>12, <1>13, <1>14 DEF Early, Placed, m
<1> QED BY <1>1, <1>7, <1>8, <1>15, GoodStages

\* A refused order leaves nothing.
LEMMA RejectGood ==
  ASSUME NEW c \in Contexts, NEW N, NetTyped(N), Good(c, N),
         NEW r \in c.wire \ DOMAIN N.answers, r[1] = "place",
         NEW M, M.book = Put(N.book, r[2], 0), M.answers = Put(N.answers, r, "rejected"),
         M.frames = N.frames, M.position = N.position, M.snap = N.snap
  PROVE  NetTyped(M) /\ Good(c, M)
<1> DEFINE m == Maker(c.probe.id)
<1>1. /\ Active(c) /\ Placed(c, N) /\ r = <<"place", m, Size>> /\ r[2] = m
      /\ Common(c, N)
  BY PlaceWaits DEF Good
<1>2. m \in Oids /\ 0 \in Lots
  BY ContextParts, OidValues, SizeAssumption DEF ProbeRecords, Lots
<1> HIDE DEF m
<1>3. /\ DOMAIN M.book = DOMAIN N.book \cup {m} /\ M.book[m] = 0
      /\ \A o \in DOMAIN N.book : o # m => M.book[o] = N.book[o]
  <2>1. M.book = Put(N.book, m, 0)
    BY <1>1
  <2> QED BY <2>1 DEF Put
<1>4. /\ DOMAIN M.answers = {r} /\ M.answers[r] = "rejected" /\ M.frames = <<>>
  <2>1. DOMAIN N.answers = {} /\ N.frames = <<>>
    BY <1>1 DEF Placed
  <2>2. DOMAIN M.answers = DOMAIN N.answers \cup {r} /\ M.answers[r] = "rejected"
    BY DEF Put
  <2> QED BY <2>1, <2>2
<1>5. NetTyped(M)
  BY <1>2, <1>3, <1>4 DEF NetTyped
<1>6. Common(c, M)
  BY <1>1, <1>4 DEF Common
<1>7. Over(c, M)
  BY <1>1, <1>3, <1>4 DEF Over, NoLive, NoPlace, Placed
<1>8. Spent(c, M)
  BY <1>1, <1>4, <1>7 DEF Spent, Placed, OpensFirst, Filling, ReadZero, Counted
<1> QED BY <1>1, <1>5, <1>6, <1>8, GoodStages DEF Gone

\* Only the maker order of an early probe is live.
LEMMA LiveEarly ==
  ASSUME NEW c, NEW N, Good(c, N), NEW o \in DOMAIN N.book, N.book[o] > 0, N.book[o] # 0
  PROVE  /\ Active(c) /\ Early(c, N) /\ o = Maker(c.probe.id) /\ ~Ended(N.frames)
         /\ N.position = Size - N.book[o]
<1>1. ~NoLive(N)
  BY DEF NoLive
<1>2. Active(c) /\ Early(c, N)
  BY <1>1 DEF Good, Idle, Spent, Placed, Settling, Over
<1> QED BY <1>1, <1>2 DEF Early, Bound

\* A cancel that comes too late changes nothing but the requests on their way.
LEMMA LateCancelGood ==
  ASSUME NEW c, NEW N, Good(c, N), NEW r \in c.wire \ DOMAIN N.answers, r[1] = "cancel",
         ~(r[2] \in DOMAIN N.book /\ N.book[r[2]] > 0),
         \A o \in DOMAIN N.book : N.book[o] # 0 => N.book[o] > 0,
         NEW d, Apart(c, d), d.probe = c.probe, d.markouts = c.markouts, d.cooling = c.cooling,
         d.wire = c.wire \ {r}
  PROVE  Good(d, N)
<1>1. Common(c, N) /\ Common(d, N)
  BY DEF Good, Common, Apart
<1>2. ReadZero(c, N) => ReadZero(d, N)
  BY CountedAlike DEF Apart, ReadZero
<1>3. (Active(c) <=> Active(d)) /\ (Flattening(c) <=> Flattening(d))
  BY DEF Active, Flattening
<1>4. Bound(c, N) => Bound(d, N)
  BY DEF Bound, NoPlace
<1>5. CASE ~Active(c)
  <2>1. Idle(c, N)
    BY <1>5 DEF Good
  <2>2. Over(d, N)
    BY <2>1, OverAlike DEF Idle
  <2>3. Idle(d, N)
    BY <1>2, <2>1, <2>2 DEF Idle
  <2> QED BY <1>1, <1>3, <1>5, <2>3 DEF Good
<1>6. CASE Active(c) /\ Spent(c, N)
  BY <1>1, <1>2, <1>3, <1>6, SpentKept, GoodStages
<1>7. CASE Active(c) /\ Placed(c, N)
  BY <1>7 DEF Placed
<1>8. CASE Active(c) /\ Early(c, N)
  <2>1. NoLive(N)
    BY <1>8 DEF Early, Bound, NoLive
  <2>2. Ended(N.frames)
    BY <1>8, <2>1 DEF Early
  <2>3. Follow(d.probe, d.wire, N.frames)
    BY <1>8, <2>2 DEF Early, Follow
  <2>4. Worth(d, N)
    BY <1>8, WorthAlike DEF Early
  <2>5. Early(d, N)
    BY <1>4, <1>8, <2>3, <2>4 DEF Early, Apart
  <2> QED BY <1>1, <1>3, <1>8, <2>5, GoodStages
<1>9. CASE Active(c) /\ Settling(c, N)
  <2>1. (Counted(c, N) <=> Counted(d, N)) /\ d.account = c.account /\ d.seen = c.seen
    BY CountedAlike DEF Apart
  <2>2. (Asked(c) <=> Asked(d)) /\ (Whole(c, N) <=> Whole(d, N))
    BY <1>3, <2>1 DEF Asked, Whole
  <2>3. \A i \in DOMAIN N.frames : IsFill(N.frames[i]) => LastFill(d, N, N.frames[i])
    BY <1>9, <2>1, <2>2 DEF Settling, LastFill
  <2>4. Settling(d, N)
    BY <1>3, <1>4, <1>9, <2>1, <2>3 DEF Settling
  <2> QED BY <1>1, <1>3, <1>9, <2>4, GoodStages
<1> QED BY <1>5, <1>6, <1>7, <1>8, <1>9 DEF Good

\* A cancelled order is over, and its end is announced with what has traded.
LEMMA CancelGood ==
  ASSUME NEW c \in Contexts, NEW N, NetTyped(N), Good(c, N),
         NEW o \in DOMAIN N.book, N.book[o] > 0,
         NEW r \in c.wire \ DOMAIN N.answers, r[1] = "cancel",
         NEW M, M.book = Put(N.book, o, 0),
         M.frames = Append(N.frames, Update(o, "canceled", N.book[o])),
         M.answers = N.answers, M.position = N.position, M.snap = N.snap,
         NEW d, Apart(c, d), d.probe = c.probe, d.markouts = c.markouts, d.cooling = c.cooling,
         d.wire = c.wire \ {r}
  PROVE  NetTyped(M) /\ Good(d, M)
<1> DEFINE m == Maker(c.probe.id)
           left == N.book[o]
           u == Update(o, "canceled", left)
           pos == N.position
           cum == c.probe.cum
<1>1. /\ Active(c) /\ Early(c, N) /\ o = m /\ ~Ended(N.frames) /\ pos = Size - left
      /\ Common(c, N)
  <2>1. left # 0
    BY DEF NetTyped, Lots
  <2> QED BY <2>1, LiveEarly DEF Good
<1>2. /\ N.frames \in Seq(Frames) /\ left \in Lots /\ left \in Nat /\ pos \in Nat /\ pos <= Size
      /\ pos \in Lots /\ cum \in Nat /\ m \in Names /\ m \in Oids /\ 0 \in Lots
  BY ContextParts, OidValues, SizeAssumption DEF NetTyped, Lots, ProbeRecords, Names
<1>3. /\ u \in Frames /\ IsEnd(u) /\ ~IsFill(u) /\ ~IsOpen(u) /\ ~IsPosition(u)
      /\ u.filled = pos /\ u.oid = m
  <2>1. u = [kind |-> "update", oid |-> m, status |-> "canceled", filled |-> pos, left |-> left]
    BY <1>1 DEF Update
  <2> HIDE DEF u, m, pos, left
  <2>2. pos + left = Size
    BY <1>1, <1>2, SizeAssumption
  <2>3. u \in Frames /\ IsEnd(u) /\ u.filled = pos /\ u.oid = m
    BY <1>2, <2>1, <2>2 DEF Frames, UpdateFrames, IsEnd
  <2> QED BY <2>3, FrameKinds
<1> HIDE DEF u
<1>4. M.frames = Append(N.frames, u)
  BY DEF u
<1>5. /\ DOMAIN M.book = DOMAIN N.book /\ M.book[m] = 0
      /\ \A x \in DOMAIN N.book : x # m => M.book[x] = N.book[x]
  <2>1. M.book = Put(N.book, m, 0) /\ m \in DOMAIN N.book
    BY <1>1
  <2> HIDE DEF m
  <2>2. DOMAIN M.book = DOMAIN N.book \cup {m}
    BY <2>1 DEF Put
  <2> QED BY <2>1, <2>2 DEF Put
<1>6. /\ M.frames \in Seq(Frames) /\ DOMAIN M.frames = DOMAIN N.frames \cup {Len(N.frames) + 1}
      /\ M.frames[Len(N.frames) + 1] = u
      /\ \A i \in DOMAIN N.frames : M.frames[i] = N.frames[i]
  BY <1>2, <1>3, <1>4, Appended
<1>7. \A i \in DOMAIN M.frames : IsFill(M.frames[i]) => i \in DOMAIN N.frames /\ M.frames[i] = N.frames[i]
  BY <1>3, <1>6
<1>8. NetTyped(M)
  <2>1. \A x \in DOMAIN M.book : x \in Oids /\ M.book[x] \in Lots
    BY <1>2, <1>5 DEF NetTyped
  <2> QED BY <1>2, <1>6, <2>1 DEF NetTyped
<1>9. Common(d, M)
  <2>1. \A i \in DOMAIN M.frames : IsFill(M.frames[i]) /\ M.frames[i].oid[1] = "maker" =>
          M.frames[i].oid[2] <= c.issued.probes
    BY <1>1, <1>7 DEF Common
  <2> QED BY <1>1, <2>1 DEF Common, Apart
<1>10. Stream(m, cum, pos, M.frames)
  <2>1. Traded(m, cum, pos, M.frames)
    <3>1. Traded(m, cum, pos, N.frames)
      BY <1>1 DEF Early, Stream
    <3>2. N.frames \in Seq(Frames) /\ u \in Frames /\ IsEnd(u) /\ u.oid = m
      BY <1>2, <1>3
    <3> HIDE DEF m, cum, pos
    <3>3. Traded(m, cum, pos, Append(N.frames, u))
      BY <3>1, <3>2, TradedEnds
    <3> QED BY <1>4, <3>3
  <2>2. EndsLast(pos, M.frames)
    BY <1>1, <1>2, <1>3, <1>4, EndAppended
  <2> QED BY <2>1, <2>2 DEF Stream
<1>11. (Announced(M.frames) <=> Announced(N.frames)) /\ Ended(M.frames)
  BY <1>2, <1>3, <1>4, TailKinds
<1>12. NoLive(M)
  <2>1. \A x \in DOMAIN N.book : x # m => ~(N.book[x] > 0) /\ N.book[x] \in Nat
    BY <1>1, SizeAssumption DEF Early, Bound, NetTyped, Lots
  <2> QED BY <1>5, <2>1 DEF NoLive
<1>13. Bound(d, M)
  BY <1>1, <1>12 DEF Early, Bound, NoPlace, NoLive
<1>14. Follow(d.probe, d.wire, M.frames)
  BY <1>1, <1>11 DEF Early, Follow
<1>15. Worth(d, M)
  <2>1. (Counted(d, M) <=> Counted(c, N)) /\ d.account = c.account
    BY DEF Counted, Apart
  <2>2. Whole(c, N) => Whole(d, M)
    BY <2>1 DEF Whole
  <2> QED BY <1>1, <1>7, <2>1, <2>2 DEF Early, Worth
<1>16. Early(d, M)
  BY <1>1, <1>10, <1>11, <1>12, <1>13, <1>14, <1>15 DEF Early, Apart
<1>17. Active(d)
  BY <1>1 DEF Active
<1> QED BY <1>8, <1>9, <1>16, <1>17, GoodStages

\* The frames gr follow those of fr with the fill f, and perhaps the order's end.
Longer(fr, f, gr) ==
  /\ gr \in Seq(Frames) /\ (Announced(gr) <=> Announced(fr))
  /\ \A i \in DOMAIN gr : IsFill(gr[i]) => gr[i] = f \/ \E j \in DOMAIN fr : gr[i] = fr[j]

\* A trade of the live order, however its frames are sent: they continue those
\* before them, and announce the end of an order of which nothing is left.
LEMMA TradedGood ==
  ASSUME NEW c \in Contexts, Own(c), NEW N, NetTyped(N), Good(c, N),
         NEW o \in DOMAIN N.book, NEW size \in 1 .. N.book[o],
         NEW f \in Frames, IsFill(f), f.size = size, f.oid = o,
         NEW M, M.book = Put(N.book, o, N.book[o] - size), M.position = N.position + size,
         M.answers = N.answers, M.snap = N.snap, Longer(N.frames, f, M.frames),
         Stream(o, c.probe.cum, M.position, M.frames), Ended(M.frames) <=> N.book[o] = size
  PROVE  NetTyped(M) /\ Good(c, M)
<1>0. /\ M.frames \in Seq(Frames)
      /\ Announced(M.frames) <=> Announced(N.frames)
      /\ \A i \in DOMAIN M.frames : IsFill(M.frames[i]) =>
           M.frames[i] = f \/ \E j \in DOMAIN N.frames : M.frames[i] = N.frames[j]
  BY DEF Longer
<1> DEFINE m == Maker(c.probe.id)
           left == N.book[o]
           pos == N.position
           cum == c.probe.cum
<1>1. /\ left \in Nat /\ left <= Size /\ size \in Int /\ size >= 1 /\ size <= left
      /\ pos \in Nat /\ pos <= Size /\ Size \in Nat /\ cum \in Nat /\ o \in Oids
      /\ c.account.inv \in Int /\ N.snap.inv \in Nat
  <2>1. left \in Lots /\ o \in Oids /\ pos \in Lots /\ N.snap.inv \in Lots
    BY DEF NetTyped
  <2>2. c.probe \in ProbeRecords /\ c.account \in AccountRecords
    BY ContextParts
  <2>3. cum \in Nat /\ c.account.inv \in Int
    BY <2>2 DEF ProbeRecords, AccountRecords
  <2>4. size \in 1 .. left
    OBVIOUS
  <2> HIDE DEF left, pos, cum
  <2> QED BY <2>1, <2>3, <2>4, SizeAssumption DEF Lots
<1>2. /\ Active(c) /\ Early(c, N) /\ o = m /\ ~Ended(N.frames) /\ pos = Size - left
      /\ Common(c, N)
  BY <1>1, LiveEarly DEF Good
<1>3. /\ DOMAIN M.book = DOMAIN N.book /\ M.book[m] = left - size
      /\ \A x \in DOMAIN N.book : x # m => M.book[x] = N.book[x]
  <2>1. M.book = Put(N.book, m, left - size) /\ m \in DOMAIN N.book
    BY <1>2
  <2> HIDE DEF m, left
  <2>2. DOMAIN M.book = DOMAIN N.book \cup {m}
    BY <2>1 DEF Put
  <2> QED BY <2>1, <2>2 DEF Put
<1>4. NetTyped(M)
  <2>1. ASSUME NEW x \in DOMAIN M.book PROVE x \in Oids /\ M.book[x] \in Lots
    <3>1. x \in DOMAIN N.book
      BY <1>3
    <3>2. x \in Oids /\ N.book[x] \in Lots
      BY <3>1 DEF NetTyped
    <3>3. CASE x = m
      <4>1. left - size \in Lots
        BY <1>1 DEF Lots
      <4> QED BY <1>3, <3>2, <3>3, <4>1
    <3>4. CASE x # m
      BY <1>3, <3>1, <3>2, <3>4
    <3> QED BY <3>3, <3>4
  <2>2. M.position \in Lots
    BY <1>1, <1>2 DEF Lots
  <2> QED BY <1>0, <2>1, <2>2 DEF NetTyped
<1>5. Common(c, M)
  <2>1. f.oid[1] = "maker" => f.oid[2] <= c.issued.probes
    <3>1. c.probe.id = c.issued.probes /\ c.issued.probes \in Nat
      BY <1>2, ContextParts DEF Own, OwnProbe, Active, Counters
    <3> QED BY <1>2, <3>1 DEF Maker
  <2>2. \A i \in DOMAIN M.frames : IsFill(M.frames[i]) /\ M.frames[i].oid[1] = "maker" =>
          M.frames[i].oid[2] <= c.issued.probes
    BY <1>0, <1>2, <2>1 DEF Common
  <2> QED BY <1>2, <2>2 DEF Common
<1>6. \A x \in DOMAIN N.book : x # m => N.book[x] = 0
  BY <1>2, SizeAssumption DEF Early, Bound, NetTyped, Lots
<1>7. NoLive(M) <=> Ended(M.frames)
  <2>1. NoLive(M) <=> left - size = 0
    BY <1>2, <1>3, <1>6 DEF NoLive
  <2>2. left - size = 0 <=> left = size
    BY <1>1
  <2> QED BY <2>1, <2>2
<1>8. Bound(c, M)
  <2>1. \A x \in DOMAIN M.book : M.book[x] > 0 => x = m /\ M.position = Size - M.book[x]
    BY <1>1, <1>2, <1>3, <1>6
  <2> QED BY <1>2, <2>1 DEF Early, Bound, NoPlace
<1>9. Follow(c.probe, c.wire, M.frames)
  BY <1>0, <1>2 DEF Early, Follow
<1>10. Worth(c, M)
  <2>1. (Counted(c, M) <=> Counted(c, N)) /\ (Whole(c, M) <=> Whole(c, N))
    BY DEF Counted, Whole
  <2>2. /\ cum <= c.account.inv /\ c.account.inv <= pos + cum
        /\ Counted(c, N) => cum <= N.snap.inv /\ N.snap.inv <= pos
        /\ \A i \in DOMAIN N.frames : IsFill(N.frames[i]) /\ N.frames[i].size = Size => Whole(c, N)
    BY <1>2 DEF Early, Worth
  <2>3. cum <= c.account.inv /\ c.account.inv <= M.position + cum
        /\ (Counted(c, N) => cum <= M.snap.inv /\ M.snap.inv <= M.position)
    BY <1>1, <2>2
  <2>4. f.size = Size => Whole(c, N)
    <3> SUFFICES ASSUME f.size = Size PROVE Whole(c, N)
      OBVIOUS
    <3>1. pos = 0
      BY <1>1, <1>2
    <3>2. cum <= pos
      BY <1>2 DEF Early, Stream, Traded, FillsFollow
    <3>3. c.account.inv = 0 /\ (Counted(c, N) => N.snap.inv = 0)
      BY <1>1, <2>2, <3>1, <3>2
    <3> QED BY <3>3 DEF Whole
  <2>5. \A i \in DOMAIN M.frames : IsFill(M.frames[i]) /\ M.frames[i].size = Size => Whole(c, M)
    BY <1>0, <2>1, <2>2, <2>4
  <2> QED BY <2>1, <2>3, <2>5 DEF Worth
<1>11. Early(c, M)
  BY <1>2, <1>7, <1>8, <1>9, <1>10 DEF Early
<1> QED BY <1>2, <1>4, <1>5, <1>11, GoodStages

\* The frames of a trade that leaves something of the order, and of its last.
LEMMA TradeFrames ==
  ASSUME NEW fr \in Seq(Frames), NEW m, NEW cum \in Nat, NEW pos \in Nat, Traded(m, cum, pos, fr),
         ~Ended(fr), NEW f \in Frames, IsFill(f), f.oid = m, Before(f) = pos
  PROVE  LET gr == Append(fr, f) IN
         Longer(fr, f, gr) /\ Stream(m, cum, f.trade, gr) /\ ~Ended(gr)
<1> DEFINE gr == Append(fr, f)
<1>1. ~IsOpen(f) /\ ~IsEnd(f)
  BY FrameKinds
<1>2. (Announced(gr) <=> Announced(fr)) /\ ~Ended(gr)
  BY <1>1, TailKinds
<1>3. Traded(m, cum, f.trade, gr)
  BY TradedGrows
<1>4. EndsLast(f.trade, gr)
  BY <1>1, EndAppended
<1>5. /\ gr \in Seq(Frames) /\ DOMAIN fr = 1 .. Len(fr) /\ DOMAIN gr = 1 .. Len(fr) + 1
      /\ Len(fr) \in Nat /\ \A i \in 1 .. Len(fr) : gr[i] = fr[i]
      /\ gr[Len(fr) + 1] = f
  BY Appended
<1> HIDE DEF gr
<1>6. \A i \in DOMAIN gr : gr[i] = f \/ \E j \in DOMAIN fr : gr[i] = fr[j]
  BY <1>5
<1> QED BY <1>2, <1>3, <1>4, <1>5, <1>6 DEF Longer, Stream, gr

\* A fill and an update at the end of fr, in either order.
Both(fr, f, u, gr) == gr = fr \o <<f, u>> \/ gr = fr \o <<u, f>>

LEMMA LastTradeFrames ==
  ASSUME NEW fr \in Seq(Frames), NEW m, NEW cum \in Nat, NEW pos \in Nat, Traded(m, cum, pos, fr),
         ~Ended(fr), NEW f \in Frames, IsFill(f), f.oid = m, Before(f) = pos, f.trade = Size,
         NEW u \in Frames, IsEnd(u), u.oid = m, u.status = "filled", u.filled = Size,
         NEW gr, Both(fr, f, u, gr)
  PROVE  Longer(fr, f, gr) /\ Stream(m, cum, Size, gr) /\ Ended(gr)
<1>1. ~IsOpen(f) /\ ~IsEnd(f) /\ ~IsOpen(u) /\ ~IsFill(u)
  BY FrameKinds
<1> DEFINE a == Append(fr, f)
           b == Append(fr, u)
<1>2. a \in Seq(Frames) /\ b \in Seq(Frames)
  BY Appended
<1>3. (Announced(a) <=> Announced(fr)) /\ ~Ended(a) /\ Traded(m, cum, Size, a)
  <2>1. Traded(m, cum, f.trade, a)
    BY TradedGrows
  <2>2. (Announced(a) <=> Announced(fr)) /\ ~Ended(a)
    BY <1>1, TailKinds
  <2> QED BY <2>1, <2>2
<1>4. (Announced(b) <=> Announced(fr)) /\ Ended(b) /\ Traded(m, cum, pos, b)
  <2>1. Traded(m, cum, pos, b)
    BY TradedEnds
  <2>2. (Announced(b) <=> Announced(fr)) /\ Ended(b)
    BY <1>1, TailKinds
  <2> QED BY <2>1, <2>2
<1>5. fr \o <<f, u>> = Append(a, u) /\ fr \o <<u, f>> = Append(b, f)
  BY BothInTurn
<1> HIDE DEF a, b
<1>6. /\ gr \in Seq(Frames)
      /\ \A i \in DOMAIN gr : gr[i] \in {f, u} \/ \E j \in DOMAIN fr : gr[i] = fr[j]
  <2>1. ASSUME NEW x \in Frames, NEW y \in Frames, gr = fr \o <<x, y>>, {x, y} = {f, u}
        PROVE  /\ gr \in Seq(Frames)
               /\ \A i \in DOMAIN gr : gr[i] \in {f, u} \/ \E j \in DOMAIN fr : gr[i] = fr[j]
    <3> DEFINE n == Len(fr)
    <3>1. /\ gr \in Seq(Frames) /\ n \in Nat /\ DOMAIN fr = 1 .. n /\ DOMAIN gr = 1 .. n + 2
          /\ \A i \in 1 .. n : gr[i] = fr[i]
          /\ gr[n + 1] = x /\ gr[n + 2] = y
      BY <2>1, BothAppended
    <3> HIDE DEF n
    <3>2. ASSUME NEW i \in DOMAIN gr PROVE gr[i] \in {f, u} \/ \E j \in DOMAIN fr : gr[i] = fr[j]
      <4>1. i \in 1 .. n \/ i = n + 1 \/ i = n + 2
        BY <3>1
      <4>2. (gr[i] = fr[i] /\ i \in DOMAIN fr) \/ gr[i] = x \/ gr[i] = y
        BY <3>1, <4>1
      <4> QED BY <2>1, <4>2
    <3> QED BY <3>1, <3>2
  <2> QED BY <2>1 DEF Both
<1>7. \A i \in DOMAIN gr : IsFill(gr[i]) => gr[i] = f \/ \E j \in DOMAIN fr : gr[i] = fr[j]
  BY <1>1, <1>6
<1>8. CASE gr = fr \o <<f, u>>
  <2>1. gr = Append(a, u)
    BY <1>5, <1>8
  <2>2. Traded(m, cum, Size, Append(a, u))
    BY <1>2, <1>3, TradedEnds
  <2>3. EndsLast(Size, Append(a, u))
    BY <1>2, <1>3, EndAppended
  <2>4. (Announced(Append(a, u)) <=> Announced(a)) /\ Ended(Append(a, u))
    BY <1>1, <1>2, TailKinds
  <2> QED BY <1>3, <1>6, <1>7, <2>1, <2>2, <2>3, <2>4 DEF Longer, Stream
<1>9. CASE gr = fr \o <<u, f>>
  <2>1. gr = Append(b, f)
    BY <1>5, <1>9
  <2>2. Traded(m, cum, f.trade, Append(b, f))
    BY <1>2, <1>4, TradedGrows
  <2>3. EndsLast(Size, gr)
    BY <1>9, EndOvertakes
  <2>4. (Announced(Append(b, f)) <=> Announced(b)) /\ Ended(Append(b, f))
    BY <1>1, <1>2, <1>4, TailKinds
  <2> QED BY <1>4, <1>6, <1>7, <2>1, <2>2, <2>3, <2>4 DEF Longer, Stream
<1> QED BY <1>8, <1>9 DEF Both

LEMMA TradeGood ==
  ASSUME NEW c \in Contexts, Own(c), NEW N, NetTyped(N), Good(c, N),
         NEW o \in DOMAIN N.book, N.book[o] > 0, NEW size \in 1 .. N.book[o],
         NEW left, left = N.book[o] - size,
         NEW f, f = Fill(o, Size - left, size, 1),
         NEW u, u = Update(o, IF left = 0 THEN "filled" ELSE "open", left),
         NEW M, M.book = Put(N.book, o, left), M.position = N.position + size,
         M.answers = N.answers, M.snap = N.snap,
         left # 0 => M.frames = Append(N.frames, f),
         left = 0 => M.frames = N.frames \o <<f, u>> \/ M.frames = N.frames \o <<u, f>>
  PROVE  NetTyped(M) /\ Good(c, M)
<1> DEFINE m == Maker(c.probe.id)
           pos == N.position
           cum == c.probe.cum
           fr == N.frames
<1>1. /\ N.book[o] \in Nat /\ N.book[o] <= Size /\ size \in Int /\ size >= 1 /\ size <= N.book[o]
      /\ pos \in Nat /\ pos <= Size /\ Size \in Nat /\ cum \in Nat /\ fr \in Seq(Frames)
      /\ left \in Nat
  <2>1. N.book[o] \in Lots /\ pos \in Lots /\ fr \in Seq(Frames) /\ cum \in Nat
    BY ContextParts DEF NetTyped, ProbeRecords
  <2> HIDE DEF pos, fr, cum
  <2> QED BY <2>1, SizeAssumption DEF Lots
<1>2. /\ Early(c, N) /\ o = m /\ ~Ended(fr) /\ pos = Size - N.book[o] /\ m \in Names
  <2>1. m \in Names
    BY ContextParts, OidValues DEF ProbeRecords, Names
  <2>2. N.book[o] # 0
    BY <1>1
  <2>3. Early(c, N) /\ o = m /\ ~Ended(fr) /\ pos = Size - N.book[o]
    BY <2>2, LiveEarly
  <2> QED BY <2>1, <2>3
<1> HIDE DEF m
<1>3. /\ f \in Frames /\ IsFill(f) /\ f.size = size /\ f.oid = o /\ f.trade = pos + size
      /\ Before(f) = pos
  <2>1. f = [kind |-> "fill", oid |-> m, trade |-> pos + size, size |-> size, sign |-> 1]
    <3>1. Size - left = pos + size
      BY <1>1, <1>2
    <3> QED BY <1>2, <3>1 DEF Fill
  <2>2. size \in Lots \ {0} /\ pos + size \in Nat
    <3>1. size \in Int /\ size >= 1 /\ size <= Size /\ Size \in Nat
      <4> DEFINE b == N.book[o]
      <4>1. b <= Size /\ size <= b /\ b \in Nat /\ size \in Int /\ size >= 1 /\ Size \in Nat
        BY <1>1
      <4> HIDE DEF b
      <4> QED BY <4>1
    <3>2. size \in Lots \ {0}
      BY <3>1 DEF Lots
    <3>3. pos \in Nat
      BY <1>1
    <3> HIDE DEF pos
    <3> QED BY <3>1, <3>2, <3>3
  <2>3. f.size = size /\ f.oid = m /\ f.trade = pos + size /\ f.kind = "fill"
    BY <2>1
  <2>4. f \in Frames
    BY <1>2, <2>1, <2>2 DEF Frames, FillFrames
  <2> QED BY <1>1, <1>2, <2>3, <2>4 DEF IsFill, Before
<1>4. ~IsOpen(f) /\ ~IsEnd(f) /\ ~IsPosition(f)
  BY <1>3, FrameKinds
<1>5. Traded(o, cum, pos, fr)
  BY <1>2 DEF Early, Stream, m
<1>6. f \in Frames /\ IsFill(f) /\ f.oid = o /\ Before(f) = pos /\ fr \in Seq(Frames)
      /\ cum \in Nat /\ pos \in Nat /\ ~Ended(fr)
  BY <1>1, <1>2, <1>3
<1>7. f.trade = pos + size /\ f.size = size
  BY <1>3
<1> HIDE DEF fr, pos, cum
<1>8. CASE left # 0
  <2> DEFINE gr == Append(fr, f)
  <2>1. M.frames = gr
    BY <1>8 DEF fr
  <2>2. Longer(fr, f, gr) /\ Stream(o, cum, f.trade, gr) /\ ~Ended(gr)
    BY <1>5, <1>6, TradeFrames
  <2> HIDE DEF gr
  <2>3. N.book[o] # size
    BY <1>1, <1>8
  <2>4. f.trade = M.position
    BY <1>7 DEF pos
  <2>5. /\ Longer(N.frames, f, M.frames) /\ Stream(o, c.probe.cum, M.position, M.frames)
        /\ ~Ended(M.frames)
    BY <2>1, <2>2, <2>4 DEF fr, cum
  <2>6. M.book = Put(N.book, o, N.book[o] - size)
    OBVIOUS
  <2> QED BY <1>6, <1>7, <2>3, <2>5, <2>6, TradedGood
<1>9. CASE left = 0
  <2>1. /\ u \in Frames /\ IsEnd(u) /\ u.filled = Size /\ u.oid = o /\ u.status = "filled"
    <3>1. u = [kind |-> "update", oid |-> m, status |-> "filled", filled |-> Size, left |-> 0]
      BY <1>1, <1>2, <1>9 DEF Update
    <3>2. Size \in Lots /\ 0 \in Lots
      BY SizeAssumption DEF Lots
    <3> QED BY <1>2, <3>1, <3>2, SizeAssumption DEF Frames, UpdateFrames, IsEnd
  <2>2. pos + size = Size /\ N.book[o] = size
    BY <1>1, <1>2, <1>9 DEF pos
  <2>3. f.trade = Size
    BY <1>7, <2>2
  <2> DEFINE gr == M.frames
  <2>4. Both(fr, f, u, gr)
    BY <1>9 DEF fr, Both
  <2> HIDE DEF gr
  <2>5. Longer(fr, f, gr) /\ Stream(o, cum, Size, gr) /\ Ended(gr)
    BY <1>5, <1>6, <2>1, <2>3, <2>4, LastTradeFrames, ZenonT(60)
  <2>6. M.position = Size
    BY <2>2 DEF pos
  <2>7. /\ Longer(N.frames, f, M.frames) /\ Stream(o, c.probe.cum, M.position, M.frames)
        /\ Ended(M.frames)
    BY <2>5, <2>6 DEF gr, fr, cum
  <2>8. M.book = Put(N.book, o, N.book[o] - size)
    OBVIOUS
  <2> QED BY <1>6, <1>7, <2>2, <2>7, <2>8, TradedGood
<1> QED BY <1>8, <1>9

\* Only a settled probe has a position to sell, and it sells all of it.
LEMMA FlattenFilledGood ==
  ASSUME NEW c \in Contexts, NEW N, NetTyped(N), Good(c, N),
         NEW r \in c.wire \ DOMAIN N.answers, r[1] = "flatten", r[3] > 0, N.position > 0,
         NEW sold, sold = IF r[3] < N.position THEN r[3] ELSE N.position,
         NEW M, M.position = N.position - sold, M.frames = Append(N.frames, Fill(r[2], 1, sold, -1)),
         M.answers = Put(N.answers, r, "filled"), M.book = N.book, M.snap = N.snap
  PROVE  NetTyped(M) /\ Good(c, M)
<1> DEFINE f == Fill(r[2], 1, sold, -1)
<1>1. Common(c, N) /\ Active(c) /\ Settling(c, N)
  <2>1. N.position # 0
    BY DEF NetTyped, Lots
  <2> QED BY <2>1 DEF Good, Idle, Spent, Over, Placed, Early, Follow
<1>2. /\ r[2] \in Oids /\ r[3] \in Int /\ N.position \in Lots /\ N.position \in Nat
      /\ N.frames \in Seq(Frames) /\ r[2][1] = "flatten" /\ 0 \in Lots
  <2>1. r \in Requests
    BY ContextParts
  <2>2. r[2] \in Oids /\ r[3] \in Int
    BY <2>1 DEF Requests
  <2> QED BY <1>1, <2>2, SizeAssumption DEF Common, NetTyped, Lots
<1>3. sold = N.position /\ M.position = 0
  <2>1. N.position <= r[3]
    BY <1>1 DEF Settling
  <2> QED BY <1>2, <2>1
<1>4. f \in Frames /\ IsFill(f) /\ ~IsOpen(f) /\ ~IsEnd(f) /\ f.oid = r[2]
  <2>1. f = [kind |-> "fill", oid |-> r[2], trade |-> 1, size |-> sold, sign |-> -1]
    BY DEF Fill
  <2>2. r[2] \in Names /\ sold \in Lots \ {0} /\ 1 \in Nat
    BY <1>2, <1>3 DEF Names, NoOid
  <2> HIDE DEF f
  <2>3. f \in Frames /\ IsFill(f) /\ f.oid = r[2]
    BY <2>1, <2>2 DEF Frames, FillFrames, IsFill
  <2> QED BY <2>3, FrameKinds
<1> HIDE DEF f
<1>5. M.frames = Append(N.frames, f)
  BY DEF f
<1>6. /\ M.frames \in Seq(Frames)
      /\ \A i \in DOMAIN M.frames : M.frames[i] = f \/ \E j \in DOMAIN N.frames : M.frames[i] = N.frames[j]
  <2> DEFINE n == Len(N.frames)
             gr == Append(N.frames, f)
  <2>1. /\ gr \in Seq(Frames) /\ n \in Nat /\ DOMAIN N.frames = 1 .. n /\ DOMAIN gr = 1 .. n + 1
        /\ \A i \in 1 .. n : gr[i] = N.frames[i]
        /\ gr[n + 1] = f
    BY <1>2, <1>4, Appended
  <2> HIDE DEF n, gr
  <2>2. \A i \in DOMAIN gr : gr[i] = f \/ \E j \in DOMAIN N.frames : gr[i] = N.frames[j]
    BY <2>1
  <2> QED BY <1>5, <2>1, <2>2 DEF gr
<1>7. /\ DOMAIN M.answers = DOMAIN N.answers \cup {r} /\ M.answers[r] = "filled"
      /\ \A x \in DOMAIN N.answers : x # r => M.answers[x] = N.answers[x]
  BY DEF Put
<1>8. NetTyped(M)
  <2>1. \A x \in DOMAIN M.answers : M.answers[x] \in {"resting", "filled", "rejected"}
    BY <1>7 DEF NetTyped
  <2> QED BY <1>2, <1>3, <1>6, <2>1 DEF NetTyped
<1>9. Common(c, M)
  <2>1. \A i \in DOMAIN M.frames : IsFill(M.frames[i]) /\ M.frames[i].oid[1] = "maker" =>
          M.frames[i].oid[2] <= c.issued.probes
    <3>1. f.oid[1] # "maker"
      BY <1>2, <1>4
    <3> QED BY <1>1, <1>6, <3>1 DEF Common
  <2>2. DOMAIN M.answers \subseteq c.wire
    BY <1>1, <1>7 DEF Common
  <2> QED BY <1>1, <2>1, <2>2 DEF Common
<1>10. Over(c, M)
  BY <1>1, <1>3, <1>7 DEF Settling, Bound, Over, NoLive, NoPlace
<1>11. OpensFirst(c.probe.cum, M.frames)
  <2>1. ~Announced(M.frames)
    BY <1>1, <1>2, <1>4, <1>5, TailKinds DEF Settling, Rest
  <2> QED BY <2>1, NoneAnnounced
<1>12. \A x \in DOMAIN M.answers : ~(x[1] = "place" /\ M.answers[x] = "rejected")
  <2>1. \A x \in DOMAIN N.answers : x # r => M.answers[x] = "resting"
    BY <1>1, <1>7 DEF Settling, Bound
  <2> QED BY <1>7, <2>1
<1>13. c.probe.cum # 0
  <2>1. c.probe.cum \in Nat /\ c.probe.cum > 0
    BY <1>1, ContextParts DEF Settling, ProbeRecords
  <2> QED BY <2>1
<1>14. Spent(c, M)
  BY <1>10, <1>11, <1>12, <1>13 DEF Spent
<1> QED BY <1>1, <1>8, <1>9, <1>14, GoodStages DEF Gone

\* A flatten is refused when there is nothing to sell.
LEMMA FlattenRejectedGood ==
  ASSUME NEW c \in Contexts, NEW N, NetTyped(N), Good(c, N),
         NEW r \in c.wire \ DOMAIN N.answers, r[1] = "flatten", ~(r[3] > 0 /\ N.position > 0),
         NEW M, M.position = N.position, M.frames = N.frames,
         M.answers = Put(N.answers, r, "rejected"), M.book = N.book, M.snap = N.snap
  PROVE  NetTyped(M) /\ Good(c, M)
<1>1. Common(c, N)
  BY DEF Good
<1>2. Gone(c, N)
  <2>1. ~Settling(c, N)
    <3>1. r \in Requests /\ N.position \in Lots
      BY ContextParts DEF NetTyped
    <3>2. r[3] \in Int /\ N.position \in Nat
      BY <3>1, SizeAssumption DEF Requests, Lots
    <3>3. Settling(c, N) => N.position > 0 /\ N.position <= r[3]
      BY DEF Settling
    <3> QED BY <3>2, <3>3
  <2>2. ~Placed(c, N) /\ ~Early(c, N)
    BY DEF Placed, Early, Follow
  <2> QED BY <2>1, <2>2, GoodStages
<1>3. /\ DOMAIN M.answers = DOMAIN N.answers \cup {r} /\ M.answers[r] = "rejected"
      /\ \A x \in DOMAIN N.answers : x # r => M.answers[x] = N.answers[x]
  BY DEF Put
<1>4. NetTyped(M)
  <2>1. \A x \in DOMAIN M.answers : M.answers[x] \in {"resting", "filled", "rejected"}
    BY <1>3 DEF NetTyped
  <2> QED BY <2>1 DEF NetTyped
<1>5. Common(c, M)
  <2>1. DOMAIN M.answers \subseteq c.wire
    BY <1>1, <1>3 DEF Common
  <2> QED BY <1>1, <2>1 DEF Common
<1>6. Over(c, N) => Over(c, M)
  BY <1>3 DEF Over, NoLive, NoPlace
<1>7. ReadZero(c, N) => ReadZero(c, M)
  BY DEF ReadZero, Counted
<1>8. Idle(c, N) => Idle(c, M)
  BY <1>6, <1>7 DEF Idle
<1>9. Spent(c, N) => Spent(c, M)
  BY <1>3, <1>6, <1>7 DEF Spent
<1> QED BY <1>2, <1>4, <1>5, <1>8, <1>9, GoodStages DEF Gone

\* A clearinghouseState frame shows the position that the exchange holds.
LEMMA PushGood ==
  ASSUME NEW c \in Contexts, NEW N, NetTyped(N), Good(c, N), N.position > 0,
         NEW M, M.frames = Append(N.frames, [kind |-> "position", lots |-> N.position]),
         M.position = N.position, M.answers = N.answers, M.book = N.book, M.snap = N.snap
  PROVE  NetTyped(M) /\ Good(c, M)
<1> DEFINE f == [kind |-> "position", lots |-> N.position]
           m == Maker(c.probe.id)
           pos == N.position
           cum == c.probe.cum
           n == Len(N.frames)
<1>1. Common(c, N) /\ pos \in Lots /\ pos \in Nat /\ pos # 0 /\ cum \in Nat /\ N.frames \in Seq(Frames)
  BY ContextParts, SizeAssumption DEF Good, NetTyped, Lots, ProbeRecords
<1>2. Active(c) /\ (Early(c, N) \/ Settling(c, N))
  BY <1>1 DEF Good, Idle, Spent, Over, Placed
<1>3. f \in Frames /\ IsPosition(f) /\ ~IsOpen(f) /\ ~IsEnd(f) /\ ~IsFill(f) /\ f.lots = pos
  <2>1. f \in Frames /\ IsPosition(f) /\ f.lots = pos
    BY <1>1 DEF Frames, PositionFrames, IsPosition
  <2> HIDE DEF f
  <2> QED BY <2>1, FrameKinds
<1> HIDE DEF f
<1>4. M.frames = Append(N.frames, f)
  BY DEF f
<1>5. /\ M.frames \in Seq(Frames) /\ DOMAIN M.frames = DOMAIN N.frames \cup {n + 1}
      /\ M.frames[n + 1] = f
      /\ \A i \in DOMAIN N.frames : M.frames[i] = N.frames[i]
  <2> DEFINE gr == Append(N.frames, f)
  <2>1. /\ gr \in Seq(Frames) /\ n \in Nat /\ DOMAIN N.frames = 1 .. n /\ DOMAIN gr = 1 .. n + 1
        /\ \A i \in 1 .. n : gr[i] = N.frames[i]
        /\ gr[n + 1] = f
    BY <1>1, <1>3, Appended
  <2> HIDE DEF n, gr
  <2>2. DOMAIN gr = DOMAIN N.frames \cup {n + 1}
    BY <2>1
  <2> QED BY <1>4, <2>1, <2>2 DEF gr
<1> HIDE DEF n
<1>6. /\ Announced(M.frames) <=> Announced(N.frames)
      /\ Ended(M.frames) <=> Ended(N.frames)
      /\ Filling(M.frames) <=> Filling(N.frames)
  BY <1>1, <1>3, <1>4, TailKinds
<1>7. \A i \in DOMAIN M.frames : IsFill(M.frames[i]) => i \in DOMAIN N.frames /\ M.frames[i] = N.frames[i]
  BY <1>3, <1>5
<1>8. NetTyped(M)
  BY <1>5 DEF NetTyped
<1>9. Common(c, M)
  <2>1. \A i \in DOMAIN M.frames : IsFill(M.frames[i]) /\ M.frames[i].oid[1] = "maker" =>
          M.frames[i].oid[2] <= c.issued.probes
    BY <1>1, <1>7 DEF Common
  <2> QED BY <1>1, <2>1 DEF Common
<1>10. (Bound(c, N) => Bound(c, M)) /\ (Counted(c, M) <=> Counted(c, N)) /\ (Whole(c, M) <=> Whole(c, N))
       /\ (NoLive(M) <=> NoLive(N))
  BY DEF Bound, NoPlace, Counted, Whole, NoLive
<1>11. CASE Early(c, N)
  <2>1. Stream(m, cum, pos, M.frames)
    <3>1. Stream(m, cum, pos, N.frames)
      BY <1>11 DEF Early
    <3> HIDE DEF m, cum, pos
    <3>2. Stream(m, cum, pos, Append(N.frames, f))
      BY <1>1, <1>3, <3>1, StreamPosition
    <3> QED BY <1>4, <3>2
  <2>2. Follow(c.probe, c.wire, M.frames)
    BY <1>6, <1>11 DEF Early, Follow
  <2>3. Worth(c, M)
    BY <1>7, <1>10, <1>11 DEF Early, Worth
  <2>4. Early(c, M)
    BY <1>6, <1>10, <1>11, <2>1, <2>2, <2>3 DEF Early
  <2> QED BY <1>2, <1>8, <1>9, <2>4, GoodStages
<1>12. CASE Settling(c, N)
  <2>1. Rest(m, pos, M.frames)
    <3>1. Rest(m, pos, N.frames)
      BY <1>12 DEF Settling
    <3> HIDE DEF m, pos
    <3>2. OnlyOf(m, M.frames)
      BY <1>3, <1>5, <3>1 DEF Rest, OnlyOf
    <3>3. \A i \in DOMAIN M.frames : IsPosition(M.frames[i]) => pos <= M.frames[i].lots
      BY <1>1, <1>3, <1>5, <3>1 DEF Rest
    <3>4. \A i \in DOMAIN M.frames : IsFill(M.frames[i]) => i = 1 /\ M.frames[i].trade = Size
      BY <1>7, <3>1 DEF Rest
    <3> QED BY <1>6, <3>1, <3>2, <3>3, <3>4 DEF Rest
  <2>2. ASSUME NEW i \in DOMAIN M.frames, IsFill(M.frames[i])
        PROVE  LastFill(c, M, M.frames[i])
    <3>1. LastFill(c, N, M.frames[i])
      BY <1>7, <1>12, <2>2 DEF Settling
    <3> QED BY <1>10, <3>1 DEF LastFill
  <2>3. Settling(c, M)
    BY <1>6, <1>10, <1>12, <2>1, <2>2 DEF Settling
  <2> QED BY <1>2, <1>8, <1>9, <2>3, GoodStages
<1> QED BY <1>2, <1>11, <1>12


-----------------------------------------------------------------------------
(* The REST worker and the clock *)

\* The strategy's own state is as before.
Same(c, d) ==
  /\ d.probe = c.probe /\ d.account = c.account /\ d.markouts = c.markouts /\ d.seen = c.seen
  /\ d.cooling = c.cooling /\ d.wire = c.wire /\ d.issued = c.issued
  /\ d.shutdown = c.shutdown /\ d.writerUp = c.writerUp

LEMMA TakeGood ==
  ASSUME NEW c \in Contexts, NEW N, Good(c, N), c.rest.worker = "idle", c.rest.queued,
         NEW d, Same(c, d), d.rest.worker = "reading"
  PROVE  Good(d, N)
<1>1. ~c.rest.unread
  BY ContextParts DEF GateRests, OneRequest
<1>2. Common(c, N) /\ N.snap.got = {}
  BY <1>1 DEF Good, Common
<1>3. ~Counted(d, N)
  BY <1>2 DEF Counted
<1>4. Common(d, N) /\ Unread(c, N, d, N)
  BY <1>2, <1>3 DEF Common, Same, Unread
<1> QED BY <1>4, UnreadGood DEF Same

LEMMA ReadOrdersGood ==
  ASSUME NEW c \in Contexts, NEW N, NetTyped(N), Good(c, N), c.rest.worker = "reading",
         NEW M, M.book = N.book, M.position = N.position, M.answers = N.answers,
         M.frames = N.frames, M.snap.got = N.snap.got \cup {"orders"},
         M.snap.inv = N.snap.inv, M.snap.orders \subseteq DOMAIN N.book
  PROVE  NetTyped(M) /\ Good(c, M)
<1>1. NetTyped(M)
  BY DEF NetTyped
<1>2. Common(c, M)
  BY DEF Good, Common
<1>3. Unread(c, N, c, M)
  BY DEF Unread, Counted
<1> QED BY <1>1, <1>2, <1>3, UnreadGood

\* The worker reads what the exchange holds: all that has traded.
LEMMA ReadPositionsGood ==
  ASSUME NEW c \in Contexts, NEW N, NetTyped(N), Good(c, N), c.rest.worker = "reading",
         NEW M, M.book = N.book, M.position = N.position, M.answers = N.answers,
         M.frames = N.frames, M.snap.inv = N.position, M.snap.orders = N.snap.orders
  PROVE  NetTyped(M) /\ Good(c, M)
<1> DEFINE m == Maker(c.probe.id)
           pos == N.position
           cum == c.probe.cum
<1>1. NetTyped(M)
  BY DEF NetTyped
<1>2. Common(c, M) /\ Common(c, N)
  BY DEF Good, Common
<1>3. pos \in Nat /\ pos <= Size /\ Size \in Nat /\ cum \in Nat /\ N.frames \in Seq(Frames)
  BY ContextParts, SizeAssumption DEF NetTyped, Lots, ProbeRecords
<1>4. (Over(c, N) => Over(c, M)) /\ (Bound(c, N) => Bound(c, M)) /\ (NoLive(M) <=> NoLive(N))
  BY DEF Over, NoLive, NoPlace, Bound
<1>5. pos = 0 => ReadZero(c, M)
  BY DEF ReadZero
<1>6. Idle(c, N) => Idle(c, M)
  BY <1>4, <1>5 DEF Idle, Over
<1>7. Spent(c, N) => Spent(c, M)
  BY <1>4, <1>5 DEF Spent, Over
<1>8. Placed(c, N) => Placed(c, M)
  BY <1>4, <1>5 DEF Placed
<1>9. ASSUME Early(c, N) PROVE Early(c, M)
  <2>1. cum <= pos
    BY <1>9 DEF Early, Stream, Traded, FillsFollow
  <2>2. ASSUME NEW i \in DOMAIN N.frames, IsFill(N.frames[i]), N.frames[i].size = Size
        PROVE  Whole(c, M)
    <3> DEFINE f == N.frames[i]
    <3>1. Whole(c, N)
      BY <1>9, <2>2 DEF Early, Worth
    <3>2. f.trade <= pos /\ cum <= Before(f)
      BY <1>9, <2>2 DEF Early, Stream, Traded, FillsFollow
    <3>3. f \in Frames /\ IsFill(f) /\ f.size = Size
      BY <1>3, <2>2
    <3> HIDE DEF f, pos, cum
    <3>4. f.trade \in Nat /\ Before(f) \in Int /\ Before(f) + f.size = f.trade
      BY <3>3, FillFields
    <3>5. pos = Size
      BY <1>3, <3>2, <3>3, <3>4
    <3>6. M.snap.inv = Size
      BY <3>5 DEF pos
    <3> QED BY <3>1, <3>6 DEF Whole
  <2>3. Worth(c, M)
    BY <1>3, <1>9, <2>1, <2>2 DEF Early, Worth
  <2> QED BY <1>4, <1>9, <2>3 DEF Early
<1>10. ASSUME Settling(c, N) PROVE Settling(c, M)
  <2>1. ~Filling(M.frames) => pos <= c.account.inv /\ (Counted(c, M) => pos <= M.snap.inv)
    BY <1>3, <1>10 DEF Settling
  <2>2. ASSUME NEW i \in DOMAIN M.frames, IsFill(M.frames[i])
        PROVE  LastFill(c, M, M.frames[i])
    <3> DEFINE f == M.frames[i]
    <3>1. LastFill(c, N, f) /\ f.trade = Size
      BY <1>10, <2>2 DEF Settling, Rest
    <3>2. f \in Frames /\ IsFill(f)
      BY <1>3, <2>2
    <3> HIDE DEF f
    <3>3. f.trade \in Nat /\ f.size \in Nat /\ Before(f) \in Int /\ Before(f) + f.size = f.trade
      BY <3>2, FillFields
    <3>4. Before(f) <= Size
      BY <1>3, <3>1, <3>3
    <3>5. M.snap.inv = Size
      BY <3>1 DEF LastFill
    <3>6. Whole(c, N) => Whole(c, M)
      BY <3>5 DEF Whole
    <3>7. LastFill(c, M, f)
      BY <3>1, <3>4, <3>5, <3>6 DEF LastFill
    <3> QED BY <3>7 DEF f
  <2> QED BY <1>4, <1>10, <2>1, <2>2 DEF Settling
<1> QED BY <1>1, <1>2, <1>6, <1>7, <1>8, <1>9, <1>10 DEF Good

LEMMA PublishGood ==
  ASSUME NEW c \in Contexts, NEW N, Good(c, N),
         NEW d, Same(c, d), d.rest.worker = "idle", d.rest.unread, d.rest.stale = c.rest.stale
  PROVE  Good(d, N)
<1>1. Common(d, N) /\ Unread(c, N, d, N)
  BY DEF Good, Common, Same, Unread, Counted
<1> QED BY <1>1, UnreadGood DEF Same

\* While nothing is on its way only a resting order may be waited for.
LEMMA ElapseGood ==
  ASSUME NEW c \in Contexts, NEW N, Good(c, N), Waiting(c.probe), c.probe.phase # "Absent",
         \/ c.probe.phase \in {"Resting", "Partial"}
         \/ c.wire = {} /\ N.frames = <<>>,
         NEW d, Apart(c, d), d.cooling = c.cooling, d.wire = c.wire, d.markouts = c.markouts,
         d.probe = [c.probe EXCEPT !.late = TRUE]
  PROVE  Good(d, N)
<1>1. Common(c, N) /\ Common(d, N)
  BY DEF Good, Common, Apart
<1>2. /\ d.probe.id = c.probe.id /\ d.probe.cum = c.probe.cum /\ d.probe.rem = c.probe.rem
      /\ d.probe.oid = c.probe.oid /\ d.probe.flatOid = c.probe.flatOid
      /\ d.probe.phase = c.probe.phase /\ d.probe.cancelReq = c.probe.cancelReq
  <2>1. c.probe \in ProbeRecords
    BY ContextParts
  <2> QED BY <2>1 DEF ProbeRecords
<1>3. Active(c) /\ Active(d)
  BY <1>2 DEF Active
<1>4. CASE Spent(c, N)
  <2>1. ReadZero(c, N) => ReadZero(d, N)
    BY CountedAlike DEF Apart, ReadZero
  <2>2. Gone(d, N)
    BY <1>2, <1>3, <1>4, <2>1, SpentKept
  <2> QED BY <1>1, <2>2, GoodStages
<1>5. CASE Placed(c, N)
  BY <1>5 DEF Placed
<1>6. CASE Early(c, N)
  <2>1. N.frames = <<>> => ~Announced(N.frames) /\ ~Ended(N.frames)
    BY DEF Announced, Ended
  <2>2. c.probe.phase \in {"Resting", "Partial"}
    BY <1>6, <2>1 DEF Early, Follow, EarlyPhases
  <2>3. Follow(d.probe, d.wire, N.frames)
    BY <1>2, <1>6, <2>2 DEF Early, Follow
  <2>4. Worth(d, N)
    BY <1>2, <1>6, WorthAlike DEF Early
  <2>5. Bound(d, N)
    BY <1>2, <1>6 DEF Early, Bound, NoPlace
  <2>6. Early(d, N)
    BY <1>2, <1>6, <2>3, <2>4, <2>5 DEF Early, Apart
  <2> QED BY <1>1, <1>3, <2>6, GoodStages
<1>7. CASE Settling(c, N)
  BY <1>7 DEF Settling, Waiting, Flattening
<1> QED BY <1>3, <1>4, <1>5, <1>6, <1>7 DEF Good

LEMMA CoolGood ==
  ASSUME NEW c \in Contexts, NEW N, Good(c, N), c.wire = {}, N.frames = <<>>,
         NEW d, Apart(c, d), d.wire = c.wire, d.markouts = c.markouts, d.probe = c.probe
  PROVE  Good(d, N)
<1>1. Common(c, N) /\ Common(d, N)
  BY DEF Good, Common, Apart
<1>2. (Active(d) <=> Active(c)) /\ (ReadZero(c, N) => ReadZero(d, N)) /\ c.probe.cum \in Nat
  BY ContextParts, CountedAlike DEF Active, Apart, ReadZero, ProbeRecords
<1>3. CASE ~Active(c)
  <2>1. Idle(d, N)
    BY <1>2, <1>3, OverAlike DEF Good, Idle
  <2> QED BY <1>1, <1>2, <1>3, <2>1 DEF Good
<1>4. CASE Active(c) /\ Spent(c, N)
  <2>1. Gone(d, N)
    BY <1>2, <1>4, SpentKept
  <2> QED BY <1>1, <2>1, GoodStages
<1>5. CASE Active(c) /\ (Placed(c, N) \/ Early(c, N) \/ Settling(c, N))
  BY <1>1, <1>2, <1>5, PlacedKept, EarlyKept, SettlingKept, GoodStages
<1> QED BY <1>3, <1>4, <1>5 DEF Good


-----------------------------------------------------------------------------
(* Steps *)

Now == Self(RecordLimit)
ExInv == StepInv /\ CleanInv

\* What every step starts from.
LEMMA NowFacts ==
  ASSUME CleanNetwork, ExInv
  PROVE  /\ Now \in Contexts /\ Own(Now) /\ Unlimited(Now) /\ ~Now.err
         /\ NetTyped(Net) /\ Good(Now, Net) /\ Common(Now, Net)
         /\ Fuel = {RecordLimit} /\ Sends = {TRUE} /\ Frame(RecordLimit) = Now
<1>1. RecordLimit \in Nat
  BY DEF RecordLimit
<1>2. Now \in Contexts /\ Own(Now) /\ ~Now.err /\ Now.fuel = RecordLimit /\ Now.writerUp = writerUp
  BY <1>1, SelfContext, SelfFields DEF ExInv, StepInv, Now
<1>3. Unlimited(Now)
  BY <1>2 DEF Unlimited, CleanNetwork
<1>4. NetTyped(Net) /\ Good(Now, Net) /\ Common(Now, Net)
  BY DEF ExInv, CleanInv, Now, Good
<1>5. Fuel = {RecordLimit} /\ Sends = {TRUE}
  BY <1>2, <1>4 DEF Common, Fuel, Sends, CleanNetwork
<1>6. Frame(RecordLimit) = Now
  BY <1>3, RecordNothing DEF Frame, Now
<1> QED BY <1>2, <1>3, <1>4, <1>5, <1>6

LEMMA NowFields ==
  /\ Now.probe = probe /\ Now.account = account /\ Now.markouts = markouts /\ Now.seen = seen
  /\ Now.cooling = cooling /\ Now.rest = rest /\ Now.shutdown = shutdown /\ Now.wire = wire
  /\ Now.issued = issued /\ Now.writerUp = writerUp /\ Now.fuel = RecordLimit /\ ~Now.err
BY DEF Now, Self

LEMMA NextFields ==
  LET d == Now' IN
  /\ d.probe = probe' /\ d.account = account' /\ d.markouts = markouts' /\ d.seen = seen'
  /\ d.cooling = cooling' /\ d.rest = rest' /\ d.shutdown = shutdown' /\ d.wire = wire'
  /\ d.issued = issued' /\ d.writerUp = writerUp' /\ d.fuel = RecordLimit /\ ~d.err
BY DEF Now, Self

LEMMA NetFields ==
  /\ Net.book = book /\ Net.position = position /\ Net.answers = answers
  /\ Net.frames = frames /\ Net.snap = snap
BY DEF Net

LEMMA NextNetFields ==
  LET M == Net' IN
  /\ M.book = book' /\ M.position = position' /\ M.answers = answers'
  /\ M.frames = frames' /\ M.snap = snap'
BY DEF Net

LEMMA CleanNext ==
  ASSUME NetTyped(Net'), Good(Now', Net')
  PROVE  CleanInv'
BY DEF CleanInv, Now

\* The strategy does nothing.
LEMMA StillStep ==
  ASSUME ExInv, UNCHANGED vars
  PROVE  StepInv' /\ Now' = Now
<1>1. StepInv'
  BY StepInvStep DEF ExInv
<1>2. Now' = Now
  BY DEF Now, Self, vars
<1> QED BY <1>1, <1>2

LEMMA SameGood ==
  ASSUME NEW c, NEW d, NEW N, Good(c, N), Same(c, d), d.rest = c.rest
  PROVE  Good(d, N)
<1>1. Unread(c, N, d, N) /\ Common(d, N)
  BY DEF Good, Common, Same, Unread, Counted
<1> QED BY <1>1, UnreadGood DEF Same

\* The strategy handles a frame or a tick.
LEMMA BecomeNext ==
  ASSUME NEW d, Become(d), NetTyped(Net'), Good(d, Net')
  PROVE  CleanInv'
<1> DEFINE e == Now'
           M == Net'
<1>1. Same(d, e) /\ e.rest = d.rest
  BY NextFields DEF Become, Same
<1>2. NetTyped(M) /\ Good(d, M)
  OBVIOUS
<1> HIDE DEF e, M
<1>3. Good(e, M)
  BY <1>1, <1>2, SameGood
<1> QED BY <1>2, <1>3, CleanNext DEF e, M

LEMMA BecomeStep ==
  ASSUME ExInv, RecordLimit \in Fuel, NEW d \in Contexts, Become(d), Permitted(Now, d),
         NetTyped(Net'), Good(d, Net')
  PROVE  ExInv'
<1>1. OwnInv' /\ IdleInv' /\ GoneInv'
  BY PermittedStep DEF ExInv, StepGood, Now
<1>2. Inv'
  BY BecomeInv
<1>3. CleanInv'
  BY BecomeNext
<1> QED BY <1>1, <1>2, <1>3 DEF ExInv, StepInv

\* The exchange acts.
LEMMA AcceptStep ==
  ASSUME CleanNetwork, ExInv, AcceptPlace
  PROVE  ExInv'
<1> DEFINE c == Now
           N == Net
           M == Net'
<1>1. PICK r \in Due("place") : /\ book' = SetBook(r[2], r[3])
                                    /\ answers' = Answer(r, "resting")
                                    /\ frames' = Append(frames, Update(r[2], "open", r[3]))
                                    /\ UNCHANGED <<vars, position, history, snap, losses>>
  BY DEF AcceptPlace
<1>2. StepInv' /\ Now' = c
  BY <1>1, StillStep
<1>3. c \in Contexts /\ NetTyped(N) /\ Good(c, N)
  BY NowFacts
<1>4. r \in c.wire \ DOMAIN N.answers /\ r[1] = "place"
  BY <1>1, NowFields, NetFields DEF Due, Pending
<1>5. /\ M.book = Put(N.book, r[2], r[3]) /\ M.answers = Put(N.answers, r, "resting")
      /\ M.frames = Append(N.frames, Update(r[2], "open", r[3]))
      /\ M.position = N.position /\ M.snap = N.snap
  BY <1>1, NetFields, NextNetFields DEF SetBook, Answer, Put
<1> HIDE DEF c, N, M
<1>6. NetTyped(M) /\ Good(c, M)
  BY <1>3, <1>4, <1>5, AcceptGood
<1> QED BY <1>2, <1>6, CleanNext DEF ExInv, M

LEMMA RejectStep ==
  ASSUME CleanNetwork, ExInv, RejectPlace
  PROVE  ExInv'
<1> DEFINE c == Now
           N == Net
           M == Net'
<1>1. PICK r \in Due("place") : /\ book' = SetBook(r[2], 0)
                                    /\ answers' = Answer(r, "rejected")
                                    /\ UNCHANGED <<vars, position, frames, history, snap, losses>>
  BY DEF RejectPlace
<1>2. StepInv' /\ Now' = c
  BY <1>1, StillStep
<1>3. c \in Contexts /\ NetTyped(N) /\ Good(c, N)
  BY NowFacts
<1>4. r \in c.wire \ DOMAIN N.answers /\ r[1] = "place"
  BY <1>1, NowFields, NetFields DEF Due, Pending
<1>5. /\ M.book = Put(N.book, r[2], 0) /\ M.answers = Put(N.answers, r, "rejected")
      /\ M.frames = N.frames /\ M.position = N.position /\ M.snap = N.snap
  BY <1>1, NetFields, NextNetFields DEF SetBook, Answer, Put
<1> HIDE DEF c, N, M
<1>6. NetTyped(M) /\ Good(c, M)
  BY <1>3, <1>4, <1>5, RejectGood
<1> QED BY <1>2, <1>6, CleanNext DEF ExInv, M

LEMMA CancelStep ==
  ASSUME CleanNetwork, ExInv, ProcessCancel
  PROVE  ExInv'
<1> DEFINE c == Now
           d == Now'
           N == Net
           M == Net'
<1>1. PICK r \in Due("cancel") :
        /\ IF Live(r[2])
           THEN /\ book' = SetBook(r[2], 0)
                /\ frames' = Append(frames, Update(r[2], "canceled", book[r[2]]))
           ELSE UNCHANGED <<book, frames>>
        /\ wire' = wire \ {r}
        /\ UNCHANGED <<probe, account, markouts, seen, cooling, rest, shutdown, issued, writerUp>>
        /\ UNCHANGED <<position, answers, history, snap, losses>>
  BY DEF ProcessCancel
<1>2. StepInv'
  <2>1. OwnInv' /\ IdleInv' /\ GoneInv'
    BY <1>1, QuietStep DEF ExInv, StepGood
  <2>2. Inv'
    BY <1>1, ProbeKept DEF ExInv, StepInv, Inv, TypeOK
  <2> QED BY <2>1, <2>2 DEF StepInv
<1>3. c \in Contexts /\ NetTyped(N) /\ Good(c, N)
  BY NowFacts
<1>4. r \in c.wire \ DOMAIN N.answers /\ r[1] = "cancel"
  BY <1>1, NowFields, NetFields DEF Due, Pending
<1>5. /\ Apart(c, d) /\ d.probe = c.probe /\ d.markouts = c.markouts /\ d.cooling = c.cooling
      /\ d.wire = c.wire \ {r}
  BY <1>1, NowFields, NextFields DEF Apart
<1>6. \A o \in DOMAIN N.book : N.book[o] # 0 => N.book[o] > 0
  BY <1>3, SizeAssumption DEF NetTyped, Lots
<1>7. CASE Live(r[2])
  <2>1. r[2] \in DOMAIN N.book /\ N.book[r[2]] > 0
    BY <1>7, NetFields DEF Live
  <2>2. /\ M.book = Put(N.book, r[2], 0)
        /\ M.frames = Append(N.frames, Update(r[2], "canceled", N.book[r[2]]))
        /\ M.answers = N.answers /\ M.position = N.position /\ M.snap = N.snap
    BY <1>1, <1>7, NetFields, NextNetFields DEF SetBook, Put
  <2> HIDE DEF c, d, N, M
  <2>3. NetTyped(M) /\ Good(d, M)
    BY <1>3, <1>4, <1>5, <2>1, <2>2, CancelGood
  <2> QED BY <1>2, <2>3, CleanNext DEF ExInv, d, M
<1>8. CASE ~Live(r[2])
  <2>1. ~(r[2] \in DOMAIN N.book /\ N.book[r[2]] > 0)
    BY <1>8, NetFields DEF Live
  <2>2. M = N
    BY <1>1, <1>8 DEF Net
  <2> HIDE DEF c, d, N, M
  <2>3. Good(d, N)
    BY <1>3, <1>4, <1>5, <1>6, <2>1, LateCancelGood
  <2> QED BY <1>2, <1>3, <2>2, <2>3, CleanNext DEF ExInv, d, M
<1> QED BY <1>7, <1>8


LEMMA TradeStep ==
  ASSUME CleanNetwork, ExInv, Trade
  PROVE  ExInv'
<1> DEFINE c == Now
           N == Net
           M == Net'
<1>0. PICK o \in LiveOids : \E size \in 1 .. book[o] :
        LET left == book[o] - size
            fill == Fill(o, Size - left, size, 1)
            update == Update(o, IF left = 0 THEN "filled" ELSE "open", left)
        IN /\ book' = SetBook(o, left)
           /\ position' = position + size
           /\ IF left = 0 \/ ResizeUpdates
              THEN \E both \in {<<fill, update>>, <<update, fill>>} : frames' = frames \o both
              ELSE frames' = Append(frames, fill)
           /\ UNCHANGED <<vars, answers, snap, losses>>
  BY DEF Trade
<1>1. PICK size \in 1 .. book[o] :
        LET left == book[o] - size
            fill == Fill(o, Size - left, size, 1)
            update == Update(o, IF left = 0 THEN "filled" ELSE "open", left)
        IN /\ book' = SetBook(o, left)
           /\ position' = position + size
           /\ IF left = 0 \/ ResizeUpdates
              THEN \E both \in {<<fill, update>>, <<update, fill>>} : frames' = frames \o both
              ELSE frames' = Append(frames, fill)
           /\ UNCHANGED <<vars, answers, snap, losses>>
  BY <1>0
<1>2. StepInv' /\ Now' = c
  BY <1>1, StillStep
<1>3. c \in Contexts /\ Own(c) /\ NetTyped(N) /\ Good(c, N)
  BY NowFacts
<1>4. ~ResizeUpdates
  BY DEF CleanNetwork
<1> DEFINE left == book[o] - size
           f == Fill(o, Size - left, size, 1)
           u == Update(o, IF left = 0 THEN "filled" ELSE "open", left)
<1>5. /\ book' = SetBook(o, left) /\ position' = position + size
      /\ left # 0 => frames' = Append(frames, f)
      /\ left = 0 => frames' = frames \o <<f, u>> \/ frames' = frames \o <<u, f>>
      /\ answers' = answers /\ snap' = snap
  BY <1>1, <1>4
<1>6. o \in DOMAIN N.book /\ N.book[o] > 0 /\ size \in 1 .. N.book[o] /\ left = N.book[o] - size
  BY <1>1, NetFields DEF LiveOids
<1>7. f = Fill(o, Size - left, size, 1) /\ u = Update(o, IF left = 0 THEN "filled" ELSE "open", left)
  OBVIOUS
<1> HIDE DEF left, f, u
<1>8. /\ M.book = Put(N.book, o, left) /\ M.position = N.position + size
      /\ M.answers = N.answers /\ M.snap = N.snap
      /\ left # 0 => M.frames = Append(N.frames, f)
      /\ left = 0 => M.frames = N.frames \o <<f, u>> \/ M.frames = N.frames \o <<u, f>>
  BY <1>5, NetFields, NextNetFields DEF SetBook, Put
<1> HIDE DEF c, N, M
<1>9. NetTyped(M) /\ Good(c, M)
  BY <1>3, <1>6, <1>7, <1>8, TradeGood
<1> QED BY <1>2, <1>9, CleanNext DEF ExInv, M

LEMMA SomeSellable ==
  ASSUME CleanNetwork, ExInv, NEW r \in wire
  PROVE  r[3] > 0 => (Sellable(r) > 0 <=> position > 0)
<1>1. r \in Requests /\ position \in Lots
  BY NowFacts, NowFields, NetFields, ContextParts DEF NetTyped
<1>2. r[3] \in Int /\ position \in Nat
  BY <1>1, SizeAssumption DEF Requests, Lots
<1> QED BY <1>2 DEF Sellable

LEMMA FlattenStep ==
  ASSUME CleanNetwork, ExInv, ProcessFlatten
  PROVE  ExInv'
<1> DEFINE c == Now
           N == Net
           M == Net'
<1>1. PICK r \in Due("flatten") :
        LET sold == Sellable(r)
            fill == Fill(r[2], 1, sold, -1)
        IN /\ IF r[3] > 0 /\ sold > 0
              THEN /\ position' = position - sold
                   /\ frames' = Append(frames, fill) /\ history' = Append(history, fill)
                   /\ answers' = Answer(r, "filled")
              ELSE /\ answers' = Answer(r, "rejected")
                   /\ UNCHANGED <<position, frames, history>>
           /\ UNCHANGED <<vars, book, snap>>
  BY DEF ProcessFlatten, Sell
<1>2. StepInv' /\ Now' = c
  BY <1>1, StillStep
<1>3. c \in Contexts /\ NetTyped(N) /\ Good(c, N)
  BY NowFacts
<1>4. r \in c.wire \ DOMAIN N.answers /\ r[1] = "flatten"
  BY <1>1, NowFields, NetFields DEF Due, Pending
<1>9. r[3] > 0 => (Sellable(r) > 0 <=> position > 0)
  BY <1>1, SomeSellable DEF Due, Pending
<1> DEFINE sold == IF r[3] < N.position THEN r[3] ELSE N.position
<1>5. CASE r[3] > 0 /\ position > 0
  <2>1. /\ M.position = N.position - sold /\ M.frames = Append(N.frames, Fill(r[2], 1, sold, -1))
        /\ M.answers = Put(N.answers, r, "filled") /\ M.book = N.book /\ M.snap = N.snap
    BY <1>1, <1>5, <1>9, NetFields, NextNetFields DEF Answer, Put, Sellable
  <2>2. r[3] > 0 /\ N.position > 0
    BY <1>5, NetFields
  <2>3. sold = IF r[3] < N.position THEN r[3] ELSE N.position
    OBVIOUS
  <2> HIDE DEF c, N, M, sold
  <2>4. NetTyped(M) /\ Good(c, M)
    BY <1>3, <1>4, <2>1, <2>2, <2>3, FlattenFilledGood
  <2> QED BY <1>2, <2>4, CleanNext DEF ExInv, M
<1>6. CASE ~(r[3] > 0 /\ position > 0)
  <2>1. /\ M.position = N.position /\ M.frames = N.frames
        /\ M.answers = Put(N.answers, r, "rejected") /\ M.book = N.book /\ M.snap = N.snap
    BY <1>1, <1>6, <1>9, NetFields, NextNetFields DEF Answer, Put
  <2>2. ~(r[3] > 0 /\ N.position > 0)
    BY <1>6, NetFields
  <2> HIDE DEF c, N, M
  <2>3. NetTyped(M) /\ Good(c, M)
    BY <1>3, <1>4, <2>1, <2>2, FlattenRejectedGood
  <2> QED BY <1>2, <2>3, CleanNext DEF ExInv, M
<1> QED BY <1>5, <1>6

LEMMA PushStep ==
  ASSUME CleanNetwork, ExInv, PushPosition
  PROVE  ExInv'
<1> DEFINE c == Now
           N == Net
           M == Net'
<1>1. /\ position > 0 /\ frames' = Append(frames, [kind |-> "position", lots |-> position])
      /\ UNCHANGED <<vars, book, position, answers, history, snap, losses>>
  BY DEF PushPosition
<1>2. StepInv' /\ Now' = c
  BY <1>1, StillStep
<1>3. c \in Contexts /\ NetTyped(N) /\ Good(c, N)
  BY NowFacts
<1>4. /\ N.position > 0 /\ M.frames = Append(N.frames, [kind |-> "position", lots |-> N.position])
      /\ M.position = N.position /\ M.answers = N.answers /\ M.book = N.book /\ M.snap = N.snap
  BY <1>1, NetFields, NextNetFields
<1> HIDE DEF c, N, M
<1>5. NetTyped(M) /\ Good(c, M)
  BY <1>3, <1>4, PushGood
<1> QED BY <1>2, <1>5, CleanNext DEF ExInv, M

-----------------------------------------------------------------------------
(* Deliveries *)

\* What the handler of an update reads of a frame.
UpdateOf(u) == [oid |-> u.oid, status |-> u.status, filled |-> u.filled, left |-> u.left]

LEMMA UpdateRead ==
  ASSUME NEW u \in Frames, u.kind = "update", NEW c
  PROVE  UpdateOf(u) \in Updates /\ OrderUpdate(c, UpdateOf(u)) = OrderUpdate(c, u)
<1>1. IsOpen(u) \/ IsEnd(u)
  BY DEF IsOpen, IsEnd
<1>2. /\ u.oid \in Oids /\ u.oid # NoOid /\ u.filled \in Lots /\ u.left \in Lots
      /\ u.filled + u.left = Size /\ u.status \in {"open", "filled", "canceled"}
      /\ u.status = "filled" => u.left = 0
  BY <1>1, UpdateFields
<1>3. u.status = "filled" => u.filled > 0
  BY <1>2, SizeAssumption DEF Lots
<1>4. UpdateOf(u) \in Updates
  BY <1>2, <1>3 DEF UpdateOf, Updates
<1>5. /\ UpdateOf(u).oid = u.oid /\ UpdateOf(u).status = u.status
      /\ UpdateOf(u).filled = u.filled /\ UpdateOf(u).left = u.left
  BY DEF UpdateOf
<1> DEFINE w == UpdateOf(u)
<1>6. /\ w.oid = u.oid /\ w.status = u.status /\ w.filled = u.filled /\ w.left = u.left
  BY <1>5
<1> HIDE DEF w
<1>7. OrderUpdate(c, w) = OrderUpdate(c, u)
  BY <1>6 DEF OrderUpdate, OrderOpen, OrderDone, OrderCancelled
<1> QED BY <1>4, <1>7 DEF w

\* The subscriptions keep their common order: the first frame is handed over.
LEMMA DeliversFirst ==
  ASSUME CleanNetwork, ExInv, NEW kind, NEW i \in Deliverable(kind)
  PROVE  i = 1 /\ 1 \in DOMAIN frames /\ frames[1].kind = kind
<1>1. InOrder
  BY DEF CleanNetwork
<1>2. frames \in Seq(Frames)
  BY NowFacts, NetFields DEF NetTyped
<1>3. DOMAIN frames = 1 .. Len(frames) /\ Len(frames) \in Nat
  BY <1>2
<1>4. /\ i \in 1 .. Len(frames) /\ frames[i].kind = kind
      /\ \A j \in 1 .. i - 1 : ~InOrder
  BY DEF Deliverable
<1>5. ~(1 \in 1 .. i - 1)
  BY <1>1, <1>4
<1>6. i = 1
  BY <1>3, <1>4, <1>5
<1> QED BY <1>3, <1>4, <1>6

LEMMA AnswerStep ==
  ASSUME CleanNetwork, ExInv, DeliverAnswer
  PROVE  ExInv'
<1> DEFINE c == Now
           N == Net
           M == Net'
<1>1. PICK r \in DOMAIN answers, fuel \in Fuel :
        /\ Become(PostResponse(Frame(fuel), r, answers[r]))
        /\ answers' = Forget(r)
        /\ UNCHANGED <<book, position, frames, history, snap, losses>>
  BY DEF DeliverAnswer
<1>2. /\ c \in Contexts /\ Unlimited(c) /\ Own(c) /\ ~c.err /\ NetTyped(N) /\ Good(c, N)
      /\ Common(c, N) /\ Frame(fuel) = c
  <2>1. fuel = RecordLimit
    BY <1>1, NowFacts
  <2> QED BY <2>1, NowFacts
<1>3. Replied(r, N, M)
  BY <1>1, NetFields, NextNetFields DEF Replied, Forget
<1>4. r \in wire /\ answers[r] \in {"resting", "filled", "rejected", "error"}
  BY <1>1, <1>2, NowFields, NetFields DEF Common, NetTyped
<1>5. StepInv'
  <2>1. PostFrame
    BY <1>1, <1>4 DEF PostFrame
  <2> QED BY <2>1, StepInvStep DEF ExInv, Next
<1> DEFINE d == PostResponse(c, r, N.answers[r])
<1>6. Become(d)
  BY <1>1, <1>2, NetFields
<1>7. NetTyped(M)
  <2> HIDE DEF c, N, M
  <2>1. \A x \in DOMAIN M.answers : M.answers[x] = N.answers[x] /\ x \in DOMAIN N.answers
    BY <1>3 DEF Replied
  <2> QED BY <1>2, <1>3, <2>1 DEF Replied, NetTyped
<1> HIDE DEF c, N, M
<1>8. Good(d, M)
  BY <1>2, <1>3, ReplyGood
<1> HIDE DEF d
<1>9. CleanInv'
  BY <1>6, <1>7, <1>8, BecomeNext DEF M
<1> QED BY <1>5, <1>9 DEF ExInv

LEMMA UpdateStep ==
  ASSUME CleanNetwork, ExInv, DeliverUpdate
  PROVE  ExInv'
<1> DEFINE c == Now
           N == Net
           M == Net'
<1>1. PICK i \in Deliverable("update"), fuel \in Fuel :
        /\ Become(OrderUpdate(Frame(fuel), frames[i]))
        /\ frames' = RemoveAt(frames, i)
        /\ UNCHANGED <<book, position, answers, history, snap, losses>>
  BY DEF DeliverUpdate
<1>2. /\ c \in Contexts /\ Unlimited(c) /\ Own(c) /\ ~c.err /\ NetTyped(N) /\ Good(c, N)
      /\ Frame(fuel) = c /\ RecordLimit \in Fuel
  <2>1. fuel = RecordLimit
    BY <1>1, NowFacts
  <2> QED BY <2>1, NowFacts
<1>3. i = 1 /\ 1 \in DOMAIN frames /\ frames[1].kind = "update"
  BY <1>1, DeliversFirst
<1>4. Delivered(N, M) /\ N.frames[1].kind = "update" /\ N.frames[1] = frames[i]
  BY <1>1, <1>3, NetFields, NextNetFields DEF Delivered
<1> DEFINE d == OrderUpdate(c, N.frames[1])
<1>5. Become(d)
  BY <1>1, <1>2, <1>4
<1> HIDE DEF c, N, M
<1>6. NetTyped(M) /\ N.frames[1] \in Frames
  BY <1>2, <1>4, DeliveredFrames
<1>7. d \in Contexts /\ Permitted(c, d)
  <2>1. UpdateOf(N.frames[1]) \in Updates /\ OrderUpdate(c, UpdateOf(N.frames[1])) = d
    BY <1>4, <1>6, UpdateRead
  <2> DEFINE u == UpdateOf(N.frames[1])
  <2> HIDE DEF d, u
  <2>2. d \in Contexts /\ Evolves(c, d)
    BY <1>2, <2>1, OrderUpdateContext, OrderUpdateEvolves DEF u
  <2> QED BY <2>2, ReactsPermitted DEF Evolves
<1>8. Good(d, M)
  BY <1>2, <1>4, UpdateGood
<1> HIDE DEF d
<1> QED BY <1>2, <1>5, <1>6, <1>7, <1>8, BecomeStep DEF c, M

LEMMA FillStep ==
  ASSUME CleanNetwork, ExInv, DeliverFill
  PROVE  ExInv'
<1> DEFINE c == Now
           N == Net
           M == Net'
<1>1. PICK i \in Deliverable("fill"), fuel \in Fuel, send \in Sends :
        /\ Become(UserFill(Frame(fuel), frames[i], send))
        /\ frames' = RemoveAt(frames, i)
        /\ UNCHANGED <<book, position, answers, history, snap, losses>>
  BY DEF DeliverFill
<1>2. /\ c \in Contexts /\ Unlimited(c) /\ Own(c) /\ ~c.err /\ NetTyped(N) /\ Good(c, N)
      /\ Frame(fuel) = c /\ RecordLimit \in Fuel /\ send \in BOOLEAN /\ send
  <2>1. fuel = RecordLimit /\ send \in {TRUE}
    BY <1>1, NowFacts
  <2> QED BY <2>1, NowFacts
<1>3. i = 1 /\ 1 \in DOMAIN frames /\ frames[1].kind = "fill"
  BY <1>1, DeliversFirst
<1>4. Delivered(N, M) /\ IsFill(N.frames[1]) /\ N.frames[1] = frames[i]
  BY <1>1, <1>3, NetFields, NextNetFields DEF Delivered, IsFill
<1> DEFINE f == N.frames[1]
           d == UserFill(c, f, send)
<1>5. Become(d)
  BY <1>1, <1>2, <1>4
<1> HIDE DEF c, N, M
<1>6. NetTyped(M) /\ f \in Frames
  BY <1>2, <1>4, DeliveredFrames
<1>7. Good(d, M)
  BY <1>2, <1>4, FillGood
<1> HIDE DEF f
<1>8. d \in Contexts /\ Permitted(c, d)
  <2> DEFINE g == FillOf(f)
  <2>1. IsFill(f)
    BY <1>4 DEF f
  <2>2. g \in Fills /\ UserFill(c, g, send) = d
    BY <1>6, <2>1, FillRead
  <2>3. g.oid # NoOid
    BY <1>6, <2>1, FillFields DEF FillOf
  <2> HIDE DEF d, g
  <2>4. d \in Contexts /\ Reacts(c, d)
    BY <1>2, <2>2, <2>3, UserFillContext, UserFillReacts
  <2> QED BY <2>4, ReactsPermitted
<1> HIDE DEF d
<1> QED BY <1>2, <1>5, <1>6, <1>7, <1>8, BecomeStep DEF c, M

LEMMA PositionStep ==
  ASSUME CleanNetwork, ExInv, DeliverPosition
  PROVE  ExInv'
<1> DEFINE c == Now
           N == Net
           M == Net'
<1>1. PICK i \in Deliverable("position"), fuel \in Fuel :
        /\ Become(Clearinghouse(Frame(fuel), frames[i].lots))
        /\ frames' = RemoveAt(frames, i)
        /\ UNCHANGED <<book, position, answers, history, snap, losses>>
  BY DEF DeliverPosition
<1>2. /\ c \in Contexts /\ Unlimited(c) /\ Own(c) /\ ~c.err /\ NetTyped(N) /\ Good(c, N)
      /\ Frame(fuel) = c /\ RecordLimit \in Fuel
  <2>1. fuel = RecordLimit
    BY <1>1, NowFacts
  <2> QED BY <2>1, NowFacts
<1>3. i = 1 /\ 1 \in DOMAIN frames /\ frames[1].kind = "position"
  BY <1>1, DeliversFirst
<1>4. Delivered(N, M) /\ IsPosition(N.frames[1]) /\ N.frames[1] = frames[i]
  BY <1>1, <1>3, NetFields, NextNetFields DEF Delivered, IsPosition
<1> DEFINE lots == N.frames[1].lots
           d == Clearinghouse(c, lots)
<1>5. Become(d)
  BY <1>1, <1>2, <1>4
<1> HIDE DEF c, N, M
<1>6. NetTyped(M) /\ lots \in Nat
  BY <1>2, <1>4, DeliveredFrames, PositionFields
<1>7. Good(d, M)
  BY <1>2, <1>4, PositionGood
<1> HIDE DEF lots
<1>8. d \in Contexts /\ Permitted(c, d)
  <2> HIDE DEF d
  <2>1. lots \in Int
    BY <1>6
  <2>2. d \in Contexts /\ Reacts(c, d)
    BY <1>2, <2>1, ClearinghouseContext, ClearinghouseReacts DEF d
  <2> QED BY <2>2, ReactsPermitted
<1> HIDE DEF d
<1> QED BY <1>2, <1>5, <1>6, <1>7, <1>8, BecomeStep DEF c, M

-----------------------------------------------------------------------------
(* The REST worker and the clock *)

LEMMA TakeStep ==
  ASSUME CleanNetwork, ExInv, TakeRequest
  PROVE  ExInv'
<1> DEFINE c == Now
           d == Now'
           N == Net
           M == Net'
<1>1. RestTake /\ UNCHANGED exVars
  BY DEF TakeRequest
<1>2. StepInv'
  BY <1>1, StepInvStep DEF ExInv, Next, Internal
<1>3. c \in Contexts /\ NetTyped(N) /\ Good(c, N)
  BY NowFacts
<1>4. M = N
  BY <1>1 DEF Net, exVars
<1>5. Inv
  BY DEF ExInv, StepInv
<1>6. /\ c.rest.worker = "idle" /\ c.rest.queued /\ d.rest.worker = "reading"
      /\ Same(c, d)
  <2>1. /\ rest.worker = "idle" /\ rest.queued /\ rest'.worker = "reading"
        /\ UNCHANGED <<probe, account, markouts, seen, cooling, shutdown, wire, issued, writerUp>>
    BY <1>1, <1>5 DEF RestTake, Inv, TypeOK, RestRecords
  <2> QED BY <2>1, NowFields, NextFields DEF Same
<1> HIDE DEF c, d, N, M
<1>7. NetTyped(M) /\ Good(d, M)
  BY <1>3, <1>4, <1>6, TakeGood
<1> QED BY <1>2, <1>7, CleanNext DEF ExInv, d, M

SnapShape == snap = [got |-> snap.got, inv |-> snap.inv, orders |-> snap.orders]

LEMMA ReadOrdersStep ==
  ASSUME CleanNetwork, ExInv, SnapShape, ReadOrders
  PROVE  ExInv'
<1> DEFINE c == Now
           N == Net
           M == Net'
<1>1. /\ rest.worker = "reading"
      /\ snap' = [snap EXCEPT !.got = @ \cup {"orders"}, !.orders = LiveOids]
      /\ UNCHANGED <<vars, book, position, answers, frames, history, losses>>
  BY DEF ReadOrders
<1>2. StepInv' /\ Now' = c
  BY <1>1, StillStep
<1>3. c \in Contexts /\ NetTyped(N) /\ Good(c, N)
  BY NowFacts
<1>4. /\ snap'.got = snap.got \cup {"orders"} /\ snap'.inv = snap.inv
      /\ snap'.orders = LiveOids
  BY <1>1 DEF SnapShape
<1>5. /\ c.rest.worker = "reading" /\ M.book = N.book /\ M.position = N.position
      /\ M.answers = N.answers /\ M.frames = N.frames
      /\ M.snap.got = N.snap.got \cup {"orders"} /\ M.snap.inv = N.snap.inv
      /\ M.snap.orders \subseteq DOMAIN N.book
  BY <1>1, <1>4, NowFields, NetFields, NextNetFields DEF LiveOids
<1> HIDE DEF c, N, M
<1>6. NetTyped(M) /\ Good(c, M)
  BY <1>3, <1>5, ReadOrdersGood
<1> QED BY <1>2, <1>6, CleanNext DEF ExInv, M

LEMMA ReadPositionsStep ==
  ASSUME CleanNetwork, ExInv, SnapShape, ReadPositions
  PROVE  ExInv'
<1> DEFINE c == Now
           N == Net
           M == Net'
<1>1. /\ rest.worker = "reading"
      /\ snap' = [snap EXCEPT !.got = @ \cup {"positions"}, !.inv = position]
      /\ UNCHANGED <<vars, book, position, answers, frames, history, losses>>
  BY DEF ReadPositions
<1>2. StepInv' /\ Now' = c
  BY <1>1, StillStep
<1>3. c \in Contexts /\ NetTyped(N) /\ Good(c, N)
  BY NowFacts
<1>4. snap'.inv = position /\ snap'.orders = snap.orders
  BY <1>1 DEF SnapShape
<1>5. /\ c.rest.worker = "reading" /\ M.book = N.book /\ M.position = N.position
      /\ M.answers = N.answers /\ M.frames = N.frames
      /\ M.snap.inv = N.position /\ M.snap.orders = N.snap.orders
  BY <1>1, <1>4, NowFields, NetFields, NextNetFields
<1> HIDE DEF c, N, M
<1>6. NetTyped(M) /\ Good(c, M)
  BY <1>3, <1>5, ReadPositionsGood
<1> QED BY <1>2, <1>6, CleanNext DEF ExInv, M

LEMMA PublishStep ==
  ASSUME CleanNetwork, ExInv, Publish
  PROVE  ExInv'
<1> DEFINE c == Now
           d == Now'
           N == Net
           M == Net'
<1>1. RestPublish /\ UNCHANGED <<book, position, answers, frames, history, snap>>
  BY DEF Publish
<1>2. StepInv'
  BY <1>1, StepInvStep DEF ExInv, Next
<1>3. c \in Contexts /\ NetTyped(N) /\ Good(c, N) /\ Common(c, N) /\ Fuel = {RecordLimit}
  BY NowFacts
<1>4. M = N
  BY <1>1 DEF Net
<1>5. rest \in RestRecords
  BY DEF ExInv, StepInv, Inv, TypeOK
<1>6. PICK fuel \in Fuel :
        /\ rest' = IF fuel = 0 THEN [rest EXCEPT !.worker = "gone"]
                   ELSE [rest EXCEPT !.worker = "idle", !.unread = TRUE]
        /\ writerUp' = (writerUp /\ fuel > 0)
  BY <1>1 DEF RestPublish
<1>7. fuel # 0 /\ fuel > 0
  BY <1>3, <1>6 DEF RecordLimit
<1>8. writerUp
  BY <1>3, NowFields DEF Common
<1>9. rest'.worker = "idle" /\ rest'.unread /\ rest'.stale = rest.stale /\ writerUp' = writerUp
  <2>1. rest' = [rest EXCEPT !.worker = "idle", !.unread = TRUE]
    BY <1>6, <1>7
  <2>2. writerUp' = TRUE /\ writerUp = TRUE
    BY <1>6, <1>7, <1>8 DEF ExInv, StepInv, Inv, TypeOK
  <2> QED BY <1>5, <2>1, <2>2 DEF RestRecords
<1>10. Same(c, d) /\ d.rest.worker = "idle" /\ d.rest.unread /\ d.rest.stale = c.rest.stale
  <2>1. UNCHANGED <<probe, account, markouts, seen, cooling, shutdown, wire, issued>>
    BY <1>1 DEF RestPublish
  <2> QED BY <1>9, <2>1, NowFields, NextFields DEF Same
<1> HIDE DEF c, d, N, M
<1>11. NetTyped(M) /\ Good(d, M)
  BY <1>3, <1>4, <1>10, PublishGood
<1> QED BY <1>2, <1>11, CleanNext DEF ExInv, d, M

\* A deadline passes only when nothing is on its way.
LEMMA ElapseStep ==
  ASSUME CleanNetwork, ExInv, ExElapse
  PROVE  ExInv'
<1> DEFINE c == Now
           d == Now'
           N == Net
           M == Net'
<1>1. Elapse /\ UNCHANGED exVars /\ (probe.phase \in {"Resting", "Partial"} \/ Quiet)
  BY DEF ExElapse
<1>2. StepInv'
  BY <1>1, StepInvStep DEF ExInv, Next, Internal
<1>3. c \in Contexts /\ NetTyped(N) /\ Good(c, N)
  BY NowFacts
<1>4. M = N
  BY <1>1 DEF Net, exVars
<1>5. Waiting(c.probe) /\ c.probe.phase # "Absent"
  BY <1>1, NowFields DEF Elapse, Waiting
<1>6. c.probe.phase \in {"Resting", "Partial"} \/ (c.wire = {} /\ N.frames = <<>>)
  BY <1>1, NowFields, NetFields DEF Quiet, CleanNetwork
<1>7. /\ Apart(c, d) /\ d.cooling = c.cooling /\ d.wire = c.wire /\ d.markouts = c.markouts
      /\ d.probe = [c.probe EXCEPT !.late = TRUE]
  BY <1>1, NowFields, NextFields DEF Elapse, Apart
<1> HIDE DEF c, d, N, M
<1>8. NetTyped(M) /\ Good(d, M)
  BY <1>3, <1>4, <1>5, <1>6, <1>7, ElapseGood
<1> QED BY <1>2, <1>8, CleanNext DEF ExInv, d, M

LEMMA CoolStep ==
  ASSUME CleanNetwork, ExInv, CoolDown, Quiet, UNCHANGED exVars
  PROVE  ExInv'
<1> DEFINE c == Now
           d == Now'
           N == Net
           M == Net'
<1>1. StepInv'
  BY StepInvStep DEF ExInv, Next, Internal
<1>2. c \in Contexts /\ NetTyped(N) /\ Good(c, N)
  BY NowFacts
<1>3. M = N
  BY DEF Net, exVars
<1>4. c.wire = {} /\ N.frames = <<>>
  BY NowFields, NetFields DEF Quiet, CleanNetwork
<1>5. /\ Apart(c, d) /\ d.wire = c.wire /\ d.markouts = c.markouts /\ d.probe = c.probe
  BY NowFields, NextFields DEF CoolDown, Apart
<1> HIDE DEF c, d, N, M
<1>6. NetTyped(M) /\ Good(d, M)
  BY <1>2, <1>3, <1>4, <1>5, CoolGood
<1> QED BY <1>1, <1>6, CleanNext DEF ExInv, d, M

\* Every fill of an early probe is followed by a cancel: with nothing on its way
\* none has come.
LEMMA QuietProbe ==
  ASSUME NEW c \in Contexts, NEW N, Good(c, N), c.wire = {}, N.frames = <<>>
  PROVE  NoLive(N) \/ (Active(c) /\ Early(c, N) /\ c.probe.cum = 0)
<1>1. CASE Active(c) /\ Early(c, N)
  <2>1. c.probe.cum \in Nat
    BY ContextParts DEF ProbeRecords
  <2>2. ~Ended(N.frames)
    BY DEF Ended
  <2>3. ~(c.probe.cum > 0)
    BY <1>1, <2>2 DEF Early, Follow
  <2> QED BY <1>1, <2>1, <2>3
<1>2. CASE ~(Active(c) /\ Early(c, N))
  BY <1>2 DEF Good, Spent, Placed, Settling, Idle, Over
<1> QED BY <1>1, <1>2

LEMMA TickTyped ==
  ASSUME ExInv, NEW ripe \in SUBSET MarkoutRecords, NEW s, s = Published \/ s = NoSnapshot,
         NEW t \in Ticks({s}, ripe), t.found \in SeenOpen(probe, t.latest.orders)
  PROVE  t \in TickRecords /\ t.latest = s /\ t.send \in Sends /\ t.due \subseteq ripe
<1>1. NoSnapshot \in [healthy : BOOLEAN, inv : Int, orders : SUBSET Oids]
  BY DEF NoSnapshot
<1>2. snap.inv \in Int /\ snap.orders \in SUBSET Oids
  <2>1. NetTyped(Net)
    BY DEF ExInv, CleanInv
  <2>2. Net.snap.inv \in Lots /\ Net.snap.orders \in SUBSET Oids
    BY <2>1 DEF NetTyped
  <2>3. snap.inv \in Lots /\ snap.orders \in SUBSET Oids
    BY <2>2, NetFields
  <2> QED BY <2>3, SizeAssumption DEF Lots
<1>3. Published \in [healthy : BOOLEAN, inv : Int, orders : SUBSET Oids]
  <2>1. [healthy |-> TRUE, inv |-> snap.inv, orders |-> snap.orders]
          \in [healthy : BOOLEAN, inv : Int, orders : SUBSET Oids]
    BY <1>2
  <2> QED BY <1>1, <2>1 DEF Published
<1>4. {s} \in SUBSET [healthy : BOOLEAN, inv : Int, orders : SUBSET Oids]
  BY <1>1, <1>3
<1>5. t \in TickRecords
  BY <1>4, TicksTyped DEF ExInv, StepInv
<1>6. t.latest = s /\ t.send \in Sends /\ t.due \subseteq ripe
  BY DEF Ticks
<1> QED BY <1>5, <1>6

LEMMA TimerStep ==
  ASSUME CleanNetwork, ExInv, ExTimer
  PROVE  ExInv'
<1> DEFINE c == Now
           N == Net
           M == Net'
           s == IF rest.unread THEN Published ELSE NoSnapshot
           ripe == IF Quiet THEN markouts ELSE {}
<1>1. TimerTick({s}, ripe) /\ TakenOver
  BY DEF ExTimer
<1>2. PICK t \in Ticks({s}, ripe), fuel \in Fuel :
        t.found \in SeenOpen(probe, t.latest.orders) /\ Become(Timer(Self(fuel), t))
  BY <1>1 DEF TimerTick
<1>3. /\ c \in Contexts /\ Unlimited(c) /\ Own(c) /\ ~c.err /\ NetTyped(N) /\ Good(c, N)
      /\ Common(c, N) /\ Sends = {TRUE} /\ RecordLimit \in Fuel /\ Self(fuel) = c
  <2>1. fuel = RecordLimit
    BY <1>2, NowFacts
  <2> QED BY <2>1, NowFacts DEF Now
<1>4. t \in TickRecords /\ t.latest = s /\ t.send \in Sends /\ t.due \subseteq ripe
  <2>1. markouts \in SUBSET MarkoutRecords
    BY DEF ExInv, StepInv, Inv, TypeOK
  <2>2. ripe \in SUBSET MarkoutRecords /\ (s = Published \/ s = NoSnapshot)
    BY <2>1
  <2> HIDE DEF s, ripe
  <2> QED BY <1>2, <2>2, TickTyped
<1>5. t.send
  BY <1>3, <1>4
<1>6. Listed(c, t)
  BY <1>2, NowFields DEF Listed
<1>7. t.due = {} \/ (c.wire = {} /\ N.frames = <<>>)
  BY <1>4, NowFields, NetFields DEF Quiet, CleanNetwork
<1> DEFINE r == RefreshAccount(c, t)
           d == Timer(c, t)
<1>8. Become(d)
  BY <1>2, <1>3
<1>9. /\ M.book = N.book /\ M.position = N.position /\ M.answers = N.answers
      /\ M.frames = N.frames /\ M.snap = IF c.rest.unread THEN NoRead ELSE N.snap
  BY <1>1, NowFields, NetFields, NextNetFields DEF TakenOver
<1>10. c.rest.unread => t.latest = Shown(N)
  BY <1>4, NowFields, NetFields DEF Published, Shown
<1>11. ~c.shutdown.signal
  BY <1>3 DEF Common
<1> HIDE DEF c, N, M, s, ripe
<1>12. NetTyped(M)
  BY <1>3, <1>9, LotsNat DEF NetTyped, NoRead
<1>13. Good(r, M) /\ r.fuel = c.fuel /\ (Active(c) /\ Early(c, N) => r.probe = c.probe)
  <2>1. CASE c.rest.unread
    <3>1. M.snap = NoRead
      BY <1>9, <2>1
    <3> QED BY <1>3, <1>4, <1>5, <1>9, <1>10, <2>1, <3>1, RefreshGood
  <2>2. CASE ~c.rest.unread
    <3>1. r = c
      BY <2>2 DEF RefreshAccount
    <3>2. Unread(c, N, c, M) /\ Common(c, M)
      BY <1>3, <1>9, <2>2 DEF Unread, Counted, Common
    <3>3. Good(c, M)
      BY <1>3, <3>2, UnreadGood
    <3> QED BY <3>1, <3>3
  <2> QED BY <2>1, <2>2
<1>14. t.due = {} \/ (M.frames = <<>> /\ (NoLive(M) \/ r.probe.cum = 0))
  <2>1. c.wire = {} /\ N.frames = <<>> =>
          NoLive(N) \/ (Active(c) /\ Early(c, N) /\ c.probe.cum = 0)
    BY <1>3, QuietProbe
  <2> HIDE DEF r
  <2> QED BY <1>7, <1>9, <1>13, <2>1 DEF NoLive
<1>15. MaxInventory >= 2 * Size
  BY DEF CleanNetwork
<1>16. Good(d, M)
  BY <1>3, <1>4, <1>5, <1>6, <1>11, <1>12, <1>13, <1>14, <1>15, TimerGood
<1>17. d \in Contexts /\ Permitted(c, d)
  BY <1>3, <1>4, <1>6, TimerContext, TimerPermitted
<1> HIDE DEF d, r
<1> QED BY <1>3, <1>8, <1>12, <1>16, <1>17, BecomeStep DEF c, M

-----------------------------------------------------------------------------
(* The invariant *)

NetInv == ExInv /\ SnapShape

LEMMA InvInitially == ExInit => NetInv
<1> SUFFICES ASSUME ExInit PROVE NetInv
  OBVIOUS
<1> DEFINE c == Now
           N == Net
<1>1. /\ Init /\ book = <<>> /\ position = 0 /\ answers = <<>> /\ frames = <<>> /\ snap = NoRead
  BY DEF ExInit
<1>2. StepInv /\ SnapShape
  BY <1>1, StepInvInit DEF SnapShape, NoRead
<1>3. NetTyped(N)
  BY <1>1, NetFields, LotsNat DEF NetTyped, NoRead
<1>4. /\ N.position = 0 /\ DOMAIN N.book = {} /\ DOMAIN N.answers = {} /\ N.frames = <<>>
      /\ N.snap.got = {} /\ c.wire = {} /\ c.markouts = {} /\ c.seen = {} /\ c.writerUp
      /\ ~c.shutdown.signal /\ c.rest.worker # "gone" /\ c.probe.phase = "Absent"
  BY <1>1, NowFields, NetFields DEF Init, NoProbe, NoRead
<1> HIDE DEF c, N
<1>5. Common(c, N)
  BY <1>4 DEF Common
<1>6. Idle(c, N)
  BY <1>4 DEF Idle, Over, NoLive, NoPlace, ReadZero, Counted
<1>7. Good(c, N)
  BY <1>4, <1>5, <1>6 DEF Good, Active
<1> QED BY <1>2, <1>3, <1>7 DEF NetInv, ExInv, CleanInv, c, N, Now

LEMMA InvStays == ASSUME NetInv, UNCHANGED allVars PROVE NetInv'
<1>1. StepInv' /\ Now' = Now /\ Net' = Net /\ snap' = snap
  BY StillStep DEF NetInv, allVars, exVars, Net
<1>2. NetTyped(Net') /\ Good(Now', Net') /\ SnapShape'
  BY <1>1 DEF NetInv, ExInv, CleanInv, Now, SnapShape
<1> QED BY <1>1, <1>2, CleanNext DEF NetInv, ExInv

LEMMA ShapeStep ==
  ASSUME SnapShape, ExNext
  PROVE  SnapShape'
<1>1. \/ UNCHANGED snap
      \/ snap' = NoRead
      \/ snap' = [snap EXCEPT !.got = snap.got \cup {"orders"}, !.orders = LiveOids]
      \/ snap' = [snap EXCEPT !.got = snap.got \cup {"positions"}, !.inv = position]
  BY DEF ExNext, AcceptPlace, RejectPlace, ProcessCancel, Trade, ProcessFlatten, FallShort,
         Sell, PushPosition, DeliverAnswer, DeliverUpdate, DeliverFill, DeliverPosition,
         FeedLost, ActionLost, TakeRequest, ReadOrders, ReadPositions, Publish, ExTimer, TakenOver, ExElapse, exVars
<1> QED BY <1>1 DEF SnapShape, NoRead

LEMMA InvNext ==
  ASSUME CleanNetwork, NetInv, ExNext
  PROVE  NetInv'
<1>1. ExInv /\ SnapShape
  BY DEF NetInv
<1>2. ExInv'
  <2>1. CASE AcceptPlace    BY <1>1, <2>1, AcceptStep
  <2>2. CASE RejectPlace    BY <1>1, <2>2, RejectStep
  <2>3. CASE ProcessCancel  BY <1>1, <2>3, CancelStep
  <2>4. CASE Trade          BY <1>1, <2>4, TradeStep
  <2>5. CASE ProcessFlatten BY <1>1, <2>5, FlattenStep
  <2>6. CASE PushPosition   BY <1>1, <2>6, PushStep
  <2>7. CASE DeliverAnswer  BY <1>1, <2>7, AnswerStep
  <2>8. CASE DeliverUpdate  BY <1>1, <2>8, UpdateStep
  <2>9. CASE DeliverFill    BY <1>1, <2>9, FillStep
  <2>10. CASE DeliverPosition BY <1>1, <2>10, PositionStep
  <2>11. CASE FeedLost \/ ActionLost \/ FallShort
    BY <2>11 DEF FeedLost, ActionLost, FallShort, Reconnect, RequestLost, CleanNetwork
  <2>12. CASE TakeRequest   BY <1>1, <2>12, TakeStep
  <2>13. CASE ReadOrders    BY <1>1, <2>13, ReadOrdersStep
  <2>14. CASE ReadPositions BY <1>1, <2>14, ReadPositionsStep
  <2>15. CASE Publish       BY <1>1, <2>15, PublishStep
  <2>16. CASE ExTimer       BY <1>1, <2>16, TimerStep
  <2>17. CASE ExElapse      BY <1>1, <2>17, ElapseStep
  <2>18. CASE CoolDown /\ Quiet /\ UNCHANGED exVars
    BY <1>1, <2>18, CoolStep
  <2>19. CASE Signal
    BY <2>19 DEF Signal, CleanNetwork
  <2> QED BY <2>1, <2>2, <2>3, <2>4, <2>5, <2>6, <2>7, <2>8, <2>9, <2>10, <2>11, <2>12,
             <2>13, <2>14, <2>15, <2>16, <2>17, <2>18, <2>19 DEF ExNext
<1> QED BY <1>1, <1>2, ShapeStep DEF NetInv

LEMMA InvClean ==
  ASSUME NetInv
  PROVE  FinishedIsClean
<1> SUFFICES ASSUME probe.phase = "Absent" PROVE CleanSlate
  BY DEF FinishedIsClean
<1> DEFINE c == Now
           N == Net
<1>1. Good(c, N) /\ ~Active(c)
  BY NowFields DEF NetInv, ExInv, CleanInv, Now, Active
<1>2. Over(c, N)
  BY <1>1 DEF Good, Idle
<1>3. LiveOids = {} /\ position = 0
  BY <1>2, NetFields DEF Over, NoLive, LiveOids
<1>4. Pending("place") = {}
  BY <1>2, NowFields, NetFields DEF Over, NoPlace, Pending
<1> QED BY <1>3, <1>4 DEF CleanSlate

\* While no fault happens, nothing on its way outlasts a deadline and the private
\* frames keep their order, a probe that has ended (FinishedIsClean: its finish in
\* finish_probe, from a rejection, a confirmed cancel, a flatten or a snapshot) has
\* left no live order, no order on its way and no position at the exchange,
\* whatever the order size, the trades, the snapshots and the number of probes.
THEOREM EndsClean == CleanNetwork => (ExSpec => []FinishedIsClean)
<1> SUFFICES ASSUME CleanNetwork PROVE ExSpec => []FinishedIsClean
  OBVIOUS
<1>1. ExInit => NetInv
  BY InvInitially
<1>2. NetInv /\ [ExNext]_allVars => NetInv'
  BY InvNext, InvStays
<1>3. NetInv => FinishedIsClean
  BY InvClean
<1> QED BY <1>1, <1>2, <1>3, PTL DEF ExSpec

-----------------------------------------------------------------------------
(* Lots at risk *)

OnBook(N) == {lot \in {o \in DOMAIN N.book : N.book[o] > 0} \X (1 .. Size) :
                lot[2] <= N.book[lot[1]]}
Sent(c, N) == {r \in c.wire \ DOMAIN N.answers : r[1] = "place"}
AtStake(c, N) == Cardinality(OnBook(N)) + Size * Cardinality(Sent(c, N))

LEMMA AtStakeNow == LotsAtRisk = AtStake(Now, Net) /\ LotsAtRisk' = AtStake(Now', Net')
<1>1. LotsOnBook = OnBook(Net) /\ Pending("place") = Sent(Now, Net)
  BY NowFields, NetFields DEF LotsOnBook, LiveOids, OnBook, Sent, Pending
<1>2. LotsOnBook' = OnBook(Net') /\ Pending("place")' = Sent(Now', Net')
  BY NextFields, NextNetFields DEF LotsOnBook, LiveOids, OnBook, Sent, Pending
<1>3. LotsAtRisk = AtStake(Now, Net)
  BY <1>1 DEF LotsAtRisk, AtStake
<1>4. LotsAtRisk' = AtStake(Now', Net')
  BY <1>2 DEF LotsAtRisk, AtStake
<1> QED BY <1>3, <1>4

LEMMA NothingAtStake ==
  ASSUME NEW c, NEW N, NoLive(N), NoPlace(c, N)
  PROVE  AtStake(c, N) = 0
<1>1. OnBook(N) = {}
  BY DEF OnBook, NoLive
<1>2. Sent(c, N) = {}
  BY DEF Sent, NoPlace
<1> QED BY <1>1, <1>2, FS_EmptySet, SizeAssumption DEF AtStake

LEMMA PlaceAtStake ==
  ASSUME NEW c, NEW N, NoLive(N), NEW r, Sent(c, N) = {r}
  PROVE  AtStake(c, N) = Size
<1>1. OnBook(N) = {}
  BY DEF OnBook, NoLive
<1>2. Cardinality(Sent(c, N)) = 1
  BY FS_Singleton
<1> QED BY <1>1, <1>2, FS_EmptySet, SizeAssumption DEF AtStake

\* The lots of a live order, one by one.
LEMMA OrderAtStake ==
  ASSUME NEW c, NEW N, NoPlace(c, N), NEW o \in DOMAIN N.book, NEW left \in Nat,
         N.book[o] = left, 0 < left, left <= Size,
         \A x \in DOMAIN N.book : N.book[x] > 0 => x = o
  PROVE  AtStake(c, N) = left
<1> DEFINE one == [i \in 1 .. left |-> <<o, i>>]
<1>1. OnBook(N) = {<<o, i>> : i \in 1 .. left}
  <2>1. {x \in DOMAIN N.book : N.book[x] > 0} = {o}
    OBVIOUS
  <2>2. OnBook(N) = {lot \in {o} \X (1 .. Size) : lot[2] <= N.book[lot[1]]}
    BY <2>1 DEF OnBook
  <2>3. ASSUME NEW lot \in OnBook(N) PROVE lot \in {<<o, i>> : i \in 1 .. left}
    BY <2>2, <2>3, SizeAssumption
  <2>4. ASSUME NEW i \in 1 .. left PROVE <<o, i>> \in OnBook(N)
    BY <2>2, <2>4, SizeAssumption
  <2> QED BY <2>3, <2>4
<1>2. one \in Bijection(1 .. left, OnBook(N))
  <2>1. one \in [1 .. left -> OnBook(N)]
    BY <1>1
  <2>2. \A i, j \in 1 .. left : one[i] = one[j] => i = j
    OBVIOUS
  <2>3. \A lot \in OnBook(N) : \E i \in 1 .. left : one[i] = lot
    BY <1>1
  <2>4. DOMAIN one = 1 .. left
    OBVIOUS
  <2> HIDE DEF one
  <2>5. one \in Injection(1 .. left, OnBook(N))
    BY <2>1, <2>2, <2>4 DEF Injection, IsInjective
  <2>6. one \in Surjection(1 .. left, OnBook(N))
    BY <2>1, <2>3 DEF Surjection
  <2> QED BY <2>5, <2>6 DEF Bijection
<1>3. Cardinality(OnBook(N)) = left
  <2>1. IsFiniteSet(1 .. left) /\ Cardinality(1 .. left) = left
    BY FS_Interval
  <2>2. ExistsBijection(1 .. left, OnBook(N))
    BY <1>2 DEF ExistsBijection
  <2> QED BY <2>1, <2>2, FS_Bijection
<1>4. Sent(c, N) = {}
  BY DEF Sent, NoPlace
<1> QED BY <1>3, <1>4, FS_EmptySet, SizeAssumption DEF AtStake

LEMMA SameAtStake ==
  ASSUME NEW c, NEW N, NEW d, NEW M, M.book = N.book, Sent(d, M) = Sent(c, N)
  PROVE  AtStake(d, M) = AtStake(c, N)
BY DEF AtStake, OnBook

\* What ProbeContract allows between two states, in their terms.
Promised(c, N, d, M) ==
  LET risk == AtStake(c, N)
      left == AtStake(d, M)
  IN \/ left = risk /\ M.position = N.position /\ (Active(d) <=> Active(c))
     \/ /\ ~Active(c) /\ Active(d) /\ risk = 0 /\ left = Size
        /\ N.position = 0 /\ M.position = N.position
     \/ /\ Active(c) /\ Active(d)
        /\ \/ \E lots \in 1 .. risk : left = risk - lots /\ M.position = N.position + lots
           \/ risk > 0 /\ left = 0 /\ M.position = N.position
           \/ \E lots \in 1 .. N.position : M.position = N.position - lots /\ left = risk
     \/ /\ Active(c) /\ ~Active(d) /\ risk = 0 /\ left = risk
        /\ N.position = 0 /\ M.position = N.position

LEMMA PromiseKept ==
  ASSUME Promised(Now, Net, Now', Net')
  PROVE  [AtRisk!ContractNext]_(AtRisk!contract)
<1> DEFINE c == Now
           d == Now'
           N == Net
           M == Net'
           risk == AtStake(c, N)
           left == AtStake(d, M)
<1>1. /\ LotsAtRisk = risk /\ LotsAtRisk' = left
      /\ position = N.position /\ position' = M.position
      /\ (probe.phase # "Absent") = Active(c) /\ (probe.phase # "Absent")' = Active(d)
  BY AtStakeNow, NowFields, NextFields, NetFields, NextNetFields DEF Active
<1>2. Promised(c, N, d, M)
  OBVIOUS
<1> HIDE DEF c, d, N, M
<1>3. CASE left = risk /\ M.position = N.position /\ (Active(d) <=> Active(c))
  BY <1>1, <1>3 DEF AtRisk!contract
<1>4. CASE /\ ~Active(c) /\ Active(d) /\ risk = 0 /\ left = Size
           /\ N.position = 0 /\ M.position = N.position
  BY <1>1, <1>4 DEF AtRisk!ContractNext, AtRisk!Start
<1>5. CASE Active(c) /\ Active(d) /\ \E lots \in 1 .. risk : left = risk - lots /\ M.position = N.position + lots
  BY <1>1, <1>5 DEF AtRisk!ContractNext, AtRisk!Buy
<1>6. CASE Active(c) /\ Active(d) /\ risk > 0 /\ left = 0 /\ M.position = N.position
  BY <1>1, <1>6 DEF AtRisk!ContractNext, AtRisk!Withdraw
<1>7. CASE Active(c) /\ Active(d) /\ \E lots \in 1 .. N.position : M.position = N.position - lots /\ left = risk
  BY <1>1, <1>7 DEF AtRisk!ContractNext, AtRisk!Sell
<1>8. CASE /\ Active(c) /\ ~Active(d) /\ risk = 0 /\ left = risk
           /\ N.position = 0 /\ M.position = N.position
  BY <1>1, <1>8 DEF AtRisk!ContractNext, AtRisk!Finish
<1> QED BY <1>2, <1>3, <1>4, <1>5, <1>6, <1>7, <1>8 DEF Promised

\* Between probes nothing is at stake.
LEMMA IdleAtStake ==
  ASSUME NEW c, NEW N, Good(c, N), ~Active(c)
  PROVE  AtStake(c, N) = 0 /\ N.position = 0 /\ Sent(c, N) = {}
<1>1. Over(c, N)
  BY DEF Good, Idle
<1> QED BY <1>1, NothingAtStake DEF Over, Sent, NoPlace

\* A step that moves no lot: a probe may end by it.
LEMMA MovesNothing ==
  ASSUME NEW c, NEW N, NEW d, NEW M, Good(d, M), M.book = N.book, M.position = N.position,
         Sent(d, M) = Sent(c, N), Active(d) => Active(c)
  PROVE  Promised(c, N, d, M)
<1>1. AtStake(d, M) = AtStake(c, N)
  BY SameAtStake
<1>2. CASE Active(d)
  BY <1>1, <1>2 DEF Promised
<1>3. CASE ~Active(d) /\ ~Active(c)
  BY <1>1, <1>3 DEF Promised
<1>4. CASE ~Active(d) /\ Active(c)
  <2>1. AtStake(d, M) = 0 /\ M.position = 0
    BY <1>4, IdleAtStake
  <2> QED BY <1>1, <1>4, <2>1 DEF Promised
<1> QED BY <1>2, <1>3, <1>4

LEMMA PlaceSent ==
  ASSUME NEW c, NEW N, Good(c, N), NEW r \in Sent(c, N)
  PROVE  /\ Active(c) /\ Placed(c, N) /\ r = <<"place", Maker(c.probe.id), Size>>
         /\ Sent(c, N) = {r} /\ AtStake(c, N) = Size /\ N.position = 0 /\ NoLive(N)
<1>1. Active(c) /\ Placed(c, N) /\ r = <<"place", Maker(c.probe.id), Size>>
  BY PlaceWaits DEF Sent
<1>2. Sent(c, N) = {r} /\ N.position = 0 /\ NoLive(N)
  BY <1>1 DEF Placed, Sent
<1> QED BY <1>1, <1>2, PlaceAtStake

\* A live order is all that is at stake.
LEMMA LiveAtStake ==
  ASSUME NEW c, NEW N, NetTyped(N), Good(c, N), NEW o \in DOMAIN N.book, N.book[o] > 0
  PROVE  /\ Active(c) /\ NoPlace(c, N) /\ N.book[o] \in Lots /\ N.book[o] \in Nat
         /\ N.book[o] <= Size
         /\ AtStake(c, N) = N.book[o] /\ N.position = Size - N.book[o]
         /\ \A x \in DOMAIN N.book : N.book[x] # 0 => x = o
<1>1. N.book[o] \in Lots /\ N.book[o] \in Nat /\ N.book[o] <= Size
  BY SizeAssumption DEF NetTyped, Lots
<1>2. Active(c) /\ Early(c, N) /\ o = Maker(c.probe.id) /\ N.position = Size - N.book[o]
  BY <1>1, LiveEarly
<1>3. NoPlace(c, N) /\ \A x \in DOMAIN N.book : N.book[x] > 0 => x = o
  BY <1>2 DEF Early, Bound
<1>4. \A x \in DOMAIN N.book : N.book[x] # 0 => N.book[x] > 0
  BY SizeAssumption DEF NetTyped, Lots
<1>5. AtStake(c, N) = N.book[o]
  BY <1>1, <1>3, OrderAtStake
<1> QED BY <1>1, <1>2, <1>3, <1>4, <1>5

LEMMA AcceptPromise ==
  ASSUME CleanNetwork, ExInv, AcceptPlace
  PROVE  Promised(Now, Net, Now', Net')
<1> DEFINE c == Now
           N == Net
           M == Net'
<1>1. PICK r \in Due("place") : /\ book' = SetBook(r[2], r[3])
                                    /\ answers' = Answer(r, "resting")
                                    /\ UNCHANGED <<vars, position, history, snap, losses>>
  BY DEF AcceptPlace
<1>2. Now' = c
  BY <1>1, StillStep
<1>3. NetTyped(N) /\ Good(c, N)
  BY NowFacts
<1>4. r \in Sent(c, N)
  BY <1>1, NowFields, NetFields DEF Due, Pending, Sent
<1>5. /\ M.book = Put(N.book, r[2], r[3]) /\ M.answers = Put(N.answers, r, "resting")
      /\ M.position = N.position
  BY <1>1, NetFields, NextNetFields DEF SetBook, Answer, Put
<1> HIDE DEF c, N, M
<1>6. /\ Active(c) /\ r[3] = Size /\ Sent(c, N) = {r} /\ AtStake(c, N) = Size /\ NoLive(N)
  BY <1>3, <1>4, PlaceSent
<1>7. NoPlace(c, M)
  BY <1>5, <1>6 DEF NoPlace, Sent, Put
<1>8. /\ r[2] \in DOMAIN M.book /\ M.book[r[2]] = Size
      /\ \A x \in DOMAIN M.book : M.book[x] > 0 => x = r[2]
  BY <1>5, <1>6 DEF Put, NoLive
<1>9. AtStake(c, M) = Size
  BY <1>7, <1>8, SizeAssumption, OrderAtStake
<1> QED BY <1>2, <1>5, <1>6, <1>9 DEF Promised, c, M, N

LEMMA RejectPromise ==
  ASSUME CleanNetwork, ExInv, RejectPlace
  PROVE  Promised(Now, Net, Now', Net')
<1> DEFINE c == Now
           N == Net
           M == Net'
<1>1. PICK r \in Due("place") : /\ book' = SetBook(r[2], 0)
                                    /\ answers' = Answer(r, "rejected")
                                    /\ UNCHANGED <<vars, position, frames, history, snap, losses>>
  BY DEF RejectPlace
<1>2. Now' = c
  BY <1>1, StillStep
<1>3. NetTyped(N) /\ Good(c, N)
  BY NowFacts
<1>4. r \in Sent(c, N)
  BY <1>1, NowFields, NetFields DEF Due, Pending, Sent
<1>5. /\ M.book = Put(N.book, r[2], 0) /\ M.answers = Put(N.answers, r, "rejected")
      /\ M.position = N.position
  BY <1>1, NetFields, NextNetFields DEF SetBook, Answer, Put
<1> HIDE DEF c, N, M
<1>6. /\ Active(c) /\ Sent(c, N) = {r} /\ AtStake(c, N) = Size /\ NoLive(N)
  BY <1>3, <1>4, PlaceSent
<1>7. NoPlace(c, M) /\ NoLive(M)
  BY <1>5, <1>6 DEF NoPlace, Sent, Put, NoLive
<1>8. AtStake(c, M) = 0
  BY <1>7, NothingAtStake
<1> QED BY <1>2, <1>5, <1>6, <1>8, SizeAssumption DEF Promised, c, M, N

LEMMA CancelPromise ==
  ASSUME CleanNetwork, ExInv, ExInv', ProcessCancel
  PROVE  Promised(Now, Net, Now', Net')
<1> DEFINE c == Now
           d == Now'
           N == Net
           M == Net'
<1>1. PICK r \in Due("cancel") :
        /\ IF Live(r[2]) THEN book' = SetBook(r[2], 0) ELSE UNCHANGED book
        /\ wire' = wire \ {r}
        /\ UNCHANGED <<probe, position, answers>>
  BY DEF ProcessCancel
<1>2. NetTyped(N) /\ Good(c, N)
  BY NowFacts
<1>3. Good(d, M)
  BY DEF ExInv, CleanInv, Now
<1>4. r[1] = "cancel" /\ d.wire = c.wire \ {r} /\ d.probe = c.probe
  BY <1>1, NowFields, NextFields DEF Due, Pending
<1>5. M.position = N.position /\ M.answers = N.answers
  BY <1>1, NetFields, NextNetFields
<1>6. CASE Live(r[2])
  <2> DEFINE o == r[2]
  <2>1. o \in DOMAIN N.book /\ N.book[o] > 0 /\ M.book = Put(N.book, o, 0)
    BY <1>1, <1>6, NetFields, NextNetFields DEF Live, SetBook, Put
  <2> HIDE DEF c, d, N, M, o
  <2>2. /\ Active(c) /\ NoPlace(c, N) /\ AtStake(c, N) > 0
        /\ \A x \in DOMAIN N.book : N.book[x] # 0 => x = o
    BY <1>2, <2>1, LiveAtStake
  <2>3. NoLive(M) /\ NoPlace(d, M)
    BY <1>4, <1>5, <2>1, <2>2 DEF Put, NoLive, NoPlace
  <2>4. AtStake(d, M) = 0
    BY <2>3, NothingAtStake
  <2>5. Active(d)
    BY <1>4, <2>2 DEF Active
  <2>6. Promised(c, N, d, M)
    BY <1>5, <2>2, <2>4, <2>5 DEF Promised
  <2> QED BY <2>6 DEF c, d, N, M
<1>7. CASE ~Live(r[2])
  <2>1. M.book = N.book
    BY <1>1, <1>7, NetFields, NextNetFields
  <2> HIDE DEF c, d, N, M
  <2>2. Sent(d, M) = Sent(c, N)
    BY <1>4, <1>5 DEF Sent
  <2>3. Promised(c, N, d, M)
    BY <1>3, <1>4, <1>5, <2>1, <2>2, MovesNothing DEF Active
  <2> QED BY <2>3 DEF c, d, N, M
<1> QED BY <1>6, <1>7

LEMMA TradePromise ==
  ASSUME CleanNetwork, ExInv, Trade
  PROVE  Promised(Now, Net, Now', Net')
<1> DEFINE c == Now
           N == Net
           M == Net'
<1>0. PICK o \in LiveOids : \E size \in 1 .. book[o] :
        /\ book' = SetBook(o, book[o] - size) /\ position' = position + size
        /\ UNCHANGED <<vars, answers, snap, losses>>
  BY DEF Trade
<1>1. PICK size \in 1 .. book[o] :
        /\ book' = SetBook(o, book[o] - size) /\ position' = position + size
        /\ UNCHANGED <<vars, answers, snap, losses>>
  BY <1>0
<1>2. Now' = c
  BY <1>1, StillStep
<1>3. NetTyped(N) /\ Good(c, N)
  BY NowFacts
<1>4. /\ o \in DOMAIN N.book /\ N.book[o] > 0 /\ size \in 1 .. N.book[o]
      /\ M.book = Put(N.book, o, N.book[o] - size) /\ M.answers = N.answers
      /\ M.position = N.position + size
  BY <1>1, NetFields, NextNetFields DEF LiveOids, SetBook, Put
<1> HIDE DEF c, N, M
<1>5. /\ Active(c) /\ NoPlace(c, N) /\ N.book[o] \in Nat /\ N.book[o] <= Size
      /\ AtStake(c, N) = N.book[o]
      /\ \A x \in DOMAIN N.book : N.book[x] # 0 => x = o
  BY <1>3, <1>4, LiveAtStake
<1>6. NoPlace(c, M)
  BY <1>4, <1>5 DEF NoPlace
<1> DEFINE left == N.book[o] - size
<1>7. left \in Nat /\ left <= Size
  BY <1>4, <1>5, SizeAssumption
<1>8. /\ o \in DOMAIN M.book /\ M.book[o] = left
      /\ \A x \in DOMAIN M.book : x # o => M.book[x] = 0
  BY <1>4, <1>5 DEF Put
<1>9. AtStake(c, M) = left
  <2> HIDE DEF left
  <2>1. CASE left = 0
    <3>1. NoLive(M)
      BY <1>8, <2>1 DEF NoLive
    <3> QED BY <1>6, <2>1, <3>1, NothingAtStake
  <2>2. CASE 0 < left
    <3>1. \A x \in DOMAIN M.book : M.book[x] > 0 => x = o
      BY <1>8
    <3> QED BY <1>6, <1>7, <1>8, <2>2, <3>1, OrderAtStake
  <2> QED BY <1>7, <2>1, <2>2
<1>10. \E lots \in 1 .. AtStake(c, N) :
         AtStake(c, M) = AtStake(c, N) - lots /\ M.position = N.position + lots
  BY <1>4, <1>5, <1>9
<1> QED BY <1>2, <1>5, <1>10 DEF Promised, c, N, M

LEMMA FlattenPromise ==
  ASSUME CleanNetwork, ExInv, ProcessFlatten
  PROVE  Promised(Now, Net, Now', Net')
<1> DEFINE c == Now
           N == Net
           M == Net'
<1>1. PICK r \in Due("flatten") :
        /\ \/ r[3] > 0 /\ Sellable(r) > 0 /\ position' = position - Sellable(r)
           \/ position' = position
        /\ \E outcome \in {"filled", "rejected"} : answers' = Answer(r, outcome)
        /\ UNCHANGED <<vars, book>>
  BY DEF ProcessFlatten, Sell
<1>9. r[3] > 0 => (Sellable(r) > 0 <=> position > 0)
  BY <1>1, SomeSellable DEF Due, Pending
<1>2. Now' = c
  BY <1>1, StillStep
<1>3. c \in Contexts /\ NetTyped(N) /\ Good(c, N)
  BY NowFacts
<1>4. /\ r \in c.wire /\ r[1] = "flatten"
      /\ M.book = N.book /\ \E outcome \in {"filled", "rejected"} : M.answers = Put(N.answers, r, outcome)
      /\ \/ /\ r[3] > 0 /\ N.position > 0
            /\ M.position = N.position - (IF r[3] < N.position THEN r[3] ELSE N.position)
         \/ M.position = N.position
  BY <1>1, <1>9, NowFields, NetFields, NextNetFields DEF Due, Pending, Answer, Put, Sellable
<1> HIDE DEF c, N, M
<1>5. Sent(c, M) = Sent(c, N)
  BY <1>4 DEF Sent, Put
<1>6. AtStake(c, M) = AtStake(c, N)
  BY <1>4, <1>5, SameAtStake
<1>7. CASE M.position = N.position
  BY <1>2, <1>6, <1>7 DEF Promised, c, N, M
<1>8. CASE /\ r[3] > 0 /\ N.position > 0
           /\ M.position = N.position - (IF r[3] < N.position THEN r[3] ELSE N.position)
  <2>1. Active(c)
    BY <1>3, <1>8 DEF Good, Idle, Over
  <2>2. r[3] \in Int /\ N.position \in Int
    <3>1. r \in Requests
      BY <1>3, <1>4, ContextParts
    <3> QED BY <1>3, <3>1, SizeAssumption DEF Requests, NetTyped, Lots
  <2>3. \E lots \in 1 .. N.position : M.position = N.position - lots
    BY <1>8, <2>2
  <2> QED BY <1>2, <1>6, <2>1, <2>3 DEF Promised, c, N, M
<1> QED BY <1>4, <1>7, <1>8

LEMMA PushPromise ==
  ASSUME CleanNetwork, ExInv, PushPosition
  PROVE  Promised(Now, Net, Now', Net')
<1>1. UNCHANGED <<vars, book, position, answers>>
  BY DEF PushPosition
<1>2. Now' = Now /\ Good(Now, Net)
  BY <1>1, StillStep, NowFacts
<1> DEFINE c == Now
           N == Net
           M == Net'
<1>3. M.book = N.book /\ M.position = N.position /\ M.answers = N.answers
  BY <1>1, NetFields, NextNetFields
<1> HIDE DEF c, N, M
<1>4. Sent(c, M) = Sent(c, N)
  BY <1>3 DEF Sent
<1>5. AtStake(c, M) = AtStake(c, N)
  BY <1>3, <1>4, SameAtStake
<1> QED BY <1>2, <1>3, <1>5 DEF Promised, c, N, M

\* A callback that places nothing starts no probe, and loses no request.
LEMMA HandlerPromise ==
  ASSUME ExInv', NEW d, Become(d), UNCHANGED <<book, position>>,
         Sent(d, Net') = Sent(Now, Net), Active(d) => Active(Now)
  PROVE  Promised(Now, Net, Now', Net')
<1> DEFINE c == Now
           e == Now'
           N == Net
           M == Net'
<1>1. e.probe = d.probe /\ e.wire = d.wire
  BY NextFields DEF Become
<1>2. M.book = N.book /\ M.position = N.position
  BY NetFields, NextNetFields
<1>3. Good(e, M)
  BY DEF ExInv, CleanInv, Now
<1>4. Sent(d, M) = Sent(c, N) /\ (Active(d) => Active(c))
  OBVIOUS
<1> HIDE DEF c, e, N, M
<1>5. Sent(e, M) = Sent(c, N) /\ (Active(e) => Active(c))
  BY <1>1, <1>4 DEF Sent, Active
<1>6. Promised(c, N, e, M)
  BY <1>2, <1>3, <1>5, MovesNothing
<1> QED BY <1>6 DEF c, e, N, M

LEMMA FollowsPromise ==
  ASSUME ExInv', NEW d, Become(d), UNCHANGED <<book, position, answers>>, Follows(Now, d)
  PROVE  Promised(Now, Net, Now', Net')
<1> DEFINE c == Now
           N == Net
           M == Net'
<1>1. M.answers = N.answers
  BY NetFields, NextNetFields
<1>2. Follows(c, d)
  OBVIOUS
<1> HIDE DEF c, N, M
<1>3. Sent(d, M) = Sent(c, N) /\ (Active(d) => Active(c))
  BY <1>1, <1>2 DEF Follows, Sent
<1> QED BY <1>3, HandlerPromise DEF c, N, M

LEMMA AnswerPromise ==
  ASSUME CleanNetwork, ExInv, ExInv', DeliverAnswer
  PROVE  Promised(Now, Net, Now', Net')
<1> DEFINE c == Now
           N == Net
           M == Net'
<1>1. PICK r \in DOMAIN answers, fuel \in Fuel :
        /\ Become(PostResponse(Frame(fuel), r, answers[r]))
        /\ answers' = Forget(r)
        /\ UNCHANGED <<book, position>>
  BY DEF DeliverAnswer
<1>2. /\ c \in Contexts /\ Unlimited(c) /\ Own(c) /\ ~c.err /\ NetTyped(N) /\ Common(c, N)
      /\ Frame(fuel) = c
  <2>1. fuel = RecordLimit
    BY <1>1, NowFacts
  <2> QED BY <2>1, NowFacts
<1>3. r \in DOMAIN N.answers /\ DOMAIN M.answers = DOMAIN N.answers \ {r}
  BY <1>1, NetFields, NextNetFields DEF Forget
<1> DEFINE d == PostResponse(c, r, N.answers[r])
<1>4. Become(d)
  BY <1>1, <1>2, NetFields
<1> HIDE DEF c, N, M
<1>5. r \in c.wire /\ N.answers[r] \in {"resting", "filled", "rejected"}
  BY <1>2, <1>3 DEF Common, NetTyped
<1>6. d.wire = c.wire \ {r} /\ (Active(d) => Active(c))
  <2> DEFINE outcome == N.answers[r]
  <2>1. outcome \in {"resting", "filled", "rejected"}
    BY <1>5
  <2> HIDE DEF outcome
  <2>2. LET x == PostResponse(c, r, outcome) IN
        x.wire = c.wire \ {r} /\ (Active(x) => Active(c))
    BY <1>2, <1>5, <2>1, PostResponseDoes
  <2> QED BY <2>2 DEF outcome
<1> HIDE DEF d
<1>7. Sent(d, M) = Sent(c, N)
  BY <1>3, <1>6 DEF Sent
<1> QED BY <1>1, <1>4, <1>6, <1>7, HandlerPromise DEF c, N, M

LEMMA UpdatePromise ==
  ASSUME CleanNetwork, ExInv, ExInv', DeliverUpdate
  PROVE  Promised(Now, Net, Now', Net')
<1>1. PICK i \in Deliverable("update"), fuel \in Fuel :
        /\ Become(OrderUpdate(Frame(fuel), frames[i]))
        /\ UNCHANGED <<book, position, answers>>
  BY DEF DeliverUpdate
<1>2. Now \in Contexts /\ Frame(fuel) = Now /\ frames \in Seq(Frames)
  <2>1. fuel = RecordLimit
    BY <1>1, NowFacts
  <2> QED BY <2>1, NowFacts, NetFields DEF NetTyped
<1>3. i = 1 /\ frames[1] \in Frames /\ frames[1].kind = "update"
  BY <1>1, <1>2, DeliversFirst
<1> DEFINE c == Now
           u == UpdateOf(frames[1])
           d == OrderUpdate(c, frames[1])
<1>4. u \in Updates /\ OrderUpdate(c, u) = d
  BY <1>3, UpdateRead
<1>5. c \in Contexts /\ Become(d)
  BY <1>1, <1>2, <1>3
<1> HIDE DEF c, u, d
<1>6. Follows(c, d)
  BY <1>4, <1>5, OrderUpdateEvolves DEF Evolves, Reacts
<1> QED BY <1>1, <1>5, <1>6, FollowsPromise DEF c

LEMMA FillPromise ==
  ASSUME CleanNetwork, ExInv, ExInv', DeliverFill
  PROVE  Promised(Now, Net, Now', Net')
<1>1. PICK i \in Deliverable("fill"), fuel \in Fuel, send \in Sends :
        /\ Become(UserFill(Frame(fuel), frames[i], send))
        /\ UNCHANGED <<book, position, answers>>
  BY DEF DeliverFill
<1>2. /\ Now \in Contexts /\ Own(Now) /\ Frame(fuel) = Now /\ frames \in Seq(Frames)
      /\ send \in BOOLEAN
  <2>1. fuel = RecordLimit /\ send \in {TRUE}
    BY <1>1, NowFacts
  <2> QED BY <2>1, NowFacts, NetFields DEF NetTyped
<1>3. i = 1 /\ frames[1] \in Frames /\ IsFill(frames[1])
  BY <1>1, <1>2, DeliversFirst DEF IsFill
<1> DEFINE c == Now
           f == frames[1]
           g == FillOf(f)
           d == UserFill(c, f, send)
<1>4. g \in Fills /\ UserFill(c, g, send) = d
  <2> HIDE DEF c, f
  <2>1. f \in Frames /\ IsFill(f)
    BY <1>3 DEF f
  <2> QED BY <1>2, <2>1, FillRead
<1>5. g.oid # NoOid
  BY <1>3, FillFields DEF FillOf
<1>6. c \in Contexts /\ Own(c) /\ Become(d)
  BY <1>1, <1>2, <1>3
<1> HIDE DEF c, f, g, d
<1>7. Follows(c, d)
  BY <1>2, <1>4, <1>5, <1>6, UserFillReacts DEF Reacts
<1> QED BY <1>1, <1>6, <1>7, FollowsPromise DEF c

LEMMA PositionPromise ==
  ASSUME CleanNetwork, ExInv, ExInv', DeliverPosition
  PROVE  Promised(Now, Net, Now', Net')
<1>1. PICK i \in Deliverable("position"), fuel \in Fuel :
        /\ Become(Clearinghouse(Frame(fuel), frames[i].lots))
        /\ UNCHANGED <<book, position, answers>>
  BY DEF DeliverPosition
<1>2. Now \in Contexts /\ Frame(fuel) = Now /\ frames \in Seq(Frames)
  <2>1. fuel = RecordLimit
    BY <1>1, NowFacts
  <2> QED BY <2>1, NowFacts, NetFields DEF NetTyped
<1>3. i = 1 /\ frames[1] \in Frames /\ IsPosition(frames[1])
  BY <1>1, <1>2, DeliversFirst DEF IsPosition
<1> DEFINE c == Now
           lots == frames[1].lots
           d == Clearinghouse(c, lots)
<1>4. lots \in Int
  BY <1>3, PositionFields
<1>5. c \in Contexts /\ Become(d)
  BY <1>1, <1>2, <1>3
<1> HIDE DEF c, lots
<1>6. Follows(c, d)
  BY <1>4, <1>5, ClearinghouseReacts DEF Reacts
<1> HIDE DEF d
<1> QED BY <1>1, <1>5, <1>6, FollowsPromise DEF c

LEMMA StartPlaces ==
  ASSUME NEW c \in Contexts, NEW t, ~Active(c), Active(StartProbe(c, t))
  PROVE  \E r \in StartProbe(c, t).wire : r[1] = "place"
<1> DEFINE k == c.issued.probes + 1
           counted == [c.issued EXCEPT !.probes = k]
           next == [c EXCEPT !.issued = counted]
           r == Record(next, 1)
           request == <<"place", Maker(k), Size>>
           sent == r.wire \cup {request}
           s == [r EXCEPT !.wire = sent]
           a == Record(s, 1)
           failed == [r EXCEPT !.err = TRUE]
           b == [a EXCEPT !.probe = NewProbe(k)]
<1>1. k \in Nat /\ counted \in Counters
  BY ContextParts DEF Counters
<1>2. next \in Contexts /\ next.probe = c.probe
  <2> HIDE DEF counted
  <2> QED BY <1>1 DEF Contexts
<1>3. StartProbe(c, t) = IF c.err \/ Active(c) \/ ~MayStart(c, t) THEN c
                         ELSE IF r.err THEN r ELSE IF ~t.send THEN failed
                         ELSE IF a.err THEN a ELSE b
  BY DEF StartProbe
<1> HIDE DEF next, counted
<1>4. r \in Contexts /\ r.probe = c.probe
  BY <1>2, RecordContext, RecordBackground DEF Background
<1> HIDE DEF r
<1>5. failed.probe = r.probe
  BY <1>4 DEF Contexts
<1>6. s \in Contexts /\ s.wire = sent /\ s.probe = r.probe
  <2>1. sent \in SUBSET Requests
    <3> HIDE DEF k
    <3> QED BY <1>1, <1>4, OidValues, SizeAssumption, RequestValues, ContextParts
  <2> HIDE DEF sent
  <2> QED BY <1>4, <2>1 DEF Contexts
<1> HIDE DEF s, failed
<1>7. a \in Contexts /\ a.wire = sent /\ a.probe = r.probe
  BY <1>6, RecordContext, RecordBackground DEF Background
<1> HIDE DEF a
<1>8. b.wire = sent
  BY <1>7 DEF Contexts
<1> HIDE DEF b
<1>9. StartProbe(c, t) = b
  BY <1>3, <1>4, <1>5, <1>7 DEF Active
<1>10. request \in sent /\ request[1] = "place"
  OBVIOUS
<1> QED BY <1>8, <1>9, <1>10

LEMMA TimerPromise ==
  ASSUME CleanNetwork, ExInv, ExInv', ExTimer
  PROVE  Promised(Now, Net, Now', Net')
<1> DEFINE c == Now
           N == Net
           M == Net'
           s == IF rest.unread THEN Published ELSE NoSnapshot
           ripe == IF Quiet THEN markouts ELSE {}
<1>1. TimerTick({s}, ripe) /\ UNCHANGED <<book, position, answers>>
  BY DEF ExTimer, TakenOver
<1>2. PICK t \in Ticks({s}, ripe), fuel \in Fuel :
        t.found \in SeenOpen(probe, t.latest.orders) /\ Become(Timer(Self(fuel), t))
  BY <1>1 DEF TimerTick
<1>3. /\ c \in Contexts /\ Unlimited(c) /\ Own(c) /\ Good(c, N)
      /\ Common(c, N) /\ Sends = {TRUE} /\ Self(fuel) = c
  <2>1. fuel = RecordLimit
    BY <1>2, NowFacts
  <2> QED BY <2>1, NowFacts DEF Now
<1>4. t \in TickRecords /\ t.send
  <2>1. markouts \in SUBSET MarkoutRecords
    BY DEF ExInv, StepInv, Inv, TypeOK
  <2>2. ripe \in SUBSET MarkoutRecords /\ (s = Published \/ s = NoSnapshot)
    BY <2>1
  <2> HIDE DEF s, ripe
  <2>3. t \in TickRecords /\ t.send \in Sends
    BY <1>2, <2>2, TickTyped
  <2> QED BY <1>3, <2>3
<1>5. Listed(c, t)
  BY <1>2, NowFields DEF Listed
<1> DEFINE d == Timer(c, t)
<1>6. Become(d)
  BY <1>2, <1>3
<1>7. M.answers = N.answers /\ M.position = N.position
  BY <1>1, NetFields, NextNetFields
<1>8. Now'.wire = d.wire /\ Now'.probe = d.probe
  BY <1>6, NextFields DEF Become
<1>9. Good(Now', M)
  BY DEF ExInv, CleanInv, Now
<1> HIDE DEF c, N, M, s, ripe
<1> DEFINE r == RefreshAccount(c, t)
           p == IF t.pace = "periodic" THEN RequestRest(r) ELSE r
           m == SampleMarkouts(p, t)
           e == EvaluateActive(m, t)
<1>10. d = IF r.err THEN r ELSE StartProbe(e, t)
  BY <1>3 DEF Timer, Common
<1>11. r \in Contexts /\ Refreshed(c, r)
  BY <1>3, <1>4, <1>5, RefreshAccountContext, RefreshAccountFollows
<1> HIDE DEF r
<1>12. p \in Contexts /\ Refreshed(c, p)
  BY <1>3, <1>11, RequestRestEvolves, RefreshedTrans
<1> HIDE DEF p
<1>13. m \in Contexts /\ Refreshed(c, m)
  BY <1>3, <1>4, <1>12, SampleMarkoutsContext, SampleMarkoutsEvolves, RefreshedTrans
<1> HIDE DEF m
<1>14. e \in Contexts /\ Refreshed(c, e)
  BY <1>3, <1>4, <1>13, EvaluateActiveContext, EvaluateActiveEvolves, RefreshedTrans
<1> HIDE DEF e, d
<1>15. CASE d = r \/ d = e
  <2>1. Follows(c, d)
    BY <1>11, <1>14, <1>15 DEF Refreshed
  <2> QED BY <1>1, <1>6, <2>1, FollowsPromise DEF c
<1>16. CASE d = StartProbe(e, t) /\ d # e
  <2>1. Starts(e, d) /\ Follows(c, e)
    BY <1>4, <1>14, <1>16, StartProbeStarts DEF Refreshed
  <2>2. ~Active(c) /\ ~c.cooling /\ ~Active(e)
    BY <2>1 DEF Starts, Follows
  <2>3. AtStake(c, N) = 0 /\ N.position = 0 /\ Sent(c, N) = {}
    BY <1>3, <2>2, IdleAtStake
  <2>4. DOMAIN M.answers = {}
    BY <1>3, <1>7, <2>2 DEF Good, Idle, Common
  <2>5. CASE \E q \in d.wire : q[1] = "place"
    <3>1. \E q \in Sent(Now', M) : TRUE
      BY <1>8, <2>4, <2>5 DEF Sent
    <3>2. Active(Now') /\ AtStake(Now', M) = Size
      BY <1>9, <3>1, PlaceSent
    <3> QED BY <1>7, <2>2, <2>3, <3>2 DEF Promised, c, N, M
  <2>6. CASE ~\E q \in d.wire : q[1] = "place"
    <3>1. Sent(d, M) = Sent(c, N)
      BY <2>3, <2>6 DEF Sent
    <3>2. ~Active(d)
      BY <1>14, <1>16, <2>2, <2>6, StartPlaces
    <3> QED BY <1>1, <1>6, <3>1, <3>2, HandlerPromise DEF c, N, M
  <2> QED BY <2>5, <2>6
<1> QED BY <1>10, <1>15, <1>16

\* The REST worker and the deadlines move no lot and end no probe.
LEMMA AsidePromise ==
  ASSUME ExInv', UNCHANGED <<book, position, answers, wire>>, probe'.phase = probe.phase
  PROVE  Promised(Now, Net, Now', Net')
<1> DEFINE c == Now
           d == Now'
           N == Net
           M == Net'
<1>1. /\ M.book = N.book /\ M.position = N.position /\ M.answers = N.answers
      /\ d.wire = c.wire /\ (Active(d) <=> Active(c))
  BY NowFields, NextFields, NetFields, NextNetFields DEF Active
<1>2. Good(d, M)
  BY DEF ExInv, CleanInv, Now
<1> HIDE DEF c, d, N, M
<1>3. Sent(d, M) = Sent(c, N)
  BY <1>1 DEF Sent
<1>4. Promised(c, N, d, M)
  BY <1>1, <1>2, <1>3, MovesNothing
<1> QED BY <1>4 DEF c, d, N, M

LEMMA PromiseNext ==
  ASSUME CleanNetwork, NetInv, NetInv', ExNext
  PROVE  Promised(Now, Net, Now', Net')
<1>0. ExInv /\ ExInv'
  BY DEF NetInv
<1>1. CASE AcceptPlace    BY <1>0, <1>1, AcceptPromise
<1>2. CASE RejectPlace    BY <1>0, <1>2, RejectPromise
<1>3. CASE ProcessCancel  BY <1>0, <1>3, CancelPromise
<1>4. CASE Trade          BY <1>0, <1>4, TradePromise
<1>5. CASE ProcessFlatten BY <1>0, <1>5, FlattenPromise
<1>6. CASE PushPosition   BY <1>0, <1>6, PushPromise
<1>7. CASE DeliverAnswer  BY <1>0, <1>7, AnswerPromise
<1>8. CASE DeliverUpdate  BY <1>0, <1>8, UpdatePromise
<1>9. CASE DeliverFill    BY <1>0, <1>9, FillPromise
<1>10. CASE DeliverPosition BY <1>0, <1>10, PositionPromise
<1>11. CASE FeedLost \/ ActionLost \/ FallShort \/ Signal
  BY <1>11 DEF FeedLost, ActionLost, FallShort, Reconnect, RequestLost, Signal, CleanNetwork
<1>12. CASE TakeRequest
  <2>1. UNCHANGED <<book, position, answers, wire, probe>>
    BY <1>12 DEF TakeRequest, RestTake, exVars
  <2> QED BY <1>0, <2>1, AsidePromise
<1>13. CASE ReadOrders \/ ReadPositions
  <2>1. UNCHANGED <<book, position, answers, wire, probe>>
    BY <1>13 DEF ReadOrders, ReadPositions, vars
  <2> QED BY <1>0, <2>1, AsidePromise
<1>14. CASE Publish
  <2>1. UNCHANGED <<book, position, answers, wire, probe>>
    BY <1>14 DEF Publish, RestPublish
  <2> QED BY <1>0, <2>1, AsidePromise
<1>15. CASE ExTimer       BY <1>0, <1>15, TimerPromise
<1>16. CASE ExElapse
  <2>1. UNCHANGED <<book, position, answers, wire>> /\ probe' = [probe EXCEPT !.late = TRUE]
    BY <1>16 DEF ExElapse, Elapse, exVars
  <2>2. probe \in ProbeRecords
    BY <1>0 DEF ExInv, StepInv, Inv, TypeOK
  <2>3. probe'.phase = probe.phase
    BY <2>1, <2>2 DEF ProbeRecords
  <2> QED BY <1>0, <2>1, <2>3, AsidePromise
<1>17. CASE CoolDown /\ UNCHANGED exVars
  <2>1. UNCHANGED <<book, position, answers, wire, probe>>
    BY <1>17 DEF CoolDown, exVars
  <2> QED BY <1>0, <2>1, AsidePromise
<1> QED BY <1>1, <1>2, <1>3, <1>4, <1>5, <1>6, <1>7, <1>8, <1>9, <1>10, <1>11, <1>12,
           <1>13, <1>14, <1>15, <1>16, <1>17 DEF ExNext

LEMMA ContractInitially ==
  ASSUME ExInit
  PROVE  AtRisk!ContractInit
<1>1. book = <<>> /\ position = 0 /\ wire = {} /\ probe = NoProbe
  BY DEF ExInit, Init
<1>2. LotsOnBook = {} /\ Pending("place") = {}
  BY <1>1 DEF LotsOnBook, LiveOids, Pending
<1>3. LotsAtRisk = 0
  BY <1>2, FS_EmptySet, SizeAssumption DEF LotsAtRisk
<1> QED BY <1>1, <1>3 DEF AtRisk!ContractInit, NoProbe

LEMMA ContractStays ==
  ASSUME UNCHANGED allVars
  PROVE  UNCHANGED AtRisk!contract
<1>1. Now' = Now /\ Net' = Net
  BY DEF Now, Net, Self, allVars, vars, exVars
<1>2. LotsAtRisk' = LotsAtRisk
  BY <1>1, AtStakeNow
<1> QED BY <1>2 DEF AtRisk!contract, allVars, vars, exVars

\* Under the same assumptions every step keeps the promise of ProbeContract
\* (MeetsContract): maybe_start_probe places an order only while nothing is at
\* stake, the lots at stake become held lots or vanish, only a reduce-only order
\* gives held lots back, and finish_probe ends a probe with nothing left.
THEOREM ImplementsContract == CleanNetwork => (ExSpec => MeetsContract)
<1> SUFFICES ASSUME CleanNetwork PROVE ExSpec => MeetsContract
  OBVIOUS
<1>1. ExInit => NetInv /\ AtRisk!ContractInit
  BY InvInitially, ContractInitially
<1>2. NetInv /\ [ExNext]_allVars => NetInv'
  BY InvNext, InvStays
<1>3. NetInv /\ NetInv' /\ [ExNext]_allVars => [AtRisk!ContractNext]_(AtRisk!contract)
  BY PromiseNext, PromiseKept, ContractStays
<1> QED BY <1>1, <1>2, <1>3, PTL DEF ExSpec, MeetsContract, AtRisk!Contract
=============================================================================
