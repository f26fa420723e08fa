--------------------------- MODULE Storage_proofs ---------------------------
(***************************************************************************)
(* Theorems about Storage, for any number of streams, of runs and of       *)
(* failures at any step: the types, the soundness of finalized files, and  *)
(* that a writer never works while another run's files are unfinished.     *)
(***************************************************************************)
EXTENDS Storage, SequenceTheorems, TLAPS

-----------------------------------------------------------------------------
(* The inductive invariant.                                                *)

NoCut(c) == \A i \in 1 .. Len(c) : c[i] # Cut
CutIsLast(c) == \A i \in 1 .. Len(c) : c[i] = Cut => i = Len(c)

\* What the writer holds in each of its states.
MemoryInv ==
  /\ pc # "down" => run \in Runs
  /\ ~WriterAlive => queue = <<>> /\ hand = <<>> /\ segs = NoSegs /\ buf = NoBytes
  /\ pc \in {"loop", "closing"} => hand = <<>>
  /\ pc = "writing" => hand # <<>>
  /\ pc \in {"loop", "writing"} => \A s \in Streams : segs[s] # -1
  /\ pc = "closing" => stopping /\ queue = <<>>
  /\ (\E i \in 1 .. Len(queue) : queue[i] = Shutdown) => stopping
  /\ \A s \in Streams : NoCut(buf[s]) /\ (buf[s] # <<>> => segs[s] # -1)
  /\ pc \in {"rotating", "closing"} => todo = Active

\* The open files are those of the active segments, and only a failure leaves
\* a piece of a line in one of them.
PartInv ==
  /\ \A f \in Active : part[f] # NoFile
  /\ WriterAlive => \A f \in Names : part[f] # NoFile => f \in Active /\ NoCut(part[f])
  /\ \A f \in Names :
       IF part[f] = NoFile THEN synced[f] = 0
       ELSE CutIsLast(part[f]) /\ synced[f] <= Len(part[f])
  /\ pc = "recovering" => \A f \in Names : f \in todo <=> part[f] # NoFile

\* How far each finalization came.
StageInv ==
  /\ \A f \in Names :
       /\ stage[f] # "idle" => /\ ready[f] # NoFile
                               /\ pc \in {"recovering", "rotating", "closing"}
       /\ ready[f] # NoFile => NoCut(ready[f])
       /\ zst[f] # NoFile => NoCut(zst[f])
       /\ temp[f] # NoFile => ready[f] # NoFile
       /\ stage[f] = "install" => temp[f] = ready[f]
       /\ stage[f] \in {"checksum", "remove"} => temp[f] = NoFile
       /\ stage[f] = "remove" => sum[f] = zst[f]
       /\ zst[f] # NoFile /\ ready[f] = NoFile => sum[f] = zst[f]
  /\ WriterAlive => \A f \in Names : ready[f] # NoFile => stage[f] # "idle"
  /\ pc = "recovering" =>
       \A f \in Names : ready[f] # NoFile => f \in readies \/ stage[f] # "idle"
  /\ WriterAlive \/ pc = "failed" => \A f \in Names : Unfinished(f) => f[1] = run
  /\ pc = "stopped" => \A f \in Names : ~Unfinished(f)

Inv == TypeOK /\ MemoryInv /\ PartInv /\ StageInv

-----------------------------------------------------------------------------
(* Names and contents.                                                     *)

LEMMA NameParts ==
  /\ \A f \in Names : f[1] \in Runs /\ f[2] \in Streams /\ f[3] \in Hours
  /\ \A r \in Runs, s \in Streams, h \in Hours :
       /\ <<r, s, h>> \in Names
       /\ <<r, s, h>>[1] = r /\ <<r, s, h>>[2] = s /\ <<r, s, h>>[3] = h
  /\ \A f, g \in Names : f[1] = g[1] /\ f[2] = g[2] /\ f[3] = g[3] => f = g
BY DEF Names

LEMMA ContentParts ==
  /\ NoFile \notin Content
  /\ <<>> \in Content /\ <<Cut>> \in Content
  /\ \A m \in Message : m # Shutdown /\ m.stream \in Streams /\ m.n \in Nat \ {0}
BY StorageAssumption DEF Content, Cut, Message, Streams

LEMMA WholeIsContent ==
  ASSUME NEW c \in Content, CutIsLast(c)
  PROVE  Whole(c) \in Content /\ NoCut(Whole(c)) /\ Len(Whole(c)) <= Len(c)
BY DEF Whole, Content, CutIsLast, NoCut, Cut, Last, Front

\* What a failure may add to a file.
LEMMA OutcomeIsContent ==
  ASSUME NEW b \in Seq(Nat), NEW c \in Outcomes(b)
  PROVE  /\ c \in Seq(Nat)
         /\ NoCut(b) => CutIsLast(c)
<1>1. CASE \E k \in 0 .. Len(b) : c = SubSeq(b, 1, k)
  BY <1>1 DEF NoCut, CutIsLast
<1>2. ASSUME NEW k \in 0 .. Len(b) - 1, c = Append(SubSeq(b, 1, k), Cut)
      PROVE  c \in Seq(Nat) /\ (NoCut(b) => CutIsLast(c))
  <2> DEFINE d == SubSeq(b, 1, k)
  <2>1. d \in Seq(Nat) /\ Len(d) = k /\ \A i \in 1 .. k : d[i] = b[i]
    OBVIOUS
  <2> HIDE DEF d
  <2> QED BY <1>2, <2>1 DEF NoCut, CutIsLast, Cut, d
<1> QED BY <1>1, <1>2 DEF Outcomes

-----------------------------------------------------------------------------
(* Types.                                                                  *)

LEMMA TypeStep == TypeOK /\ MemoryInv /\ PartInv /\ [Next]_vars => TypeOK'
<1> SUFFICES ASSUME TypeOK, MemoryInv, PartInv, [Next]_vars PROVE TypeOK'
  OBVIOUS
<1> USE StorageAssumption, ContentParts DEF TypeOK, IsContents
<1>1. CASE Tick
  BY <1>1 DEF Tick, NextHours, Hours, process, disk
<1>2. ASSUME NEW s \in Streams, Record(s) PROVE TypeOK'
  BY <1>2 DEF Record, HasRoom, disk, Message
<1>3. CASE SendShutdown
  <2>1. queue' \in Seq(Message \cup {Shutdown}) /\ Len(queue') = Len(queue) + 1
    BY <1>3 DEF SendShutdown
  <2>2. Len(queue') <= Capacity
    BY <1>3, <2>1 DEF SendShutdown, HasRoom
  <2>3. stopping' = TRUE
    BY <1>3 DEF SendShutdown
  <2>4. UNCHANGED <<hour, sent, run, pc, hand, segs, buf, todo, readies, stage,
                    part, ready, temp, zst, sum, synced>>
    BY <1>3 DEF SendShutdown, disk
  <2> QED BY <2>1, <2>2, <2>3, <2>4, Zenon
<1>4. CASE Start
  <2>1. run' \in 0 .. MaxRuns /\ todo' \subseteq Names /\ readies' \subseteq Names
    BY <1>4 DEF Start, ReadyListed
  <2>2. /\ stopping' = FALSE /\ pc' = "recovering"
        /\ UNCHANGED <<hour, sent, queue, hand, segs, buf, stage,
                       part, ready, temp, zst, sum, synced>>
    BY <1>4 DEF Start, disk
  <2> QED BY <2>1, <2>2, Zenon
<1>5. ASSUME NEW f \in Names, CreateTemp(f) \/ Encode(f) \/ Install(f)
                              \/ Checksum(f) \/ RemoveReady(f)
      PROVE  TypeOK'
  <2>1. CASE CreateTemp(f)
    BY <2>1 DEF CreateTemp, world, Stages
  <2>2. CASE Encode(f)
    BY <2>2 DEF Encode, world, Stages
  <2>3. CASE Install(f)
    BY <2>3 DEF Install, world, Stages
  <2>4. CASE Checksum(f)
    BY <2>4 DEF Checksum, world, Stages
  <2>5. CASE RemoveReady(f)
    BY <2>5 DEF RemoveReady, world, Stages
  <2> QED BY <1>5, <2>1, <2>2, <2>3, <2>4, <2>5
<1>6. ASSUME NEW f \in Names, RecoverPartial(f) PROVE TypeOK'
  <2>1. part[f] \in Content /\ CutIsLast(part[f])
    BY <1>6 DEF RecoverPartial, PartInv, IsFirst
  <2>2. TruncateToLastNewline(part[f]) \in Content
    BY <2>1, WholeIsContent DEF TruncateToLastNewline
  <2> QED BY <1>6, <2>2 DEF RecoverPartial, world, Stages
<1>7. ASSUME NEW f \in Names, RecoverReady(f) PROVE TypeOK'
  BY <1>7 DEF RecoverReady, world, disk, Stages
<1>8. CASE SpawnWriter
  BY <1>8 DEF SpawnWriter, world, disk
<1>9. ASSUME NEW s \in Streams, OpenSegment(s) PROVE TypeOK'
  BY <1>9 DEF OpenSegment, world, WriterAlive
<1>10. ASSUME NEW m \in Message, WriteLine(m), pc \in {"loop", "writing"}
       PROVE  /\ buf' \in [Streams -> Seq(Nat)]
              /\ part' \in [Names -> Content \cup {NoFile}]
  <2> DEFINE f == <<run, m.stream, segs[m.stream]>>
  <2>1. f \in Active
    BY <1>10, NameParts DEF MemoryInv, Active
  <2>2. part[f] \in Content
    BY <2>1 DEF PartInv, Active
  <2>3. buf[m.stream] \in Seq(Nat) /\ Append(buf[m.stream], m.n) \in Seq(Nat)
    BY <1>10
  <2>4. part[f] \o buf[m.stream] \in Content
    BY <2>2, <2>3 DEF Content
  <2>5. Append(<<>>, m.n) = <<m.n>> /\ <<m.n>> \in Seq(Nat)
    OBVIOUS
  <2>6. CASE buf' = [buf EXCEPT ![m.stream] = Append(@, m.n)] /\ UNCHANGED part
    BY <2>3, <2>6
  <2>7. CASE /\ part' = [part EXCEPT ![f] = @ \o buf[m.stream]]
             /\ buf' = [buf EXCEPT ![m.stream] = <<m.n>>]
    BY <2>4, <2>5, <2>7
  <2> QED BY <1>10, <2>6, <2>7 DEF WriteLine
<1>11. CASE Receive
  <2>1. Head(queue) \in Message /\ Tail(queue) \in Seq(Message \cup {Shutdown})
        /\ Len(Tail(queue)) <= Capacity
    BY <1>11 DEF Receive
  <2>2. WriteLine(Head(queue)) /\ pc \in {"loop", "writing"}
    BY <1>11 DEF Receive
  <2>3. /\ buf' \in [Streams -> Seq(Nat)]
        /\ part' \in [Names -> Content \cup {NoFile}]
    BY <1>10, <2>1, <2>2
  <2> QED BY <1>11, <2>1, <2>3 DEF Receive, world
<1>12. CASE ReceiveAndRotate
  BY <1>12 DEF ReceiveAndRotate, world, disk, Active
<1>13. CASE WriteHeld
  <2>1. hand[1] \in Message
    BY <1>13 DEF WriteHeld, MemoryInv
  <2>2. WriteLine(hand[1]) /\ pc \in {"loop", "writing"}
    BY <1>13 DEF WriteHeld
  <2>3. /\ buf' \in [Streams -> Seq(Nat)]
        /\ part' \in [Names -> Content \cup {NoFile}]
    BY <1>10, <2>1, <2>2
  <2> QED BY <1>13, <2>3 DEF WriteHeld, world
<1>14. ASSUME Flush PROVE part' \in [Names -> Content \cup {NoFile}]
                          /\ \A f \in Active : part'[f] \in Content
  <2>1. \A f \in Active : f \in Names /\ part[f] \in Content /\ buf[f[2]] \in Seq(Nat)
    BY NameParts DEF PartInv, Active
  <2>2. \A f \in Active : part[f] \o buf[f[2]] \in Content
    BY <2>1 DEF Content
  <2> QED BY <1>14, <2>1, <2>2 DEF Flush
<1>15. CASE FlushTick
  <2>1. buf' \in [Streams -> Seq(Nat)]
    BY <1>15 DEF FlushTick, Flush, NoBytes
  <2>2. synced' \in [Names -> Nat]
    BY <1>14, <1>15 DEF FlushTick, Content
  <2> QED BY <1>14, <1>15, <2>1, <2>2 DEF FlushTick, world
<1>16. CASE RotateTick
  BY <1>16 DEF RotateTick, world, disk, Active
<1>17. CASE ReceiveShutdown
  BY <1>17 DEF ReceiveShutdown, LeaveLoop, world, disk, Active
<1>18. ASSUME NEW f \in Names, FinalizeSegment(f) PROVE TypeOK'
  <2>1. f \in Active
    BY <1>18 DEF FinalizeSegment, MemoryInv, IsFirst
  <2>2. f[2] \in Streams /\ part[f] \in Content /\ buf[f[2]] \in Seq(Nat)
    BY <2>1, NameParts DEF PartInv, Active
  <2>3. part[f] \o buf[f[2]] \in Content
    BY <2>2 DEF Content
  <2> QED BY <1>18, <2>2, <2>3 DEF FinalizeSegment, world, Stages
<1>19. CASE FinalizeDone
  BY <1>19 DEF FinalizeDone, world, disk
<1>20. ASSUME ForgetMemory
       PROVE  /\ queue' = <<>> /\ hand' = <<>> /\ Len(queue') <= Capacity
              /\ segs' \in [Streams -> Hours \cup {-1}] /\ buf' \in [Streams -> Seq(Nat)]
              /\ todo' = {} /\ readies' = {} /\ stage' \in [Names -> Stages]
  BY <1>20 DEF ForgetMemory, NoSegs, NoBytes, Idle, Stages
<1>21. ASSUME LoseBuffers
       PROVE  /\ ForgetMemory /\ UNCHANGED <<run, ready, temp, zst, sum, synced>>
              /\ part' \in [Names -> Content \cup {NoFile}]
  <2>1. PICK out \in [Streams -> UNION {Outcomes(buf[s]) : s \in Streams}] :
          /\ \A s \in Streams : out[s] \in Outcomes(buf[s])
          /\ part' = [f \in Names |-> IF f \in Active THEN part[f] \o out[f[2]] ELSE part[f]]
    BY <1>21 DEF LoseBuffers
  <2>2. ASSUME NEW s \in Streams PROVE out[s] \in Seq(Nat)
    BY <2>1, OutcomeIsContent
  <2>3. ASSUME NEW f \in Active
        PROVE  part[f] \in Content /\ out[f[2]] \in Seq(Nat)
    <3>1. f \in Names /\ part[f] # NoFile
      BY DEF PartInv, Active
    <3>2. f[2] \in Streams
      BY <3>1, NameParts
    <3> QED BY <2>2, <3>1, <3>2
  <2>4. \A f \in Active : part[f] \o out[f[2]] \in Content
    BY <2>3 DEF Content
  <2>5. part' \in [Names -> Content \cup {NoFile}]
    BY <2>1, <2>4
  <2> QED BY <1>21, <2>5 DEF LoseBuffers
<1>22. CASE WriterFails
  BY <1>20, <1>21, <1>22 DEF WriterFails, world
<1>23. CASE Crash
  BY <1>20, <1>21, <1>23 DEF Crash, world
<1>24. CASE PowerFails
  <2>1. PICK piece \in {<<>>, <<Cut>>} :
          part' = [f \in Names |->
                     IF part[f] = NoFile \/ Len(part[f]) = synced[f] THEN part[f]
                     ELSE SubSeq(part[f], 1, synced[f]) \o piece]
    BY <1>24 DEF PowerFails
  <2>2. ASSUME NEW f \in Names, part[f] # NoFile
        PROVE  SubSeq(part[f], 1, synced[f]) \o piece \in Content
    <3>1. part[f] \in Seq(Nat) /\ synced[f] \in Nat /\ synced[f] <= Len(part[f])
      BY <2>2 DEF PartInv, Content
    <3>2. \A c \in Seq(Nat) : \A k \in 0 .. Len(c) : SubSeq(c, 1, k) \in Seq(Nat)
      OBVIOUS
    <3>3. synced[f] \in 0 .. Len(part[f])
      BY <3>1
    <3>4. SubSeq(part[f], 1, synced[f]) \in Seq(Nat)
      BY <3>1, <3>2, <3>3
    <3>5. piece \in Seq(Nat)
      BY DEF Content
    <3> QED BY <3>4, <3>5 DEF Content
  <2>3. part' \in [Names -> Content \cup {NoFile}]
    BY <2>1, <2>2
  <2>4. /\ ForgetMemory /\ pc' = "down"
        /\ UNCHANGED <<hour, sent, stopping, run, ready, temp, zst, sum, synced>>
    BY <1>24 DEF PowerFails, world
  <2> QED BY <1>20, <2>3, <2>4
<1>25. CASE UNCHANGED vars
  BY <1>25 DEF vars, world, process, disk
<1> QED
  BY <1>1, <1>2, <1>3, <1>4, <1>5, <1>6, <1>7, <1>8, <1>9, <1>11, <1>12, <1>13, <1>15,
     <1>16, <1>17, <1>18, <1>19, <1>22, <1>23, <1>24, <1>25
     DEF Next, Recover, Write, Compress

-----------------------------------------------------------------------------
(* Memory.                                                                 *)

LEMMA Appending ==
  ASSUME NEW S, NEW q \in Seq(S), NEW e \in S
  PROVE  \A i \in 1 .. Len(Append(q, e)) :
           (i \in 1 .. Len(q) /\ Append(q, e)[i] = q[i]) \/ Append(q, e)[i] = e
OBVIOUS

LEMMA MemoryStep == Inv /\ [Next]_vars => MemoryInv'
<1> SUFFICES ASSUME Inv, [Next]_vars PROVE MemoryInv'
  OBVIOUS
<1> USE StorageAssumption, ContentParts DEF Inv, MemoryInv, WriterAlive
<1>1. CASE Tick
  BY <1>1 DEF Tick, process, disk, Active
<1>2. ASSUME NEW s \in Streams, Record(s) PROVE MemoryInv'
  <2> DEFINE m == [stream |-> s, n |-> sent + 1]
  <2>1. /\ ~stopping /\ WriterAlive /\ queue' = Append(queue, m)
        /\ UNCHANGED <<stopping, run, pc, hand, segs, buf, todo>>
    BY <1>2 DEF Record, ProducersRun
  <2>2. m \in Message /\ m # Shutdown
    <3>1. sent + 1 \in 1 .. MaxRecords
      BY <1>2 DEF Record, TypeOK
    <3>2. m \in Message
      BY <3>1 DEF Message
    <3> HIDE DEF m
    <3> QED BY <3>2
  <2>3. queue \in Seq(Message \cup {Shutdown})
    BY DEF TypeOK
  <2> HIDE DEF m
  <2>4. \A i \in 1 .. Len(queue') : queue'[i] # Shutdown
    BY <2>1, <2>2, <2>3, Appending
  <2>5. Active' = Active
    BY <2>1 DEF Active
  <2> QED BY <2>1, <2>4, <2>5
<1>3. CASE SendShutdown
  BY <1>3 DEF SendShutdown, disk, Active
<1>4. CASE Start
  BY <1>4 DEF Start, Runs, TypeOK, NoBytes, NoCut
<1>5. CASE Compress
  <2>1. UNCHANGED <<stopping, run, pc, queue, hand, segs, buf, todo>>
    BY <1>5 DEF Compress, CreateTemp, Encode, Install, Checksum, RemoveReady, world
  <2> QED BY <2>1 DEF Active
<1>6. ASSUME NEW f \in Names, RecoverPartial(f) \/ RecoverReady(f) PROVE MemoryInv'
  <2>1. pc = "recovering" /\ UNCHANGED <<stopping, run, pc, queue, hand, segs, buf>>
    BY <1>6 DEF RecoverPartial, RecoverReady, world
  <2> QED BY <2>1
<1>7. CASE SpawnWriter
  BY <1>7 DEF SpawnWriter, world, disk
<1>8. ASSUME NEW s \in Streams, OpenSegment(s) PROVE MemoryInv'
  BY <1>8 DEF OpenSegment, world, TypeOK, Hours
<1>9. ASSUME NEW m \in Message, WriteLine(m), pc \in {"loop", "writing"}, UNCHANGED segs
      PROVE  \A s \in Streams : NoCut(buf'[s]) /\ (buf'[s] # <<>> => segs'[s] # -1)
  <2>1. buf[m.stream] \in Seq(Nat) /\ NoCut(buf[m.stream]) /\ m.n \in Nat /\ m.n # Cut
    BY DEF TypeOK, Cut
  <2>2. NoCut(Append(buf[m.stream], m.n)) /\ NoCut(<<m.n>>)
    BY <2>1 DEF NoCut
  <2>3. \/ buf' = [buf EXCEPT ![m.stream] = Append(@, m.n)]
        \/ buf' = [buf EXCEPT ![m.stream] = <<m.n>>]
    BY <1>9 DEF WriteLine
  <2> QED BY <1>9, <2>2, <2>3 DEF TypeOK
<1>10. CASE Receive
  <2>1. /\ Head(queue) \in Message /\ WriteLine(Head(queue)) /\ pc = "loop"
        /\ queue' = Tail(queue) /\ UNCHANGED <<stopping, run, pc, hand, segs, todo>>
    BY <1>10 DEF Receive, TypeOK, world
  <2>2. \A s \in Streams : NoCut(buf'[s]) /\ (buf'[s] # <<>> => segs'[s] # -1)
    BY <1>9, <2>1
  <2>3. (\E i \in 1 .. Len(queue') : queue'[i] = Shutdown) => stopping'
    BY <1>10, <2>1 DEF Receive, TypeOK
  <2> QED BY <2>1, <2>2, <2>3
<1>11. CASE ReceiveAndRotate
  <2>1. /\ pc = "loop" /\ pc' = "rotating" /\ todo' = Active
        /\ queue' = Tail(queue) /\ UNCHANGED <<stopping, run, segs, buf>>
    BY <1>11 DEF ReceiveAndRotate, world
  <2>2. (\E i \in 1 .. Len(queue') : queue'[i] = Shutdown) => stopping'
    BY <1>11, <2>1 DEF ReceiveAndRotate, TypeOK
  <2>3. Active' = Active
    BY <2>1 DEF Active
  <2> QED BY <2>1, <2>2, <2>3
<1>12. CASE WriteHeld
  <2>1. /\ hand[1] \in Message /\ WriteLine(hand[1]) /\ pc = "writing" /\ pc' = "loop"
        /\ hand' = <<>> /\ UNCHANGED <<stopping, run, queue, segs, todo>>
    BY <1>12 DEF WriteHeld, TypeOK, world
  <2>2. \A s \in Streams : NoCut(buf'[s]) /\ (buf'[s] # <<>> => segs'[s] # -1)
    BY <1>9, <2>1
  <2> QED BY <2>1, <2>2
<1>13. CASE FlushTick
  <2>1. /\ pc = "loop" /\ UNCHANGED <<stopping, run, pc, queue, hand, segs, todo>>
        /\ buf' = NoBytes
    BY <1>13 DEF FlushTick, Flush, world
  <2> QED BY <2>1 DEF NoBytes, NoCut
<1>14. CASE RotateTick
  BY <1>14 DEF RotateTick, world, disk, Active
<1>15. CASE ReceiveShutdown
  BY <1>15 DEF ReceiveShutdown, LeaveLoop, world, disk, Active, TypeOK
<1>16. ASSUME NEW f \in Names, FinalizeSegment(f) PROVE MemoryInv'
  <2>1. /\ pc \in {"rotating", "closing"} /\ f \in todo /\ todo' = todo \ {f}
        /\ buf' = [buf EXCEPT ![f[2]] = <<>>] /\ segs' = [segs EXCEPT ![f[2]] = -1]
        /\ UNCHANGED <<stopping, run, pc, queue, hand>>
    BY <1>16 DEF FinalizeSegment, IsFirst, world
  <2>2. f \in Active /\ f[2] \in Streams
    BY <2>1, NameParts
  <2>3. Active' = Active \ {f}
    BY <2>1, <2>2, NameParts DEF Active, TypeOK, Hours
  <2>4. \A s \in Streams : NoCut(buf'[s]) /\ (buf'[s] # <<>> => segs'[s] # -1)
    BY <2>1, <2>2 DEF TypeOK, NoCut
  <2> QED BY <2>1, <2>3, <2>4
<1>17. CASE FinalizeDone
  <2>1. /\ pc \in {"rotating", "closing"} /\ todo = {}
        /\ pc' = IF pc = "rotating" THEN "opening" ELSE "stopped"
        /\ UNCHANGED <<stopping, run, queue, hand, segs, buf, todo>>
    BY <1>17 DEF FinalizeDone, world
  <2>2. segs = NoSegs /\ buf = NoBytes
    <3>1. ASSUME NEW s \in Streams, segs[s] # -1 PROVE FALSE
      <4>1. segs[s] \in Hours /\ run \in Runs
        BY <2>1, <3>1 DEF TypeOK
      <4>2. <<run, s, segs[s]>> \in Active
        BY <4>1, NameParts DEF Active
      <4> QED BY <2>1, <4>2
    <3> QED BY <3>1 DEF NoSegs, NoBytes, TypeOK
  <2> QED BY <2>1, <2>2
<1>18. CASE WriterFails \/ Crash \/ PowerFails
  <2>1. ForgetMemory /\ UNCHANGED <<stopping, run>> /\ pc' \in {"down", "failed"}
        /\ (pc' = "failed" => pc # "down")
    BY <1>18 DEF WriterFails, Crash, PowerFails, LoseBuffers, world
  <2> QED BY <2>1 DEF ForgetMemory, NoBytes, NoCut
<1>19. CASE UNCHANGED vars
  BY <1>19 DEF vars, world, process, disk, Active
<1> QED
  BY <1>1, <1>2, <1>3, <1>4, <1>5, <1>6, <1>7, <1>8, <1>10, <1>11, <1>12, <1>13, <1>14,
     <1>15, <1>16, <1>17, <1>18, <1>19
     DEF Next, Recover, Write

-----------------------------------------------------------------------------
(* Open files.                                                             *)

LEMMA Joining ==
  ASSUME NEW c \in Content, NEW d \in Seq(Nat), NoCut(c)
  PROVE  /\ CutIsLast(d) => CutIsLast(c \o d)
         /\ NoCut(d) => NoCut(c \o d)
         /\ c \o d \in Content /\ Len(c \o d) = Len(c) + Len(d)
         /\ Len(c) \in Nat /\ Len(d) \in Nat /\ Len(c \o d) \in Nat
         /\ Len(c) <= Len(c \o d)
<1>1. c \in Seq(Nat)
  BY DEF Content
<1>2. /\ Len(c) \in Nat /\ Len(d) \in Nat /\ Len(c \o d) = Len(c) + Len(d)
      /\ \A i \in 1 .. Len(c \o d) :
           (c \o d)[i] = IF i <= Len(c) THEN c[i] ELSE d[i - Len(c)]
  BY <1>1
<1>3. c \o d \in Content
  BY <1>1 DEF Content
<1>4. Len(c) <= Len(c \o d)
  <2>1. \A a, b \in Nat : a <= a + b
    OBVIOUS
  <2>2. Len(c) <= Len(c) + Len(d)
    BY <1>2, <2>1
  <2> QED BY <1>2, <2>2
<1>5. Len(c \o d) \in Nat
  BY <1>2
<1>6. (CutIsLast(d) => CutIsLast(c \o d)) /\ (NoCut(d) => NoCut(c \o d))
  BY <1>2 DEF NoCut, CutIsLast
<1> QED BY <1>2, <1>3, <1>4, <1>5, <1>6

LEMMA Pieces ==
  ASSUME NEW piece \in {<<>>, <<Cut>>}
  PROVE  piece \in Seq(Nat) /\ CutIsLast(piece) /\ Len(piece) \in Nat
<1>1. CASE piece = <<>>
  BY <1>1 DEF CutIsLast
<1>2. CASE piece = <<Cut>>
  <2>1. Len(piece) = 1 /\ piece \in Seq(Nat)
    BY <1>2 DEF Cut
  <2> QED BY <2>1 DEF CutIsLast
<1> QED BY <1>1, <1>2

\* A segment is opened, or taken for finalization.
LEMMA ActiveOpened ==
  ASSUME TypeOK, run \in Runs, NEW s \in Streams, segs[s] = -1,
         run' = run, segs' = [segs EXCEPT ![s] = hour]
  PROVE  Active' = Active \cup {<<run, s, hour>>}
<1> DEFINE f == <<run, s, hour>>
<1>1. f \in Names /\ f[1] = run /\ f[2] = s /\ f[3] = hour /\ hour # -1
  BY NameParts DEF TypeOK, Hours
<1>2. segs'[s] = hour /\ \A t \in Streams \ {s} : segs'[t] = segs[t]
  BY DEF TypeOK
<1> HIDE DEF f
<1>3. ASSUME NEW g \in Names PROVE g \in Active' <=> g \in Active \/ g = f
  <2>1. g[1] \in Runs /\ g[2] \in Streams /\ g[3] \in Hours /\ g[3] # -1
    BY NameParts DEF Hours
  <2>2. CASE g[2] = s
    <3>1. g \in Active' <=> g[1] = run /\ g[3] = hour
      BY <1>2, <2>2 DEF Active
    <3>2. g \notin Active
      BY <2>1, <2>2 DEF Active
    <3>3. g = f <=> g[1] = run /\ g[3] = hour
      BY <1>1, <2>2, NameParts
    <3> QED BY <3>1, <3>2, <3>3
  <2>3. CASE g[2] # s
    BY <1>1, <1>2, <2>1, <2>3 DEF Active
  <2> QED BY <2>2, <2>3
<1> QED BY <1>1, <1>3 DEF Active, f

LEMMA ActiveTaken ==
  ASSUME TypeOK, NEW f \in Active, run' = run, segs' = [segs EXCEPT ![f[2]] = -1]
  PROVE  Active' = Active \ {f}
<1>1. f \in Names /\ f[1] = run /\ f[2] \in Streams /\ f[3] = segs[f[2]]
  BY NameParts DEF Active
<1>2. segs'[f[2]] = -1 /\ \A t \in Streams \ {f[2]} : segs'[t] = segs[t]
  BY <1>1 DEF TypeOK
<1>3. ASSUME NEW g \in Names PROVE g \in Active' <=> g \in Active /\ g # f
  <2>1. g[2] \in Streams /\ g[3] # -1
    BY NameParts DEF Hours
  <2>2. CASE g[2] = f[2]
    <3>1. g \notin Active'
      BY <1>2, <2>1, <2>2 DEF Active
    <3>2. g \in Active => g = f
      BY <1>1, <2>2, NameParts DEF Active
    <3> QED BY <3>1, <3>2
  <2>3. CASE g[2] # f[2]
    BY <1>2, <2>1, <2>3 DEF Active
  <2> QED BY <2>2, <2>3
<1> QED BY <1>3 DEF Active

LEMMA PartStep == Inv /\ [Next]_vars => PartInv'
<1> SUFFICES ASSUME Inv, [Next]_vars PROVE PartInv'
  OBVIOUS
<1> USE StorageAssumption, ContentParts DEF Inv, PartInv, WriterAlive
<1>a. \A f \in Names : part[f] # NoFile => part[f] \in Content /\ Len(part[f]) \in Nat
  BY DEF TypeOK, IsContents, Content
<1>1. CASE Tick
  BY <1>1 DEF Tick, process, disk, Active
<1>2. ASSUME NEW s \in Streams, Record(s) PROVE PartInv'
  BY <1>2 DEF Record, disk, Active
<1>3. CASE SendShutdown
  BY <1>3 DEF SendShutdown, disk, Active
<1>4. CASE Start
  <2>1. /\ pc' = "recovering" /\ todo' = {f \in Names : part[f] # NoFile}
        /\ UNCHANGED <<segs, part, synced>>
    BY <1>4 DEF Start, disk
  <2>2. segs = NoSegs
    BY <1>4 DEF Start, MemoryInv
  <2>3. Active' = {}
    BY <2>1, <2>2, NameParts DEF Active, NoSegs, Hours
  <2> QED BY <2>1, <2>3
<1>5. CASE Compress
  <2>1. UNCHANGED <<run, pc, segs, todo, part, synced>>
    BY <1>5 DEF Compress, CreateTemp, Encode, Install, Checksum, RemoveReady, world
  <2> QED BY <2>1 DEF Active
<1>6. ASSUME NEW f \in Names, RecoverPartial(f) PROVE PartInv'
  <2>1. /\ pc = "recovering" /\ todo' = todo \ {f} /\ UNCHANGED <<run, pc, segs>>
        /\ part' = [part EXCEPT ![f] = NoFile] /\ synced' = [synced EXCEPT ![f] = 0]
    BY <1>6 DEF RecoverPartial, world
  <2>2. Active' = {}
    BY <2>1, NameParts DEF Active, NoSegs, Hours, MemoryInv
  <2> QED BY <2>1, <2>2 DEF TypeOK, IsContents
<1>7. ASSUME NEW f \in Names, RecoverReady(f) PROVE PartInv'
  BY <1>7 DEF RecoverReady, world, disk, Active
<1>8. CASE SpawnWriter
  BY <1>8 DEF SpawnWriter, world, disk, Active
<1>9. ASSUME NEW s \in Streams, OpenSegment(s) PROVE PartInv'
  <2> DEFINE f == <<run, s, hour>>
  <2>1. f \in Names /\ f[1] = run /\ f[2] = s /\ f[3] = hour
    BY <1>9, NameParts DEF OpenSegment, MemoryInv, TypeOK
  <2>2. /\ pc = "opening" /\ pc' # "recovering" /\ segs[s] = -1
        /\ segs' = [segs EXCEPT ![s] = hour] /\ UNCHANGED <<run, synced>>
        /\ part' = [part EXCEPT ![f] = IF @ = NoFile THEN <<>> ELSE @]
    BY <1>9 DEF OpenSegment, world
  <2> HIDE DEF f
  <2>3. f \notin Active
    BY <2>1, <2>2 DEF Active, TypeOK, Hours
  <2>4. part[f] = NoFile
    BY <2>1, <2>2, <2>3
  <2>5. part' = [part EXCEPT ![f] = <<>>]
    BY <2>2, <2>4
  <2>6. Active' = Active \cup {f}
    BY <1>9, <2>2, ActiveOpened DEF OpenSegment, MemoryInv, f
  <2>7. synced[f] = 0
    BY <2>1, <2>4
  <2> QED BY <1>a, <2>1, <2>2, <2>5, <2>6, <2>7 DEF NoCut, CutIsLast, TypeOK, IsContents
<1>10. ASSUME NEW out \in [Streams -> Seq(Nat)],
              \A s \in Streams : CutIsLast(out[s]),
              part' = [f \in Names |-> IF f \in Active THEN part[f] \o out[f[2]] ELSE part[f]],
              WriterAlive \/ Active = {}
       PROVE  \A f \in Names :
                /\ part'[f] = NoFile <=> part[f] = NoFile
                /\ part[f] # NoFile => /\ CutIsLast(part'[f]) /\ part'[f] \in Content
                                       /\ Len(part[f]) <= Len(part'[f])
                /\ f \in Active /\ NoCut(out[f[2]]) => NoCut(part'[f])
  <2>1. ASSUME NEW f \in Active
        PROVE  /\ part[f] \in Content /\ NoCut(part[f]) /\ out[f[2]] \in Seq(Nat)
               /\ part'[f] = part[f] \o out[f[2]] /\ CutIsLast(out[f[2]])
    <3>1. f \in Names /\ f[2] \in Streams
      BY NameParts DEF Active
    <3> QED BY <1>a, <1>10, <3>1
  <2>2. ASSUME NEW f \in Active
        PROVE  /\ part'[f] \in Content /\ CutIsLast(part'[f])
               /\ NoCut(out[f[2]]) => NoCut(part'[f])
               /\ Len(part[f]) <= Len(part'[f])
    <3>1. /\ CutIsLast(part[f] \o out[f[2]])
          /\ NoCut(out[f[2]]) => NoCut(part[f] \o out[f[2]])
          /\ part[f] \o out[f[2]] \in Content
          /\ Len(part[f]) <= Len(part[f] \o out[f[2]])
      BY <2>1, Joining
    <3> QED BY <2>1, <3>1
  <2>3. ASSUME NEW f \in Names, f \notin Active PROVE part'[f] = part[f]
    BY <1>10, <2>3
  <2> QED BY <1>a, <2>2, <2>3
<1>11. ASSUME NEW m \in Message, WriteLine(m), pc \in {"loop", "writing"},
              pc' \in {"loop", "writing"}, UNCHANGED <<run, segs, synced>>
       PROVE  PartInv'
  <2>1. Active' = Active
    BY <1>11 DEF Active
  <2>2. CASE UNCHANGED part
    BY <1>11, <2>1, <2>2
  <2>3. CASE part' = [part EXCEPT ![<<run, m.stream, segs[m.stream]>>] = @ \o buf[m.stream]]
    <3> DEFINE g == <<run, m.stream, segs[m.stream]>>
    <3>1. g \in Active /\ g \in Names /\ g[2] = m.stream
      BY <1>11, NameParts DEF Active, MemoryInv, TypeOK
    <3>2. part[g] \in Content /\ NoCut(part[g]) /\ buf[m.stream] \in Seq(Nat) /\ NoCut(buf[m.stream])
      BY <1>a, <1>11, <3>1 DEF MemoryInv, TypeOK
    <3>3. /\ NoCut(part[g] \o buf[m.stream]) /\ part[g] \o buf[m.stream] \in Content
          /\ Len(part[g]) <= Len(part[g] \o buf[m.stream])
          /\ Len(part[g]) \in Nat /\ Len(part[g] \o buf[m.stream]) \in Nat
      BY <3>2, Joining
    <3>4. part' = [part EXCEPT ![g] = part[g] \o buf[m.stream]]
      BY <2>3
    <3> HIDE DEF g
    <3>5. CutIsLast(part[g] \o buf[m.stream])
      BY <3>3 DEF NoCut, CutIsLast
    <3>6. synced[g] <= Len(part[g] \o buf[m.stream])
      <4>1. synced[g] \in Nat /\ synced[g] <= Len(part[g])
        BY <3>1, <3>2 DEF TypeOK
      <4>2. \A a, b, c \in Nat : a <= b /\ b <= c => a <= c
        OBVIOUS
      <4> QED BY <3>3, <4>1, <4>2
    <3> DEFINE new == part[g] \o buf[m.stream]
    <3>7. new \in Content /\ NoCut(new) /\ CutIsLast(new) /\ synced[g] <= Len(new)
      BY <3>3, <3>5, <3>6
    <3> HIDE DEF new
    <3>8. part'[g] = new /\ \A f \in Names \ {g} : part'[f] = part[f]
      BY <3>1, <3>4 DEF TypeOK, IsContents, new
    <3>9. new # NoFile
      BY <3>7
    <3>10. \A f \in Names :
             IF part'[f] = NoFile THEN synced'[f] = 0
             ELSE CutIsLast(part'[f]) /\ synced'[f] <= Len(part'[f])
      <4>1. synced' = synced
        BY <1>11
      <4> QED BY <3>7, <3>8, <3>9, <4>1
    <3>11. \A f \in Active' : part'[f] # NoFile
      BY <2>1, <3>1, <3>8, <3>9 DEF Active
    <3>12. \A f \in Names : part'[f] # NoFile => f \in Active' /\ NoCut(part'[f])
      BY <1>11, <2>1, <3>1, <3>7, <3>8
    <3>13. pc' # "recovering"
      BY <1>11
    <3> QED BY <3>10, <3>11, <3>12, <3>13
  <2> QED BY <1>11, <2>2, <2>3 DEF WriteLine
<1>12. CASE Receive
  BY <1>11, <1>12 DEF Receive, TypeOK, world
<1>13. CASE WriteHeld
  <2>1. hand[1] \in Message
    BY <1>13 DEF WriteHeld, MemoryInv, TypeOK
  <2> QED BY <1>11, <1>13, <2>1 DEF WriteHeld, world
<1>14. CASE ReceiveAndRotate \/ RotateTick \/ ReceiveShutdown
  BY <1>14 DEF ReceiveAndRotate, RotateTick, ReceiveShutdown, LeaveLoop, world, disk, Active
<1>15. CASE FlushTick
  <2>1. buf \in [Streams -> Seq(Nat)] /\ \A s \in Streams : NoCut(buf[s]) /\ CutIsLast(buf[s])
    BY DEF TypeOK, MemoryInv, NoCut, CutIsLast
  <2>2. /\ pc = "loop" /\ UNCHANGED <<run, pc, segs, todo>>
        /\ part' = [f \in Names |-> IF f \in Active THEN part[f] \o buf[f[2]] ELSE part[f]]
        /\ \/ synced' = synced
           \/ synced' = [f \in Names |-> IF f \in Active THEN Len(part'[f]) ELSE synced[f]]
    BY <1>15 DEF FlushTick, Flush, world
  <2>3. Active' = Active /\ \A f \in Active : f \in Names /\ f[2] \in Streams
    BY <2>2, NameParts DEF Active
  <2>4. \A f \in Names :
          /\ part'[f] = NoFile <=> part[f] = NoFile
          /\ part[f] # NoFile => /\ CutIsLast(part'[f]) /\ part'[f] \in Content
                                 /\ Len(part[f]) <= Len(part'[f])
          /\ f \in Active => NoCut(part'[f])
    BY <1>10, <2>1, <2>2, <2>3
  <2>5. \A f \in Names : part'[f] \in Content => Len(part'[f]) \in Nat
    BY DEF Content
  <2>6. ASSUME NEW f \in Names
        PROVE IF part'[f] = NoFile THEN synced'[f] = 0 ELSE synced'[f] <= Len(part'[f])
    <3>1. synced[f] \in Nat
      BY DEF TypeOK
    <3>2. CASE part[f] = NoFile
      <4>1. f \notin Active
        BY <3>2
      <4> QED BY <2>2, <2>4, <3>2, <4>1
    <3>3. CASE part[f] # NoFile
      <4>1. /\ Len(part[f]) \in Nat /\ Len(part'[f]) \in Nat /\ Len(part[f]) <= Len(part'[f])
            /\ part'[f] # NoFile /\ synced[f] <= Len(part[f])
        BY <1>a, <2>4, <2>5, <3>3
      <4>2. synced'[f] \in {synced[f], Len(part'[f])}
        BY <2>2
      <4> QED BY <3>1, <4>1, <4>2
    <3> QED BY <3>2, <3>3
  <2> QED BY <2>2, <2>3, <2>4, <2>6
<1>16. ASSUME NEW f \in Names, FinalizeSegment(f) PROVE PartInv'
  <2>1. /\ pc \in {"rotating", "closing"} /\ f \in todo
        /\ segs' = [segs EXCEPT ![f[2]] = -1] /\ UNCHANGED <<run, pc>>
        /\ part' = [part EXCEPT ![f] = NoFile] /\ synced' = [synced EXCEPT ![f] = 0]
    BY <1>16 DEF FinalizeSegment, IsFirst, world
  <2>2. f \in Active /\ f[2] \in Streams
    BY <2>1, NameParts DEF MemoryInv
  <2>3. Active' = Active \ {f}
    BY <2>1, <2>2, ActiveTaken
  <2> QED BY <2>1, <2>2, <2>3 DEF TypeOK, IsContents
<1>17. CASE FinalizeDone
  BY <1>17 DEF FinalizeDone, world, disk, Active
<1>18. ASSUME ForgetMemory PROVE Active' = {}
  BY <1>18, NameParts DEF ForgetMemory, Active, NoSegs, Hours
<1>19. CASE WriterFails \/ Crash
  <2>1. ForgetMemory /\ LoseBuffers /\ UNCHANGED synced /\ pc' \in {"down", "failed"}
    BY <1>19 DEF WriterFails, Crash, LoseBuffers
  <2>2. PICK out \in [Streams -> UNION {Outcomes(buf[s]) : s \in Streams}] :
          /\ \A s \in Streams : out[s] \in Outcomes(buf[s])
          /\ part' = [f \in Names |-> IF f \in Active THEN part[f] \o out[f[2]] ELSE part[f]]
    BY <2>1 DEF LoseBuffers
  <2>3. \A s \in Streams : out[s] \in Seq(Nat) /\ CutIsLast(out[s])
    BY <2>2, OutcomeIsContent DEF TypeOK, MemoryInv
  <2>4. out \in [Streams -> Seq(Nat)]
    BY <2>3
  <2>5. WriterAlive \/ Active = {}
    BY NameParts DEF MemoryInv, Active, NoSegs, Hours
  <2>6. \A f \in Names :
          /\ part'[f] = NoFile <=> part[f] = NoFile
          /\ part[f] # NoFile => CutIsLast(part'[f]) /\ part'[f] \in Content
                                 /\ Len(part[f]) <= Len(part'[f])
    BY <1>10, <2>2, <2>3, <2>4, <2>5
  <2>7. \A f \in Names : part'[f] \in Content => Len(part'[f]) \in Nat
    BY DEF Content
  <2>8. ASSUME NEW f \in Names, part'[f] # NoFile PROVE synced[f] <= Len(part'[f])
    <3>1. /\ Len(part[f]) \in Nat /\ Len(part'[f]) \in Nat /\ Len(part[f]) <= Len(part'[f])
          /\ synced[f] <= Len(part[f])
      BY <1>a, <2>6, <2>7, <2>8
    <3>2. synced[f] \in Nat
      BY DEF TypeOK
    <3> QED BY <3>1, <3>2
  <2> QED BY <1>18, <2>1, <2>6, <2>8
<1>20. CASE PowerFails
  <2>1. ForgetMemory /\ UNCHANGED synced /\ pc' = "down"
    BY <1>20 DEF PowerFails
  <2>2. PICK piece \in {<<>>, <<Cut>>} :
          part' = [f \in Names |->
                     IF part[f] = NoFile \/ Len(part[f]) = synced[f] THEN part[f]
                     ELSE SubSeq(part[f], 1, synced[f]) \o piece]
    BY <1>20 DEF PowerFails
  <2>3. ASSUME NEW c \in Content, NEW n \in Nat, n < Len(c), CutIsLast(c)
        PROVE  /\ SubSeq(c, 1, n) \o piece \in Content
               /\ CutIsLast(SubSeq(c, 1, n) \o piece)
               /\ n <= Len(SubSeq(c, 1, n) \o piece)
    <3> DEFINE d == SubSeq(c, 1, n)
    <3>1. d \in Content /\ Len(d) = n /\ \A i \in 1 .. n : d[i] = c[i]
      BY <2>3 DEF Content
    <3>2. NoCut(d)
      BY <2>3, <3>1 DEF NoCut, CutIsLast, Content
    <3>3. piece \in Seq(Nat) /\ CutIsLast(piece) /\ Len(piece) \in Nat
      BY Pieces
    <3> HIDE DEF d
    <3>4. CutIsLast(d \o piece) /\ Len(d \o piece) = Len(d) + Len(piece)
          /\ d \o piece \in Content
      BY <3>1, <3>2, <3>3, Joining
    <3>6. n <= Len(d \o piece)
      BY <3>1, <3>3, <3>4
    <3> QED BY <3>4, <3>6 DEF d
  <2>4. ASSUME NEW f \in Names, part[f] # NoFile
        PROVE  part'[f] # NoFile /\ CutIsLast(part'[f]) /\ synced[f] <= Len(part'[f])
    <3>1. part[f] \in Content /\ synced[f] \in Nat /\ Len(part[f]) \in Nat
          /\ synced[f] <= Len(part[f]) /\ CutIsLast(part[f])
      BY <1>a, <2>4 DEF TypeOK
    <3>2. CASE Len(part[f]) = synced[f]
      BY <2>2, <2>4, <3>1, <3>2
    <3>3. CASE synced[f] < Len(part[f])
      BY <2>2, <2>3, <2>4, <3>1, <3>3
    <3> QED BY <3>1, <3>2, <3>3
  <2>5. \A f \in Names : part[f] = NoFile => part'[f] = NoFile
    BY <2>2
  <2> QED BY <1>18, <2>1, <2>4, <2>5
<1>21. CASE UNCHANGED vars
  BY <1>21 DEF vars, world, process, disk, Active
<1> QED
  BY <1>1, <1>2, <1>3, <1>4, <1>5, <1>6, <1>7, <1>8, <1>9, <1>12, <1>13, <1>14, <1>15,
     <1>16, <1>17, <1>19, <1>20, <1>21
     DEF Next, Recover, Write

-----------------------------------------------------------------------------
(* Finalization and recovery.                                              *)

\* A file that is made .ready starts its compression.
LEMMA ReadyStep ==
  ASSUME Inv, NEW f \in Names, NEW c \in Content, NoCut(c),
         ready' = [ready EXCEPT ![f] = c], part' = [part EXCEPT ![f] = NoFile],
         stage' = [stage EXCEPT ![f] = "create"], stage[f] = "idle",
         pc \in {"recovering", "rotating", "closing"},
         pc # "recovering" => f[1] = run,
         UNCHANGED <<run, pc, readies, temp, zst, sum>>
  PROVE  StageInv'
<1> USE DEF Inv, StageInv, WriterAlive, Unfinished
<1>1. c # NoFile
  BY ContentParts
<1>2. /\ ready'[f] = c /\ part'[f] = NoFile /\ stage'[f] = "create"
      /\ \A g \in Names \ {f} : /\ ready'[g] = ready[g] /\ part'[g] = part[g]
                                /\ stage'[g] = stage[g]
  BY DEF TypeOK, IsContents
<1> QED BY <1>1, <1>2

LEMMA StageStep == Inv /\ [Next]_vars => StageInv'
<1> SUFFICES ASSUME Inv, [Next]_vars PROVE StageInv'
  OBVIOUS
<1> USE StorageAssumption, ContentParts DEF Inv, StageInv, WriterAlive, Unfinished
<1>1. CASE Tick
  BY <1>1 DEF Tick, process, disk
<1>2. ASSUME NEW s \in Streams, Record(s) PROVE StageInv'
  BY <1>2 DEF Record, disk
<1>3. CASE SendShutdown
  BY <1>3 DEF SendShutdown, disk
<1>4. CASE Start
  BY <1>4 DEF Start, ReadyListed, disk
<1>5. ASSUME NEW f \in Names, CreateTemp(f) PROVE StageInv'
  BY <1>5 DEF CreateTemp, world, TypeOK, IsContents
<1>6. ASSUME NEW f \in Names, Encode(f) PROVE StageInv'
  BY <1>6 DEF Encode, world, TypeOK, IsContents
<1>7. ASSUME NEW f \in Names, Install(f) PROVE StageInv'
  BY <1>7 DEF Install, world, TypeOK, IsContents
<1>8. ASSUME NEW f \in Names, Checksum(f) PROVE StageInv'
  BY <1>8 DEF Checksum, world, TypeOK, IsContents
<1>9. ASSUME NEW f \in Names, RemoveReady(f) PROVE StageInv'
  BY <1>9 DEF RemoveReady, world, TypeOK, IsContents
<1>10. ASSUME NEW f \in Names, RecoverPartial(f) PROVE StageInv'
  <2>1. part[f] \in Content /\ CutIsLast(part[f])
    BY <1>10 DEF RecoverPartial, PartInv, IsFirst, TypeOK, IsContents
  <2>2. TruncateToLastNewline(part[f]) \in Content /\ NoCut(TruncateToLastNewline(part[f]))
    BY <2>1, WholeIsContent DEF TruncateToLastNewline
  <2> QED BY <1>10, <2>2, ReadyStep DEF RecoverPartial, Compressing, world
<1>11. ASSUME NEW f \in Names, RecoverReady(f) PROVE StageInv'
  BY <1>11 DEF RecoverReady, world, disk, Compressing, TypeOK
<1>12. CASE SpawnWriter
  BY <1>12 DEF SpawnWriter, world, disk, Compressing, PartInv
<1>13. ASSUME NEW s \in Streams, OpenSegment(s) PROVE StageInv'
  <2> DEFINE f == <<run, s, hour>>
  <2>1. f \in Names /\ f[1] = run
    BY <1>13, NameParts DEF OpenSegment, MemoryInv, TypeOK
  <2> HIDE DEF f
  <2>2. /\ pc = "opening" /\ pc' \in {"opening", "writing", "loop"}
        /\ \A g \in Names \ {f} : part'[g] = part[g]
        /\ UNCHANGED <<run, readies, stage, ready, temp, zst, sum>>
    BY <1>13 DEF OpenSegment, world, TypeOK, IsContents, f
  <2> QED BY <2>1, <2>2
\* Steps of the loop leave everything but the open files alone.
<1>14. ASSUME pc \in {"loop", "writing"}, pc' \in {"loop", "writing", "rotating", "closing"},
              \A f \in Names : part'[f] # NoFile => f \in Active,
              UNCHANGED <<run, readies, stage, ready, temp, zst, sum>>
       PROVE  StageInv'
  BY <1>14 DEF Active
<1>15. ASSUME NEW m \in Message, WriteLine(m)
       PROVE  \A f \in Names : part'[f] # NoFile => part[f] # NoFile \/ f \in Active
  <2> DEFINE g == <<run, m.stream, segs[m.stream]>>
  <2>1. /\ g[1] = run /\ g[2] = m.stream /\ g[3] = segs[m.stream]
    OBVIOUS
  <2>2. UNCHANGED part \/ part' = [part EXCEPT ![g] = @ \o buf[m.stream]]
    BY <1>15 DEF WriteLine
  <2> HIDE DEF g
  <2>3. \A f \in Names : f # g => part'[f] = part[f]
    BY <2>2 DEF TypeOK, IsContents
  <2>4. g \in Names => g \in Active
    BY <2>1 DEF Active
  <2> QED BY <2>3, <2>4
<1>16. CASE Receive
  <2>1. Head(queue) \in Message /\ WriteLine(Head(queue)) /\ pc = "loop" /\ UNCHANGED pc
    BY <1>16 DEF Receive, TypeOK, world
  <2>2. \A f \in Names : part'[f] # NoFile => f \in Active
    BY <1>15, <2>1 DEF PartInv
  <2> QED BY <1>14, <1>16, <2>1, <2>2 DEF Receive, world
<1>17. CASE WriteHeld
  <2>1. hand[1] \in Message /\ WriteLine(hand[1]) /\ pc = "writing" /\ pc' = "loop"
    BY <1>17 DEF WriteHeld, MemoryInv, TypeOK
  <2>2. \A f \in Names : part'[f] # NoFile => f \in Active
    BY <1>15, <2>1 DEF PartInv
  <2> QED BY <1>14, <1>17, <2>1, <2>2 DEF WriteHeld, world
<1>18. CASE ReceiveAndRotate \/ RotateTick \/ ReceiveShutdown
  <2>1. \A f \in Names : part'[f] # NoFile => f \in Active
    BY <1>18 DEF ReceiveAndRotate, RotateTick, ReceiveShutdown, disk, PartInv
  <2> QED BY <1>14, <1>18, <2>1
          DEF ReceiveAndRotate, RotateTick, ReceiveShutdown, LeaveLoop, world, disk
<1>19. CASE FlushTick
  <2>1. \A f \in Names : part'[f] # NoFile => f \in Active
    BY <1>19 DEF FlushTick, Flush, PartInv
  <2> QED BY <1>14, <1>19, <2>1 DEF FlushTick, world
<1>20. ASSUME NEW f \in Names, FinalizeSegment(f) PROVE StageInv'
  <2>1. f \in Active
    BY <1>20 DEF FinalizeSegment, IsFirst, MemoryInv
  <2>2. /\ f[2] \in Streams /\ f[1] = run /\ part[f] \in Content /\ NoCut(part[f])
        /\ buf[f[2]] \in Seq(Nat) /\ NoCut(buf[f[2]])
    BY <1>20, <2>1, NameParts DEF FinalizeSegment, Active, PartInv, MemoryInv, TypeOK, IsContents
  <2>3. part[f] \o buf[f[2]] \in Content /\ NoCut(part[f] \o buf[f[2]])
    BY <2>2, Joining
  <2>4. /\ ready' = [ready EXCEPT ![f] = part[f] \o buf[f[2]]]
        /\ part' = [part EXCEPT ![f] = NoFile] /\ stage' = [stage EXCEPT ![f] = "create"]
        /\ stage[f] = "idle" /\ pc \in {"rotating", "closing"}
        /\ UNCHANGED <<run, pc, readies, temp, zst, sum>>
    BY <1>20 DEF FinalizeSegment, Compressing, world
  <2> DEFINE c == part[f] \o buf[f[2]]
  <2>5. c \in Content /\ NoCut(c) /\ ready' = [ready EXCEPT ![f] = c]
    BY <2>3, <2>4
  <2> HIDE DEF c
  <2> QED BY <2>2, <2>4, <2>5, ReadyStep
<1>21. CASE FinalizeDone
  <2>1. \A f \in Names : ready[f] = NoFile /\ temp[f] = NoFile /\ stage[f] = "idle"
    BY <1>21 DEF FinalizeDone, Compressing
  <2>2. \A f \in Names : part[f] = NoFile
    BY <1>21 DEF FinalizeDone, MemoryInv, PartInv
  <2> QED BY <1>21, <2>1, <2>2 DEF FinalizeDone, world, disk
<1>22. ASSUME ForgetMemory, UNCHANGED <<ready, temp, zst, sum>>, pc' = "down"
       PROVE  StageInv'
  BY <1>22 DEF ForgetMemory, Idle
<1>23. CASE WriterFails
  <2>1. /\ ForgetMemory /\ UNCHANGED <<run, ready, temp, zst, sum>> /\ pc' = "failed"
        /\ \A f \in Names \ Active : part'[f] = part[f]
    BY <1>23 DEF WriterFails, LoseBuffers
  <2>2. \A f \in Names : part'[f] # NoFile => f[1] = run
    BY <1>23, <2>1 DEF WriterFails, Active
  <2> QED BY <1>23, <2>1, <2>2 DEF WriterFails, ForgetMemory, Idle
<1>24. CASE Crash \/ PowerFails
  BY <1>22, <1>24 DEF Crash, PowerFails, LoseBuffers
<1>25. CASE UNCHANGED vars
  BY <1>25 DEF vars, world, process, disk
<1> QED
  BY <1>1, <1>2, <1>3, <1>4, <1>5, <1>6, <1>7, <1>8, <1>9, <1>10, <1>11, <1>12, <1>13,
     <1>16, <1>17, <1>18, <1>19, <1>20, <1>21, <1>23, <1>24, <1>25
     DEF Next, Recover, Write, Compress

-----------------------------------------------------------------------------
(* Theorems.                                                               *)

LEMMA InvInit == Init => Inv
<1> SUFFICES ASSUME Init PROVE Inv
  OBVIOUS
<1> USE StorageAssumption, ContentParts DEF Init
<1>1. TypeOK
  <2>1. /\ part \in [Names -> Content \cup {NoFile}] /\ synced \in [Names -> Nat]
        /\ ready = part /\ temp = part /\ zst = part /\ sum = part
    OBVIOUS
  <2>2. stage \in [Names -> Stages] /\ segs \in [Streams -> Hours \cup {-1}]
        /\ buf \in [Streams -> Seq(Nat)]
    BY DEF NoSegs, NoBytes, Idle, Stages
  <2>3. /\ hour \in Hours /\ sent \in 0 .. MaxRecords /\ run \in 0 .. MaxRuns
        /\ queue \in Seq(Message \cup {Shutdown}) /\ hand \in Seq(Message)
        /\ Len(queue) <= Capacity /\ Len(hand) <= 1
    BY DEF Hours
  <2> QED BY <2>1, <2>2, <2>3 DEF TypeOK, IsContents
<1>2. MemoryInv
  BY DEF MemoryInv, WriterAlive, NoBytes, NoCut
<1>3. PartInv
  BY NameParts DEF PartInv, WriterAlive, Active, NoSegs, Hours
<1>4. StageInv
  BY DEF StageInv, WriterAlive, Unfinished, Idle
<1> QED BY <1>1, <1>2, <1>3, <1>4 DEF Inv

LEMMA Invariance == Spec => []Inv
<1>1. Inv /\ [Next]_vars => Inv'
  BY TypeStep, MemoryStep, PartStep, StageStep DEF Inv
<1> QED BY InvInit, <1>1, PTL DEF Spec

\* Every file, buffer and queue of the storage keeps its type, the channel its
\* capacity.
THEOREM TypeCorrect == Spec => []TypeOK
<1>1. Inv => TypeOK
  BY DEF Inv
<1> QED BY <1>1, Invariance, PTL

\* However often writer, process or machine fail, and wherever they stop
\* compress_ready_file or recover_abandoned_segments: a finalized file holds
\* whole lines, and once its .ready is gone its checksum is that of its contents.
THEOREM FinalFilesSound == Spec => []FinalFilesAreSound
<1>1. Inv => FinalFilesAreSound
  <2> SUFFICES ASSUME Inv, NEW f \in Names, zst[f] # NoFile
               PROVE  /\ Cut \notin ToSet(zst[f])
                      /\ ready[f] = NoFile => sum[f] = zst[f]
    BY DEF FinalFilesAreSound
  <2>1. zst[f] \in Seq(Nat) /\ NoCut(zst[f])
    BY DEF Inv, StageInv, TypeOK, IsContents, Content
  <2>2. Cut \notin ToSet(zst[f])
    BY <2>1 DEF NoCut, ToSet
  <2> QED BY <2>2 DEF Inv, StageInv
<1> QED BY <1>1, Invariance, PTL

\* start_storage spawns the writer only when no earlier run has an unfinished
\* file, and a writer that ends in order leaves none of its own.
THEOREM OnlyOneRunOpen == Spec => []OnlyTheRunIsOpen
<1>1. Inv => OnlyTheRunIsOpen
  <2> SUFFICES ASSUME Inv PROVE OnlyTheRunIsOpen
    OBVIOUS
  <2>1. ASSUME pc = "stopped" PROVE InMemory = {}
    <3>1. queue = <<>> /\ hand = <<>> /\ buf = NoBytes
      BY <2>1 DEF Inv, MemoryInv, WriterAlive
    <3>2. DOMAIN queue = {} /\ DOMAIN hand = {} /\ \A s \in Streams : ToSet(buf[s]) = {}
      BY <3>1 DEF NoBytes, ToSet
    <3> QED BY <3>2 DEF InMemory
  <2> QED BY <2>1 DEF Inv, StageInv, OnlyTheRunIsOpen
<1> QED BY <1>1, Invariance, PTL
=============================================================================
