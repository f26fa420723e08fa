---------------------------- MODULE Storage_steps ----------------------------
(***************************************************************************)
(* Theorems about the steps of Storage: what a step may lose, that records *)
(* keep their order, and that the storage implements DurableLog.  All of   *)
(* them are about a wall clock that goes forward and begins no hour        *)
(* between two reads of open_all_segments: with another clock a file may   *)
(* be replaced (storage_clock_back).                                       *)
(***************************************************************************)
EXTENDS Storage_proofs

\* The wall clock is not set back, and while open_all_segments works for a record
\* received before a rotation no hour begins between two of its reads.
SteadyClock == ClockFaults = {}

-----------------------------------------------------------------------------
(* The inductive invariant, beside Inv of Storage_proofs.                  *)

\* A writer that will open segments again.
WillOpen == WriterAlive /\ pc # "closing"
Blank(c) == c \in {NoFile, <<>>}

\* No segment is of an hour to come, a rotation stays due until it ends, and a
\* record that was received before it is written to segments of one hour.
ClockInv ==
  /\ \A s \in Streams : segs[s] <= hour
  /\ pc = "rotating" => RotationDue
  /\ pc = "opening" /\ hand # <<>> => \A s \in Streams : segs[s] \in {-1, hour}
  /\ pc = "writing" => \A s, t \in Streams : segs[s] = segs[t]

\* No name is used twice for records: a segment that is finalized in the hour it
\* was opened in is empty, and so is all that is final of this hour or a later
\* one; what a failure leaves twice under one name is the same.
NameInv ==
  /\ WillOpen /\ RotationDue =>
       \A f \in Active : f[3] = hour => part[f] = <<>> /\ buf[f[2]] = <<>>
  /\ \A f \in Names :
       /\ WillOpen /\ f[1] = run /\ f[3] >= hour => Blank(ready[f]) /\ Blank(zst[f])
       /\ f[1] > run \/ (f[1] = run /\ pc = "recovering")
            => part[f] = NoFile /\ ready[f] = NoFile /\ zst[f] = NoFile
       /\ part[f] # NoFile => ready[f] = NoFile /\ Blank(zst[f])
       /\ ready[f] # NoFile => Blank(zst[f]) \/ zst[f] = ready[f]
       /\ stage[f] \in {"checksum", "remove"} => zst[f] = ready[f]

-----------------------------------------------------------------------------
(* Hours and names.                                                        *)

\* When nothing is left to finalize no segment is open.
LEMMA AllTaken ==
  ASSUME Inv, pc \in {"rotating", "closing"}, todo = {}
  PROVE  segs = NoSegs /\ Active = {}
<1> USE DEF Inv, MemoryInv
<1>1. ASSUME NEW s \in Streams, segs[s] # -1 PROVE FALSE
  <2>1. segs[s] \in Hours /\ run \in Runs
    BY <1>1 DEF TypeOK
  <2>2. <<run, s, segs[s]>> \in Active
    BY <2>1, NameParts DEF Active
  <2> QED BY <2>2
<1> QED BY <1>1 DEF NoSegs, TypeOK

LEMMA NoneActive == segs = NoSegs => Active = {}
BY NameParts DEF Active, NoSegs, Hours

LEMMA ClockStep ==
  ASSUME SteadyClock, Inv, ClockInv, [Next]_vars
  PROVE  ClockInv'
<1> USE StorageAssumption DEF ClockInv, RotationDue
<1>1. CASE Tick
  <2>1. /\ hour' = hour + 1 /\ ~(pc = "opening" /\ hand # <<>>)
        /\ UNCHANGED <<pc, hand, segs>>
    BY <1>1 DEF Tick, NextHours, SteadyClock, process
  <2>2. /\ 1 \in Streams /\ hour \in Nat
        /\ \A s \in Streams : segs[s] \in Int /\ segs[s] <= hour
    BY DEF Streams, Inv, TypeOK, Hours
  <2>3. \A s \in Streams : segs[s] < hour'
    BY <2>1, <2>2
  <2> QED BY <2>1, <2>2, <2>3
<1>2. CASE UNCHANGED <<hour, pc, hand, segs>>
  BY <1>2
<1>3. CASE Start \/ SpawnWriter \/ ReceiveShutdown
  <2>1. UNCHANGED <<hour, hand, segs>> /\ pc' \in {"recovering", "opening", "closing"}
        /\ (pc' = "opening" => pc = "recovering")
    BY <1>3 DEF Start, SpawnWriter, ReceiveShutdown, LeaveLoop, world
  <2>2. pc' = "opening" => hand = <<>>
    BY <2>1 DEF Inv, MemoryInv, WriterAlive
  <2> QED BY <2>1, <2>2
<1>4. ASSUME NEW s \in Streams, OpenSegment(s) PROVE ClockInv'
  <2>1. /\ pc = "opening" /\ segs' = [segs EXCEPT ![s] = hour] /\ UNCHANGED <<hour, hand>>
        /\ pc' = IF \E t \in Streams \ {s} : segs[t] = -1 THEN "opening"
                 ELSE IF hand # <<>> THEN "writing" ELSE "loop"
    BY <1>4 DEF OpenSegment, world
  <2>2. /\ segs'[s] = hour /\ \A t \in Streams \ {s} : segs'[t] = segs[t]
        /\ hour \in Int
    BY <2>1 DEF Inv, TypeOK, Hours
  <2> QED BY <2>1, <2>2
<1>5. CASE ReceiveAndRotate \/ RotateTick
  BY <1>5 DEF ReceiveAndRotate, RotateTick, world
<1>6. CASE WriteHeld
  BY <1>6 DEF WriteHeld, world
<1>7. ASSUME NEW f \in Names, FinalizeSegment(f) PROVE ClockInv'
  <2>1. /\ pc \in {"rotating", "closing"} /\ UNCHANGED <<hour, pc, hand>>
        /\ segs' = [segs EXCEPT ![f[2]] = -1]
    BY <1>7 DEF FinalizeSegment, world
  <2>2. /\ f[2] \in Streams /\ segs'[f[2]] = -1 /\ hour \in Nat
        /\ \A t \in Streams \ {f[2]} : segs'[t] = segs[t]
    BY <2>1, NameParts DEF Inv, TypeOK, Hours
  <2> QED BY <2>1, <2>2
<1>8. CASE FinalizeDone
  <2>1. segs = NoSegs
    BY <1>8, AllTaken DEF FinalizeDone
  <2>2. UNCHANGED <<hour, segs, hand>> /\ pc' \in {"opening", "stopped"}
    BY <1>8 DEF FinalizeDone, world
  <2> QED BY <2>1, <2>2 DEF NoSegs
<1>9. CASE WriterFails \/ Crash \/ PowerFails
  <2>1. segs' = NoSegs /\ hour' = hour /\ pc' \in {"failed", "down"}
    BY <1>9 DEF WriterFails, Crash, PowerFails, LoseBuffers, ForgetMemory, world
  <2> QED BY <2>1 DEF NoSegs, Inv, TypeOK, Hours
<1>10. CASE Compress
  BY <1>2, <1>10 DEF Compress, CreateTemp, Encode, Install, Checksum, RemoveReady, world
<1>11. ASSUME NEW f \in Names, RecoverPartial(f) \/ RecoverReady(f) PROVE ClockInv'
  BY <1>2, <1>11 DEF RecoverPartial, RecoverReady, world
<1>12. ASSUME NEW s \in Streams, Record(s) PROVE ClockInv'
  BY <1>2, <1>12 DEF Record
<1>13. CASE SendShutdown \/ Receive \/ FlushTick \/ UNCHANGED vars
  BY <1>2, <1>13 DEF SendShutdown, Receive, FlushTick, vars, world, process
<1> QED
  BY <1>1, <1>3, <1>4, <1>5, <1>6, <1>7, <1>8, <1>9, <1>10, <1>11, <1>12, <1>13
     DEF Next, Recover, Write

\* A file that is taken by a rotation in its own hour is empty.
LEMMA TakenBlank ==
  ASSUME Inv, ClockInv, NameInv, NEW f \in Active, pc = "rotating", f[3] >= hour
  PROVE  part[f] = <<>> /\ buf[f[2]] = <<>> /\ part[f] \o buf[f[2]] = <<>>
<1>1. f[3] = hour
  <2>1. f[2] \in Streams /\ f[3] = segs[f[2]] /\ f[3] \in Int /\ hour \in Int
    BY NameParts DEF Active, Inv, TypeOK, Hours
  <2> QED BY <2>1 DEF ClockInv
<1>2. part[f] = <<>> /\ buf[f[2]] = <<>>
  BY <1>1 DEF NameInv, ClockInv, WillOpen, WriterAlive
<1> QED BY <1>2

\* Where no file is opened and nothing is renamed, names stay as they are.
LEMMA NamesKept ==
  ASSUME NameInv, hour' = hour, run' = run, pc' # "recovering",
         WillOpen' => WillOpen /\ (RotationDue /\ RotationDue'
                                      => Active' = Active /\ UNCHANGED <<part, buf>>)
                      /\ (RotationDue' => RotationDue),
         \A f \in Names : part'[f] # NoFile => part[f] # NoFile,
         \A f \in Names : stage'[f] = stage[f] \/ stage'[f] \in {"idle", "create", "encode"},
         UNCHANGED <<ready, zst>>
  PROVE  NameInv'
BY DEF NameInv, Blank

LEMMA NameStep ==
  ASSUME SteadyClock, Inv, ClockInv, NameInv, [Next]_vars
  PROVE  NameInv'
<1>a. \A f \in Active : f \in Names /\ f[1] = run /\ f[2] \in Streams /\ f[3] = segs[f[2]]
  BY NameParts DEF Active
<1>b. \A f \in Active : part[f] # NoFile
  BY DEF Inv, PartInv
<1>1. CASE Tick
  <2>1. hour' = hour + 1 /\ UNCHANGED <<process, disk>>
    BY <1>1 DEF Tick, NextHours, SteadyClock
  <2>2. UNCHANGED <<run, pc, segs, buf, stage, part, ready, zst>> /\ Active' = Active
        /\ WillOpen' = WillOpen
    BY <2>1 DEF process, disk, Active, WillOpen, WriterAlive
  <2>3. hour \in Int /\ \A f \in Names : f[3] \in Int
    BY NameParts DEF Inv, TypeOK, Hours
  <2>4. \A f \in Active : f[3] < hour'
    BY <1>a, <2>1, <2>3 DEF ClockInv
  <2>5. \A f \in Names : f[3] >= hour' => f[3] >= hour
    BY <2>1, <2>3
  <2>6. \A f \in Active : f[3] # hour'
    BY <1>a, <2>1, <2>3, <2>4
  <2> QED BY <2>2, <2>5, <2>6 DEF NameInv, Blank
<1>2. CASE UNCHANGED <<hour, run, pc, segs, buf, stage, part, ready, zst>>
  <2>1. Active' = Active /\ WillOpen' = WillOpen /\ RotationDue' = RotationDue
    BY <1>2 DEF Active, WillOpen, WriterAlive, RotationDue
  <2> QED BY <1>2, <2>1 DEF NameInv, Blank
<1>3. CASE Start
  <2>1. /\ run' = run + 1 /\ pc' = "recovering" /\ UNCHANGED <<stage, part, ready, zst>>
    BY <1>3 DEF Start, disk
  <2>2. run \in Int /\ \A f \in Names : f[1] \in Int
    BY NameParts DEF Inv, TypeOK, Runs
  <2>3. ~WillOpen'
    BY <2>1 DEF WillOpen, WriterAlive
  <2>4. \A f \in Names : f[1] >= run' => f[1] > run
    BY <2>1, <2>2
  <2>5. \A f \in Names : f[1] > run' \/ f[1] = run' => f[1] > run
    BY <2>1, <2>2
  <2> QED BY <2>1, <2>3, <2>5 DEF NameInv, Blank
<1>4. ASSUME NEW f \in Names, CreateTemp(f) \/ Encode(f) \/ Install(f)
                              \/ Checksum(f) \/ RemoveReady(f)
      PROVE  NameInv'
  <2>1. /\ UNCHANGED <<hour, run, pc, segs, buf, part>> /\ stage[f] # "idle"
        /\ Active' = Active /\ WillOpen' = WillOpen /\ RotationDue' = RotationDue
    BY <1>4 DEF CreateTemp, Encode, Install, Checksum, RemoveReady, world,
                Active, WillOpen, WriterAlive, RotationDue
  <2>2. ready[f] # NoFile /\ part[f] = NoFile
    BY <2>1 DEF Inv, StageInv, NameInv
  <2>3. CASE CreateTemp(f)
    BY <2>1, <2>3 DEF CreateTemp, NameInv, Blank, Inv, TypeOK
  <2>4. CASE Encode(f)
    BY <2>1, <2>4 DEF Encode, NameInv, Blank, Inv, TypeOK
  <2>5. CASE Install(f)
    <3>1. temp[f] = ready[f] /\ zst' = [zst EXCEPT ![f] = temp[f]] /\ ready' = ready
          /\ stage' = [stage EXCEPT ![f] = "checksum"]
      BY <2>5 DEF Install, Inv, StageInv
    <3>2. zst'[f] = ready[f] /\ stage'[f] = "checksum"
          /\ \A g \in Names \ {f} : zst'[g] = zst[g] /\ stage'[g] = stage[g]
      BY <3>1 DEF Inv, TypeOK, IsContents
    <3> QED BY <2>1, <2>2, <3>1, <3>2 DEF NameInv, Blank
  <2>6. CASE Checksum(f)
    BY <2>1, <2>6 DEF Checksum, NameInv, Blank, Inv, TypeOK
  <2>7. CASE RemoveReady(f)
    <3>1. ready'[f] = NoFile /\ stage'[f] = "idle" /\ zst' = zst
          /\ \A g \in Names \ {f} : ready'[g] = ready[g] /\ stage'[g] = stage[g]
      BY <2>7 DEF RemoveReady, Inv, TypeOK, IsContents
    <3> QED BY <2>1, <2>2, <3>1 DEF NameInv, Blank
  <2> QED BY <1>4, <2>3, <2>4, <2>5, <2>6, <2>7
<1>5. ASSUME NEW f \in Names, RecoverPartial(f) PROVE NameInv'
  <2>1. /\ pc = "recovering" /\ f \in todo /\ UNCHANGED <<run, pc, zst>>
        /\ ready' = [ready EXCEPT ![f] = TruncateToLastNewline(part[f])]
        /\ part' = [part EXCEPT ![f] = NoFile]
        /\ stage' = [stage EXCEPT ![f] = "create"]
    BY <1>5 DEF RecoverPartial, IsFirst
  <2>2. part[f] # NoFile
    BY <2>1 DEF Inv, PartInv
  <2>3. /\ part'[f] = NoFile /\ stage'[f] = "create"
        /\ \A g \in Names \ {f} : part'[g] = part[g] /\ ready'[g] = ready[g]
                                  /\ stage'[g] = stage[g]
    BY <2>1 DEF Inv, TypeOK, IsContents
  <2>4. ~WillOpen'
    BY <2>1 DEF WillOpen, WriterAlive
  <2> QED BY <2>1, <2>2, <2>3, <2>4 DEF NameInv, Blank
<1>6. ASSUME NEW f \in Names, RecoverReady(f) PROVE NameInv'
  <2>1. /\ pc = "recovering" /\ UNCHANGED <<run, pc, part, ready, zst>>
        /\ \A g \in Names : stage'[g] \in {stage[g], "create"}
    BY <1>6 DEF RecoverReady, disk, Inv, TypeOK
  <2>2. ~WillOpen'
    BY <2>1 DEF WillOpen, WriterAlive
  <2> QED BY <2>1, <2>2 DEF NameInv, Blank
<1>7. CASE SpawnWriter
  <2>1. /\ pc = "recovering" /\ pc' = "opening"
        /\ UNCHANGED <<hour, run, segs, buf, stage, part, ready, zst>>
    BY <1>7 DEF SpawnWriter, world, disk
  <2>2. segs = NoSegs
    BY <2>1 DEF Inv, MemoryInv, WriterAlive
  <2>3. Active' = {}
    BY <2>1, <2>2, NameParts DEF Active, NoSegs, Hours
  <2> QED BY <2>1, <2>3 DEF NameInv, Blank
<1>8. ASSUME NEW s \in Streams, OpenSegment(s) PROVE NameInv'
  <2> DEFINE f == <<run, s, hour>>
  <2>1. f \in Names /\ f[1] = run /\ f[2] = s /\ f[3] = hour
    BY <1>8, NameParts DEF OpenSegment, Inv, MemoryInv, TypeOK
  <2>2. /\ pc = "opening" /\ pc' # "recovering" /\ segs[s] = -1
        /\ segs' = [segs EXCEPT ![s] = hour]
        /\ UNCHANGED <<hour, run, buf, stage, ready, zst>>
        /\ part' = [part EXCEPT ![f] = IF @ = NoFile THEN <<>> ELSE @]
    BY <1>8 DEF OpenSegment, world
  <2>3. Active' = Active \cup {f}
    BY <2>2, ActiveOpened DEF Inv, MemoryInv, f
  <2> HIDE DEF f
  <2>4. f \notin Active
    BY <2>1, <2>2 DEF Active, Inv, TypeOK, Hours
  <2>5. part[f] = NoFile /\ ready[f] = NoFile /\ buf[s] = <<>>
    BY <2>1, <2>2, <2>4 DEF Inv, PartInv, StageInv, MemoryInv, WriterAlive
  <2>6. part'[f] = <<>> /\ \A g \in Names \ {f} : part'[g] = part[g]
    BY <2>1, <2>2, <2>5 DEF Inv, TypeOK, IsContents
  <2>7. RotationDue /\ WillOpen
    BY <2>2 DEF RotationDue, WillOpen, WriterAlive, Inv, TypeOK, Hours
  <2>8. Blank(zst[f]) /\ ~(f[1] > run)
    BY <2>1, <2>7 DEF NameInv, Inv, TypeOK, Hours
  <2>9. \A g \in Active' : g[3] = hour => part'[g] = <<>> /\ buf'[g[2]] = <<>>
    BY <1>a, <2>1, <2>2, <2>3, <2>4, <2>5, <2>6, <2>7 DEF NameInv
  <2> QED BY <2>1, <2>2, <2>5, <2>6, <2>7, <2>8, <2>9 DEF NameInv, Blank
\* What is written goes to open files, and only when no rotation is due.
<1>9. ASSUME NEW m, WriteLine(m) PROVE \A f \in Names : part'[f] # NoFile => part[f] # NoFile
  <2> DEFINE g == <<run, m.stream, segs[m.stream]>>
  <2>1. g[1] = run /\ g[2] = m.stream /\ g[3] = segs[m.stream]
    OBVIOUS
  <2>2. UNCHANGED part \/ part' = [part EXCEPT ![g] = @ \o buf[m.stream]]
    BY <1>9 DEF WriteLine
  <2> HIDE DEF g
  <2>3. \A f \in Names : f # g => part'[f] = part[f]
    BY <2>2 DEF Inv, TypeOK, IsContents
  <2>4. g \in Names => g \in Active
    BY <2>1 DEF Active
  <2> QED BY <1>b, <2>3, <2>4
<1>10. CASE Receive \/ FlushTick
  <2>1. /\ ~RotationDue /\ pc = "loop"
        /\ UNCHANGED <<hour, run, pc, segs, stage, ready, zst>>
    BY <1>10 DEF Receive, FlushTick, world
  <2>2. \A f \in Names : part'[f] # NoFile => part[f] # NoFile
    <3>1. CASE Receive
      BY <1>9, <3>1 DEF Receive
    <3>2. CASE FlushTick
      BY <1>b, <3>2 DEF FlushTick, Flush
    <3> QED BY <1>10, <3>1, <3>2
  <2>3. ~RotationDue' /\ WillOpen
    BY <2>1 DEF RotationDue, WillOpen, WriterAlive
  <2> QED BY <2>1, <2>2, <2>3, NamesKept
<1>11. CASE WriteHeld
  <2>1. /\ pc = "writing" /\ pc' = "loop" /\ UNCHANGED <<hour, run, segs, stage, ready, zst>>
    BY <1>11 DEF WriteHeld, world
  <2>2. \A f \in Names : part'[f] # NoFile => part[f] # NoFile
    BY <1>9, <1>11 DEF WriteHeld
  <2>3. Active' = Active /\ RotationDue' = RotationDue /\ WillOpen
    BY <2>1 DEF Active, RotationDue, WillOpen, WriterAlive
  <2>4. RotationDue => \A f \in Active : f[3] # hour
    BY <1>a, <2>1 DEF RotationDue, ClockInv
  <2> QED BY <2>1, <2>2, <2>3, <2>4 DEF NameInv, Blank
<1>12. CASE ReceiveAndRotate \/ RotateTick \/ ReceiveShutdown
  <2>1. /\ pc = "loop" /\ pc' \in {"rotating", "closing"}
        /\ UNCHANGED <<hour, run, segs, buf, stage, part, ready, zst>>
    BY <1>12 DEF ReceiveAndRotate, RotateTick, ReceiveShutdown, LeaveLoop, world, disk
  <2>2. WillOpen /\ Active' = Active /\ RotationDue' = RotationDue
    BY <2>1 DEF WillOpen, WriterAlive, Active, RotationDue
  <2> QED BY <2>1, <2>2, NamesKept
<1>13. ASSUME NEW f \in Names, FinalizeSegment(f) PROVE NameInv'
  <2>1. /\ pc \in {"rotating", "closing"} /\ f \in todo
        /\ ready' = [ready EXCEPT ![f] = part[f] \o buf[f[2]]]
        /\ part' = [part EXCEPT ![f] = NoFile]
        /\ buf' = [buf EXCEPT ![f[2]] = <<>>]
        /\ segs' = [segs EXCEPT ![f[2]] = -1]
        /\ stage' = [stage EXCEPT ![f] = "create"]
        /\ UNCHANGED <<hour, run, pc, zst>>
    BY <1>13 DEF FinalizeSegment, IsFirst, world
  <2>2. f \in Active
    BY <2>1 DEF Inv, MemoryInv
  <2>3. Active' = Active \ {f}
    BY <2>1, <2>2, ActiveTaken DEF Inv
  <2>4. f[1] = run /\ f[2] \in Streams /\ part[f] # NoFile /\ ~(f[1] > run)
    BY <1>a, <1>b, <2>2 DEF Inv, TypeOK
  <2>5. /\ ready'[f] = part[f] \o buf[f[2]] /\ part'[f] = NoFile /\ stage'[f] = "create"
        /\ buf'[f[2]] = <<>>
        /\ \A s \in Streams : buf'[s] = <<>> \/ buf'[s] = buf[s]
        /\ \A g \in Names \ {f} : ready'[g] = ready[g] /\ part'[g] = part[g]
                                  /\ stage'[g] = stage[g]
    BY <2>1, <2>4 DEF Inv, TypeOK, IsContents
  <2>6. WillOpen' => WillOpen /\ pc = "rotating" /\ RotationDue
    BY <2>1 DEF WillOpen, WriterAlive, ClockInv
  <2>7. WillOpen' /\ f[3] >= hour => Blank(ready'[f]) /\ Blank(zst[f])
    BY <2>2, <2>5, <2>6, TakenBlank, <2>4 DEF NameInv, Blank
  <2>8. WillOpen' => \A g \in Active' : g[3] = hour => part'[g] = <<>> /\ buf'[g[2]] = <<>>
    BY <1>a, <2>3, <2>5, <2>6 DEF NameInv
  <2> QED BY <2>1, <2>4, <2>5, <2>6, <2>7, <2>8 DEF NameInv, Blank
<1>14. CASE FinalizeDone
  <2>1. /\ pc' \in {"opening", "stopped"} /\ (pc' = "opening" => pc = "rotating")
        /\ UNCHANGED <<hour, run, segs, buf, stage, part, ready, zst>>
    BY <1>14 DEF FinalizeDone, world, disk
  <2>2. Active = {} /\ Active' = Active
    BY <1>14, <2>1, AllTaken DEF FinalizeDone, Active
  <2>3. RotationDue' = RotationDue /\ (WillOpen' => WillOpen)
    BY <2>1 DEF RotationDue, WillOpen, WriterAlive
  <2> QED BY <2>1, <2>2, <2>3, NamesKept
<1>15. CASE WriterFails \/ Crash \/ PowerFails
  <2>1. /\ pc' \in {"failed", "down"} /\ UNCHANGED <<hour, run, ready, zst>> /\ stage' = Idle
    BY <1>15 DEF WriterFails, Crash, PowerFails, LoseBuffers, ForgetMemory, world
  <2>2. \A f \in Names : part'[f] # NoFile => part[f] # NoFile
    <3>1. CASE WriterFails \/ Crash
      BY <1>b, <3>1 DEF WriterFails, Crash, LoseBuffers
    <3>2. CASE PowerFails
      BY <3>2 DEF PowerFails
    <3> QED BY <1>15, <3>1, <3>2
  <2>3. ~WillOpen' /\ \A f \in Names : stage'[f] = "idle"
    BY <2>1 DEF WillOpen, WriterAlive, Idle
  <2> QED BY <2>1, <2>2, <2>3 DEF NameInv, Blank
<1>16. ASSUME NEW s \in Streams, Record(s) PROVE NameInv'
  BY <1>2, <1>16 DEF Record, disk
<1>17. CASE SendShutdown \/ UNCHANGED vars
  BY <1>2, <1>17 DEF SendShutdown, vars, world, process, disk
<1> QED
  BY <1>1, <1>3, <1>4, <1>5, <1>6, <1>7, <1>8, <1>10, <1>11, <1>12, <1>13, <1>14, <1>15,
     <1>16, <1>17
     DEF Next, Recover, Write, Compress

-----------------------------------------------------------------------------
(* Contents and the records in them.                                       *)

LEMMA RecordsAre ==
  /\ Records(NoFile) = {} /\ Records(<<>>) = {}
  /\ \A c \in Content : \A n : n \in Records(c) <=> n # Cut /\ \E i \in 1 .. Len(c) : c[i] = n
<1>1. Records(NoFile) = {}
  BY DEF Records
<1>2. ASSUME NEW c \in Content, NEW n
      PROVE  n \in Records(c) <=> n # Cut /\ \E i \in 1 .. Len(c) : c[i] = n
  <2>1. c # NoFile /\ DOMAIN c = 1 .. Len(c)
    BY ContentParts DEF Content
  <2> QED BY <2>1 DEF Records, ToSet
<1>3. Records(<<>>) = {}
  <2>1. <<>> \in Content /\ Len(<<>>) = 0
    BY ContentParts
  <2> QED BY <1>2, <2>1
<1> QED BY <1>1, <1>2, <1>3

LEMMA RecordsJoin ==
  ASSUME NEW c \in Content, NEW d \in Content
  PROVE  c \o d \in Content /\ Records(c \o d) = Records(c) \cup Records(d)
<1>1. c \in Seq(Nat) /\ d \in Seq(Nat)
  BY DEF Content
<1>2. /\ Len(c) \in Nat /\ Len(d) \in Nat /\ Len(c \o d) = Len(c) + Len(d)
      /\ \A i \in 1 .. Len(c \o d) :
           (c \o d)[i] = IF i <= Len(c) THEN c[i] ELSE d[i - Len(c)]
  BY <1>1
<1>3. c \o d \in Content
  BY <1>1 DEF Content
<1>4. ASSUME NEW i \in 1 .. Len(c) PROVE \E j \in 1 .. Len(c \o d) : (c \o d)[j] = c[i]
  BY <1>2
<1>5. ASSUME NEW i \in 1 .. Len(d) PROVE \E j \in 1 .. Len(c \o d) : (c \o d)[j] = d[i]
  <2>1. Len(c) + i \in 1 .. Len(c \o d) /\ (c \o d)[Len(c) + i] = d[i]
    BY <1>2
  <2> QED BY <2>1
<1>6. ASSUME NEW j \in 1 .. Len(c \o d)
      PROVE  \/ \E i \in 1 .. Len(c) : (c \o d)[j] = c[i]
             \/ \E i \in 1 .. Len(d) : (c \o d)[j] = d[i]
  <2>1. CASE j <= Len(c)
    <3>1. j \in 1 .. Len(c) /\ (c \o d)[j] = c[j]
      BY <1>2, <2>1
    <3> QED BY <3>1
  <2>2. CASE ~(j <= Len(c))
    <3>1. j - Len(c) \in 1 .. Len(d) /\ (c \o d)[j] = d[j - Len(c)]
      BY <1>2, <2>2
    <3> QED BY <3>1
  <2> QED BY <2>1, <2>2
<1>7. ASSUME NEW n PROVE n \in Records(c \o d) <=> n \in Records(c) \/ n \in Records(d)
  <2>1. n \in Records(c) <=> n # Cut /\ \E i \in 1 .. Len(c) : c[i] = n
    BY RecordsAre
  <2>2. n \in Records(d) <=> n # Cut /\ \E i \in 1 .. Len(d) : d[i] = n
    BY RecordsAre
  <2>3. n \in Records(c \o d) <=> n # Cut /\ \E i \in 1 .. Len(c \o d) : (c \o d)[i] = n
    BY <1>3, RecordsAre
  <2> QED BY <1>4, <1>5, <1>6, <2>1, <2>2, <2>3, Zenon
<1> QED BY <1>3, <1>7

\* The beginning of a content, and what a failure may add.
LEMMA Beginning ==
  ASSUME NEW c \in Content, NEW k \in 0 .. Len(c)
  PROVE  /\ SubSeq(c, 1, k) \in Content /\ Len(SubSeq(c, 1, k)) = k
         /\ \A i \in 1 .. k : SubSeq(c, 1, k)[i] = c[i]
         /\ Records(SubSeq(c, 1, k)) \subseteq Records(c)
         /\ NoCut(c) => NoCut(SubSeq(c, 1, k))
<1> DEFINE d == SubSeq(c, 1, k)
<1>1. d \in Content /\ Len(d) = k /\ \A i \in 1 .. k : d[i] = c[i] /\ i \in 1 .. Len(c)
  BY DEF Content
<1> HIDE DEF d
<1>2. \A n : n \in Records(d) => n \in Records(c)
  BY <1>1, RecordsAre
<1>3. NoCut(c) => NoCut(d)
  BY <1>1 DEF NoCut
<1> QED BY <1>1, <1>2, <1>3 DEF d

LEMMA WholeOf ==
  ASSUME NEW c \in Content, NoCut(c)
  PROVE  Whole(c) = c /\ Whole(Append(c, Cut)) = c /\ Whole(c \o <<Cut>>) = c
<1>1. c \in Seq(Nat) /\ Len(c) \in Nat /\ Cut \in Nat
  BY DEF Content, Cut
<1>2. Whole(c) = c
  <2>1. CASE c = <<>>
    BY <2>1 DEF Whole
  <2>2. CASE c # <<>>
    <3>1. Len(c) \in 1 .. Len(c)
      BY <1>1, <2>2
    <3>2. c[Len(c)] # Cut
      BY <3>1 DEF NoCut
    <3> QED BY <3>2 DEF Whole, Last
  <2> QED BY <2>1, <2>2
<1>3. ASSUME NEW d, d = Append(c, Cut) PROVE Whole(d) = c
  <2>1. d \in Seq(Nat) /\ Len(d) = Len(c) + 1 /\ d[Len(d)] = Cut /\ d # <<>>
    BY <1>1, <1>3
  <2>2. SubSeq(d, 1, Len(d) - 1) = c
    BY <1>1, <1>3
  <2> QED BY <2>1, <2>2 DEF Whole, Last, Front
<1>4. c \o <<Cut>> = Append(c, Cut)
  BY <1>1
<1> QED BY <1>2, <1>3, <1>4

LEMMA RecordsWhole ==
  ASSUME NEW c \in Content, CutIsLast(c)
  PROVE  Whole(c) \in Content /\ NoCut(Whole(c)) /\ Records(Whole(c)) = Records(c)
<1>1. Whole(c) \in Content /\ NoCut(Whole(c))
  BY WholeIsContent
<1>2. c \in Seq(Nat) /\ Len(c) \in Nat
  BY DEF Content
<1>3. CASE c # <<>> /\ Last(c) = Cut
  <2> DEFINE d == Whole(c)
  <2>1. d = SubSeq(c, 1, Len(c) - 1) /\ Len(c) > 0 /\ c[Len(c)] = Cut
    BY <1>2, <1>3 DEF Whole, Front, Last
  <2>2. Len(c) - 1 \in 0 .. Len(c)
    BY <1>2, <2>1
  <2>3. /\ d \in Content /\ Len(d) = Len(c) - 1
        /\ \A i \in 1 .. Len(c) - 1 : d[i] = c[i]
    BY <2>1, <2>2, Beginning
  <2> HIDE DEF d
  <2>4. ASSUME NEW n PROVE n \in Records(d) <=> n \in Records(c)
    <3>1. n \in Records(c) <=> n # Cut /\ \E i \in 1 .. Len(c) : c[i] = n
      BY RecordsAre
    <3>2. n \in Records(d) <=> n # Cut /\ \E i \in 1 .. Len(d) : d[i] = n
      BY <2>3, RecordsAre
    <3>3. ASSUME NEW i \in 1 .. Len(c), c[i] = n, n # Cut
          PROVE  \E j \in 1 .. Len(d) : d[j] = n
      <4>1. i # Len(c)
        BY <2>1, <3>3
      <4>2. i \in 1 .. Len(d) /\ d[i] = n
        BY <1>2, <2>3, <3>3, <4>1
      <4> QED BY <4>2
    <3>4. ASSUME NEW i \in 1 .. Len(d), d[i] = n
          PROVE  \E j \in 1 .. Len(c) : c[j] = n
      <4>1. i \in 1 .. Len(c) /\ c[i] = n
        BY <1>2, <2>3, <3>4
      <4> QED BY <4>1
    <3> QED BY <3>1, <3>2, <3>3, <3>4, Zenon
  <2> QED BY <1>1, <2>4 DEF d
<1>4. CASE ~(c # <<>> /\ Last(c) = Cut)
  BY <1>1, <1>4 DEF Whole
<1> QED BY <1>1, <1>3, <1>4

LEMMA AppendJoined ==
  ASSUME NEW c \in Seq(Nat), NEW e \in Seq(Nat), NEW n \in Nat
  PROVE  /\ Append(e, n) = e \o <<n>> /\ c \o Append(e, n) = Append(c \o e, n)
         /\ Append(e, n) \in Seq(Nat)
<1>1. <<n>> \in Seq(Nat) /\ c \o e \in Seq(Nat)
  OBVIOUS
<1>2. Append(e, n) = e \o <<n>> /\ Append(c \o e, n) = (c \o e) \o <<n>>
  BY <1>1, AppendIsConcat
<1>3. (c \o e) \o <<n>> = c \o (e \o <<n>>)
  BY <1>1, ConcatAssociative
<1> QED BY <1>2, <1>3

LEMMA OutcomeParts ==
  ASSUME NEW c \in Content, NoCut(c), NEW b \in Seq(Nat), NoCut(b), NEW d \in Outcomes(b)
  PROVE  /\ d \in Content /\ Records(d) \subseteq Records(b)
         /\ \E k \in 0 .. Len(b) : Whole(c \o d) = c \o SubSeq(b, 1, k)
<1>1. b \in Content
  BY DEF Content
<1>2. ASSUME NEW k \in 0 .. Len(b)
      PROVE  /\ SubSeq(b, 1, k) \in Content /\ NoCut(SubSeq(b, 1, k))
             /\ SubSeq(b, 1, k) \in Seq(Nat)
             /\ Records(SubSeq(b, 1, k)) \subseteq Records(b)
             /\ c \o SubSeq(b, 1, k) \in Content /\ NoCut(c \o SubSeq(b, 1, k))
  <2>1. /\ SubSeq(b, 1, k) \in Content /\ NoCut(SubSeq(b, 1, k))
        /\ Records(SubSeq(b, 1, k)) \subseteq Records(b)
    BY <1>1, Beginning
  <2>2. SubSeq(b, 1, k) \in Seq(Nat)
    BY <2>1 DEF Content
  <2> QED BY <2>1, <2>2, Joining
<1>3. ASSUME NEW k \in 0 .. Len(b), d = SubSeq(b, 1, k)
      PROVE  /\ d \in Content /\ Records(d) \subseteq Records(b)
             /\ Whole(c \o d) = c \o SubSeq(b, 1, k)
  BY <1>2, <1>3, WholeOf
<1>4. ASSUME NEW k \in 0 .. Len(b) - 1, d = Append(SubSeq(b, 1, k), Cut)
      PROVE  /\ d \in Content /\ Records(d) \subseteq Records(b)
             /\ k \in 0 .. Len(b)
             /\ Whole(c \o d) = c \o SubSeq(b, 1, k)
  <2> DEFINE e == SubSeq(b, 1, k)
  <2>1. k \in 0 .. Len(b)
    OBVIOUS
  <2>2. e \in Content /\ e \in Seq(Nat) /\ NoCut(e) /\ Records(e) \subseteq Records(b)
        /\ c \o e \in Content /\ NoCut(c \o e)
    BY <1>2, <2>1
  <2> HIDE DEF e
  <2>3. c \in Seq(Nat) /\ Cut \in Nat /\ <<Cut>> \in Content
    BY ContentParts DEF Content, Cut
  <2>4. Append(e, Cut) = e \o <<Cut>> /\ c \o Append(e, Cut) = Append(c \o e, Cut)
        /\ Append(e, Cut) \in Seq(Nat)
    <3>1. c \in Seq(Nat) /\ e \in Seq(Nat) /\ Cut \in Nat
      BY <2>2, <2>3
    <3> QED BY <3>1, AppendJoined
  <2>5. Records(<<Cut>>) = {}
    <3>1. Len(<<Cut>>) = 1 /\ <<Cut>>[1] = Cut
      OBVIOUS
    <3> QED BY <2>3, <3>1, RecordsAre
  <2>6. Records(e \o <<Cut>>) = Records(e)
    <3>1. Records(e \o <<Cut>>) = Records(e) \cup Records(<<Cut>>)
      BY <2>2, <2>3, RecordsJoin
    <3> QED BY <2>5, <3>1
  <2>7. Whole(c \o Append(e, Cut)) = c \o e
    BY <2>2, <2>4, WholeOf
  <2> QED BY <1>4, <2>1, <2>2, <2>4, <2>6, <2>7 DEF Content, e
<1> QED BY <1>3, <1>4 DEF Outcomes

-----------------------------------------------------------------------------
(* What each step does to a file.                                          *)

\* The records, what is on the disk, and the log of a file stay as they are.
Unmoved(f) ==
  /\ InFiles(f)' = InFiles(f)
  /\ OnDisk(f)' = OnDisk(f)
  /\ Stored(f)' = Stored(f)

LEMMA ActiveParts ==
  ASSUME Inv, NameInv, NEW f \in Active
  PROVE  /\ f \in Names /\ f[1] = run /\ f[2] \in Streams /\ f[3] = segs[f[2]]
         /\ part[f] \in Content /\ part[f] # NoFile /\ NoCut(part[f])
         /\ buf[f[2]] \in Seq(Nat) /\ buf[f[2]] \in Content /\ NoCut(buf[f[2]])
         /\ ready[f] = NoFile /\ Blank(zst[f]) /\ Records(zst[f]) = {} /\ WriterAlive
<1>1. f \in Names /\ f[1] = run /\ f[2] \in Streams /\ f[3] = segs[f[2]] /\ f[3] # -1
  BY NameParts DEF Active, Hours
<1>2. WriterAlive
  BY <1>1 DEF Inv, MemoryInv, NoSegs
<1>3. part[f] # NoFile /\ NoCut(part[f]) /\ part[f] \in Content
  BY <1>1, <1>2 DEF Inv, PartInv, TypeOK, IsContents
<1>4. ready[f] = NoFile /\ Blank(zst[f])
  BY <1>1, <1>3 DEF NameInv
<1>5. Records(zst[f]) = {}
  BY <1>4, RecordsAre DEF Blank
<1> QED BY <1>1, <1>2, <1>3, <1>4, <1>5 DEF Inv, TypeOK, MemoryInv, Content

\* A file has a synced part, and no more than it.
LEMMA SyncedPart ==
  ASSUME Inv, NEW f \in Names, part[f] # NoFile
  PROVE  /\ part[f] \in Content /\ synced[f] \in 0 .. Len(part[f]) /\ Len(part[f]) \in Nat
         /\ Records(SubSeq(part[f], 1, synced[f])) \subseteq Records(part[f])
<1>1. part[f] \in Content /\ synced[f] \in Nat /\ synced[f] <= Len(part[f])
  BY DEF Inv, PartInv, TypeOK, IsContents
<1>2. Len(part[f]) \in Nat
  BY <1>1 DEF Content
<1>3. synced[f] \in 0 .. Len(part[f])
  BY <1>1, <1>2
<1> QED BY <1>1, <1>2, <1>3, Beginning

LEMMA OnDiskInFiles == Inv => \A f \in Names : OnDisk(f) \subseteq InFiles(f)
<1> SUFFICES ASSUME Inv, NEW f \in Names PROVE OnDisk(f) \subseteq InFiles(f)
  OBVIOUS
<1>1. CASE part[f] = NoFile
  BY <1>1 DEF OnDisk, InFiles
<1>2. CASE part[f] # NoFile
  BY <1>2, SyncedPart DEF OnDisk, InFiles
<1> QED BY <1>1, <1>2

LEMMA FileKept ==
  ASSUME NEW f \in Names, part'[f] = part[f], ready'[f] = ready[f], zst'[f] = zst[f],
         synced'[f] = synced[f]
  PROVE  Unmoved(f)
BY DEF Unmoved, InFiles, OnDisk, Stored

\* Lines of the buffer reach the file, the last perhaps only in part.
LEMMA FileGrows ==
  ASSUME Inv, NameInv, NEW f \in Active, NEW d \in Outcomes(buf[f[2]]),
         part'[f] = part[f] \o d, ready'[f] = ready[f], zst'[f] = zst[f]
  PROVE  /\ InFiles(f)' = InFiles(f) \cup Records(d) /\ Records(d) \subseteq Records(buf[f[2]])
         /\ synced'[f] = synced[f] => OnDisk(f)' = OnDisk(f)
         /\ synced'[f] = Len(part'[f]) => OnDisk(f) \subseteq OnDisk(f)'
         /\ \E k \in 0 .. Len(buf[f[2]]) : Stored(f)' = Stored(f) \o SubSeq(buf[f[2]], 1, k)
<1>1. /\ d \in Content /\ Records(d) \subseteq Records(buf[f[2]])
      /\ \E k \in 0 .. Len(buf[f[2]]) : Whole(part[f] \o d) = part[f] \o SubSeq(buf[f[2]], 1, k)
  <2> DEFINE c == part[f]
             b == buf[f[2]]
  <2>1. c \in Content /\ NoCut(c) /\ b \in Seq(Nat) /\ NoCut(b) /\ d \in Outcomes(b)
    BY ActiveParts
  <2> HIDE DEF c, b
  <2>2. /\ d \in Content /\ Records(d) \subseteq Records(b)
        /\ \E k \in 0 .. Len(b) : Whole(c \o d) = c \o SubSeq(b, 1, k)
    BY <2>1, OutcomeParts
  <2> QED BY <2>2 DEF c, b
<1>2. part[f] \in Content /\ part[f] # NoFile /\ Whole(part[f]) = part[f] /\ f \in Names
  BY ActiveParts, WholeOf
<1>3. part[f] \o d \in Content /\ Records(part[f] \o d) = Records(part[f]) \cup Records(d)
      /\ part[f] \o d # NoFile
  BY <1>1, <1>2, RecordsJoin, ContentParts
<1>4. InFiles(f)' = InFiles(f) \cup Records(d)
  BY <1>3 DEF InFiles
<1>5. Stored(f) = part[f] /\ Stored(f)' = Whole(part[f] \o d)
  BY <1>2, <1>3 DEF Stored
<1>6. synced[f] \in 0 .. Len(part[f]) /\ Records(SubSeq(part[f], 1, synced[f])) \subseteq Records(part[f])
  BY <1>2, SyncedPart
<1>7. ASSUME synced'[f] = synced[f] PROVE OnDisk(f)' = OnDisk(f)
  <2>1. SubSeq(part[f] \o d, 1, synced[f]) = SubSeq(part[f], 1, synced[f])
    BY <1>1, <1>2, <1>6, SubSeqOfConcat1 DEF Content
  <2> QED BY <1>2, <1>3, <1>7, <2>1 DEF OnDisk
<1>8. ASSUME synced'[f] = Len(part'[f]) PROVE OnDisk(f) \subseteq OnDisk(f)'
  <2>1. SubSeq(part'[f], 1, synced'[f]) = part'[f]
    BY <1>3, <1>8, SubSeqFull DEF Content
  <2> QED BY <1>2, <1>3, <1>6, <2>1 DEF OnDisk
<1> QED BY <1>1, <1>4, <1>5, <1>7, <1>8

\* All of a buffer reaches the file, or nothing of it.
LEMMA AllOrNothing ==
  ASSUME NEW b \in Seq(Nat)
  PROVE  b \in Outcomes(b) /\ <<>> \in Outcomes(b)
         /\ SubSeq(b, 1, Len(b)) = b /\ SubSeq(b, 1, 0) = <<>>
<1>1. /\ SubSeq(b, 1, Len(b)) = b /\ SubSeq(b, 1, 0) = <<>>
      /\ Len(b) \in 0 .. Len(b) /\ 0 \in 0 .. Len(b)
  OBVIOUS
<1> QED BY <1>1 DEF Outcomes

LEMMA FileFlushed ==
  ASSUME Inv, NameInv, NEW f \in Active, part'[f] = part[f] \o buf[f[2]],
         ready'[f] = ready[f], zst'[f] = zst[f]
  PROVE  /\ InFiles(f)' = InFiles(f) \cup Records(buf[f[2]])
         /\ synced'[f] = synced[f] => OnDisk(f)' = OnDisk(f)
         /\ synced'[f] = Len(part'[f]) => OnDisk(f) \subseteq OnDisk(f)'
         /\ Stored(f)' = Stored(f) \o buf[f[2]]
<1>1. buf[f[2]] \in Outcomes(buf[f[2]])
  BY ActiveParts, AllOrNothing
<1>2. /\ part[f] \in Content /\ NoCut(part[f]) /\ part[f] # NoFile
      /\ buf[f[2]] \in Seq(Nat) /\ NoCut(buf[f[2]]) /\ f \in Names
  BY ActiveParts
<1>3. part[f] \o buf[f[2]] \in Content /\ NoCut(part[f] \o buf[f[2]])
  BY <1>2, Joining
<1>4. Stored(f) = part[f] /\ Stored(f)' = part[f] \o buf[f[2]]
  BY <1>2, <1>3, WholeOf, ContentParts DEF Stored
<1> QED BY <1>1, <1>4, FileGrows

\* The file of a segment becomes .ready, with what was buffered for it.
LEMMA FileFinalized ==
  ASSUME Inv, NameInv, NEW f \in Active, part'[f] = NoFile,
         ready'[f] = part[f] \o buf[f[2]], zst'[f] = zst[f]
  PROVE  /\ InFiles(f)' = InFiles(f) \cup Records(buf[f[2]])
         /\ OnDisk(f) \subseteq OnDisk(f)'
         /\ Stored(f)' = Stored(f) \o buf[f[2]]
<1>1. /\ part[f] \in Content /\ part[f] # NoFile /\ f \in Names /\ Whole(part[f]) = part[f]
      /\ buf[f[2]] \in Content /\ ready[f] = NoFile
  BY ActiveParts, WholeOf
<1>2. part[f] \o buf[f[2]] # NoFile
      /\ Records(part[f] \o buf[f[2]]) = Records(part[f]) \cup Records(buf[f[2]])
  BY <1>1, RecordsJoin, ContentParts
<1>3. Records(NoFile) = {}
  BY RecordsAre
<1>4. Records(SubSeq(part[f], 1, synced[f])) \subseteq Records(part[f])
  BY <1>1, SyncedPart
<1> QED BY <1>1, <1>2, <1>3, <1>4 DEF InFiles, OnDisk, Stored

\* A .partial file that was left becomes .ready, without the piece of a line.
LEMMA FileRecovered ==
  ASSUME Inv, NameInv, NEW f \in Names, part[f] # NoFile, part'[f] = NoFile,
         ready'[f] = Whole(part[f]), zst'[f] = zst[f]
  PROVE  /\ InFiles(f)' = InFiles(f)
         /\ OnDisk(f) \subseteq OnDisk(f)'
         /\ Stored(f)' = Stored(f)
<1>1. part[f] \in Content /\ CutIsLast(part[f])
  BY DEF Inv, PartInv, TypeOK, IsContents
<1>2. Whole(part[f]) # NoFile /\ Records(Whole(part[f])) = Records(part[f])
  BY <1>1, RecordsWhole, ContentParts
<1>3. ready[f] = NoFile /\ Records(NoFile) = {}
  BY RecordsAre DEF NameInv
<1>4. Records(SubSeq(part[f], 1, synced[f])) \subseteq Records(part[f])
  BY SyncedPart
<1> QED BY <1>2, <1>3, <1>4 DEF InFiles, OnDisk, Stored

\* A final file that holds a record stays as it is.
Settled(f) == Records(zst[f]) # {} => zst'[f] = zst[f]

\* The temporary becomes the final file, of which .ready is the original.
LEMMA FileInstalled ==
  ASSUME Inv, NameInv, NEW f \in Names, ready[f] # NoFile, zst'[f] = ready[f],
         part'[f] = part[f], ready'[f] = ready[f], synced'[f] = synced[f]
  PROVE  Unmoved(f) /\ Records(zst[f]) \subseteq Records(zst'[f]) /\ Settled(f)
<1>1. /\ Records(zst[f]) \subseteq Records(ready[f])
      /\ Records(zst[f]) # {} => zst[f] = ready[f]
  BY RecordsAre DEF NameInv, Blank
<1> QED BY <1>1 DEF Unmoved, InFiles, OnDisk, Stored, Settled

\* .ready is removed when the final file is the same.
LEMMA FileSealed ==
  ASSUME Inv, NameInv, NEW f \in Names, stage[f] = "remove", ready'[f] = NoFile,
         part'[f] = part[f], zst'[f] = zst[f], synced'[f] = synced[f]
  PROVE  Unmoved(f) /\ Records(zst[f]) \subseteq OnDisk(f)
<1>1. ready[f] # NoFile /\ part[f] = NoFile /\ zst[f] = ready[f]
  BY DEF Inv, StageInv, NameInv
<1>2. Records(NoFile) = {}
  BY RecordsAre
<1> QED BY <1>1, <1>2 DEF Unmoved, InFiles, OnDisk, Stored

\* A segment is opened under a name that holds nothing.
LEMMA FileOpened ==
  ASSUME Inv, NEW f \in Names, part[f] = NoFile, ready[f] = NoFile, Blank(zst[f]),
         part'[f] = <<>>, ready'[f] = ready[f], zst'[f] = zst[f], synced[f] = 0,
         synced'[f] = synced[f]
  PROVE  Unmoved(f)
<1>1. Records(NoFile) = {} /\ Records(<<>>) = {} /\ <<>> # NoFile
  BY RecordsAre, ContentParts
<1>2. SubSeq(<<>>, 1, 0) = <<>> /\ Whole(<<>>) = <<>>
  BY DEF Whole
<1> QED BY <1>1, <1>2 DEF Unmoved, InFiles, OnDisk, Stored, Blank

\* The records of a file that is finalized, and the step that finalizes it.
Sealed(f) == IF ready[f] = NoFile THEN Records(zst[f]) ELSE {}
Sealing(f) == ready[f] # NoFile /\ ready'[f] = NoFile
Buffered(f) == IF f \in Active THEN Records(buf[f[2]]) ELSE {}

\* What a step may do to a file: no record leaves it unless the machine fails,
\* what enters was buffered, and what is on the disk stays there; only with the
\* removal of .ready is a file finalized, and then it is on the disk.
FileEffect(f) ==
  /\ PowerFails \/ InFiles(f) \subseteq InFiles(f)'
  /\ InFiles(f)' \subseteq InFiles(f) \cup Buffered(f)
  /\ OnDisk(f) \subseteq OnDisk(f)'
  /\ Records(zst[f]) \subseteq Records(zst'[f]) /\ Settled(f)
  /\ ~Sealing(f) => Sealed(f)' = Sealed(f)
  /\ Sealing(f) => Sealed(f)' \subseteq OnDisk(f) /\ OnDisk(f)' = OnDisk(f)

LEMMA EffectUnmoved ==
  ASSUME NEW f, Unmoved(f), zst'[f] = zst[f], ready'[f] = ready[f]
  PROVE  FileEffect(f)
BY DEF Unmoved, FileEffect, Sealed, Sealing, Settled

\* A line is buffered, after the buffer went to its file if it was full.
LEMMA LineEffect ==
  ASSUME Inv, NameInv, pc \in {"loop", "writing"}, NEW m \in Message, WriteLine(m),
         UNCHANGED <<ready, zst, synced>>, NEW f \in Names
  PROVE  FileEffect(f) /\ OnDisk(f)' = OnDisk(f)
<1> DEFINE g == <<run, m.stream, segs[m.stream]>>
<1>1. g \in Active /\ g[2] = m.stream
  <2>1. run \in Runs /\ m.stream \in Streams /\ segs[m.stream] \in Hours
    BY ContentParts DEF Inv, MemoryInv, TypeOK
  <2> QED BY <2>1, NameParts DEF Active
<1>2. UNCHANGED part \/ part' = [part EXCEPT ![g] = @ \o buf[g[2]]]
  BY <1>1 DEF WriteLine
<1> HIDE DEF g
<1>3. CASE part'[f] = part[f]
  BY <1>3, FileKept, EffectUnmoved DEF Unmoved
<1>4. CASE part'[f] # part[f]
  <2>1. f = g /\ part'[f] = part[f] \o buf[f[2]]
    BY <1>2, <1>4 DEF Inv, TypeOK, IsContents
  <2>2. InFiles(f)' = InFiles(f) \cup Records(buf[f[2]]) /\ OnDisk(f)' = OnDisk(f)
    BY <1>1, <2>1, FileFlushed
  <2> QED BY <1>1, <2>1, <2>2 DEF FileEffect, Settled, Sealed, Sealing, Buffered
<1> QED BY <1>3, <1>4

LEMMA FailureEffect ==
  ASSUME Inv, NameInv, WriterFails \/ Crash \/ PowerFails, NEW f \in Names
  PROVE  FileEffect(f) /\ OnDisk(f)' = OnDisk(f)
<1>1. CASE WriterFails \/ Crash
  <2>1. UNCHANGED <<ready, zst, synced>> /\ LoseBuffers
    BY <1>1 DEF WriterFails, Crash, LoseBuffers
  <2>2. PICK out \in [Streams -> UNION {Outcomes(buf[s]) : s \in Streams}] :
          /\ \A s \in Streams : out[s] \in Outcomes(buf[s])
          /\ part' = [g \in Names |-> IF g \in Active THEN part[g] \o out[g[2]] ELSE part[g]]
    BY <2>1 DEF LoseBuffers
  <2>3. CASE f \in Active
    <3>1. out[f[2]] \in Outcomes(buf[f[2]]) /\ part'[f] = part[f] \o out[f[2]]
      BY <2>2, <2>3, NameParts
    <3> DEFINE d == out[f[2]]
    <3> HIDE DEF d
    <3>2. d \in Outcomes(buf[f[2]]) /\ part'[f] = part[f] \o d
      BY <3>1 DEF d
    <3>3. /\ InFiles(f)' = InFiles(f) \cup Records(d) /\ Records(d) \subseteq Records(buf[f[2]])
          /\ OnDisk(f)' = OnDisk(f)
      BY <2>1, <2>3, <3>2, FileGrows
    <3> QED BY <2>1, <2>3, <3>3 DEF FileEffect, Settled, Sealed, Sealing, Buffered
  <2>4. CASE f \notin Active
    BY <2>1, <2>2, <2>4, FileKept, EffectUnmoved DEF Unmoved
  <2> QED BY <2>3, <2>4
<1>2. CASE PowerFails
  <2>1. UNCHANGED <<ready, zst, synced>>
    BY <1>2 DEF PowerFails
  <2>2. PICK piece \in {<<>>, <<Cut>>} :
          part' = [g \in Names |->
                     IF part[g] = NoFile \/ Len(part[g]) = synced[g] THEN part[g]
                     ELSE SubSeq(part[g], 1, synced[g]) \o piece]
    BY <1>2 DEF PowerFails
  <2>3. CASE part[f] = NoFile \/ Len(part[f]) = synced[f]
    BY <2>1, <2>2, <2>3, FileKept, EffectUnmoved DEF Unmoved
  <2>4. CASE ~(part[f] = NoFile \/ Len(part[f]) = synced[f])
    <3> DEFINE c == SubSeq(part[f], 1, synced[f])
    <3>1. part'[f] = c \o piece /\ part[f] # NoFile
      BY <2>2, <2>4
    <3>2. /\ part[f] \in Content /\ synced[f] \in 0 .. Len(part[f])
          /\ Records(c) \subseteq Records(part[f])
      BY <3>1, SyncedPart
    <3>3. c \in Content /\ Len(c) = synced[f]
      BY <3>2, Beginning
    <3>4. piece \in Content /\ Records(piece) = {}
      <4>1. CASE piece = <<>>
        BY <4>1, RecordsAre, ContentParts
      <4>2. CASE piece = <<Cut>>
        <5>1. <<Cut>> \in Content /\ Len(<<Cut>>) = 1 /\ <<Cut>>[1] = Cut
          BY ContentParts
        <5> QED BY <4>2, <5>1, RecordsAre
      <4> QED BY <4>1, <4>2
    <3> HIDE DEF c
    <3>5. c \o piece \in Content /\ Records(c \o piece) = Records(c) /\ c \o piece # NoFile
      <4>1. c \o piece \in Content /\ Records(c \o piece) = Records(c) \cup Records(piece)
        BY <3>3, <3>4, RecordsJoin
      <4> QED BY <3>4, <4>1, ContentParts
    <3>6. SubSeq(c \o piece, 1, synced[f]) = c
      <4>1. c \in Seq(Nat) /\ piece \in Seq(Nat) /\ Len(c) = synced[f]
        BY <3>3, <3>4 DEF Content
      <4>2. CASE synced[f] = 0
        <5>1. c = <<>> /\ SubSeq(c \o piece, 1, 0) = <<>>
          BY <4>1, <4>2, SubSeqEmpty
        <5> QED BY <4>2, <5>1
      <4>3. CASE synced[f] # 0
        <5>1. synced[f] \in 1 .. Len(c) /\ 1 \in 1 .. Len(c)
          BY <3>2, <4>1, <4>3
        <5>2. SubSeq(c \o piece, 1, synced[f]) = SubSeq(c, 1, synced[f])
          BY <4>1, <5>1, SubSeqOfConcat1
        <5>3. SubSeq(c, 1, Len(c)) = c
          BY <4>1, SubSeqFull
        <5> QED BY <4>1, <5>2, <5>3
      <4> QED BY <4>2, <4>3
    <3>7. InFiles(f)' \subseteq InFiles(f)
      BY <2>1, <3>1, <3>2, <3>5 DEF InFiles
    <3>8. OnDisk(f)' = OnDisk(f)
      BY <2>1, <3>1, <3>5, <3>6 DEF OnDisk, c
    <3> QED BY <1>2, <2>1, <3>7, <3>8 DEF FileEffect, Settled, Sealed, Sealing
  <2> QED BY <2>3, <2>4
<1> QED BY <1>1, <1>2

LEMMA DiskStep ==
  ASSUME Inv, NameInv, [Next]_vars, NEW f \in Names
  PROVE  FileEffect(f)
<1>1. CASE UNCHANGED <<part, ready, zst, synced>>
  BY <1>1, FileKept, EffectUnmoved
<1>2. CASE UNCHANGED disk
  BY <1>1, <1>2 DEF disk
<1>3. CASE Tick \/ SendShutdown \/ Start \/ SpawnWriter \/ ReceiveAndRotate \/ RotateTick
           \/ ReceiveShutdown \/ FinalizeDone \/ UNCHANGED vars
  BY <1>2, <1>3 DEF Tick, SendShutdown, Start, SpawnWriter, ReceiveAndRotate, RotateTick,
                    ReceiveShutdown, FinalizeDone, vars
<1>4. ASSUME NEW s \in Streams, Record(s) PROVE FileEffect(f)
  BY <1>2, <1>4 DEF Record
<1>5. ASSUME NEW g \in Names, RecoverReady(g) \/ CreateTemp(g) \/ Encode(g) \/ Checksum(g)
      PROVE  FileEffect(f)
  BY <1>1, <1>5 DEF RecoverReady, CreateTemp, Encode, Checksum, disk
<1>6. ASSUME NEW g \in Names, Install(g) PROVE FileEffect(f)
  <2>1. /\ ready[g] # NoFile /\ temp[g] = ready[g] /\ zst' = [zst EXCEPT ![g] = temp[g]]
        /\ UNCHANGED <<part, ready, synced>>
    BY <1>6 DEF Install, Inv, StageInv
  <2>2. CASE f = g
    <3>1. zst'[f] = ready[f]
      BY <2>1, <2>2 DEF Inv, TypeOK, IsContents
    <3>2. Unmoved(f) /\ Records(zst[f]) \subseteq Records(zst'[f]) /\ Settled(f)
      BY <2>1, <2>2, <3>1, FileInstalled
    <3> QED BY <2>1, <2>2, <3>2 DEF FileEffect, Unmoved, Sealed, Sealing
  <2>3. CASE f # g
    BY <2>1, <2>3, FileKept, EffectUnmoved DEF Inv, TypeOK, IsContents
  <2> QED BY <2>2, <2>3
<1>7. ASSUME NEW g \in Names, RemoveReady(g) PROVE FileEffect(f)
  <2>1. /\ stage[g] = "remove" /\ ready' = [ready EXCEPT ![g] = NoFile]
        /\ UNCHANGED <<part, zst, synced>>
    BY <1>7 DEF RemoveReady
  <2>2. CASE f = g
    <3>1. ready'[f] = NoFile
      BY <2>1, <2>2 DEF Inv, TypeOK, IsContents
    <3>2. Unmoved(f) /\ Records(zst[f]) \subseteq OnDisk(f)
      BY <2>1, <2>2, <3>1, FileSealed
    <3>3. ready[f] # NoFile
      BY <2>1, <2>2 DEF Inv, StageInv
    <3> QED BY <2>1, <3>1, <3>2, <3>3 DEF FileEffect, Unmoved, Sealed, Sealing, Settled
  <2>3. CASE f # g
    BY <2>1, <2>3, FileKept, EffectUnmoved DEF Inv, TypeOK, IsContents
  <2> QED BY <2>2, <2>3
<1>8. ASSUME NEW g \in Names, RecoverPartial(g) PROVE FileEffect(f)
  <2>1. /\ pc = "recovering" /\ g \in todo /\ part' = [part EXCEPT ![g] = NoFile]
        /\ ready' = [ready EXCEPT ![g] = Whole(part[g])]
        /\ synced' = [synced EXCEPT ![g] = 0] /\ UNCHANGED zst
    BY <1>8 DEF RecoverPartial, IsFirst, TruncateToLastNewline
  <2>2. CASE f = g
    <3>1. part[f] # NoFile
      BY <2>1, <2>2 DEF Inv, PartInv
    <3>2. part'[f] = NoFile /\ ready'[f] = Whole(part[f])
      BY <2>1, <2>2 DEF Inv, TypeOK, IsContents
    <3>3. InFiles(f)' = InFiles(f) /\ OnDisk(f) \subseteq OnDisk(f)'
      BY <2>1, <3>1, <3>2, FileRecovered
    <3>4. Records(zst[f]) = {} /\ ready[f] = NoFile
      BY <3>1, RecordsAre DEF NameInv, Blank
    <3> QED BY <2>1, <3>3, <3>4 DEF FileEffect, Settled, Sealed, Sealing
  <2>3. CASE f # g
    BY <2>1, <2>3, FileKept, EffectUnmoved DEF Inv, TypeOK, IsContents
  <2> QED BY <2>2, <2>3
<1>9. ASSUME NEW s \in Streams, OpenSegment(s) PROVE FileEffect(f)
  <2> DEFINE g == <<run, s, hour>>
  <2>1. g \in Names /\ g[1] = run /\ g[2] = s /\ g[3] = hour
    BY <1>9, NameParts DEF OpenSegment, Inv, MemoryInv, TypeOK
  <2>2. /\ pc = "opening" /\ segs[s] = -1 /\ UNCHANGED <<ready, zst, synced>>
        /\ part' = [part EXCEPT ![g] = IF @ = NoFile THEN <<>> ELSE @]
    BY <1>9 DEF OpenSegment
  <2> HIDE DEF g
  <2>3. CASE f = g
    <3>1. f \notin Active
      BY <2>1, <2>2, <2>3 DEF Active, Inv, TypeOK, Hours
    <3>2. part[f] = NoFile /\ ready[f] = NoFile /\ synced[f] = 0
      BY <2>2, <3>1 DEF Inv, PartInv, StageInv, WriterAlive
    <3>3. Blank(zst[f])
      <4>1. hour >= hour
        BY DEF Inv, TypeOK, Hours
      <4>2. WillOpen /\ f[1] = run /\ f[3] >= hour
        BY <2>1, <2>2, <2>3, <4>1 DEF WillOpen, WriterAlive
      <4> QED BY <4>2 DEF NameInv
    <3>4. part'[f] = <<>>
      BY <2>2, <2>3, <3>2 DEF Inv, TypeOK, IsContents
    <3> QED BY <2>2, <3>2, <3>3, <3>4, FileOpened, EffectUnmoved
  <2>4. CASE f # g
    BY <2>2, <2>4, FileKept, EffectUnmoved DEF Inv, TypeOK, IsContents
  <2> QED BY <2>3, <2>4
<1>10. CASE Receive
  <2>1. Head(queue) \in Message
    BY <1>10 DEF Receive, Inv, TypeOK
  <2> QED BY <1>10, <2>1, LineEffect DEF Receive
<1>11. CASE WriteHeld
  <2>1. hand[1] \in Message
    BY <1>11 DEF WriteHeld, Inv, MemoryInv, TypeOK
  <2> QED BY <1>11, <2>1, LineEffect DEF WriteHeld
<1>12. CASE FlushTick
  <2>1. /\ UNCHANGED <<ready, zst>>
        /\ part' = [g \in Names |-> IF g \in Active THEN part[g] \o buf[g[2]] ELSE part[g]]
        /\ \/ UNCHANGED synced
           \/ synced' = [g \in Names |-> IF g \in Active THEN Len(part'[g]) ELSE synced[g]]
    BY <1>12 DEF FlushTick, Flush
  <2>2. CASE f \in Active
    <3>1. part'[f] = part[f] \o buf[f[2]] /\ synced'[f] \in {synced[f], Len(part'[f])}
      BY <2>1, <2>2
    <3>2. InFiles(f)' = InFiles(f) \cup Records(buf[f[2]]) /\ OnDisk(f) \subseteq OnDisk(f)'
      BY <2>1, <2>2, <3>1, FileFlushed
    <3> QED BY <2>1, <2>2, <3>2 DEF FileEffect, Settled, Sealed, Sealing, Buffered
  <2>3. CASE f \notin Active
    BY <2>1, <2>3, FileKept, EffectUnmoved
  <2> QED BY <2>2, <2>3
<1>13. ASSUME NEW g \in Names, FinalizeSegment(g) PROVE FileEffect(f)
  <2>1. /\ pc \in {"rotating", "closing"} /\ g \in todo
        /\ part' = [part EXCEPT ![g] = NoFile]
        /\ ready' = [ready EXCEPT ![g] = part[g] \o buf[g[2]]]
        /\ synced' = [synced EXCEPT ![g] = 0] /\ UNCHANGED zst
    BY <1>13 DEF FinalizeSegment, IsFirst
  <2>2. g \in Active
    BY <2>1 DEF Inv, MemoryInv
  <2>3. CASE f = g
    <3>1. part'[f] = NoFile /\ ready'[f] = part[f] \o buf[f[2]]
      BY <2>1, <2>3 DEF Inv, TypeOK, IsContents
    <3>2. InFiles(f)' = InFiles(f) \cup Records(buf[f[2]]) /\ OnDisk(f) \subseteq OnDisk(f)'
      BY <2>1, <2>2, <2>3, <3>1, FileFinalized
    <3>3. Records(zst[f]) = {} /\ ready[f] = NoFile
      BY <2>2, <2>3, ActiveParts
    <3> QED BY <2>1, <2>2, <2>3, <3>2, <3>3 DEF FileEffect, Settled, Sealed, Sealing, Buffered
  <2>4. CASE f # g
    BY <2>1, <2>4, FileKept, EffectUnmoved DEF Inv, TypeOK, IsContents
  <2> QED BY <2>3, <2>4
<1>14. CASE WriterFails \/ Crash \/ PowerFails
  BY <1>14, FailureEffect
<1> QED
  BY <1>3, <1>4, <1>5, <1>6, <1>7, <1>8, <1>9, <1>10, <1>11, <1>12, <1>13, <1>14
     DEF Next, Recover, Write, Compress

-----------------------------------------------------------------------------
(* What each step does to the records in memory.                           *)

Waiting == {i \in 1 .. Len(queue) : queue[i] # Shutdown}
Queued == {queue[i].n : i \in Waiting}
Held == {hand[i].n : i \in 1 .. Len(hand)}
Lines == UNION {ToSet(buf[s]) : s \in Streams}

\* Nothing is behind Shutdown in the channel; what waits there was sent in this
\* order, and after the record in hand.
QueueInv ==
  /\ \A i \in 1 .. Len(queue) : queue[i] = Shutdown => i = Len(queue)
  /\ \A i \in Waiting : queue[i].n <= sent
  /\ \A i, j \in Waiting : i < j => queue[i].n < queue[j].n
  /\ \A i \in 1 .. Len(hand) : hand[i].n <= sent /\ \A j \in Waiting : hand[i].n < queue[j].n

LEMMA MemoryParts ==
  ASSUME Inv
  PROVE  /\ InMemory = Queued \cup Held \cup Lines
         /\ \A i \in Waiting : queue[i] \in Message /\ queue[i].n \in Nat
         /\ \A i \in 1 .. Len(hand) : hand[i] \in Message /\ hand[i].n \in Nat
         /\ \A s \in Streams : /\ buf[s] \in Content /\ Records(buf[s]) = ToSet(buf[s])
                              /\ \A n : n \in ToSet(buf[s]) <=> \E i \in 1 .. Len(buf[s]) : buf[s][i] = n
<1>1. DOMAIN queue = 1 .. Len(queue) /\ DOMAIN hand = 1 .. Len(hand)
  BY DEF Inv, TypeOK
<1>2. InMemory = Queued \cup Held \cup Lines
  BY <1>1 DEF InMemory, Queued, Held, Lines, Waiting
<1>3. ASSUME NEW s \in Streams
      PROVE  /\ buf[s] \in Content /\ Records(buf[s]) = ToSet(buf[s])
             /\ \A n : n \in ToSet(buf[s]) <=> \E i \in 1 .. Len(buf[s]) : buf[s][i] = n
  <2>1. buf[s] \in Content /\ NoCut(buf[s]) /\ DOMAIN buf[s] = 1 .. Len(buf[s])
    BY DEF Inv, MemoryInv, TypeOK, Content
  <2>2. \A n : n \in ToSet(buf[s]) <=> \E i \in 1 .. Len(buf[s]) : buf[s][i] = n
    BY <2>1 DEF ToSet
  <2>3. Cut \notin ToSet(buf[s])
    BY <2>1, <2>2 DEF NoCut
  <2> QED BY <2>1, <2>2, <2>3, ContentParts DEF Records
<1>4. (\A i \in Waiting : queue[i] \in Message) /\ \A i \in 1 .. Len(hand) : hand[i] \in Message
  BY DEF Inv, TypeOK, Waiting
<1> QED BY <1>2, <1>3, <1>4, ContentParts

LEMMA QueueStep ==
  ASSUME Inv, QueueInv, [Next]_vars
  PROVE  QueueInv'
<1>a. queue \in Seq(Message \cup {Shutdown}) /\ hand \in Seq(Message) /\ sent \in Nat
      /\ Len(hand) <= 1
  BY StorageAssumption DEF Inv, TypeOK
<1>b. \A i \in Waiting : queue[i].n \in Nat
  BY MemoryParts
<1>1. CASE UNCHANGED <<sent, queue, hand>>
  BY <1>1 DEF QueueInv, Waiting
<1>2. ASSUME NEW s \in Streams, Record(s) PROVE QueueInv'
  <2> DEFINE m == [stream |-> s, n |-> sent + 1]
  <2>1. queue' = Append(queue, m) /\ sent' = sent + 1 /\ hand' = hand /\ ~stopping
    BY <1>2 DEF Record, ProducersRun
  <2>2. m \in Message /\ m # Shutdown /\ m.n = sent + 1
    <3>1. sent + 1 \in 1 .. MaxRecords
      BY <1>2, <1>a, StorageAssumption DEF Record
    <3>2. m \in Message /\ m.n = sent + 1
      BY <3>1 DEF Message
    <3> HIDE DEF m
    <3> QED BY <3>2, ContentParts
  <2> HIDE DEF m
  <2>3. \A i \in 1 .. Len(queue) : queue[i] # Shutdown
    BY <2>1 DEF Inv, MemoryInv
  <2>4. /\ Len(queue') = Len(queue) + 1 /\ Len(queue) \in Nat /\ queue'[Len(queue) + 1] = m
        /\ \A i \in 1 .. Len(queue) : queue'[i] = queue[i]
    BY <1>a, <2>1, <2>2
  <2>5. ASSUME NEW i \in Waiting' PROVE i \in Waiting \/ (i = Len(queue) + 1 /\ queue'[i] = m)
    BY <2>3, <2>4 DEF Waiting
  <2>6. \A i \in Waiting : queue'[i] = queue[i] /\ queue[i].n <= sent /\ i < Len(queue) + 1
    BY <2>4 DEF QueueInv, Waiting
  <2>7. \A i \in 1 .. Len(queue') : queue'[i] # Shutdown
    BY <2>2, <2>3, <2>4
  <2>8. ASSUME NEW i \in Waiting' PROVE queue'[i].n <= sent'
    <3>1. CASE i \in Waiting
      <4>1. queue'[i].n = queue[i].n /\ queue[i].n <= sent /\ queue[i].n \in Nat
        BY <1>b, <2>6, <3>1
      <4> QED BY <1>a, <2>1, <4>1
    <3>2. CASE i = Len(queue) + 1 /\ queue'[i] = m
      BY <1>a, <2>1, <2>2, <3>2
    <3> QED BY <2>5, <3>1, <3>2
  <2>9. ASSUME NEW i \in Waiting', NEW j \in Waiting', i < j PROVE queue'[i].n < queue'[j].n
    <3>1. i \in Waiting
      BY <2>4, <2>5, <2>9 DEF Waiting
    <3>2. CASE j \in Waiting
      BY <2>6, <2>9, <3>1, <3>2 DEF QueueInv
    <3>3. CASE j = Len(queue) + 1 /\ queue'[j] = m
      BY <1>a, <1>b, <2>2, <2>6, <3>1, <3>3
    <3> QED BY <2>5, <3>2, <3>3
  <2>10. ASSUME NEW i \in 1 .. Len(hand)
         PROVE  hand[i].n <= sent' /\ \A j \in Waiting' : hand[i].n < queue'[j].n
    <3>1. hand[i].n <= sent /\ hand[i].n \in Nat /\ \A j \in Waiting : hand[i].n < queue[j].n
      BY MemoryParts DEF QueueInv
    <3>2. hand[i].n < sent + 1
      BY <1>a, <3>1
    <3>3. \A j \in Waiting' : hand[i].n < queue'[j].n
      BY <2>2, <2>5, <2>6, <3>1, <3>2
    <3>4. sent' = sent + 1 /\ sent \in Nat
      BY <1>a, <2>1
    <3>5. hand[i].n <= sent'
      BY <3>1, <3>4
    <3> QED BY <3>3, <3>5
  <2> QED BY <2>1, <2>7, <2>8, <2>9, <2>10 DEF QueueInv
<1>3. CASE SendShutdown
  <2>1. queue' = Append(queue, Shutdown) /\ sent' = sent /\ hand' = hand /\ ~stopping
    BY <1>3 DEF SendShutdown
  <2>2. \A i \in 1 .. Len(queue) : queue[i] # Shutdown
    BY <2>1 DEF Inv, MemoryInv
  <2>3. /\ Len(queue') = Len(queue) + 1 /\ Len(queue) \in Nat
        /\ queue'[Len(queue) + 1] = Shutdown
        /\ \A i \in 1 .. Len(queue) : queue'[i] = queue[i]
    BY <1>a, <2>1
  <2>4. Waiting' = Waiting /\ \A i \in Waiting : queue'[i] = queue[i]
    BY <2>2, <2>3 DEF Waiting
  <2>5. \A i \in 1 .. Len(queue') : queue'[i] = Shutdown => i = Len(queue')
    BY <2>2, <2>3
  <2> QED BY <2>1, <2>4, <2>5 DEF QueueInv
\* The head is taken: what was behind it keeps its order.
<1>4. ASSUME queue # <<>>, Head(queue) # Shutdown, queue' = Tail(queue), sent' = sent,
             hand' \in {<<>>, <<Head(queue)>>}
      PROVE  QueueInv'
  <2>1. /\ Len(queue) \in Nat \ {0} /\ Len(queue') = Len(queue) - 1 /\ Head(queue) = queue[1]
        /\ \A i \in 1 .. Len(queue') : queue'[i] = queue[i + 1] /\ i + 1 \in 1 .. Len(queue)
    BY <1>a, <1>4
  <2>2. 1 \in Waiting /\ \A i \in Waiting' : i + 1 \in Waiting /\ queue'[i] = queue[i + 1]
    BY <1>4, <2>1 DEF Waiting
  <2>3. \A i \in 1 .. Len(queue') : queue'[i] = Shutdown => i = Len(queue')
    BY <2>1 DEF QueueInv
  <2>4. \A i \in Waiting' : i \in Nat \ {0} /\ queue'[i].n <= sent
    BY <2>2 DEF QueueInv, Waiting
  <2>5. \A i, j \in Waiting' : i < j => queue'[i].n < queue'[j].n
    BY <2>2, <2>4 DEF QueueInv
  <2>6. ASSUME NEW i \in 1 .. Len(hand')
        PROVE  hand'[i].n <= sent /\ \A j \in Waiting' : hand'[i].n < queue'[j].n
    <3>1. Len(<<>>) = 0 /\ Len(<<Head(queue)>>) = 1 /\ <<Head(queue)>>[1] = Head(queue)
      OBVIOUS
    <3>2. CASE hand' = <<>>
      BY <3>1, <3>2
    <3>3. CASE hand' = <<Head(queue)>>
      <4>1. i = 1 /\ hand'[i] = queue[1]
        BY <2>1, <3>1, <3>3
      <4> QED BY <2>2, <2>4, <4>1 DEF QueueInv
    <3>4. hand' = <<>> \/ hand' = <<Head(queue)>>
      BY <1>4
    <3> QED BY <3>2, <3>3, <3>4
  <2> QED BY <1>4, <2>3, <2>4, <2>5, <2>6 DEF QueueInv
<1>5. CASE Receive \/ ReceiveAndRotate
  <2>1. Receive => hand = <<>> /\ hand' = hand
    BY DEF Receive, Inv, MemoryInv
  <2>2. ReceiveAndRotate => hand' = <<Head(queue)>>
    BY DEF ReceiveAndRotate
  <2>3. /\ queue # <<>> /\ Head(queue) # Shutdown /\ queue' = Tail(queue) /\ sent' = sent
    BY <1>5 DEF Receive, ReceiveAndRotate, world
  <2>4. hand' \in {<<>>, <<Head(queue)>>}
    BY <1>5, <2>1, <2>2
  <2> QED BY <1>4, <2>3, <2>4
<1>6. CASE WriteHeld
  <2>1. hand' = <<>> /\ UNCHANGED <<sent, queue>>
    BY <1>6 DEF WriteHeld, world
  <2>2. Len(hand') = 0 /\ Waiting' = Waiting
    BY <2>1 DEF Waiting
  <2> QED BY <2>1, <2>2 DEF QueueInv
<1>7. CASE ReceiveShutdown
  <2>1. queue' = <<>> /\ UNCHANGED <<sent, hand>>
    BY <1>7 DEF ReceiveShutdown, world
  <2>2. Len(queue') = 0 /\ Waiting' = {}
    BY <2>1 DEF Waiting
  <2> QED BY <2>1, <2>2 DEF QueueInv
<1>8. CASE WriterFails \/ Crash \/ PowerFails
  <2>1. queue' = <<>> /\ hand' = <<>>
    BY <1>8 DEF WriterFails, Crash, PowerFails, LoseBuffers, ForgetMemory
  <2>2. Len(queue') = 0 /\ Len(hand') = 0 /\ Waiting' = {}
    BY <2>1 DEF Waiting
  <2> QED BY <2>2 DEF QueueInv
<1>9. CASE Tick \/ Start \/ SpawnWriter \/ FlushTick \/ RotateTick \/ FinalizeDone
           \/ UNCHANGED vars
  BY <1>1, <1>9 DEF Tick, Start, SpawnWriter, FlushTick, RotateTick, FinalizeDone, vars,
                    world, process
<1>10. CASE Compress
  BY <1>1, <1>10 DEF Compress, CreateTemp, Encode, Install, Checksum, RemoveReady, world
<1>11. ASSUME NEW f \in Names, RecoverPartial(f) \/ RecoverReady(f) \/ FinalizeSegment(f)
       PROVE  QueueInv'
  BY <1>1, <1>11 DEF RecoverPartial, RecoverReady, FinalizeSegment, world
<1>12. ASSUME NEW s \in Streams, OpenSegment(s) PROVE QueueInv'
  BY <1>1, <1>12 DEF OpenSegment, world
<1> QED
  BY <1>2, <1>3, <1>5, <1>6, <1>7, <1>8, <1>9, <1>10, <1>11, <1>12 DEF Next, Recover, Write

LEMMA ElementsOf ==
  /\ ToSet(<<>>) = {}
  /\ \A n \in Nat : ToSet(<<n>>) = {n}
  /\ \A b \in Seq(Nat), n \in Nat : ToSet(Append(b, n)) = ToSet(b) \cup {n}
<1>1. ToSet(<<>>) = {}
  BY DEF ToSet
<1>2. ASSUME NEW n \in Nat PROVE ToSet(<<n>>) = {n}
  <2>1. DOMAIN <<n>> = {1} /\ <<n>>[1] = n
    OBVIOUS
  <2> HIDE DEF ToSet
  <2>2. \A k : k \in ToSet(<<n>>) <=> k = n
    BY <2>1 DEF ToSet
  <2> QED BY <2>2
<1>3. ASSUME NEW b \in Seq(Nat), NEW n \in Nat PROVE ToSet(Append(b, n)) = ToSet(b) \cup {n}
  <2>1. /\ DOMAIN Append(b, n) = (DOMAIN b) \cup {Len(b) + 1} /\ Append(b, n)[Len(b) + 1] = n
        /\ \A i \in DOMAIN b : Append(b, n)[i] = b[i]
    OBVIOUS
  <2>2. \A k : k \in ToSet(Append(b, n)) <=> k \in ToSet(b) \/ k = n
    BY <2>1 DEF ToSet
  <2> QED BY <2>2
<1> QED BY <1>1, <1>2, <1>3

InAFile == UNION {InFiles(f) : f \in Names}

\* A line is written: it is in memory now, and what was buffered is still there or
\* has reached its file.
LEMMA LineMoves ==
  ASSUME Inv, NameInv, pc \in {"loop", "writing"}, NEW m \in Message, WriteLine(m),
         UNCHANGED <<ready, zst>>
  PROVE  /\ Lines' \subseteq Lines \cup {m.n}
         /\ Lines \cup {m.n} \subseteq Lines' \cup InAFile'
<1>1. m.stream \in Streams /\ m.n \in Nat
  BY ContentParts
<1>2. PICK g \in Active : g \in Names /\ g[2] = m.stream
                          /\ g = <<run, m.stream, segs[m.stream]>>
  <2>1. run \in Runs /\ segs[m.stream] \in Hours
    BY <1>1 DEF Inv, MemoryInv, TypeOK
  <2> QED BY <1>1, <2>1, NameParts DEF Active
<1>3. \/ buf' = [buf EXCEPT ![m.stream] = Append(@, m.n)]
      \/ /\ part' = [part EXCEPT ![g] = @ \o buf[m.stream]]
         /\ buf' = [buf EXCEPT ![m.stream] = <<m.n>>]
  BY <1>2 DEF WriteLine
<1>4. part \in [Names -> Content \cup {NoFile}] /\ ready'[g] = ready[g] /\ zst'[g] = zst[g]
  BY DEF Inv, TypeOK, IsContents
<1>5. buf[m.stream] \in Seq(Nat) /\ buf \in [Streams -> Seq(Nat)]
  BY <1>1 DEF Inv, TypeOK
<1>6. CASE buf' = [buf EXCEPT ![m.stream] = Append(@, m.n)]
  <2>1. buf'[m.stream] = Append(buf[m.stream], m.n)
        /\ \A s \in Streams \ {m.stream} : buf'[s] = buf[s]
    BY <1>1, <1>5, <1>6
  <2>2. ToSet(buf'[m.stream]) = ToSet(buf[m.stream]) \cup {m.n}
    BY <1>1, <1>5, <2>1, ElementsOf
  <2>3. Lines' \subseteq Lines \cup {m.n}
    <3>1. \A s \in Streams : ToSet(buf'[s]) \subseteq ToSet(buf[s]) \cup {m.n}
      BY <2>1, <2>2
    <3> QED BY <3>1 DEF Lines
  <2>4. Lines \subseteq Lines' /\ m.n \in Lines'
    <3>1. \A s \in Streams : ToSet(buf[s]) \subseteq ToSet(buf'[s])
      BY <2>1, <2>2
    <3> QED BY <1>1, <2>2, <3>1 DEF Lines
  <2> QED BY <2>3, <2>4
<1>7. CASE /\ part' = [part EXCEPT ![g] = @ \o buf[m.stream]]
           /\ buf' = [buf EXCEPT ![m.stream] = <<m.n>>]
  <2>1. buf'[m.stream] = <<m.n>> /\ \A s \in Streams \ {m.stream} : buf'[s] = buf[s]
    BY <1>1, <1>5, <1>7
  <2>2. ToSet(buf'[m.stream]) = {m.n}
    BY <1>1, <2>1, ElementsOf
  <2>3. part'[g] = part[g] \o buf[g[2]]
    BY <1>2, <1>4, <1>7
  <2>4. InFiles(g)' = InFiles(g) \cup Records(buf[g[2]])
    BY <1>2, <1>4, <2>3, FileFlushed
  <2>5. ToSet(buf[m.stream]) \subseteq InAFile'
    BY <1>1, <1>2, <2>4, MemoryParts DEF InAFile
  <2> QED BY <1>1, <2>1, <2>2, <2>5 DEF Lines
<1> QED BY <1>3, <1>6, <1>7

\* No record leaves the memory but to a file, unless a failure empties it, and
\* none comes into it but the one that is sent.
LEMMA MemoryMoves ==
  ASSUME Inv, NameInv, QueueInv, [Next]_vars
  PROVE  /\ \/ WriterFails \/ Crash \/ PowerFails
            \/ InMemory \subseteq InMemory' \cup InAFile'
         /\ InMemory' \subseteq InMemory \cup (sent + 1 .. sent')
         /\ sent + 1 .. sent' \subseteq InMemory'
         /\ sent' \in {sent, sent + 1}
<1>a. queue \in Seq(Message \cup {Shutdown}) /\ hand \in Seq(Message) /\ sent \in Nat
      /\ sent + 1 .. sent = {} /\ buf \in [Streams -> Seq(Nat)]
  BY StorageAssumption DEF Inv, TypeOK
<1>b. InMemory = Queued \cup Held \cup Lines
  BY MemoryParts
<1>c. TypeOK'
  BY TypeStep DEF Inv
<1>d. InMemory' = Queued' \cup Held' \cup Lines'
  <2>1. DOMAIN queue' = 1 .. Len(queue') /\ DOMAIN hand' = 1 .. Len(hand')
    BY <1>c DEF TypeOK
  <2> QED BY <2>1 DEF InMemory, Queued, Held, Lines, Waiting
<1>1. ASSUME sent' = sent, InMemory' \subseteq InMemory, InMemory \subseteq InMemory' \cup InAFile'
      PROVE  /\ InMemory \subseteq InMemory' \cup InAFile'
             /\ InMemory' \subseteq InMemory \cup (sent + 1 .. sent')
             /\ sent + 1 .. sent' \subseteq InMemory'
             /\ sent' \in {sent, sent + 1}
  BY <1>a, <1>1
<1>2. CASE UNCHANGED <<sent, queue, hand, buf>>
  BY <1>1, <1>2 DEF InMemory
<1>3. ASSUME NEW s \in Streams, Record(s)
      PROVE  InMemory' = InMemory \cup {sent + 1} /\ sent' = sent + 1
  <2> DEFINE m == [stream |-> s, n |-> sent + 1]
  <2>1. queue' = Append(queue, m) /\ sent' = sent + 1 /\ UNCHANGED <<hand, buf>>
    BY <1>3 DEF Record
  <2>2. m \in Message /\ m # Shutdown /\ m.n = sent + 1
    <3>1. sent + 1 \in 1 .. MaxRecords
      BY <1>3, <1>a, StorageAssumption DEF Record
    <3>2. m \in Message /\ m.n = sent + 1
      BY <3>1 DEF Message
    <3> HIDE DEF m
    <3> QED BY <3>2, ContentParts
  <2> HIDE DEF m
  <2>3. /\ Len(queue') = Len(queue) + 1 /\ Len(queue) \in Nat /\ queue'[Len(queue) + 1] = m
        /\ \A i \in 1 .. Len(queue) : queue'[i] = queue[i]
    BY <1>a, <2>1, <2>2
  <2>4. Waiting' = Waiting \cup {Len(queue) + 1} /\ \A i \in Waiting : queue'[i] = queue[i]
    BY <2>2, <2>3 DEF Waiting
  <2>5. Queued' = Queued \cup {sent + 1}
    BY <2>2, <2>3, <2>4 DEF Queued
  <2> QED BY <1>b, <1>d, <2>1, <2>5 DEF Held, Lines
<1>4. CASE SendShutdown
  <2>1. queue' = Append(queue, Shutdown) /\ UNCHANGED <<sent, hand, buf>>
    BY <1>4 DEF SendShutdown
  <2>2. /\ Len(queue') = Len(queue) + 1 /\ Len(queue) \in Nat
        /\ queue'[Len(queue) + 1] = Shutdown
        /\ \A i \in 1 .. Len(queue) : queue'[i] = queue[i]
    BY <1>a, <2>1
  <2>3. Waiting' = Waiting /\ \A i \in Waiting : queue'[i] = queue[i]
    BY <2>2 DEF Waiting
  <2>4. InMemory' = InMemory
    BY <1>b, <1>d, <2>1, <2>3 DEF Queued, Held, Lines
  <2> QED BY <1>1, <2>1, <2>4
\* The head is taken.
<1>5. ASSUME queue # <<>>, Head(queue) # Shutdown, queue' = Tail(queue)
      PROVE  Head(queue) \in Message /\ Queued = Queued' \cup {Head(queue).n}
  <2>1. /\ Len(queue) \in Nat \ {0} /\ Len(queue') = Len(queue) - 1 /\ Head(queue) = queue[1]
        /\ \A i \in 1 .. Len(queue') : queue'[i] = queue[i + 1] /\ i + 1 \in 1 .. Len(queue)
    BY <1>a, <1>5
  <2>2. Head(queue) \in Message
    BY <1>a, <1>5, <2>1
  <2>3. 1 \in Waiting /\ \A i \in Waiting' : i + 1 \in Waiting /\ queue'[i] = queue[i + 1]
    BY <1>5, <2>1 DEF Waiting
  <2>4. ASSUME NEW i \in Waiting, i # 1 PROVE i - 1 \in Waiting' /\ queue'[i - 1] = queue[i]
    <3>1. i - 1 \in 1 .. Len(queue') /\ (i - 1) + 1 = i
      BY <2>1, <2>4 DEF Waiting
    <3> QED BY <2>1, <3>1 DEF Waiting
  <2>5. Queued' \cup {Head(queue).n} \subseteq Queued
    BY <2>1, <2>3 DEF Queued
  <2>6. Queued \subseteq Queued' \cup {Head(queue).n}
    BY <2>1, <2>4 DEF Queued
  <2> QED BY <2>2, <2>5, <2>6
<1>6. CASE Receive
  <2>1. /\ queue # <<>> /\ Head(queue) # Shutdown /\ queue' = Tail(queue) /\ pc = "loop"
        /\ WriteLine(Head(queue)) /\ UNCHANGED <<sent, hand, ready, zst>>
    BY <1>6 DEF Receive, world
  <2>2. Queued = Queued' \cup {Head(queue).n} /\ Held' = Held
        /\ Lines' \subseteq Lines \cup {Head(queue).n}
        /\ Lines \cup {Head(queue).n} \subseteq Lines' \cup InAFile'
    BY <1>5, <2>1, LineMoves DEF Held
  <2> QED BY <1>1, <1>b, <1>d, <2>1, <2>2
<1>7. CASE ReceiveAndRotate
  <2>1. /\ queue # <<>> /\ Head(queue) # Shutdown /\ queue' = Tail(queue) /\ pc = "loop"
        /\ hand' = <<Head(queue)>> /\ UNCHANGED <<sent, buf>>
    BY <1>7 DEF ReceiveAndRotate, world
  <2>2. hand = <<>> /\ Held = {}
    BY <2>1 DEF Inv, MemoryInv, Held
  <2>3. Held' = {Head(queue).n}
    BY <2>1 DEF Held
  <2>4. Queued = Queued' \cup {Head(queue).n} /\ Lines' = Lines
    BY <1>5, <2>1 DEF Lines
  <2> QED BY <1>1, <1>b, <1>d, <2>1, <2>2, <2>3, <2>4
<1>8. CASE WriteHeld
  <2>1. /\ pc = "writing" /\ WriteLine(hand[1]) /\ hand' = <<>>
        /\ UNCHANGED <<sent, queue, ready, zst>>
    BY <1>8 DEF WriteHeld, world
  <2>2. hand # <<>> /\ Len(hand) <= 1
    BY <2>1 DEF Inv, MemoryInv, TypeOK
  <2>3. hand[1] \in Message /\ Held = {hand[1].n}
    BY <1>a, <2>2 DEF Held
  <2>4. Held' = {} /\ Queued' = Queued
    BY <2>1 DEF Held, Queued, Waiting
  <2>5. Lines' \subseteq Lines \cup {hand[1].n} /\ Lines \cup {hand[1].n} \subseteq Lines' \cup InAFile'
    BY <2>1, <2>3, LineMoves
  <2> QED BY <1>1, <1>b, <1>d, <2>1, <2>3, <2>4, <2>5
<1>9. CASE ReceiveShutdown
  <2>1. queue # <<>> /\ queue[1] = Shutdown /\ queue' = <<>> /\ UNCHANGED <<sent, hand, buf>>
    BY <1>a, <1>9 DEF ReceiveShutdown, world
  <2>2. Len(queue) = 1
    <3>1. Len(queue) \in Nat \ {0}
      BY <1>a, <2>1
    <3>2. 1 \in 1 .. Len(queue)
      BY <3>1
    <3> QED BY <2>1, <3>2 DEF QueueInv
  <2>3. Waiting = {} /\ Waiting' = {}
    BY <2>1, <2>2 DEF Waiting
  <2>4. InMemory' = InMemory
    BY <1>b, <1>d, <2>1, <2>3 DEF Queued, Held, Lines
  <2> QED BY <1>1, <2>1, <2>4
<1>10. CASE FlushTick
  <2>1. /\ pc = "loop" /\ buf' = NoBytes /\ UNCHANGED <<sent, queue, hand, ready, zst>>
        /\ part' = [f \in Names |-> IF f \in Active THEN part[f] \o buf[f[2]] ELSE part[f]]
    BY <1>10 DEF FlushTick, Flush, world
  <2>2. Lines' = {}
    BY <2>1, ElementsOf DEF Lines, NoBytes
  <2>3. ASSUME NEW s \in Streams PROVE ToSet(buf[s]) \subseteq InAFile'
    <3>1. run \in Runs /\ segs[s] \in Hours
      BY <2>1 DEF Inv, MemoryInv, TypeOK
    <3>2. PICK g \in Active : g[2] = s /\ g \in Names
      BY <3>1, NameParts DEF Active
    <3>3. part'[g] = part[g] \o buf[g[2]] /\ ready'[g] = ready[g] /\ zst'[g] = zst[g]
      BY <2>1, <3>2
    <3>4. InFiles(g)' = InFiles(g) \cup Records(buf[g[2]])
      BY <3>2, <3>3, FileFlushed
    <3> QED BY <3>2, <3>4, MemoryParts DEF InAFile
  <2>4. Lines \subseteq InAFile'
    BY <2>3 DEF Lines
  <2>5. Queued' = Queued /\ Held' = Held
    BY <2>1 DEF Held, Queued, Waiting
  <2> QED BY <1>1, <1>b, <1>d, <2>1, <2>2, <2>4, <2>5
<1>11. ASSUME NEW f \in Names, FinalizeSegment(f)
       PROVE  /\ InMemory \subseteq InMemory' \cup InAFile' /\ InMemory' \subseteq InMemory
              /\ sent' = sent
  <2>1. /\ pc \in {"rotating", "closing"} /\ f \in todo /\ UNCHANGED <<sent, queue, hand, zst>>
        /\ part' = [part EXCEPT ![f] = NoFile]
        /\ ready' = [ready EXCEPT ![f] = part[f] \o buf[f[2]]]
        /\ buf' = [buf EXCEPT ![f[2]] = <<>>]
    BY <1>11 DEF FinalizeSegment, IsFirst, world
  <2>2. f \in Active /\ f[2] \in Streams
    BY <2>1, NameParts DEF Inv, MemoryInv
  <2>3. part'[f] = NoFile /\ ready'[f] = part[f] \o buf[f[2]]
    BY <2>1 DEF Inv, TypeOK, IsContents
  <2>4. InFiles(f)' = InFiles(f) \cup Records(buf[f[2]])
    BY <2>1, <2>2, <2>3, FileFinalized
  <2>5. ToSet(buf[f[2]]) \subseteq InAFile'
    BY <2>2, <2>4, MemoryParts DEF InAFile
  <2>6. ToSet(buf'[f[2]]) = {} /\ \A s \in Streams \ {f[2]} : buf'[s] = buf[s]
    BY <1>a, <2>1, <2>2, ElementsOf
  <2>7. Lines' \subseteq Lines /\ Lines \subseteq Lines' \cup InAFile'
    BY <2>2, <2>5, <2>6 DEF Lines
  <2>8. Queued' = Queued /\ Held' = Held
    BY <2>1 DEF Held, Queued, Waiting
  <2> QED BY <1>b, <1>d, <2>1, <2>7, <2>8
<1>12. CASE WriterFails \/ Crash \/ PowerFails
  <2>1. queue' = <<>> /\ hand' = <<>> /\ buf' = NoBytes /\ sent' = sent
    BY <1>12 DEF WriterFails, Crash, PowerFails, LoseBuffers, ForgetMemory, world
  <2>2. Waiting' = {} /\ Held' = {} /\ Lines' = {}
    BY <2>1, ElementsOf DEF Waiting, Held, Lines, NoBytes
  <2>3. InMemory' = {}
    BY <1>d, <2>2 DEF Queued
  <2> QED BY <1>12, <1>a, <2>1, <2>3
<1>13. CASE Tick \/ Start \/ SpawnWriter \/ RotateTick \/ FinalizeDone \/ UNCHANGED vars
  BY <1>2, <1>13 DEF Tick, Start, SpawnWriter, RotateTick, FinalizeDone, vars, world, process
<1>14. CASE Compress
  BY <1>2, <1>14 DEF Compress, CreateTemp, Encode, Install, Checksum, RemoveReady, world
<1>15. CASE \E f \in Names : RecoverPartial(f) \/ RecoverReady(f)
  BY <1>2, <1>15 DEF RecoverPartial, RecoverReady, world
<1>16. CASE \E s \in Streams : OpenSegment(s)
  BY <1>2, <1>16 DEF OpenSegment, world
<1>17. CASE \E s \in Streams : Record(s)
  <2>1. sent + 1 .. sent + 1 = {sent + 1}
    BY <1>a
  <2> QED BY <1>3, <1>17, <2>1
<1>18. CASE \E f \in Names : FinalizeSegment(f)
  BY <1>1, <1>11, <1>18
<1> QED
  BY <1>4, <1>6, <1>7, <1>8, <1>9, <1>10, <1>12, <1>13, <1>14, <1>15, <1>16, <1>17, <1>18
     DEF Next, Recover, Write

-----------------------------------------------------------------------------
(* What every step keeps.                                                  *)

\* Nothing is stored but what was sent.
SentInv == Everywhere \subseteq 1 .. sent

StepsInv == Inv /\ ClockInv /\ NameInv /\ QueueInv /\ SentInv

Durable == UNION {OnDisk(f) : f \in Names}
Final == UNION {Sealed(f) : f \in Names}
Fails == WriterFails \/ Crash \/ PowerFails

LEMMA NothingYet == Init => InMemory = {} /\ Everywhere = {} /\ Durable = {} /\ Final = {}
<1> SUFFICES ASSUME Init PROVE InMemory = {} /\ Everywhere = {} /\ Durable = {} /\ Final = {}
  OBVIOUS
<1>1. DOMAIN queue = {} /\ DOMAIN hand = {} /\ \A s \in Streams : ToSet(buf[s]) = {}
  BY ElementsOf DEF Init, NoBytes
<1>2. InMemory = {}
  BY <1>1 DEF InMemory
<1>3. \A f \in Names : part[f] = NoFile /\ ready[f] = NoFile /\ zst[f] = NoFile
  BY DEF Init
<1>4. \A f \in Names : InFiles(f) = {} /\ OnDisk(f) = {} /\ Sealed(f) = {}
  BY <1>3, RecordsAre DEF InFiles, OnDisk, Sealed
<1> QED BY <1>2, <1>4 DEF Everywhere, Durable, Final

LEMMA StepsInit == Init => StepsInv
<1> SUFFICES ASSUME Init PROVE StepsInv
  OBVIOUS
<1>1. Inv
  BY InvInit
<1>2. ClockInv
  BY DEF Init, ClockInv, NoSegs
<1>3. NameInv
  <2>1. \A f \in Names : /\ part[f] = NoFile /\ ready[f] = NoFile /\ zst[f] = NoFile
                         /\ stage[f] = "idle"
    BY DEF Init, Idle
  <2>2. ~WillOpen
    BY DEF Init, WillOpen, WriterAlive
  <2> QED BY <2>1, <2>2 DEF NameInv, Blank
<1>4. QueueInv
  <2>1. Len(queue) = 0 /\ Len(hand) = 0
    BY DEF Init
  <2> QED BY <2>1 DEF QueueInv, Waiting
<1>5. SentInv
  BY NothingYet DEF SentInv
<1> QED BY <1>1, <1>2, <1>3, <1>4, <1>5 DEF StepsInv

LEMMA BufferedInMemory == Inv => \A f \in Names : Buffered(f) \subseteq InMemory
<1> SUFFICES ASSUME Inv, NEW f \in Names PROVE Buffered(f) \subseteq InMemory
  OBVIOUS
<1>1. f[2] \in Streams
  BY NameParts
<1> QED BY <1>1, MemoryParts DEF Buffered, Lines

\* Unless something fails a record stays somewhere, and none is stored that was
\* not sent.
LEMMA EverywhereMoves ==
  ASSUME StepsInv, [Next]_vars
  PROVE  /\ Fails \/ Everywhere \subseteq Everywhere'
         /\ Everywhere' \subseteq Everywhere \cup (sent + 1 .. sent')
         /\ sent + 1 .. sent' \subseteq Everywhere'
         /\ Durable \subseteq Durable'
<1> USE DEF StepsInv
<1>1. \A f \in Names : FileEffect(f)
  BY DiskStep
<1>2. Everywhere = InMemory \cup InAFile /\ Everywhere' = InMemory' \cup InAFile'
  BY DEF Everywhere, InAFile
<1>3. InAFile' \subseteq InAFile \cup InMemory
  BY <1>1, BufferedInMemory DEF FileEffect, InAFile
<1>4. PowerFails \/ InAFile \subseteq InAFile'
  BY <1>1 DEF FileEffect, InAFile
<1>5. Durable \subseteq Durable'
  BY <1>1 DEF FileEffect, Durable
<1> QED BY <1>2, <1>3, <1>4, <1>5, MemoryMoves DEF Fails

LEMMA StepsStep == SteadyClock /\ StepsInv /\ [Next]_vars => StepsInv'
<1> SUFFICES ASSUME SteadyClock, StepsInv, [Next]_vars PROVE StepsInv'
  OBVIOUS
<1>1. Inv'
  BY TypeStep, MemoryStep, PartStep, StageStep DEF Inv, StepsInv
<1>2. ClockInv' /\ NameInv' /\ QueueInv'
  BY ClockStep, NameStep, QueueStep DEF StepsInv
<1>3. SentInv'
  <2>1. sent \in Nat /\ sent' \in {sent, sent + 1}
    BY MemoryMoves, StorageAssumption DEF StepsInv, Inv, TypeOK
  <2>2. (1 .. sent) \cup (sent + 1 .. sent') \subseteq 1 .. sent'
    BY <2>1
  <2> QED BY <2>2, EverywhereMoves DEF StepsInv, SentInv
<1> QED BY <1>1, <1>2, <1>3 DEF StepsInv

LEMMA Steady == SteadyClock => (Spec => []StepsInv)
<1> SUFFICES ASSUME SteadyClock PROVE Spec => []StepsInv
  OBVIOUS
<1>1. StepsInv /\ [Next]_vars => StepsInv'
  BY StepsStep
<1> QED BY StepsInit, <1>1, PTL DEF Spec

-----------------------------------------------------------------------------
(* What a step may lose.                                                   *)

\* With a steady clock a record that reached its file stays in it, under
\* one of its names, whatever fails but the machine: across FinalizeSegment's
\* rename, every interrupted compress_ready_file, and recover_abandoned_segments.
THEOREM FlushedRecordsSurvive == SteadyClock => (Spec => FlushedSurvives)
<1> SUFFICES ASSUME SteadyClock PROVE Spec => FlushedSurvives
  OBVIOUS
<1>1. StepsInv /\ [Next]_vars => [PowerFails \/ \A f \in Names : InFiles(f) \subseteq InFiles(f)']_vars
  BY DiskStep DEF StepsInv, FileEffect
<1> QED BY Steady, <1>1, PTL DEF Spec, FlushedSurvives

\* With a steady clock no step changes a final file that holds a record: an Install
\* repeated after a crash puts the same contents in its place.
THEOREM FinalFilesImmutable == SteadyClock => (Spec => FinalizedIsImmutable)
<1> SUFFICES ASSUME SteadyClock PROVE Spec => FinalizedIsImmutable
  OBVIOUS
<1>1. StepsInv /\ [Next]_vars
        => [\A f \in Names : Records(zst[f]) # {} => zst'[f] = zst[f]]_vars
  BY DiskStep DEF StepsInv, FileEffect, Settled
<1> QED BY Steady, <1>1, PTL DEF Spec, FinalizedIsImmutable

\* With a steady clock no record that was accepted is lost between the
\* channel, writer_actor's hand, the buffers and the files, but by a failure: no
\* rotation, flush or Shutdown drops one.
THEOREM RecordsLostByFailures == SteadyClock => (Spec => OnlyFailuresLose)
<1> SUFFICES ASSUME SteadyClock PROVE Spec => OnlyFailuresLose
  OBVIOUS
<1>1. Fails => pc' \in {"down", "failed"}
  BY DEF Fails, WriterFails, Crash, PowerFails
<1>2. StepsInv /\ [Next]_vars
        => [pc' \notin {"down", "failed"} => Everywhere \subseteq Everywhere']_vars
  BY <1>1, EverywhereMoves
<1> QED BY Steady, <1>2, PTL DEF Spec, OnlyFailuresLose

-----------------------------------------------------------------------------
(* The storage implements DurableLog.                                      *)

Volatile == Everywhere \ Durable

\* The variables of the refinement mapping.
LogView ==
  /\ (InMemory \cup UNION {InFiles(f) : f \in Names}) \ UNION {OnDisk(f) : f \in Names}
       = Volatile
  /\ UNION {OnDisk(f) : f \in Names} = Durable
  /\ UNION {Records(zst[f]) : f \in {g \in Names : ready[g] = NoFile}} = Final

LEMMA LogState == LogView
<1>1. UNION {Records(zst[f]) : f \in {g \in Names : ready[g] = NoFile}} = Final
  BY DEF Final, Sealed
<1> QED BY <1>1 DEF LogView, Volatile, Everywhere, Durable

LEMMA DurableIsStored == Inv => Durable \subseteq Everywhere
BY OnDiskInFiles DEF Durable, Everywhere

\* .ready is removed by the last step of compress_ready_file only, and that step
\* moves no record.
LEMMA OnlyRemovalSeals ==
  ASSUME StepsInv, [Next]_vars, NEW f \in Names, Sealing(f)
  PROVE  RemoveReady(f)
<1>1. ready \in [Names -> Content \cup {NoFile}] /\ part \in [Names -> Content \cup {NoFile}]
  BY DEF StepsInv, Inv, TypeOK, IsContents
<1>2. ready' # ready
  BY DEF Sealing
<1>3. ASSUME NEW g \in Names, RecoverPartial(g) PROVE FALSE
  <2>1. part[g] # NoFile
    BY <1>3 DEF RecoverPartial, IsFirst, StepsInv, Inv, PartInv
  <2>2. part[g] \in Content /\ CutIsLast(part[g])
    BY <1>1, <2>1 DEF StepsInv, Inv, PartInv
  <2>3. Whole(part[g]) # NoFile
    BY <2>2, WholeIsContent, ContentParts
  <2> QED BY <1>1, <1>3, <2>3 DEF RecoverPartial, TruncateToLastNewline, Sealing
<1>4. ASSUME NEW g \in Names, FinalizeSegment(g) PROVE FALSE
  <2>1. g \in Active
    BY <1>4 DEF FinalizeSegment, IsFirst, StepsInv, Inv, MemoryInv
  <2>2. part[g] \in Seq(Nat) /\ buf[g[2]] \in Seq(Nat)
    BY <2>1, ActiveParts DEF StepsInv, Content
  <2>3. part[g] \o buf[g[2]] \in Seq(Nat)
    BY <2>2
  <2>4. part[g] \o buf[g[2]] # NoFile
    BY <2>3, ContentParts DEF Content
  <2> QED BY <1>1, <1>4, <2>4 DEF FinalizeSegment, Sealing
<1>5. ASSUME NEW g \in Names, RemoveReady(g) PROVE RemoveReady(f)
  BY <1>1, <1>5 DEF RemoveReady, Sealing
<1> QED
  BY <1>2, <1>3, <1>4, <1>5
     DEF Next, Recover, Write, Compress, Tick, Record, SendShutdown, Start, RecoverReady,
         SpawnWriter, OpenSegment, Receive, ReceiveAndRotate, WriteHeld, FlushTick,
         RotateTick, ReceiveShutdown, FinalizeDone, CreateTemp, Encode, Install, Checksum,
         WriterFails, Crash, PowerFails, LoseBuffers, vars, disk

\* What happens to the log when a step seals, when one fails, and otherwise.
LEMMA SealingStep ==
  ASSUME StepsInv, [Next]_vars, NEW f \in Names, Sealing(f)
  PROVE  Everywhere' = Everywhere /\ Durable' = Durable
         /\ Final \subseteq Final' /\ Final' \subseteq Final \cup Durable
<1>1. /\ stage[f] = "remove" /\ ready' = [ready EXCEPT ![f] = NoFile]
      /\ UNCHANGED <<sent, part, zst, synced, pc>>
  BY OnlyRemovalSeals DEF RemoveReady, world
<1>2. \A g \in Names : FileEffect(g)
  BY DiskStep DEF StepsInv
<1>3. \A g \in Names \ {f} : ready'[g] = ready[g]
  BY <1>1 DEF StepsInv, Inv, TypeOK, IsContents
<1>4. ~Fails
  <2>1. pc \in {"recovering", "rotating", "closing"}
    BY <1>1 DEF StepsInv, Inv, StageInv
  <2> QED BY <1>1, <2>1 DEF Fails, WriterFails, Crash, PowerFails
<1>5. sent + 1 .. sent' = {}
  BY <1>1, StorageAssumption DEF StepsInv, Inv, TypeOK
<1>6. Everywhere' = Everywhere
  BY <1>4, <1>5, EverywhereMoves
<1>7. \A g \in Names : OnDisk(g)' = OnDisk(g)
  <2>1. \A g \in Names \ {f} : OnDisk(g)' = OnDisk(g)
    BY <1>1, <1>3 DEF OnDisk
  <2> QED BY <1>2, <2>1 DEF FileEffect
<1>8. \A g \in Names \ {f} : Sealed(g)' = Sealed(g)
  BY <1>1, <1>3 DEF Sealed
<1>9. Sealed(f) = {} /\ Sealed(f)' \subseteq OnDisk(f)
  BY <1>2 DEF FileEffect, Sealed, Sealing
<1>10. Durable' = Durable
  BY <1>7 DEF Durable
<1>11. Final \subseteq Final' /\ Final' \subseteq Final \cup Durable
  BY <1>8, <1>9 DEF Final, Durable
<1> QED BY <1>6, <1>10, <1>11

LEMMA FailingStep ==
  ASSUME StepsInv, Fails
  PROVE  Everywhere' \subseteq Everywhere /\ Durable' = Durable /\ Final' = Final
<1>1. \A f \in Names : OnDisk(f)' = OnDisk(f)
  BY FailureEffect DEF StepsInv, Fails
<1>2. UNCHANGED <<sent, ready, zst>>
  BY DEF Fails, WriterFails, Crash, PowerFails, LoseBuffers, world
<1>3. [Next]_vars
  BY DEF Fails, Next
<1>4. sent + 1 .. sent' = {}
  BY <1>2, StorageAssumption DEF StepsInv, Inv, TypeOK
<1>5. Everywhere' \subseteq Everywhere
  BY <1>3, <1>4, EverywhereMoves
<1>6. Final' = Final
  BY <1>2 DEF Final, Sealed
<1> QED BY <1>1, <1>5, <1>6 DEF Durable

LEMMA RecordingStep ==
  ASSUME StepsInv, NEW s \in Streams, Record(s)
  PROVE  /\ Everywhere' = Everywhere \cup {sent + 1} /\ sent + 1 \notin Everywhere
         /\ sent + 1 \in 1 .. MaxRecords /\ Durable' = Durable /\ Final' = Final
<1>1. [Next]_vars
  BY DEF Next
<1>2. /\ sent \in Nat /\ sent' = sent + 1 /\ sent < MaxRecords
      /\ UNCHANGED <<pc, part, ready, zst, synced>>
  BY StorageAssumption DEF Record, disk, StepsInv, Inv, TypeOK
<1>3. sent + 1 .. sent' = {sent + 1} /\ sent + 1 \notin 1 .. sent /\ sent + 1 \in 1 .. MaxRecords
  BY <1>2, StorageAssumption
<1>4. ~Fails
  BY <1>2 DEF Record, ProducersRun, WriterAlive, Fails, WriterFails, Crash, PowerFails
<1>5. Everywhere' = Everywhere \cup {sent + 1}
  BY <1>1, <1>3, <1>4, EverywhereMoves
<1>6. Durable' = Durable /\ Final' = Final
  BY <1>2 DEF Durable, OnDisk, Final, Sealed
<1> QED BY <1>3, <1>5, <1>6 DEF StepsInv, SentInv

LEMMA OtherStep ==
  ASSUME StepsInv, [Next]_vars, ~Fails, \A s \in Streams : ~Record(s),
         \A f \in Names : ~Sealing(f)
  PROVE  Everywhere' = Everywhere /\ Durable \subseteq Durable' /\ Final' = Final
<1>1. sent' = sent
  BY DEF Next, Recover, Write, Compress, Tick, SendShutdown, Start, RecoverPartial,
         RecoverReady, SpawnWriter, OpenSegment, Receive, ReceiveAndRotate, WriteHeld,
         FlushTick, RotateTick, ReceiveShutdown, FinalizeSegment, FinalizeDone, CreateTemp,
         Encode, Install, Checksum, RemoveReady, Fails, vars, world
<1>2. sent + 1 .. sent' = {}
  BY <1>1, StorageAssumption DEF StepsInv, Inv, TypeOK
<1>3. \A f \in Names : Sealed(f)' = Sealed(f)
  BY DiskStep DEF FileEffect, StepsInv
<1> QED BY <1>2, <1>3, EverywhereMoves DEF Final

LEMMA LogInit == Init => Log!Init
<1> SUFFICES ASSUME Init PROVE Log!Init
  OBVIOUS
<1>1. Volatile = {} /\ Durable = {} /\ Final = {}
  BY NothingYet DEF Volatile
<1> QED BY <1>1, LogState DEF LogView, Log!Init

LEMMA LogStep ==
  ASSUME StepsInv, StepsInv', [Next]_vars
  PROVE  [Log!Next]_(Log!dvars)
<1>1. (Inv => Durable \subseteq Everywhere)'
  BY DurableIsStored, PTL
<1>2. /\ Volatile = Everywhere \ Durable /\ Volatile' = Everywhere' \ Durable'
      /\ Durable \subseteq Everywhere /\ Durable' \subseteq Everywhere'
  BY <1>1, DurableIsStored DEF Volatile, StepsInv
<1>0. LogView /\ LogView'
  BY LogState, PTL
<1>3. SUFFICES \/ \E r \in 1 .. MaxRecords :
                    /\ r \notin Volatile \cup Durable /\ Volatile' = Volatile \cup {r}
                    /\ Durable' = Durable /\ Final' = Final
               \/ \E S \in SUBSET Volatile :
                    /\ S # {} /\ Volatile' = Volatile \ S /\ Durable' = Durable \cup S
                    /\ Final' = Final
               \/ \E S \in SUBSET Volatile :
                    /\ S # {} /\ Volatile' = Volatile \ S /\ Durable' = Durable
                    /\ Final' = Final
               \/ \E S \in SUBSET Durable :
                    /\ S # {} /\ S \subseteq Durable \ Final /\ Final' = Final \cup S
                    /\ Volatile' = Volatile /\ Durable' = Durable
               \/ Volatile' = Volatile /\ Durable' = Durable /\ Final' = Final
  BY <1>0 DEF LogView, Log!Next, Log!Accept, Log!Persist, Log!Lose,
               Log!Seal, Log!dvars
\* RemoveReady seals what is on the disk.
<1>4. ASSUME NEW f \in Names, Sealing(f)
      PROVE  \/ \E S \in SUBSET Durable :
                  /\ S # {} /\ S \subseteq Durable \ Final /\ Final' = Final \cup S
                  /\ Volatile' = Volatile /\ Durable' = Durable
             \/ Volatile' = Volatile /\ Durable' = Durable /\ Final' = Final
  <2>1. /\ Volatile' = Volatile /\ Durable' = Durable
        /\ Final \subseteq Final' /\ Final' \subseteq Final \cup Durable
    BY <1>2, <1>4, SealingStep
  <2>2. /\ Final' \ Final \in SUBSET Durable /\ Final' \ Final \subseteq Durable \ Final
        /\ Final' = Final \cup (Final' \ Final)
    BY <2>1
  <2> QED BY <2>1, <2>2
\* A failure loses what is not.
<1>5. ASSUME Fails
      PROVE  \/ \E S \in SUBSET Volatile :
                  /\ S # {} /\ Volatile' = Volatile \ S /\ Durable' = Durable
                  /\ Final' = Final
             \/ Volatile' = Volatile /\ Durable' = Durable /\ Final' = Final
  <2>1. /\ Volatile' \subseteq Volatile /\ Durable' = Durable /\ Final' = Final
    BY <1>2, <1>5, FailingStep
  <2>2. Volatile \ Volatile' \in SUBSET Volatile /\ Volatile' = Volatile \ (Volatile \ Volatile')
    BY <2>1
  <2> QED BY <2>1, <2>2
<1>6. ASSUME NEW s \in Streams, Record(s)
      PROVE  \E r \in 1 .. MaxRecords :
                    /\ r \notin Volatile \cup Durable /\ Volatile' = Volatile \cup {r}
                    /\ Durable' = Durable /\ Final' = Final
  <2>1. /\ Everywhere' = Everywhere \cup {sent + 1} /\ sent + 1 \notin Everywhere
        /\ sent + 1 \in 1 .. MaxRecords /\ Durable' = Durable /\ Final' = Final
    BY <1>6, RecordingStep
  <2>2. Volatile \cup Durable = Everywhere /\ Volatile' = Volatile \cup {sent + 1}
    BY <1>2, <2>1
  <2> QED BY <2>1, <2>2
\* Every other step keeps the records, and may bring some to the disk.
<1>7. ASSUME ~Fails, \A s \in Streams : ~Record(s), \A f \in Names : ~Sealing(f)
      PROVE  \/ \E S \in SUBSET Volatile :
                  /\ S # {} /\ Volatile' = Volatile \ S /\ Durable' = Durable \cup S
                  /\ Final' = Final
             \/ Volatile' = Volatile /\ Durable' = Durable /\ Final' = Final
  <2>1. Everywhere' = Everywhere /\ Durable \subseteq Durable' /\ Final' = Final
    BY <1>7, OtherStep
  <2>2. /\ Durable' \ Durable \in SUBSET Volatile
        /\ Volatile' = Volatile \ (Durable' \ Durable)
        /\ Durable' = Durable \cup (Durable' \ Durable)
    BY <1>2, <2>1
  <2> QED BY <2>1, <2>2
<1> QED BY <1>4, <1>5, <1>6, <1>7

\* With a steady clock the writer, its files and the recovery of the next
\* process implement the log of DurableLog: what is on the disk stays, what is
\* final stays final, and only what is not on the disk yet can be lost.
THEOREM ImplementsDurableLog == SteadyClock => (Spec => MeetsDurableLog)
<1> SUFFICES ASSUME SteadyClock PROVE Spec => MeetsDurableLog
  OBVIOUS
<1>1. StepsInv /\ StepsInv' /\ [Next]_vars => [Log!Next]_(Log!dvars)
  BY LogStep
<1> QED BY Steady, LogInit, <1>1, PTL DEF Spec, MeetsDurableLog, Log!Spec
=============================================================================
