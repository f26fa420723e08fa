------------------------------ MODULE Storage ------------------------------
(***************************************************************************)
(* The telemetry storage: the bounded channel of StorageHandle, the writer *)
(* actor with its buffered segments, hourly rotation, the finalization of  *)
(* a segment (flush, sync, rename, compress, checksum, remove), and the    *)
(* recovery of abandoned segments when the next process starts.            *)
(*                                                                         *)
(* A file is named by the run that created it, its stream and its hour:    *)
(* "<stem>.part-<hour>.jsonl" in the run's own directory.  One name has up *)
(* to five files, one per variable: .partial, .ready, .zst.partial, .zst   *)
(* and .zst.sha256.  The contents of a file are the records in it, by      *)
(* number; the number 0 stands for a piece of a line that was cut.         *)
(***************************************************************************)
EXTENDS Integers, Sequences, SequencesExt

CONSTANTS
    NumStreams,    \* StorageStream::ALL, in this order
    Capacity,      \* collector.writer_capacity
    ClockFaults,   \* SUBSET {"back", "straddle"}: see NextHours
    MaxRecords,    \* bound: records the producers send
    MaxHour,       \* bound: last hour of the wall clock
    MaxRuns,       \* bound: processes started one after the other
    NoFile,        \* there is no such file
    Shutdown       \* StorageMessage::Shutdown

ASSUME StorageAssumption ==
    /\ NumStreams \in Nat \ {0}
    /\ Capacity \in Nat \ {0}
    /\ ClockFaults \subseteq {"back", "straddle"}
    /\ MaxRecords \in Nat
    /\ MaxHour \in Nat
    /\ MaxRuns \in Nat \ {0}
    /\ NoFile \notin Seq(Nat)
    /\ Shutdown \notin [stream : Nat, n : Nat]

Streams == 1 .. NumStreams
Hours == 0 .. MaxHour
Runs == 1 .. MaxRuns
Names == Runs \X Streams \X Hours
\* Paths sort by run, stream and hour.
Before(f, g) ==
    \/ f[1] < g[1]
    \/ f[1] = g[1] /\ f[2] < g[2]
    \/ f[1] = g[1] /\ f[2] = g[2] /\ f[3] < g[3]
IsFirst(f, S) == f \in S /\ \A g \in S : ~Before(g, f)

Message == [stream : Streams, n : 1 .. MaxRecords]

\* The piece of a line that a failed write leaves at the end of a file, and the
\* lines before it.
Cut == 0
Whole(c) == IF c # <<>> /\ Last(c) = Cut THEN Front(c) ELSE c
Records(c) == IF c = NoFile THEN {} ELSE ToSet(c) \ {Cut}

VARIABLES
    \* the world
    hour,       \* utc_hour_key() of the wall clock
    sent,       \* records the producers have sent
    stopping,   \* main has sent Shutdown: its producers have all ended
    \* the process
    run,        \* its run_id, 0 before the first
    pc,         \* where start_storage and writer_actor are
    queue,      \* the mpsc channel
    hand,       \* the record received before a rotation, written after it
    segs,       \* hour_key of each active segment, -1 for none
    buf,        \* what is in each segment's BufWriter
    todo,       \* segments still to finalize, or .partial files to recover
    readies,    \* .ready files that recovery listed
    stage,      \* how far compress_ready_file is with a file
    \* the disk
    part, ready, temp, zst, sum,
    synced      \* length of .partial that sync_data has put on the disk

world == <<hour, sent, stopping>>
process == <<run, pc, queue, hand, segs, buf, todo, readies, stage>>
disk == <<part, ready, temp, zst, sum, synced>>
vars == <<world, process, disk>>

NoSegs == [s \in Streams |-> -1]
NoBytes == [s \in Streams |-> <<>>]
Idle == [f \in Names |-> "idle"]

Init ==
    /\ hour = 0 /\ sent = 0 /\ stopping = FALSE
    /\ run = 0 /\ pc = "down"
    /\ queue = <<>> /\ hand = <<>>
    /\ segs = NoSegs /\ buf = NoBytes
    /\ todo = {} /\ readies = {} /\ stage = Idle
    /\ part = [f \in Names |-> NoFile]
    /\ ready = part /\ temp = part /\ zst = part /\ sum = part
    /\ synced = [f \in Names |-> 0]

\* The writer task exists and holds the receiver of the channel.
WriterAlive == pc \in {"opening", "loop", "writing", "rotating", "closing"}
\* Mutant: a rotation that does not ask whether the hour has changed.
AlwaysDue == \E s \in Streams : segs[s] # -1
\* rotate_if_needed sees segments of another hour.
RotationDue == \E s \in Streams : segs[s] # hour
Active == {f \in Names : f[1] = run /\ f[3] = segs[f[2]]}
Compressing == \E f \in Names : stage[f] # "idle"

-----------------------------------------------------------------------------
(* The wall clock.                                                         *)

\* What the clock may show next.  An hour begins, at any point of the writer's
\* work; a clock that may go "back" is set into the hour before.
\* open_all_segments reads the clock once per stream: only a clock that may
\* "straddle" begins an hour between two of these reads when a record waits to
\* be written.
NextHours ==
    {h \in Hours :
        \/ /\ h = hour + 1
           /\ (pc = "opening" /\ hand # <<>>) => "straddle" \in ClockFaults
        \/ /\ h = hour - 1
           /\ "back" \in ClockFaults}

Tick ==
    /\ hour' \in NextHours
    /\ UNCHANGED <<sent, stopping, process, disk>>

-----------------------------------------------------------------------------
(* The producers and main.                                                 *)

\* Mutant: try_send on a channel without a bound.
NoBound == TRUE
HasRoom == Len(queue) < Capacity

\* Mutant: main stops the storage before its producers.
WhileAlive == WriterAlive
\* main stops the storage when all its producers have ended.
ProducersRun == WriterAlive /\ ~stopping

\* StorageHandle::record: waits for room, fails when the writer is gone.
Record(s) ==
    /\ ProducersRun
    /\ sent < MaxRecords
    /\ HasRoom
    /\ sent' = sent + 1
    /\ queue' = Append(queue, [stream |-> s, n |-> sent + 1])
    /\ UNCHANGED <<hour, stopping, run, pc, hand, segs, buf, todo, readies,
                   stage, disk>>

\* main, after the strategy and every background task have ended.
SendShutdown ==
    /\ WriterAlive /\ ~stopping
    /\ HasRoom
    /\ stopping' = TRUE
    /\ queue' = Append(queue, Shutdown)
    /\ UNCHANGED <<hour, sent, run, pc, hand, segs, buf, todo, readies, stage,
                   disk>>

\* Mutant: recovery looks for .partial files only.
NoneListed == {}
ReadyListed == {f \in Names : ready[f] # NoFile}

\* start_storage of the next process: a new run directory, and the list of
\* every file under the data root.
Start ==
    /\ pc \in {"down", "stopped"}
    /\ run < MaxRuns
    /\ run' = run + 1
    /\ pc' = "recovering"
    /\ stopping' = FALSE
    /\ todo' = {f \in Names : part[f] # NoFile}
    /\ readies' = ReadyListed
    /\ UNCHANGED <<hour, sent, queue, hand, segs, buf, stage, disk>>

-----------------------------------------------------------------------------
(* compress_ready_file, one step per effect on the disk.                   *)

\* A temporary file left by an earlier attempt is removed, a new one created.
CreateTemp(f) ==
    /\ stage[f] = "create"
    /\ temp' = [temp EXCEPT ![f] = <<Cut>>]
    /\ stage' = [stage EXCEPT ![f] = "encode"]
    /\ UNCHANGED <<world, run, pc, queue, hand, segs, buf, todo, readies,
                   part, ready, zst, sum, synced>>

\* Mutant: the .ready file is removed once it is encoded.
EncodeAndRemove(f) ==
    /\ stage[f] = "encode"
    /\ temp' = [temp EXCEPT ![f] = ready[f]]
    /\ ready' = [ready EXCEPT ![f] = NoFile]
    /\ stage' = [stage EXCEPT ![f] = "install"]
    /\ UNCHANGED <<world, run, pc, queue, hand, segs, buf, todo, readies,
                   part, zst, sum, synced>>
\* copy_encode and sync_all.
Encode(f) ==
    /\ stage[f] = "encode"
    /\ temp' = [temp EXCEPT ![f] = ready[f]]
    /\ stage' = [stage EXCEPT ![f] = "install"]
    /\ UNCHANGED <<world, run, pc, queue, hand, segs, buf, todo, readies,
                   part, ready, zst, sum, synced>>

\* The decoded length agrees: the temporary becomes the final file, whatever
\* file had that name.
Install(f) ==
    /\ stage[f] = "install"
    /\ temp[f] # NoFile /\ ready[f] # NoFile
    /\ Len(temp[f]) = Len(ready[f])
    /\ zst' = [zst EXCEPT ![f] = temp[f]]
    /\ temp' = [temp EXCEPT ![f] = NoFile]
    /\ stage' = [stage EXCEPT ![f] = "checksum"]
    /\ UNCHANGED <<world, run, pc, queue, hand, segs, buf, todo, readies,
                   part, ready, sum, synced>>

\* The checksum, taken of the temporary, replaces the sidecar.  Its writing under a
\* temporary name and its renaming are one step: a crash between them repeats both.
Checksum(f) ==
    /\ stage[f] = "checksum"
    /\ sum' = [sum EXCEPT ![f] = zst[f]]
    /\ stage' = [stage EXCEPT ![f] = "remove"]
    /\ UNCHANGED <<world, run, pc, queue, hand, segs, buf, todo, readies,
                   part, ready, temp, zst, synced>>

RemoveReady(f) ==
    /\ stage[f] = "remove"
    /\ ready' = [ready EXCEPT ![f] = NoFile]
    /\ stage' = [stage EXCEPT ![f] = "idle"]
    /\ UNCHANGED <<world, run, pc, queue, hand, segs, buf, todo, readies,
                   part, temp, zst, sum, synced>>

Compress ==
    \E f \in Names : \/ CreateTemp(f) \/ Encode(f) \/ Install(f)
                     \/ Checksum(f) \/ RemoveReady(f)

-----------------------------------------------------------------------------
(* recover_abandoned_segments.                                             *)

\* Mutants: a cut line is left in the file, or empties it.
TruncateNothing(c) == c
TruncateToNothing(c) == IF Cut \in ToSet(c) THEN <<>> ELSE c
TruncateToLastNewline(c) == Whole(c)

\* truncate_to_last_newline, and the rename.  A crash between the two leaves
\* the truncated .partial, which the next recovery treats alike.
RecoverPartial(f) ==
    /\ pc = "recovering" /\ ~Compressing
    /\ IsFirst(f, todo)
    /\ todo' = todo \ {f}
    /\ ready' = [ready EXCEPT ![f] = TruncateToLastNewline(part[f])]
    /\ part' = [part EXCEPT ![f] = NoFile]
    /\ synced' = [synced EXCEPT ![f] = 0]
    /\ stage' = [stage EXCEPT ![f] = "create"]
    /\ UNCHANGED <<world, run, pc, queue, hand, segs, buf, readies, temp, zst,
                   sum>>

\* After the .partial files, the .ready files of the same listing that still
\* exist.
RecoverReady(f) ==
    /\ pc = "recovering" /\ ~Compressing
    /\ todo = {}
    /\ IsFirst(f, readies)
    /\ readies' = readies \ {f}
    /\ stage' = IF ready[f] # NoFile THEN [stage EXCEPT ![f] = "create"]
                                     ELSE stage
    /\ UNCHANGED <<world, run, pc, queue, hand, segs, buf, todo, disk>>

\* Recovery is complete: the manifest, the channel and the writer task.
SpawnWriter ==
    /\ pc = "recovering" /\ ~Compressing
    /\ todo = {} /\ readies = {}
    /\ pc' = "opening"
    /\ UNCHANGED <<world, run, queue, hand, segs, buf, todo, readies, stage,
                   disk>>

-----------------------------------------------------------------------------
(* writer_actor.                                                           *)

\* open_segment: create or append to the file of the current hour.  After
\* the last one the record received before the rotation is written.
OpenSegment(s) ==
    LET f == <<run, s, hour>> IN
    /\ pc = "opening"
    /\ segs[s] = -1 /\ \A t \in Streams : t < s => segs[t] # -1
    /\ segs' = [segs EXCEPT ![s] = hour]
    /\ part' = [part EXCEPT ![f] = IF @ = NoFile THEN <<>> ELSE @]
    /\ pc' = IF \E t \in Streams \ {s} : segs[t] = -1 THEN "opening"
             ELSE IF hand # <<>> THEN "writing" ELSE "loop"
    /\ UNCHANGED <<world, run, queue, hand, buf, todo, readies, stage, ready,
                   temp, zst, sum, synced>>

\* Mutant: the buffer does not go first.
WriteLineThrough(m) ==
    LET f == <<run, m.stream, segs[m.stream]>> IN
    \/ /\ buf' = [buf EXCEPT ![m.stream] = Append(@, m.n)]
       /\ UNCHANGED part
    \/ /\ buf[m.stream] # <<>>
       /\ part' = [part EXCEPT ![f] = Append(@, m.n)]
       /\ UNCHANGED buf
\* write_all to the BufWriter: with room the line is buffered, without room
\* the buffer goes to the file first.
WriteLine(m) ==
    LET f == <<run, m.stream, segs[m.stream]>> IN
    \/ /\ buf' = [buf EXCEPT ![m.stream] = Append(@, m.n)]
       /\ UNCHANGED part
    \/ /\ buf[m.stream] # <<>>
       /\ part' = [part EXCEPT ![f] = @ \o buf[m.stream]]
       /\ buf' = [buf EXCEPT ![m.stream] = <<m.n>>]

\* A record is received and no rotation is due.
Receive ==
    /\ pc = "loop"
    /\ queue # <<>> /\ Head(queue) # Shutdown
    /\ ~RotationDue
    /\ queue' = Tail(queue)
    /\ WriteLine(Head(queue))
    /\ UNCHANGED <<world, run, pc, hand, segs, todo, readies, stage, ready,
                   temp, zst, sum, synced>>

\* A record is received, and the segments are of another hour: all of them
\* are taken for finalization.
ReceiveAndRotate ==
    /\ pc = "loop"
    /\ queue # <<>> /\ Head(queue) # Shutdown
    /\ RotationDue
    /\ queue' = Tail(queue)
    /\ hand' = <<Head(queue)>>
    /\ pc' = "rotating"
    /\ todo' = Active
    /\ UNCHANGED <<world, run, segs, buf, readies, stage, disk>>

WriteHeld ==
    /\ pc = "writing"
    /\ WriteLine(hand[1])
    /\ hand' = <<>>
    /\ pc' = "loop"
    /\ UNCHANGED <<world, run, queue, segs, todo, readies, stage, ready, temp,
                   zst, sum, synced>>

\* Mutant: the tick syncs, but leaves the buffers alone.
FlushNothing == UNCHANGED <<part, buf>>
Flush ==
    /\ part' = [f \in Names |-> IF f \in Active THEN part[f] \o buf[f[2]]
                                                ELSE part[f]]
    /\ buf' = NoBytes

\* flush_tick with no rotation due: every segment is flushed, and synced when
\* sync_interval has passed.
FlushTick ==
    /\ pc = "loop"
    /\ ~RotationDue
    /\ Flush
    /\ \/ UNCHANGED synced
       \/ synced' = [f \in Names |-> IF f \in Active THEN Len(part'[f])
                                                     ELSE synced[f]]
    /\ UNCHANGED <<world, run, pc, queue, hand, segs, todo, readies, stage,
                   ready, temp, zst, sum>>

\* flush_tick with a rotation due.  The flush after it finds empty buffers.
RotateTick ==
    /\ pc = "loop"
    /\ RotationDue
    /\ pc' = "rotating"
    /\ todo' = Active
    /\ UNCHANGED <<world, run, queue, hand, segs, buf, readies, stage, disk>>

\* Mutant: the loop goes on.
StayInLoop == pc
LeaveLoop == "closing"

\* Shutdown is received: the loop is left, and so is what is queued behind it.
ReceiveShutdown ==
    /\ pc = "loop"
    /\ queue # <<>> /\ Head(queue) = Shutdown
    /\ queue' = <<>>
    /\ pc' = LeaveLoop
    /\ todo' = Active
    /\ UNCHANGED <<world, run, hand, segs, buf, readies, stage, disk>>

\* finalize_all, one segment: flush, sync_data, and the rename to .ready.
FinalizeSegment(f) ==
    LET s == f[2] IN
    /\ pc \in {"rotating", "closing"} /\ ~Compressing
    /\ IsFirst(f, todo)
    /\ todo' = todo \ {f}
    /\ ready' = [ready EXCEPT ![f] = part[f] \o buf[s]]
    /\ part' = [part EXCEPT ![f] = NoFile]
    /\ synced' = [synced EXCEPT ![f] = 0]
    /\ buf' = [buf EXCEPT ![s] = <<>>]
    /\ segs' = [segs EXCEPT ![s] = -1]
    /\ stage' = [stage EXCEPT ![f] = "create"]
    /\ UNCHANGED <<world, run, pc, queue, hand, readies, temp, zst, sum>>

\* All segments are finalized: open_all_segments, or the end of the actor.
FinalizeDone ==
    /\ pc \in {"rotating", "closing"} /\ ~Compressing
    /\ todo = {}
    /\ pc' = IF pc = "rotating" THEN "opening" ELSE "stopped"
    /\ UNCHANGED <<world, run, queue, hand, segs, buf, todo, readies, stage,
                   disk>>

-----------------------------------------------------------------------------
(* Failures.                                                               *)

\* What a failure may add to a file out of a buffer that was being written:
\* some of its lines, and a piece of the next.
Outcomes(b) ==
    {SubSeq(b, 1, k) : k \in 0 .. Len(b)}
      \cup {Append(SubSeq(b, 1, k), Cut) : k \in 0 .. Len(b) - 1}

ForgetMemory ==
    /\ queue' = <<>> /\ hand' = <<>>
    /\ segs' = NoSegs /\ buf' = NoBytes
    /\ todo' = {} /\ readies' = {} /\ stage' = Idle

LoseBuffers ==
    /\ ForgetMemory
    /\ \E out \in [Streams -> UNION {Outcomes(buf[s]) : s \in Streams}] :
         /\ \A s \in Streams : out[s] \in Outcomes(buf[s])
         /\ part' = [f \in Names |-> IF f \in Active THEN part[f] \o out[f[2]]
                                                     ELSE part[f]]
    /\ UNCHANGED <<run, ready, temp, zst, sum, synced>>

\* An operation of the writer fails: writer_actor returns, the segments are
\* dropped with their buffers and the channel with its queue.  The other
\* tasks of the process run on.
WriterFails ==
    /\ WriterAlive
    /\ run < MaxRuns
    /\ pc' = "failed"
    /\ LoseBuffers
    /\ UNCHANGED world

\* The process ends: killed, after an error of main or of the recovery, or
\* after the writer failed.
Crash ==
    /\ pc \notin {"down", "stopped"}
    /\ run < MaxRuns
    /\ pc' = "down"
    /\ LoseBuffers
    /\ UNCHANGED world

\* The machine fails: of every .partial file no more is left than sync_data
\* has put on the disk, and perhaps a piece of the next line.  (Assumed: a
\* rename, and the contents of a file once it is renamed, are not undone.)
PowerFails ==
    /\ run < MaxRuns
    /\ pc' = "down"
    /\ ForgetMemory
    /\ \E piece \in {<<>>, <<Cut>>} :
         part' = [f \in Names |->
                    IF part[f] = NoFile \/ Len(part[f]) = synced[f] THEN part[f]
                    ELSE SubSeq(part[f], 1, synced[f]) \o piece]
    /\ UNCHANGED <<world, run, ready, temp, zst, sum, synced>>

-----------------------------------------------------------------------------
Recover ==
    \/ \E f \in Names : RecoverPartial(f) \/ RecoverReady(f)
    \/ SpawnWriter

Write ==
    \/ \E s \in Streams : OpenSegment(s)
    \/ Receive \/ ReceiveAndRotate \/ WriteHeld
    \/ FlushTick \/ RotateTick \/ ReceiveShutdown
    \/ \E f \in Names : FinalizeSegment(f)
    \/ FinalizeDone

Next ==
    \/ Tick
    \/ \E s \in Streams : Record(s)
    \/ SendShutdown \/ Start
    \/ Recover \/ Write \/ Compress
    \/ WriterFails \/ Crash \/ PowerFails

Spec == Init /\ [][Next]_vars

\* The writer goes on, and tokio::select! passes over neither of its branches
\* for ever while both are ready.
Fairness ==
    /\ WF_vars(Recover \/ Compress \/ Write)
    /\ WF_vars(Receive \/ ReceiveAndRotate \/ ReceiveShutdown)
    /\ WF_vars(FlushTick \/ RotateTick)

FairSpec == Spec /\ Fairness

-----------------------------------------------------------------------------
(* Properties.                                                             *)

Content == Seq(Nat)
Stages == {"idle", "create", "encode", "install", "checksum", "remove"}
IsContents(v) == v \in [Names -> Content \cup {NoFile}]

\* The variables keep their types.
TypeOK ==
    /\ hour \in Hours /\ sent \in 0 .. MaxRecords /\ stopping \in BOOLEAN
    /\ run \in 0 .. MaxRuns
    /\ pc \in {"down", "recovering", "opening", "loop", "writing", "rotating",
              "closing", "stopped", "failed"}
    /\ queue \in Seq(Message \cup {Shutdown}) /\ Len(queue) <= Capacity
    /\ hand \in Seq(Message) /\ Len(hand) <= 1
    /\ segs \in [Streams -> Hours \cup {-1}]
    /\ buf \in [Streams -> Seq(Nat)]
    /\ todo \subseteq Names /\ readies \subseteq Names
    /\ stage \in [Names -> Stages]
    /\ IsContents(part) /\ IsContents(ready) /\ IsContents(temp)
    /\ IsContents(zst) /\ IsContents(sum)
    /\ synced \in [Names -> Nat]

InMemory ==
    {queue[i].n : i \in {j \in DOMAIN queue : queue[j] # Shutdown}}
      \cup {hand[i].n : i \in DOMAIN hand}
      \cup UNION {ToSet(buf[s]) : s \in Streams}
InFiles(f) == Records(part[f]) \cup Records(ready[f]) \cup Records(zst[f])
OnDisk(f) ==
    Records(IF part[f] = NoFile THEN NoFile ELSE SubSeq(part[f], 1, synced[f]))
      \cup Records(ready[f]) \cup Records(zst[f])

\* No record is lost without a failure, while the clock is steady (ClockFaults = {}:
\* neither set back nor straddled, see NextHours): not between the channel, the record
\* in hand, the buffers and the files, not by a rotation that finds records
\* buffered, and not by Shutdown overtaking a record.
Everywhere == InMemory \cup UNION {InFiles(f) : f \in Names}
OnlyFailuresLose ==
    [][pc' \notin {"down", "failed"} => Everywhere \subseteq Everywhere']_vars

\* A record that was flushed to its file is in that file, under one of its
\* names, for ever: no failing process, no interrupted finalization and no
\* interrupted recovery loses it.  Only a failing machine may, and a clock that is
\* not steady.
FlushedSurvives ==
    [][PowerFails \/ \A f \in Names : InFiles(f) \subseteq InFiles(f)']_vars

\* Whatever compressions were interrupted, and wherever: a finalized file
\* whose .ready is gone has the checksum of its contents, and no piece of a
\* line is in it.
FinalFilesAreSound ==
    \A f \in Names :
        zst[f] # NoFile => /\ Cut \notin ToSet(zst[f])
                           /\ (ready[f] = NoFile => sum[f] = zst[f])

\* The records of a stream and a run are in the order they were sent, each
\* once: within a file and from one hour's file to the next.
Stored(f) == IF part[f] # NoFile THEN Whole(part[f])
             ELSE IF ready[f] # NoFile THEN ready[f]
             ELSE IF zst[f] # NoFile THEN zst[f] ELSE <<>>
FilesKeepTheOrder ==
    \A r \in Runs, s \in Streams, h, k \in Hours :
        LET c == Stored(<<r, s, h>>)
            d == Stored(<<r, s, k>>) IN
        /\ h < k => \A i \in DOMAIN c, j \in DOMAIN d : c[i] < d[j]
        /\ \A i, j \in DOMAIN c : i < j => c[i] < c[j]

\* When a writer is at work, what earlier runs left has been finalized, what
\* their failures left of it included; and so has everything when it stopped.
Unfinished(f) == part[f] # NoFile \/ ready[f] # NoFile \/ temp[f] # NoFile
OnlyTheRunIsOpen ==
    /\ (WriterAlive \/ pc = "failed")
         => \A f \in Names : Unfinished(f) => f[1] = run
    /\ pc = "stopped" => InMemory = {} /\ \A f \in Names : ~Unfinished(f)

\* A finalized file that holds a record is never changed again, by a repeated
\* finalization no more than by a new segment ("append-only and immutable after
\* finalization", README.md).  An empty one may be: open_all_segments that runs into
\* the next hour is followed by a rotation within that hour.
FinalizedIsImmutable ==
    [][\A f \in Names : Records(zst[f]) # {} => zst'[f] = zst[f]]_vars

\* The storage implements the log of DurableLog, while the clock is steady.
Log == INSTANCE DurableLog WITH
    Numbers <- 1 .. MaxRecords,
    volatile <- (InMemory \cup UNION {InFiles(f) : f \in Names})
                  \ UNION {OnDisk(f) : f \in Names},
    durable <- UNION {OnDisk(f) : f \in Names},
    sealed <- UNION {Records(zst[f]) : f \in {g \in Names : ready[g] = NoFile}}
MeetsDurableLog == Log!Spec

\* A record that was accepted reaches its file, unless its process fails.
AcceptedReachesFile ==
    \A n \in 1 .. MaxRecords :
        n \in InMemory ~> \/ \E f \in Names : n \in InFiles(f)
                           \/ pc \in {"down", "failed"}

\* main's wait for the storage task ends.
ShutdownEnds ==
    (stopping /\ WriterAlive) ~> pc \in {"stopped", "down", "failed"}
=============================================================================
