---------------------------- MODULE Storage_order ----------------------------
(***************************************************************************)
(* The order of the records: whatever fails, and wherever a rotation or a  *)
(* recovery was interrupted, the files of a stream and a run hold its      *)
(* records in the order they were sent, within a file and from one hour's  *)
(* file to the next.  As in Storage_steps the wall clock is a steady one.  *)
(***************************************************************************)
EXTENDS Storage_steps

-----------------------------------------------------------------------------
(* The inductive invariant.                                                *)

Elements(c) == {c[i] : i \in 1 .. Len(c)}
Ascending(c) == \A i, j \in 1 .. Len(c) : i < j => c[i] < c[j]
Precedes(S, T) == \A x \in S, y \in T : x < y

\* The records of a file, of a stream's BufWriter, and those of the stream that
\* are not written yet.
Logged(f) == Elements(Stored(f))
Pending(s) == Elements(buf[s])
WaitingOf(s) == {i \in Waiting : queue[i].stream = s}
HeldOf(s) == {i \in 1 .. Len(hand) : hand[i].stream = s}
Later(s) == {queue[i].n : i \in WaitingOf(s)} \cup {hand[i].n : i \in HeldOf(s)}

\* What is closer to its file was sent before.
OrderInv ==
  /\ \A f \in Names : Ascending(Stored(f))
  /\ \A f, g \in Names :
       f[1] = g[1] /\ f[2] = g[2] /\ f[3] < g[3] => Precedes(Logged(f), Logged(g))
  /\ \A f \in Names :
       f[1] = run => /\ Precedes(Logged(f), Pending(f[2]))
                     /\ Precedes(Logged(f), Later(f[2]))
  /\ \A s \in Streams : Ascending(buf[s]) /\ Precedes(Pending(s), Later(s))

\* No file of the run is of a later hour than the open segment.
HourInv ==
  \A f \in Names :
    f[1] = run /\ segs[f[2]] # -1 /\ f[3] > segs[f[2]] => Stored(f) = <<>>

-----------------------------------------------------------------------------
(* Sequences of records.                                                   *)

LEMMA ElementParts ==
  ASSUME NEW c \in Seq(Nat)
  PROVE  /\ Elements(c) \subseteq Nat /\ Elements(<<>>) = {} /\ Ascending(<<>>)
         /\ \A n \in Nat : /\ Elements(<<n>>) = {n} /\ Ascending(<<n>>)
                           /\ Elements(Append(c, n)) = Elements(c) \cup {n}
                           /\ Ascending(c) /\ Precedes(Elements(c), {n})
                                => Ascending(Append(c, n))
         /\ \A k \in 0 .. Len(c) : /\ SubSeq(c, 1, k) \in Seq(Nat)
                                   /\ Elements(SubSeq(c, 1, k)) \subseteq Elements(c)
                                   /\ Ascending(c) => Ascending(SubSeq(c, 1, k))
<1>1. Elements(c) \subseteq Nat
  BY DEF Elements
<1>2. Elements(<<>>) = {} /\ Ascending(<<>>)
  <2>1. Len(<<>>) = 0
    OBVIOUS
  <2> QED BY <2>1 DEF Elements, Ascending
<1>3. ASSUME NEW n \in Nat
      PROVE  /\ Elements(<<n>>) = {n} /\ Ascending(<<n>>)
             /\ Elements(Append(c, n)) = Elements(c) \cup {n}
             /\ Ascending(c) /\ Precedes(Elements(c), {n}) => Ascending(Append(c, n))
  <2>1. Len(<<n>>) = 1 /\ <<n>>[1] = n
    OBVIOUS
  <2>2. Elements(<<n>>) = {n} /\ Ascending(<<n>>)
    BY <2>1 DEF Elements, Ascending
  <2> DEFINE d == Append(c, n)
  <2>3. /\ Len(c) \in Nat /\ Len(d) = Len(c) + 1 /\ d[Len(c) + 1] = n
        /\ \A i \in 1 .. Len(c) : d[i] = c[i]
    OBVIOUS
  <2> HIDE DEF d
  <2>4. 1 .. Len(d) = (1 .. Len(c)) \cup {Len(c) + 1}
    BY <2>3
  <2>5. Elements(d) = Elements(c) \cup {n}
    BY <2>3, <2>4 DEF Elements
  <2>6. ASSUME Ascending(c), Precedes(Elements(c), {n}), NEW i \in 1 .. Len(d),
               NEW j \in 1 .. Len(d), i < j
        PROVE  d[i] < d[j]
    <3>1. i \in 1 .. Len(c) /\ d[i] = c[i]
      BY <2>3, <2>6
    <3>2. CASE j \in 1 .. Len(c)
      BY <2>3, <2>6, <3>1, <3>2 DEF Ascending
    <3>3. CASE j = Len(c) + 1
      BY <2>3, <2>6, <3>1, <3>3 DEF Precedes, Elements
    <3> QED BY <2>4, <3>2, <3>3
  <2> QED BY <2>2, <2>5, <2>6 DEF d, Ascending
<1>4. ASSUME NEW k \in 0 .. Len(c)
      PROVE  /\ SubSeq(c, 1, k) \in Seq(Nat)
             /\ Elements(SubSeq(c, 1, k)) \subseteq Elements(c)
             /\ Ascending(c) => Ascending(SubSeq(c, 1, k))
  <2> DEFINE d == SubSeq(c, 1, k)
  <2>1. d \in Seq(Nat) /\ Len(d) = k /\ \A i \in 1 .. k : d[i] = c[i] /\ i \in 1 .. Len(c)
    OBVIOUS
  <2> HIDE DEF d
  <2>2. Elements(d) \subseteq Elements(c) /\ (Ascending(c) => Ascending(d))
    BY <2>1 DEF Elements, Ascending
  <2> QED BY <2>1, <2>2 DEF d
<1> QED BY <1>1, <1>2, <1>3, <1>4

LEMMA Joined ==
  ASSUME NEW c \in Seq(Nat), NEW d \in Seq(Nat)
  PROVE  /\ c \o d \in Seq(Nat) /\ Elements(c \o d) = Elements(c) \cup Elements(d)
         /\ Ascending(c) /\ Ascending(d) /\ Precedes(Elements(c), Elements(d))
              => Ascending(c \o d)
<1> DEFINE e == c \o d
<1>1. /\ e \in Seq(Nat) /\ Len(c) \in Nat /\ Len(d) \in Nat /\ Len(e) = Len(c) + Len(d)
      /\ \A i \in 1 .. Len(e) : e[i] = IF i <= Len(c) THEN c[i] ELSE d[i - Len(c)]
  OBVIOUS
<1> HIDE DEF e
<1>2. \A i \in 1 .. Len(e) : \/ i \in 1 .. Len(c) /\ e[i] = c[i]
                             \/ /\ i > Len(c) /\ i - Len(c) \in 1 .. Len(d)
                                /\ e[i] = d[i - Len(c)]
  BY <1>1
<1>3. \A i \in 1 .. Len(c) : i \in 1 .. Len(e) /\ e[i] = c[i]
  BY <1>1
<1>4. ASSUME NEW i \in 1 .. Len(d) PROVE i + Len(c) \in 1 .. Len(e) /\ e[i + Len(c)] = d[i]
  <2>1. i + Len(c) \in 1 .. Len(e) /\ ~(i + Len(c) <= Len(c)) /\ (i + Len(c)) - Len(c) = i
    BY <1>1
  <2> QED BY <1>1, <2>1
<1>5. Elements(e) = Elements(c) \cup Elements(d)
  <2>1. Elements(e) \subseteq Elements(c) \cup Elements(d)
    BY <1>2 DEF Elements
  <2>2. Elements(c) \subseteq Elements(e) /\ Elements(d) \subseteq Elements(e)
    BY <1>3, <1>4 DEF Elements
  <2> QED BY <2>1, <2>2
<1>6. ASSUME Ascending(c), Ascending(d), Precedes(Elements(c), Elements(d)),
             NEW i \in 1 .. Len(e), NEW j \in 1 .. Len(e), i < j
      PROVE  e[i] < e[j]
  <2>1. CASE i \in 1 .. Len(c) /\ j \in 1 .. Len(c)
    BY <1>3, <1>6, <2>1 DEF Ascending
  <2>2. CASE /\ i \in 1 .. Len(c) /\ e[i] = c[i]
             /\ j - Len(c) \in 1 .. Len(d) /\ e[j] = d[j - Len(c)]
    BY <1>6, <2>2 DEF Precedes, Elements
  <2>3. CASE i > Len(c)
    <3>1. /\ i - Len(c) \in 1 .. Len(d) /\ ~(i <= Len(c))
          /\ j - Len(c) \in 1 .. Len(d) /\ ~(j <= Len(c))
          /\ i - Len(c) < j - Len(c)
      <4>1. /\ Len(c) \in Nat /\ Len(d) \in Nat /\ Len(e) = Len(c) + Len(d)
            /\ i \in 1 .. Len(e) /\ j \in 1 .. Len(e) /\ i < j /\ i > Len(c)
        BY <1>1, <1>6, <2>3
      <4> QED BY <4>1
    <3>2. e[i] = d[i - Len(c)] /\ e[j] = d[j - Len(c)]
      BY <1>1, <3>1
    <3> QED BY <1>6, <3>1, <3>2 DEF Ascending
  <2> QED BY <1>1, <1>2, <1>6, <2>1, <2>2, <2>3
<1> QED BY <1>1, <1>5, <1>6 DEF e, Ascending

\* The log of a file holds records only, all of which are in the file.
LEMMA StoredParts ==
  ASSUME Inv, NEW f \in Names
  PROVE  Stored(f) \in Seq(Nat) /\ Stored(f) \in Content /\ Logged(f) \subseteq InFiles(f)
<1>1. ASSUME NEW c \in Content, NoCut(c) PROVE Elements(c) = Records(c)
  <2>1. \A n : n \in Records(c) <=> n # Cut /\ \E i \in 1 .. Len(c) : c[i] = n
    BY RecordsAre
  <2>2. \A n : n \in Elements(c) <=> n \in Records(c)
    BY <1>1, <2>1 DEF Elements, NoCut
  <2> QED BY <2>2
<1>2. CASE part[f] # NoFile
  <2>1. part[f] \in Content /\ CutIsLast(part[f])
    BY <1>2 DEF Inv, PartInv, TypeOK, IsContents
  <2>2. Stored(f) \in Content /\ NoCut(Stored(f)) /\ Records(Stored(f)) = Records(part[f])
    BY <1>2, <2>1, RecordsWhole DEF Stored
  <2> QED BY <1>1, <2>2 DEF Logged, InFiles, Content
<1>3. CASE part[f] = NoFile /\ ready[f] # NoFile
  <2>1. ready[f] \in Content /\ NoCut(ready[f]) /\ Stored(f) = ready[f]
    BY <1>3 DEF Inv, StageInv, TypeOK, IsContents, Stored
  <2> QED BY <1>1, <2>1 DEF Logged, InFiles, Content
<1>4. CASE part[f] = NoFile /\ ready[f] = NoFile /\ zst[f] # NoFile
  <2>1. zst[f] \in Content /\ NoCut(zst[f]) /\ Stored(f) = zst[f]
    BY <1>4 DEF Inv, StageInv, TypeOK, IsContents, Stored
  <2> QED BY <1>1, <2>1 DEF Logged, InFiles, Content
<1>5. CASE part[f] = NoFile /\ ready[f] = NoFile /\ zst[f] = NoFile
  <2>1. Stored(f) = <<>>
    BY <1>5 DEF Stored
  <2>2. <<>> \in Seq(Nat)
    OBVIOUS
  <2> QED BY <2>1, <2>2, ElementParts DEF Logged, Content
<1> QED BY <1>2, <1>3, <1>4, <1>5

\* All of it was sent, and all of what is in memory.
LEMMA AllSent ==
  ASSUME StepsInv
  PROVE  /\ \A f \in Names : Logged(f) \subseteq 1 .. sent
         /\ \A s \in Streams : Pending(s) \subseteq 1 .. sent /\ Later(s) \subseteq 1 .. sent
<1>1. \A f \in Names : Logged(f) \subseteq Everywhere
  BY StoredParts DEF StepsInv, Everywhere
<1>2. ASSUME NEW s \in Streams PROVE Pending(s) \subseteq InMemory
  <2>1. \A n : n \in ToSet(buf[s]) <=> \E i \in 1 .. Len(buf[s]) : buf[s][i] = n
    BY MemoryParts DEF StepsInv
  <2>2. Pending(s) \subseteq ToSet(buf[s])
    BY <2>1 DEF Pending, Elements
  <2> QED BY <2>2, MemoryParts DEF StepsInv, Lines
<1>3. ASSUME NEW s \in Streams PROVE Later(s) \subseteq InMemory
  <2>1. Later(s) \subseteq Queued \cup Held
    BY DEF Later, WaitingOf, HeldOf, Queued, Held
  <2> QED BY <2>1, MemoryParts DEF StepsInv
<1> QED BY <1>1, <1>2, <1>3 DEF StepsInv, SentInv, Everywhere

-----------------------------------------------------------------------------
(* What a step does to the log of a file.                                  *)

\* It keeps the log, or a beginning of it; or the log takes over what a stream
\* had buffered, or a beginning of that, and the buffer is empty.
Kept(f) == \E k \in 0 .. Len(Stored(f)) : Stored(f)' = SubSeq(Stored(f), 1, k)
Taken(f) ==
  /\ f \in Active /\ buf'[f[2]] = <<>>
  /\ \E k \in 0 .. Len(buf[f[2]]) : Stored(f)' = Stored(f) \o SubSeq(buf[f[2]], 1, k)

LEMMA KeptWhole == ASSUME Inv, NEW f \in Names, Stored(f)' = Stored(f) PROVE Kept(f)
<1>1. Len(Stored(f)) \in 0 .. Len(Stored(f)) /\ SubSeq(Stored(f), 1, Len(Stored(f))) = Stored(f)
  <2>1. Stored(f) \in Seq(Nat)
    BY StoredParts
  <2> QED BY <2>1, AllOrNothing
<1> QED BY <1>1 DEF Kept

LEMMA TakenWhole ==
  ASSUME Inv, NameInv, NEW f \in Active, buf'[f[2]] = <<>>,
         Stored(f)' = Stored(f) \o buf[f[2]]
  PROVE  Taken(f)
<1>1. buf[f[2]] \in Seq(Nat)
  BY ActiveParts
<1>2. Len(buf[f[2]]) \in 0 .. Len(buf[f[2]]) /\ SubSeq(buf[f[2]], 1, Len(buf[f[2]])) = buf[f[2]]
  BY <1>1, AllOrNothing
<1> QED BY <1>2 DEF Taken

\* The machine keeps of a .partial file what was synced, and perhaps a piece more.
LEMMA PowerCuts ==
  ASSUME Inv, NEW f \in Names, NEW piece \in {<<>>, <<Cut>>}, part[f] # NoFile,
         Len(part[f]) # synced[f], part'[f] = SubSeq(part[f], 1, synced[f]) \o piece
  PROVE  Kept(f)
<1> DEFINE c == part[f]
           k == synced[f]
           d == SubSeq(c, 1, k)
<1>1. c \in Content /\ CutIsLast(c) /\ k \in 0 .. Len(c) /\ Len(c) \in Nat /\ k < Len(c)
  <2>1. c \in Content /\ k \in 0 .. Len(c) /\ Len(c) \in Nat
    BY SyncedPart
  <2> QED BY <2>1 DEF Inv, PartInv
<1>2. d \in Content /\ NoCut(d)
  <2>1. d \in Content /\ Len(d) = k /\ \A i \in 1 .. k : d[i] = c[i]
    BY <1>1, Beginning
  <2>2. \A i \in 1 .. k : i \in 1 .. Len(c) /\ i # Len(c)
    BY <1>1
  <2> HIDE DEF d, c, k
  <2>3. NoCut(d)
    BY <1>1, <2>1, <2>2 DEF NoCut, CutIsLast
  <2> QED BY <2>1, <2>3
<1>3. Whole(d \o piece) = d
  <2>1. d \o <<>> = d
    BY <1>2 DEF Content
  <2>2. Whole(d) = d /\ Whole(d \o <<Cut>>) = d
    BY <1>2, WholeOf
  <2> QED BY <2>1, <2>2
<1>4. d \o piece # NoFile
  <2>1. piece \in Content
    BY ContentParts
  <2>2. d \o piece \in Content
    BY <1>2, <2>1, RecordsJoin
  <2> QED BY <2>2, ContentParts
<1>5. Stored(f) = Whole(c) /\ Stored(f)' = d
  BY <1>3, <1>4 DEF Stored
<1>6. k \in 0 .. Len(Whole(c)) /\ SubSeq(Whole(c), 1, k) = d
  <2>1. CASE c # <<>> /\ Last(c) = Cut
    <3>1. Whole(c) = SubSeq(c, 1, Len(c) - 1)
      BY <2>1 DEF Whole, Front
    <3> HIDE DEF c, k
    <3>2. c \in Seq(Nat) /\ Len(c) - 1 \in 0 .. Len(c)
      BY <1>1 DEF Content
    <3>3. Len(SubSeq(c, 1, Len(c) - 1)) = Len(c) - 1 /\ k \in 0 .. Len(c) - 1
      <4>1. k \in 0 .. Len(c) - 1
        BY <1>1
      <4> QED BY <1>1, <3>2, <4>1, Beginning
    <3>4. SubSeq(SubSeq(c, 1, Len(c) - 1), 1, k) = SubSeq(c, 1, k)
      BY <1>1, <3>2, <3>3
    <3> QED BY <3>1, <3>3, <3>4
  <2>2. CASE ~(c # <<>> /\ Last(c) = Cut)
    BY <1>1, <2>2 DEF Whole
  <2> QED BY <2>1, <2>2
<1> QED BY <1>5, <1>6 DEF Kept

LEMMA FailureKeeps ==
  ASSUME Inv, NameInv, Fails, NEW f \in Names
  PROVE  Kept(f) \/ Taken(f)
<1>1. CASE WriterFails \/ Crash
  <2>1. UNCHANGED <<ready, zst, synced>> /\ LoseBuffers /\ buf' = NoBytes
    BY <1>1 DEF WriterFails, Crash, LoseBuffers, ForgetMemory
  <2>2. PICK out \in [Streams -> UNION {Outcomes(buf[s]) : s \in Streams}] :
          /\ \A s \in Streams : out[s] \in Outcomes(buf[s])
          /\ part' = [g \in Names |-> IF g \in Active THEN part[g] \o out[g[2]] ELSE part[g]]
    BY <2>1 DEF LoseBuffers
  <2>3. CASE f \in Active
    <3>1. PICK d \in Outcomes(buf[f[2]]) : part'[f] = part[f] \o d
      BY <2>2, <2>3, NameParts
    <3>2. \E k \in 0 .. Len(buf[f[2]]) : Stored(f)' = Stored(f) \o SubSeq(buf[f[2]], 1, k)
      BY <2>1, <2>3, <3>1, FileGrows
    <3>3. buf'[f[2]] = <<>>
      BY <2>1, NameParts DEF NoBytes
    <3> QED BY <2>3, <3>2, <3>3 DEF Taken
  <2>4. CASE f \notin Active
    BY <2>1, <2>2, <2>4, FileKept, KeptWhole DEF Unmoved
  <2> QED BY <2>3, <2>4
<1>2. CASE PowerFails
  <2>1. UNCHANGED <<ready, zst, synced>>
    BY <1>2 DEF PowerFails
  <2>2. PICK piece \in {<<>>, <<Cut>>} :
          part' = [g \in Names |->
                     IF part[g] = NoFile \/ Len(part[g]) = synced[g] THEN part[g]
                     ELSE SubSeq(part[g], 1, synced[g]) \o piece]
    BY <1>2 DEF PowerFails
  <2>3. CASE part[f] = NoFile \/ Len(part[f]) = synced[f]
    BY <2>1, <2>2, <2>3, FileKept, KeptWhole DEF Unmoved
  <2>4. CASE ~(part[f] = NoFile \/ Len(part[f]) = synced[f])
    BY <2>2, <2>4, PowerCuts
  <2> QED BY <2>3, <2>4
<1> QED BY <1>1, <1>2 DEF Fails

LEMMA OpeningKeeps ==
  ASSUME Inv, NameInv, NEW s \in Streams, OpenSegment(s), NEW f \in Names
  PROVE  /\ Kept(f) /\ Stored(f)' = Stored(f)
         /\ f[1] = run /\ f[2] = s /\ f[3] > hour => Stored(f) = <<>>
<1>1. PICK g \in Names : g = <<run, s, hour>> /\ g[1] = run /\ g[2] = s /\ g[3] = hour
  BY NameParts DEF OpenSegment, Inv, MemoryInv, TypeOK
<1>2. /\ pc = "opening" /\ segs[s] = -1 /\ UNCHANGED <<ready, zst, synced>>
      /\ part' = [part EXCEPT ![g] = IF @ = NoFile THEN <<>> ELSE @]
  BY <1>1 DEF OpenSegment
\* Nothing is stored yet under this name, nor under a later one.
<1>3. ASSUME f[1] = run, f[2] = s, f[3] >= hour
      PROVE  /\ part[f] = NoFile /\ ready[f] = NoFile /\ synced[f] = 0 /\ Blank(zst[f])
             /\ Stored(f) = <<>>
  <2>1. f \notin Active
    BY <1>2, <1>3, NameParts DEF Active, Hours
  <2>2. part[f] = NoFile /\ ready[f] = NoFile /\ synced[f] = 0
    BY <1>2, <2>1 DEF Inv, PartInv, StageInv, WriterAlive
  <2>3. Blank(zst[f])
    BY <1>2, <1>3 DEF NameInv, WillOpen, WriterAlive
  <2> QED BY <2>2, <2>3 DEF Blank, Stored
<1>4. Stored(f)' = Stored(f)
  <2>1. CASE f = g
    <3>1. hour >= hour
      BY DEF Inv, TypeOK, Hours
    <3>2. part'[f] = <<>> /\ part[f] = NoFile /\ ready[f] = NoFile /\ synced[f] = 0
          /\ Blank(zst[f])
      BY <1>1, <1>2, <1>3, <2>1, <3>1 DEF Inv, TypeOK, IsContents
    <3> QED BY <1>2, <3>2, FileOpened DEF Unmoved
  <2>2. CASE f # g
    BY <1>2, <2>2, FileKept DEF Inv, TypeOK, IsContents, Unmoved
  <2> QED BY <2>1, <2>2
<1>5. f[3] > hour => f[3] >= hour
  BY NameParts DEF Inv, TypeOK, Hours
<1> QED BY <1>3, <1>4, <1>5, KeptWhole

LEMMA LogStaysStep ==
  ASSUME Inv, NameInv, [Next]_vars, ~Receive, ~WriteHeld, NEW f \in Names
  PROVE  Kept(f) \/ Taken(f)
<1>1. CASE UNCHANGED <<part, ready, zst, synced>>
  BY <1>1, FileKept, KeptWhole DEF Unmoved
<1>2. CASE UNCHANGED disk
  BY <1>1, <1>2 DEF disk
<1>3. CASE Tick \/ SendShutdown \/ Start \/ SpawnWriter \/ ReceiveAndRotate \/ RotateTick
           \/ ReceiveShutdown \/ FinalizeDone \/ UNCHANGED vars
  BY <1>2, <1>3 DEF Tick, SendShutdown, Start, SpawnWriter, ReceiveAndRotate, RotateTick,
                    ReceiveShutdown, FinalizeDone, vars
<1>4. ASSUME NEW s \in Streams, Record(s) PROVE Kept(f) \/ Taken(f)
  BY <1>1, <1>4 DEF Record, disk
<1>5. ASSUME NEW g \in Names, RecoverReady(g) \/ CreateTemp(g) \/ Encode(g) \/ Checksum(g)
      PROVE  Kept(f)
  BY <1>1, <1>5, FileKept, KeptWhole
     DEF RecoverReady, CreateTemp, Encode, Checksum, disk, Unmoved
<1>6. ASSUME NEW g \in Names, Install(g) PROVE Kept(f)
  <2>1. /\ ready[g] # NoFile /\ temp[g] = ready[g] /\ zst' = [zst EXCEPT ![g] = temp[g]]
        /\ UNCHANGED <<part, ready, synced>>
    BY <1>6 DEF Install, Inv, StageInv
  <2>2. CASE f = g
    <3>1. zst'[f] = ready[f]
      BY <2>1, <2>2 DEF Inv, TypeOK, IsContents
    <3> QED BY <2>1, <2>2, <3>1, FileInstalled, KeptWhole DEF Unmoved
  <2>3. CASE f # g
    BY <2>1, <2>3, FileKept, KeptWhole DEF Inv, TypeOK, IsContents, Unmoved
  <2> QED BY <2>2, <2>3
<1>7. ASSUME NEW g \in Names, RemoveReady(g) PROVE Kept(f)
  <2>1. /\ stage[g] = "remove" /\ ready' = [ready EXCEPT ![g] = NoFile]
        /\ UNCHANGED <<part, zst, synced>>
    BY <1>7 DEF RemoveReady
  <2>2. CASE f = g
    <3>1. ready'[f] = NoFile
      BY <2>1, <2>2 DEF Inv, TypeOK, IsContents
    <3> QED BY <2>1, <2>2, <3>1, FileSealed, KeptWhole DEF Unmoved
  <2>3. CASE f # g
    BY <2>1, <2>3, FileKept, KeptWhole DEF Inv, TypeOK, IsContents, Unmoved
  <2> QED BY <2>2, <2>3
<1>8. ASSUME NEW g \in Names, RecoverPartial(g) PROVE Kept(f)
  <2>1. /\ pc = "recovering" /\ g \in todo /\ part' = [part EXCEPT ![g] = NoFile]
        /\ ready' = [ready EXCEPT ![g] = Whole(part[g])]
        /\ synced' = [synced EXCEPT ![g] = 0] /\ UNCHANGED zst
    BY <1>8 DEF RecoverPartial, IsFirst, TruncateToLastNewline
  <2>2. CASE f = g
    <3>1. part[f] # NoFile
      BY <2>1, <2>2 DEF Inv, PartInv
    <3>2. part'[f] = NoFile /\ ready'[f] = Whole(part[f])
      BY <2>1, <2>2 DEF Inv, TypeOK, IsContents
    <3> QED BY <2>1, <3>1, <3>2, FileRecovered, KeptWhole
  <2>3. CASE f # g
    BY <2>1, <2>3, FileKept, KeptWhole DEF Inv, TypeOK, IsContents, Unmoved
  <2> QED BY <2>2, <2>3
<1>9. ASSUME NEW s \in Streams, OpenSegment(s) PROVE Kept(f)
  BY <1>9, OpeningKeeps
<1>10. CASE FlushTick
  <2>1. /\ UNCHANGED <<ready, zst>> /\ buf' = NoBytes
        /\ part' = [g \in Names |-> IF g \in Active THEN part[g] \o buf[g[2]] ELSE part[g]]
    BY <1>10 DEF FlushTick, Flush
  <2>2. CASE f \in Active
    <3>1. part'[f] = part[f] \o buf[f[2]] /\ buf'[f[2]] = <<>>
      BY <2>1, <2>2, NameParts DEF NoBytes
    <3> QED BY <2>1, <2>2, <3>1, FileFlushed, TakenWhole
  <2>3. CASE f \notin Active
    <3>1. Stored(f)' = Stored(f)
      BY <2>1, <2>3 DEF Stored
    <3> QED BY <3>1, KeptWhole
  <2> QED BY <2>2, <2>3
<1>11. ASSUME NEW g \in Names, FinalizeSegment(g) PROVE Kept(f) \/ Taken(f)
  <2>1. /\ pc \in {"rotating", "closing"} /\ g \in todo
        /\ part' = [part EXCEPT ![g] = NoFile]
        /\ ready' = [ready EXCEPT ![g] = part[g] \o buf[g[2]]]
        /\ buf' = [buf EXCEPT ![g[2]] = <<>>]
        /\ synced' = [synced EXCEPT ![g] = 0] /\ UNCHANGED zst
    BY <1>11 DEF FinalizeSegment, IsFirst
  <2>2. g \in Active
    BY <2>1 DEF Inv, MemoryInv
  <2>3. CASE f = g
    <3>1. part'[f] = NoFile /\ ready'[f] = part[f] \o buf[f[2]] /\ buf'[f[2]] = <<>>
      BY <2>1, <2>3, NameParts DEF Inv, TypeOK, IsContents
    <3> QED BY <2>1, <2>2, <2>3, <3>1, FileFinalized, TakenWhole
  <2>4. CASE f # g
    BY <2>1, <2>4, FileKept, KeptWhole DEF Inv, TypeOK, IsContents, Unmoved
  <2> QED BY <2>3, <2>4
<1>12. CASE WriterFails \/ Crash \/ PowerFails
  BY <1>12, FailureKeeps DEF Fails
<1> QED
  BY <1>3, <1>4, <1>5, <1>6, <1>7, <1>8, <1>9, <1>10, <1>11, <1>12
     DEF Next, Recover, Write, Compress

-----------------------------------------------------------------------------
(* What a step does to the records that are not written yet.               *)

\* The head is taken from the channel: it was of the next record.
LEMMA HeadIsNext ==
  ASSUME Inv, QueueInv, queue # <<>>, Head(queue) # Shutdown, queue' = Tail(queue)
  PROVE  /\ Head(queue) = queue[1] /\ queue[1] \in Message /\ 1 \in WaitingOf(queue[1].stream)
         /\ \A i \in Waiting' : /\ i + 1 \in Waiting /\ queue'[i] = queue[i + 1]
                                /\ queue[1].n < queue'[i].n
         /\ \A s \in Streams : \A i \in WaitingOf(s)' :
              /\ i \in Waiting' /\ i + 1 \in WaitingOf(s)
              /\ queue'[i].n \in {queue[j].n : j \in WaitingOf(s)}
<1>1. /\ Len(queue) \in Nat \ {0} /\ Len(queue') = Len(queue) - 1 /\ Head(queue) = queue[1]
      /\ \A i \in 1 .. Len(queue') : queue'[i] = queue[i + 1] /\ i + 1 \in 1 .. Len(queue)
  BY DEF Inv, TypeOK
<1>2. 1 \in Waiting /\ queue[1] \in Message
  <2>1. 1 \in 1 .. Len(queue)
    BY <1>1
  <2>2. 1 \in Waiting
    BY <1>1, <2>1 DEF Waiting
  <2> QED BY <2>2, MemoryParts
<1>3. \A i \in Waiting' : i + 1 \in Waiting /\ queue'[i] = queue[i + 1] /\ 1 < i + 1
  BY <1>1 DEF Waiting
<1>4. \A i \in Waiting' : queue[1].n < queue'[i].n
  BY <1>2, <1>3 DEF QueueInv
<1>5. ASSUME NEW s \in Streams, NEW i \in WaitingOf(s)'
      PROVE  /\ i \in Waiting' /\ i + 1 \in WaitingOf(s)
             /\ queue'[i].n \in {queue[j].n : j \in WaitingOf(s)}
  <2>1. i \in Waiting' /\ i + 1 \in WaitingOf(s) /\ queue'[i] = queue[i + 1]
    BY <1>3 DEF WaitingOf
  <2> QED BY <2>1
<1> QED BY <1>1, <1>2, <1>3, <1>4, <1>5 DEF WaitingOf

LEMMA RunStep ==
  ASSUME Inv, [Next]_vars
  PROVE  \/ run' = run
         \/ /\ pc' = "recovering" /\ queue' = <<>> /\ hand' = <<>>
            /\ segs' = NoSegs /\ buf' = NoBytes
<1>1. CASE Start
  BY <1>1 DEF Start, Inv, MemoryInv, WriterAlive
<1>2. CASE ~Start
  BY <1>2 DEF Next, Recover, Write, Compress, Tick, Record, SendShutdown, RecoverPartial,
              RecoverReady, SpawnWriter, OpenSegment, Receive, ReceiveAndRotate, WriteHeld,
              FlushTick, RotateTick, ReceiveShutdown, FinalizeSegment, FinalizeDone,
              CreateTemp, Encode, Install, Checksum, RemoveReady, WriterFails, Crash,
              PowerFails, LoseBuffers, ForgetMemory, vars, world, process
<1> QED BY <1>1, <1>2

\* No step but those that write a line adds to a buffer, and only Record adds to
\* what waits.
LEMMA MemoryStays ==
  ASSUME Inv, QueueInv, [Next]_vars, ~Receive, ~WriteHeld, NEW s \in Streams
  PROVE  /\ buf'[s] \in {buf[s], <<>>}
         /\ Later(s)' \subseteq Later(s) \cup (sent + 1 .. sent')
<1>a. queue \in Seq(Message \cup {Shutdown}) /\ hand \in Seq(Message) /\ sent \in Nat
      /\ buf \in [Streams -> Seq(Nat)]
  BY StorageAssumption DEF Inv, TypeOK
<1>1. CASE UNCHANGED <<queue, hand, buf>>
  BY <1>1 DEF Later, WaitingOf, HeldOf, Waiting
<1>2. ASSUME NEW t \in Streams, Record(t)
      PROVE  Later(s)' \subseteq Later(s) \cup (sent + 1 .. sent') /\ buf' = buf
  <2> DEFINE m == [stream |-> t, n |-> sent + 1]
  <2>1. queue' = Append(queue, m) /\ sent' = sent + 1 /\ UNCHANGED <<hand, buf>>
        /\ m.n = sent + 1 /\ m \in Message
    BY <1>a, <1>2, StorageAssumption DEF Record, Message
  <2> HIDE DEF m
  <2>2. /\ Len(queue') = Len(queue) + 1 /\ Len(queue) \in Nat /\ queue'[Len(queue) + 1] = m
        /\ \A i \in 1 .. Len(queue) : queue'[i] = queue[i]
    BY <1>a, <2>1
  <2>3. \A i \in WaitingOf(s)' : \/ i \in WaitingOf(s) /\ queue'[i] = queue[i]
                                 \/ queue'[i].n = sent + 1
    BY <2>1, <2>2 DEF WaitingOf, Waiting
  <2>4. HeldOf(s)' = HeldOf(s) /\ sent + 1 \in sent + 1 .. sent'
    BY <1>a, <2>1 DEF HeldOf
  <2> QED BY <2>1, <2>3, <2>4 DEF Later
<1>3. CASE SendShutdown
  <2>1. queue' = Append(queue, Shutdown) /\ UNCHANGED <<hand, buf>>
    BY <1>3 DEF SendShutdown
  <2>2. /\ Len(queue') = Len(queue) + 1 /\ Len(queue) \in Nat
        /\ queue'[Len(queue) + 1] = Shutdown
        /\ \A i \in 1 .. Len(queue) : queue'[i] = queue[i]
    BY <1>a, <2>1
  <2>3. WaitingOf(s)' = WaitingOf(s) /\ \A i \in WaitingOf(s) : queue'[i] = queue[i]
    BY <2>2 DEF WaitingOf, Waiting
  <2> QED BY <2>1, <2>3 DEF Later, HeldOf
<1>4. CASE ReceiveAndRotate
  <2>1. /\ queue # <<>> /\ Head(queue) # Shutdown /\ queue' = Tail(queue)
        /\ hand' = <<Head(queue)>> /\ buf' = buf
    BY <1>4 DEF ReceiveAndRotate
  <2>2. Len(hand') = 1 /\ hand'[1] = queue[1]
    BY <2>1, HeadIsNext
  <2>3. \A i \in HeldOf(s)' : i = 1 /\ 1 \in WaitingOf(s)
    BY <2>1, <2>2, HeadIsNext DEF HeldOf
  <2>4. {hand'[i].n : i \in HeldOf(s)'} \subseteq Later(s)
    BY <2>2, <2>3 DEF Later
  <2>5. {queue'[i].n : i \in WaitingOf(s)'} \subseteq Later(s)
    BY <2>1, HeadIsNext DEF Later
  <2> QED BY <2>1, <2>4, <2>5 DEF Later
<1>5. CASE ReceiveShutdown
  <2>1. queue' = <<>> /\ UNCHANGED <<hand, buf>>
    BY <1>5 DEF ReceiveShutdown
  <2>2. WaitingOf(s)' = {} /\ HeldOf(s)' = HeldOf(s)
    BY <2>1 DEF WaitingOf, Waiting, HeldOf
  <2> QED BY <2>1, <2>2 DEF Later
<1>6. CASE WriterFails \/ Crash \/ PowerFails
  <2>1. queue' = <<>> /\ hand' = <<>> /\ buf' = NoBytes
    BY <1>6 DEF WriterFails, Crash, PowerFails, LoseBuffers, ForgetMemory
  <2>2. WaitingOf(s)' = {} /\ HeldOf(s)' = {}
    BY <2>1 DEF WaitingOf, Waiting, HeldOf
  <2> QED BY <2>1, <2>2 DEF Later, NoBytes
<1>7. CASE FlushTick \/ \E f \in Names : FinalizeSegment(f)
  <2>1. UNCHANGED <<queue, hand>> /\ buf'[s] \in {buf[s], <<>>}
    <3>1. CASE FlushTick
      BY <3>1 DEF FlushTick, Flush, NoBytes
    <3>2. ASSUME NEW f \in Names, FinalizeSegment(f)
          PROVE  UNCHANGED <<queue, hand>> /\ buf'[s] \in {buf[s], <<>>}
      <4>1. UNCHANGED <<queue, hand>> /\ buf' = [buf EXCEPT ![f[2]] = <<>>]
        BY <3>2 DEF FinalizeSegment
      <4> QED BY <1>a, <4>1, NameParts
    <3> QED BY <1>7, <3>1, <3>2
  <2> QED BY <2>1 DEF Later, WaitingOf, HeldOf, Waiting
<1>8. CASE Tick \/ Start \/ SpawnWriter \/ RotateTick \/ FinalizeDone \/ UNCHANGED vars
  BY <1>1, <1>8 DEF Tick, Start, SpawnWriter, RotateTick, FinalizeDone, vars, process
<1>9. CASE Compress
  BY <1>1, <1>9 DEF Compress, CreateTemp, Encode, Install, Checksum, RemoveReady
<1>10. CASE \E f \in Names : RecoverPartial(f) \/ RecoverReady(f)
  BY <1>1, <1>10 DEF RecoverPartial, RecoverReady
<1>11. CASE \E t \in Streams : OpenSegment(t)
  BY <1>1, <1>11 DEF OpenSegment
<1> QED
  BY <1>2, <1>3, <1>4, <1>5, <1>6, <1>7, <1>8, <1>9, <1>10, <1>11 DEF Next, Recover, Write

\* The line that is written is the next of its stream.
LEMMA NextIsWritten ==
  ASSUME Inv, QueueInv, Receive \/ WriteHeld
  PROVE  \E m \in Message :
           /\ WriteLine(m) /\ m.n \in Later(m.stream)
           /\ \A s \in Streams : Later(s)' \subseteq Later(s)
           /\ \A x \in Later(m.stream)' : m.n < x
<1>1. CASE Receive
  <2>1. /\ queue # <<>> /\ Head(queue) # Shutdown /\ queue' = Tail(queue)
        /\ WriteLine(Head(queue)) /\ hand' = hand /\ hand = <<>>
    BY <1>1 DEF Receive, Inv, MemoryInv
  <2>2. \A s \in Streams : HeldOf(s)' = {} /\ HeldOf(s) = {}
    BY <2>1 DEF HeldOf
  <2>3. PICK m \in Message : m = queue[1] /\ WriteLine(m) /\ m.n \in Later(m.stream)
    BY <2>1, HeadIsNext DEF Later
  <2>4. \A s \in Streams : Later(s)' \subseteq Later(s)
    BY <2>1, <2>2, HeadIsNext DEF Later
  <2>5. \A i \in Waiting' : m.n < queue'[i].n
    BY <2>1, <2>3, HeadIsNext
  <2>6. \A x \in Later(m.stream)' : m.n < x
    <3>1. m.stream \in Streams
      BY ContentParts
    <3>2. \A i \in WaitingOf(m.stream)' : m.n < queue'[i].n
      BY <2>5 DEF WaitingOf
    <3> QED BY <2>2, <3>1, <3>2 DEF Later
  <2> QED BY <2>3, <2>4, <2>6
<1>2. CASE WriteHeld
  <2>1. /\ hand # <<>> /\ hand \in Seq(Message) /\ Len(hand) <= 1 /\ hand' = <<>>
        /\ queue' = queue /\ WriteLine(hand[1])
    BY <1>2 DEF WriteHeld, Inv, MemoryInv, TypeOK
  <2>2. 1 \in 1 .. Len(hand)
    BY <2>1
  <2>3. PICK m \in Message : m = hand[1]
    BY <2>1, <2>2
  <2>4. \A s \in Streams : HeldOf(s)' = {} /\ WaitingOf(s)' = WaitingOf(s)
    BY <2>1 DEF HeldOf, WaitingOf, Waiting
  <2>5. \A s \in Streams : Later(s)' \subseteq Later(s)
    BY <2>1, <2>4 DEF Later
  <2>6. 1 \in HeldOf(m.stream)
    BY <2>2, <2>3 DEF HeldOf
  <2>7. m.n \in Later(m.stream)
    BY <2>3, <2>6 DEF Later
  <2>8. \A j \in Waiting : m.n < queue[j].n
    BY <2>2, <2>3 DEF QueueInv
  <2>9. \A x \in Later(m.stream)' : m.n < x
    BY <2>1, <2>4, <2>8, ContentParts DEF Later, WaitingOf
  <2> QED BY <2>1, <2>3, <2>5, <2>7, <2>9
<1> QED BY <1>1, <1>2

-----------------------------------------------------------------------------
(* The order is kept.                                                      *)

LEMMA ActiveIsLast ==
  ASSUME Inv, HourInv, NEW f \in Active, NEW g \in Names, f[1] = g[1], f[2] = g[2]
  PROVE  /\ f[3] < g[3] => Stored(g) = <<>>
         /\ f[3] # g[3] => g \notin Active
<1>1. f \in Names /\ f[1] = run /\ f[3] = segs[f[2]] /\ f[3] # -1 /\ f[3] \in Int /\ g[3] \in Int
  BY NameParts DEF Active, Hours
<1> QED BY <1>1 DEF HourInv, Active

LEMMA StaysBelow ==
  ASSUME NEW S, NEW T, NEW U, NEW V, S \subseteq U, T \subseteq V, Precedes(U, V)
  PROVE  Precedes(S, T)
BY DEF Precedes

LEMMA NoneIn == Elements(<<>>) = {}
<1>1. <<>> \in Seq(Nat)
  OBVIOUS
<1> QED BY <1>1, ElementParts

\* How much of its records a file has after a step that writes no line.
LEMMA LogStays ==
  ASSUME StepsInv, OrderInv, [Next]_vars, ~Receive, ~WriteHeld, NEW f \in Names
  PROVE  /\ Ascending(Stored(f)')
         /\ \/ Logged(f)' \subseteq Logged(f)
            \/ /\ f \in Active /\ Pending(f[2])' = {}
               /\ Logged(f)' \subseteq Logged(f) \cup Pending(f[2])
<1> USE DEF StepsInv
<1>1. Stored(f) \in Seq(Nat) /\ Ascending(Stored(f))
  BY StoredParts DEF OrderInv
<1>2. CASE Kept(f)
  <2>1. PICK k \in 0 .. Len(Stored(f)) : Stored(f)' = SubSeq(Stored(f), 1, k)
    BY <1>2 DEF Kept
  <2> QED BY <1>1, <2>1, ElementParts DEF Logged
<1>3. CASE Taken(f)
  <2>1. PICK k \in 0 .. Len(buf[f[2]]) : Stored(f)' = Stored(f) \o SubSeq(buf[f[2]], 1, k)
    BY <1>3 DEF Taken
  <2>2. f \in Active /\ buf'[f[2]] = <<>> /\ f[1] = run /\ f[2] \in Streams
        /\ buf[f[2]] \in Seq(Nat)
    BY <1>3, ActiveParts DEF Taken
  <2> DEFINE d == SubSeq(buf[f[2]], 1, k)
  <2>3. d \in Seq(Nat) /\ Elements(d) \subseteq Pending(f[2]) /\ Ascending(d)
    BY <2>2, ElementParts DEF Pending, OrderInv
  <2>4. Precedes(Logged(f), Elements(d))
    BY <2>2, <2>3 DEF OrderInv, Precedes
  <2> HIDE DEF d
  <2>5. Stored(f)' = Stored(f) \o d
    BY <2>1 DEF d
  <2>6. Ascending(Stored(f)') /\ Elements(Stored(f)') = Logged(f) \cup Elements(d)
    BY <1>1, <2>3, <2>4, <2>5, Joined DEF Logged
  <2>7. Pending(f[2])' = {}
    <3>1. <<>> \in Seq(Nat)
      OBVIOUS
    <3> QED BY <2>2, <3>1, ElementParts DEF Pending
  <2> QED BY <2>2, <2>3, <2>6, <2>7 DEF Logged
<1> QED BY <1>2, <1>3, LogStaysStep

LEMMA OrderStays ==
  ASSUME StepsInv, OrderInv, HourInv, [Next]_vars, ~Receive, ~WriteHeld
  PROVE  OrderInv'
<1> USE DEF StepsInv
<1>1. /\ sent \in Nat /\ \A x \in 1 .. sent, y \in sent + 1 .. sent' : x < y
  BY StorageAssumption DEF Inv, TypeOK
<1>2. ASSUME NEW f \in Names
      PROVE  /\ Ascending(Stored(f)')
             /\ \/ Logged(f)' \subseteq Logged(f)
                \/ /\ f \in Active /\ Pending(f[2])' = {}
                   /\ Logged(f)' \subseteq Logged(f) \cup Pending(f[2])
  BY LogStays
<1>3. ASSUME NEW s \in Streams
      PROVE  /\ Ascending(buf'[s]) /\ Pending(s)' \subseteq Pending(s)
             /\ Later(s)' \subseteq Later(s) \cup (sent + 1 .. sent')
  <2>1. buf'[s] \in {buf[s], <<>>} /\ Later(s)' \subseteq Later(s) \cup (sent + 1 .. sent')
    BY MemoryStays
  <2>2. Ascending(buf[s]) /\ Ascending(<<>>) /\ Elements(<<>>) = {}
    <3>1. <<>> \in Seq(Nat)
      OBVIOUS
    <3> QED BY <3>1, ElementParts DEF OrderInv
  <2> QED BY <2>1, <2>2 DEF Pending
<1>4. ASSUME NEW f \in Names, NEW g \in Names, f[1] = g[1], f[2] = g[2], f[3] < g[3]
      PROVE  Precedes(Logged(f)', Logged(g)')
  <2>1. Precedes(Logged(f), Logged(g))
    BY <1>4 DEF OrderInv
  <2>2. CASE Logged(f)' \subseteq Logged(f) /\ Logged(g)' \subseteq Logged(g)
    BY <2>1, <2>2, StaysBelow
  <2>3. CASE f \in Active
    <3>1. Stored(g) = <<>> /\ g \notin Active
      BY <1>4, <2>3, ActiveIsLast, NameParts DEF Hours
    <3>2. Logged(g) = {}
      <4>1. <<>> \in Seq(Nat)
        OBVIOUS
      <4> QED BY <3>1, <4>1, ElementParts DEF Logged
    <3>3. Logged(g)' = {}
      BY <1>2, <3>1, <3>2
    <3> QED BY <3>3 DEF Precedes
  <2>4. CASE g \in Active /\ f \notin Active
    <3>1. g[1] = run /\ Precedes(Logged(f), Pending(g[2]))
      BY <1>4, <2>4, ActiveParts DEF OrderInv
    <3>2. Logged(f)' \subseteq Logged(f) /\ Logged(g)' \subseteq Logged(g) \cup Pending(g[2])
      BY <1>2, <2>4
    <3> QED BY <2>1, <3>1, <3>2 DEF Precedes
  <2> QED BY <1>2, <2>2, <2>3, <2>4
<1>5. ASSUME NEW f \in Names, f[1] = run
      PROVE  Precedes(Logged(f)', Pending(f[2])') /\ Precedes(Logged(f)', Later(f[2])')
  <2>1. f[2] \in Streams
    BY NameParts
  <2>2. /\ Precedes(Logged(f), Pending(f[2])) /\ Precedes(Logged(f), Later(f[2]))
        /\ Precedes(Pending(f[2]), Later(f[2]))
    BY <1>5, <2>1 DEF OrderInv
  <2>3. Logged(f) \subseteq 1 .. sent /\ Pending(f[2]) \subseteq 1 .. sent
    BY <2>1, AllSent
  <2>4. /\ Logged(f)' \subseteq Logged(f) \cup Pending(f[2])
        /\ Pending(f[2])' # {} => Logged(f)' \subseteq Logged(f)
    BY <1>2
  <2>5. Pending(f[2])' \subseteq Pending(f[2])
        /\ Later(f[2])' \subseteq Later(f[2]) \cup (sent + 1 .. sent')
    BY <1>3, <2>1
  <2>6. Precedes(Logged(f)', Pending(f[2])')
    BY <2>2, <2>4, <2>5 DEF Precedes
  <2>7. ASSUME NEW x \in Logged(f)', NEW y \in Later(f[2])' PROVE x < y
    <3>1. x \in 1 .. sent /\ (x \in Logged(f) \/ x \in Pending(f[2]))
      BY <2>3, <2>4, <2>7
    <3>2. CASE y \in Later(f[2])
      BY <2>2, <3>1, <3>2 DEF Precedes
    <3>3. CASE y \in sent + 1 .. sent'
      BY <1>1, <3>1, <3>3
    <3> QED BY <2>5, <2>7, <3>2, <3>3
  <2> QED BY <2>6, <2>7 DEF Precedes
<1>6. ASSUME NEW f \in Names, f[1] = run'
      PROVE  Precedes(Logged(f)', Pending(f[2])') /\ Precedes(Logged(f)', Later(f[2])')
  <2>1. CASE run' = run
    BY <1>5, <1>6, <2>1
  <2>2. CASE queue' = <<>> /\ hand' = <<>> /\ buf' = NoBytes
    <3>1. Pending(f[2])' = {}
      BY <2>2, NameParts, NoneIn DEF Pending, NoBytes
    <3>2. Later(f[2])' = {}
      BY <2>2 DEF Later, WaitingOf, HeldOf, Waiting
    <3> QED BY <3>1, <3>2 DEF Precedes
  <2> QED BY <2>1, <2>2, RunStep
<1>7. ASSUME NEW s \in Streams PROVE Precedes(Pending(s)', Later(s)')
  <2>1. Precedes(Pending(s), Later(s)) /\ Pending(s) \subseteq 1 .. sent
    BY AllSent DEF OrderInv
  <2>2. ASSUME NEW x \in Pending(s)', NEW y \in Later(s)' PROVE x < y
    <3>1. x \in Pending(s) /\ x \in 1 .. sent
      BY <1>3, <2>1, <2>2
    <3>2. y \in Later(s) \/ y \in sent + 1 .. sent'
      BY <1>3, <2>2
    <3> QED BY <1>1, <2>1, <3>1, <3>2 DEF Precedes
  <2> QED BY <2>2 DEF Precedes
<1> QED BY <1>2, <1>3, <1>4, <1>6, <1>7 DEF OrderInv

LEMMA OrderWrites ==
  ASSUME StepsInv, OrderInv, HourInv, Receive \/ WriteHeld
  PROVE  OrderInv' /\ HourInv'
<1> USE DEF StepsInv
<1>1. PICK m \in Message :
         /\ WriteLine(m) /\ m.n \in Later(m.stream)
         /\ \A s \in Streams : Later(s)' \subseteq Later(s)
         /\ \A x \in Later(m.stream)' : m.n < x
  BY NextIsWritten
<1>2. UNCHANGED <<run, segs, ready, zst>> /\ pc \in {"loop", "writing"}
  BY DEF Receive, WriteHeld
<1>3. m.stream \in Streams /\ m.n \in Nat
  BY ContentParts
<1>4. PICK g \in Active : g \in Names /\ g[1] = run /\ g[2] = m.stream
                          /\ g = <<run, m.stream, segs[m.stream]>>
  <2>1. run \in Runs /\ segs[m.stream] \in Hours
    BY <1>2, <1>3 DEF Inv, MemoryInv, TypeOK
  <2> QED BY <1>3, <2>1, NameParts DEF Active
<1>5. /\ buf \in [Streams -> Seq(Nat)] /\ buf[m.stream] \in Seq(Nat)
      /\ part \in [Names -> Content \cup {NoFile}]
  BY <1>3 DEF Inv, TypeOK, IsContents
<1>6. /\ Ascending(buf[m.stream]) /\ Precedes(Pending(m.stream), {m.n})
      /\ \A f \in Names : f[1] = run /\ f[2] = m.stream
                            => /\ Precedes(Logged(f), {m.n})
                               /\ Precedes(Logged(f), Pending(m.stream))
  BY <1>1, <1>3 DEF OrderInv, Precedes
\* What both cases keep: the other streams, and the order of what still waits.
<1>7. ASSUME \A s \in Streams \ {m.stream} : buf'[s] = buf[s],
             \A f \in Names : (f[1] = run /\ f[2] = m.stream) \/ Stored(f)' = Stored(f),
             Ascending(buf'[m.stream]), Precedes(Pending(m.stream)', Later(m.stream)'),
             \A f \in Names : Ascending(Stored(f)'),
             \A f \in Names : f[1] = run /\ f[2] = m.stream
                                => /\ Precedes(Logged(f)', Pending(m.stream)')
                                   /\ Precedes(Logged(f)', Later(m.stream)'),
             \A f, h \in Names :
                 /\ f[1] = run /\ f[2] = m.stream /\ h[1] = run /\ h[2] = m.stream
                 /\ f[3] < h[3]
                 => Precedes(Logged(f)', Logged(h)')
      PROVE  OrderInv'
  <2>1. ASSUME NEW s \in Streams PROVE Ascending(buf'[s]) /\ Precedes(Pending(s)', Later(s)')
    <3>1. CASE s # m.stream
      <4>1. buf'[s] = buf[s] /\ Pending(s)' = Pending(s) /\ Later(s)' \subseteq Later(s)
        BY <1>1, <1>7, <3>1 DEF Pending
      <4> QED BY <4>1 DEF OrderInv, Precedes
    <3> QED BY <1>7, <3>1
  <2>2. ASSUME NEW f \in Names, f[1] = run
        PROVE  Precedes(Logged(f)', Pending(f[2])') /\ Precedes(Logged(f)', Later(f[2])')
    <3>1. CASE f[2] # m.stream
      <4>1. f[2] \in Streams
        BY NameParts
      <4>2. Logged(f)' = Logged(f) /\ Pending(f[2])' = Pending(f[2])
            /\ Later(f[2])' \subseteq Later(f[2])
        BY <1>1, <1>7, <3>1, <4>1 DEF Pending, Logged
      <4> QED BY <2>2, <4>2 DEF OrderInv, Precedes
    <3> QED BY <1>7, <2>2, <3>1
  <2>3. ASSUME NEW f \in Names, NEW h \in Names, f[1] = h[1], f[2] = h[2], f[3] < h[3]
        PROVE  Precedes(Logged(f)', Logged(h)')
    <3>1. CASE ~(f[1] = run /\ f[2] = m.stream)
      <4>1. Logged(f)' = Logged(f) /\ Logged(h)' = Logged(h)
        BY <1>7, <2>3, <3>1 DEF Logged
      <4> QED BY <2>3, <4>1 DEF OrderInv
    <3> QED BY <1>7, <2>3, <3>1
  <2> QED BY <1>2, <1>7, <2>1, <2>2, <2>3 DEF OrderInv
\* The line is buffered.
<1>8. CASE buf' = [buf EXCEPT ![m.stream] = Append(@, m.n)] /\ UNCHANGED part
  <2>1. buf'[m.stream] = Append(buf[m.stream], m.n)
        /\ \A s \in Streams \ {m.stream} : buf'[s] = buf[s]
    BY <1>3, <1>5, <1>8
  <2>2. \A f \in Names : Stored(f)' = Stored(f) /\ Logged(f)' = Logged(f)
    BY <1>2, <1>8 DEF Stored, Logged
  <2>3. Ascending(buf'[m.stream]) /\ Pending(m.stream)' = Pending(m.stream) \cup {m.n}
    <3>1. /\ Elements(Append(buf[m.stream], m.n)) = Elements(buf[m.stream]) \cup {m.n}
          /\ Ascending(Append(buf[m.stream], m.n))
      BY <1>3, <1>5, <1>6, ElementParts DEF Pending
    <3> QED BY <2>1, <3>1 DEF Pending
  <2>4. Precedes(Pending(m.stream)', Later(m.stream)')
    BY <1>1, <1>3, <2>3 DEF OrderInv, Precedes
  <2>5. ASSUME NEW f \in Names, f[1] = run, f[2] = m.stream
        PROVE  /\ Precedes(Logged(f)', Pending(m.stream)')
               /\ Precedes(Logged(f)', Later(m.stream)')
    BY <1>1, <1>3, <1>6, <2>2, <2>3, <2>5 DEF OrderInv, Precedes
  <2>6. OrderInv'
    BY <1>7, <2>1, <2>2, <2>3, <2>4, <2>5 DEF OrderInv
  <2>7. HourInv'
    BY <1>2, <2>2 DEF HourInv
  <2> QED BY <2>6, <2>7
\* The buffer goes to the file first.
<1>9. CASE /\ part' = [part EXCEPT ![g] = @ \o buf[m.stream]]
           /\ buf' = [buf EXCEPT ![m.stream] = <<m.n>>]
  <2>1. buf'[m.stream] = <<m.n>> /\ \A s \in Streams \ {m.stream} : buf'[s] = buf[s]
    BY <1>3, <1>5, <1>9
  <2>2. part'[g] = part[g] \o buf[g[2]] /\ \A f \in Names \ {g} : part'[f] = part[f]
    BY <1>4, <1>5, <1>9
  <2>3. Stored(g)' = Stored(g) \o buf[m.stream]
    BY <1>2, <1>4, <2>2, FileFlushed
  <2>4. \A f \in Names \ {g} : Stored(f)' = Stored(f) /\ Logged(f)' = Logged(f)
    BY <1>2, <2>2 DEF Stored, Logged
  <2>5. Ascending(Stored(g)') /\ Logged(g)' = Logged(g) \cup Pending(m.stream)
    <3>1. Stored(g) \in Seq(Nat) /\ Ascending(Stored(g))
      BY <1>4, StoredParts DEF OrderInv
    <3>2. Precedes(Elements(Stored(g)), Elements(buf[m.stream]))
      BY <1>4, <1>6 DEF Logged, Pending
    <3> QED BY <1>5, <1>6, <2>3, <3>1, <3>2, Joined DEF Logged, Pending
  <2>6. Ascending(buf'[m.stream]) /\ Pending(m.stream)' = {m.n}
    <3>1. Elements(<<m.n>>) = {m.n} /\ Ascending(<<m.n>>)
      BY <1>3, <1>5, ElementParts
    <3> QED BY <2>1, <3>1 DEF Pending
  <2>7. Precedes(Pending(m.stream)', Later(m.stream)')
    BY <1>1, <2>6 DEF Precedes
  <2>8. ASSUME NEW f \in Names, f[1] = run, f[2] = m.stream
        PROVE  /\ Precedes(Logged(f)', Pending(m.stream)')
               /\ Precedes(Logged(f)', Later(m.stream)')
    <3>1. /\ Precedes(Logged(f), {m.n}) /\ Precedes(Pending(m.stream), {m.n})
          /\ Precedes(Logged(f), Later(m.stream)) /\ Precedes(Pending(m.stream), Later(m.stream))
          /\ Later(m.stream)' \subseteq Later(m.stream)
      BY <1>1, <1>3, <1>6, <2>8 DEF OrderInv
    <3>2. Logged(f)' \subseteq Logged(f) \cup Pending(m.stream)
      BY <2>4, <2>5
    <3> QED BY <2>6, <3>1, <3>2 DEF Precedes
  <2>9. ASSUME NEW f \in Names, NEW h \in Names, f[1] = run, f[2] = m.stream,
               h[1] = run, h[2] = m.stream, f[3] < h[3]
        PROVE  Precedes(Logged(f)', Logged(h)')
    <3>1. Precedes(Logged(f), Logged(h)) /\ Precedes(Logged(f), Pending(m.stream))
      BY <1>6, <2>9 DEF OrderInv
    <3>2. CASE f = g
      <4>1. Stored(h) = <<>> /\ h # g
        BY <2>9, <3>2, ActiveIsLast, NameParts DEF Hours
      <4>2. Logged(h)' = {}
        BY <2>4, <4>1, NoneIn DEF Logged
      <4> QED BY <4>2 DEF Precedes
    <3>3. CASE f # g
      <4>1. Logged(f)' = Logged(f) /\ Logged(h)' \subseteq Logged(h) \cup Pending(m.stream)
        BY <2>4, <2>5, <3>3
      <4> QED BY <3>1, <4>1 DEF Precedes
    <3> QED BY <3>2, <3>3
  <2>10. OrderInv'
    <3>1. \A f \in Names : (f[1] = run /\ f[2] = m.stream) \/ Stored(f)' = Stored(f)
      BY <1>4, <2>4
    <3>2. \A f \in Names : Ascending(Stored(f)')
      BY <2>4, <2>5 DEF OrderInv
    <3> QED BY <1>7, <2>1, <2>6, <2>7, <2>8, <2>9, <3>1, <3>2
  <2>11. ASSUME NEW f \in Names, f[1] = run', segs'[f[2]] # -1, f[3] > segs'[f[2]]
         PROVE  Stored(f)' = <<>>
    <3>1. Stored(f) = <<>>
      BY <1>2, <2>11 DEF HourInv
    <3>2. f # g
      BY <1>2, <1>4, <2>11, ActiveParts, NameParts DEF Hours
    <3> QED BY <2>4, <3>1, <3>2
  <2> QED BY <2>10, <2>11 DEF HourInv
<1> QED BY <1>1, <1>4, <1>8, <1>9 DEF WriteLine

LEMMA HourStays ==
  ASSUME StepsInv, HourInv, [Next]_vars, ~Receive, ~WriteHeld
  PROVE  HourInv'
<1> USE DEF StepsInv
\* A file of a later hour than the open segment's stays empty.
<1>1. ASSUME NEW f \in Names, f \notin Active, Stored(f) = <<>> PROVE Stored(f)' = <<>>
  <2>1. Kept(f)
    BY <1>1, LogStaysStep DEF Taken
  <2>2. PICK k \in 0 .. 0 : Stored(f)' = SubSeq(<<>>, 1, k)
    BY <1>1, <2>1 DEF Kept
  <2> QED BY <2>2
<1>2. ASSUME NEW f \in Names, f[1] = run, f[3] > segs[f[2]], segs[f[2]] # -1
      PROVE  Stored(f)' = <<>>
  <2>1. f \notin Active
    BY <1>2, NameParts DEF Active, Hours
  <2> QED BY <1>1, <1>2, <2>1 DEF HourInv
<1>3. CASE UNCHANGED <<run, segs>>
  BY <1>2, <1>3 DEF HourInv
<1>4. CASE segs' = NoSegs
  BY <1>4, NameParts DEF HourInv, NoSegs
<1>5. ASSUME NEW s \in Streams, OpenSegment(s) PROVE HourInv'
  <2>1. segs' = [segs EXCEPT ![s] = hour] /\ run' = run
    BY <1>5 DEF OpenSegment
  <2>2. segs'[s] = hour /\ \A t \in Streams \ {s} : segs'[t] = segs[t]
    BY <2>1 DEF Inv, TypeOK
  <2>3. ASSUME NEW f \in Names, f[1] = run', segs'[f[2]] # -1, f[3] > segs'[f[2]]
        PROVE  Stored(f)' = <<>>
    <3>1. CASE f[2] = s
      BY <1>5, <2>1, <2>2, <2>3, <3>1, OpeningKeeps
    <3>2. CASE f[2] # s
      BY <1>2, <2>1, <2>2, <2>3, <3>2, NameParts
    <3> QED BY <3>1, <3>2
  <2> QED BY <2>3 DEF HourInv
<1>6. ASSUME NEW g \in Names, FinalizeSegment(g) PROVE HourInv'
  <2>1. segs' = [segs EXCEPT ![g[2]] = -1] /\ run' = run
    BY <1>6 DEF FinalizeSegment
  <2>2. segs'[g[2]] = -1 /\ \A t \in Streams \ {g[2]} : segs'[t] = segs[t]
    BY <2>1, NameParts DEF Inv, TypeOK
  <2> QED BY <1>2, <2>1, <2>2, NameParts DEF HourInv
<1>7. CASE Start
  BY <1>4, <1>7 DEF Start, Inv, MemoryInv, WriterAlive
<1>8. CASE WriterFails \/ Crash \/ PowerFails
  BY <1>4, <1>8 DEF WriterFails, Crash, PowerFails, LoseBuffers, ForgetMemory
<1>9. CASE Compress
  BY <1>3, <1>9 DEF Compress, CreateTemp, Encode, Install, Checksum, RemoveReady
<1>10. CASE \E f \in Names : RecoverPartial(f) \/ RecoverReady(f)
  BY <1>3, <1>10 DEF RecoverPartial, RecoverReady
<1>11. CASE \/ Tick \/ SendShutdown \/ SpawnWriter \/ ReceiveAndRotate \/ FlushTick
            \/ RotateTick \/ ReceiveShutdown \/ FinalizeDone \/ UNCHANGED vars
            \/ \E s \in Streams : Record(s)
  BY <1>3, <1>11 DEF Tick, SendShutdown, SpawnWriter, ReceiveAndRotate, FlushTick, RotateTick,
                     ReceiveShutdown, FinalizeDone, Record, vars, process
<1> QED BY <1>5, <1>6, <1>7, <1>8, <1>9, <1>10, <1>11 DEF Next, Recover, Write

-----------------------------------------------------------------------------
\* With a steady clock, and whatever fails where: a file, as recovery
\* would leave it, holds its stream's records in the order of StorageHandle::record,
\* each once, and so do the files of a run from hour to hour.
THEOREM FilesInOrder == SteadyClock => (Spec => []FilesKeepTheOrder)
<1> SUFFICES ASSUME SteadyClock PROVE Spec => []FilesKeepTheOrder
  OBVIOUS
<1>1. Init => OrderInv /\ HourInv
  <2> SUFFICES ASSUME Init PROVE OrderInv /\ HourInv
    OBVIOUS
  <2>1. \A f \in Names : Stored(f) = <<>>
    BY DEF Init, Stored
  <2>2. \A s \in Streams : buf[s] = <<>> /\ Later(s) = {}
    BY DEF Init, NoBytes, Later, WaitingOf, HeldOf, Waiting
  <2>3. Ascending(<<>>)
    BY DEF Ascending
  <2> QED BY <2>1, <2>2, <2>3, NoneIn, NameParts
             DEF OrderInv, HourInv, Precedes, Logged, Pending
<1>2. StepsInv /\ OrderInv /\ HourInv /\ [Next]_vars => (OrderInv /\ HourInv)'
  BY OrderStays, OrderWrites, HourStays
<1>3. StepsInv /\ OrderInv => FilesKeepTheOrder
  <2> SUFFICES ASSUME StepsInv, OrderInv, NEW r \in Runs, NEW s \in Streams,
                      NEW h \in Hours, NEW k \in Hours
               PROVE  LET c == Stored(<<r, s, h>>)
                          d == Stored(<<r, s, k>>) IN
                      /\ h < k => \A i \in DOMAIN c, j \in DOMAIN d : c[i] < d[j]
                      /\ \A i, j \in DOMAIN c : i < j => c[i] < c[j]
    BY DEF FilesKeepTheOrder
  <2>a. <<r, s, h>> \in Names /\ <<r, s, k>> \in Names
    BY DEF Names
  <2>1. PICK f \in Names : f = <<r, s, h>> /\ f[1] = r /\ f[2] = s /\ f[3] = h
    BY <2>a
  <2>2. PICK g \in Names : g = <<r, s, k>> /\ g[1] = r /\ g[2] = s /\ g[3] = k
    BY <2>a
  <2>3. /\ DOMAIN Stored(f) = 1 .. Len(Stored(f)) /\ DOMAIN Stored(g) = 1 .. Len(Stored(g))
        /\ Ascending(Stored(f))
    BY StoredParts DEF StepsInv, OrderInv
  <2>4. ASSUME h < k, NEW i \in DOMAIN Stored(f), NEW j \in DOMAIN Stored(g)
        PROVE  Stored(f)[i] < Stored(g)[j]
    <3>1. Precedes(Logged(f), Logged(g))
      BY <2>1, <2>2, <2>4 DEF OrderInv
    <3> QED BY <2>3, <2>4, <3>1 DEF Precedes, Logged, Elements
  <2> QED BY <2>1, <2>2, <2>3, <2>4 DEF Ascending
<1>4. Spec => [](StepsInv /\ OrderInv /\ HourInv)
  BY Steady, <1>1, <1>2, PTL DEF Spec
<1> QED BY <1>3, <1>4, PTL

=============================================================================
