----------------------------- MODULE DurableLog -----------------------------
(***************************************************************************)
(* What the telemetry storage promises, without files: a record that was   *)
(* accepted is volatile until it is on the disk; a volatile record may be  *)
(* lost by a failure, a record on the disk never is; and a record that is  *)
(* part of a finalized file stays there.                                   *)
(***************************************************************************)
CONSTANT Numbers   \* the records

VARIABLES
    volatile,   \* accepted, in a queue, in memory or not yet on the disk
    durable,    \* on the disk, whatever fails
    sealed      \* in a finalized file

dvars == <<volatile, durable, sealed>>

Init ==
    /\ volatile = {}
    /\ durable = {}
    /\ sealed = {}

\* A producer's record is accepted.
Accept(r) ==
    /\ r \notin volatile \cup durable
    /\ volatile' = volatile \cup {r}
    /\ UNCHANGED <<durable, sealed>>

\* Some volatile records reach the disk.
Persist(S) ==
    /\ S # {}
    /\ S \subseteq volatile
    /\ volatile' = volatile \ S
    /\ durable' = durable \cup S
    /\ UNCHANGED sealed

\* A failure: some volatile records are gone.
Lose(S) ==
    /\ S # {}
    /\ S \subseteq volatile
    /\ volatile' = volatile \ S
    /\ UNCHANGED <<durable, sealed>>

\* A file is finalized: its records, all on the disk, are sealed.
Seal(S) ==
    /\ S # {}
    /\ S \subseteq durable \ sealed
    /\ sealed' = sealed \cup S
    /\ UNCHANGED <<volatile, durable>>

Next ==
    \/ \E r \in Numbers : Accept(r)
    \/ \E S \in SUBSET volatile : Persist(S) \/ Lose(S)
    \/ \E S \in SUBSET durable : Seal(S)

Spec == Init /\ [][Next]_dvars
=============================================================================
