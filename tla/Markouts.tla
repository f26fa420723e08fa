------------------------------ MODULE Markouts ------------------------------
(***************************************************************************)
(* The markouts of maker fills: a fill waits in pending_markouts until the *)
(* last of its horizons has been sampled.  Each sample is a record; the    *)
(* records go to the telemetry writer one after the other and the writer   *)
(* may stop before any of them.                                            *)
(***************************************************************************)
EXTENDS Integers, Sequences, FiniteSets

CONSTANTS
    Horizons,  \* probe.markout_horizons_ms
    MaxFills   \* bound: maker fills

ASSUME HorizonsAssumption ==
    /\ Horizons \in Seq(Nat \ {0}) /\ Horizons # <<>>
    /\ \A i, j \in 1 .. Len(Horizons) : i < j => Horizons[i] < Horizons[j]
    /\ MaxFills \in Nat

VARIABLES
    fills,     \* when each maker fill was received
    pending,   \* pending_markouts: [fill, next], next counted from 1
    samples,   \* fill_markout records <<fill, horizon index, time>>
    censored,  \* fills whose markouts were cleared
    writerUp   \* the storage channel is open

markouts == <<fills, pending, samples, censored, writerUp>>

MarkoutsInit ==
    fills = <<>> /\ pending = {} /\ samples = {} /\ censored = {} /\ writerUp = TRUE

Fills == 1 .. Len(fills)

\* Mutant: the horizons that were sampled before are counted again.
DueFromFirst(p, t) == {i \in 1 .. Len(Horizons) : t - fills[p.fill] >= Horizons[i]}

\* The horizons from next_horizon_index on that have passed.
Due(p, t) == {i \in p.next .. Len(Horizons) : t - fills[p.fill] >= Horizons[i]}

\* Mutant: a markout leaves the list with its first sample.
RetainUnsampled(S) == {p \in S : p.next = 1}

\* pending_markouts.retain(!is_complete)
Retain(S) == {p \in S : p.next <= Len(Horizons)}

\* The records of a callback: the writer may refuse one, and then all that
\* follow.
Records == writerUp' \in {writerUp, FALSE}

\* process_user_fill of a maker fill
FillArrives(t) ==
    /\ Len(fills) < MaxFills
    /\ fills' = Append(fills, t)
    /\ pending' = pending \cup {[fill |-> Len(fills) + 1, next |-> 1]}
    /\ Records
    /\ UNCHANGED <<samples, censored>>

\* sample_markouts at time t.  The indices of all pending fills advance first;
\* then the samples are recorded in their order until one fails, which leaves
\* the completed fills in the list for the next call to drop.
SampleMarkouts(t) ==
    LET due == UNION {{<<p.fill, i, t>> : i \in Due(p, t)} : p \in pending}
        advanced == {[p EXCEPT !.next = @ + Cardinality(Due(p, t))] : p \in pending}
        Before(s, u) == s[1] < u[1] \/ (s[1] = u[1] /\ s[2] < u[2])
    IN /\ \/ /\ writerUp \/ due = {}
             /\ samples' = samples \cup due
             /\ pending' = Retain(advanced)
             /\ UNCHANGED writerUp
          \/ \E failed \in due :
               /\ samples' = IF writerUp
                             THEN samples \cup {s \in due : Before(s, failed)} ELSE samples
               /\ pending' = advanced
               /\ writerUp' = FALSE
       /\ UNCHANGED <<fills, censored>>

\* pending_markouts.clear(): the hard inventory guard, or the start of a stop.
ClearMarkouts ==
    /\ pending' = {}
    /\ censored' = censored \cup {p.fill : p \in pending}
    /\ UNCHANGED <<fills, samples>>

MarkoutsTypeOK ==
    /\ fills \in Seq(Nat) /\ writerUp \in BOOLEAN /\ censored \subseteq Fills
    /\ pending \subseteq [fill : Fills, next : 1 .. Len(Horizons) + 1]
    /\ samples \subseteq Fills \X (1 .. Len(Horizons)) \X Nat

-----------------------------------------------------------------------------
Sampled(f) == {s[2] : s \in {u \in samples : u[1] = f}}

\* README "collect 100 / 500 / 1000 / 5000 ms markouts for every fill": while the
\* writer accepts records, a fill that is no longer pending and was not censored
\* has a sample of every horizon, and one that is pending has those of exactly
\* the horizons before its next, however many fall due in one call.  No horizon
\* of a fill is sampled twice or before its time, writer or not.
MarkoutsAreComplete ==
    /\ writerUp =>
         /\ \A p \in pending : Sampled(p.fill) = 1 .. p.next - 1
         /\ \A f \in Fills \ (censored \cup {p.fill : p \in pending}) :
              Sampled(f) = 1 .. Len(Horizons)
    /\ \A s \in samples :
         /\ s[3] >= fills[s[1]] + Horizons[s[2]]
         /\ \A u \in samples : (s[1] = u[1] /\ s[2] = u[2]) => s = u
=============================================================================
