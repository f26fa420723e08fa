---------------------------- MODULE ProbeContract ----------------------------
(***************************************************************************)
(* What ExecutionProbe promises about money at risk, without its protocol: *)
(* one probe at a time puts at most Size lots on the book, whatever of it  *)
(* trades is held until it is sold, and the probe is over only when        *)
(* nothing is on the book, nothing is on its way there and nothing is held *)
(* (README.md, "Probe lifecycle": "reconcile zero open orders and zero     *)
(* inventory -> finalize the probe and enter cooldown").                   *)
(***************************************************************************)
EXTENDS Integers

CONSTANT Size  \* lots of a probe order

VARIABLES running,  \* a probe is active
          exposed,  \* lots on the book or in a PLACE on its way
          held      \* lots bought and not yet sold

contract == <<running, exposed, held>>

Start == /\ ~running /\ exposed = 0 /\ held = 0
         /\ running' = TRUE /\ exposed' = Size /\ UNCHANGED held

\* The exchange trades part of the exposure,
Buy == \E lots \in 1 .. exposed :
         /\ exposed' = exposed - lots /\ held' = held + lots /\ UNCHANGED running

\* cancels or rejects the rest,
Withdraw == exposed > 0 /\ exposed' = 0 /\ UNCHANGED <<running, held>>

\* or takes lots back from a reduce-only order, never more than are held.
Sell == \E lots \in 1 .. held : held' = held - lots /\ UNCHANGED <<running, exposed>>

Finish == /\ running /\ exposed = 0 /\ held = 0
          /\ running' = FALSE /\ UNCHANGED <<exposed, held>>

ContractInit == running = FALSE /\ exposed = 0 /\ held = 0
ContractNext == Start \/ (running /\ (Buy \/ Withdraw \/ Sell)) \/ Finish

Contract == ContractInit /\ [][ContractNext]_contract
=============================================================================
