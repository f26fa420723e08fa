--------------------------- MODULE ActionGateway ---------------------------
(***************************************************************************)
(* The numbers that ActionGateway puts on its requests.  A request id and a *)
(* nonce are taken before the request is signed and written; what becomes  *)
(* of the write is known only to the websocket task.  The exchange answers *)
(* by request id and refuses a nonce that it has seen.                     *)
(***************************************************************************)
EXTENDS Integers

CONSTANTS
    MaxActions,  \* bound: requests
    MaxWall      \* bound: get_mills_timestamp()

ASSUME GatewayAssumption == MaxActions \in Nat /\ MaxWall \in Nat

VARIABLES
    gateway,  \* next_request_id, last_nonce
    written   \* <<request id, nonce>> of the requests that may have been written

GatewayInit == gateway = [nextRequest |-> 1, lastNonce |-> 0] /\ written = {}

\* Mutant: two requests of one millisecond, or after the clock was set back,
\* take what the clock shows.
ClockNonce(wall) == IF wall >= gateway.lastNonce THEN wall ELSE gateway.lastNonce

NextNonce(wall) ==
    IF wall >= gateway.lastNonce + 1 THEN wall ELSE gateway.lastNonce + 1

\* send_action.  The wall clock shows anything.  `sent' is Ok: the websocket
\* task has acknowledged the write.  An Err comes from signing, from a missing
\* handle or from the task, which may have written the request all the same.
SendAction(sent) ==
    /\ gateway.nextRequest <= MaxActions
    /\ \E wall \in 1 .. MaxWall :
         LET request == <<gateway.nextRequest, NextNonce(wall)>>
         IN /\ gateway' = [nextRequest |-> gateway.nextRequest + 1,
                           lastNonce |-> NextNonce(wall)]
            /\ \E reached \in (IF sent THEN {TRUE} ELSE BOOLEAN) :
                 written' = IF reached THEN written \cup {request} ELSE written

GatewayTypeOK ==
    /\ gateway \in [nextRequest : Nat \ {0}, lastNonce : Nat]
    /\ written \subseteq (Nat \ {0}) \X (Nat \ {0})

-----------------------------------------------------------------------------
\* No two requests that may have reached the exchange share a request id or a
\* nonce, and nonces grow with the ids, whatever writes failed in between and
\* however the wall clock is set: an answer is never taken for that of another
\* request, and the exchange never refuses one as a replay.
ActionsAreNumberedOnce ==
    \A r, s \in written : /\ r[1] = s[1] => r = s
                          /\ r[1] < s[1] => r[2] < s[2]
=============================================================================
