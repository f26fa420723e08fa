--------------------------- MODULE MCExecutionProbe ---------------------------
(***************************************************************************)
(* ExecutionProbe on small instances: its environment is open, so one or   *)
(* two probes with a handful of lots, trades and flattens already meet     *)
(* every order of messages.                                                *)
(***************************************************************************)
EXTENDS ExecutionProbe

\* Everything that can go wrong outside the callbacks, except that a failed
\* websocket write, which no property of these runs depends on, is left out.
OutsideFaults == {"writer", "reconnect", "loss", "signal"}
=============================================================================
