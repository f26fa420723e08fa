---------------------------- MODULE MCQueueBelief ----------------------------
(* QueueBelief on a price level of a few lots with a few frames on their way. *)
EXTENDS QueueBelief
=============================================================================
