--------------------------- MODULE MCProbeExchange ---------------------------
(***************************************************************************)
(* ProbeExchange on small instances: probes of one or two lots, with as    *)
(* many flattens as lots plus one, and at most one loss or short IOC.      *)
(***************************************************************************)
EXTENDS ProbeExchange

NetworkFaults == {"reconnect", "loss"}
FeedReconnects == {"reconnect"}
StopRequest == {"signal"}
Refused == {"all"}
InPart == {"some"}
=============================================================================
