------------------------- MODULE MCTargetDiscovery --------------------------
(* One worker, one event-loop thread and a leftover of the last session.    *)
EXTENDS TargetDiscovery
=============================================================================
