---------------------------- MODULE MCLifecycle -----------------------------
(* A session with one or two trace_ctl commands.                            *)
EXTENDS Lifecycle
=============================================================================
