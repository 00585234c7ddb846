--------------------------- MODULE MCSchedLatency ---------------------------
(* Small instances of SchedLatency.  Threads and processors are symmetric:  *)
(* no property orders them.                                                 *)
EXTENDS SchedLatency, TLC

Symmetry == Permutations(Tids) \cup Permutations(Cpus)
=============================================================================
