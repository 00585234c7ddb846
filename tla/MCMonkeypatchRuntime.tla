------------------------ MODULE MCMonkeypatchRuntime ------------------------
(* A process with two threads that forks a child.                           *)
EXTENDS MonkeypatchRuntime, TLC

Symmetry == Permutations(Threads)
=============================================================================
