--------------------------- MODULE MCCuptiControl ---------------------------
(* A program whose tracing is switched on and off.  Its calls race with the *)
(* switch and with CUPTI's own thread, not with each other: one thread      *)
(* makes them, more of them than there are threads to forget.               *)
EXTENDS CuptiControl
=============================================================================
