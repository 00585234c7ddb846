-------------------------- MODULE MCTraceIntervals --------------------------
(* Three intervals of two stages: of every length that four time stamps     *)
(* allow, empty, or reversed.                                               *)
EXTENDS TraceIntervals

MCSpans == {span \in [start : Times, end : Times] :
              span.start <= span.end \/ span = [start |-> 2, end |-> 1]}
MCWindows == {[start |-> 0, end |-> 3], [start |-> 1, end |-> 3]}
=============================================================================
