--------------------------- MODULE MCOutputRounds ---------------------------
EXTENDS OutputRounds
CONSTANTS r1, r2, r3
\* A round of three slices, one of two in another order, and one without outputs.
MCBatches == {<<>>, <<r1, r2, r3>>, <<r3, r1>>}
=============================================================================
