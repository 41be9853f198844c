------------------------------- MODULE MCClint -------------------------------
\* A reference clock of 9 core cycles per tick and a low half of 2 bits, so
\* that it rolls over several times within the bound, at every offset of the
\* clock; a step of the hart takes one cycle or two.
EXTENDS Clint

MCLatencies == {1, 2}
MCDelays == {0, 1, 2}
MCTargets == {0, 3, 4, 5}
=============================================================================
