------------------------- MODULE MCRepeatedNumbers -------------------------
EXTENDS RepeatedNumbers
=============================================================================
