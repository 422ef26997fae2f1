----------------------------- MODULE MCSignals -----------------------------
EXTENDS Signals

AllPrograms == {"5_20", "5_21", "5_22", "5_23", "5_37", "6_10"}
=============================================================================
