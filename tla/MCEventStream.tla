---------------------------- MODULE MCEventStream ----------------------------
EXTENDS EventStream, TLC
=============================================================================
