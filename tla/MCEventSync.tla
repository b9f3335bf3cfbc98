---------------------------- MODULE MCEventSync ----------------------------
EXTENDS LogRefinement
=============================================================================
