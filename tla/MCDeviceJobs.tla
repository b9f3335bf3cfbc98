---------------------------- MODULE MCDeviceJobs ----------------------------
EXTENDS JobRefinement
=============================================================================
