---------------------------- MODULE MCApprovals ----------------------------
EXTENDS Approvals, TLC
\* Runs, calls and decision requests are each interchangeable.
ApprovalSymmetry == Permutations(Runs) \cup Permutations(Calls) \cup Permutations(Decisions)
=============================================================================
