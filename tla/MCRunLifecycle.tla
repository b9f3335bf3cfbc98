--------------------------- MODULE MCRunLifecycle ---------------------------
EXTENDS RunRefinement, TLC
\* The runs of one kind are interchangeable, for safety properties.
RunSymmetry == Permutations(Orphans) \cup Permutations(Requests)
=============================================================================
