------------------------------ MODULE MCSignIn ------------------------------
EXTENDS SignIn, TLC

\* No property and no action tells the members of these sets apart.
Symmetry == Permutations(Attempts) \cup Permutations(Accounts) \cup Permutations(Callbacks)
            \cup Permutations(Claims) \cup Permutations(Registrations)
=============================================================================
