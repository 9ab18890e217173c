----------------------------- MODULE MCUserKeys -----------------------------
EXTENDS UserKeys, TLC

\* Users are interchangeable, and so are the prefixes they ask for.
Symmetry == Permutations(Users) \cup Permutations(Overrides)
=============================================================================
