----------------------------- MODULE MCTablePool -----------------------------
(* Instances of TablePool for TLC: the configurations give the sizes. *)
EXTENDS TablePool, TLC

\* Callers, session names and databases are interchangeable.
Symmetry == Permutations(Clients) \cup Permutations(Sessions) \cup Permutations(Databases)
=============================================================================
