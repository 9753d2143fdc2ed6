---------------------------- MODULE MCSessionPool ----------------------------
(* Instances of SessionPool for TLC: the configurations give the sizes. *)
EXTENDS SessionPool, TLC

\* Callers and session names are interchangeable (safety runs only).
Symmetry == Permutations(Clients) \cup Permutations(Sessions)
=============================================================================
