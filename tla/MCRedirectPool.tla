---------------------------- MODULE MCRedirectPool ----------------------------
(* Instances of RedirectPool for TLC: the configurations give the sizes. *)
EXTENDS RedirectPool, TLC

CONSTANTS e1, e2

\* config.nodeUrls: both nodes, or one of them (the server may recommend the other).
Nodes   == <<e1, e2>>
OneNode == <<e1>>

\* Callers, session names and devices are interchangeable.
Symmetry == Permutations(Clients) \cup Permutations(Sessions) \cup Permutations(Devices)
=============================================================================
