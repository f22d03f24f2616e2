------------------------- MODULE MCInterfacesClient -------------------------
(* Two application threads and two asynchronous requests, for TLC. *)
EXTENDS InterfacesClient, TLC

CONSTANTS a1, a2, r1, r2

MCApps == {a1, a2}
MCRequests == {r1, r2}
MCOneApp == {a1}
MCOneRequest == {r1}

Symmetry == Permutations(MCApps) \cup Permutations(MCRequests)
=============================================================================
