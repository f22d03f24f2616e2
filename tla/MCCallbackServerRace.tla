------------------------ MODULE MCCallbackServerRace ------------------------
(* Two application threads sharing one object, for TLC. *)
EXTENDS CallbackServer, TLC

CONSTANTS c1, c2, n1, k1, k2

MCCallers == {c1, c2}
MCCalls == {n1}
MCCallbacks == {k1, k2}
MCPorts == {1}
MCOwner == {c1}

Symmetry == Permutations(MCCallers) \cup Permutations(MCCallbacks)
=============================================================================
