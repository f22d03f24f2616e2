-------------------------- MODULE MCCallbackServer --------------------------
(* One application thread, for TLC. *)
EXTENDS CallbackServerOwned, TLC

CONSTANTS owner, n1, n2, k1, k2

MCCallers == {owner}
MCCalls == {n1, n2}
MCCallbacks == {k1, k2}
MCPorts == {1, 2}

\* smaller sets for the temporal properties
MCOneCall == {n1}
MCOnePort == {1}

Symmetry == Permutations(MCCalls) \cup Permutations(MCCallbacks)
=============================================================================
