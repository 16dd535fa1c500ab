--------------------------- MODULE MCStudioBridge ---------------------------
(* Small instances of StudioBridge for TLC. No operator of StudioBridge    *)
(* tells one identifier of a kind from another, so they are symmetric.     *)
EXTENDS StudioBridge

Symmetry ==
  Permutations(Commands) \cup Permutations(SessionIds)
    \cup Permutations(Externals) \cup Permutations(Bindings)
=============================================================================
