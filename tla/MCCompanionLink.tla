--------------------------- MODULE MCCompanionLink ---------------------------
(* Small instances of CompanionLink for TLC. The commands of a response run *)
(* in the order of their random identifiers, which is any order: identifiers *)
(* of a kind are symmetric.                                                  *)
EXTENDS CompanionLink

Symmetry == Permutations(SessionIds) \cup Permutations(Commands)

\* taken is history that no action and not every property reads.
WithoutTaken == <<vars, plugin, inbox, reply, honoured, restarts, executions, since, ingested>>
=============================================================================
