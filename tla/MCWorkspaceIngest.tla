-------------------------- MODULE MCWorkspaceIngest --------------------------
(***************************************************************************)
(* Two sources, two contents, and as many ingests as three revisions       *)
(* allow.  One content is over the size limit: a source has it in the      *)
(* stores only by growing after it was discovered, which it may at any     *)
(* time, so each order of the two contents is still read.                  *)
(***************************************************************************)
EXTENDS WorkspaceIngest
=============================================================================
