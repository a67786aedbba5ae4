--------------------------- MODULE MCModelProfiles ---------------------------
(***************************************************************************)
(* ModelProfiles with three profiles, one more than the code knows, so     *)
(* that a task has two siblings to release one after the other.            *)
(***************************************************************************)
EXTENDS ModelProfiles
=============================================================================
