---------------------------- MODULE MCCommitRoute ----------------------------
(***************************************************************************)
(* A small instance of CommitRoute: two windows and two sessions.          *)
(***************************************************************************)
EXTENDS CommitRoute

\* Two chunks fit the addon's buffer, three do not.
MCSizes == {1}
=============================================================================
