---------------------------- MODULE MCFcitxAddon ----------------------------
(***************************************************************************)
(* A small instance of FcitxAddon.                                         *)
(***************************************************************************)
EXTENDS FcitxAddon

\* Three small chunks fit the buffer, a small and two large ones do not.
MCSizes == {1, 2}
=============================================================================
