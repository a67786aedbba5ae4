-------------------------- MODULE MCModelScheduler --------------------------
(***************************************************************************)
(* A small instance of ModelScheduler: two handles under two keys.         *)
(***************************************************************************)
EXTENDS ModelScheduler

\* The kinds the daemon submits: final ASR, preload and correction.
MCKinds == {"final_tail", "stable_segment", "correction"}
=============================================================================
