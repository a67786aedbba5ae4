---------------------------- MODULE MCVoiceDaemon ----------------------------
(***************************************************************************)
(* A small instance of VoiceDaemon: one thread for releases and one for    *)
(* the limit, two sessions.                                                *)
(***************************************************************************)
EXTENDS VoiceDaemon

\* The production setup, and the bare one: no preloader and no corrector.
MCSetups == {[preloader |-> b, corrector |-> b] : b \in BOOLEAN}
=============================================================================
