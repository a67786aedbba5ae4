----------------------------- MODULE MCPushToTalk -----------------------------
(* Instance of PushToTalk: two recordings, of which the second can meet what  *)
(* the first left behind.  Of three chunks, one goes to memory and two to      *)
(* shards of one chunk, with a rotation between them.  One hotkey-stop thread: *)
(* a second release waits for it, as it would wait for the lock, and the       *)
(* auto-stop thread is the stop that runs beside it.  No second recording once *)
(* a process or a reader has outlived a wait: the proofs cover what follows.   *)
EXTENDS PushToTalk

CONSTANTS s1

MCStoppers == {s1}
=============================================================================
