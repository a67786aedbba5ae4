---------------------------- MODULE MCWorkerServer ----------------------------
(* Instance of WorkerServer: three requests, so that one can be served while  *)
(* a decode it left behind runs and another waits in the backlog.             *)
EXTENDS WorkerServer

CONSTANTS c1, c2, c3

MCClients == {c1, c2, c3}
=============================================================================
