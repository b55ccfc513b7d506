--------------------------- MODULE MCWorkerThread ---------------------------
(* Model values for WorkerThread: an owner and a second thread that waits. *)
EXTENDS WorkerThread

CONSTANTS owner, other
=============================================================================
