---------------------------- MODULE MCStreamWrite ---------------------------
(* Values for StreamWrite: an empty file, one of less and one of more than *)
(* a buffer, chunks that do not fit the buffers.                           *)
EXTENDS StreamWrite

CONSTANTS caller, sendEvent
=============================================================================
