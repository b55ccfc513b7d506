---------------------------- MODULE MCStreamRead ----------------------------
(* Values for StreamRead: responses long enough to fill the queue.         *)
EXTENDS StreamRead

CONSTANTS readThread, msgEvent

MCItems == Last .. NumChunks
=============================================================================
