------------------------------ MODULE Transfer ------------------------------
(***************************************************************************)
(* What S3Read and S3Write (FileSupport.cpp) promise their caller: the     *)
(* records that one thread has taken from the source are written to the    *)
(* destination in order, none lost, doubled or changed, until the transfer *)
(* ends, once, and nothing is written afterwards.  StreamRead and          *)
(* StreamWrite implement this.                                             *)
(***************************************************************************)
EXTENDS Integers, Sequences

CONSTANT MayStopShort     \* whether success may leave records unwritten

VARIABLES source,         \* what has been taken from the source
          dest,           \* what has been written
          outcome

transferVars == <<source, dest, outcome>>

IsPrefixOf(s, t) == Len(s) <= Len(t) /\ s = SubSeq(t, 1, Len(s))

TransferInit == source = << >> /\ dest = << >> /\ outcome = "running"

Take ==
    /\ outcome = "running"
    /\ source' # source /\ IsPrefixOf(source, source')
    /\ UNCHANGED <<dest, outcome>>

Write ==
    /\ outcome = "running"
    /\ dest' # dest /\ IsPrefixOf(dest, dest') /\ IsPrefixOf(dest', source)
    /\ UNCHANGED <<source, outcome>>

End ==
    /\ outcome = "running"
    /\ outcome' \in {"success", "failed"}
    /\ outcome' = "success" => MayStopShort \/ dest = source
    /\ UNCHANGED <<source, dest>>

TransferNext == Take \/ Write \/ End

TransferSpec == TransferInit /\ [][TransferNext]_transferVars
=============================================================================
