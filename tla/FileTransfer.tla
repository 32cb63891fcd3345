---------------------------- MODULE FileTransfer ----------------------------
(***************************************************************************)
(* What a TFTP transfer promises, whatever the network does: the receiver's*)
(* file grows by the next segment of the source and by nothing else, the   *)
(* transfer is complete exactly when the last segment is stored, and the   *)
(* sender believes the transfer a success only after that, unless the      *)
(* receiver has failed and told its user so.                               *)
(***************************************************************************)
EXTENDS Integers, Sequences

CONSTANT NBlocks

VARIABLES
    file,    \* segments the receiver has stored
    result,  \* what the receiver made of it: "running", "complete", "failed"
    sent     \* whether the sender believes that the file has arrived

vars == <<file, result, sent>>

Init == file = <<>> /\ result = "running" /\ sent = FALSE

Store ==
    /\ result = "running"
    /\ Len(file) < NBlocks
    /\ file' = Append(file, Len(file) + 1)
    /\ \/ Len(file) + 1 = NBlocks /\ result' = "complete"
       \/ Len(file) + 1 # NBlocks /\ result' \in {"running", "failed"}
    /\ UNCHANGED sent

Fail == result = "running" /\ result' = "failed" /\ UNCHANGED <<file, sent>>

ReportSent ==
    /\ Len(file) = NBlocks \/ result = "failed"
    /\ sent' = TRUE
    /\ UNCHANGED <<file, result>>

Next == Store \/ Fail \/ ReportSent

Spec == Init /\ [][Next]_vars
=============================================================================
