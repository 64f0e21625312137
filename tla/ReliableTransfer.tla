-------------------------- MODULE ReliableTransfer --------------------------
(***************************************************************************)
(* What one RDT transfer promises its two callers: the receiving side is   *)
(* handed the chunks of the file in order, each once; the receiving side   *)
(* completes only with the whole file; and the sending side reports        *)
(* success only when the whole file has been handed over.  Either side may *)
(* give up at any time (retry limits, cancellation, closed sockets).       *)
(***************************************************************************)
EXTENDS Naturals, Sequences

CONSTANT File               \* the chunks of the transfer, in order

VARIABLES
    delivered,              \* chunks handed to the receiving side's caller
    sender,                 \* outcome reported by the sending side
    receiver                \* outcome reported by the receiving side

vars == <<delivered, sender, receiver>>

Outcomes == {"running", "done", "failed"}

Init ==
    /\ delivered = <<>>
    /\ sender = "running"
    /\ receiver = "running"

Deliver ==
    /\ receiver = "running"
    /\ Len(delivered) < Len(File)
    /\ delivered' = Append(delivered, File[Len(delivered) + 1])
    /\ UNCHANGED <<sender, receiver>>

SenderSucceeds ==
    /\ sender = "running"
    /\ delivered = File
    /\ sender' = "done"
    /\ UNCHANGED <<delivered, receiver>>

ReceiverSucceeds ==
    /\ receiver = "running"
    /\ delivered = File
    /\ receiver' = "done"
    /\ UNCHANGED <<delivered, sender>>

SenderGivesUp ==
    /\ sender = "running"
    /\ sender' = "failed"
    /\ UNCHANGED <<delivered, receiver>>

ReceiverGivesUp ==
    /\ receiver = "running"
    /\ receiver' = "failed"
    /\ UNCHANGED <<delivered, sender>>

Next ==
    \/ Deliver
    \/ SenderSucceeds
    \/ ReceiverSucceeds
    \/ SenderGivesUp
    \/ ReceiverGivesUp

Spec == Init /\ [][Next]_vars
=============================================================================
