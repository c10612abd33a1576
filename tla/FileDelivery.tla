---------------------------- MODULE FileDelivery ----------------------------
(***************************************************************************)
(* What a file transfer promises, without records, keys or frames: the     *)
(* head of the sender's queue is shown by the receiver at most once and    *)
(* whole, it is marked sent only after it was shown, and it is marked      *)
(* failed only if it was not.                                              *)
(***************************************************************************)
EXTENDS Naturals, Sequences

CONSTANT NumFiles

VARIABLES
    queue,    \* files not yet concluded
    picked,   \* how many files the user has queued
    shown,    \* the files the receiver shows, in the order it got them
    sent,     \* files concluded as sent and verified
    failed    \* files concluded as failed

vars == <<queue, picked, shown, sent, failed>>

IsShown(f) == \E i \in 1..Len(shown) : shown[i] = f

Init ==
    /\ queue = <<>>
    /\ picked = 0
    /\ shown = <<>>
    /\ sent = {}
    /\ failed = {}

\* The user queues the next file.
Pick ==
    /\ picked < NumFiles
    /\ picked' = picked + 1
    /\ queue' = Append(queue, picked + 1)
    /\ UNCHANGED <<shown, sent, failed>>

\* The receiver verified every segment of the head and shows it.
Show ==
    /\ queue # <<>>
    /\ ~IsShown(Head(queue))
    /\ shown' = Append(shown, Head(queue))
    /\ UNCHANGED <<queue, picked, sent, failed>>

MarkSent ==
    /\ queue # <<>>
    /\ IsShown(Head(queue))
    /\ queue' = Tail(queue)
    /\ sent' = sent \cup {Head(queue)}
    /\ UNCHANGED <<picked, shown, failed>>

MarkFailed ==
    /\ queue # <<>>
    /\ ~IsShown(Head(queue))
    /\ queue' = Tail(queue)
    /\ failed' = failed \cup {Head(queue)}
    /\ UNCHANGED <<picked, shown, sent>>

Next == Pick \/ Show \/ MarkSent \/ MarkFailed

Spec == Init /\ [][Next]_vars
=============================================================================
