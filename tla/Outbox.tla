------------------------------- MODULE Outbox -------------------------------
(***************************************************************************)
(* What the sender's queue promises, whatever happens to transports,       *)
(* sessions and loops: items wait in the order they were pushed, only the  *)
(* head is concluded, once, and an item that is neither concluded nor      *)
(* removed by the user waits.                                              *)
(***************************************************************************)
EXTENDS Naturals, SequencesExt

VARIABLES
    pushed,    \* how many items were pushed
    waiting,   \* the items that wait, oldest first
    sent,      \* items concluded as sent and verified
    failed,    \* items concluded as failed
    removed    \* items taken out by the user

vars == <<pushed, waiting, sent, failed, removed>>

Init ==
    /\ pushed = 0
    /\ waiting = <<>>
    /\ sent = {}
    /\ failed = {}
    /\ removed = {}

Push ==
    /\ pushed' = pushed + 1
    /\ waiting' = Append(waiting, pushed + 1)
    /\ UNCHANGED <<sent, failed, removed>>

ConcludeHead ==
    /\ waiting # <<>>
    /\ waiting' = Tail(waiting)
    /\ \/ sent' = sent \cup {Head(waiting)} /\ UNCHANGED failed
       \/ failed' = failed \cup {Head(waiting)} /\ UNCHANGED sent
    /\ UNCHANGED <<pushed, removed>>

\* The user takes out one item, or drops them all.
TakeOut ==
    /\ \E S \in {{i} : i \in ToSet(waiting)} \cup {ToSet(waiting)} :
          /\ removed' = removed \cup S
          /\ waiting' = SelectSeq(waiting, LAMBDA i : i \notin S)
    /\ UNCHANGED <<pushed, sent, failed>>

Next == Push \/ ConcludeHead \/ TakeOut

Spec == Init /\ [][Next]_vars
=============================================================================
