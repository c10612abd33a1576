--------------------------- MODULE SegmentTransfer ---------------------------
(***************************************************************************)
(* The v2 chunked transfer over one relay pairing: the sender page's queue *)
(* (sender-send.js), the SegmentSender and its pump/transfer loop          *)
(* (segment-stream.js), the ack waiter and the record parser of the        *)
(* transport (transport-assembler.js, ws-transport.js), the receiver       *)
(* page's serialized segment pipeline (receive-flow.js) and the resume     *)
(* handshake after a transient drop.                                       *)
(*                                                                         *)
(* Both pages are verified throughout (the gate is the subject of the      *)
(* handshake); a file is its number, a record is named by its file, its    *)
(* sequence number and the salt of the key that sealed it, and a composite *)
(* hash is the sequence of files its data segments came from.              *)
(***************************************************************************)
EXTENDS Naturals, Sequences, FiniteSets

CONSTANTS
    NumFiles,     \* the user queues files 1..NumFiles, in this order
    SegCount,     \* data segments of each file; record 0 is its metadata
    MaxRetries,   \* MAX_SEGMENT_RETRIES and MAX_TRANSFER_RETRIES
    MaxDrops,     \* bound: times the relay pairing breaks
    MaxCorrupt    \* bound: records the relay corrupts

File == 1..NumFiles

ASSUME ConstantsAssumption ==
    /\ NumFiles \in Nat
    /\ SegCount \in [File -> Nat \ {0}]
    /\ MaxRetries \in Nat
    /\ MaxDrops \in Nat
    /\ MaxCorrupt \in Nat

VARIABLES
    \* Sender page
    queue,              \* files not yet concluded; the head is being sent
    picked,             \* how many files the user has queued so far
    stream,             \* the head's SegmentSender
    phase,              \* where drain()/sendFile() stands
    pausedOnTransient,  \* waiting for a file-resume-offer
    retries,            \* rewinds done by the current transfer()
    record,             \* the record next() is at, not yet handed over
    segmentNackSeq,     \* a segment-nack that found no ack waiter (-1: none)
    nackedSeq,          \* the segment-nack transfer() is answering
    saltCount,          \* salts drawn so far; the next one is fresh
    sent,               \* files concluded as sent and verified
    failed,             \* files concluded as failed
    \* Receiver page
    receiver,           \* the SegmentReceiver of the transfer in flight
    awaitingRewindSeq,  \* nacked record whose rewind is awaited (-1: none)
    retryCount,         \* rewinds requested for this transfer
    parserNextSeq,      \* next record seq of the parser (-1: disarmed)
    displayed,          \* files shown, each as the parts it was made of
    aborted,            \* the transport was torn down as abusive
    \* The pairing
    up,                 \* frames put on the relay now reach the peer
    senderOpen,         \* the sender still believes its socket open
    receiverOpen,       \* the receiver still believes its socket open
    toReceiver,         \* frames on their way to the receiver
    toSender,           \* frames on their way to the sender
    kickDue,            \* the sender has yet to run its recovery callback
    offerDue,           \* the receiver has yet to run its recovery callback
    drops,              \* times the pairing broke so far
    corrupted,          \* records corrupted so far
    \* History
    sealed              \* every <<salt, seq>> that was used to seal a record

senderVars   == <<queue, picked, stream, phase, pausedOnTransient, retries,
                  record, segmentNackSeq, nackedSeq, saltCount, sent, failed,
                  sealed>>
receiverVars == <<receiver, awaitingRewindSeq, retryCount, parserNextSeq,
                  displayed, aborted>>
pairingVars  == <<up, senderOpen, receiverOpen, kickDue, offerDue, drops,
                  corrupted>>
vars == <<senderVars, receiverVars, pairingVars, toReceiver, toSender>>

-----------------------------------------------------------------------------
(* Records, frames and the two ends of a transfer.                         *)

None == 0 - 1
Seqs == Nat \cup {None}

NoStream   == [salt |-> 0, nextSeq |-> 0, read |-> {}]
NoReceiver == [salt |-> 0, segCount |-> 0, parts |-> <<>>]
NoRecord   == [salt |-> 0, seq |-> 0]

Phases ==
    {"idle", "loop", "start", "pump", "read", "seal", "wait", "rewind"}

ToReceiver ==
         [type : {"file-start"}, segCount : Nat, salt : Nat]
    \cup [type : {"record"}, seq : Nat, salt : Nat, file : 0..NumFiles]
    \cup [type : {"file-end"}]
    \cup [type : {"segment-rewind"}, seq : Nat, salt : Nat]
    \cup [type : {"file-resume-ack"}, seq : Nat, salt : Nat]

ToSender ==
         [type : {"file-ack"}, parts : Seq(0..NumFiles)]
    \cup [type : {"file-nack"}]
    \cup [type : {"segment-nack"}, seq : Nat]
    \cup [type : {"file-resume-offer"}, seq : Nat]

\* The segment count a record's final flag stands for (0: no file at all).
SegCountOf(f) == IF f = 0 THEN 0 ELSE SegCount[f]

\* Every record of file f, metadata first.
Whole(f) == [i \in 1..(SegCount[f] + 1) |-> f]

TypeOK ==
    /\ queue \in Seq(File)
    /\ picked \in 0..NumFiles
    /\ stream \in [salt : Nat, nextSeq : Nat, read : SUBSET Nat]
    /\ phase \in Phases
    /\ pausedOnTransient \in BOOLEAN
    /\ retries \in Nat
    /\ record \in [salt : Nat, seq : Nat]
    /\ segmentNackSeq \in Seqs
    /\ nackedSeq \in Seqs
    /\ saltCount \in Nat
    /\ sent \subseteq File
    /\ failed \subseteq File
    /\ receiver \in [salt : Nat, segCount : Nat, parts : Seq(0..NumFiles)]
    /\ awaitingRewindSeq \in Seqs
    /\ retryCount \in Nat
    /\ parserNextSeq \in Seqs
    /\ displayed \in Seq(Seq(0..NumFiles))
    /\ aborted \in BOOLEAN
    /\ up \in BOOLEAN
    /\ senderOpen \in BOOLEAN
    /\ receiverOpen \in BOOLEAN
    /\ toReceiver \in Seq(ToReceiver)
    /\ toSender \in Seq(ToSender)
    /\ kickDue \in BOOLEAN
    /\ offerDue \in BOOLEAN
    /\ drops \in 0..MaxDrops
    /\ corrupted \in 0..MaxCorrupt
    /\ sealed \subseteq Nat \X Nat

Init ==
    /\ queue = <<>>
    /\ picked = 0
    /\ stream = NoStream
    /\ phase = "idle"
    /\ pausedOnTransient = FALSE
    /\ retries = 0
    /\ record = NoRecord
    /\ segmentNackSeq = None
    /\ nackedSeq = None
    /\ saltCount = 0
    /\ sent = {}
    /\ failed = {}
    /\ receiver = NoReceiver
    /\ awaitingRewindSeq = None
    /\ retryCount = 0
    /\ parserNextSeq = None
    /\ displayed = <<>>
    /\ aborted = FALSE
    /\ up = TRUE
    /\ senderOpen = TRUE
    /\ receiverOpen = TRUE
    /\ toReceiver = <<>>
    /\ toSender = <<>>
    /\ kickDue = FALSE
    /\ offerDue = FALSE
    /\ drops = 0
    /\ corrupted = 0
    /\ sealed = {}

-----------------------------------------------------------------------------
(* Sender page: the drain loop and one sendFile().                         *)

\* A frame written to a socket whose pairing is already broken is lost
\* without an error until the close is noticed.
Transmit(m) == toReceiver' = IF up THEN Append(toReceiver, m) ELSE toReceiver

\* Mutant: a rewind that keeps the key.
RewoundKeepingSalt(s, seq) == [s EXCEPT !.nextSeq = seq]

\* rewind(): reposition, and never without a fresh salt.
Rewound(s, seq) == [s EXCEPT !.salt = saltCount + 1, !.nextSeq = seq]

\* push() and the drain() every caller runs after it.
Pick ==
    /\ picked < NumFiles
    /\ picked' = picked + 1
    /\ queue' = Append(queue, picked + 1)
    /\ phase' = IF phase = "idle" /\ ~pausedOnTransient THEN "loop" ELSE phase
    /\ UNCHANGED <<stream, pausedOnTransient, retries, record, segmentNackSeq,
                   nackedSeq, saltCount, sent, failed, sealed, receiverVars,
                   pairingVars, toReceiver, toSender>>

\* The head of the drain loop: nothing left, transport down, or take the
\* head, with a new SegmentSender or with one rewound to the start.
DrainLoop ==
    /\ phase = "loop"
    /\ \/ /\ queue = <<>> \/ ~senderOpen
          /\ phase' = "idle"
          /\ UNCHANGED <<stream, saltCount>>
       \/ /\ queue # <<>> /\ senderOpen
          /\ phase' = "start"
          /\ \/ /\ stream = NoStream \/ stream.nextSeq > 0
                /\ stream' = Rewound(stream, 0)
                /\ saltCount' = saltCount + 1
             \/ /\ stream # NoStream /\ stream.nextSeq = 0
                /\ UNCHANGED <<stream, saltCount>>
    /\ UNCHANGED <<queue, picked, pausedOnTransient, retries, record,
                   segmentNackSeq, nackedSeq, sent, failed, sealed,
                   receiverVars, pairingVars, toReceiver, toSender>>

\* sendFile() and the file-start of pump(). A transport found closed here
\* leaves the queue as it is: the recovery callback drains it again.
SendFileStart ==
    /\ phase = "start"
    /\ \/ /\ ~senderOpen
          /\ phase' = "idle"
          /\ UNCHANGED <<retries, segmentNackSeq, toReceiver>>
       \/ /\ senderOpen
          /\ Transmit([type |-> "file-start", salt |-> stream.salt,
                       segCount |-> SegCount[Head(queue)]])
          /\ segmentNackSeq' = None
          /\ retries' = 0
          /\ phase' = "pump"
    /\ UNCHANGED <<queue, picked, stream, pausedOnTransient, record, nackedSeq,
                   saltCount, sent, failed, sealed, receiverVars, pairingVars,
                   toSender>>

\* A transient drop: keep the head and its SegmentSender, wait for an offer.
PauseOnTransient ==
    /\ phase' = "idle"
    /\ pausedOnTransient' = TRUE

\* next() picks the record at nextSeq; a data segment is read from the blob
\* and hashed first, which suspends the call.
ReadSegment ==
    /\ phase = "pump"
    /\ stream.nextSeq \in 1..SegCount[Head(queue)]
    /\ record' = [salt |-> 0, seq |-> stream.nextSeq]
    /\ stream' = [stream EXCEPT !.read = @ \cup {stream.nextSeq}]
    /\ phase' = "read"
    /\ UNCHANGED <<queue, picked, pausedOnTransient, retries, segmentNackSeq,
                   nackedSeq, saltCount, sent, failed, sealed, receiverVars,
                   pairingVars, toReceiver, toSender>>

\* It seals the record under the key of this moment, suspended again, so its
\* position is stored only when the crypto returns (SendRecord).
SealRecord ==
    /\ \/ phase = "pump" /\ stream.nextSeq = 0
       \/ phase = "read"
    /\ record' = [salt |-> stream.salt,
                  seq  |-> IF phase = "read" THEN record.seq ELSE 0]
    /\ sealed' = sealed \cup {<<record'.salt, record'.seq>>}
    /\ phase' = "seal"
    /\ UNCHANGED <<queue, picked, stream, pausedOnTransient, retries,
                   segmentNackSeq, nackedSeq, saltCount, sent, failed,
                   receiverVars, pairingVars, toReceiver, toSender>>

SendRecord ==
    /\ phase = "seal"
    /\ stream' = [stream EXCEPT !.nextSeq = record.seq + 1]
    /\ record' = NoRecord
    /\ \/ ~senderOpen /\ PauseOnTransient /\ UNCHANGED toReceiver
       \/ /\ senderOpen
          /\ Transmit([type |-> "record", seq |-> record.seq,
                       salt |-> record.salt, file |-> Head(queue)])
          /\ phase' = "pump"
          /\ UNCHANGED pausedOnTransient
    /\ UNCHANGED <<queue, picked, retries, segmentNackSeq, nackedSeq,
                   saltCount, sent, failed, sealed, receiverVars, pairingVars,
                   toSender>>

\* Mutants: the stored segment-nack is delivered unseen, or never.
AfterFileEndUnchecked == "rewind"
AfterFileEndForgetful == "wait"

\* setupFileAck(): a segment-nack that came during the pump is delivered at
\* once, else the waiter and its timer are installed.
AfterFileEnd == IF segmentNackSeq = None THEN "wait" ELSE "rewind"

\* file-end, and the wait for the verdict in the same turn.
SendFileEnd ==
    /\ phase = "pump"
    /\ stream.nextSeq > SegCount[Head(queue)]
    /\ \/ /\ ~senderOpen
          /\ PauseOnTransient
          /\ UNCHANGED <<toReceiver, segmentNackSeq, nackedSeq>>
       \/ /\ senderOpen
          /\ Transmit([type |-> "file-end"])
          /\ nackedSeq' = segmentNackSeq
          /\ segmentNackSeq' = None
          /\ phase' = AfterFileEnd
          /\ UNCHANGED pausedOnTransient
    /\ UNCHANGED <<queue, picked, stream, retries, record, saltCount, sent,
                   failed, sealed, receiverVars, pairingVars, toSender>>

\* Mutant: a failed file stays queued and is sent again.
ConcludeRetrying(ok) ==
    /\ queue' = IF ok THEN Tail(queue) ELSE queue
    /\ stream' = NoStream
    /\ phase' = "loop"
    /\ sent' = IF ok THEN sent \cup {Head(queue)} ELSE sent
    /\ failed' = IF ok THEN failed ELSE failed \cup {Head(queue)}

\* The head leaves the queue, sent or failed, and the loop goes on.
Conclude(ok) ==
    /\ queue' = Tail(queue)
    /\ stream' = NoStream
    /\ phase' = "loop"
    /\ sent' = IF ok THEN sent \cup {Head(queue)} ELSE sent
    /\ failed' = IF ok THEN failed ELSE failed \cup {Head(queue)}

\* Mutant: one rewind fewer than the receiver asks for.
OutOfRewindsEarly == retries + 1 >= MaxRetries

\* The sender's budget of rewinds for one transfer().
OutOfRewinds == retries >= MaxRetries

\* transfer()'s answer to a segment-nack: give up, or rewind with a fresh
\* salt, announce it, and pump the tail without a second file-start.
RewindTail ==
    /\ phase = "rewind"
    /\ nackedSeq' = None
    /\ \/ /\ OutOfRewinds \/ nackedSeq > SegCount[Head(queue)] + 1
          /\ Conclude(FALSE)
          /\ UNCHANGED <<pausedOnTransient, retries, saltCount, toReceiver>>
       \/ /\ ~OutOfRewinds /\ nackedSeq <= SegCount[Head(queue)] + 1
          /\ stream' = Rewound(stream, nackedSeq)
          /\ saltCount' = saltCount + 1
          /\ \/ /\ ~senderOpen /\ PauseOnTransient
                /\ UNCHANGED <<toReceiver, retries>>
             \/ /\ senderOpen
                /\ Transmit([type |-> "segment-rewind", seq |-> nackedSeq,
                             salt |-> stream'.salt])
                /\ retries' = retries + 1
                /\ phase' = "pump"
                /\ UNCHANGED pausedOnTransient
          /\ UNCHANGED <<queue, sent, failed>>
    /\ UNCHANGED <<picked, record, segmentNackSeq, sealed, receiverVars,
                   pairingVars, toSender>>

\* Mutant: the timer was never armed.
AckTimeoutUnarmed == FALSE /\ UNCHANGED vars

\* The 30 s timer of setupFileAck().
AckTimeout ==
    /\ phase = "wait"
    /\ Conclude(FALSE)
    /\ UNCHANGED <<picked, pausedOnTransient, retries, record, segmentNackSeq,
                   nackedSeq, saltCount, sealed, receiverVars, pairingVars,
                   toReceiver, toSender>>

-----------------------------------------------------------------------------
(* Sender page: frames from the receiver.                                  *)

TakeFromReceiver(type) ==
    /\ toSender # <<>>
    /\ Head(toSender).type = type
    /\ toSender' = Tail(toSender)

\* file-ack: whatever hash it carries, it resolves the waiter; the hash of
\* the sender is only required to exist (finishHash). Without a waiter the
\* frame is dropped.
ReceiveFileAck ==
    /\ TakeFromReceiver("file-ack")
    /\ \/ phase = "wait" /\ Conclude(1..SegCount[Head(queue)] \subseteq stream.read)
       \/ /\ phase # "wait"
          /\ UNCHANGED <<queue, stream, phase, sent, failed>>
    /\ UNCHANGED <<picked, pausedOnTransient, retries, record, segmentNackSeq,
                   nackedSeq, saltCount, sealed, receiverVars, pairingVars,
                   toReceiver>>

ReceiveFileNack ==
    /\ TakeFromReceiver("file-nack")
    /\ \/ phase = "wait" /\ Conclude(FALSE)
       \/ /\ phase # "wait"
          /\ UNCHANGED <<queue, stream, phase, sent, failed>>
    /\ UNCHANGED <<picked, pausedOnTransient, retries, record, segmentNackSeq,
                   nackedSeq, saltCount, sealed, receiverVars, pairingVars,
                   toReceiver>>

\* segment-nack: to the waiter if there is one, else kept for it.
ReceiveSegmentNack ==
    /\ TakeFromReceiver("segment-nack")
    /\ \/ /\ phase = "wait"
          /\ phase' = "rewind"
          /\ nackedSeq' = Head(toSender).seq
          /\ UNCHANGED segmentNackSeq
       \/ /\ phase # "wait"
          /\ segmentNackSeq' = Head(toSender).seq
          /\ UNCHANGED <<phase, nackedSeq>>
    /\ UNCHANGED <<queue, picked, stream, pausedOnTransient, retries, record,
                   saltCount, sent, failed, sealed, receiverVars, pairingVars,
                   toReceiver>>

\* handleResumeOffer(): decline and drain, or rewind the head to the offered
\* record, acknowledge with the fresh salt and resumeDrain(), which returns
\* at once while a send is still active.
ReceiveResumeOffer ==
    /\ TakeFromReceiver("file-resume-offer")
    /\ LET seq       == Head(toSender).seq
           canResume == /\ queue # <<>> /\ stream # NoStream
                        /\ seq > 0 /\ seq <= SegCount[Head(queue)] + 1
       IN \/ /\ ~canResume
             /\ Transmit([type |-> "file-resume-ack", seq |-> 0, salt |-> 0])
             /\ pausedOnTransient' = FALSE
             /\ phase' = IF queue # <<>> /\ phase = "idle" THEN "loop" ELSE phase
             /\ UNCHANGED <<stream, saltCount, retries, segmentNackSeq>>
          \/ /\ canResume
             /\ stream' = Rewound(stream, seq)
             /\ saltCount' = saltCount + 1
             /\ Transmit([type |-> "file-resume-ack", seq |-> seq,
                          salt |-> stream'.salt])
             /\ \/ /\ phase = "idle" /\ senderOpen
                   /\ pausedOnTransient' = FALSE
                   /\ segmentNackSeq' = None
                   /\ retries' = 0
                   /\ phase' = "pump"
                \/ /\ phase = "idle" /\ ~senderOpen
                   /\ PauseOnTransient
                   /\ UNCHANGED <<segmentNackSeq, retries>>
                \/ /\ phase # "idle"
                   /\ pausedOnTransient' = FALSE
                   /\ UNCHANGED <<phase, segmentNackSeq, retries>>
    /\ UNCHANGED <<queue, picked, record, nackedSeq, sent, failed, sealed,
                   receiverVars, pairingVars>>

\* The recovery callback of the sender page drains a queue nobody sends.
RecoveryKick ==
    /\ kickDue
    /\ kickDue' = FALSE
    /\ phase' = IF queue # <<>> /\ phase = "idle" /\ ~pausedOnTransient
                  THEN "loop" ELSE phase
    /\ UNCHANGED <<queue, picked, stream, pausedOnTransient, retries, record,
                   segmentNackSeq, nackedSeq, saltCount, sent, failed, sealed,
                   receiverVars, up, senderOpen, receiverOpen, offerDue, drops,
                   corrupted, toReceiver, toSender>>

-----------------------------------------------------------------------------
(* Receiver page: the record parser, then the serialized pipeline.         *)

TakeFromSender(type) ==
    /\ toReceiver # <<>>
    /\ Head(toReceiver).type = type
    /\ toReceiver' = Tail(toReceiver)

Reply(m) == toSender' = IF up THEN Append(toSender, m) ELSE toSender

\* _requestRewind(): nack the first record we lack and ignore the stream
\* until its rewind, or give the transfer up after MaxRetries rounds.
RequestRewind ==
    /\ retryCount' = retryCount + 1
    /\ \/ /\ retryCount >= MaxRetries
          /\ receiver' = NoReceiver
          /\ awaitingRewindSeq' = None
          /\ Reply([type |-> "file-nack"])
       \/ /\ retryCount < MaxRetries
          /\ awaitingRewindSeq' = Len(receiver.parts)
          /\ Reply([type |-> "segment-nack", seq |-> Len(receiver.parts)])
          /\ UNCHANGED receiver

\* rekey(): keep the parts before seq, expect the tail under the new salt.
Rekeyed(r, salt, seq) ==
    [r EXCEPT !.salt = salt, !.parts = SubSeq(@, 1, seq)]

\* file-start arms the parser and replaces whatever was in flight.
ReceiveFileStart ==
    /\ TakeFromSender("file-start")
    /\ parserNextSeq' = 0
    /\ receiver' = [salt |-> Head(toReceiver).salt, parts |-> <<>>,
                    segCount |-> Head(toReceiver).segCount]
    /\ awaitingRewindSeq' = None
    /\ retryCount' = 0
    /\ UNCHANGED <<displayed, aborted, senderVars, pairingVars, toSender>>

\* Mutant: any ciphertext opens.
OpensAnyKey(r, m) == m.seq = Len(r.parts)

\* openSegment() authenticates a record under the current key, its position
\* and the final flag, which the sender derives from its own segment count.
Opens(r, m) ==
    /\ m.salt = r.salt
    /\ m.seq = Len(r.parts)
    /\ (m.seq = SegCountOf(m.file)) <=> (m.seq = r.segCount)

\* The first record on the wire as it arrives: untouched, or with a
\* ciphertext no key opens.
Damaged(m) == [m EXCEPT !.salt = 0, !.file = 0]

Arrivals == {Head(toReceiver)} \cup
            (IF corrupted < MaxCorrupt THEN {Damaged(Head(toReceiver))} ELSE {})

\* Mutant: records pipelined behind a nacked one are still looked at.
NotListeningIfNoReceiver == receiver = NoReceiver

\* Nothing in flight, or a rewind was requested and has not arrived: what
\* the sender pipelined meanwhile is dropped.
NotListening == receiver = NoReceiver \/ awaitingRewindSeq # None

\* A record the parser frames: dropped, accepted in order, or nacked.
ReceiveRecord ==
    /\ TakeFromSender("record")
    /\ parserNextSeq # None
    /\ Head(toReceiver).seq <= parserNextSeq
    /\ parserNextSeq' = Head(toReceiver).seq + 1
    /\ \E m \in Arrivals :
        /\ corrupted' = IF m = Head(toReceiver) THEN corrupted ELSE corrupted + 1
        /\ \/ /\ NotListening
              /\ UNCHANGED <<receiver, awaitingRewindSeq, retryCount, toSender>>
           \/ /\ ~NotListening /\ Opens(receiver, m)
              /\ receiver' = [receiver EXCEPT !.parts = Append(@, m.file)]
              /\ UNCHANGED <<awaitingRewindSeq, retryCount, toSender>>
           \/ /\ ~NotListening /\ ~Opens(receiver, m)
              /\ RequestRewind
    /\ UNCHANGED <<displayed, aborted, senderVars, up, senderOpen,
                   receiverOpen, kickDue, offerDue, drops>>

\* abortAbusiveStream(): binary before file-start, or a record that skips
\* ahead of the parser. The socket is closed and not reopened.
AbortAbusiveStream ==
    /\ TakeFromSender("record")
    /\ parserNextSeq = None \/ Head(toReceiver).seq > parserNextSeq
    /\ aborted' = TRUE
    /\ parserNextSeq' = None
    /\ up' = FALSE
    /\ receiverOpen' = FALSE
    /\ offerDue' = FALSE
    /\ toSender' = <<>>
    /\ UNCHANGED <<receiver, awaitingRewindSeq, retryCount, displayed,
                   senderVars, senderOpen, kickDue, drops, corrupted>>

\* segment-rewind: honoured only if it answers the nack we are waiting on.
ReceiveSegmentRewind ==
    /\ TakeFromSender("segment-rewind")
    /\ \/ /\ receiver # NoReceiver /\ Head(toReceiver).seq = awaitingRewindSeq
          /\ receiver' = Rekeyed(receiver, Head(toReceiver).salt,
                                 Head(toReceiver).seq)
          /\ awaitingRewindSeq' = None
       \/ /\ receiver = NoReceiver \/ Head(toReceiver).seq # awaitingRewindSeq
          /\ UNCHANGED <<receiver, awaitingRewindSeq>>
    /\ UNCHANGED <<retryCount, parserNextSeq, displayed, aborted, senderVars,
                   pairingVars, toSender>>

\* Mutant: the final record is not waited for.
CompleteTooSoon(r) == Len(r.parts) >= r.segCount

\* What finish() requires: every record up to the final one verified.
Complete(r) == Len(r.parts) = r.segCount + 1

\* file-end: with records missing it asks for the tail, else the file is
\* shown and acknowledged.
ReceiveFileEnd ==
    /\ TakeFromSender("file-end")
    /\ \/ /\ NotListening
          /\ UNCHANGED <<receiver, awaitingRewindSeq, retryCount, displayed,
                         toSender>>
       \/ /\ ~NotListening /\ ~Complete(receiver)
          /\ RequestRewind
          /\ UNCHANGED displayed
       \/ /\ ~NotListening /\ Complete(receiver)
          /\ receiver' = NoReceiver
          /\ displayed' = Append(displayed, receiver.parts)
          /\ Reply([type |-> "file-ack", parts |-> receiver.parts])
          /\ UNCHANGED <<awaitingRewindSeq, retryCount>>
    /\ UNCHANGED <<parserNextSeq, aborted, senderVars, pairingVars>>

\* file-resume-ack: 0 abandons the partial transfer; a position within what
\* was verified re-keys it and re-arms the parser; rekey() throws on one
\* beyond it, and nothing changes.
ReceiveResumeAck ==
    /\ TakeFromSender("file-resume-ack")
    /\ LET seq == Head(toReceiver).seq
       IN \/ /\ seq = 0
             /\ receiver' = NoReceiver
             /\ awaitingRewindSeq' = None
             /\ UNCHANGED parserNextSeq
          \/ /\ seq > 0 /\ receiver # NoReceiver /\ seq <= Len(receiver.parts)
             /\ receiver' = Rekeyed(receiver, Head(toReceiver).salt, seq)
             /\ awaitingRewindSeq' = None
             /\ parserNextSeq' = seq
          \/ /\ seq > 0 /\ (receiver = NoReceiver \/ seq > Len(receiver.parts))
             /\ UNCHANGED <<receiver, awaitingRewindSeq, parserNextSeq>>
    /\ UNCHANGED <<retryCount, displayed, aborted, senderVars, pairingVars,
                   toSender>>

\* The recovery callback of the receiver page: offer to resume what is in
\* flight, from the first record it lacks.
OfferResume ==
    /\ offerDue
    /\ offerDue' = FALSE
    /\ \/ /\ receiver = NoReceiver
          /\ UNCHANGED toSender
       \/ /\ receiver # NoReceiver
          /\ Reply([type |-> "file-resume-offer", seq |-> Len(receiver.parts)])
    /\ UNCHANGED <<senderVars, receiverVars, up, senderOpen, receiverOpen,
                   kickDue, drops, corrupted, toReceiver>>

-----------------------------------------------------------------------------
(* The relay pairing.                                                      *)

\* Either socket dies: the relay closes the other, and frames that were not
\* yet delivered are lost. Each page notices in its own time.
Drop ==
    /\ up
    /\ drops < MaxDrops
    /\ drops' = drops + 1
    /\ up' = FALSE
    /\ toReceiver' = <<>>
    /\ toSender' = <<>>
    /\ UNCHANGED <<senderVars, receiverVars, senderOpen, receiverOpen, kickDue,
                   offerDue, corrupted>>

SenderNotices ==
    /\ ~up /\ senderOpen
    /\ senderOpen' = FALSE
    /\ kickDue' = FALSE
    /\ UNCHANGED <<senderVars, receiverVars, up, receiverOpen, offerDue, drops,
                   corrupted, toReceiver, toSender>>

ReceiverNotices ==
    /\ ~up /\ receiverOpen
    /\ receiverOpen' = FALSE
    /\ offerDue' = FALSE
    /\ UNCHANGED <<senderVars, receiverVars, up, senderOpen, kickDue, drops,
                   corrupted, toReceiver, toSender>>

\* Both reconnect loops reopened their sockets and heard a relay-hello.
Reconnect ==
    /\ ~up /\ ~senderOpen /\ ~receiverOpen /\ ~aborted
    /\ up' = TRUE
    /\ senderOpen' = TRUE
    /\ receiverOpen' = TRUE
    /\ kickDue' = TRUE
    /\ offerDue' = TRUE
    /\ UNCHANGED <<senderVars, receiverVars, drops, corrupted, toReceiver,
                   toSender>>

-----------------------------------------------------------------------------
SenderStep ==
    \/ Pick \/ DrainLoop \/ SendFileStart \/ ReadSegment \/ SealRecord
    \/ SendRecord \/ SendFileEnd \/ RewindTail \/ ReceiveFileAck \/ ReceiveFileNack
    \/ ReceiveSegmentNack \/ ReceiveResumeOffer \/ RecoveryKick

ReceiverStep ==
    \/ ReceiveFileStart \/ ReceiveRecord \/ AbortAbusiveStream
    \/ ReceiveSegmentRewind \/ ReceiveFileEnd \/ ReceiveResumeAck
    \/ OfferResume

PairingStep == Drop \/ SenderNotices \/ ReceiverNotices \/ Reconnect

\* PromptNext leaves out the ack timer: every answer of the receiver comes
\* within its 30 seconds, if it comes at all.
PromptNext == SenderStep \/ ReceiverStep \/ PairingStep
Next == PromptNext \/ AckTimeout

Spec == Init /\ [][Next]_vars
PromptSpec == Init /\ [][PromptNext]_vars

\* Each page keeps running and the reconnect loops keep trying; nothing is
\* assumed of drops, corruption or the user.
Fairness ==
    /\ WF_vars(SenderStep)
    /\ WF_vars(ReceiverStep)
    /\ WF_vars(SenderNotices)
    /\ WF_vars(ReceiverNotices)
    /\ WF_vars(Reconnect)

FairSpec == Spec /\ Fairness /\ WF_vars(AckTimeout)
FairPromptSpec == PromptSpec /\ Fairness

-----------------------------------------------------------------------------
(* Properties.                                                             *)

\* No file is shown twice, even when the sender gave up on it although the
\* receiver had it (a lost or late file-ack).
ShownOnce ==
    \A i, j \in 1..Len(displayed) : i # j => displayed[i] # displayed[j]

\* A file that is shown ends with the record its sender sealed as the final
\* one, and that record is at its own place: no file is cut short or padded,
\* even when two files were mixed (isFinal in the nonce, file-end).
Untruncated(parts) ==
    /\ parts # <<>>
    /\ Len(parts) = SegCountOf(parts[Len(parts)]) + 1
NeverTruncated == \A i \in 1..Len(displayed) : Untruncated(displayed[i])

\* Until the sender gives a file up, what the receiver holds of a transfer
\* in flight belongs to the head of the sender's queue: the two pages agree
\* on the file that a file-resume-offer, which names none, is about.
ReceiverHoldsHead ==
    failed = {} /\ queue # <<>> =>
        \A i \in 1..Len(receiver.parts) : receiver.parts[i] = Head(queue)

\* On an unbroken pairing a corrupted record costs one rewind: neither the
\* records nor the file-end pipelined behind it are nacked again.
OneRewindPerCorruption ==
    failed = {} /\ drops = 0 => retryCount <= corrupted

\* No (key, nonce) pair seals two records: whenever next() seals a record,
\* its seq was never sealed before under the current salt, even when a
\* rewind() re-keyed the stream while next() was suspended.
NoNonceReuse ==
    [][phase # "seal" /\ phase' = "seal"
         => <<record'.salt, record'.seq>> \notin sealed]_vars

\* drain() never hangs in a send: every attempt ends, by a verdict, by the
\* ack timer or by a pause, and the loop comes to rest.
SendAttemptEnds == (phase # "idle") ~> (phase = "idle")

\* On an unbroken pairing a receiver that requested a rewind is not left
\* waiting for it: it is re-keyed, or gives the transfer up, because both
\* budgets agree.
RewindAnswered ==
    (awaitingRewindSeq # None) ~> (awaitingRewindSeq = None \/ drops > 0)

\* Without drops, every file the user queues is in the end sent and verified,
\* unless the relay corrupts more records than the retry budget covers.
EveryFileArrives ==
    \A f \in File : (picked >= f) ~> (f \in sent \/ corrupted > MaxRetries \/ drops > 0)

\* The transfer implements what FileDelivery promises, with a file counting
\* as itself only if every record shown is its own.
Delivery == INSTANCE FileDelivery WITH
    shown <- [i \in 1..Len(displayed) |->
                IF displayed[i] = Whole(displayed[i][1])
                  THEN displayed[i][1] ELSE 0]
ImplementsFileDelivery == Delivery!Spec

-----------------------------------------------------------------------------
(* What the documentation says and the code does not do.                   *)

\* README.md: the sender compares the acked hash against its own, so a file
\* marked as sent and verified was received whole. (resolveFileAck() takes
\* any hash, for whatever file is waiting.)
SentMeansReceived ==
    \A f \in sent : \E i \in 1..Len(displayed) : displayed[i] = Whole(f)

\* sender-send.js: a pause on a transient drop ends when the receiver's
\* file-resume-offer arrives, and a pause the receiver will never answer
\* would wedge the queue. (A file-start lost in a dying socket leaves the
\* receiver with nothing to offer.)
PausedSendResumes == pausedOnTransient ~> (~pausedOnTransient \/ aborted)

\* The sender accepts a file-resume-offer in this step.
AcceptsOffer ==
    /\ toSender # <<>> /\ Head(toSender).type = "file-resume-offer"
    /\ toSender' = Tail(toSender)
    /\ saltCount' # saltCount

\* sender-send.js: after accepting an offer the sender resumes sending from
\* the offered record; with nothing on its way to the receiver, waiting for a
\* verdict instead can only end in a timeout. (resumeDrain() returns at once
\* when the send that the drop interrupted is still waiting for its ack.)
AcceptedOfferResumes ==
    [][AcceptsOffer /\ toReceiver = <<>> => phase' # "wait"]_vars

\* receive.html: with a different file at the head of the queue the sender
\* cannot resume, and says so. (The offer names no file, and any position
\* within the head's records is accepted.)
AcceptedOfferIsForHead ==
    [][AcceptsOffer =>
         \A i \in 1..Len(receiver.parts) : receiver.parts[i] = Head(queue)]_vars

\* ARCHITECTURE.md: a bad or missing record is retried instead of failing
\* the file. (The parser tears the transport down when a record is missing.)
MissingRecordIsRetried == ~aborted
=============================================================================
