------------------------ MODULE SegmentTransferProofs ------------------------
(***************************************************************************)
(* What SegmentTransfer guarantees for every number of files, segments,    *)
(* retries, drops and corruptions: types, fresh nonces, whole files, the   *)
(* order in which files are shown, and, until the sender gives a file up,  *)
(* FileDelivery and one rewind for one corrupted record.                   *)
(***************************************************************************)
EXTENDS SegmentTransfer, SequenceTheorems, TLAPS

-----------------------------------------------------------------------------
(* The inductive invariant, one part for each side and one for the wire.   *)

Sending == phase \in {"start", "pump", "read", "seal", "wait", "rewind"}

\* A send under way is about the head of the queue, through its stream, and a
\* rewind under way answers a nack.
SendsHead ==
    /\ Sending => queue # <<>> /\ stream.salt > 0
    /\ stream.salt = 0 => stream = NoStream
    /\ phase = "rewind" => nackedSeq # None

SenderOK ==
    /\ queue \in Seq(File)
    /\ picked \in 0..NumFiles
    /\ stream \in [salt : Nat, nextSeq : Nat, read : SUBSET Nat]
    /\ phase \in Phases
    /\ pausedOnTransient \in BOOLEAN
    /\ retries \in Nat
    /\ record \in [salt : Nat, seq : Nat]
    /\ segmentNackSeq \in Seqs
    /\ nackedSeq \in Seqs
    /\ saltCount \in Nat
    /\ sent \subseteq File
    /\ failed \subseteq File
    /\ sealed \subseteq Nat \X Nat
    /\ SendsHead

\* A rewind is awaited exactly from the first record the receiver lacks, so
\* the position it comes with is within the parts that are kept.
AwaitsFirstMissing == awaitingRewindSeq \in {None, Len(receiver.parts)}

ReceiverOK ==
    /\ receiver \in [salt : Nat, segCount : Nat, parts : Seq(0..NumFiles)]
    /\ awaitingRewindSeq \in Seqs
    /\ retryCount \in Nat
    /\ parserNextSeq \in Seqs
    /\ displayed \in Seq(Seq(0..NumFiles))
    /\ aborted \in BOOLEAN
    /\ AwaitsFirstMissing

PairingOK ==
    /\ up \in BOOLEAN
    /\ senderOpen \in BOOLEAN
    /\ receiverOpen \in BOOLEAN
    /\ kickDue \in BOOLEAN
    /\ offerDue \in BOOLEAN
    /\ drops \in 0..MaxDrops
    /\ corrupted \in 0..MaxCorrupt

WireOK == toReceiver \in Seq(ToReceiver) /\ toSender \in Seq(ToSender)

Basic == SenderOK /\ ReceiverOK /\ PairingOK /\ WireOK

LEMMA BasicImpliesTypeOK == Basic => TypeOK
  BY DEF Basic, SenderOK, ReceiverOK, PairingOK, WireOK, TypeOK

LEMMA InitBasic == Init => Basic
<1> SUFFICES ASSUME Init PROVE Basic
  OBVIOUS
<1>1. stream = NoStream /\ receiver = NoReceiver /\ record = NoRecord
  BY DEF Init
<1>2. /\ stream \in [salt : Nat, nextSeq : Nat, read : SUBSET Nat]
      /\ record \in [salt : Nat, seq : Nat]
      /\ receiver \in [salt : Nat, segCount : Nat, parts : Seq(0..NumFiles)]
      /\ stream.salt = 0
      /\ receiver.parts = <<>>
  BY <1>1 DEF NoStream, NoReceiver, NoRecord
<1>3. SendsHead /\ AwaitsFirstMissing
  BY <1>2 DEF Init, SendsHead, AwaitsFirstMissing, Sending, None
<1>4. queue \in Seq(File) /\ toReceiver \in Seq(ToReceiver) /\ toSender \in Seq(ToSender)
  BY DEF Init
<1>5. displayed \in Seq(Seq(0..NumFiles))
  BY DEF Init
<1>6. /\ picked \in 0..NumFiles
      /\ drops \in 0..MaxDrops
      /\ corrupted \in 0..MaxCorrupt
  BY ConstantsAssumption DEF Init
<1>7. phase \in Phases /\ {None} \subseteq Seqs
  BY DEF Init, Phases, Seqs
<1>8. sent \subseteq File /\ failed \subseteq File /\ sealed \subseteq Nat \X Nat
  BY DEF Init
<1>9. SenderOK
  BY <1>2, <1>3, <1>4, <1>6, <1>7, <1>8 DEF Init, SenderOK
<1>10. ReceiverOK
  BY <1>2, <1>3, <1>5, <1>7 DEF Init, ReceiverOK
<1>11. PairingOK /\ WireOK
  BY <1>4, <1>6 DEF Init, PairingOK, WireOK
<1> QED
  BY <1>9, <1>10, <1>11 DEF Basic

-----------------------------------------------------------------------------
(* The wire: what is sent is a frame, what is taken off it was one.        *)

LEMMA TransmitTyped ==
  ASSUME WireOK, NEW m \in ToReceiver, Transmit(m)
  PROVE  toReceiver' \in Seq(ToReceiver)
  BY DEF WireOK, Transmit

LEMMA ReplyTyped ==
  ASSUME toSender \in Seq(ToSender), NEW m \in ToSender, Reply(m)
  PROVE  toSender' \in Seq(ToSender)
  BY DEF Reply

LEMMA TakenFromReceiver ==
  ASSUME WireOK, NEW type, TakeFromReceiver(type)
  PROVE  /\ Head(toSender) \in ToSender
         /\ Head(toSender).type = type
         /\ toSender' \in Seq(ToSender)
  BY DEF WireOK, TakeFromReceiver

LEMMA TakenFromSender ==
  ASSUME WireOK, NEW type, TakeFromSender(type)
  PROVE  /\ Head(toReceiver) \in ToReceiver
         /\ Head(toReceiver).type = type
         /\ toReceiver' \in Seq(ToReceiver)
  BY DEF WireOK, TakeFromSender

LEMMA ToSenderFields ==
  ASSUME NEW m \in ToSender, m.type \in {"segment-nack", "file-resume-offer"}
  PROVE  m.seq \in Nat
  BY DEF ToSender

LEMMA ToReceiverFields ==
  ASSUME NEW m \in ToReceiver
  PROVE  /\ m.type = "file-start" => m.segCount \in Nat /\ m.salt \in Nat
         /\ m.type = "record" =>
              m.seq \in Nat /\ m.salt \in Nat /\ m.file \in 0..NumFiles
         /\ m.type \in {"segment-rewind", "file-resume-ack"} =>
              m.seq \in Nat /\ m.salt \in Nat
  BY DEF ToReceiver

-----------------------------------------------------------------------------
(* Steps that several actions share.                                       *)

\* A rewound stream is one, and its salt is a real one.
LEMMA RewoundTyped ==
  ASSUME SenderOK, NEW seq \in Nat
  PROVE  /\ Rewound(stream, seq) \in [salt : Nat, nextSeq : Nat, read : SUBSET Nat]
         /\ Rewound(stream, seq).salt = saltCount + 1
         /\ Rewound(stream, seq).nextSeq = seq
<1>1. /\ stream \in [salt : Nat, nextSeq : Nat, read : SUBSET Nat]
      /\ saltCount + 1 \in Nat
  BY DEF SenderOK
<1> QED
  BY <1>1 DEF Rewound

LEMMA ConcludeTyped ==
  ASSUME SenderOK, Sending, NEW ok \in BOOLEAN, Conclude(ok)
  PROVE  /\ queue' \in Seq(File)
         /\ stream' \in [salt : Nat, nextSeq : Nat, read : SUBSET Nat]
         /\ stream' = NoStream /\ phase' = "loop"
         /\ sent' \subseteq File /\ failed' \subseteq File
<1>1. queue \in Seq(File) /\ queue # <<>>
  BY DEF SenderOK, SendsHead
<1>2. Head(queue) \in File /\ Tail(queue) \in Seq(File)
  BY <1>1
<1> QED
  BY <1>2 DEF Conclude, SenderOK, NoStream

\* What an action leaves alone keeps its part of the invariant.
LEMMA Untouched ==
  /\ SenderOK /\ UNCHANGED senderVars => SenderOK'
  /\ ReceiverOK /\ UNCHANGED receiverVars => ReceiverOK'
  /\ PairingOK /\ UNCHANGED pairingVars => PairingOK'
  /\ WireOK /\ UNCHANGED <<toReceiver, toSender>> => WireOK'
<1>1. SenderOK /\ UNCHANGED senderVars => SenderOK'
  BY DEF SenderOK, senderVars, SendsHead, Sending
<1>2. ReceiverOK /\ UNCHANGED receiverVars => ReceiverOK'
  BY DEF ReceiverOK, receiverVars, AwaitsFirstMissing
<1>3. PairingOK /\ UNCHANGED pairingVars => PairingOK'
  BY DEF PairingOK, pairingVars
<1>4. WireOK /\ UNCHANGED <<toReceiver, toSender>> => WireOK'
  BY DEF WireOK
<1> QED
  BY <1>1, <1>2, <1>3, <1>4

-----------------------------------------------------------------------------
(* The sender's part is preserved by every sender action.                  *)

LEMMA SenderActions ==
  ASSUME Basic, SenderStep \/ AckTimeout
  PROVE  SenderOK'
<1> USE ConstantsAssumption
<1>0. /\ SenderOK /\ WireOK
      /\ Sending => Head(queue) \in File /\ SegCount[Head(queue)] \in Nat
  BY DEF Basic, SenderOK, SendsHead
<1>1. CASE Pick
  <2>1. /\ queue' \in Seq(File) /\ queue' # <<>>
        /\ picked' \in 0..NumFiles
    BY <1>0, <1>1 DEF Pick, SenderOK, File
  <2>2. phase' \in Phases /\ phase' \in {"loop", phase}
    BY <1>0, <1>1 DEF Pick, SenderOK, Phases
  <2>3. SendsHead'
    BY <1>0, <1>1, <2>1, <2>2 DEF Pick, SenderOK, SendsHead, Sending
  <2> QED
    BY <1>0, <1>1, <2>1, <2>2, <2>3 DEF Pick, SenderOK
<1>2. CASE DrainLoop
  <2>1. /\ stream' = stream \/ stream' = Rewound(stream, 0)
        /\ saltCount' \in Nat
    BY <1>0, <1>2 DEF DrainLoop, SenderOK
  <2>2. stream' \in [salt : Nat, nextSeq : Nat, read : SUBSET Nat]
    BY <1>0, <2>1, RewoundTyped DEF SenderOK
  <2>3. phase' \in {"idle", "start"}
    BY <1>2 DEF DrainLoop
  <2>4. SendsHead'
    <3>1. stream.salt \in Nat /\ (stream.salt = 0 => stream = NoStream)
      BY <1>0 DEF SenderOK, SendsHead
    <3>2. CASE phase' = "idle"
      <4>1. stream' = stream
        BY <1>2, <3>2 DEF DrainLoop
      <4> QED
        BY <3>1, <3>2, <4>1 DEF SendsHead, Sending
    <3>3. CASE phase' = "start"
      <4>1. /\ queue' # <<>>
            /\ \/ stream' = stream /\ stream # NoStream
               \/ stream' = Rewound(stream, 0)
        BY <1>2, <3>3 DEF DrainLoop
      <4>2. stream'.salt > 0
        <5>1. saltCount \in Nat
          BY <1>0 DEF SenderOK
        <5>2. Rewound(stream, 0).salt = saltCount + 1
          BY <1>0, RewoundTyped
        <5> QED
          BY <3>1, <4>1, <5>1, <5>2
      <4> QED
        BY <3>3, <4>1, <4>2 DEF SendsHead, Sending
    <3> QED
      BY <2>3, <3>2, <3>3
  <2> QED
    BY <1>0, <1>2, <2>1, <2>2, <2>3, <2>4 DEF DrainLoop, SenderOK, Phases
<1>3. CASE SendFileStart
  <2>1. phase' \in {"idle", "pump"} /\ retries' \in Nat /\ segmentNackSeq' \in Seqs
    BY <1>0, <1>3 DEF SendFileStart, SenderOK, Seqs
  <2>2. SendsHead'
    BY <1>0, <1>3, <2>1 DEF SendFileStart, SenderOK, SendsHead, Sending
  <2> QED
    BY <1>0, <1>3, <2>1, <2>2 DEF SendFileStart, SenderOK, Phases
<1>4. CASE ReadSegment
  <2>1. stream.nextSeq \in Nat
    BY <1>0 DEF SenderOK
  <2>2. /\ stream' \in [salt : Nat, nextSeq : Nat, read : SUBSET Nat]
        /\ stream'.salt = stream.salt
    BY <1>0, <1>4, <2>1 DEF ReadSegment, SenderOK
  <2>3. record' \in [salt : Nat, seq : Nat]
    BY <1>4, <2>1 DEF ReadSegment
  <2>4. SendsHead'
    BY <1>0, <1>4, <2>2 DEF ReadSegment, SenderOK, SendsHead, Sending
  <2> QED
    BY <1>0, <1>4, <2>2, <2>3, <2>4 DEF ReadSegment, SenderOK, Phases
<1>14. CASE SealRecord
  <2>1. stream.salt \in Nat /\ record.seq \in Nat
    BY <1>0 DEF SenderOK
  <2>2. record' \in [salt : Nat, seq : Nat]
    BY <1>14, <2>1 DEF SealRecord
  <2>3. sealed' \subseteq Nat \X Nat
    BY <1>0, <1>14, <2>2 DEF SealRecord, SenderOK
  <2>4. SendsHead'
    BY <1>0, <1>14 DEF SealRecord, SenderOK, SendsHead, Sending
  <2> QED
    BY <1>0, <1>14, <2>2, <2>3, <2>4 DEF SealRecord, SenderOK, Phases
<1>5. CASE SendRecord
  <2>1. record.seq + 1 \in Nat
    BY <1>0 DEF SenderOK
  <2>2. /\ stream' \in [salt : Nat, nextSeq : Nat, read : SUBSET Nat]
        /\ stream'.salt = stream.salt
    BY <1>0, <1>5, <2>1 DEF SendRecord, SenderOK
  <2>3. phase' \in {"idle", "pump"} /\ pausedOnTransient' \in BOOLEAN
    BY <1>0, <1>5 DEF SendRecord, PauseOnTransient, SenderOK
  <2>4. SendsHead'
    <3>1. queue' = queue /\ queue # <<>> /\ stream.salt > 0
      BY <1>0, <1>5 DEF SendRecord, SenderOK, SendsHead, Sending
    <3>2. stream'.salt \in Nat /\ stream'.salt > 0
      BY <2>2, <3>1
    <3> QED
      BY <2>3, <3>1, <3>2 DEF SendsHead, Sending
  <2>5. record' \in [salt : Nat, seq : Nat]
    BY <1>5 DEF SendRecord, NoRecord
  <2> QED
    BY <1>0, <1>5, <2>2, <2>3, <2>4, <2>5 DEF SendRecord, SenderOK, Phases
<1>6. CASE SendFileEnd
  <2>1. /\ phase' \in {"idle", "wait", "rewind"}
        /\ pausedOnTransient' \in BOOLEAN
        /\ segmentNackSeq' \in Seqs /\ nackedSeq' \in Seqs
        /\ phase' = "rewind" => nackedSeq' # None
    BY <1>0, <1>6 DEF SendFileEnd, PauseOnTransient, AfterFileEnd, SenderOK, Seqs
  <2>2. SendsHead'
    BY <1>0, <1>6, <2>1 DEF SendFileEnd, SenderOK, SendsHead, Sending
  <2> QED
    BY <1>0, <1>6, <2>1, <2>2 DEF SendFileEnd, SenderOK, Phases
<1>7. CASE RewindTail
  <2>1. nackedSeq \in Nat /\ Sending /\ nackedSeq' \in Seqs
    BY <1>0, <1>7 DEF RewindTail, SenderOK, SendsHead, Sending, Seqs
  <2>2. CASE Conclude(FALSE) /\ UNCHANGED <<pausedOnTransient, retries, saltCount>>
    BY <1>0, <1>7, <2>1, <2>2, ConcludeTyped
    DEF RewindTail, SenderOK, SendsHead, Sending, Phases, NoStream
  <2>3. CASE /\ stream' = Rewound(stream, nackedSeq)
             /\ saltCount' = saltCount + 1
             /\ \/ PauseOnTransient /\ UNCHANGED retries
                \/ /\ retries' = retries + 1
                   /\ phase' = "pump"
                   /\ UNCHANGED pausedOnTransient
             /\ UNCHANGED <<queue, sent, failed>>
    <3>1. /\ saltCount' \in Nat /\ retries' \in Nat
          /\ pausedOnTransient' \in BOOLEAN /\ phase' \in {"idle", "pump"}
          /\ queue # <<>>
      <4>1. saltCount' \in Nat /\ retries' \in Nat
        BY <1>0, <2>3 DEF SenderOK
      <4>2. pausedOnTransient' \in BOOLEAN /\ phase' \in {"idle", "pump"}
        BY <1>0, <2>3 DEF PauseOnTransient, SenderOK
      <4>3. queue # <<>>
        BY <1>0, <2>1 DEF SenderOK, SendsHead
      <4> QED
        BY <4>1, <4>2, <4>3
    <3>2. /\ stream' \in [salt : Nat, nextSeq : Nat, read : SUBSET Nat]
          /\ stream'.salt > 0
      <4>1. /\ stream' \in [salt : Nat, nextSeq : Nat, read : SUBSET Nat]
            /\ stream'.salt = saltCount + 1
        BY <1>0, <2>1, <2>3, RewoundTyped
      <4>2. saltCount \in Nat
        BY <1>0 DEF SenderOK
      <4> QED
        BY <4>1, <4>2
    <3>3. SendsHead'
      BY <2>3, <3>1, <3>2 DEF SendsHead, Sending
    <3>4. UNCHANGED <<queue, sent, failed, picked, record, segmentNackSeq,
                      sealed>>
      BY <1>7, <2>3 DEF RewindTail
    <3> QED
      BY <1>0, <2>1, <3>1, <3>2, <3>3, <3>4 DEF SenderOK, Phases
  <2> QED
    BY <1>7, <2>2, <2>3 DEF RewindTail
<1>8. CASE AckTimeout
  <2>1. Sending /\ Conclude(FALSE)
    BY <1>8 DEF AckTimeout, Sending
  <2> QED
    BY <1>0, <1>8, <2>1, ConcludeTyped
    DEF AckTimeout, SenderOK, SendsHead, Sending, Phases, NoStream
<1>9. CASE ReceiveFileAck
  <2>1. CASE phase = "wait" /\ Conclude(1..SegCount[Head(queue)] \subseteq stream.read)
    BY <1>0, <1>9, <2>1, ConcludeTyped
    DEF ReceiveFileAck, SenderOK, SendsHead, Sending, Phases, NoStream
  <2>2. CASE UNCHANGED <<queue, stream, phase, sent, failed>>
    BY <1>0, <1>9, <2>2 DEF ReceiveFileAck, SenderOK, SendsHead, Sending
  <2> QED
    BY <1>9, <2>1, <2>2 DEF ReceiveFileAck
<1>10. CASE ReceiveFileNack
  <2>1. CASE phase = "wait" /\ Conclude(FALSE)
    BY <1>0, <1>10, <2>1, ConcludeTyped
    DEF ReceiveFileNack, SenderOK, SendsHead, Sending, Phases, NoStream
  <2>2. CASE UNCHANGED <<queue, stream, phase, sent, failed>>
    BY <1>0, <1>10, <2>2 DEF ReceiveFileNack, SenderOK, SendsHead, Sending
  <2> QED
    BY <1>10, <2>1, <2>2 DEF ReceiveFileNack
<1>11. CASE ReceiveSegmentNack
  <2>1. Head(toSender).seq \in Nat
    BY <1>0, <1>11, TakenFromReceiver, ToSenderFields DEF ReceiveSegmentNack
  <2>2. /\ segmentNackSeq' \in Seqs /\ nackedSeq' \in Seqs
        /\ phase' \in {phase, "rewind"}
        /\ phase' # phase => phase = "wait"
        /\ phase' = "rewind" => nackedSeq' # None
    BY <1>0, <1>11, <2>1
    DEF ReceiveSegmentNack, SenderOK, SendsHead, Seqs, None
  <2>3. SendsHead'
    BY <1>0, <1>11, <2>2 DEF ReceiveSegmentNack, SenderOK, SendsHead, Sending
  <2> QED
    BY <1>0, <1>11, <2>2, <2>3 DEF ReceiveSegmentNack, SenderOK, Phases
<1>12. CASE ReceiveResumeOffer
  <2>1. Head(toSender).seq \in Nat
    BY <1>0, <1>12, TakenFromReceiver, ToSenderFields DEF ReceiveResumeOffer
  <2>2. /\ \/ UNCHANGED <<stream, saltCount>>
           \/ /\ stream' = Rewound(stream, Head(toSender).seq)
              /\ saltCount' = saltCount + 1
              /\ queue # <<>>
        /\ phase' \in {phase, "idle", "loop", "pump"}
        /\ phase' = "pump" /\ phase # "pump" =>
             queue # <<>> /\ stream' = Rewound(stream, Head(toSender).seq)
        /\ pausedOnTransient' \in BOOLEAN
        /\ retries' \in Nat
        /\ segmentNackSeq' \in Seqs
    <3>1. CASE UNCHANGED <<stream, saltCount, retries, segmentNackSeq>>
      BY <1>0, <1>12, <3>1 DEF ReceiveResumeOffer, PauseOnTransient, SenderOK
    <3>2. CASE /\ queue # <<>>
               /\ stream' = Rewound(stream, Head(toSender).seq)
               /\ saltCount' = saltCount + 1
      <4>1. phase' \in {phase, "idle", "loop", "pump"} /\ retries' \in Nat
        BY <1>0, <1>12 DEF ReceiveResumeOffer, PauseOnTransient, SenderOK
      <4>2. pausedOnTransient' \in BOOLEAN
        BY <1>0, <1>12 DEF ReceiveResumeOffer, PauseOnTransient, SenderOK
      <4>3. segmentNackSeq' \in Seqs
        BY <1>0, <1>12 DEF ReceiveResumeOffer, SenderOK, Seqs
      <4> QED
        BY <3>2, <4>1, <4>2, <4>3
    <3> QED
      BY <1>12, <3>1, <3>2 DEF ReceiveResumeOffer
  <2>3. /\ stream' \in [salt : Nat, nextSeq : Nat, read : SUBSET Nat]
        /\ saltCount' \in Nat
        /\ stream' = stream \/ stream'.salt > 0
        /\ phase' = "pump" /\ phase # "pump" => stream'.salt > 0
    <3>1. /\ saltCount \in Nat
          /\ stream \in [salt : Nat, nextSeq : Nat, read : SUBSET Nat]
      BY <1>0 DEF SenderOK
    <3>2. CASE stream' = stream /\ saltCount' = saltCount
      BY <2>2, <3>1, <3>2, <2>1, <1>0, RewoundTyped
    <3>3. CASE /\ stream' = Rewound(stream, Head(toSender).seq)
               /\ saltCount' = saltCount + 1
      <4>1. /\ stream' \in [salt : Nat, nextSeq : Nat, read : SUBSET Nat]
            /\ stream'.salt = saltCount + 1
        BY <1>0, <2>1, <3>3, RewoundTyped
      <4> QED
        BY <3>1, <3>3, <4>1
    <3> QED
      BY <2>2, <3>2, <3>3
  <2>4. SendsHead'
    BY <1>0, <1>12, <2>2, <2>3
    DEF ReceiveResumeOffer, SenderOK, SendsHead, Sending
  <2> QED
    BY <1>0, <1>12, <2>2, <2>3, <2>4 DEF ReceiveResumeOffer, SenderOK, Phases
<1>13. CASE RecoveryKick
  <2>1. phase' \in {phase, "loop"}
    BY <1>13 DEF RecoveryKick
  <2>2. SendsHead'
    BY <1>0, <1>13, <2>1 DEF RecoveryKick, SenderOK, SendsHead, Sending
  <2> QED
    BY <1>0, <1>13, <2>1, <2>2 DEF RecoveryKick, SenderOK, Phases
<1> QED
  BY <1>1, <1>2, <1>3, <1>4, <1>5, <1>6, <1>7, <1>8, <1>9, <1>10, <1>11,
     <1>12, <1>13, <1>14 DEF SenderStep

-----------------------------------------------------------------------------
(* The receiver's part is preserved by every receiver action.              *)

\* Nacking the first missing record, or giving the transfer up.
LEMMA RequestRewindTyped ==
  ASSUME ReceiverOK, toSender \in Seq(ToSender), RequestRewind
  PROVE  /\ receiver' \in [salt : Nat, segCount : Nat, parts : Seq(0..NumFiles)]
         /\ receiver' \in {receiver, NoReceiver}
         /\ awaitingRewindSeq' \in Seqs
         /\ AwaitsFirstMissing'
         /\ retryCount' \in Nat
         /\ toSender' \in Seq(ToSender)
<1>1. /\ Len(receiver.parts) \in Nat
      /\ retryCount' \in Nat
      /\ receiver' \in {receiver, NoReceiver}
  BY DEF ReceiverOK, RequestRewind
<1>2. receiver' \in [salt : Nat, segCount : Nat, parts : Seq(0..NumFiles)]
  <2>1. NoReceiver \in [salt : Nat, segCount : Nat, parts : Seq(0..NumFiles)]
    BY DEF NoReceiver
  <2> QED
    BY <1>1, <2>1 DEF ReceiverOK
<1>3. awaitingRewindSeq' \in Seqs /\ AwaitsFirstMissing'
  BY <1>1 DEF RequestRewind, Seqs, AwaitsFirstMissing
<1>4. toSender' \in Seq(ToSender)
  BY <1>1, ReplyTyped DEF RequestRewind, ToSender
<1> QED
  BY <1>1, <1>2, <1>3, <1>4

\* Re-keying keeps the parts before seq.
LEMMA RekeyedTyped ==
  ASSUME ReceiverOK, NEW salt \in Nat, NEW seq \in Nat, seq <= Len(receiver.parts)
  PROVE  /\ Rekeyed(receiver, salt, seq) \in
              [salt : Nat, segCount : Nat, parts : Seq(0..NumFiles)]
         /\ Rekeyed(receiver, salt, seq).segCount = receiver.segCount
         /\ Rekeyed(receiver, salt, seq).parts = SubSeq(receiver.parts, 1, seq)
         /\ Len(Rekeyed(receiver, salt, seq).parts) = seq
<1>1. receiver \in [salt : Nat, segCount : Nat, parts : Seq(0..NumFiles)]
  BY DEF ReceiverOK
<1>2. receiver.parts \in Seq(0..NumFiles)
  BY <1>1
<1>3. /\ SubSeq(receiver.parts, 1, seq) \in Seq(0..NumFiles)
      /\ Len(SubSeq(receiver.parts, 1, seq)) = seq
  <2>1. ASSUME NEW i \in 1..seq PROVE receiver.parts[i] \in 0..NumFiles
    <3>1. i \in 1..Len(receiver.parts)
      BY <1>2
    <3> QED
      BY <1>2, <3>1, ElementOfSeq
  <2>2. /\ SubSeq(receiver.parts, 1, seq) \in Seq(0..NumFiles)
        /\ Len(SubSeq(receiver.parts, 1, seq)) = IF 1 <= seq THEN seq - 1 + 1 ELSE 0
    BY <2>1, SubSeqProperties
  <2> QED
    BY <2>2
<1> QED
  BY <1>1, <1>3 DEF Rekeyed

\* A record as it arrives, damaged or not, is still a record.
LEMMA ArrivalTyped ==
  ASSUME Basic, TakeFromSender("record"), NEW m \in Arrivals
  PROVE  m.seq \in Nat /\ m.salt \in Nat /\ m.file \in 0..NumFiles
<1>1. /\ Head(toReceiver) \in ToReceiver
      /\ Head(toReceiver).type = "record"
  BY TakenFromSender DEF Basic
<1>2. Head(toReceiver) \in [type : {"record"}, seq : Nat, salt : Nat, file : 0..NumFiles]
  BY <1>1 DEF ToReceiver
<1>3. m = Head(toReceiver) \/ m = Damaged(Head(toReceiver))
  BY DEF Arrivals
<1>4. CASE m = Head(toReceiver)
  BY <1>2, <1>4
<1>5. CASE m = Damaged(Head(toReceiver))
  <2>1. m.seq = Head(toReceiver).seq /\ m.salt = 0 /\ m.file = 0
    BY <1>2, <1>5 DEF Damaged
  <2>2. 0 \in 0..NumFiles
    BY ConstantsAssumption
  <2> QED
    BY <1>2, <2>1, <2>2
<1> QED
  BY <1>3, <1>4, <1>5

LEMMA ReceiverActions ==
  ASSUME Basic, ReceiverStep
  PROVE  ReceiverOK'
<1>0. ReceiverOK /\ WireOK /\ toSender \in Seq(ToSender)
  BY DEF Basic, WireOK
<1>1. CASE ReceiveFileStart
  <2>1. Head(toReceiver).segCount \in Nat /\ Head(toReceiver).salt \in Nat
    BY <1>0, <1>1, TakenFromSender, ToReceiverFields DEF ReceiveFileStart
  <2>2. receiver' \in [salt : Nat, segCount : Nat, parts : Seq(0..NumFiles)]
    BY <1>1, <2>1 DEF ReceiveFileStart
  <2>3. AwaitsFirstMissing'
    BY <1>1 DEF ReceiveFileStart, AwaitsFirstMissing
  <2> QED
    BY <1>0, <1>1, <2>2, <2>3 DEF ReceiveFileStart, ReceiverOK, Seqs
<1>2. CASE ReceiveRecord
  <2>1. PICK m \in Arrivals :
          \/ NotListening /\ UNCHANGED <<receiver, awaitingRewindSeq, retryCount, toSender>>
          \/ /\ ~NotListening /\ Opens(receiver, m)
             /\ receiver' = [receiver EXCEPT !.parts = Append(@, m.file)]
             /\ UNCHANGED <<awaitingRewindSeq, retryCount, toSender>>
          \/ ~NotListening /\ ~Opens(receiver, m) /\ RequestRewind
    BY <1>2 DEF ReceiveRecord
  <2>2. m.file \in 0..NumFiles /\ parserNextSeq' \in Seqs
    <3>1. TakeFromSender("record") /\ parserNextSeq' = Head(toReceiver).seq + 1
      BY <1>2 DEF ReceiveRecord
    <3>2. Head(toReceiver).seq \in Nat
      BY <1>0, <3>1, TakenFromSender, ToReceiverFields
    <3> QED
      BY <3>1, <3>2, ArrivalTyped DEF Seqs
  <2>3. CASE UNCHANGED <<receiver, awaitingRewindSeq, retryCount>>
    BY <1>0, <1>2, <2>2, <2>3 DEF ReceiveRecord, ReceiverOK, AwaitsFirstMissing
  <2>4. CASE /\ ~NotListening
             /\ receiver' = [receiver EXCEPT !.parts = Append(@, m.file)]
             /\ UNCHANGED <<awaitingRewindSeq, retryCount>>
    <3>1. receiver' \in [salt : Nat, segCount : Nat, parts : Seq(0..NumFiles)]
      <4>1. /\ receiver \in [salt : Nat, segCount : Nat, parts : Seq(0..NumFiles)]
            /\ Append(receiver.parts, m.file) \in Seq(0..NumFiles)
        BY <1>0, <2>2 DEF ReceiverOK
      <4> QED
        BY <2>4, <4>1
    <3>2. AwaitsFirstMissing'
      BY <2>4 DEF NotListening, AwaitsFirstMissing
    <3> QED
      BY <1>0, <1>2, <2>2, <2>4, <3>1, <3>2 DEF ReceiveRecord, ReceiverOK
  <2>5. CASE RequestRewind
    BY <1>0, <1>2, <2>2, <2>5, RequestRewindTyped DEF ReceiveRecord, ReceiverOK
  <2> QED
    BY <2>1, <2>3, <2>4, <2>5
<1>3. CASE AbortAbusiveStream
  BY <1>0, <1>3 DEF AbortAbusiveStream, ReceiverOK, AwaitsFirstMissing, Seqs
<1>4. CASE ReceiveSegmentRewind
  <2>1. Head(toReceiver).seq \in Nat /\ Head(toReceiver).salt \in Nat
    BY <1>0, <1>4, TakenFromSender, ToReceiverFields DEF ReceiveSegmentRewind
  <2>2. CASE /\ Head(toReceiver).seq = awaitingRewindSeq
             /\ receiver' = Rekeyed(receiver, Head(toReceiver).salt, Head(toReceiver).seq)
             /\ awaitingRewindSeq' = None
    <3>1. Head(toReceiver).seq <= Len(receiver.parts)
      <4>1. awaitingRewindSeq = Len(receiver.parts)
        BY <1>0, <2>1, <2>2 DEF ReceiverOK, AwaitsFirstMissing, None
      <4> QED
        BY <1>0, <2>2, <4>1 DEF ReceiverOK
    <3>2. receiver' \in [salt : Nat, segCount : Nat, parts : Seq(0..NumFiles)]
      BY <1>0, <2>1, <2>2, <3>1, RekeyedTyped
    <3> QED
      BY <1>0, <1>4, <2>2, <3>2
      DEF ReceiveSegmentRewind, ReceiverOK, AwaitsFirstMissing, Seqs
  <2>3. CASE UNCHANGED <<receiver, awaitingRewindSeq>>
    BY <1>0, <1>4, <2>3 DEF ReceiveSegmentRewind, ReceiverOK, AwaitsFirstMissing
  <2> QED
    BY <1>4, <2>2, <2>3 DEF ReceiveSegmentRewind
<1>5. CASE ReceiveFileEnd
  <2>1. CASE /\ UNCHANGED <<receiver, awaitingRewindSeq, retryCount, displayed>>
    BY <1>0, <1>5, <2>1 DEF ReceiveFileEnd, ReceiverOK, AwaitsFirstMissing
  <2>2. CASE RequestRewind /\ UNCHANGED displayed
    BY <1>0, <1>5, <2>2, RequestRewindTyped DEF ReceiveFileEnd, ReceiverOK
  <2>3. CASE /\ ~NotListening
             /\ receiver' = NoReceiver
             /\ displayed' = Append(displayed, receiver.parts)
             /\ UNCHANGED <<awaitingRewindSeq, retryCount>>
    <3>1. displayed' \in Seq(Seq(0..NumFiles))
      BY <1>0, <2>3 DEF ReceiverOK
    <3>2. receiver' \in [salt : Nat, segCount : Nat, parts : Seq(0..NumFiles)]
      BY <2>3 DEF NoReceiver
    <3>3. AwaitsFirstMissing'
      BY <2>3 DEF NotListening, AwaitsFirstMissing
    <3> QED
      BY <1>0, <1>5, <2>3, <3>1, <3>2, <3>3 DEF ReceiveFileEnd, ReceiverOK
  <2> QED
    BY <1>5, <2>1, <2>2, <2>3 DEF ReceiveFileEnd
<1>6. CASE ReceiveResumeAck
  <2>1. Head(toReceiver).seq \in Nat /\ Head(toReceiver).salt \in Nat
    BY <1>0, <1>6, TakenFromSender, ToReceiverFields DEF ReceiveResumeAck
  <2>2. CASE receiver' = NoReceiver /\ awaitingRewindSeq' = None /\ UNCHANGED parserNextSeq
    <3>1. receiver' \in [salt : Nat, segCount : Nat, parts : Seq(0..NumFiles)]
      BY <2>2 DEF NoReceiver
    <3> QED
      BY <1>0, <1>6, <2>2, <3>1
      DEF ReceiveResumeAck, ReceiverOK, AwaitsFirstMissing, Seqs
  <2>3. CASE /\ Head(toReceiver).seq <= Len(receiver.parts)
             /\ receiver' = Rekeyed(receiver, Head(toReceiver).salt, Head(toReceiver).seq)
             /\ awaitingRewindSeq' = None
             /\ parserNextSeq' = Head(toReceiver).seq
    <3>1. receiver' \in [salt : Nat, segCount : Nat, parts : Seq(0..NumFiles)]
      BY <1>0, <2>1, <2>3, RekeyedTyped
    <3> QED
      BY <1>0, <1>6, <2>1, <2>3, <3>1
      DEF ReceiveResumeAck, ReceiverOK, AwaitsFirstMissing, Seqs
  <2>4. CASE UNCHANGED <<receiver, awaitingRewindSeq, parserNextSeq>>
    BY <1>0, <1>6, <2>4 DEF ReceiveResumeAck, ReceiverOK, AwaitsFirstMissing
  <2> QED
    BY <1>6, <2>2, <2>3, <2>4 DEF ReceiveResumeAck
<1>7. CASE OfferResume
  BY <1>0, <1>7, Untouched DEF OfferResume
<1> QED
  BY <1>1, <1>2, <1>3, <1>4, <1>5, <1>6, <1>7 DEF ReceiverStep

-----------------------------------------------------------------------------
(* The pairing and the wire are preserved by every action.                 *)

LEMMA PairingActions ==
  ASSUME Basic, Next
  PROVE  PairingOK'
<1> USE ConstantsAssumption DEF Basic
<1>1. CASE RecoveryKick
  BY <1>1 DEF RecoveryKick, PairingOK
<1>2. CASE ReceiveRecord
  <2>1. corrupted' \in {corrupted, corrupted + 1}
        /\ (corrupted' # corrupted => corrupted < MaxCorrupt)
    <3>1. PICK m \in Arrivals :
            corrupted' = IF m = Head(toReceiver) THEN corrupted ELSE corrupted + 1
      BY <1>2 DEF ReceiveRecord
    <3> QED
      BY <3>1 DEF Arrivals
  <2>2. corrupted' \in 0..MaxCorrupt
    BY <2>1 DEF PairingOK
  <2> QED
    BY <1>2, <2>2 DEF ReceiveRecord, PairingOK
<1>3. CASE AbortAbusiveStream
  BY <1>3 DEF AbortAbusiveStream, PairingOK
<1>4. CASE OfferResume
  BY <1>4 DEF OfferResume, PairingOK
<1>5. CASE Drop
  <2>1. drops' \in 0..MaxDrops
    BY <1>5 DEF Drop, PairingOK
  <2> QED
    BY <1>5, <2>1 DEF Drop, PairingOK
<1>6. CASE SenderNotices \/ ReceiverNotices \/ Reconnect
  BY <1>6 DEF SenderNotices, ReceiverNotices, Reconnect, PairingOK
<1>7. CASE UNCHANGED pairingVars
  BY <1>7, Untouched
<1>8. CASE Pick \/ DrainLoop \/ SendFileStart \/ ReadSegment
           \/ SealRecord \/ SendRecord
           \/ SendFileEnd \/ RewindTail \/ AckTimeout
  BY <1>7, <1>8 DEF Pick, DrainLoop, SendFileStart, ReadSegment, SealRecord, SendRecord,
     SendFileEnd, RewindTail, AckTimeout
<1>9. CASE ReceiveFileAck \/ ReceiveFileNack \/ ReceiveSegmentNack
           \/ ReceiveResumeOffer
  BY <1>7, <1>9 DEF ReceiveFileAck, ReceiveFileNack, ReceiveSegmentNack,
     ReceiveResumeOffer
<1>10. CASE ReceiveFileStart \/ ReceiveSegmentRewind \/ ReceiveFileEnd
            \/ ReceiveResumeAck
  BY <1>7, <1>10 DEF ReceiveFileStart, ReceiveSegmentRewind, ReceiveFileEnd,
     ReceiveResumeAck
<1> QED
  BY <1>1, <1>2, <1>3, <1>4, <1>5, <1>6, <1>8, <1>9, <1>10
  DEF Next, PromptNext, SenderStep, ReceiverStep, PairingStep

LEMMA WireActions ==
  ASSUME Basic, Next
  PROVE  WireOK'
<1> USE ConstantsAssumption
<1>0. SenderOK /\ ReceiverOK /\ WireOK
  BY DEF Basic
<1>1. CASE UNCHANGED <<toReceiver, toSender>>
  BY <1>0, <1>1, Untouched
<1>2. CASE Pick \/ DrainLoop \/ ReadSegment \/ SealRecord \/ AckTimeout \/ RecoveryKick
           \/ SenderNotices \/ ReceiverNotices \/ Reconnect
  BY <1>1, <1>2 DEF Pick, DrainLoop, ReadSegment, SealRecord, AckTimeout, RecoveryKick,
     SenderNotices, ReceiverNotices, Reconnect
<1>3. CASE SendFileStart
  <2>1. CASE UNCHANGED toReceiver
    BY <1>0, <1>3, <2>1 DEF SendFileStart, WireOK
  <2>2. CASE Transmit([type |-> "file-start", salt |-> stream.salt,
                       segCount |-> SegCount[Head(queue)]])
    <3>1. SegCount[Head(queue)] \in Nat /\ stream.salt \in Nat
      BY <1>0, <1>3 DEF SendFileStart, SenderOK, SendsHead, Sending
    <3>2. [type |-> "file-start", salt |-> stream.salt,
           segCount |-> SegCount[Head(queue)]] \in ToReceiver
      BY <3>1 DEF ToReceiver
    <3> QED
      BY <1>0, <1>3, <2>2, <3>2, TransmitTyped DEF SendFileStart, WireOK
  <2> QED
    BY <1>3, <2>1, <2>2 DEF SendFileStart
<1>4. CASE SendRecord
  <2>1. CASE UNCHANGED toReceiver
    BY <1>0, <1>4, <2>1 DEF SendRecord, WireOK
  <2>2. CASE Transmit([type |-> "record", seq |-> record.seq,
                       salt |-> record.salt, file |-> Head(queue)])
    <3>1. Head(queue) \in 0..NumFiles
      <4>1. Head(queue) \in File
        BY <1>0, <1>4 DEF SendRecord, SenderOK, SendsHead, Sending
      <4> QED
        BY <4>1 DEF File
    <3>2. [type |-> "record", seq |-> record.seq, salt |-> record.salt,
           file |-> Head(queue)] \in ToReceiver
      BY <1>0, <3>1 DEF ToReceiver, SenderOK
    <3> QED
      BY <1>0, <1>4, <2>2, <3>2, TransmitTyped DEF SendRecord, WireOK
  <2> QED
    BY <1>4, <2>1, <2>2 DEF SendRecord
<1>5. CASE SendFileEnd
  <2>1. [type |-> "file-end"] \in ToReceiver
    BY DEF ToReceiver
  <2> QED
    BY <1>0, <1>5, <2>1, TransmitTyped DEF SendFileEnd, WireOK
<1>6. CASE RewindTail
  <2>1. CASE UNCHANGED toReceiver
    BY <1>0, <1>6, <2>1 DEF RewindTail, WireOK
  <2>2. CASE /\ stream' = Rewound(stream, nackedSeq)
             /\ Transmit([type |-> "segment-rewind", seq |-> nackedSeq,
                          salt |-> stream'.salt])
    <3>1. nackedSeq \in Nat
      BY <1>0, <1>6 DEF RewindTail, SenderOK, SendsHead, Seqs
    <3>2. stream'.salt \in Nat
      BY <1>0, <2>2, <3>1, RewoundTyped DEF SenderOK
    <3>3. [type |-> "segment-rewind", seq |-> nackedSeq, salt |-> stream'.salt]
            \in ToReceiver
      BY <3>1, <3>2 DEF ToReceiver
    <3> QED
      BY <1>0, <1>6, <2>2, <3>3, TransmitTyped DEF RewindTail, WireOK
  <2> QED
    BY <1>6, <2>1, <2>2 DEF RewindTail
<1>7. CASE ReceiveFileAck \/ ReceiveFileNack \/ ReceiveSegmentNack
  BY <1>0, <1>7, TakenFromReceiver
  DEF ReceiveFileAck, ReceiveFileNack, ReceiveSegmentNack, WireOK
<1>8. CASE ReceiveResumeOffer
  <2>1. Head(toSender).seq \in Nat /\ toSender' \in Seq(ToSender)
    BY <1>0, <1>8, TakenFromReceiver, ToSenderFields DEF ReceiveResumeOffer
  <2>2. CASE Transmit([type |-> "file-resume-ack", seq |-> 0, salt |-> 0])
    <3>1. [type |-> "file-resume-ack", seq |-> 0, salt |-> 0] \in ToReceiver
      BY DEF ToReceiver
    <3> QED
      BY <1>0, <2>1, <2>2, <3>1, TransmitTyped DEF WireOK
  <2>3. CASE /\ stream' = Rewound(stream, Head(toSender).seq)
             /\ Transmit([type |-> "file-resume-ack", seq |-> Head(toSender).seq,
                          salt |-> stream'.salt])
    <3>1. stream'.salt \in Nat
      BY <1>0, <2>1, <2>3, RewoundTyped DEF SenderOK
    <3>2. [type |-> "file-resume-ack", seq |-> Head(toSender).seq,
           salt |-> stream'.salt] \in ToReceiver
      BY <2>1, <3>1 DEF ToReceiver
    <3> QED
      BY <1>0, <2>1, <2>3, <3>2, TransmitTyped DEF WireOK
  <2> QED
    BY <1>8, <2>2, <2>3 DEF ReceiveResumeOffer
<1>9. CASE ReceiveFileStart \/ ReceiveSegmentRewind \/ ReceiveResumeAck
  BY <1>0, <1>9, TakenFromSender
  DEF ReceiveFileStart, ReceiveSegmentRewind, ReceiveResumeAck, WireOK
<1>10. CASE ReceiveRecord
  <2>1. toReceiver' \in Seq(ToReceiver)
    BY <1>0, <1>10, TakenFromSender DEF ReceiveRecord
  <2>2. UNCHANGED toSender \/ RequestRewind
    BY <1>10 DEF ReceiveRecord
  <2> QED
    BY <1>0, <2>1, <2>2, RequestRewindTyped DEF WireOK
<1>11. CASE AbortAbusiveStream
  BY <1>0, <1>11, TakenFromSender DEF AbortAbusiveStream, WireOK
<1>12. CASE ReceiveFileEnd
  <2>1. toReceiver' \in Seq(ToReceiver)
    BY <1>0, <1>12, TakenFromSender DEF ReceiveFileEnd
  <2>2. [type |-> "file-ack", parts |-> receiver.parts] \in ToSender
    BY <1>0 DEF ReceiverOK, ToSender
  <2>3. \/ UNCHANGED toSender \/ RequestRewind
        \/ Reply([type |-> "file-ack", parts |-> receiver.parts])
    BY <1>12 DEF ReceiveFileEnd
  <2> QED
    BY <1>0, <2>1, <2>2, <2>3, RequestRewindTyped, ReplyTyped DEF WireOK
<1>13. CASE OfferResume
  <2>1. [type |-> "file-resume-offer", seq |-> Len(receiver.parts)] \in ToSender
    BY <1>0 DEF ReceiverOK, ToSender
  <2> QED
    BY <1>0, <1>13, <2>1, ReplyTyped DEF OfferResume, WireOK
<1>14. CASE Drop
  BY <1>14 DEF Drop, WireOK
<1> QED
  BY <1>2, <1>3, <1>4, <1>5, <1>6, <1>7, <1>8, <1>9, <1>10, <1>11, <1>12,
     <1>13, <1>14 DEF Next, PromptNext, SenderStep, ReceiverStep, PairingStep

LEMMA StepBasic == Basic /\ [Next]_vars => Basic'
<1> SUFFICES ASSUME Basic, [Next]_vars PROVE Basic'
  OBVIOUS
<1>1. CASE UNCHANGED vars
  BY <1>1, Untouched DEF vars, Basic
<1>2. CASE Next
  <2>1. SenderOK'
    <3>1. CASE SenderStep \/ AckTimeout
      BY <3>1, SenderActions
    <3>2. CASE UNCHANGED senderVars
      BY <3>2, Untouched DEF Basic
    <3>3. ReceiverStep \/ PairingStep => UNCHANGED senderVars
      BY DEF ReceiverStep, PairingStep, ReceiveFileStart, ReceiveRecord,
         AbortAbusiveStream, ReceiveSegmentRewind, ReceiveFileEnd,
         ReceiveResumeAck, OfferResume, Drop, SenderNotices, ReceiverNotices,
         Reconnect
    <3> QED
      BY <1>2, <3>1, <3>2, <3>3 DEF Next, PromptNext
  <2>2. ReceiverOK'
    <3>1. CASE ReceiverStep
      BY <3>1, ReceiverActions
    <3>2. CASE UNCHANGED receiverVars
      BY <3>2, Untouched DEF Basic
    <3>3. SenderStep \/ AckTimeout \/ PairingStep => UNCHANGED receiverVars
      BY DEF SenderStep, AckTimeout, PairingStep, Pick, DrainLoop,
         SendFileStart, ReadSegment, SealRecord, SendRecord, SendFileEnd, RewindTail,
         ReceiveFileAck, ReceiveFileNack, ReceiveSegmentNack,
         ReceiveResumeOffer, RecoveryKick, Drop, SenderNotices,
         ReceiverNotices, Reconnect
    <3> QED
      BY <1>2, <3>1, <3>2, <3>3 DEF Next, PromptNext
  <2> QED
    BY <1>2, <2>1, <2>2, PairingActions, WireActions DEF Basic
<1> QED
  BY <1>1, <1>2

\* Every state the transfer reaches is well typed, for every number of files,
\* segments, retries, drops and corruptions.
THEOREM TypeCorrect == Spec => []TypeOK
<1>1. Init => Basic
  BY InitBasic
<1>2. Basic /\ [Next]_vars => Basic'
  BY StepBasic
<1>3. Basic => TypeOK
  BY BasicImpliesTypeOK
<1> QED
  BY <1>1, <1>2, <1>3, PTL DEF Spec

-----------------------------------------------------------------------------
(* No nonce is used twice.                                                 *)

\* Every salt in use was drawn, and no salt is 0.
SaltsDrawn ==
    /\ stream.salt <= saltCount
    /\ \A p \in sealed : 0 < p[1] /\ p[1] <= saltCount

\* What was sealed under the stream's current salt lies before its position;
\* while next() is suspended, before the record it reads, and not after the
\* record it seals.
SealedBehind ==
    \A p \in sealed : p[1] = stream.salt =>
        IF phase = "seal" THEN p[2] <= record.seq
        ELSE IF phase = "read" THEN p[2] < record.seq
        ELSE p[2] < stream.nextSeq

NonceInv == SaltsDrawn /\ SealedBehind

LEMMA InitNonce == Init => NonceInv
  BY DEF Init, NonceInv, SaltsDrawn, SealedBehind, NoStream

\* A step that seals nothing and either keeps the stream, or forgets it, or
\* rewinds it under a fresh salt, preserves the invariant.
LEMMA NonceKept ==
  ASSUME SenderOK, NonceInv, UNCHANGED sealed,
         saltCount' \in Nat, saltCount <= saltCount',
         \/ /\ UNCHANGED <<stream, record>>
            /\ phase' = phase \/ {phase, phase'} \cap {"read", "seal"} = {}
         \/ stream' = NoStream
         \/ stream'.salt = saltCount + 1 /\ saltCount' = saltCount + 1
  PROVE  NonceInv'
<1>1. /\ saltCount \in Nat /\ stream.salt \in Nat
      /\ \A p \in sealed : p[1] \in Nat
  BY DEF SenderOK
<1>2. stream' = NoStream => stream'.salt = 0
  BY DEF NoStream
<1>3. SaltsDrawn'
  BY <1>1, <1>2 DEF NonceInv, SaltsDrawn
<1>4. SealedBehind'
  <2>1. CASE UNCHANGED <<stream, record, phase>>
    BY <2>1 DEF NonceInv, SealedBehind
  <2>2. CASE /\ UNCHANGED <<stream, record>>
             /\ {phase, phase'} \cap {"read", "seal"} = {}
    <3>1. phase \notin {"read", "seal"} /\ phase' \notin {"read", "seal"}
      BY <2>2
    <3> QED
      BY <2>2, <3>1 DEF NonceInv, SealedBehind
  <2>3. CASE \A p \in sealed : p[1] # stream'.salt
    BY <2>3 DEF SealedBehind
  <2> QED
    BY <1>1, <1>2, <2>1, <2>2, <2>3 DEF NonceInv, SaltsDrawn
<1> QED
  BY <1>3, <1>4 DEF NonceInv

LEMMA StepNonce == Basic /\ NonceInv /\ [Next]_vars => NonceInv'
<1> SUFFICES ASSUME Basic, NonceInv, [Next]_vars PROVE NonceInv'
  OBVIOUS
<1>0. SenderOK /\ WireOK
  BY DEF Basic
<1>1. saltCount \in Nat
  BY <1>0 DEF SenderOK
<1>2. CASE DrainLoop
  <2>1. \/ UNCHANGED <<stream, saltCount>>
        \/ stream' = Rewound(stream, 0) /\ saltCount' = saltCount + 1
    BY <1>2 DEF DrainLoop
  <2>2. UNCHANGED <<sealed, record>> /\ {phase, phase'} \cap {"read", "seal"} = {}
    BY <1>2 DEF DrainLoop
  <2> QED
    BY <1>0, <1>1, <2>1, <2>2, RewoundTyped, NonceKept
<1>3. CASE RewindTail
  <2>1. nackedSeq \in Nat
    BY <1>0, <1>3 DEF RewindTail, SenderOK, SendsHead, Seqs
  <2>2. \/ stream' = NoStream /\ UNCHANGED saltCount
        \/ stream' = Rewound(stream, nackedSeq) /\ saltCount' = saltCount + 1
    BY <1>3 DEF RewindTail, Conclude
  <2>3. UNCHANGED sealed
    BY <1>3 DEF RewindTail
  <2> QED
    BY <1>0, <1>1, <2>1, <2>2, <2>3, RewoundTyped, NonceKept
<1>4. CASE ReceiveResumeOffer
  <2>1. Head(toSender).seq \in Nat
    BY <1>0, <1>4, TakenFromReceiver, ToSenderFields DEF ReceiveResumeOffer
  <2>2. \/ /\ UNCHANGED <<stream, saltCount>>
           /\ phase' = phase \/ {phase, phase'} \cap {"read", "seal"} = {}
        \/ stream' = Rewound(stream, Head(toSender).seq) /\ saltCount' = saltCount + 1
    BY <1>4 DEF ReceiveResumeOffer
  <2>3. UNCHANGED <<sealed, record>>
    BY <1>4 DEF ReceiveResumeOffer
  <2> QED
    BY <1>0, <1>1, <2>1, <2>2, <2>3, RewoundTyped, NonceKept
<1>5. CASE AckTimeout \/ ReceiveFileAck \/ ReceiveFileNack
  <2>1. \/ stream' = NoStream
        \/ UNCHANGED stream /\ UNCHANGED phase
    BY <1>5 DEF AckTimeout, ReceiveFileAck, ReceiveFileNack, Conclude
  <2>2. UNCHANGED <<sealed, record, saltCount>>
    BY <1>5 DEF AckTimeout, ReceiveFileAck, ReceiveFileNack
  <2> QED
    BY <1>0, <1>1, <2>1, <2>2, NonceKept
<1>6. CASE SealRecord
  <2>1. /\ record' = [salt |-> stream.salt, seq |-> record'.seq]
        /\ \/ phase = "read" /\ record'.seq = record.seq
           \/ phase = "pump" /\ stream.nextSeq = 0 /\ record'.seq = 0
        /\ sealed' = sealed \cup {<<stream.salt, record'.seq>>}
        /\ phase' = "seal"
        /\ UNCHANGED <<stream, saltCount>>
    BY <1>6 DEF SealRecord
  <2>2. stream.salt > 0 /\ stream.salt \in Nat /\ record'.seq \in Nat
    BY <1>0, <2>1 DEF SenderOK, SendsHead, Sending
  <2>3. SaltsDrawn'
    BY <2>1, <2>2 DEF NonceInv, SaltsDrawn
  <2>4. SealedBehind'
    <3> SUFFICES ASSUME NEW p \in sealed', p[1] = stream.salt
                 PROVE  p[2] <= record'.seq
      BY <2>1 DEF SealedBehind
    <3>1. CASE p \in sealed
      <4>1. p[2] < record'.seq /\ p[2] \in Nat
        BY <1>0, <2>1, <3>1 DEF NonceInv, SealedBehind, SenderOK
      <4> QED
        BY <2>2, <4>1
    <3>2. CASE p = <<stream.salt, record'.seq>>
      BY <2>2, <3>2
    <3> QED
      BY <2>1, <3>1, <3>2
  <2> QED
    BY <2>3, <2>4 DEF NonceInv
<1>12. CASE ReadSegment
  <2>1. /\ stream'.salt = stream.salt
        /\ record'.seq = stream.nextSeq
        /\ phase = "pump" /\ phase' = "read"
        /\ UNCHANGED <<sealed, saltCount>>
    BY <1>0, <1>12 DEF ReadSegment, SenderOK
  <2>2. SaltsDrawn'
    BY <2>1 DEF NonceInv, SaltsDrawn
  <2>3. SealedBehind'
    BY <2>1 DEF NonceInv, SealedBehind
  <2> QED
    BY <2>2, <2>3 DEF NonceInv
<1>7. CASE SendRecord
  <2>1. /\ stream'.salt = stream.salt /\ stream'.nextSeq = record.seq + 1
        /\ UNCHANGED <<sealed, saltCount>>
    BY <1>0, <1>7 DEF SendRecord, SenderOK
  <2>2. phase = "seal" /\ phase' \notin {"read", "seal"}
    BY <1>7 DEF SendRecord, PauseOnTransient
  <2>3. record.seq \in Nat /\ \A p \in sealed : p[2] \in Nat
    BY <1>0 DEF SenderOK
  <2>4. SaltsDrawn'
    BY <2>1 DEF NonceInv, SaltsDrawn
  <2>5. SealedBehind'
    BY <2>1, <2>2, <2>3 DEF NonceInv, SealedBehind
  <2> QED
    BY <2>4, <2>5 DEF NonceInv
<1>8. CASE /\ UNCHANGED <<stream, record, sealed, saltCount>>
           /\ phase' = phase \/ {phase, phase'} \cap {"read", "seal"} = {}
  BY <1>0, <1>1, <1>8, NonceKept
<1>9. CASE Pick \/ SendFileStart \/ SendFileEnd \/ ReceiveSegmentNack
           \/ RecoveryKick
  BY <1>8, <1>9 DEF Pick, SendFileStart, SendFileEnd, PauseOnTransient,
     AfterFileEnd, ReceiveSegmentNack, RecoveryKick
<1>10. CASE UNCHANGED senderVars
  BY <1>8, <1>10 DEF senderVars
<1>11. ReceiverStep \/ PairingStep => UNCHANGED senderVars
  BY DEF ReceiverStep, PairingStep, ReceiveFileStart, ReceiveRecord,
     AbortAbusiveStream, ReceiveSegmentRewind, ReceiveFileEnd,
     ReceiveResumeAck, OfferResume, Drop, SenderNotices, ReceiverNotices,
     Reconnect
<1> QED
  BY <1>2, <1>3, <1>4, <1>5, <1>6, <1>7, <1>9, <1>10, <1>11, <1>12
  DEF Next, PromptNext, SenderStep, vars

\* For every number of rewinds, resumes and retries, the record next() seals
\* has a sequence number that its key has not sealed yet.
THEOREM NoncesAreFresh == Spec => NoNonceReuse
<1>1. Init => Basic /\ NonceInv
  BY InitBasic, InitNonce
<1>2. Basic /\ NonceInv /\ [Next]_vars => Basic' /\ NonceInv'
  BY StepBasic, StepNonce
<1>3. Basic /\ NonceInv /\ [Next]_vars
        => [phase # "seal" /\ phase' = "seal"
              => <<record'.salt, record'.seq>> \notin sealed]_vars
  <2> SUFFICES ASSUME Basic, NonceInv, Next, phase # "seal", phase' = "seal"
               PROVE  <<record'.salt, record'.seq>> \notin sealed
    BY DEF vars
  <2>1. SealRecord
    BY DEF Next, PromptNext, SenderStep, ReceiverStep, PairingStep, Pick,
       DrainLoop, SendFileStart, ReadSegment, SendRecord, SendFileEnd, RewindTail,
       AckTimeout, ReceiveFileAck, ReceiveFileNack, ReceiveSegmentNack,
       ReceiveResumeOffer, RecoveryKick, ReceiveFileStart, ReceiveRecord,
       AbortAbusiveStream, ReceiveSegmentRewind, ReceiveFileEnd,
       ReceiveResumeAck, OfferResume, Drop, SenderNotices, ReceiverNotices,
       Reconnect, senderVars, Conclude, PauseOnTransient, AfterFileEnd
  <2>2. /\ record' = [salt |-> stream.salt, seq |-> record'.seq]
        /\ \/ phase = "read" /\ record'.seq = record.seq
           \/ phase = "pump" /\ stream.nextSeq = 0 /\ record'.seq = 0
    BY <2>1 DEF SealRecord
  <2>3. record'.seq \in Nat
    BY <2>2 DEF Basic, SenderOK
  <2>4. ASSUME <<stream.salt, record'.seq>> \in sealed PROVE FALSE
    <3>1. record'.seq < record'.seq
      BY <2>2, <2>4 DEF NonceInv, SealedBehind
    <3> QED
      BY <2>3, <3>1
  <2> QED
    BY <2>2, <2>4
<1> QED
  BY <1>1, <1>2, <1>3, PTL DEF Spec, NoNonceReuse

-----------------------------------------------------------------------------
(* No file that is shown was cut short or padded.                          *)

\* Once the receiver holds as many records as the file-start announced, the
\* one at the final place was sealed as the final record of its file.
FinalSealed ==
    Len(receiver.parts) > receiver.segCount
      => SegCountOf(receiver.parts[receiver.segCount + 1]) = receiver.segCount

WholeInv == FinalSealed /\ NeverTruncated

LEMMA InitWhole == Init => WholeInv
<1> SUFFICES ASSUME Init PROVE WholeInv
  OBVIOUS
<1>1. receiver.parts = <<>> /\ receiver.segCount = 0
  BY DEF Init, NoReceiver
<1>2. FinalSealed
  BY <1>1 DEF FinalSealed
<1>3. NeverTruncated
  BY DEF Init, NeverTruncated
<1> QED
  BY <1>2, <1>3 DEF WholeInv

\* A prefix of what is held, or nothing, is still sealed at the final place.
LEMMA FinalSealedKept ==
  ASSUME ReceiverOK, FinalSealed,
         \/ receiver' = NoReceiver
         \/ receiver' = receiver
         \/ receiver'.parts = <<>> /\ receiver'.segCount \in Nat
         \/ \E salt, seq \in Nat : /\ seq <= Len(receiver.parts)
                                   /\ receiver' = Rekeyed(receiver, salt, seq)
  PROVE  FinalSealed'
<1>1. CASE receiver' = receiver
  BY <1>1 DEF FinalSealed
<1>2. CASE receiver' = NoReceiver
  <2>1. receiver'.parts = <<>> /\ receiver'.segCount = 0
    BY <1>2 DEF NoReceiver
  <2> QED
    BY <2>1 DEF FinalSealed
<1>3. CASE receiver'.parts = <<>> /\ receiver'.segCount \in Nat
  BY <1>3 DEF FinalSealed
<1>4. CASE \E salt, seq \in Nat : /\ seq <= Len(receiver.parts)
                                  /\ receiver' = Rekeyed(receiver, salt, seq)
  <2>1. PICK salt \in Nat, seq \in Nat : /\ seq <= Len(receiver.parts)
                                         /\ receiver' = Rekeyed(receiver, salt, seq)
    BY <1>4
  <2>2. /\ receiver'.segCount = receiver.segCount /\ receiver.segCount \in Nat
        /\ receiver'.parts = SubSeq(receiver.parts, 1, seq)
        /\ Len(receiver'.parts) = seq
        /\ receiver.parts \in Seq(0..NumFiles)
    BY <2>1, RekeyedTyped DEF ReceiverOK
  <2> SUFFICES ASSUME seq > receiver.segCount
               PROVE  SegCountOf(receiver'.parts[receiver.segCount + 1])
                        = receiver.segCount
    BY <2>2 DEF FinalSealed
  <2>3. receiver'.parts[receiver.segCount + 1] = receiver.parts[receiver.segCount + 1]
    BY <2>1, <2>2
  <2>4. Len(receiver.parts) > receiver.segCount
    BY <2>1, <2>2
  <2> QED
    BY <2>3, <2>4 DEF FinalSealed
<1> QED
  BY <1>1, <1>2, <1>3, <1>4

\* A record that opens at the final place was sealed as a final record.
LEMMA FinalSealedAppend ==
  ASSUME ReceiverOK, FinalSealed, NEW m, m.file \in 0..NumFiles,
         Opens(receiver, m),
         receiver' = [receiver EXCEPT !.parts = Append(@, m.file)]
  PROVE  FinalSealed'
<1>1. /\ receiver.parts \in Seq(0..NumFiles) /\ receiver.segCount \in Nat
      /\ receiver'.parts = Append(receiver.parts, m.file)
      /\ receiver'.segCount = receiver.segCount
  BY DEF ReceiverOK
<1>2. Len(receiver'.parts) = Len(receiver.parts) + 1
  BY <1>1
<1>3. CASE Len(receiver.parts) > receiver.segCount
  <2>1. receiver'.parts[receiver.segCount + 1] = receiver.parts[receiver.segCount + 1]
    BY <1>1, <1>3
  <2> QED
    BY <1>1, <1>3, <2>1 DEF FinalSealed
<1>4. CASE Len(receiver.parts) = receiver.segCount
  <2>1. receiver'.parts[receiver.segCount + 1] = m.file
    BY <1>1, <1>4
  <2>2. SegCountOf(m.file) = receiver.segCount
    BY <1>4 DEF Opens
  <2> QED
    BY <1>1, <2>1, <2>2 DEF FinalSealed
<1>5. CASE Len(receiver.parts) < receiver.segCount
  BY <1>1, <1>2, <1>5 DEF FinalSealed
<1> QED
  BY <1>1, <1>3, <1>4, <1>5

LEMMA StepWhole == Basic /\ WholeInv /\ [Next]_vars => WholeInv'
<1> SUFFICES ASSUME Basic, WholeInv, [Next]_vars PROVE WholeInv'
  OBVIOUS
<1>0. ReceiverOK /\ WireOK /\ FinalSealed /\ NeverTruncated
      /\ toSender \in Seq(ToSender)
  BY DEF Basic, WholeInv, WireOK
<1>1. CASE ReceiveFileStart
  <2>1. receiver'.parts = <<>> /\ receiver'.segCount \in Nat
    BY <1>0, <1>1, TakenFromSender, ToReceiverFields DEF ReceiveFileStart
  <2> QED
    BY <1>0, <1>1, <2>1, FinalSealedKept
    DEF ReceiveFileStart, WholeInv, NeverTruncated
<1>2. CASE ReceiveRecord
  <2>1. PICK m \in Arrivals :
          \/ UNCHANGED receiver
          \/ /\ Opens(receiver, m)
             /\ receiver' = [receiver EXCEPT !.parts = Append(@, m.file)]
          \/ RequestRewind
    BY <1>2 DEF ReceiveRecord
  <2>2. m.file \in 0..NumFiles
    BY <1>2, ArrivalTyped DEF ReceiveRecord
  <2>3. FinalSealed'
    BY <1>0, <2>1, <2>2, FinalSealedKept, FinalSealedAppend, RequestRewindTyped
  <2> QED
    BY <1>0, <1>2, <2>3 DEF ReceiveRecord, WholeInv, NeverTruncated
<1>3. CASE ReceiveSegmentRewind
  <2>1. Head(toReceiver).seq \in Nat /\ Head(toReceiver).salt \in Nat
    BY <1>0, <1>3, TakenFromSender, ToReceiverFields DEF ReceiveSegmentRewind
  <2>2. CASE UNCHANGED receiver
    BY <1>0, <1>3, <2>2, FinalSealedKept
    DEF ReceiveSegmentRewind, WholeInv, NeverTruncated
  <2>3. CASE /\ Head(toReceiver).seq = awaitingRewindSeq
             /\ receiver' = Rekeyed(receiver, Head(toReceiver).salt,
                                    Head(toReceiver).seq)
    <3>1. Head(toReceiver).seq <= Len(receiver.parts)
      <4>1. awaitingRewindSeq = Len(receiver.parts)
        BY <1>0, <2>1, <2>3 DEF ReceiverOK, AwaitsFirstMissing, None
      <4> QED
        BY <1>0, <2>3, <4>1 DEF ReceiverOK
    <3> QED
      BY <1>0, <1>3, <2>1, <2>3, <3>1, FinalSealedKept
      DEF ReceiveSegmentRewind, WholeInv, NeverTruncated
  <2> QED
    BY <1>3, <2>2, <2>3 DEF ReceiveSegmentRewind
<1>4. CASE ReceiveResumeAck
  <2>1. Head(toReceiver).seq \in Nat /\ Head(toReceiver).salt \in Nat
    BY <1>0, <1>4, TakenFromSender, ToReceiverFields DEF ReceiveResumeAck
  <2>2. \/ receiver' = NoReceiver
        \/ UNCHANGED receiver
        \/ /\ Head(toReceiver).seq <= Len(receiver.parts)
           /\ receiver' = Rekeyed(receiver, Head(toReceiver).salt,
                                  Head(toReceiver).seq)
    BY <1>4 DEF ReceiveResumeAck
  <2> QED
    BY <1>0, <1>4, <2>1, <2>2, FinalSealedKept
    DEF ReceiveResumeAck, WholeInv, NeverTruncated
<1>5. CASE ReceiveFileEnd
  <2>1. CASE UNCHANGED <<receiver, displayed>>
    BY <1>0, <1>5, <2>1, FinalSealedKept
    DEF ReceiveFileEnd, WholeInv, NeverTruncated
  <2>2. CASE RequestRewind /\ UNCHANGED displayed
    BY <1>0, <2>2, FinalSealedKept, RequestRewindTyped DEF WholeInv, NeverTruncated
  <2>3. CASE /\ Complete(receiver)
             /\ receiver' = NoReceiver
             /\ displayed' = Append(displayed, receiver.parts)
    <3>1. /\ receiver.parts \in Seq(0..NumFiles)
          /\ receiver.segCount \in Nat
          /\ displayed \in Seq(Seq(0..NumFiles))
      BY <1>0 DEF ReceiverOK
    <3>2. Untruncated(receiver.parts)
      BY <1>0, <2>3, <3>1 DEF Untruncated, Complete, FinalSealed
    <3>3. ASSUME NEW i \in 1..Len(displayed') PROVE Untruncated(displayed'[i])
      <4>1. CASE i = Len(displayed) + 1
        BY <2>3, <3>1, <3>2, <4>1
      <4>2. CASE i \in 1..Len(displayed)
        <5>1. displayed'[i] = displayed[i]
          BY <2>3, <3>1, <4>2
        <5> QED
          BY <1>0, <4>2, <5>1 DEF NeverTruncated
      <4> QED
        BY <2>3, <3>1, <4>1, <4>2
    <3> QED
      BY <1>0, <2>3, <3>3, FinalSealedKept DEF WholeInv, NeverTruncated
  <2> QED
    BY <1>5, <2>1, <2>2, <2>3 DEF ReceiveFileEnd
<1>6. CASE UNCHANGED <<receiver, displayed>>
  BY <1>0, <1>6, FinalSealedKept DEF WholeInv, NeverTruncated
<1>7. AbortAbusiveStream \/ OfferResume \/ SenderStep \/ AckTimeout \/ PairingStep
        => UNCHANGED <<receiver, displayed>>
  BY DEF AbortAbusiveStream, OfferResume, SenderStep, AckTimeout, PairingStep,
     Pick, DrainLoop, SendFileStart, ReadSegment, SealRecord, SendRecord, SendFileEnd,
     RewindTail, ReceiveFileAck, ReceiveFileNack, ReceiveSegmentNack,
     ReceiveResumeOffer, RecoveryKick, Drop, SenderNotices, ReceiverNotices,
     Reconnect, receiverVars
<1> QED
  BY <1>1, <1>2, <1>3, <1>4, <1>5, <1>6, <1>7
  DEF Next, PromptNext, ReceiverStep, vars, receiverVars

\* Whatever was lost, corrupted, rewound or mixed up on the way, a file that
\* is shown ends with the record its sender sealed as the final one, at its
\* own place.
THEOREM FilesAreWhole == Spec => []NeverTruncated
<1>1. Init => Basic /\ WholeInv
  BY InitBasic, InitWhole
<1>2. Basic /\ WholeInv /\ [Next]_vars => Basic' /\ WholeInv'
  BY StepBasic, StepWhole
<1>3. WholeInv => NeverTruncated
  BY DEF WholeInv
<1> QED
  BY <1>1, <1>2, <1>3, PTL DEF Spec

-----------------------------------------------------------------------------
(* Files are shown in the order of the queue, none twice. The frames name  *)
(* no file, but each salt was drawn for one; owner says for which.         *)

Concluded == picked - Len(queue)
HeadNo == Concluded + 1

\* The queue is what the user picked and the sender did not conclude.
QueueInOrder ==
    /\ Len(queue) <= picked
    /\ \A i \in 1..Len(queue) : queue[i] = Concluded + i

\* What a break of the pairing leaves.
BreakOK ==
    /\ ~up => toSender = <<>>
    /\ ~senderOpen => ~up
    /\ aborted => ~up
    /\ ~up /\ ~aborted => toReceiver = <<>>

Keyed(m) == m.type # "file-end" /\ m.salt # 0

\* The i-th frame on the wire w ends a file f or a later one, for a receiver
\* that starts out with a key of the file r.
EndsAt(w, r, owner, f, i) ==
    /\ w[i].type = "file-end"
    /\ \/ r # 0 /\ r >= f
       \/ \E k \in 1..Len(w) : k < i /\ Keyed(w[k]) /\ owner[w[k].salt] >= f

\* Keys are met in the order of the files they were drawn for, and a file that
\* was ended is not started again.
Line(w, r, owner) ==
    /\ \A i \in 1..Len(w) : Keyed(w[i]) => r <= owner[w[i].salt]
    /\ \A i, j \in 1..Len(w) :
          i < j /\ Keyed(w[i]) /\ Keyed(w[j])
            => owner[w[i].salt] <= owner[w[j].salt]
    /\ \A i, j \in 1..Len(w) :
          i < j /\ w[j].type = "file-start"
            => ~EndsAt(w, r, owner, owner[w[j].salt], i)

\* owner names a file for every salt.
Owning(owner) == owner \in [Nat -> Nat]

LEMMA OwnerIsNat ==
  ASSUME NEW owner, Owning(owner), NEW s \in Nat
  PROVE  owner[s] \in Nat
  BY DEF Owning

\* A frame that may go to the end of the wire.
Joins(m, w, r, owner) ==
    /\ Keyed(m) => /\ r <= owner[m.salt]
                   /\ \A i \in 1..Len(w) : Keyed(w[i]) => owner[w[i].salt] <= owner[m.salt]
    /\ m.type = "file-start" =>
          \A i \in 1..Len(w) : ~EndsAt(w, r, owner, owner[m.salt], i)

LEMMA ToReceiverSalt ==
  ASSUME NEW m \in ToReceiver, m.type # "file-end"
  PROVE  m.salt \in Nat
  BY DEF ToReceiver

LEMMA LineAppend ==
  ASSUME NEW w \in Seq(ToReceiver), NEW r \in Nat, NEW owner, Owning(owner),
         NEW m \in ToReceiver, Line(w, r, owner), Joins(m, w, r, owner)
  PROVE  /\ Line(Append(w, m), r, owner)
         /\ \A f \in Nat : \A i \in 1..Len(w) + 1 :
              EndsAt(Append(w, m), r, owner, f, i)
                => \/ i \in 1..Len(w) /\ EndsAt(w, r, owner, f, i)
                   \/ i = Len(w) + 1 /\ m.type = "file-end"
<1> DEFINE v == Append(w, m)
<1>1. /\ Len(v) = Len(w) + 1 /\ Len(w) \in Nat /\ v[Len(w) + 1] = m
      /\ \A i \in 1..Len(w) : v[i] = w[i]
  OBVIOUS
<1> HIDE DEF v
<1>2. ASSUME NEW f \in Nat, NEW i \in 1..Len(w), EndsAt(v, r, owner, f, i)
      PROVE  EndsAt(w, r, owner, f, i)
  <2>1. CASE r # 0 /\ r >= f
    BY <1>1, <1>2, <2>1 DEF EndsAt
  <2>2. CASE \E k \in 1..Len(v) : k < i /\ Keyed(v[k]) /\ owner[v[k].salt] >= f
    <3>1. PICK k \in 1..Len(v) : k < i /\ Keyed(v[k]) /\ owner[v[k].salt] >= f
      BY <2>2
    <3>2. k \in 1..Len(w) /\ v[k] = w[k]
      BY <1>1, <1>2, <3>1
    <3> QED
      BY <1>1, <1>2, <3>1, <3>2 DEF EndsAt
  <2> QED
    BY <1>2, <2>1, <2>2 DEF EndsAt
<1>3. \A f \in Nat : \A i \in 1..Len(w) + 1 :
        EndsAt(v, r, owner, f, i)
          => \/ i \in 1..Len(w) /\ EndsAt(w, r, owner, f, i)
             \/ i = Len(w) + 1 /\ m.type = "file-end"
  <2> SUFFICES ASSUME NEW f \in Nat, NEW i \in 1..Len(w) + 1, EndsAt(v, r, owner, f, i)
               PROVE  \/ i \in 1..Len(w) /\ EndsAt(w, r, owner, f, i)
                      \/ i = Len(w) + 1 /\ m.type = "file-end"
    OBVIOUS
  <2>1. CASE i \in 1..Len(w)
    BY <1>2, <2>1
  <2>2. CASE i = Len(w) + 1
    BY <1>1, <2>2 DEF EndsAt
  <2> QED
    BY <1>1, <2>1, <2>2
<1>4. \A i \in 1..Len(v) : Keyed(v[i]) => r <= owner[v[i].salt]
  <2> SUFFICES ASSUME NEW i \in 1..Len(v), Keyed(v[i]) PROVE r <= owner[v[i].salt]
    OBVIOUS
  <2>1. CASE i \in 1..Len(w)
    BY <1>1, <2>1 DEF Line
  <2>2. CASE i = Len(w) + 1
    BY <1>1, <2>2 DEF Joins
  <2> QED
    BY <1>1, <2>1, <2>2
<1>5. ASSUME NEW i \in 1..Len(v), NEW j \in 1..Len(v), i < j, Keyed(v[i]), Keyed(v[j])
      PROVE  owner[v[i].salt] <= owner[v[j].salt]
  <2>1. i \in 1..Len(w) /\ v[i] = w[i]
    BY <1>1, <1>5
  <2>2. CASE j \in 1..Len(w)
    BY <1>1, <1>5, <2>1, <2>2 DEF Line
  <2>3. CASE j = Len(w) + 1
    BY <1>1, <1>5, <2>1, <2>3 DEF Joins
  <2> QED
    BY <1>1, <2>2, <2>3
<1>6. ASSUME NEW i \in 1..Len(v), NEW j \in 1..Len(v), i < j, v[j].type = "file-start"
      PROVE  ~EndsAt(v, r, owner, owner[v[j].salt], i)
  <2>1. i \in 1..Len(w)
    BY <1>1, <1>6
  <2>2. v[j] \in ToReceiver
    BY <1>1, <1>6
  <2>3. owner[v[j].salt] \in Nat
    BY <1>6, <2>2, ToReceiverFields, OwnerIsNat
  <2>4. ~EndsAt(w, r, owner, owner[v[j].salt], i)
    <3>1. CASE j \in 1..Len(w)
      BY <1>1, <1>6, <2>1, <3>1 DEF Line
    <3>2. CASE j = Len(w) + 1
      BY <1>1, <1>6, <2>1, <3>2 DEF Joins
    <3> QED
      BY <1>1, <3>1, <3>2
  <2> QED
    BY <1>2, <2>1, <2>3, <2>4
<1>7. Line(v, r, owner)
  BY <1>4, <1>5, <1>6 DEF Line
<1> QED
  BY <1>3, <1>7 DEF v

LEMMA LineTail ==
  ASSUME NEW w \in Seq(ToReceiver), w # <<>>, NEW r \in Nat, NEW s \in Nat,
         NEW owner, Owning(owner), Line(w, r, owner),
         s = 0 \/ s = r \/ (Keyed(Head(w)) /\ s = owner[Head(w).salt])
  PROVE  /\ Line(Tail(w), s, owner)
         /\ \A f \in Nat : \A i \in 1..Len(Tail(w)) :
              EndsAt(Tail(w), s, owner, f, i) => EndsAt(w, r, owner, f, i + 1)
<1> DEFINE v == Tail(w)
<1>1. /\ Len(w) \in Nat /\ Len(w) >= 1 /\ Len(v) = Len(w) - 1 /\ Head(w) = w[1]
      /\ \A i \in 1..Len(v) : i + 1 \in 1..Len(w) /\ v[i] = w[i + 1] /\ i \in Nat
  OBVIOUS
<1> HIDE DEF v
<1>2. ASSUME NEW f \in Nat, NEW i \in 1..Len(v), EndsAt(v, s, owner, f, i)
      PROVE  EndsAt(w, r, owner, f, i + 1)
  <2>1. w[i + 1].type = "file-end" /\ 1 \in 1..Len(w) /\ 1 < i + 1
    BY <1>1, <1>2 DEF EndsAt
  <2>2. CASE s # 0 /\ s >= f
    <3>1. CASE s = r
      BY <2>1, <2>2, <3>1 DEF EndsAt
    <3>2. CASE Keyed(Head(w)) /\ s = owner[Head(w).salt]
      <4>1. Keyed(w[1]) /\ owner[w[1].salt] >= f
        BY <1>1, <2>2, <3>2
      <4> QED
        BY <2>1, <4>1 DEF EndsAt
    <3> QED
      BY <2>2, <3>1, <3>2
  <2>3. CASE \E k \in 1..Len(v) : k < i /\ Keyed(v[k]) /\ owner[v[k].salt] >= f
    <3>1. PICK k \in 1..Len(v) : k < i /\ Keyed(v[k]) /\ owner[v[k].salt] >= f
      BY <2>3
    <3>2. k + 1 \in 1..Len(w) /\ k + 1 < i + 1 /\ v[k] = w[k + 1]
      BY <1>1, <3>1
    <3>3. Keyed(w[k + 1]) /\ owner[w[k + 1].salt] >= f
      BY <3>1, <3>2
    <3> QED
      BY <2>1, <3>2, <3>3 DEF EndsAt
  <2> QED
    BY <1>2, <2>2, <2>3 DEF EndsAt
<1>3. ASSUME NEW i \in 1..Len(v), Keyed(v[i])
      PROVE  s <= owner[v[i].salt]
  <2>1. Keyed(w[i + 1]) /\ i + 1 \in 1..Len(w) /\ 1 \in 1..Len(w) /\ 1 < i + 1
    BY <1>1, <1>3
  <2>2. w[i + 1] \in ToReceiver
    BY <2>1
  <2>3. owner[w[i + 1].salt] \in Nat
    BY <2>1, <2>2, ToReceiverSalt, OwnerIsNat DEF Keyed
  <2>4. r <= owner[w[i + 1].salt]
    BY <2>1 DEF Line
  <2>5. Keyed(w[1]) => owner[w[1].salt] <= owner[w[i + 1].salt]
    BY <2>1 DEF Line
  <2> QED
    BY <1>1, <2>3, <2>4, <2>5
<1>4. ASSUME NEW i \in 1..Len(v), NEW j \in 1..Len(v), i < j, Keyed(v[i]), Keyed(v[j])
      PROVE  owner[v[i].salt] <= owner[v[j].salt]
  <2>1. i + 1 \in 1..Len(w) /\ j + 1 \in 1..Len(w) /\ i + 1 < j + 1
        /\ v[i] = w[i + 1] /\ v[j] = w[j + 1]
    BY <1>1, <1>4
  <2> QED
    BY <1>4, <2>1 DEF Line
<1>5. ASSUME NEW i \in 1..Len(v), NEW j \in 1..Len(v), i < j, v[j].type = "file-start"
      PROVE  ~EndsAt(v, s, owner, owner[v[j].salt], i)
  <2>1. i + 1 \in 1..Len(w) /\ j + 1 \in 1..Len(w) /\ i + 1 < j + 1 /\ v[j] = w[j + 1]
    BY <1>1, <1>5
  <2>2. owner[v[j].salt] \in Nat
    <3>1. v[j] \in ToReceiver
      BY <2>1
    <3> QED
      BY <1>5, <3>1, ToReceiverFields, OwnerIsNat
  <2>3. ~EndsAt(w, r, owner, owner[v[j].salt], i + 1)
    BY <1>5, <2>1 DEF Line
  <2> QED
    BY <1>2, <1>5, <2>2, <2>3
<1> QED
  BY <1>2, <1>3, <1>4, <1>5 DEF Line, v

LEMMA LineAgrees ==
  ASSUME NEW w, NEW r, NEW owner, NEW other, Line(w, r, owner),
         \A i \in 1..Len(w) : w[i].type # "file-end" => other[w[i].salt] = owner[w[i].salt]
  PROVE  /\ Line(w, r, other)
         /\ \A f, i : EndsAt(w, r, other, f, i) => EndsAt(w, r, owner, f, i)
<1>1. \A f, i : EndsAt(w, r, other, f, i) => EndsAt(w, r, owner, f, i)
  BY DEF EndsAt, Keyed
<1>2. \A i \in 1..Len(w) : Keyed(w[i]) => other[w[i].salt] = owner[w[i].salt]
  BY DEF Keyed
<1>3. \A i \in 1..Len(w) : w[i].type = "file-start" => other[w[i].salt] = owner[w[i].salt]
  OBVIOUS
<1>4. /\ \A i \in 1..Len(w) : Keyed(w[i]) => r <= other[w[i].salt]
      /\ \A i, j \in 1..Len(w) :
            i < j /\ Keyed(w[i]) /\ Keyed(w[j])
              => other[w[i].salt] <= other[w[j].salt]
  BY <1>2 DEF Line
<1>5. \A i, j \in 1..Len(w) :
          i < j /\ w[j].type = "file-start"
            => ~EndsAt(w, r, other, other[w[j].salt], i)
  BY <1>1, <1>3 DEF Line
<1> QED
  BY <1>1, <1>4, <1>5 DEF Line

-----------------------------------------------------------------------------
(* The invariant, for a given owner of each salt.                          *)

LastOf(parts) == parts[Len(parts)]
ShownFiles == {LastOf(displayed[i]) : i \in 1..Len(displayed)}

\* What is shown later is of a later file.
LastsGrow ==
    \A i, j \in 1..Len(displayed) : i < j => LastOf(displayed[i]) < LastOf(displayed[j])

\* A salt is drawn for the head of the queue, and seals nothing else.
SaltsOwned(owner) ==
    /\ Owning(owner) /\ owner[0] = 0
    /\ \A s \in 1..saltCount : owner[s] \in 1..HeadNo /\ owner[s] <= picked
    /\ stream.salt # 0 => /\ queue # <<>> /\ stream.salt <= saltCount
                          /\ owner[stream.salt] = HeadNo
    /\ phase = "seal" => record.salt \in 1..saltCount /\ owner[record.salt] = HeadNo

FrameOwned(m, owner) ==
    /\ m.type \in {"file-start", "record", "segment-rewind"} => m.salt # 0
    /\ m.type = "file-resume-ack" => (m.salt = 0 <=> m.seq = 0)
    /\ Keyed(m) => m.salt <= saltCount
    /\ m.type = "record" => m.file = owner[m.salt]

FramesOwned(owner) == \A i \in 1..Len(toReceiver) : FrameOwned(toReceiver[i], owner)

ReceiverOwned(owner) ==
    /\ receiver.salt <= saltCount
    /\ receiver.salt = 0 => receiver = NoReceiver
    /\ \A k \in 1..Len(receiver.parts) : receiver.parts[k] <= owner[receiver.salt]

InLine(owner) == Line(toReceiver, owner[receiver.salt], owner)

\* What the receiver collects, or is told to start, is later than all it shows.
ShownBehind(owner) ==
    \A f \in ShownFiles :
        /\ f <= HeadNo
        /\ receiver.salt # 0 => /\ owner[receiver.salt] > f
                                /\ \A k \in 1..Len(receiver.parts) : receiver.parts[k] > f
        /\ \A i \in 1..Len(toReceiver) :
              toReceiver[i].type = "file-start" => owner[toReceiver[i].salt] > f

HeadEnded(owner) ==
    \E i \in 1..Len(toReceiver) :
        EndsAt(toReceiver, owner[receiver.salt], owner, HeadNo, i)

NoOffer == \A i \in 1..Len(toSender) : toSender[i].type # "file-resume-offer"

\* Once the head is shown, or a file-end may show it, nothing starts it again:
\* the sender leaves its send only for a pause that no offer ends.
HeadIsOver(owner) ==
    HeadNo \in ShownFiles \/ HeadEnded(owner) =>
        /\ phase \notin {"loop", "start"}
        /\ phase = "idle" => pausedOnTransient /\ NoOffer
        /\ phase = "idle" /\ HeadEnded(owner) => aborted

OrderInv(owner) ==
    /\ SaltsOwned(owner) /\ FramesOwned(owner) /\ ReceiverOwned(owner)
    /\ InLine(owner) /\ ShownBehind(owner) /\ HeadIsOver(owner)

\* A salt to come may be said to be of any file.
LEMMA OwnerExtends ==
  ASSUME Basic, QueueInOrder, NEW owner, OrderInv(owner)
  PROVE  \E other : /\ OrderInv(other) /\ other[saltCount + 1] = HeadNo
                    /\ \A s \in 0..saltCount : other[s] = owner[s]
<1> DEFINE other == [owner EXCEPT ![saltCount + 1] = HeadNo]
<1>1. /\ saltCount \in Nat /\ queue \in Seq(File) /\ picked \in Nat /\ HeadNo \in Nat
      /\ toReceiver \in Seq(ToReceiver) /\ stream.salt \in Nat /\ record.salt \in Nat
      /\ receiver.salt \in Nat
  BY DEF Basic, SenderOK, ReceiverOK, WireOK, QueueInOrder, HeadNo, Concluded
<1>2. Owning(owner) /\ Owning(other)
  BY <1>1 DEF OrderInv, SaltsOwned, Owning
<1>3. /\ other[saltCount + 1] = HeadNo
      /\ \A s \in 0..saltCount : other[s] = owner[s]
  BY <1>1, <1>2 DEF Owning
<1> HIDE DEF other
<1>4. \A i \in 1..Len(toReceiver) :
         toReceiver[i].type # "file-end" => other[toReceiver[i].salt] = owner[toReceiver[i].salt]
  <2> SUFFICES ASSUME NEW i \in 1..Len(toReceiver), toReceiver[i].type # "file-end"
               PROVE  toReceiver[i].salt \in 0..saltCount
    BY <1>3
  <2>1. toReceiver[i] \in ToReceiver
    BY <1>1
  <2>2. toReceiver[i].salt \in Nat
    BY <2>1, ToReceiverSalt
  <2>3. toReceiver[i].salt # 0 => toReceiver[i].salt <= saltCount
    BY DEF OrderInv, FramesOwned, FrameOwned, Keyed
  <2> QED
    BY <1>1, <2>2, <2>3
<1>5. other[receiver.salt] = owner[receiver.salt]
  BY <1>1, <1>3 DEF OrderInv, ReceiverOwned
<1>6. SaltsOwned(other)
  BY <1>1, <1>2, <1>3 DEF OrderInv, SaltsOwned
<1>7. FramesOwned(other)
  BY <1>4 DEF OrderInv, FramesOwned, FrameOwned, Keyed
<1>8. ReceiverOwned(other)
  BY <1>5 DEF OrderInv, ReceiverOwned
<1>9. InLine(other)
  BY <1>4, <1>5, LineAgrees DEF OrderInv, InLine
<1>10. ShownBehind(other)
  BY <1>4, <1>5 DEF OrderInv, ShownBehind
<1>11. HeadEnded(other) => HeadEnded(owner)
  BY <1>4, <1>5, LineAgrees DEF OrderInv, InLine, HeadEnded
<1>12. HeadIsOver(other)
  BY <1>11 DEF OrderInv, HeadIsOver
<1> QED
  BY <1>3, <1>6, <1>7, <1>8, <1>9, <1>10, <1>12 DEF OrderInv

-----------------------------------------------------------------------------
(* The queue, and what a break leaves.                                     *)

LEMMA StepBreak == Basic /\ BreakOK /\ [Next]_vars => BreakOK'
<1> SUFFICES ASSUME Basic, BreakOK, [Next]_vars PROVE BreakOK'
  OBVIOUS
<1>1. toSender \in Seq(ToSender) /\ toReceiver \in Seq(ToReceiver)
  BY DEF Basic, WireOK
<1>2. Tail(<<>>) = <<>>
  OBVIOUS
<1>3. CASE SenderStep \/ AckTimeout
  <2>1. UNCHANGED <<up, senderOpen, aborted>>
    BY <1>3 DEF SenderStep, AckTimeout, Pick, DrainLoop, SendFileStart, ReadSegment, SealRecord,
       SendRecord, SendFileEnd, RewindTail, ReceiveFileAck, ReceiveFileNack, ReceiveSegmentNack,
       ReceiveResumeOffer, RecoveryKick, receiverVars, pairingVars
  <2>2. ~up => toReceiver' = toReceiver
    BY <1>3 DEF SenderStep, AckTimeout, Pick, DrainLoop, SendFileStart, ReadSegment, SealRecord,
       SendRecord, SendFileEnd, RewindTail, ReceiveFileAck, ReceiveFileNack, ReceiveSegmentNack,
       ReceiveResumeOffer, RecoveryKick, Transmit
  <2>3. toSender' = toSender \/ (toSender # <<>> /\ toSender' = Tail(toSender))
    BY <1>3 DEF SenderStep, AckTimeout, Pick, DrainLoop, SendFileStart, ReadSegment, SealRecord,
       SendRecord, SendFileEnd, RewindTail, ReceiveFileAck, ReceiveFileNack, ReceiveSegmentNack,
       ReceiveResumeOffer, RecoveryKick, TakeFromReceiver
  <2> QED
    BY <2>1, <2>2, <2>3 DEF BreakOK
<1>4. CASE ReceiverStep
  <2>1. CASE AbortAbusiveStream
    BY <2>1 DEF AbortAbusiveStream, BreakOK
  <2>2. CASE ~AbortAbusiveStream
    <3>1. UNCHANGED <<up, senderOpen, aborted>>
      BY <1>4, <2>2 DEF ReceiverStep, ReceiveFileStart, ReceiveRecord, ReceiveSegmentRewind,
         ReceiveFileEnd, ReceiveResumeAck, OfferResume, senderVars, pairingVars, receiverVars
    <3>2. toReceiver' = toReceiver \/ (toReceiver # <<>> /\ toReceiver' = Tail(toReceiver))
      BY <1>4, <2>2 DEF ReceiverStep, ReceiveFileStart, ReceiveRecord, ReceiveSegmentRewind,
         ReceiveFileEnd, ReceiveResumeAck, OfferResume, TakeFromSender
    <3>3. ~up => toSender' = toSender
      BY <1>4, <2>2 DEF ReceiverStep, ReceiveFileStart, ReceiveRecord, ReceiveSegmentRewind,
         ReceiveFileEnd, ReceiveResumeAck, OfferResume, RequestRewind, Reply
    <3> QED
      BY <3>1, <3>2, <3>3 DEF BreakOK
  <2> QED
    BY <2>1, <2>2
<1>5. CASE PairingStep
  BY <1>5 DEF PairingStep, Drop, SenderNotices, ReceiverNotices, Reconnect, BreakOK, receiverVars
<1>6. CASE UNCHANGED vars
  BY <1>6 DEF vars, receiverVars, pairingVars, BreakOK
<1> QED
  BY <1>3, <1>4, <1>5, <1>6 DEF Next, PromptNext

\* A conclusion takes the head: the next file of the user is the new one.
LEMMA ConcludeTakesHead ==
  ASSUME Basic, QueueInOrder, Sending, NEW ok, Conclude(ok), picked' = picked
  PROVE  /\ QueueInOrder' /\ HeadNo' = HeadNo + 1 /\ Head(queue) = HeadNo
         /\ Concluded' = HeadNo
<1>1. queue \in Seq(File) /\ queue # <<>> /\ picked \in Nat
  BY ConstantsAssumption DEF Basic, SenderOK, SendsHead
<1>2. queue' = Tail(queue)
  BY DEF Conclude
<1>3. /\ Len(queue) \in Nat /\ Len(queue) >= 1 /\ Len(queue') = Len(queue) - 1
      /\ Head(queue) = queue[1]
      /\ \A i \in 1..Len(queue') : i + 1 \in 1..Len(queue) /\ queue'[i] = queue[i + 1]
  BY <1>1, <1>2
<1>4. Head(queue) = HeadNo
  BY <1>1, <1>3 DEF QueueInOrder, HeadNo
<1>5. Concluded' = Concluded + 1 /\ Concluded \in Nat
  BY <1>1, <1>3 DEF Concluded, QueueInOrder
<1>6. Len(queue') <= picked'
  BY <1>1, <1>3 DEF QueueInOrder
<1>7. ASSUME NEW i \in 1..Len(queue') PROVE queue'[i] = Concluded' + i
  <2>1. queue'[i] = Concluded + (i + 1)
    BY <1>3, <1>7 DEF QueueInOrder
  <2> QED
    BY <1>3, <1>5, <1>7, <2>1
<1>8. QueueInOrder'
  BY <1>6, <1>7 DEF QueueInOrder
<1> QED
  BY <1>4, <1>5, <1>8 DEF HeadNo

\* What a step of the sender page does to the queue.
Concludes == Sending /\ stream' = NoStream /\ phase' = "loop" /\ \E ok \in BOOLEAN : Conclude(ok)

LEMMA SenderQueues ==
  ASSUME Basic, SenderStep \/ AckTimeout
  PROVE  \/ UNCHANGED <<queue, picked>>
         \/ Pick
         \/ /\ Concludes /\ UNCHANGED <<picked, saltCount, toReceiver>>
            /\ RewindTail \/ ReceiveFileAck \/ ReceiveFileNack \/ AckTimeout
<1> USE DEF Concludes, Sending, Conclude
<1>1. CASE RewindTail
  BY <1>1 DEF RewindTail
<1>2. CASE ReceiveFileAck
  <2>1. (1..SegCount[Head(queue)] \subseteq stream.read) \in BOOLEAN
    OBVIOUS
  <2> QED
    BY <1>2, <2>1 DEF ReceiveFileAck
<1>3. CASE ReceiveFileNack
  BY <1>3 DEF ReceiveFileNack
<1>4. CASE AckTimeout
  BY <1>4 DEF AckTimeout
<1>5. CASE ~(RewindTail \/ ReceiveFileAck \/ ReceiveFileNack \/ AckTimeout)
  BY <1>5 DEF SenderStep, DrainLoop, SendFileStart, ReadSegment, SealRecord,
     SendRecord, SendFileEnd, ReceiveSegmentNack, ReceiveResumeOffer, RecoveryKick
<1> QED
  BY <1>1, <1>2, <1>3, <1>4, <1>5

LEMMA StepQueue == Basic /\ QueueInOrder /\ [Next]_vars =>
                     QueueInOrder' /\ (Concludes \/ HeadNo' = HeadNo)
<1> SUFFICES ASSUME Basic, QueueInOrder, [Next]_vars
             PROVE  QueueInOrder' /\ (Concludes \/ HeadNo' = HeadNo)
  OBVIOUS
<1>1. CASE UNCHANGED <<queue, picked>>
  BY <1>1 DEF QueueInOrder, HeadNo, Concluded
<1>2. CASE Pick
  <2>1. queue \in Seq(File) /\ picked \in Nat
    BY ConstantsAssumption DEF Basic, SenderOK
  <2>2. queue' = Append(queue, picked + 1) /\ picked' = picked + 1
    BY <1>2 DEF Pick
  <2>3. /\ Len(queue) \in Nat /\ Len(queue') = Len(queue) + 1
        /\ queue'[Len(queue) + 1] = picked + 1
        /\ \A i \in 1..Len(queue) : queue'[i] = queue[i]
    BY <2>1, <2>2
  <2>4. Concluded' = Concluded /\ picked + 1 = Concluded + (Len(queue) + 1)
    BY <2>1, <2>2, <2>3 DEF Concluded
  <2>5. Len(queue') <= picked'
    BY <2>1, <2>2, <2>3 DEF QueueInOrder
  <2>6. ASSUME NEW i \in 1..Len(queue') PROVE queue'[i] = Concluded' + i
    <3>1. CASE i \in 1..Len(queue)
      BY <2>3, <2>4, <3>1 DEF QueueInOrder
    <3>2. CASE i = Len(queue) + 1
      BY <2>3, <2>4, <3>2
    <3> QED
      BY <2>3, <2>6, <3>1, <3>2
  <2> QED
    BY <2>4, <2>5, <2>6 DEF QueueInOrder, HeadNo
<1>3. CASE Concludes /\ UNCHANGED picked
  BY <1>3, ConcludeTakesHead DEF Concludes
<1>4. CASE SenderStep \/ AckTimeout
  BY <1>1, <1>2, <1>3, <1>4, SenderQueues
<1>5. CASE ReceiverStep \/ PairingStep \/ UNCHANGED vars
  <2>1. UNCHANGED <<queue, picked>>
    BY <1>5 DEF ReceiverStep, ReceiveFileStart, ReceiveRecord, ReceiveSegmentRewind, ReceiveFileEnd,
       ReceiveResumeAck, OfferResume, AbortAbusiveStream, PairingStep, Drop, SenderNotices,
       ReceiverNotices, Reconnect, vars, senderVars
  <2> QED
    BY <1>1, <2>1
<1> QED
  BY <1>4, <1>5 DEF Next, PromptNext

-----------------------------------------------------------------------------
(* The sender page.                                                        *)

\* A frame of the head, which the sender page puts on the wire.
OfHead(m, owner) ==
    /\ Keyed(m) => owner[m.salt] = HeadNo
    /\ m.type = "file-start" => phase = "start"

HeadOfQueue == queue # <<>> => Head(queue) = HeadNo /\ Head(queue) \in File

LEMMA HeadInOrder == Basic /\ QueueInOrder => HeadOfQueue
<1> SUFFICES ASSUME Basic, QueueInOrder, queue # <<>>
             PROVE  Head(queue) = HeadNo /\ Head(queue) \in File
  BY DEF HeadOfQueue
<1>1. queue \in Seq(File)
  BY DEF Basic, SenderOK
<1>2. Head(queue) = queue[1] /\ 1 \in 1..Len(queue) /\ Head(queue) \in File
  BY <1>1
<1> QED
  BY <1>2 DEF QueueInOrder, HeadNo

LEMMA SenderSends ==
  ASSUME Basic, QueueInOrder, NEW owner, OrderInv(owner), owner[saltCount + 1] = HeadNo,
         SenderStep \/ AckTimeout
  PROVE  \/ toReceiver' = toReceiver
         \/ \E m \in ToReceiver :
               /\ toReceiver' = Append(toReceiver, m)
               /\ FrameOwned(m, owner)' /\ OfHead(m, owner)
               /\ m.type = "file-end" => phase' \in {"wait", "rewind"}
<1>1. /\ HeadOfQueue /\ SaltsOwned(owner) /\ saltCount \in Nat
      /\ stream.salt \in Nat /\ record.salt \in Nat /\ record.seq \in Nat
      /\ nackedSeq \in Seqs /\ toSender \in Seq(ToSender)
      /\ phase = "rewind" => nackedSeq \in Nat
      /\ Sending => queue # <<>> /\ stream.salt # 0
  BY HeadInOrder DEF OrderInv, Basic, SenderOK, WireOK, SendsHead, Seqs, None
<1>2. ASSUME NEW m \in ToReceiver, Transmit(m), FrameOwned(m, owner)', OfHead(m, owner),
             m.type = "file-end" => phase' \in {"wait", "rewind"}
      PROVE  \/ toReceiver' = toReceiver
             \/ \E n \in ToReceiver :
                   /\ toReceiver' = Append(toReceiver, n)
                   /\ FrameOwned(n, owner)' /\ OfHead(n, owner)
                   /\ n.type = "file-end" => phase' \in {"wait", "rewind"}
  BY <1>2 DEF Transmit
<1>3. CASE SendFileStart
  <2>1. CASE toReceiver' = toReceiver
    BY <2>1
  <2>2. CASE toReceiver' # toReceiver
    <3>0. PICK m : m = [type |-> "file-start", salt |-> stream.salt,
                        segCount |-> SegCount[Head(queue)]]
      OBVIOUS
    <3>1. Transmit(m) /\ phase = "start" /\ saltCount' = saltCount
      BY <3>0, <1>3, <2>2 DEF SendFileStart
    <3>2. queue # <<>> /\ stream.salt # 0
      BY <1>1, <3>1 DEF Sending
    <3>3. SegCount[Head(queue)] \in Nat
      BY <1>1, <3>2, ConstantsAssumption DEF HeadOfQueue
    <3>4. m \in ToReceiver /\ m.type = "file-start" /\ m.salt = stream.salt
      BY <3>0, <1>1, <3>3 DEF ToReceiver
    <3>5. FrameOwned(m, owner)' /\ OfHead(m, owner)
      BY <1>1, <3>1, <3>2, <3>4 DEF FrameOwned, OfHead, SaltsOwned
    <3> QED
      BY <1>2, <3>1, <3>4, <3>5
  <2> QED
    BY <2>1, <2>2
<1>4. CASE SendRecord
  <2>1. CASE toReceiver' = toReceiver
    BY <2>1
  <2>2. CASE toReceiver' # toReceiver
    <3>0. PICK m : m = [type |-> "record", seq |-> record.seq,
                       salt |-> record.salt, file |-> Head(queue)]
      OBVIOUS
    <3>1. Transmit(m) /\ phase = "seal" /\ saltCount' = saltCount
      BY <3>0, <1>4, <2>2 DEF SendRecord
    <3>2. queue # <<>> /\ record.salt \in 1..saltCount /\ owner[record.salt] = HeadNo
      BY <1>1, <3>1 DEF Sending, SaltsOwned
    <3>3. Head(queue) = HeadNo /\ Head(queue) \in 0..NumFiles
      BY <1>1, <3>2, ConstantsAssumption DEF HeadOfQueue, File
    <3>4. /\ m \in ToReceiver /\ m.type = "record" /\ m.salt = record.salt
          /\ m.file = HeadNo
      BY <3>0, <1>1, <3>3 DEF ToReceiver
    <3>5. FrameOwned(m, owner)' /\ OfHead(m, owner)
      BY <1>1, <3>1, <3>2, <3>4 DEF FrameOwned, OfHead, Keyed
    <3> QED
      BY <1>2, <3>1, <3>4, <3>5
  <2> QED
    BY <2>1, <2>2
<1>5. CASE SendFileEnd
  <2>1. CASE toReceiver' = toReceiver
    BY <2>1
  <2>2. CASE toReceiver' # toReceiver
    <3>0. PICK m : m = [type |-> "file-end"]
      OBVIOUS
    <3>1. Transmit(m) /\ phase' \in {"wait", "rewind"}
      BY <3>0, <1>5, <2>2 DEF SendFileEnd, AfterFileEnd
    <3>2. m \in ToReceiver /\ m.type = "file-end"
      BY <3>0 DEF ToReceiver
    <3>3. FrameOwned(m, owner)' /\ OfHead(m, owner)
      BY <3>2 DEF FrameOwned, OfHead, Keyed
    <3> QED
      BY <1>2, <3>1, <3>2, <3>3
  <2> QED
    BY <2>1, <2>2
<1>6. CASE RewindTail
  <2>1. CASE toReceiver' = toReceiver
    BY <2>1
  <2>2. CASE toReceiver' # toReceiver
    <3>0. PICK m : m = [type |-> "segment-rewind", seq |-> nackedSeq, salt |-> saltCount + 1]
      OBVIOUS
    <3>1. /\ Transmit(m) /\ phase = "rewind" /\ saltCount' = saltCount + 1
      <4>1. stream' = Rewound(stream, nackedSeq) /\ phase = "rewind" /\ saltCount' = saltCount + 1
            /\ Transmit([type |-> "segment-rewind", seq |-> nackedSeq, salt |-> stream'.salt])
        BY <1>6, <2>2 DEF RewindTail
      <4>2. stream'.salt = saltCount + 1
        BY <1>1, <4>1, RewoundTyped DEF Basic
      <4> QED
        BY <3>0, <4>1, <4>2
    <3>2. /\ m \in ToReceiver /\ m.type = "segment-rewind" /\ m.salt = saltCount + 1
      BY <3>0, <1>1, <3>1 DEF ToReceiver
    <3>3. FrameOwned(m, owner)' /\ OfHead(m, owner)
      BY <1>1, <3>1, <3>2 DEF FrameOwned, OfHead, Keyed
    <3> QED
      BY <1>2, <3>1, <3>2, <3>3
  <2> QED
    BY <2>1, <2>2
<1>7. CASE ReceiveResumeOffer
  <2>1. Head(toSender).seq \in Nat
    BY <1>7, TakenFromReceiver, ToSenderFields DEF ReceiveResumeOffer, Basic
  <2>2. CASE Transmit([type |-> "file-resume-ack", seq |-> 0, salt |-> 0])
    <3>0. PICK m : m = [type |-> "file-resume-ack", seq |-> 0, salt |-> 0]
      OBVIOUS
    <3>1. m \in ToReceiver /\ m.type = "file-resume-ack" /\ m.salt = 0 /\ m.seq = 0
      BY <3>0 DEF ToReceiver
    <3>2. Transmit(m)
      BY <3>0, <2>2
    <3>3. FrameOwned(m, owner)' /\ OfHead(m, owner)
      BY <3>1 DEF FrameOwned, OfHead, Keyed
    <3> QED
      BY <1>2, <3>1, <3>2, <3>3
  <2>3. CASE \E seq \in Nat : /\ seq > 0 /\ saltCount' = saltCount + 1
                              /\ Transmit([type |-> "file-resume-ack", seq |-> seq,
                                           salt |-> saltCount + 1])
    <3>1. PICK seq \in Nat : /\ seq > 0 /\ saltCount' = saltCount + 1
                             /\ Transmit([type |-> "file-resume-ack", seq |-> seq,
                                          salt |-> saltCount + 1])
      BY <2>3
    <3>0. PICK m : m = [type |-> "file-resume-ack", seq |-> seq, salt |-> saltCount + 1]
      OBVIOUS
    <3>2. /\ m \in ToReceiver /\ m.type = "file-resume-ack" /\ m.salt = saltCount + 1
          /\ m.seq # 0 /\ Transmit(m)
      BY <3>0, <1>1, <3>1 DEF ToReceiver
    <3>3. FrameOwned(m, owner)' /\ OfHead(m, owner)
      BY <1>1, <3>1, <3>2 DEF FrameOwned, OfHead, Keyed
    <3> QED
      BY <1>2, <3>2, <3>3
  <2>4. \/ Transmit([type |-> "file-resume-ack", seq |-> 0, salt |-> 0])
        \/ /\ Head(toSender).seq > 0 /\ saltCount' = saltCount + 1
           /\ stream' = Rewound(stream, Head(toSender).seq)
           /\ Transmit([type |-> "file-resume-ack", seq |-> Head(toSender).seq,
                        salt |-> stream'.salt])
    BY <1>7 DEF ReceiveResumeOffer
  <2>5. stream' = Rewound(stream, Head(toSender).seq) => stream'.salt = saltCount + 1
    BY <1>1, <2>1, RewoundTyped DEF Basic
  <2> QED
    BY <2>1, <2>2, <2>3, <2>4, <2>5
<1>8. CASE ~(SendFileStart \/ SendRecord \/ SendFileEnd \/ RewindTail \/ ReceiveResumeOffer)
  BY <1>8 DEF SenderStep, AckTimeout, Pick, DrainLoop, ReadSegment, SealRecord,
     ReceiveFileAck, ReceiveFileNack, ReceiveSegmentNack, RecoveryKick
<1> QED
  BY <1>3, <1>4, <1>5, <1>6, <1>7, <1>8

\* Every action of the sender page that does not conclude keeps the stream's
\* salt or draws the next one, and seals under the stream's own salt.
LEMMA SenderKeys ==
  ASSUME Basic, SenderStep \/ AckTimeout, UNCHANGED <<queue, picked>> \/ Pick
  PROVE  /\ \/ saltCount' = saltCount /\ stream'.salt = stream.salt
            \/ /\ saltCount' = saltCount + 1 /\ stream'.salt = saltCount + 1
               /\ queue # <<>> /\ UNCHANGED <<queue, picked>>
         /\ phase' = "seal" =>
              \/ phase = "seal" /\ record' = record
              \/ phase \in {"pump", "read"} /\ record'.salt = stream.salt
<1>1. /\ SenderOK /\ WireOK /\ stream.salt \in Nat /\ stream.nextSeq \in Nat
      /\ stream \in [salt : Nat, nextSeq : Nat, read : SUBSET Nat]
      /\ queue \in Seq(File)
      /\ Sending => queue # <<>>
      /\ phase = "rewind" => nackedSeq \in Nat
  BY DEF Basic, SenderOK, SendsHead, Seqs, None
<1>2. \A n : [stream EXCEPT !.nextSeq = n].salt = stream.salt
  BY <1>1
<1>3. CASE DrainLoop
  <2>1. CASE UNCHANGED <<stream, saltCount>>
    BY <1>3, <2>1 DEF DrainLoop
  <2>2. CASE /\ stream' = Rewound(stream, 0) /\ saltCount' = saltCount + 1
             /\ queue # <<>> /\ phase' = "start"
    BY <1>1, <1>3, <2>2, RewoundTyped DEF DrainLoop
  <2> QED
    BY <1>3, <2>1, <2>2 DEF DrainLoop
<1>4. CASE RewindTail
  <2>1. CASE Conclude(FALSE)
    <3>1. phase = "rewind" /\ queue # <<>> /\ queue' = Tail(queue) /\ ~Pick
      BY <1>1, <1>4, <2>1 DEF RewindTail, Conclude, Sending, Pick
    <3>2. queue' # queue
      BY <1>1, <3>1
    <3> QED
      BY <3>1, <3>2
  <2>2. CASE stream' = Rewound(stream, nackedSeq) /\ saltCount' = saltCount + 1
    <3>1. phase = "rewind" /\ phase' # "seal"
      BY <1>4, <2>2 DEF RewindTail, PauseOnTransient, Conclude
    <3>2. queue # <<>>
      BY <1>1, <3>1 DEF Sending
    <3>3. saltCount' # saltCount
      BY <2>2 DEF Basic, SenderOK
    <3>4. UNCHANGED <<queue, picked>>
      BY <3>3 DEF Pick
    <3> QED
      BY <1>1, <2>2, <3>1, <3>2, <3>4, RewoundTyped
  <2> QED
    BY <1>4, <2>1, <2>2 DEF RewindTail
<1>5. CASE ReceiveResumeOffer
  <2>1. Head(toSender).seq \in Nat
    BY <1>1, <1>5, TakenFromReceiver, ToSenderFields DEF ReceiveResumeOffer
  <2>2. phase' = "seal" => phase = "seal" /\ record' = record
    BY <1>5 DEF ReceiveResumeOffer, PauseOnTransient
  <2>3. \/ UNCHANGED <<stream, saltCount>>
        \/ /\ stream' = Rewound(stream, Head(toSender).seq) /\ saltCount' = saltCount + 1
           /\ queue # <<>> /\ UNCHANGED <<queue, picked>>
    BY <1>5 DEF ReceiveResumeOffer
  <2> QED
    BY <1>1, <2>1, <2>2, <2>3, RewoundTyped
<1>6. CASE ReadSegment
  BY <1>1, <1>6 DEF ReadSegment
<1>7. CASE SealRecord
  BY <1>7 DEF SealRecord
<1>8. CASE SendRecord
  BY <1>2, <1>8 DEF SendRecord, PauseOnTransient
<1>9. CASE ReceiveFileAck \/ ReceiveFileNack \/ AckTimeout
  <2>1. (phase = "wait" /\ \E ok : Conclude(ok)) \/ UNCHANGED <<queue, stream, phase, saltCount, record>>
    BY <1>9 DEF ReceiveFileAck, ReceiveFileNack, AckTimeout
  <2>2. CASE phase = "wait" /\ \E ok : Conclude(ok)
    <3>1. queue # <<>> /\ queue' = Tail(queue)
      BY <1>1, <2>2 DEF Conclude, Sending
    <3>2. queue' # queue /\ ~Pick
      BY <1>1, <1>9, <3>1 DEF ReceiveFileAck, ReceiveFileNack, AckTimeout, Pick
    <3> QED
      BY <3>2
  <2> QED
    BY <2>1, <2>2
<1>10. CASE Pick \/ SendFileStart \/ SendFileEnd \/ ReceiveSegmentNack \/ RecoveryKick
  BY <1>10 DEF Pick, SendFileStart, SendFileEnd, ReceiveSegmentNack, RecoveryKick,
     PauseOnTransient, AfterFileEnd
<1> QED
  BY <1>3, <1>4, <1>5, <1>6, <1>7, <1>8, <1>9, <1>10 DEF SenderStep

LEMMA SenderSalts ==
  ASSUME Basic, QueueInOrder, NEW owner, SaltsOwned(owner), owner[saltCount + 1] = HeadNo,
         SenderStep \/ AckTimeout
  PROVE  SaltsOwned(owner)'
<1>1. /\ queue \in Seq(File) /\ picked \in Nat /\ Len(queue) \in Nat /\ Len(queue) <= picked
      /\ saltCount \in Nat /\ stream.salt \in Nat /\ HeadNo \in Nat \ {0}
      /\ (Sending => queue # <<>> /\ stream.salt # 0)
      /\ HeadNo = picked - Len(queue) + 1
  BY ConstantsAssumption DEF Basic, SenderOK, SendsHead, QueueInOrder, HeadNo, Concluded
<1>2. Owning(owner)' /\ owner[0] = 0
  BY DEF SaltsOwned, Owning
<1>3. CASE Concludes /\ UNCHANGED <<picked, saltCount>>
  <2>1. HeadNo' = HeadNo + 1
    BY <1>3, ConcludeTakesHead DEF Concludes
  <2>2. stream'.salt = 0 /\ phase' = "loop"
    BY <1>3 DEF Concludes, NoStream
  <2>3. \A s \in 1..saltCount : owner[s] \in 1..HeadNo' /\ owner[s] <= picked'
    BY <1>1, <1>3, <2>1 DEF SaltsOwned
  <2> QED
    BY <1>2, <1>3, <2>2, <2>3 DEF SaltsOwned
<1>4. CASE UNCHANGED <<queue, picked>> \/ Pick
  <2>1. /\ HeadNo' = HeadNo /\ picked' \in Nat /\ picked <= picked'
        /\ queue # <<>> => queue' # <<>>
    BY <1>1, <1>4 DEF Pick, HeadNo, Concluded
  <2>2. /\ \/ saltCount' = saltCount /\ stream'.salt = stream.salt
           \/ /\ saltCount' = saltCount + 1 /\ stream'.salt = saltCount + 1
              /\ queue # <<>> /\ UNCHANGED <<queue, picked>>
        /\ phase' = "seal" =>
              \/ phase = "seal" /\ record' = record
              \/ phase \in {"pump", "read"} /\ record'.salt = stream.salt
    BY <1>4, SenderKeys
  <2>3. saltCount' \in Nat /\ saltCount <= saltCount'
    BY <1>1, <2>2
  <2>4. \A s \in 1..saltCount : owner[s] \in 1..HeadNo' /\ owner[s] <= picked'
    BY <1>1, <2>1 DEF SaltsOwned
  <2>5. \A s \in 1..saltCount' : owner[s] \in 1..HeadNo' /\ owner[s] <= picked'
    <3>1. CASE saltCount' = saltCount
      BY <2>4, <3>1
    <3>2. CASE saltCount' = saltCount + 1 /\ queue # <<>> /\ UNCHANGED <<queue, picked>>
      <4>1. owner[saltCount + 1] \in 1..HeadNo' /\ owner[saltCount + 1] <= picked'
        <5>1. Len(queue) >= 1
          BY <1>1, <3>2
        <5> QED
          BY <1>1, <2>1, <3>2, <5>1
      <4>2. 1..saltCount' = (1..saltCount) \cup {saltCount + 1}
        BY <1>1, <3>2
      <4> QED
        BY <2>4, <4>1, <4>2
    <3> QED
      BY <2>2, <3>1, <3>2
  <2>6. stream'.salt # 0 => /\ queue' # <<>> /\ stream'.salt <= saltCount'
                            /\ owner[stream'.salt] = HeadNo'
    BY <1>1, <2>1, <2>2 DEF SaltsOwned
  <2>7. phase' = "seal" => record'.salt \in 1..saltCount' /\ owner[record'.salt] = HeadNo'
    <3> SUFFICES ASSUME phase' = "seal"
                 PROVE  record'.salt \in 1..saltCount /\ owner[record'.salt] = HeadNo
      BY <1>1, <2>1, <2>3
    <3>1. CASE phase = "seal" /\ record' = record
      BY <3>1 DEF SaltsOwned
    <3>2. CASE phase \in {"pump", "read"} /\ record'.salt = stream.salt
      BY <1>1, <3>2 DEF SaltsOwned, Sending
    <3> QED
      BY <2>2, <3>1, <3>2
  <2> QED
    BY <1>2, <2>5, <2>6, <2>7 DEF SaltsOwned
<1> QED
  BY <1>3, <1>4, SenderQueues

\* No key on either page is of a file beyond the head.
LEMMA UpToHead ==
  ASSUME Basic, QueueInOrder, NEW owner, OrderInv(owner)
  PROVE  /\ HeadNo \in Nat \ {0} /\ owner[receiver.salt] \in 0..HeadNo
         /\ \A i \in 1..Len(toReceiver) :
              /\ toReceiver[i] \in ToReceiver
              /\ Keyed(toReceiver[i]) => /\ toReceiver[i].salt \in 1..saltCount
                                         /\ owner[toReceiver[i].salt] \in 1..HeadNo
         /\ \A i \in 1..Len(toReceiver) :
              toReceiver[i].type = "file-start" => Keyed(toReceiver[i])
<1>1. /\ saltCount \in Nat /\ receiver.salt \in Nat /\ toReceiver \in Seq(ToReceiver)
      /\ picked \in Nat /\ Len(queue) \in Nat /\ Len(queue) <= picked
  BY ConstantsAssumption DEF Basic, SenderOK, ReceiverOK, WireOK, QueueInOrder
<1>2. HeadNo \in Nat \ {0}
  BY <1>1 DEF HeadNo, Concluded
<1>3. owner[receiver.salt] \in 0..HeadNo
  <2>1. receiver.salt = 0 \/ receiver.salt \in 1..saltCount
    BY <1>1 DEF OrderInv, ReceiverOwned
  <2> QED
    BY <1>2, <2>1 DEF OrderInv, SaltsOwned
<1>4. ASSUME NEW i \in 1..Len(toReceiver), Keyed(toReceiver[i])
      PROVE  toReceiver[i].salt \in 1..saltCount /\ owner[toReceiver[i].salt] \in 1..HeadNo
  <2>1. toReceiver[i] \in ToReceiver
    BY <1>1, <1>4
  <2>2. toReceiver[i].salt \in Nat /\ toReceiver[i].salt # 0
    BY <1>4, <2>1, ToReceiverSalt DEF Keyed
  <2>3. toReceiver[i].salt <= saltCount
    BY <1>4 DEF OrderInv, FramesOwned, FrameOwned
  <2>4. toReceiver[i].salt \in 1..saltCount
    BY <1>1, <2>2, <2>3
  <2> QED
    BY <2>4 DEF OrderInv, SaltsOwned
<1>5. \A i \in 1..Len(toReceiver) : toReceiver[i] \in ToReceiver
  BY <1>1
<1>6. \A i \in 1..Len(toReceiver) : toReceiver[i].type = "file-start" => Keyed(toReceiver[i])
  BY DEF OrderInv, FramesOwned, FrameOwned, Keyed
<1> QED
  BY <1>2, <1>3, <1>4, <1>5, <1>6

\* What a step of the sender page puts on the wire belongs at its end.
LEMMA SenderWire ==
  ASSUME Basic, Basic', QueueInOrder, NEW owner, OrderInv(owner), owner[saltCount + 1] = HeadNo,
         SenderStep \/ AckTimeout
  PROVE  /\ FramesOwned(owner)' /\ ReceiverOwned(owner)' /\ InLine(owner)'
         /\ \A i \in 1..Len(toReceiver') :
              toReceiver'[i].type = "file-start" =>
                \/ i \in 1..Len(toReceiver) /\ toReceiver'[i] = toReceiver[i]
                \/ owner[toReceiver'[i].salt] = HeadNo /\ phase = "start"
         /\ \A f \in Nat : \A i \in 1..Len(toReceiver') :
              EndsAt(toReceiver', owner[receiver'.salt], owner, f, i) =>
                \/ i \in 1..Len(toReceiver) /\ EndsAt(toReceiver, owner[receiver.salt], owner, f, i)
                \/ phase' \in {"wait", "rewind"}
<1>1. /\ UNCHANGED receiver /\ saltCount \in Nat /\ saltCount' \in Nat
      /\ saltCount <= saltCount'
      /\ receiver.salt \in Nat /\ toReceiver \in Seq(ToReceiver) /\ toReceiver' \in Seq(ToReceiver)
      /\ Len(toReceiver) \in Nat
  <2>1. UNCHANGED receiver
    BY DEF SenderStep, AckTimeout, Pick, DrainLoop, SendFileStart, ReadSegment, SealRecord,
       SendRecord, SendFileEnd, RewindTail, ReceiveFileAck, ReceiveFileNack, ReceiveSegmentNack,
       ReceiveResumeOffer, RecoveryKick, receiverVars
  <2>2. saltCount \in Nat /\ saltCount' \in Nat
    BY DEF Basic, SenderOK
  <2>3. saltCount' = saltCount \/ saltCount' = saltCount + 1
    BY SenderKeys, SenderQueues
  <2> QED
    BY <2>1, <2>2, <2>3 DEF Basic, ReceiverOK, WireOK
<1>2. Owning(owner) /\ Line(toReceiver, owner[receiver.salt], owner)
  BY DEF OrderInv, SaltsOwned, InLine
<1>3. ReceiverOwned(owner)'
  BY <1>1 DEF OrderInv, ReceiverOwned
<1>4. \A i \in 1..Len(toReceiver) : FrameOwned(toReceiver[i], owner) /\ toReceiver[i] \in ToReceiver
  BY <1>1 DEF OrderInv, FramesOwned
<1>5. ASSUME NEW m \in ToReceiver, FrameOwned(m, owner)
      PROVE  FrameOwned(m, owner)'
  <2>1. m.type # "file-end" => m.salt \in Nat
    BY ToReceiverSalt
  <2> QED
    BY <1>1, <1>5, <2>1 DEF FrameOwned, Keyed
<1>6. CASE toReceiver' = toReceiver
  <2>1. FramesOwned(owner)'
    BY <1>4, <1>5, <1>6 DEF FramesOwned
  <2>2. InLine(owner)'
    BY <1>1, <1>2, <1>6 DEF InLine
  <2> QED
    BY <1>1, <1>3, <1>6, <2>1, <2>2
<1>7. CASE \E m \in ToReceiver :
               /\ toReceiver' = Append(toReceiver, m)
               /\ FrameOwned(m, owner)' /\ OfHead(m, owner)
               /\ m.type = "file-end" => phase' \in {"wait", "rewind"}
  <2>1. PICK m \in ToReceiver :
               /\ toReceiver' = Append(toReceiver, m)
               /\ FrameOwned(m, owner)' /\ OfHead(m, owner)
               /\ m.type = "file-end" => phase' \in {"wait", "rewind"}
    BY <1>7
  <2>2. /\ Len(toReceiver') = Len(toReceiver) + 1 /\ toReceiver'[Len(toReceiver) + 1] = m
        /\ \A i \in 1..Len(toReceiver) : toReceiver'[i] = toReceiver[i]
    BY <1>1, <2>1
  <2>3. FramesOwned(owner)'
    <3>1. PICK w : w = toReceiver'
      OBVIOUS
    <3>2. ASSUME NEW i \in 1..Len(w) PROVE FrameOwned(w[i], owner)'
      <4>1. CASE i \in 1..Len(toReceiver)
        <5>1. w[i] \in ToReceiver /\ FrameOwned(w[i], owner)
          BY <1>4, <2>2, <3>1, <4>1
        <5> QED
          BY <1>5, <5>1
      <4>2. CASE i = Len(toReceiver) + 1
        <5>1. w[i] = m
          BY <2>2, <3>1, <4>2
        <5> QED
          BY <2>1, <5>1 DEF FrameOwned
      <4> QED
        BY <1>1, <2>2, <3>1, <3>2, <4>1, <4>2
    <3> QED
      BY <3>1, <3>2 DEF FramesOwned, FrameOwned
  <2>4. Joins(m, toReceiver, owner[receiver.salt], owner)
    <3>1. Keyed(m) => /\ owner[receiver.salt] <= owner[m.salt]
                      /\ \A i \in 1..Len(toReceiver) :
                           Keyed(toReceiver[i]) => owner[toReceiver[i].salt] <= owner[m.salt]
      BY <2>1, UpToHead DEF OfHead
    <3>2. ASSUME m.type = "file-start", NEW i \in 1..Len(toReceiver)
          PROVE  ~EndsAt(toReceiver, owner[receiver.salt], owner, owner[m.salt], i)
      <4>1. phase = "start" /\ Keyed(m)
        BY <2>1, <3>2 DEF OfHead, FrameOwned, Keyed
      <4>2. owner[m.salt] = HeadNo
        BY <2>1, <4>1 DEF OfHead
      <4>3. ~HeadEnded(owner)
        BY <4>1 DEF OrderInv, HeadIsOver
      <4> QED
        BY <4>2, <4>3 DEF HeadEnded
    <3> QED
      BY <3>1, <3>2 DEF Joins
  <2>5. owner[receiver.salt] \in Nat
    BY <1>1, <1>2, OwnerIsNat
  <2>6. /\ Line(toReceiver', owner[receiver.salt], owner)
        /\ \A f \in Nat : \A i \in 1..Len(toReceiver) + 1 :
              EndsAt(toReceiver', owner[receiver.salt], owner, f, i)
                => \/ i \in 1..Len(toReceiver)
                      /\ EndsAt(toReceiver, owner[receiver.salt], owner, f, i)
                   \/ i = Len(toReceiver) + 1 /\ m.type = "file-end"
    BY <1>1, <1>2, <2>1, <2>4, <2>5, LineAppend
  <2>7. \A i \in 1..Len(toReceiver') :
              toReceiver'[i].type = "file-start" =>
                \/ i \in 1..Len(toReceiver) /\ toReceiver'[i] = toReceiver[i]
                \/ owner[toReceiver'[i].salt] = HeadNo /\ phase = "start"
    <3> SUFFICES ASSUME NEW i \in 1..Len(toReceiver'), toReceiver'[i].type = "file-start",
                        i \notin 1..Len(toReceiver)
                 PROVE  owner[toReceiver'[i].salt] = HeadNo /\ phase = "start"
      BY <2>2
    <3>1. toReceiver'[i] = m
      BY <1>1, <2>2
    <3>2. Keyed(m)
      BY <2>1, <3>1 DEF FrameOwned, Keyed
    <3> QED
      BY <2>1, <3>1, <3>2 DEF OfHead
  <2>8. \A f \in Nat : \A i \in 1..Len(toReceiver') :
              EndsAt(toReceiver', owner[receiver'.salt], owner, f, i) =>
                \/ i \in 1..Len(toReceiver) /\ EndsAt(toReceiver, owner[receiver.salt], owner, f, i)
                \/ phase' \in {"wait", "rewind"}
    BY <1>1, <2>1, <2>2, <2>6
  <2>9. InLine(owner)'
    BY <1>1, <2>6 DEF InLine
  <2> QED
    BY <1>3, <2>3, <2>7, <2>8, <2>9
<1> QED
  BY <1>6, <1>7, SenderSends

\* Where the sender page goes from a send or a pause it may not leave for the
\* drain loop.
LEMMA SenderPhases ==
  ASSUME Basic, SenderStep \/ AckTimeout, UNCHANGED <<queue, picked>> \/ Pick,
         phase \notin {"loop", "start"},
         phase = "idle" => pausedOnTransient /\ NoOffer
  PROVE  /\ phase' \notin {"loop", "start"}
         /\ phase' = "idle" => /\ pausedOnTransient'
                               /\ phase = "idle" \/ ~senderOpen
         /\ toSender' = toSender \/ (toSender # <<>> /\ toSender' = Tail(toSender))
<1>1. queue \in Seq(File) /\ toSender \in Seq(ToSender) /\ (Sending => queue # <<>>)
  BY DEF Basic, SenderOK, SendsHead, WireOK
<1>2. toSender' = toSender \/ (toSender # <<>> /\ toSender' = Tail(toSender))
  BY DEF SenderStep, AckTimeout, Pick, DrainLoop, SendFileStart, ReadSegment, SealRecord,
     SendRecord, SendFileEnd, RewindTail, ReceiveFileAck, ReceiveFileNack, ReceiveSegmentNack,
     ReceiveResumeOffer, RecoveryKick, TakeFromReceiver
<1>3. CASE ReceiveResumeOffer
  <2>1. ~NoOffer
    <3>1. /\ toSender # <<>> /\ Head(toSender).type = "file-resume-offer"
          /\ Head(toSender) = toSender[1] /\ 1 \in 1..Len(toSender)
      BY <1>1, <1>3 DEF ReceiveResumeOffer, TakeFromReceiver
    <3> QED
      BY <3>1 DEF NoOffer
  <2>2. phase # "idle"
    BY <2>1
  <2> QED
    BY <1>2, <1>3, <2>2 DEF ReceiveResumeOffer
<1>4. CASE RewindTail \/ ReceiveFileAck \/ ReceiveFileNack \/ AckTimeout
  <2>1. ASSUME NEW ok, Conclude(ok), Sending PROVE FALSE
    <3>1. queue' = Tail(queue) /\ queue # <<>> /\ queue' # queue
      BY <1>1, <2>1 DEF Conclude
    <3>2. Pick
      BY <3>1
    <3> QED
      BY <1>1, <3>1, <3>2 DEF Pick
  <2>2. CASE RewindTail
    BY <1>2, <2>1, <2>2 DEF RewindTail, PauseOnTransient, Sending
  <2>3. CASE ReceiveFileAck \/ ReceiveFileNack \/ AckTimeout
    BY <1>2, <2>1, <2>3 DEF ReceiveFileAck, ReceiveFileNack, AckTimeout, Sending
  <2> QED
    BY <1>4, <2>2, <2>3
<1>5. CASE Pick \/ DrainLoop \/ SendFileStart \/ ReadSegment \/ SealRecord \/ RecoveryKick
  BY <1>2, <1>5 DEF Pick, DrainLoop, SendFileStart, ReadSegment, SealRecord, RecoveryKick
<1>6. CASE SendRecord \/ SendFileEnd \/ ReceiveSegmentNack
  BY <1>2, <1>6 DEF SendRecord, SendFileEnd, ReceiveSegmentNack, PauseOnTransient, AfterFileEnd
<1> QED
  BY <1>3, <1>4, <1>5, <1>6 DEF SenderStep

\* What is shown is made of files.
LEMMA FilesAreNat ==
  ASSUME Basic, NeverTruncated, NEW f \in ShownFiles
  PROVE  f \in 0..NumFiles
<1>1. PICK i \in 1..Len(displayed) : f = displayed[i][Len(displayed[i])]
  BY DEF ShownFiles, LastOf
<1>2. displayed[i] \in Seq(0..NumFiles) /\ displayed[i] # <<>>
  BY DEF Basic, ReceiverOK, NeverTruncated, Untruncated
<1>3. PICK parts \in Seq(0..NumFiles) : parts = displayed[i] /\ parts # <<>>
  BY <1>2
<1>4. parts[Len(parts)] \in 0..NumFiles
  <2>1. parts \in Seq(0..NumFiles) /\ Len(parts) \in 1..Len(parts)
    BY <1>3
  <2> QED
    BY <2>1, ElementOfSeq
<1> QED
  BY <1>1, <1>3, <1>4

LEMMA NoOfferTail ==
  ASSUME toSender \in Seq(ToSender), NoOffer,
         toSender' = toSender \/ (toSender # <<>> /\ toSender' = Tail(toSender))
  PROVE  NoOffer'
<1>1. CASE toSender' = toSender
  BY <1>1 DEF NoOffer
<1>2. CASE toSender # <<>> /\ toSender' = Tail(toSender)
  <2>1. \A i \in 1..Len(toSender') : i + 1 \in 1..Len(toSender) /\ toSender'[i] = toSender[i + 1]
    BY <1>2
  <2> QED
    BY <2>1 DEF NoOffer
<1> QED
  BY <1>1, <1>2

\* Nothing that is shown, and no key in use, is of the file after the head.
LEMMA NextIsUnknown ==
  ASSUME Basic, QueueInOrder, NeverTruncated, NEW owner, OrderInv(owner),
         UNCHANGED <<toReceiver, receiver, displayed>>, HeadNo' = HeadNo + 1
  PROVE  HeadNo' \notin ShownFiles' /\ ~HeadEnded(owner)'
<1>1. HeadNo \in Nat /\ owner[receiver.salt] \in 0..HeadNo
  BY UpToHead
<1>2. \A i \in 1..Len(toReceiver) :
         Keyed(toReceiver[i]) => owner[toReceiver[i].salt] \in 1..HeadNo
  BY UpToHead
<1>3. ShownFiles' = ShownFiles
  BY DEF ShownFiles
<1>4. \A f \in ShownFiles : f <= HeadNo
  BY DEF OrderInv, ShownBehind
<1>5. HeadNo' \notin ShownFiles'
  <2>1. \A f \in ShownFiles : f \in Nat
    BY FilesAreNat, ConstantsAssumption
  <2> QED
    BY <1>1, <1>3, <1>4, <2>1
<1>6. ASSUME NEW i \in 1..Len(toReceiver)
      PROVE  ~EndsAt(toReceiver, owner[receiver.salt], owner, HeadNo + 1, i)
  BY <1>1, <1>2 DEF EndsAt
<1>7. ~HeadEnded(owner)'
  BY <1>6 DEF HeadEnded
<1> QED
  BY <1>5, <1>7

\* A pick joins the queue at its end.
LEMMA HeadStays ==
  ASSUME Basic, UNCHANGED <<queue, picked>> \/ Pick
  PROVE  HeadNo' = HeadNo /\ Concluded' = Concluded
<1>1. queue \in Seq(File) /\ picked \in Nat
  BY ConstantsAssumption DEF Basic, SenderOK
<1>2. CASE UNCHANGED <<queue, picked>>
  BY <1>2 DEF HeadNo, Concluded
<1>3. CASE Pick
  <2>1. Len(queue') = Len(queue) + 1 /\ picked' = picked + 1 /\ Len(queue) \in Nat
    BY <1>1, <1>3 DEF Pick
  <2> QED
    BY <1>1, <2>1 DEF HeadNo, Concluded
<1> QED
  BY <1>2, <1>3

LEMMA SenderOrder ==
  ASSUME Basic, Basic', BreakOK, QueueInOrder, NeverTruncated, NEW owner, OrderInv(owner),
         owner[saltCount + 1] = HeadNo, SenderStep \/ AckTimeout
  PROVE  OrderInv(owner)'
<1>1. /\ UNCHANGED <<receiver, displayed, aborted>> /\ toSender \in Seq(ToSender)
      /\ toReceiver \in Seq(ToReceiver)
  BY DEF SenderStep, AckTimeout, Pick, DrainLoop, SendFileStart, ReadSegment, SealRecord,
     SendRecord, SendFileEnd, RewindTail, ReceiveFileAck, ReceiveFileNack, ReceiveSegmentNack,
     ReceiveResumeOffer, RecoveryKick, receiverVars, Basic, WireOK
<1>2. HeadNo \in Nat /\ SaltsOwned(owner)' /\ ShownFiles' = ShownFiles
  BY <1>1, UpToHead, SenderSalts DEF OrderInv, ShownFiles
<1>3. FramesOwned(owner)' /\ ReceiverOwned(owner)' /\ InLine(owner)'
  BY SenderWire
<1>4. \/ Concludes /\ UNCHANGED <<picked, toReceiver>>
      \/ UNCHANGED <<queue, picked>> \/ Pick
  BY SenderQueues
<1>5. Concludes /\ UNCHANGED picked => HeadNo' = HeadNo + 1
  BY ConcludeTakesHead DEF Concludes
<1>6. HeadNo' = HeadNo \/ HeadNo' = HeadNo + 1
  BY <1>4, <1>5, HeadStays
<1>7. ShownBehind(owner)'
  <2> SUFFICES ASSUME NEW f \in ShownFiles
               PROVE  /\ f <= HeadNo'
                      /\ receiver.salt # 0 => /\ owner[receiver.salt] > f
                                              /\ \A k \in 1..Len(receiver.parts) : receiver.parts[k] > f
                      /\ \A i \in 1..Len(toReceiver') :
                            toReceiver'[i].type = "file-start" => owner[toReceiver'[i].salt] > f
    BY <1>1, <1>2 DEF ShownBehind
  <2>0. f \in Nat
    BY FilesAreNat, ConstantsAssumption
  <2>1. f <= HeadNo'
    BY <1>2, <1>6, <2>0 DEF OrderInv, ShownBehind
  <2>2. receiver.salt # 0 => /\ owner[receiver.salt] > f
                             /\ \A k \in 1..Len(receiver.parts) : receiver.parts[k] > f
    BY DEF OrderInv, ShownBehind
  <2>3. ASSUME NEW i \in 1..Len(toReceiver'), toReceiver'[i].type = "file-start"
        PROVE  owner[toReceiver'[i].salt] > f
    <3>1. CASE i \in 1..Len(toReceiver) /\ toReceiver'[i] = toReceiver[i]
      BY <2>3, <3>1 DEF OrderInv, ShownBehind
    <3>2. CASE owner[toReceiver'[i].salt] = HeadNo /\ phase = "start"
      <4>1. HeadNo \notin ShownFiles
        BY <3>2 DEF OrderInv, HeadIsOver
      <4>2. f <= HeadNo /\ f # HeadNo
        BY <4>1 DEF OrderInv, ShownBehind
      <4> QED
        BY <1>2, <2>0, <3>2, <4>2
    <3> QED
      BY <2>3, <3>1, <3>2, SenderWire
  <2> QED
    BY <2>1, <2>2, <2>3
<1>8. HeadIsOver(owner)'
  <2>1. CASE Concludes /\ UNCHANGED <<picked, toReceiver>>
    BY <1>1, <1>5, <2>1, NextIsUnknown DEF HeadIsOver
  <2>2. CASE UNCHANGED <<queue, picked>> \/ Pick
    <3>1. HeadNo' = HeadNo
      BY <2>2, HeadStays
    <3>2. phase' \in {"wait", "rewind"} => HeadIsOver(owner)'
      BY DEF HeadIsOver
    <3>3. SUFFICES ASSUME phase' \notin {"wait", "rewind"}, HeadNo' \in ShownFiles' \/ HeadEnded(owner)'
                   PROVE  /\ phase' \notin {"loop", "start"}
                          /\ phase' = "idle" => pausedOnTransient' /\ NoOffer'
                          /\ phase' = "idle" /\ HeadEnded(owner)' => aborted'
      BY <3>2 DEF HeadIsOver
    <3>4. HeadEnded(owner)' => HeadEnded(owner)
      <4> SUFFICES ASSUME HeadEnded(owner)' PROVE HeadEnded(owner)
        OBVIOUS
      <4>1. PICK i \in 1..Len(toReceiver') : EndsAt(toReceiver', owner[receiver'.salt], owner, HeadNo, i)
        BY <3>1 DEF HeadEnded
      <4>2. i \in 1..Len(toReceiver) /\ EndsAt(toReceiver, owner[receiver.salt], owner, HeadNo, i)
        BY <1>2, <3>3, <4>1, SenderWire
      <4> QED
        BY <4>2 DEF HeadEnded
    <3>5. /\ phase \notin {"loop", "start"}
          /\ phase = "idle" => pausedOnTransient /\ NoOffer
          /\ phase = "idle" /\ HeadEnded(owner) => aborted
      BY <1>2, <3>1, <3>3, <3>4 DEF OrderInv, HeadIsOver
    <3>6. /\ phase' \notin {"loop", "start"}
          /\ phase' = "idle" => /\ pausedOnTransient'
                                /\ phase = "idle" \/ ~senderOpen
          /\ toSender' = toSender \/ (toSender # <<>> /\ toSender' = Tail(toSender))
      BY <2>2, <3>5, SenderPhases
    <3>7. ASSUME phase' = "idle" PROVE NoOffer' /\ (HeadEnded(owner)' => aborted')
      <4>1. CASE phase = "idle"
        BY <1>1, <3>4, <3>5, <3>6, <4>1, NoOfferTail
      <4>2. CASE ~senderOpen
        <5>1. toSender = <<>> /\ (~aborted => toReceiver = <<>>)
          BY <4>2 DEF BreakOK
        <5>2. NoOffer
          BY <5>1 DEF NoOffer
        <5>3. toReceiver = <<>> => ~HeadEnded(owner)
          BY DEF HeadEnded
        <5> QED
          BY <1>1, <3>4, <3>6, <5>1, <5>2, <5>3, NoOfferTail
      <4> QED
        BY <3>6, <3>7, <4>1, <4>2
    <3> QED
      BY <3>6, <3>7
  <2> QED
    BY <1>4, <2>1, <2>2
<1> QED
  BY <1>2, <1>3, <1>7, <1>8 DEF OrderInv

-----------------------------------------------------------------------------
(* The receiver page.                                                      *)

\* What becomes of the transfer in flight when the receiver takes a frame: it
\* ends, starts afresh, or goes on under its key or the key of the frame with
\* records it had and one of its own file.
GoesOn(owner) ==
    \/ receiver' = NoReceiver
    \/ /\ Head(toReceiver).type = "file-start"
       /\ receiver'.salt = Head(toReceiver).salt /\ receiver'.parts = <<>>
    \/ /\ receiver.salt # 0
       /\ \/ receiver'.salt = receiver.salt
          \/ Keyed(Head(toReceiver)) /\ receiver'.salt = Head(toReceiver).salt
       /\ \A k \in 1..Len(receiver'.parts) :
            \/ receiver'.parts[k] = owner[receiver.salt]
            \/ k \in 1..Len(receiver.parts) /\ receiver'.parts[k] = receiver.parts[k]

\* What a frame the receiver takes leaves of the wire.
Takes(owner) ==
    /\ toReceiver # <<>> /\ toReceiver' = Tail(toReceiver)
    /\ GoesOn(owner)
    /\ UNCHANGED senderVars

LEMMA TailOf ==
  ASSUME NEW S, NEW w \in Seq(S), w # <<>>
  PROVE  /\ Head(w) = w[1] /\ 1 \in 1..Len(w) /\ Len(Tail(w)) \in Nat
         /\ \A i \in 1..Len(Tail(w)) : /\ i + 1 \in 1..Len(w) /\ Tail(w)[i] = w[i + 1]
                                       /\ 1 < i + 1
  OBVIOUS

\* The key that the receiver goes on with.
LEMMA TakenKey ==
  ASSUME Basic, Basic', QueueInOrder, NEW owner, OrderInv(owner), Takes(owner)
  PROVE  /\ \/ receiver'.salt = 0
            \/ receiver'.salt = receiver.salt
            \/ Keyed(Head(toReceiver)) /\ receiver'.salt = Head(toReceiver).salt
         /\ receiver'.salt = 0 => receiver' = NoReceiver
         /\ owner[receiver.salt] \in 0..HeadNo
         /\ owner[receiver'.salt] \in 0..HeadNo
         /\ receiver.salt # 0 /\ receiver'.salt # 0 => owner[receiver.salt] <= owner[receiver'.salt]
         /\ receiver'.salt <= saltCount
<1>1. /\ toReceiver \in Seq(ToReceiver) /\ toReceiver # <<>> /\ saltCount \in Nat
      /\ receiver.salt \in Nat /\ GoesOn(owner)
  BY DEF Takes, Basic, WireOK, ReceiverOK, SenderOK
<1>2. Head(toReceiver) = toReceiver[1] /\ 1 \in 1..Len(toReceiver)
  BY <1>1, TailOf
<1>3. /\ \/ receiver' = NoReceiver /\ receiver'.salt = 0
         \/ Keyed(Head(toReceiver)) /\ receiver'.salt = Head(toReceiver).salt
         \/ receiver.salt # 0 /\ receiver'.salt = receiver.salt
  <2>1. Head(toReceiver).type = "file-start" => Keyed(Head(toReceiver))
    BY <1>2, UpToHead
  <2>2. NoReceiver.salt = 0
    BY DEF NoReceiver
  <2> QED
    BY <1>1, <2>1, <2>2 DEF GoesOn
<1>4. Keyed(Head(toReceiver)) => /\ Head(toReceiver).salt \in 1..saltCount
                                 /\ owner[Head(toReceiver).salt] \in 1..HeadNo
                                 /\ owner[receiver.salt] <= owner[Head(toReceiver).salt]
  BY <1>2, UpToHead DEF OrderInv, InLine, Line
<1>5. owner[receiver.salt] \in 0..HeadNo /\ receiver.salt <= saltCount
  BY UpToHead DEF OrderInv, ReceiverOwned
<1>6. owner[0] = 0 /\ HeadNo \in Nat
  BY UpToHead DEF OrderInv, SaltsOwned
<1>7. CASE receiver' = NoReceiver /\ receiver'.salt = 0
  BY <1>1, <1>5, <1>6, <1>7
<1>8. CASE Keyed(Head(toReceiver)) /\ receiver'.salt = Head(toReceiver).salt
  BY <1>1, <1>4, <1>5, <1>8
<1>9. CASE receiver.salt # 0 /\ receiver'.salt = receiver.salt
  BY <1>1, <1>5, <1>9
<1> QED
  BY <1>3, <1>7, <1>8, <1>9

LEMMA TakesWire ==
  ASSUME Basic, Basic', QueueInOrder, NEW owner, OrderInv(owner), Takes(owner)
  PROVE  /\ SaltsOwned(owner)' /\ FramesOwned(owner)' /\ ReceiverOwned(owner)'
         /\ InLine(owner)'
         /\ HeadNo' = HeadNo
         /\ HeadEnded(owner)' => HeadEnded(owner)
<1>1. /\ toReceiver \in Seq(ToReceiver) /\ toReceiver # <<>> /\ toReceiver' = Tail(toReceiver)
      /\ receiver.salt \in Nat /\ receiver'.salt \in Nat /\ saltCount' = saltCount
      /\ HeadNo' = HeadNo
  BY DEF Takes, Basic, WireOK, ReceiverOK, senderVars, HeadNo, Concluded
<1>2. SaltsOwned(owner)'
  BY DEF OrderInv, SaltsOwned, Takes, senderVars, HeadNo, Concluded
<1>3. FramesOwned(owner)'
  <2>1. PICK w : w = toReceiver'
    OBVIOUS
  <2>2. \A i \in 1..Len(w) : FrameOwned(w[i], owner)
    BY <1>1, <2>1, TailOf DEF OrderInv, FramesOwned
  <2> QED
    BY <1>1, <2>1, <2>2 DEF FramesOwned, FrameOwned
<1>4. owner[receiver.salt] \in Nat /\ owner[receiver'.salt] \in Nat /\ HeadNo \in Nat
  BY TakenKey, UpToHead
<1>5. \/ owner[receiver'.salt] = 0 \/ owner[receiver'.salt] = owner[receiver.salt]
      \/ Keyed(Head(toReceiver)) /\ owner[receiver'.salt] = owner[Head(toReceiver).salt]
  BY TakenKey DEF OrderInv, SaltsOwned
<1>6. /\ InLine(owner)'
      /\ \A f \in Nat : \A i \in 1..Len(toReceiver') :
            EndsAt(toReceiver', owner[receiver'.salt], owner, f, i)
              => EndsAt(toReceiver, owner[receiver.salt], owner, f, i + 1)
  <2>1. Owning(owner) /\ Line(toReceiver, owner[receiver.salt], owner)
    BY DEF OrderInv, SaltsOwned, InLine
  <2>2. PICK s : s = owner[receiver'.salt]
    OBVIOUS
  <2>3. /\ Line(Tail(toReceiver), s, owner)
        /\ \A f \in Nat : \A i \in 1..Len(Tail(toReceiver)) :
              EndsAt(Tail(toReceiver), s, owner, f, i)
                => EndsAt(toReceiver, owner[receiver.salt], owner, f, i + 1)
    BY <1>1, <1>4, <1>5, <2>1, <2>2, LineTail
  <2> QED
    BY <1>1, <2>2, <2>3 DEF InLine
<1>7. HeadEnded(owner)' => HeadEnded(owner)
  <2> SUFFICES ASSUME HeadEnded(owner)' PROVE HeadEnded(owner)
    OBVIOUS
  <2>1. PICK i \in 1..Len(toReceiver') :
           EndsAt(toReceiver', owner[receiver'.salt], owner, HeadNo, i)
    BY <1>1 DEF HeadEnded
  <2>2. i + 1 \in 1..Len(toReceiver) /\ EndsAt(toReceiver, owner[receiver.salt], owner, HeadNo, i + 1)
    BY <1>1, <1>4, <1>6, <2>1, TailOf
  <2> QED
    BY <2>2 DEF HeadEnded
<1>8. ReceiverOwned(owner)'
  <2>1. receiver'.salt <= saltCount /\ (receiver'.salt = 0 => receiver' = NoReceiver)
    BY TakenKey
  <2>2. ASSUME NEW k \in 1..Len(receiver'.parts)
        PROVE  receiver'.parts[k] <= owner[receiver'.salt]
    <3>1. CASE receiver'.parts = <<>>
      BY <2>2, <3>1
    <3>2. CASE /\ receiver.salt # 0 /\ receiver'.salt # 0
               /\ \/ receiver'.parts[k] = owner[receiver.salt]
                  \/ k \in 1..Len(receiver.parts) /\ receiver'.parts[k] = receiver.parts[k]
      <4>1. owner[receiver.salt] <= owner[receiver'.salt]
        BY <3>2, TakenKey
      <4>2. receiver'.parts[k] <= owner[receiver.salt]
        BY <1>4, <3>2 DEF OrderInv, ReceiverOwned
      <4>3. receiver'.parts[k] \in 0..NumFiles
        BY <2>2, ElementOfSeq DEF Basic, ReceiverOK
      <4> QED
        BY <1>4, <4>1, <4>2, <4>3, ConstantsAssumption
    <3>3. NoReceiver.parts = <<>>
      BY DEF NoReceiver
    <3>4. receiver'.salt = 0 => receiver'.parts = <<>>
      BY <2>1, <3>3
    <3> QED
      BY <2>2, <3>1, <3>2, <3>3, <3>4 DEF Takes, GoesOn
  <2> QED
    BY <1>1, <2>1, <2>2 DEF ReceiverOwned
<1> QED
  BY <1>1, <1>2, <1>3, <1>6, <1>7, <1>8

\* What the receiver collects, or is told to start, is still later than what
\* it showed before.
LEMMA TakesBehind ==
  ASSUME Basic, Basic', QueueInOrder, NEW owner, OrderInv(owner), Takes(owner),
         NEW f \in ShownFiles, f \in Nat
  PROVE  /\ f <= HeadNo
         /\ receiver'.salt # 0 => /\ owner[receiver'.salt] > f
                                  /\ \A k \in 1..Len(receiver'.parts) : receiver'.parts[k] > f
         /\ \A i \in 1..Len(toReceiver') :
               toReceiver'[i].type = "file-start" => owner[toReceiver'[i].salt] > f
<1>1. /\ f <= HeadNo
      /\ receiver.salt # 0 => /\ owner[receiver.salt] > f
                              /\ \A k \in 1..Len(receiver.parts) : receiver.parts[k] > f
      /\ \A i \in 1..Len(toReceiver) :
            toReceiver[i].type = "file-start" => owner[toReceiver[i].salt] > f
  BY DEF OrderInv, ShownBehind
<1>2. /\ toReceiver \in Seq(ToReceiver) /\ toReceiver # <<>> /\ toReceiver' = Tail(toReceiver)
  BY DEF Takes, Basic, WireOK
<1>3. Head(toReceiver) = toReceiver[1] /\ 1 \in 1..Len(toReceiver)
  BY <1>2, TailOf
<1>4. \A i \in 1..Len(toReceiver') :
               toReceiver'[i].type = "file-start" => owner[toReceiver'[i].salt] > f
  BY <1>1, <1>2, TailOf
<1>5. owner[receiver.salt] \in Nat /\ owner[receiver'.salt] \in Nat /\ HeadNo \in Nat
  BY TakenKey, UpToHead
<1>6. ASSUME receiver'.salt # 0
      PROVE  /\ owner[receiver'.salt] > f
             /\ \A k \in 1..Len(receiver'.parts) : receiver'.parts[k] > f
  <2>0. NoReceiver.salt = 0
    BY DEF NoReceiver
  <2>1. CASE /\ Head(toReceiver).type = "file-start"
             /\ receiver'.salt = Head(toReceiver).salt /\ receiver'.parts = <<>>
    BY <1>1, <1>3, <2>1
  <2>2. CASE /\ receiver.salt # 0
             /\ \A k \in 1..Len(receiver'.parts) :
                  \/ receiver'.parts[k] = owner[receiver.salt]
                  \/ k \in 1..Len(receiver.parts) /\ receiver'.parts[k] = receiver.parts[k]
    <3>1. owner[receiver.salt] <= owner[receiver'.salt]
      BY <1>6, <2>2, TakenKey
    <3>2. owner[receiver'.salt] > f
      BY <1>1, <1>5, <2>2, <3>1
    <3>3. \A k \in 1..Len(receiver'.parts) : receiver'.parts[k] > f
      BY <1>1, <2>2
    <3> QED
      BY <3>2, <3>3
  <2> QED
    BY <1>6, <2>0, <2>1, <2>2 DEF Takes, GoesOn
<1> QED
  BY <1>1, <1>4, <1>6

\* The file in flight is shown.
Shows ==
    /\ Head(toReceiver).type = "file-end"
    /\ ~NotListening /\ Complete(receiver)
    /\ receiver' = NoReceiver
    /\ displayed' = Append(displayed, receiver.parts)

\* A frame is answered by one of these types, or not at all.
Answers(types) ==
    \/ toSender' = toSender
    \/ toSender' = <<>>
    \/ \E m \in ToSender : m.type \in types /\ toSender' = Append(toSender, m)

Nacks == {"file-nack", "segment-nack"}

LEMMA RequestRewindAnswers ==
  ASSUME ReceiverOK, RequestRewind
  PROVE  Answers(Nacks) /\ (receiver' = receiver \/ receiver' = NoReceiver)
<1>1. CASE Reply([type |-> "file-nack"]) /\ receiver' = NoReceiver
  <2>1. PICK m : m = [type |-> "file-nack"]
    OBVIOUS
  <2>2. m \in ToSender /\ m.type \in Nacks /\ Reply(m)
    BY <1>1, <2>1 DEF ToSender, Nacks
  <2> QED
    BY <1>1, <2>2 DEF Reply, Answers
<1>2. CASE /\ Reply([type |-> "segment-nack", seq |-> Len(receiver.parts)])
           /\ receiver' = receiver
  <2>1. PICK m : m = [type |-> "segment-nack", seq |-> Len(receiver.parts)]
    OBVIOUS
  <2>2. Len(receiver.parts) \in Nat
    BY DEF ReceiverOK
  <2>3. m \in ToSender /\ m.type \in Nacks /\ Reply(m)
    BY <1>2, <2>1, <2>2 DEF ToSender, Nacks
  <2> QED
    BY <1>2, <2>3 DEF Reply, Answers
<1> QED
  BY <1>1, <1>2 DEF RequestRewind

LEMMA RekeyedGoesOn ==
  ASSUME ReceiverOK, NEW owner, receiver.salt # 0, Keyed(Head(toReceiver)),
         NEW seq \in Nat, seq <= Len(receiver.parts), Head(toReceiver).salt \in Nat,
         receiver' = Rekeyed(receiver, Head(toReceiver).salt, seq)
  PROVE  GoesOn(owner)
<1>1. /\ receiver.parts \in Seq(0..NumFiles)
      /\ receiver'.parts = SubSeq(receiver.parts, 1, seq) /\ Len(receiver'.parts) = seq
  BY RekeyedTyped DEF ReceiverOK
<1>2. receiver'.salt = Head(toReceiver).salt
  BY DEF Rekeyed, ReceiverOK
<1>3. \A k \in 1..Len(receiver'.parts) :
         k \in 1..Len(receiver.parts) /\ receiver'.parts[k] = receiver.parts[k]
  BY <1>1
<1> QED
  BY <1>2, <1>3 DEF GoesOn

LEMMA ReceiverTakes ==
  ASSUME Basic, Basic', QueueInOrder, NEW owner, OrderInv(owner), ReceiverStep, ~OfferResume
  PROVE  /\ Takes(owner) /\ (aborted => aborted')
         /\ \/ UNCHANGED displayed /\ Answers(Nacks)
            \/ Shows /\ Answers({"file-ack"})
<1>1. /\ ReceiverOK /\ WireOK /\ toReceiver \in Seq(ToReceiver)
      /\ receiver = NoReceiver \/ receiver.salt # 0
  BY DEF Basic, OrderInv, ReceiverOwned, WireOK
<1>2. /\ toReceiver # <<>> /\ toReceiver' = Tail(toReceiver) /\ UNCHANGED senderVars
      /\ aborted => aborted'
  BY DEF ReceiverStep, ReceiveFileStart, ReceiveRecord, AbortAbusiveStream, ReceiveSegmentRewind,
     ReceiveFileEnd, ReceiveResumeAck, TakeFromSender
<1>3. SUFFICES /\ GoesOn(owner)
               /\ \/ UNCHANGED displayed /\ Answers(Nacks)
                  \/ Shows /\ Answers({"file-ack"})
  BY <1>2 DEF Takes
<1>4. receiver' = receiver => GoesOn(owner)
  BY <1>1 DEF GoesOn
<1>5. receiver' = NoReceiver => GoesOn(owner)
  BY DEF GoesOn
<1>6. toSender' = toSender => Answers(Nacks)
  BY DEF Answers
<1>7. Head(toReceiver) = toReceiver[1] /\ 1 \in 1..Len(toReceiver)
  BY <1>1, <1>2, TailOf
<1>8. FrameOwned(Head(toReceiver), owner) /\ Head(toReceiver) \in ToReceiver
  BY <1>1, <1>7 DEF OrderInv, FramesOwned
<1>9. CASE ReceiveFileStart
  <2>1. /\ Head(toReceiver).type = "file-start" /\ UNCHANGED <<displayed, toSender>>
        /\ receiver'.salt = Head(toReceiver).salt /\ receiver'.parts = <<>>
    BY <1>9 DEF ReceiveFileStart, TakeFromSender
  <2> QED
    BY <1>6, <2>1 DEF GoesOn
<1>10. CASE ReceiveRecord
  <2>1. UNCHANGED displayed /\ Head(toReceiver).type = "record"
    BY <1>10 DEF ReceiveRecord, TakeFromSender
  <2>2. PICK m \in Arrivals :
          \/ UNCHANGED <<receiver, toSender>>
          \/ /\ ~NotListening /\ Opens(receiver, m)
             /\ receiver' = [receiver EXCEPT !.parts = Append(@, m.file)]
             /\ UNCHANGED toSender
          \/ RequestRewind
    BY <1>10 DEF ReceiveRecord
  <2>3. CASE UNCHANGED <<receiver, toSender>>
    BY <1>4, <1>6, <2>1, <2>3
  <2>4. CASE RequestRewind
    BY <1>1, <1>4, <1>5, <2>1, <2>4, RequestRewindAnswers
  <2>5. CASE /\ ~NotListening /\ Opens(receiver, m)
             /\ receiver' = [receiver EXCEPT !.parts = Append(@, m.file)]
             /\ UNCHANGED toSender
    <3>1. receiver.salt # 0 /\ m.salt = receiver.salt
      BY <1>1, <2>5 DEF NotListening, Opens
    <3>2. m = Head(toReceiver)
      <4>1. m # Head(toReceiver) => m = [Head(toReceiver) EXCEPT !.salt = 0, !.file = 0]
        BY DEF Arrivals, Damaged
      <4>2. Head(toReceiver) \in [type : {"record"}, seq : Nat, salt : Nat, file : 0..NumFiles]
        BY <1>8, <2>1 DEF ToReceiver
      <4>3. [Head(toReceiver) EXCEPT !.salt = 0, !.file = 0].salt = 0
        BY <4>2
      <4> QED
        BY <3>1, <4>1, <4>3
    <3>3. m.file = owner[receiver.salt]
      BY <1>8, <2>1, <3>1, <3>2 DEF FrameOwned
    <3>4. /\ receiver.parts \in Seq(0..NumFiles) /\ receiver'.salt = receiver.salt
          /\ receiver'.parts = Append(receiver.parts, m.file)
      BY <1>1, <2>5 DEF ReceiverOK
    <3>5. \A k \in 1..Len(receiver'.parts) :
            \/ receiver'.parts[k] = owner[receiver.salt]
            \/ k \in 1..Len(receiver.parts) /\ receiver'.parts[k] = receiver.parts[k]
      BY <3>3, <3>4
    <3>6. GoesOn(owner)
      BY <3>1, <3>4, <3>5 DEF GoesOn
    <3> QED
      BY <1>6, <2>1, <2>5, <3>6
  <2> QED
    BY <2>2, <2>3, <2>4, <2>5
<1>11. CASE AbortAbusiveStream
  BY <1>4, <1>11 DEF AbortAbusiveStream, Answers
<1>12. CASE ReceiveSegmentRewind
  <2>1. /\ Head(toReceiver).type = "segment-rewind" /\ UNCHANGED <<displayed, toSender>>
        /\ Head(toReceiver).seq \in Nat /\ Head(toReceiver).salt \in Nat
    BY <1>1, <1>12, TakenFromSender, ToReceiverFields DEF ReceiveSegmentRewind
  <2>2. CASE UNCHANGED receiver
    BY <1>4, <1>6, <2>1, <2>2
  <2>3. CASE /\ receiver # NoReceiver /\ Head(toReceiver).seq = awaitingRewindSeq
             /\ receiver' = Rekeyed(receiver, Head(toReceiver).salt, Head(toReceiver).seq)
    <3>1. Keyed(Head(toReceiver))
      BY <1>8, <2>1 DEF FrameOwned, Keyed
    <3>2. Head(toReceiver).seq <= Len(receiver.parts)
      <4>1. awaitingRewindSeq = Len(receiver.parts)
        BY <1>1, <2>1, <2>3 DEF ReceiverOK, AwaitsFirstMissing, None
      <4> QED
        BY <1>1, <2>3, <4>1 DEF ReceiverOK
    <3> QED
      BY <1>1, <1>6, <2>1, <2>3, <3>1, <3>2, RekeyedGoesOn
  <2> QED
    BY <1>12, <2>2, <2>3 DEF ReceiveSegmentRewind
<1>13. CASE ReceiveFileEnd
  <2>1. CASE UNCHANGED <<receiver, displayed, toSender>>
    BY <1>4, <1>6, <2>1
  <2>2. CASE RequestRewind /\ UNCHANGED displayed
    BY <1>1, <1>4, <1>5, <2>2, RequestRewindAnswers
  <2>3. CASE /\ ~NotListening /\ Complete(receiver)
             /\ receiver' = NoReceiver
             /\ displayed' = Append(displayed, receiver.parts)
             /\ Reply([type |-> "file-ack", parts |-> receiver.parts])
    <3>1. PICK m : m = [type |-> "file-ack", parts |-> receiver.parts]
      OBVIOUS
    <3>2. receiver.parts \in Seq(0..NumFiles)
      BY <1>1 DEF ReceiverOK
    <3>3. m \in ToSender /\ m.type \in {"file-ack"} /\ Reply(m)
      BY <2>3, <3>1, <3>2 DEF ToSender
    <3>4. Answers({"file-ack"})
      BY <3>3 DEF Reply, Answers
    <3> QED
      BY <1>5, <1>13, <2>3, <3>4 DEF ReceiveFileEnd, TakeFromSender, Shows
  <2> QED
    BY <1>13, <2>1, <2>2, <2>3 DEF ReceiveFileEnd
<1>14. CASE ReceiveResumeAck
  <2>1. /\ Head(toReceiver).type = "file-resume-ack" /\ UNCHANGED <<displayed, toSender>>
        /\ Head(toReceiver).seq \in Nat /\ Head(toReceiver).salt \in Nat
    BY <1>1, <1>14, TakenFromSender, ToReceiverFields DEF ReceiveResumeAck
  <2>2. CASE UNCHANGED receiver
    BY <1>4, <1>6, <2>1, <2>2
  <2>3. CASE receiver' = NoReceiver
    BY <1>5, <1>6, <2>1, <2>3
  <2>4. CASE /\ receiver # NoReceiver /\ Head(toReceiver).seq > 0
             /\ Head(toReceiver).seq <= Len(receiver.parts)
             /\ receiver' = Rekeyed(receiver, Head(toReceiver).salt, Head(toReceiver).seq)
    <3>1. Keyed(Head(toReceiver))
      BY <1>8, <2>1, <2>4 DEF FrameOwned, Keyed
    <3> QED
      BY <1>1, <1>6, <2>1, <2>4, <3>1, RekeyedGoesOn
  <2> QED
    BY <1>14, <2>2, <2>3, <2>4 DEF ReceiveResumeAck
<1> QED
  BY <1>9, <1>10, <1>11, <1>12, <1>13, <1>14 DEF ReceiverStep

\* The file that is shown is at most the one whose key the receiver holds.
LEMMA ShownIsLast ==
  ASSUME Basic, QueueInOrder, NEW owner, OrderInv(owner), Shows
  PROVE  /\ receiver.salt # 0 /\ receiver.parts # <<>>
         /\ Len(receiver.parts) \in 1..Len(receiver.parts)
         /\ LastOf(receiver.parts) \in Nat
         /\ LastOf(receiver.parts) <= owner[receiver.salt]
         /\ ShownFiles' = ShownFiles \cup {LastOf(receiver.parts)}
         /\ Len(displayed') = Len(displayed) + 1
         /\ displayed'[Len(displayed) + 1] = receiver.parts
         /\ \A i \in 1..Len(displayed) : displayed'[i] = displayed[i]
<1>1. /\ receiver.parts \in Seq(0..NumFiles) /\ receiver.segCount \in Nat
      /\ displayed \in Seq(Seq(0..NumFiles))
      /\ displayed' = Append(displayed, receiver.parts)
  BY DEF Basic, ReceiverOK, Shows
<1>2. receiver.salt # 0
  BY DEF Shows, NotListening, OrderInv, ReceiverOwned
<1>3. receiver.parts # <<>> /\ Len(receiver.parts) \in 1..Len(receiver.parts)
  BY <1>1 DEF Shows, Complete
<1>4. LastOf(receiver.parts) \in Nat
  <2>1. receiver.parts[Len(receiver.parts)] \in 0..NumFiles
    BY <1>1, <1>3, ElementOfSeq
  <2> QED
    BY <2>1, ConstantsAssumption DEF LastOf
<1>5. LastOf(receiver.parts) <= owner[receiver.salt]
  BY <1>3 DEF OrderInv, ReceiverOwned, LastOf
<1>6. /\ Len(displayed') = Len(displayed) + 1 /\ Len(displayed) \in Nat
      /\ displayed'[Len(displayed) + 1] = receiver.parts
      /\ \A i \in 1..Len(displayed) : displayed'[i] = displayed[i]
  BY <1>1
<1>7. ShownFiles' = ShownFiles \cup {LastOf(receiver.parts)}
  <2>1. ASSUME NEW f \in ShownFiles' PROVE f \in ShownFiles \cup {LastOf(receiver.parts)}
    <3>1. PICK i \in 1..Len(displayed') : f = displayed'[i][Len(displayed'[i])]
      BY DEF ShownFiles, LastOf
    <3>2. CASE i = Len(displayed) + 1
      BY <1>6, <3>1, <3>2 DEF LastOf
    <3>3. CASE i \in 1..Len(displayed)
      BY <1>6, <3>1, <3>3 DEF ShownFiles, LastOf
    <3> QED
      BY <1>6, <3>1, <3>2, <3>3
  <2>2. ASSUME NEW f \in ShownFiles PROVE f \in ShownFiles'
    <3>1. PICK i \in 1..Len(displayed) : f = displayed[i][Len(displayed[i])]
      BY DEF ShownFiles, LastOf
    <3>2. i \in 1..Len(displayed') /\ f = displayed'[i][Len(displayed'[i])]
      BY <1>6, <3>1
    <3> QED
      BY <3>2 DEF ShownFiles, LastOf
  <2>3. LastOf(receiver.parts) \in ShownFiles'
    <3>1. Len(displayed) + 1 \in 1..Len(displayed')
      BY <1>6
    <3> QED
      BY <1>6, <3>1 DEF ShownFiles, LastOf
  <2> QED
    BY <2>1, <2>2, <2>3
<1> QED
  BY <1>2, <1>3, <1>4, <1>5, <1>6, <1>7

LEMMA AnswersKeepNoOffer ==
  ASSUME toSender \in Seq(ToSender), NoOffer, NEW types, "file-resume-offer" \notin types,
         Answers(types)
  PROVE  NoOffer'
<1>1. CASE toSender' = toSender
  BY <1>1 DEF NoOffer
<1>2. CASE toSender' = <<>>
  BY <1>2 DEF NoOffer
<1>3. CASE \E m \in ToSender : m.type \in types /\ toSender' = Append(toSender, m)
  <2>1. PICK m \in ToSender : m.type \in types /\ toSender' = Append(toSender, m)
    BY <1>3
  <2>2. ASSUME NEW i \in 1..Len(toSender') PROVE toSender'[i].type # "file-resume-offer"
    <3>1. CASE i \in 1..Len(toSender)
      BY <2>1, <3>1 DEF NoOffer
    <3>2. CASE i = Len(toSender) + 1
      BY <2>1, <3>2
    <3> QED
      BY <2>1, <2>2, <3>1, <3>2
  <2> QED
    BY <2>2 DEF NoOffer
<1> QED
  BY <1>1, <1>2, <1>3 DEF Answers

LEMMA ReceiverOrder ==
  ASSUME Basic, Basic', QueueInOrder, NeverTruncated, NEW owner, OrderInv(owner),
         ReceiverStep, ~OfferResume
  PROVE  OrderInv(owner)'
<1>1. /\ Takes(owner) /\ (aborted => aborted')
      /\ Answers(Nacks) \/ Answers({"file-ack"})
      /\ UNCHANGED displayed \/ Shows
  BY ReceiverTakes
<1>2. /\ SaltsOwned(owner)' /\ FramesOwned(owner)' /\ ReceiverOwned(owner)'
      /\ InLine(owner)' /\ HeadNo' = HeadNo
      /\ HeadEnded(owner)' => HeadEnded(owner)
  BY <1>1, TakesWire
<1>3. /\ UNCHANGED <<phase, pausedOnTransient>> /\ toSender \in Seq(ToSender)
      /\ toReceiver \in Seq(ToReceiver) /\ toReceiver # <<>> /\ toReceiver' = Tail(toReceiver)
  BY <1>1 DEF Takes, senderVars, Basic, WireOK
<1>4. HeadNo \in Nat /\ owner[receiver.salt] \in 0..HeadNo
  BY UpToHead
<1>5. \A f \in ShownFiles :
        /\ f <= HeadNo
        /\ receiver'.salt # 0 => /\ owner[receiver'.salt] > f
                                 /\ \A k \in 1..Len(receiver'.parts) : receiver'.parts[k] > f
        /\ \A i \in 1..Len(toReceiver') :
              toReceiver'[i].type = "file-start" => owner[toReceiver'[i].salt] > f
  <2> TAKE f \in ShownFiles
  <2>1. f \in Nat
    BY FilesAreNat, ConstantsAssumption
  <2> QED
    BY <1>1, <2>1, TakesBehind
<1>6. (HeadNo \in ShownFiles \/ HeadEnded(owner)) /\ phase = "idle" => NoOffer'
  BY <1>1, <1>3, AnswersKeepNoOffer DEF OrderInv, HeadIsOver, Nacks
<1>7. CASE UNCHANGED displayed
  <2>1. ShownFiles' = ShownFiles
    BY <1>7 DEF ShownFiles
  <2>2. ShownBehind(owner)'
    BY <1>2, <1>5, <2>1 DEF ShownBehind
  <2>3. HeadIsOver(owner)'
    BY <1>1, <1>2, <1>3, <1>6, <2>1 DEF OrderInv, HeadIsOver
  <2> QED
    BY <1>2, <2>2, <2>3 DEF OrderInv
<1>8. CASE Shows
  <2>1. /\ receiver.salt # 0 /\ LastOf(receiver.parts) \in Nat
        /\ LastOf(receiver.parts) <= owner[receiver.salt]
        /\ ShownFiles' = ShownFiles \cup {LastOf(receiver.parts)}
    BY <1>8, ShownIsLast
  <2>2. Head(toReceiver) = toReceiver[1] /\ 1 \in 1..Len(toReceiver)
    BY <1>3, TailOf
  <2>3. receiver'.salt = 0
    BY <1>8 DEF Shows, NoReceiver
  <2>4. \A f \in Nat : f <= owner[receiver.salt] =>
           EndsAt(toReceiver, owner[receiver.salt], owner, f, 1)
    <3>1. toReceiver[1].type = "file-end"
      BY <1>8, <2>2 DEF Shows
    <3>2. owner[receiver.salt] # 0
      <4>1. receiver.salt \in 1..saltCount
        <5>1. receiver.salt \in Nat /\ saltCount \in Nat
          BY DEF Basic, ReceiverOK, SenderOK
        <5>2. receiver.salt <= saltCount
          BY DEF OrderInv, ReceiverOwned
        <5> QED
          BY <2>1, <5>1, <5>2
      <4> QED
        BY <1>4, <4>1 DEF OrderInv, SaltsOwned
    <3> QED
      BY <1>4, <3>1, <3>2 DEF EndsAt
  <2>5. \A i \in 1..Len(toReceiver') :
           toReceiver'[i].type = "file-start"
             => owner[toReceiver'[i].salt] > LastOf(receiver.parts)
    <3> SUFFICES ASSUME NEW i \in 1..Len(toReceiver'), toReceiver'[i].type = "file-start"
                 PROVE  owner[toReceiver'[i].salt] > LastOf(receiver.parts)
      OBVIOUS
    <3>1. i + 1 \in 1..Len(toReceiver) /\ toReceiver'[i] = toReceiver[i + 1] /\ 1 < i + 1
      BY <1>3, TailOf
    <3>2. owner[toReceiver[i + 1].salt] \in Nat
      BY <3>1, UpToHead
    <3>3. ~EndsAt(toReceiver, owner[receiver.salt], owner, owner[toReceiver[i + 1].salt], 1)
      BY <2>2, <3>1 DEF OrderInv, InLine, Line
    <3>4. ~(owner[toReceiver[i + 1].salt] <= owner[receiver.salt])
      BY <2>4, <3>2, <3>3
    <3> QED
      BY <1>4, <2>1, <3>1, <3>2, <3>4
  <2>6. ShownBehind(owner)'
    BY <1>2, <1>4, <1>5, <2>1, <2>3, <2>5 DEF ShownBehind
  <2>7. LastOf(receiver.parts) = HeadNo => HeadEnded(owner)
    BY <1>4, <2>1, <2>2, <2>4 DEF HeadEnded
  <2>8. HeadIsOver(owner)'
    BY <1>1, <1>2, <1>3, <1>6, <2>1, <2>7 DEF OrderInv, HeadIsOver
  <2> QED
    BY <1>2, <2>6, <2>8 DEF OrderInv
<1> QED
  BY <1>1, <1>7, <1>8

\* What is shown last is of the latest file.
LEMMA ReceiverShowsLater ==
  ASSUME Basic, Basic', QueueInOrder, NEW owner, OrderInv(owner), LastsGrow,
         UNCHANGED displayed \/ Shows
  PROVE  LastsGrow'
<1>1. CASE UNCHANGED displayed
  BY <1>1 DEF LastsGrow
<1>2. CASE Shows
  <2>1. /\ receiver.salt # 0 /\ Len(receiver.parts) \in 1..Len(receiver.parts)
        /\ Len(displayed') = Len(displayed) + 1 /\ Len(displayed) \in Nat
        /\ displayed'[Len(displayed) + 1] = receiver.parts
        /\ \A i \in 1..Len(displayed) : displayed'[i] = displayed[i]
    BY <1>2, ShownIsLast DEF Basic, ReceiverOK
  <2>2. \A f \in ShownFiles : f < LastOf(receiver.parts)
    <3> TAKE f \in ShownFiles
    <3>1. receiver.parts[Len(receiver.parts)] > f
      BY <2>1 DEF OrderInv, ShownBehind
    <3> QED
      BY <3>1 DEF LastOf
  <2>3. ASSUME NEW i \in 1..Len(displayed'), NEW j \in 1..Len(displayed'), i < j
        PROVE  LastOf(displayed'[i]) < LastOf(displayed'[j])
    <3>1. i \in 1..Len(displayed) /\ displayed'[i] = displayed[i]
      BY <2>1, <2>3
    <3>2. CASE j \in 1..Len(displayed)
      BY <2>1, <2>3, <3>1, <3>2 DEF LastsGrow
    <3>3. CASE j = Len(displayed) + 1
      <4>1. LastOf(displayed[i]) \in ShownFiles
        BY <3>1 DEF ShownFiles
      <4> QED
        BY <2>1, <2>2, <3>1, <3>3, <4>1
    <3> QED
      BY <2>1, <2>3, <3>2, <3>3
  <2>4. PICK d : d = displayed'
    OBVIOUS
  <2> QED
    BY <2>3, <2>4 DEF LastsGrow, LastOf
<1> QED
  BY <1>1, <1>2

\* An offer goes out only while the receiver holds a transfer, which is not
\* one of a head that is over.
LEMMA OfferOrder ==
  ASSUME Basic, QueueInOrder, BreakOK, NEW owner, OrderInv(owner), OfferResume
  PROVE  OrderInv(owner)'
<1>1. UNCHANGED <<senderVars, receiverVars, toReceiver>>
  BY DEF OfferResume
<1>2. /\ SaltsOwned(owner)' /\ FramesOwned(owner)' /\ ReceiverOwned(owner)'
      /\ InLine(owner)' /\ ShownBehind(owner)' /\ HeadNo' = HeadNo
      /\ ShownFiles' = ShownFiles /\ HeadEnded(owner)' = HeadEnded(owner)
  BY <1>1 DEF OrderInv, SaltsOwned, FramesOwned, FrameOwned, ReceiverOwned, InLine, ShownBehind,
     HeadEnded, ShownFiles, HeadNo, Concluded, senderVars, receiverVars
<1>3. ASSUME HeadNo \in ShownFiles \/ HeadEnded(owner), phase = "idle"
      PROVE  NoOffer'
  <2>1. NoOffer /\ (HeadEnded(owner) => aborted)
    BY <1>3 DEF OrderInv, HeadIsOver
  <2>2. CASE receiver = NoReceiver \/ ~up
    BY <2>1, <2>2 DEF OfferResume, Reply, NoOffer
  <2>3. CASE receiver # NoReceiver /\ up
    <3>1. HeadNo \in ShownFiles
      BY <1>3, <2>1, <2>3 DEF BreakOK
    <3>2. receiver.salt # 0
      BY <2>3 DEF OrderInv, ReceiverOwned
    <3>3. owner[receiver.salt] > HeadNo
      BY <3>1, <3>2 DEF OrderInv, ShownBehind
    <3>4. owner[receiver.salt] \in 0..HeadNo /\ HeadNo \in Nat
      BY UpToHead
    <3> QED
      BY <3>3, <3>4
  <2> QED
    BY <2>2, <2>3
<1>4. HeadIsOver(owner)'
  BY <1>1, <1>2, <1>3 DEF OrderInv, HeadIsOver, senderVars, receiverVars
<1> QED
  BY <1>2, <1>4 DEF OrderInv

-----------------------------------------------------------------------------
(* The pairing.                                                            *)

LEMMA PairingOrder ==
  ASSUME Basic, NEW owner, OrderInv(owner), PairingStep \/ UNCHANGED vars
  PROVE  OrderInv(owner)'
<1>1. UNCHANGED <<senderVars, receiverVars>>
  BY DEF PairingStep, Drop, SenderNotices, ReceiverNotices, Reconnect, vars
<1>2. SaltsOwned(owner)' /\ ReceiverOwned(owner)' /\ HeadNo' = HeadNo /\ ShownFiles' = ShownFiles
  BY <1>1 DEF OrderInv, SaltsOwned, ReceiverOwned, HeadNo, Concluded, ShownFiles,
     senderVars, receiverVars
<1>3. CASE UNCHANGED <<toReceiver, toSender>>
  BY <1>1, <1>2, <1>3 DEF OrderInv, FramesOwned, FrameOwned, InLine, ShownBehind, HeadIsOver,
     HeadEnded, NoOffer, senderVars, receiverVars
<1>4. CASE Drop
  <2>1. toReceiver' = <<>> /\ toSender' = <<>>
    BY <1>4 DEF Drop
  <2>2. FramesOwned(owner)' /\ InLine(owner)' /\ ~HeadEnded(owner)' /\ NoOffer'
    BY <2>1 DEF FramesOwned, InLine, Line, HeadEnded, NoOffer
  <2>3. ShownBehind(owner)'
    BY <1>1, <1>2, <2>1 DEF OrderInv, ShownBehind, receiverVars
  <2>4. HeadIsOver(owner)'
    BY <1>1, <1>2, <2>2 DEF OrderInv, HeadIsOver, senderVars
  <2> QED
    BY <1>2, <2>2, <2>3, <2>4 DEF OrderInv
<1> QED
  BY <1>3, <1>4 DEF PairingStep, SenderNotices, ReceiverNotices, Reconnect, vars

-----------------------------------------------------------------------------
(* Until the sender gives a file up, both pages are at the same file: what *)
(* the receiver shows is what the sender concluded, and at most the head,  *)
(* whose ack is then the only one on its way.                              *)

AckAt(i) == toSender[i].type = "file-ack"

OneAck ==
    /\ \A i, j \in 1..Len(toSender) : AckAt(i) /\ AckAt(j) => i = j
    /\ \A i \in 1..Len(toSender) : AckAt(i) => Len(displayed) = HeadNo

Delivered ==
    /\ sent = 1..Concluded
    /\ Len(displayed) \in {Concluded, HeadNo} /\ Len(displayed) <= picked
    /\ \A i \in 1..Len(displayed) : displayed[i] = Whole(i)

\* Nothing is in flight, and nothing is started, but the head.
HeadOnly(owner) ==
    /\ receiver.salt # 0 =>
          /\ owner[receiver.salt] = HeadNo
          /\ \A k \in 1..Len(receiver.parts) : receiver.parts[k] = HeadNo
    /\ \A i \in 1..Len(toReceiver) :
          toReceiver[i].type = "file-start" => owner[toReceiver[i].salt] = HeadNo

UntilFailure(owner) == failed = {} => Delivered /\ OneAck /\ HeadOnly(owner)

\* What is shown is whole files, the last of each being the file itself.
LEMMA WholeIsFull ==
  ASSUME NEW f \in File
  PROVE  /\ Whole(f) # <<>> /\ Whole(f)[1] = f /\ LastOf(Whole(f)) = f
         /\ Len(Whole(f)) = SegCount[f] + 1
<1>1. SegCount[f] + 1 \in Nat /\ SegCount[f] + 1 >= 1
  BY ConstantsAssumption
<1> QED
  BY <1>1 DEF Whole, LastOf

LEMMA ShownUntilFailure ==
  ASSUME Basic, QueueInOrder, Delivered
  PROVE  /\ Concluded \in Nat /\ HeadNo = Concluded + 1 /\ Len(displayed) \in Nat
         /\ \A i \in 1..Len(displayed) : i \in File /\ i \in ShownFiles
<1>1. /\ picked \in 0..NumFiles /\ Len(queue) \in Nat /\ Len(queue) <= picked
      /\ Len(displayed) \in Nat
  BY DEF Basic, SenderOK, ReceiverOK, QueueInOrder
<1>2. Concluded \in Nat /\ HeadNo = Concluded + 1
  BY <1>1, ConstantsAssumption DEF Concluded, HeadNo
<1>3. ASSUME NEW i \in 1..Len(displayed) PROVE i \in File /\ i \in ShownFiles
  <2>1. i \in File
    BY <1>1, <1>3, ConstantsAssumption DEF Delivered, File
  <2>2. LastOf(displayed[i]) = i
    BY <1>3, <2>1, WholeIsFull DEF Delivered
  <2> QED
    BY <1>3, <2>1, <2>2 DEF ShownFiles
<1> QED
  BY <1>1, <1>2, <1>3

\* Once the head is shown, nothing is in flight and nothing is started.
LEMMA ShownHeadEndsAll ==
  ASSUME Basic, QueueInOrder, Delivered, NEW owner, OrderInv(owner), HeadOnly(owner),
         Len(displayed) = HeadNo
  PROVE  /\ receiver.salt = 0
         /\ \A i \in 1..Len(toReceiver) : toReceiver[i].type # "file-start"
<1>1. HeadNo \in Nat /\ HeadNo \in ShownFiles
  <2>1. HeadNo \in 1..Len(displayed) /\ HeadNo \in Nat
    BY ShownUntilFailure
  <2> QED
    BY <2>1, ShownUntilFailure
<1>2. ~(HeadNo > HeadNo)
  BY <1>1
<1> QED
  BY <1>1, <1>2 DEF OrderInv, ShownBehind, HeadOnly

\* What a step of the sender page concludes, and how.
LEMMA SenderConcludes ==
  ASSUME Basic, SenderStep \/ AckTimeout
  PROVE  \/ /\ UNCHANGED <<queue, picked>> \/ Pick
            /\ UNCHANGED <<sent, failed>>
         \/ /\ Concludes /\ UNCHANGED <<picked, toReceiver>>
            /\ \/ failed' # {}
               \/ /\ UNCHANGED failed /\ sent' = sent \cup {Head(queue)}
                  /\ toSender # <<>> /\ AckAt(1) /\ toSender' = Tail(toSender)
<1>1. queue \in Seq(File) /\ (Sending => queue # <<>>) /\ toSender \in Seq(ToSender)
  BY DEF Basic, SenderOK, SendsHead, WireOK
<1>2. ASSUME NEW ok \in BOOLEAN, Sending, Conclude(ok), UNCHANGED <<picked, toReceiver>>
      PROVE  /\ Concludes
             /\ ~ok => failed' # {}
             /\ ok => UNCHANGED failed /\ sent' = sent \cup {Head(queue)}
  BY <1>2 DEF Concludes, Conclude
<1>3. CASE RewindTail
  <2>1. CASE Conclude(FALSE)
    BY <1>2, <1>3, <2>1 DEF RewindTail, Sending
  <2>2. CASE UNCHANGED <<queue, sent, failed>>
    BY <1>3, <2>2 DEF RewindTail
  <2> QED
    BY <1>3, <2>1, <2>2 DEF RewindTail
<1>4. CASE ReceiveFileNack \/ AckTimeout
  <2>1. CASE phase = "wait" /\ Conclude(FALSE)
    BY <1>2, <1>4, <2>1 DEF ReceiveFileNack, AckTimeout, Sending
  <2>2. CASE UNCHANGED <<queue, sent, failed>>
    BY <1>4, <2>2 DEF ReceiveFileNack, AckTimeout
  <2> QED
    BY <1>4, <2>1, <2>2 DEF ReceiveFileNack, AckTimeout
<1>5. CASE ReceiveFileAck
  <2>1. /\ toSender # <<>> /\ Head(toSender).type = "file-ack" /\ toSender' = Tail(toSender)
        /\ UNCHANGED <<picked, toReceiver>>
    BY <1>5 DEF ReceiveFileAck, TakeFromReceiver
  <2>2. AckAt(1)
    BY <1>1, <2>1, TailOf DEF AckAt
  <2>3. CASE phase = "wait" /\ Conclude(1..SegCount[Head(queue)] \subseteq stream.read)
    <3>1. PICK ok \in BOOLEAN : ok = (1..SegCount[Head(queue)] \subseteq stream.read)
      OBVIOUS
    <3>2. Conclude(ok) /\ Sending
      BY <2>3, <3>1 DEF Sending
    <3> QED
      BY <1>2, <2>1, <2>2, <3>2
  <2>4. CASE UNCHANGED <<queue, sent, failed>>
    BY <1>5, <2>4 DEF ReceiveFileAck
  <2> QED
    BY <1>5, <2>3, <2>4 DEF ReceiveFileAck
<1>6. CASE Pick
  BY <1>6 DEF Pick
<1>7. CASE ~(RewindTail \/ ReceiveFileNack \/ AckTimeout \/ ReceiveFileAck \/ Pick)
  BY <1>7 DEF SenderStep, DrainLoop, SendFileStart, ReadSegment, SealRecord, SendRecord,
     SendFileEnd, ReceiveSegmentNack, ReceiveResumeOffer, RecoveryKick
<1> QED
  BY <1>3, <1>4, <1>5, <1>6, <1>7

\* Frames taken off the way to the sender leave one ack at most.
LEMMA OneAckTail ==
  ASSUME toSender \in Seq(ToSender), OneAck,
         toSender' = toSender \/ (toSender # <<>> /\ toSender' = Tail(toSender))
  PROVE  /\ \A i, j \in 1..Len(toSender') : AckAt(i)' /\ AckAt(j)' => i = j
         /\ \A i \in 1..Len(toSender') : AckAt(i)' => Len(displayed) = HeadNo
         /\ toSender # <<>> /\ AckAt(1) /\ toSender' = Tail(toSender) =>
              \A i \in 1..Len(toSender') : ~AckAt(i)'
<1>1. CASE toSender' = toSender
  <2>1. toSender # <<>> => toSender # Tail(toSender)
    OBVIOUS
  <2> QED
    BY <1>1, <2>1 DEF OneAck, AckAt
<1>2. CASE toSender # <<>> /\ toSender' = Tail(toSender)
  <2>1. \A i \in 1..Len(toSender') : /\ i + 1 \in 1..Len(toSender) /\ 1 < i + 1 /\ i \in Nat
                                     /\ toSender'[i] = toSender[i + 1]
    BY <1>2
  <2>2. \A i \in 1..Len(toSender') : AckAt(i)' => AckAt(i + 1)
    BY <2>1 DEF AckAt
  <2>3. 1 \in 1..Len(toSender)
    BY <1>2
  <2>4. ASSUME NEW i \in 1..Len(toSender'), NEW j \in 1..Len(toSender'), AckAt(i)', AckAt(j)'
        PROVE  i = j
    <3>1. i + 1 = j + 1
      BY <2>1, <2>2, <2>4 DEF OneAck
    <3> QED
      BY <2>1, <3>1
  <2>5. \A i \in 1..Len(toSender') : AckAt(i)' => Len(displayed) = HeadNo
    BY <2>1, <2>2 DEF OneAck
  <2>6. AckAt(1) => \A i \in 1..Len(toSender') : ~AckAt(i)'
    BY <2>1, <2>2, <2>3 DEF OneAck
  <2> QED
    BY <2>4, <2>5, <2>6
<1> QED
  BY <1>1, <1>2

LEMMA SenderUntilFailure ==
  ASSUME Basic, Basic', QueueInOrder, QueueInOrder', NEW owner, OrderInv(owner),
         OrderInv(owner)', owner[saltCount + 1] = HeadNo, UntilFailure(owner),
         SenderStep \/ AckTimeout
  PROVE  UntilFailure(owner)'
<1> SUFFICES ASSUME failed' = {} PROVE Delivered' /\ OneAck' /\ HeadOnly(owner)'
  BY DEF UntilFailure
<1>1. /\ UNCHANGED <<receiver, displayed>> /\ toSender \in Seq(ToSender)
      /\ toSender' = toSender \/ (toSender # <<>> /\ toSender' = Tail(toSender))
  BY DEF SenderStep, AckTimeout, Pick, DrainLoop, SendFileStart, ReadSegment, SealRecord,
     SendRecord, SendFileEnd, RewindTail, ReceiveFileAck, ReceiveFileNack, ReceiveSegmentNack,
     ReceiveResumeOffer, RecoveryKick, receiverVars, TakeFromReceiver, Basic, WireOK
<1>2. failed = {} /\ Delivered /\ OneAck /\ HeadOnly(owner)
  BY SenderConcludes DEF UntilFailure
<1>3. /\ Concluded \in Nat /\ HeadNo = Concluded + 1 /\ Len(displayed) \in Nat
      /\ HeadNo' = Concluded' + 1
  BY <1>2, ShownUntilFailure DEF HeadNo
<1>4. CASE (UNCHANGED <<queue, picked>> \/ Pick) /\ UNCHANGED <<sent, failed>>
  <2>1. HeadNo' = HeadNo
    BY <1>4, HeadStays
  <2>2. Concluded' = Concluded
    BY <1>4, HeadStays
  <2>3. picked <= picked' /\ picked \in Nat /\ picked' \in Nat
    BY <1>4, ConstantsAssumption DEF Pick, Basic, SenderOK
  <2>4. Delivered'
    <3>1. sent' = 1..Concluded' /\ Len(displayed') \in {Concluded', HeadNo'}
      BY <1>1, <1>2, <1>4, <2>1, <2>2 DEF Delivered
    <3>2. Len(displayed') <= picked'
      BY <1>1, <1>2, <1>3, <2>3 DEF Delivered
    <3>3. \A i \in 1..Len(displayed') : displayed'[i] = Whole(i)
      BY <1>1, <1>2 DEF Delivered
    <3> QED
      BY <3>1, <3>2, <3>3 DEF Delivered, Whole
  <2>5. OneAck'
    BY <1>1, <1>2, <2>1, OneAckTail DEF OneAck
  <2>6. HeadOnly(owner)'
    <3>1. \A i \in 1..Len(toReceiver') :
             toReceiver'[i].type = "file-start" => owner[toReceiver'[i].salt] = HeadNo
      BY <1>2, SenderWire DEF HeadOnly
    <3> QED
      BY <1>1, <1>2, <2>1, <3>1 DEF HeadOnly
  <2> QED
    BY <2>4, <2>5, <2>6
<1>5. CASE /\ Concludes /\ UNCHANGED <<picked, toReceiver>>
           /\ UNCHANGED failed /\ sent' = sent \cup {Head(queue)}
           /\ toSender # <<>> /\ AckAt(1) /\ toSender' = Tail(toSender)
  <2>1. 1 \in 1..Len(toSender)
    BY <1>1, <1>5
  <2>2. Len(displayed) = HeadNo
    BY <1>2, <1>5, <2>1 DEF OneAck
  <2>3. HeadNo' = HeadNo + 1 /\ Head(queue) = HeadNo
    BY <1>5, ConcludeTakesHead DEF Concludes
  <2>4. Concluded' = HeadNo
    BY <1>5, ConcludeTakesHead DEF Concludes
  <2>5. sent' = 1..Concluded'
    BY <1>2, <1>3, <1>5, <2>3, <2>4 DEF Delivered
  <2>6. Delivered'
    BY <1>1, <1>2, <1>5, <2>2, <2>4, <2>5 DEF Delivered, Whole
  <2>7. OneAck'
    BY <1>1, <1>2, <1>5, OneAckTail DEF OneAck
  <2>8. HeadOnly(owner)'
    BY <1>1, <1>2, <1>5, <2>2, ShownHeadEndsAll DEF HeadOnly
  <2> QED
    BY <2>6, <2>7, <2>8
<1> QED
  BY <1>4, <1>5, SenderConcludes

LEMMA NacksAreNoAcks ==
  ASSUME toSender \in Seq(ToSender), OneAck, NEW types, "file-ack" \notin types,
         Answers(types), UNCHANGED displayed, HeadNo' = HeadNo
  PROVE  OneAck'
<1>1. ASSUME NEW i \in 1..Len(toSender'), AckAt(i)'
      PROVE  i \in 1..Len(toSender) /\ AckAt(i)
  <2>1. CASE toSender' = toSender
    BY <1>1, <2>1 DEF AckAt
  <2>2. CASE toSender' = <<>>
    BY <1>1, <2>2
  <2>3. CASE \E m \in ToSender : m.type \in types /\ toSender' = Append(toSender, m)
    <3>1. PICK m \in ToSender : m.type \in types /\ toSender' = Append(toSender, m)
      BY <2>3
    <3>2. CASE i \in 1..Len(toSender)
      BY <1>1, <3>1, <3>2 DEF AckAt
    <3>3. CASE i = Len(toSender) + 1
      BY <1>1, <3>1, <3>3 DEF AckAt
    <3> QED
      BY <1>1, <3>1, <3>2, <3>3
  <2> QED
    BY <2>1, <2>2, <2>3 DEF Answers
<1>2. PICK w : w = toSender'
  OBVIOUS
<1>3. /\ \A i, j \in 1..Len(w) : AckAt(i)' /\ AckAt(j)' => i = j
      /\ \A i \in 1..Len(w) : AckAt(i)' => Len(displayed) = HeadNo
  BY <1>1, <1>2 DEF OneAck
<1> QED
  BY <1>2, <1>3 DEF OneAck

LEMMA FirstAck ==
  ASSUME toSender \in Seq(ToSender), \A i \in 1..Len(toSender) : ~AckAt(i),
         NEW types, Answers(types), Len(displayed') = HeadNo'
  PROVE  OneAck'
<1>1. ASSUME NEW i \in 1..Len(toSender'), AckAt(i)' PROVE i = Len(toSender) + 1
  <2>1. CASE toSender' = toSender
    BY <1>1, <2>1 DEF AckAt
  <2>2. CASE toSender' = <<>>
    BY <1>1, <2>2
  <2>3. CASE \E m \in ToSender : m.type \in types /\ toSender' = Append(toSender, m)
    <3>1. PICK m \in ToSender : m.type \in types /\ toSender' = Append(toSender, m)
      BY <2>3
    <3>2. CASE i \in 1..Len(toSender)
      BY <1>1, <3>1, <3>2 DEF AckAt
    <3> QED
      BY <1>1, <3>1, <3>2
  <2> QED
    BY <2>1, <2>2, <2>3 DEF Answers
<1>2. PICK w : w = toSender'
  OBVIOUS
<1>3. \A i, j \in 1..Len(w) : AckAt(i)' /\ AckAt(j)' => i = j
  BY <1>1, <1>2
<1> QED
  BY <1>2, <1>3 DEF OneAck

\* The file that is shown is the head, and every record of it is its own.
LEMMA ShownIsHead ==
  ASSUME Basic, QueueInOrder, FinalSealed, NEW owner, OrderInv(owner), Delivered,
         HeadOnly(owner), Shows
  PROVE  /\ receiver.parts = Whole(HeadNo) /\ HeadNo \in File /\ HeadNo <= picked
         /\ Len(displayed) = Concluded /\ Len(displayed') = HeadNo
         /\ queue # <<>>
<1>1. /\ receiver.salt # 0 /\ Len(receiver.parts) \in 1..Len(receiver.parts)
      /\ Len(displayed') = Len(displayed) + 1
  BY ShownIsLast
<1>2. /\ owner[receiver.salt] = HeadNo
      /\ \A k \in 1..Len(receiver.parts) : receiver.parts[k] = HeadNo
  BY <1>1 DEF HeadOnly
<1>3. Concluded \in Nat /\ HeadNo = Concluded + 1 /\ Len(displayed) \in Nat
  BY ShownUntilFailure
<1>4. HeadNo <= picked
  <2>1. receiver.salt \in Nat /\ saltCount \in Nat
    BY DEF Basic, ReceiverOK, SenderOK
  <2>2. receiver.salt \in 1..saltCount
    BY <1>1, <2>1 DEF OrderInv, ReceiverOwned
  <2> QED
    BY <1>2, <2>2 DEF OrderInv, SaltsOwned
<1>5. HeadNo \in File
  BY <1>3, <1>4, ConstantsAssumption DEF File, Basic, SenderOK
<1>6. Len(displayed) = Concluded /\ Len(displayed') = HeadNo
  <2>1. Len(displayed) # HeadNo
    BY <1>1, ShownHeadEndsAll
  <2> QED
    BY <1>1, <1>3, <2>1 DEF Delivered
<1>7. /\ receiver.parts \in Seq(0..NumFiles) /\ receiver.segCount \in Nat
      /\ Len(receiver.parts) = receiver.segCount + 1
  BY DEF Basic, ReceiverOK, Shows, Complete
<1>8. Len(receiver.parts) = SegCount[HeadNo] + 1
  <2>1. Len(receiver.parts) > receiver.segCount
    BY <1>7
  <2>2. SegCountOf(receiver.parts[receiver.segCount + 1]) = receiver.segCount
    BY <2>1 DEF FinalSealed
  <2>3. receiver.parts[receiver.segCount + 1] = HeadNo
    BY <1>1, <1>2, <1>7
  <2> QED
    BY <1>3, <1>7, <2>2, <2>3 DEF SegCountOf
<1>9. receiver.parts = Whole(HeadNo)
  <2>1. /\ receiver.parts = [k \in 1..Len(receiver.parts) |-> receiver.parts[k]]
    BY <1>7
  <2> QED
    BY <1>2, <1>8, <2>1 DEF Whole
<1>10. queue # <<>>
  <2>1. queue = <<>> => Len(queue) = 0
    OBVIOUS
  <2>2. picked \in Nat
    BY ConstantsAssumption DEF Basic, SenderOK
  <2> QED
    BY <1>3, <1>4, <2>1, <2>2 DEF Concluded
<1> QED
  BY <1>4, <1>5, <1>6, <1>9, <1>10

LEMMA ReceiverUntilFailure ==
  ASSUME Basic, Basic', QueueInOrder, FinalSealed, NEW owner, OrderInv(owner),
         UntilFailure(owner), ReceiverStep, ~OfferResume
  PROVE  UntilFailure(owner)'
<1>1. /\ Takes(owner)
      /\ \/ UNCHANGED displayed /\ Answers(Nacks)
         \/ Shows /\ Answers({"file-ack"})
  BY ReceiverTakes
<1>2. UNCHANGED <<queue, picked, sent, failed>> /\ HeadNo' = HeadNo /\ Concluded' = Concluded
  BY <1>1 DEF Takes, senderVars, HeadNo, Concluded
<1> SUFFICES ASSUME failed = {}, Delivered, OneAck, HeadOnly(owner)
             PROVE  Delivered' /\ OneAck' /\ HeadOnly(owner)'
  BY <1>2 DEF UntilFailure
<1>3. /\ toReceiver \in Seq(ToReceiver) /\ toReceiver # <<>> /\ toReceiver' = Tail(toReceiver)
      /\ toSender \in Seq(ToSender)
  BY <1>1 DEF Takes, Basic, WireOK
<1>4. HeadOnly(owner)'
  <2>1. \A i \in 1..Len(toReceiver') :
           toReceiver'[i].type = "file-start" => owner[toReceiver'[i].salt] = HeadNo
    BY <1>3, TailOf DEF HeadOnly
  <2>2. ASSUME receiver'.salt # 0
        PROVE  /\ owner[receiver'.salt] = HeadNo
               /\ \A k \in 1..Len(receiver'.parts) : receiver'.parts[k] = HeadNo
    <3>1. CASE /\ Head(toReceiver).type = "file-start"
               /\ receiver'.salt = Head(toReceiver).salt /\ receiver'.parts = <<>>
      <4>1. Head(toReceiver) = toReceiver[1] /\ 1 \in 1..Len(toReceiver)
        BY <1>3, TailOf
      <4> QED
        BY <3>1, <4>1 DEF HeadOnly
    <3>2. CASE /\ receiver.salt # 0
               /\ \A k \in 1..Len(receiver'.parts) :
                    \/ receiver'.parts[k] = owner[receiver.salt]
                    \/ k \in 1..Len(receiver.parts) /\ receiver'.parts[k] = receiver.parts[k]
      <4>1. owner[receiver.salt] = HeadNo
        BY <3>2 DEF HeadOnly
      <4>2. owner[receiver.salt] <= owner[receiver'.salt] /\ owner[receiver'.salt] \in 0..HeadNo
            /\ HeadNo \in Nat
        BY <1>1, <2>2, <3>2, TakenKey, UpToHead
      <4>3. owner[receiver'.salt] = HeadNo
        BY <4>1, <4>2
      <4> QED
        BY <3>2, <4>1, <4>3 DEF HeadOnly
    <3>3. NoReceiver.salt = 0
      BY DEF NoReceiver
    <3> QED
      BY <1>1, <2>2, <3>1, <3>2, <3>3 DEF Takes, GoesOn
  <2> QED
    BY <1>2, <2>1, <2>2 DEF HeadOnly
<1>5. CASE UNCHANGED displayed /\ Answers(Nacks)
  <2>1. OneAck'
    BY <1>2, <1>3, <1>5, NacksAreNoAcks DEF Nacks
  <2>2. Delivered'
    BY <1>2, <1>5 DEF Delivered, Whole
  <2> QED
    BY <1>4, <2>1, <2>2
<1>6. CASE Shows /\ Answers({"file-ack"})
  <2>1. /\ receiver.parts = Whole(HeadNo) /\ HeadNo <= picked
        /\ Len(displayed) = Concluded /\ Len(displayed') = HeadNo
    BY <1>6, ShownIsHead
  <2>2. /\ displayed'[Len(displayed) + 1] = receiver.parts
        /\ Len(displayed') = Len(displayed) + 1
        /\ \A i \in 1..Len(displayed) : displayed'[i] = displayed[i]
    BY <1>6, ShownIsLast
  <2>3. Concluded \in Nat /\ HeadNo = Concluded + 1
    BY ShownUntilFailure
  <2>4. \A i \in 1..Len(toSender) : ~AckAt(i)
    BY <2>1, <2>3 DEF OneAck
  <2>5. OneAck'
    BY <1>2, <1>3, <1>6, <2>1, <2>4, FirstAck
  <2>6. ASSUME NEW i \in 1..Len(displayed') PROVE displayed'[i] = Whole(i)
    <3>1. CASE i \in 1..Len(displayed)
      BY <2>2, <3>1 DEF Delivered
    <3>2. CASE i = Len(displayed) + 1
      BY <2>1, <2>2, <2>3, <3>2
    <3> QED
      BY <2>1, <2>2, <2>3, <3>1, <3>2
  <2>7. Delivered'
    BY <1>2, <2>1, <2>6 DEF Delivered, Whole
  <2> QED
    BY <1>4, <2>5, <2>7
<1> QED
  BY <1>1, <1>5, <1>6

LEMMA OtherUntilFailure ==
  ASSUME Basic, NEW owner, UntilFailure(owner), OfferResume \/ PairingStep \/ UNCHANGED vars
  PROVE  UntilFailure(owner)'
<1>1. /\ UNCHANGED <<senderVars, receiverVars>> /\ toSender \in Seq(ToSender)
      /\ toReceiver' = toReceiver \/ toReceiver' = <<>>
  BY DEF OfferResume, PairingStep, Drop, SenderNotices, ReceiverNotices, Reconnect, vars,
     Basic, WireOK
<1>2. /\ UNCHANGED <<queue, picked, sent, failed, receiver, displayed>>
      /\ HeadNo' = HeadNo /\ Concluded' = Concluded
  BY <1>1 DEF senderVars, receiverVars, HeadNo, Concluded
<1> SUFFICES ASSUME failed = {}, Delivered, OneAck, HeadOnly(owner)
             PROVE  Delivered' /\ OneAck' /\ HeadOnly(owner)'
  BY <1>2 DEF UntilFailure
<1>3. Delivered'
  BY <1>2 DEF Delivered, Whole
<1>4. HeadOnly(owner)'
  BY <1>1, <1>2 DEF HeadOnly
<1>5. Answers({"file-resume-offer"})
  <2>1. CASE OfferResume /\ receiver # NoReceiver /\ up
    <3>1. PICK m : m = [type |-> "file-resume-offer", seq |-> Len(receiver.parts)]
      OBVIOUS
    <3>2. Len(receiver.parts) \in Nat
      BY DEF Basic, ReceiverOK
    <3>3. m \in ToSender /\ m.type = "file-resume-offer" /\ toSender' = Append(toSender, m)
      BY <2>1, <3>1, <3>2 DEF ToSender, OfferResume, Reply
    <3> QED
      BY <3>3 DEF Answers
  <2>2. CASE ~(OfferResume /\ receiver # NoReceiver /\ up)
    <3>1. toSender' = toSender \/ toSender' = <<>>
      BY <2>2 DEF OfferResume, Reply, PairingStep, Drop, SenderNotices, ReceiverNotices,
         Reconnect, vars
    <3> QED
      BY <3>1 DEF Answers
  <2> QED
    BY <2>1, <2>2
<1>6. OneAck'
  BY <1>1, <1>2, <1>5, NacksAreNoAcks
<1> QED
  BY <1>3, <1>4, <1>6

-----------------------------------------------------------------------------
(* Every step together.                                                    *)

Order ==
    /\ BreakOK /\ QueueInOrder /\ LastsGrow
    /\ \E owner : OrderInv(owner) /\ UntilFailure(owner)

LEMMA InitOrder == Init => Order
<1> SUFFICES ASSUME Init PROVE Order
  OBVIOUS
<1>1. BreakOK /\ QueueInOrder /\ LastsGrow
  BY DEF Init, BreakOK, QueueInOrder, LastsGrow
<1>2. /\ toReceiver = <<>> /\ toSender = <<>> /\ displayed = <<>>
      /\ receiver.salt = 0 /\ receiver.parts = <<>> /\ receiver = NoReceiver
      /\ stream.salt = 0 /\ phase = "idle" /\ saltCount = 0
  BY DEF Init, NoReceiver, NoStream
<1>3. PICK owner : owner = [s \in Nat |-> 0]
  OBVIOUS
<1>4. Owning(owner) /\ owner[0] = 0
  BY <1>3 DEF Owning
<1>5. SaltsOwned(owner)
  BY <1>2, <1>4 DEF SaltsOwned
<1>6. FramesOwned(owner) /\ ReceiverOwned(owner) /\ InLine(owner)
  BY <1>2 DEF FramesOwned, ReceiverOwned, InLine, Line
<1>7. ShownFiles = {} /\ ~HeadEnded(owner)
  BY <1>2 DEF ShownFiles, HeadEnded
<1>8. OrderInv(owner)
  BY <1>5, <1>6, <1>7 DEF OrderInv, ShownBehind, HeadIsOver
<1>9. UntilFailure(owner)
  <2>1. Concluded = 0 /\ HeadNo = 1 /\ picked = 0 /\ sent = {}
    <3>1. picked = 0 /\ Len(queue) = 0 /\ sent = {}
      BY DEF Init
    <3> QED
      BY <3>1 DEF Concluded, HeadNo
  <2>2. sent = 1..Concluded
    BY <2>1
  <2>3. Delivered /\ OneAck
    BY <1>2, <2>1, <2>2 DEF Delivered, OneAck
  <2> QED
    BY <1>2, <2>3 DEF UntilFailure, HeadOnly
<1> QED
  BY <1>1, <1>8, <1>9 DEF Order

\* The salt a step may draw has an owner before the step.
LEMMA OwnerKnown ==
  ASSUME Basic, QueueInOrder, NEW owner, OrderInv(owner), UntilFailure(owner)
  PROVE  \E other : /\ OrderInv(other) /\ UntilFailure(other)
                    /\ other[saltCount + 1] = HeadNo
<1>1. PICK other : /\ OrderInv(other) /\ other[saltCount + 1] = HeadNo
                   /\ \A s \in 0..saltCount : other[s] = owner[s]
  BY OwnerExtends
<1>2. receiver.salt \in 0..saltCount
  BY DEF Basic, ReceiverOK, SenderOK, OrderInv, ReceiverOwned
<1>3. \A i \in 1..Len(toReceiver) :
         toReceiver[i].type = "file-start" => toReceiver[i].salt \in 0..saltCount
  <2> SUFFICES ASSUME NEW i \in 1..Len(toReceiver), toReceiver[i].type = "file-start"
               PROVE  toReceiver[i].salt \in 0..saltCount
    OBVIOUS
  <2>1. toReceiver[i].salt \in 1..saltCount
    BY UpToHead
  <2> QED
    BY <2>1
<1>4. HeadOnly(owner) => HeadOnly(other)
  BY <1>1, <1>2, <1>3 DEF HeadOnly
<1> QED
  BY <1>1, <1>4 DEF UntilFailure

\* The owner that knows the salt a step may draw is an owner after the step.
LEMMA StepOwned ==
  ASSUME Basic, Basic', BreakOK, QueueInOrder, QueueInOrder', WholeInv, [Next]_vars,
         NEW owner, OrderInv(owner), UntilFailure(owner), owner[saltCount + 1] = HeadNo
  PROVE  OrderInv(owner)' /\ UntilFailure(owner)'
<1>0. FinalSealed /\ NeverTruncated
  BY DEF WholeInv
<1>1. CASE SenderStep \/ AckTimeout
  BY <1>0, <1>1, SenderOrder, SenderUntilFailure
<1>2. CASE ReceiverStep /\ ~OfferResume
  BY <1>0, <1>2, ReceiverOrder, ReceiverUntilFailure
<1>3. CASE OfferResume
  BY <1>3, OfferOrder, OtherUntilFailure
<1>4. CASE PairingStep \/ UNCHANGED vars
  BY <1>4, PairingOrder, OtherUntilFailure
<1> QED
  BY <1>1, <1>2, <1>3, <1>4 DEF Next, PromptNext

LEMMA StepOrder == Basic /\ Basic' /\ WholeInv /\ Order /\ [Next]_vars => Order'
<1> SUFFICES ASSUME Basic, Basic', WholeInv, Order, [Next]_vars PROVE Order'
  OBVIOUS
<1>1. BreakOK' /\ QueueInOrder'
  BY StepBreak, StepQueue DEF Order
<1>2. PICK owner : OrderInv(owner) /\ UntilFailure(owner) /\ owner[saltCount + 1] = HeadNo
  BY OwnerKnown DEF Order
<1>3. OrderInv(owner)' /\ UntilFailure(owner)'
  BY <1>1, <1>2, StepOwned DEF Order
<1>4. LastsGrow'
  <2>1. UNCHANGED displayed \/ Shows
    <3>1. CASE ReceiverStep /\ ~OfferResume
      BY <1>2, <3>1, ReceiverTakes DEF Order
    <3>2. CASE ~(ReceiverStep /\ ~OfferResume)
      BY <3>2 DEF Next, PromptNext, SenderStep, AckTimeout, PairingStep, ReceiverStep,
         Pick, DrainLoop, SendFileStart, ReadSegment, SealRecord, SendRecord, SendFileEnd,
         RewindTail, ReceiveFileAck, ReceiveFileNack, ReceiveSegmentNack, ReceiveResumeOffer,
         RecoveryKick, OfferResume, Drop, SenderNotices, ReceiverNotices, Reconnect,
         vars, receiverVars
    <3> QED
      BY <3>1, <3>2
  <2> QED
    BY <1>2, <2>1, ReceiverShowsLater DEF Order
<1> QED
  BY <1>1, <1>3, <1>4 DEF Order

LEMMA OrderHolds == Spec => [](Basic /\ WholeInv /\ Order)
<1>1. Init => Basic /\ WholeInv /\ Order
  BY InitBasic, InitWhole, InitOrder
<1>2. Basic /\ WholeInv /\ Order /\ [Next]_vars => (Basic /\ WholeInv /\ Order)'
  <2> SUFFICES ASSUME Basic, WholeInv, Order, [Next]_vars PROVE (Basic /\ WholeInv /\ Order)'
    OBVIOUS
  <2>1. Basic' /\ WholeInv' /\ NeverTruncated
    BY StepBasic, StepWhole DEF WholeInv
  <2> QED
    BY <2>1, StepOrder
<1> QED
  BY <1>1, <1>2, PTL DEF Spec

\* No file is shown twice: a conclusion the sender reached without the ack is
\* never followed by a second start of the file, and a pause whose offer would
\* start it again gets none.
THEOREM NothingShownTwice == Spec => []ShownOnce
<1>1. ASSUME Basic, WholeInv, Order PROVE ShownOnce
  <2>1. ASSUME NEW i \in 1..Len(displayed), NEW j \in 1..Len(displayed), i < j
        PROVE  displayed[i] # displayed[j]
    <3>1. LastOf(displayed[i]) < LastOf(displayed[j])
      BY <1>1, <2>1 DEF Order, LastsGrow
    <3>2. CASE displayed[i] = displayed[j]
      <4>1. LastOf(displayed[i]) < LastOf(displayed[i])
        BY <3>1, <3>2
      <4>2. LastOf(displayed[i]) \in Nat
        <5>1. LastOf(displayed[i]) \in ShownFiles
          BY <2>1 DEF ShownFiles
        <5>2. LastOf(displayed[i]) \in 0..NumFiles
          BY <1>1, <5>1, FilesAreNat DEF WholeInv
        <5> QED
          BY <5>2, ConstantsAssumption
      <4> QED
        BY <4>1, <4>2
    <3> QED
      BY <3>2
  <2>2. \A i, j \in 1..Len(displayed) : i # j => i < j \/ j < i
    BY <1>1 DEF Basic, ReceiverOK
  <2> QED
    BY <2>1, <2>2 DEF ShownOnce
<1> QED
  BY <1>1, OrderHolds, PTL

\* Until the sender gives a file up, an offer, which names no file, is about
\* the file both pages mean.
THEOREM HeadIsHeld == Spec => []ReceiverHoldsHead
<1>1. ASSUME Basic, Order PROVE ReceiverHoldsHead
  <2> SUFFICES ASSUME failed = {}, queue # <<>>, NEW i \in 1..Len(receiver.parts)
               PROVE  receiver.parts[i] = Head(queue)
    BY DEF ReceiverHoldsHead
  <2>1. PICK owner : OrderInv(owner) /\ UntilFailure(owner)
    BY <1>1 DEF Order
  <2>2. receiver.salt # 0
    <3>1. NoReceiver.parts = <<>>
      BY DEF NoReceiver
    <3> QED
      BY <2>1, <3>1 DEF OrderInv, ReceiverOwned
  <2>3. receiver.parts[i] = HeadNo
    BY <2>1, <2>2 DEF UntilFailure, HeadOnly
  <2> QED
    BY <1>1, <2>3, HeadInOrder DEF Order, HeadOfQueue
<1> QED
  BY <1>1, OrderHolds, PTL

\* An ack resolves whichever file waits for one; until the sender gives a file
\* up that is the file the receiver showed whole.
THEOREM SentWasReceived == Spec => [](failed = {} => SentMeansReceived)
<1>1. ASSUME Basic, Order PROVE failed = {} => SentMeansReceived
  <2> SUFFICES ASSUME failed = {}, NEW f \in sent
               PROVE  \E i \in 1..Len(displayed) : displayed[i] = Whole(f)
    BY DEF SentMeansReceived
  <2>1. Delivered
    BY <1>1 DEF Order, UntilFailure
  <2>2. f \in 1..Concluded /\ Concluded \in Nat /\ HeadNo = Concluded + 1 /\ Len(displayed) \in Nat
    BY <1>1, <2>1, ShownUntilFailure DEF Order, Delivered
  <2>3. f \in 1..Len(displayed)
    BY <2>1, <2>2 DEF Delivered
  <2> QED
    BY <2>1, <2>3 DEF Delivered
<1> QED
  BY <1>1, OrderHolds, PTL

-----------------------------------------------------------------------------
(* The transfer implements FileDelivery until the sender gives a file up.  *)

\* The files that FileDelivery takes for shown.
ShownAs == [i \in 1..Len(displayed) |->
              IF displayed[i] = Whole(displayed[i][1]) THEN displayed[i][1] ELSE 0]

LEMMA ShownInOrder ==
  ASSUME Basic, QueueInOrder, Delivered
  PROVE  /\ ShownAs = [i \in 1..Len(displayed) |-> i]
         /\ Len(ShownAs) = Len(displayed)
         /\ ShownAs \in Seq(Nat)
<1>1. Len(displayed) \in Nat
  BY ShownUntilFailure
<1>2. ASSUME NEW i \in 1..Len(displayed)
      PROVE  displayed[i] = Whole(i) /\ displayed[i][1] = i
  <2>1. displayed[i] = Whole(i) /\ i \in File
    BY <1>2, ShownUntilFailure DEF Delivered
  <2> QED
    BY <2>1, WholeIsFull
<1>3. ShownAs = [i \in 1..Len(displayed) |-> i]
  BY <1>2 DEF ShownAs
<1> QED
  BY <1>1, <1>3

LEMMA HeadIsNotShown ==
  ASSUME Basic, QueueInOrder, Delivered, queue # <<>>
  PROVE  Delivery!IsShown(Head(queue)) <=> Len(displayed) = HeadNo
<1>1. Head(queue) = HeadNo
  BY HeadInOrder DEF HeadOfQueue
<1>2. /\ Concluded \in Nat /\ HeadNo = Concluded + 1 /\ Len(displayed) \in Nat
      /\ Len(displayed) \in {Concluded, HeadNo}
  BY ShownUntilFailure DEF Delivered
<1>3. /\ Len(ShownAs) = Len(displayed)
      /\ \A i \in 1..Len(displayed) : ShownAs[i] = i
  BY ShownInOrder
<1>4. Delivery!IsShown(Head(queue)) <=> \E i \in 1..Len(ShownAs) : ShownAs[i] = HeadNo
  BY <1>1 DEF Delivery!IsShown, ShownAs
<1> QED
  BY <1>2, <1>3, <1>4

\* The sender page picks, concludes by an ack, or changes nothing of this.
LEMMA SenderDelivers ==
  ASSUME Basic, QueueInOrder, Delivered, OneAck, SenderStep \/ AckTimeout, failed' = {}
  PROVE  [Delivery!Next]_Delivery!vars
<1>1. UNCHANGED displayed /\ toSender \in Seq(ToSender)
  BY DEF SenderStep, AckTimeout, Pick, DrainLoop, SendFileStart, ReadSegment, SealRecord,
     SendRecord, SendFileEnd, RewindTail, ReceiveFileAck, ReceiveFileNack, ReceiveSegmentNack,
     ReceiveResumeOffer, RecoveryKick, receiverVars, Basic, WireOK
<1>2. ShownAs' = ShownAs
  BY <1>1 DEF ShownAs, Whole
<1>3. CASE UNCHANGED <<queue, picked, sent, failed>>
  BY <1>2, <1>3 DEF Delivery!vars, ShownAs
<1>4. CASE Pick /\ UNCHANGED <<sent, failed>>
  <2>1. Delivery!Pick
    BY <1>2, <1>4 DEF Pick, Delivery!Pick, ShownAs
  <2> QED
    BY <2>1 DEF Delivery!Next
<1>5. CASE /\ Concludes /\ UNCHANGED <<picked, toReceiver>>
           /\ UNCHANGED failed /\ sent' = sent \cup {Head(queue)}
           /\ toSender # <<>> /\ AckAt(1)
  <2>1. queue # <<>> /\ queue' = Tail(queue)
    BY <1>5 DEF Concludes, Conclude, Basic, SenderOK, SendsHead
  <2>2. 1 \in 1..Len(toSender)
    BY <1>1, <1>5
  <2>3. Len(displayed) = HeadNo
    BY <1>5, <2>2 DEF OneAck
  <2>4. Delivery!IsShown(Head(queue))
    BY <2>1, <2>3, HeadIsNotShown
  <2>5. Delivery!MarkSent
    BY <1>2, <1>5, <2>1, <2>4 DEF Delivery!MarkSent, ShownAs
  <2> QED
    BY <2>5 DEF Delivery!Next
<1> QED
  BY <1>3, <1>4, <1>5, SenderConcludes

\* The receiver page shows the head, or changes nothing of this.
LEMMA ReceiverDelivers ==
  ASSUME Basic, Basic', QueueInOrder, QueueInOrder', Delivered, Delivered', FinalSealed,
         NEW owner, OrderInv(owner), HeadOnly(owner),
         UNCHANGED senderVars, UNCHANGED displayed \/ Shows
  PROVE  [Delivery!Next]_Delivery!vars
<1>1. UNCHANGED <<queue, picked, sent, failed>>
  BY DEF senderVars
<1>2. CASE UNCHANGED displayed
  <2>1. ShownAs' = ShownAs
    BY <1>2 DEF ShownAs, Whole
  <2> QED
    BY <1>1, <2>1 DEF Delivery!vars, ShownAs
<1>3. CASE Shows
  <2>1. /\ queue # <<>> /\ Len(displayed) = Concluded /\ Len(displayed') = HeadNo
    BY <1>3, ShownIsHead
  <2>2. Concluded \in Nat /\ HeadNo = Concluded + 1
    BY ShownUntilFailure
  <2>3. ~Delivery!IsShown(Head(queue))
    BY <2>1, <2>2, HeadIsNotShown
  <2>4. Head(queue) = HeadNo
    BY <2>1, HeadInOrder DEF HeadOfQueue
  <2>5. ShownAs' = Append(ShownAs, HeadNo)
    <3>1. /\ ShownAs = [i \in 1..Len(displayed) |-> i] /\ ShownAs \in Seq(Nat)
          /\ Len(ShownAs) = Len(displayed)
      BY ShownInOrder
    <3>2. ShownAs' = [i \in 1..Len(displayed') |-> i]
      <4>1. \A i \in 1..Len(displayed') : displayed'[i] = Whole(i) /\ i \in File
        <5>1. HeadNo \in File
          BY <1>3, ShownIsHead
        <5>2. \A i \in 1..HeadNo : i \in File
          BY <5>1, ConstantsAssumption DEF File
        <5> QED
          BY <2>1, <5>2 DEF Delivered, Whole
      <4>2. \A i \in 1..Len(displayed') : displayed'[i][1] = i
        BY <4>1, WholeIsFull
      <4> QED
        BY <4>1, <4>2 DEF ShownAs, Whole
    <3>3. [i \in 1..Concluded + 1 |-> i] = Append([i \in 1..Concluded |-> i], Concluded + 1)
      BY <2>2
    <3> QED
      BY <2>1, <2>2, <3>1, <3>2, <3>3
  <2>6. Delivery!Show
    BY <1>1, <2>1, <2>3, <2>4, <2>5 DEF Delivery!Show, ShownAs
  <2> QED
    BY <2>6 DEF Delivery!Next
<1> QED
  BY <1>2, <1>3

\* Every step before the sender gives a file up is a step of FileDelivery.
LEMMA StepDelivers ==
  ASSUME Basic, Basic', WholeInv, Order, Order', [Next]_vars, failed = {}, failed' = {}
  PROVE  [Delivery!Next]_Delivery!vars
<1>1. PICK owner : OrderInv(owner) /\ UntilFailure(owner)
  BY DEF Order
<1>2. /\ QueueInOrder /\ QueueInOrder' /\ FinalSealed
      /\ Delivered /\ OneAck /\ HeadOnly(owner)
  BY <1>1 DEF Order, WholeInv, UntilFailure
<1>3. Delivered'
  BY DEF Order, UntilFailure
<1>4. CASE SenderStep \/ AckTimeout
  BY <1>2, <1>4, SenderDelivers
<1>5. CASE ReceiverStep /\ ~OfferResume
  <2>1. UNCHANGED senderVars /\ (UNCHANGED displayed \/ Shows)
    BY <1>1, <1>2, <1>5, ReceiverTakes DEF Takes
  <2> QED
    BY <1>1, <1>2, <1>3, <2>1, ReceiverDelivers
<1>6. CASE OfferResume \/ PairingStep \/ UNCHANGED vars
  <2>1. UNCHANGED senderVars /\ UNCHANGED displayed
    BY <1>6 DEF OfferResume, PairingStep, Drop, SenderNotices, ReceiverNotices, Reconnect, vars,
       receiverVars
  <2> QED
    BY <1>1, <1>2, <1>3, <2>1, ReceiverDelivers
<1> QED
  BY <1>4, <1>5, <1>6 DEF Next, PromptNext

\* Until the sender gives a file up, the two pages implement FileDelivery:
\* the head is shown once and whole, and marked sent only then.
THEOREM DeliversUntilFailure == Spec /\ [](failed = {}) => ImplementsFileDelivery
<1>1. Init => Delivery!Init
  <2> SUFFICES ASSUME Init PROVE Delivery!Init
    OBVIOUS
  <2>1. displayed = <<>> /\ Len(displayed) = 0
    BY DEF Init
  <2>2. ShownAs = <<>>
    BY <2>1 DEF ShownAs
  <2> QED
    BY <2>2 DEF Init, Delivery!Init, ShownAs
<1>2. (Basic /\ WholeInv /\ Order) /\ (Basic /\ WholeInv /\ Order)'
        /\ failed = {} /\ (failed = {})' /\ [Next]_vars => [Delivery!Next]_Delivery!vars
  BY StepDelivers
<1> QED
  BY <1>1, <1>2, OrderHolds, PTL DEF Spec, ImplementsFileDelivery, Delivery!Spec

-----------------------------------------------------------------------------
(* An unbroken pairing, until the sender gives a file up: the two pages    *)
(* are always in one of seven situations of a transfer, each of which says *)
(* what is on the wire.                                                    *)

Segs == SegCount[HeadNo]
Verified == Len(receiver.parts)

Unbroken ==
    /\ up /\ senderOpen /\ receiverOpen /\ ~aborted
    /\ ~kickDue /\ ~offerDue /\ ~pausedOnTransient

Pumping == phase \in {"pump", "read", "seal"}

\* After its place k the wire carries records of f from lo on, in order and
\* under one key, and the file-end behind the last of them.
Flow(w, k, lo, salt, f) ==
    \A i \in 1..Len(w) : i > k =>
        \/ /\ w[i].type = "record" /\ w[i].seq = lo + (i - k - 1)
           /\ w[i].salt = salt /\ w[i].file = f
           /\ lo + (i - k - 1) <= SegCount[f]
        \/ /\ w[i].type = "file-end" /\ i = Len(w)
           /\ lo + (i - k - 1) = SegCount[f] + 1

OnlyRecords(w, k) == \A i \in 1..Len(w) : i > k => w[i].type = "record"
Ended(w, k) == Len(w) > k => w[Len(w)].type = "file-end"

\* What was pumped before the rewind at place k: records the parser follows.
Skipped(w, k, next) ==
    \A i \in 1..Len(w) : i < k =>
        \/ w[i].type = "record" /\ w[i].seq = next + (i - 1)
        \/ w[i].type = "file-end" /\ i = k - 1

\* The head is being pumped, from record lo on after place k of the wire.
Streams(k, lo) ==
    /\ Flow(toReceiver, k, lo, stream.salt, HeadNo)
    /\ Pumping => /\ OnlyRecords(toReceiver, k)
                  /\ stream.nextSeq = lo + (Len(toReceiver) - k)
                  /\ stream.nextSeq <= Segs + 1
    /\ phase \in {"read", "seal"} => record.seq = stream.nextSeq /\ record.seq <= Segs
    /\ phase = "seal" => record.salt = stream.salt
    /\ ~Pumping => Ended(toReceiver, k)

Quiet == toSender = <<>> /\ segmentNackSeq = None

\* The seven situations of a transfer: not begun; its file-start under way;
\* being received; waiting for the answer to a nack; with that answer under
\* way; given up by the receiver; shown, with the ack under way.
AtRest ==
    /\ phase \in {"idle", "loop", "start"}
    /\ phase = "start" => stream.nextSeq = 0
    /\ toReceiver = <<>> /\ toSender = <<>> /\ receiver = NoReceiver

Starting ==
    /\ Quiet
    /\ Pumping \/ (phase = "wait" /\ Len(toReceiver) > 1)
    /\ toReceiver # <<>>
    /\ toReceiver[1].type = "file-start" /\ toReceiver[1].salt = stream.salt
    /\ toReceiver[1].segCount = Segs
    /\ Streams(1, 0)

Listening ==
    /\ Quiet
    /\ Pumping \/ (phase = "wait" /\ Len(toReceiver) > 0)
    /\ receiver.salt = stream.salt /\ receiver.segCount = Segs
    /\ awaitingRewindSeq = None
    /\ Verified <= parserNextSeq
    /\ Streams(0, Verified)

Awaits ==
    /\ receiver # NoReceiver /\ receiver.segCount = Segs
    /\ awaitingRewindSeq = Verified
    /\ Verified <= Segs /\ Verified <= parserNextSeq

NackPending ==
    \/ /\ Pumping \/ phase = "wait"
       /\ Len(toSender) = 1 /\ toSender[1].type = "segment-nack"
       /\ toSender[1].seq = Verified /\ segmentNackSeq = None
    \/ Pumping /\ toSender = <<>> /\ segmentNackSeq = Verified
    \/ phase = "rewind" /\ nackedSeq = Verified /\ Quiet

Nacked == Awaits /\ NackPending /\ Streams(0, parserNextSeq)

RewindAt(k) ==
    /\ toReceiver[k].type = "segment-rewind" /\ toReceiver[k].seq = Verified
    /\ toReceiver[k].salt = stream.salt
    /\ Skipped(toReceiver, k, parserNextSeq)
    /\ Pumping \/ (phase = "wait" /\ Len(toReceiver) > k)
    /\ Streams(k, Verified)

Rewinding == Awaits /\ Quiet /\ \E k \in 1..Len(toReceiver) : RewindAt(k)

GivenUp ==
    /\ receiver = NoReceiver /\ segmentNackSeq = None /\ parserNextSeq # None
    /\ Pumping \/ phase = "wait"
    /\ toSender = <<>> \/ (Len(toSender) = 1 /\ toSender[1].type = "file-nack")
    /\ Streams(0, parserNextSeq)

Acked ==
    /\ receiver = NoReceiver /\ phase = "wait" /\ toReceiver = <<>>
    /\ Len(toSender) = 1 /\ toSender[1].type = "file-ack"

Regular ==
    AtRest \/ Starting \/ Listening \/ Nacked \/ Rewinding \/ GivenUp \/ Acked

InStep == failed = {} /\ drops = 0 => Unbroken /\ Regular /\ retryCount <= corrupted

-----------------------------------------------------------------------------
(* What the sender pumps, as the receiver takes it off the wire.           *)

LEMMA FlowTail ==
  ASSUME NEW w \in Seq(ToReceiver), w # <<>>, NEW k \in 0..Len(w), NEW lo \in Nat,
         NEW salt, NEW f, SegCount[f] \in Nat, Flow(w, k, lo, salt, f)
  PROVE  /\ k > 0 => Flow(Tail(w), k - 1, lo, salt, f)
         /\ k = 0 /\ w[1].type = "record" => Flow(Tail(w), 0, lo + 1, salt, f)
         /\ k = 0 /\ w[1].type = "file-end" => Len(w) = 1
<1>1. PICK v : v = Tail(w)
  OBVIOUS
<1>2. /\ Len(w) \in Nat /\ Len(w) >= 1 /\ Len(v) = Len(w) - 1
      /\ \A i \in 1..Len(v) : i + 1 \in 1..Len(w) /\ v[i] = w[i + 1]
  BY <1>1
<1>3. ASSUME k > 0, NEW i \in 1..Len(v), i > k - 1
      PROVE  \/ /\ v[i].type = "record" /\ v[i].seq = lo + (i - (k - 1) - 1)
                /\ v[i].salt = salt /\ v[i].file = f
                /\ lo + (i - (k - 1) - 1) <= SegCount[f]
             \/ /\ v[i].type = "file-end" /\ i = Len(v)
                /\ lo + (i - (k - 1) - 1) = SegCount[f] + 1
  <2>1. i + 1 \in 1..Len(w) /\ i + 1 > k /\ v[i] = w[i + 1]
    BY <1>2, <1>3
  <2>2. i - (k - 1) - 1 = (i + 1) - k - 1
    BY <1>2, <1>3
  <2>3. i + 1 = Len(w) => i = Len(v)
    BY <1>2, <1>3
  <2> QED
    BY <2>1, <2>2, <2>3 DEF Flow
<1>4. ASSUME k = 0, w[1].type = "record", NEW i \in 1..Len(v)
      PROVE  \/ /\ v[i].type = "record" /\ v[i].seq = (lo + 1) + (i - 0 - 1)
                /\ v[i].salt = salt /\ v[i].file = f
                /\ (lo + 1) + (i - 0 - 1) <= SegCount[f]
             \/ /\ v[i].type = "file-end" /\ i = Len(v)
                /\ (lo + 1) + (i - 0 - 1) = SegCount[f] + 1
  <2>1. i + 1 \in 1..Len(w) /\ i + 1 > k /\ v[i] = w[i + 1]
    BY <1>2, <1>4
  <2>2. (lo + 1) + (i - 0 - 1) = lo + ((i + 1) - k - 1)
    BY <1>2, <1>4
  <2>3. i + 1 = Len(w) => i = Len(v)
    BY <1>2, <1>4
  <2> QED
    BY <2>1, <2>2, <2>3 DEF Flow
<1>5. ASSUME k = 0, w[1].type = "file-end" PROVE Len(w) = 1
  <2>1. 1 \in 1..Len(w) /\ 1 > k
    BY <1>2, <1>5
  <2> QED
    BY <1>5, <2>1 DEF Flow
<1> QED
  BY <1>1, <1>3, <1>4, <1>5 DEF Flow

LEMMA KindsTail ==
  ASSUME NEW w \in Seq(ToReceiver), w # <<>>, NEW k \in 0..Len(w)
  PROVE  /\ k > 0 /\ OnlyRecords(w, k) => OnlyRecords(Tail(w), k - 1)
         /\ k > 0 /\ Ended(w, k) => Ended(Tail(w), k - 1)
         /\ k = 0 /\ OnlyRecords(w, k) => OnlyRecords(Tail(w), 0)
         /\ k = 0 /\ Ended(w, k) => Ended(Tail(w), 0)
<1>1. PICK v : v = Tail(w)
  OBVIOUS
<1>2. /\ Len(w) \in Nat /\ Len(w) >= 1 /\ Len(v) = Len(w) - 1
      /\ \A i \in 1..Len(v) : i + 1 \in 1..Len(w) /\ v[i] = w[i + 1]
  BY <1>1
<1>3. ASSUME OnlyRecords(w, k), NEW i \in 1..Len(v), i > k - 1
      PROVE  v[i].type = "record"
  <2>1. i + 1 \in 1..Len(w) /\ i + 1 > k /\ v[i] = w[i + 1]
    BY <1>2, <1>3
  <2> QED
    BY <1>3, <2>1 DEF OnlyRecords
<1>4. ASSUME Ended(w, k), NEW n \in Nat, n = k - 1 \/ (n = 0 /\ k = 0), Len(v) > n
      PROVE  v[Len(v)].type = "file-end"
  <2>1. Len(v) \in 1..Len(v) /\ v[Len(v)] = w[Len(w)] /\ Len(w) > k
    BY <1>2, <1>4
  <2> QED
    BY <1>4, <2>1 DEF Ended
<1>5. k > 0 => k - 1 \in Nat
  OBVIOUS
<1>6. k = 0 => \A i \in 1..Len(v) : i > k - 1
  OBVIOUS
<1> QED
  BY <1>1, <1>3, <1>4, <1>5, <1>6 DEF OnlyRecords, Ended

\* A frame of the stream goes to the end of the wire.
LEMMA FlowAppend ==
  ASSUME NEW w \in Seq(ToReceiver), NEW k \in 0..Len(w), NEW lo \in Nat,
         NEW salt, NEW f, SegCount[f] \in Nat, Flow(w, k, lo, salt, f), OnlyRecords(w, k),
         NEW m \in ToReceiver,
         \/ /\ m.type = "record" /\ m.seq = lo + (Len(w) - k)
            /\ m.salt = salt /\ m.file = f /\ m.seq <= SegCount[f]
         \/ m.type = "file-end" /\ lo + (Len(w) - k) = SegCount[f] + 1
  PROVE  /\ Flow(Append(w, m), k, lo, salt, f)
         /\ m.type = "record" => OnlyRecords(Append(w, m), k)
         /\ m.type = "file-end" => Ended(Append(w, m), k)
<1>1. PICK v : v = Append(w, m)
  OBVIOUS
<1>2. /\ Len(w) \in Nat /\ Len(v) = Len(w) + 1 /\ v[Len(w) + 1] = m
      /\ \A i \in 1..Len(w) : v[i] = w[i]
  BY <1>1
<1>3. ASSUME NEW i \in 1..Len(v), i > k
      PROVE  \/ /\ v[i].type = "record" /\ v[i].seq = lo + (i - k - 1)
                /\ v[i].salt = salt /\ v[i].file = f
                /\ lo + (i - k - 1) <= SegCount[f]
             \/ /\ v[i].type = "file-end" /\ i = Len(v)
                /\ lo + (i - k - 1) = SegCount[f] + 1
  <2>1. CASE i \in 1..Len(w)
    <3>1. v[i] = w[i] /\ w[i].type = "record"
      BY <1>2, <1>3, <2>1 DEF OnlyRecords
    <3>2. w[i].type # "file-end"
      BY <3>1
    <3> QED
      BY <1>3, <2>1, <3>1, <3>2 DEF Flow
  <2>2. CASE i = Len(w) + 1
    <3>1. v[i] = m /\ i = Len(v) /\ i - k - 1 = Len(w) - k
      BY <1>2, <2>2
    <3> QED
      BY <3>1
  <2> QED
    BY <1>2, <1>3, <2>1, <2>2
<1>4. m.type = "record" => OnlyRecords(v, k)
  BY <1>2 DEF OnlyRecords
<1>5. m.type = "file-end" => Ended(v, k)
  BY <1>2 DEF Ended
<1> QED
  BY <1>1, <1>3, <1>4, <1>5 DEF Flow

LEMMA SkippedTail ==
  ASSUME NEW w \in Seq(ToReceiver), NEW k \in 2..Len(w), NEW next \in Nat, Skipped(w, k, next)
  PROVE  /\ w[1].type = "record" => w[1].seq = next /\ Skipped(Tail(w), k - 1, next + 1)
         /\ w[1].type = "file-end" => k = 2 /\ Skipped(Tail(w), k - 1, next)
         /\ w[1].type \in {"record", "file-end"}
<1>1. PICK v : v = Tail(w)
  OBVIOUS
<1>2. /\ Len(w) \in Nat /\ Len(w) >= 2 /\ Len(v) = Len(w) - 1
      /\ \A i \in 1..Len(v) : i + 1 \in 1..Len(w) /\ v[i] = w[i + 1]
  BY <1>1
<1>3. \/ w[1].type = "record" /\ w[1].seq = next + (1 - 1)
      \/ w[1].type = "file-end" /\ 1 = k - 1
  BY <1>2 DEF Skipped
<1>4. ASSUME NEW i \in 1..Len(v), i < k - 1
      PROVE  \/ v[i].type = "record" /\ v[i].seq = next + 1 + (i - 1)
             \/ v[i].type = "file-end" /\ i = k - 1 - 1
  <2>1. i + 1 \in 1..Len(w) /\ i + 1 < k /\ v[i] = w[i + 1]
    BY <1>2, <1>4
  <2>2. next + 1 + (i - 1) = next + ((i + 1) - 1) /\ (i + 1 = k - 1 => i = k - 1 - 1)
    BY <1>4
  <2> QED
    BY <2>1, <2>2 DEF Skipped
<1>5. k = 2 => \A i \in 1..Len(v) : ~(i < k - 1)
  OBVIOUS
<1>6. Skipped(v, k - 1, next + 1)
  BY <1>4 DEF Skipped
<1>7. k = 2 => Skipped(v, k - 1, next)
  BY <1>5 DEF Skipped
<1> QED
  BY <1>1, <1>3, <1>6, <1>7

\* A send is about the head, and every situation but rest has one.
LEMMA HeadFacts ==
  ASSUME Basic, QueueInOrder, Sending
  PROVE  /\ queue # <<>> /\ Head(queue) = HeadNo /\ HeadNo \in File
         /\ Segs \in Nat \ {0} /\ SegCount[HeadNo] = Segs /\ SegCountOf(HeadNo) = Segs
         /\ stream.salt \in Nat \ {0}
<1>1. queue # <<>> /\ stream.salt > 0 /\ stream.salt \in Nat
  BY DEF Basic, SenderOK, SendsHead
<1>2. Head(queue) = HeadNo /\ HeadNo \in File
  BY <1>1, HeadInOrder DEF HeadOfQueue
<1>3. Segs \in Nat \ {0}
  BY <1>2, ConstantsAssumption DEF Segs
<1>4. SegCountOf(HeadNo) = Segs
  BY <1>2 DEF SegCountOf, Segs, File
<1> QED
  BY <1>1, <1>2, <1>3, <1>4 DEF Segs

\* The receiver takes the first frame off the wire.
LEMMA StreamsTail ==
  ASSUME Basic, toReceiver # <<>>, toReceiver' = Tail(toReceiver),
         UNCHANGED <<phase, stream, record, HeadNo, Segs>>, Segs \in Nat,
         NEW k \in 0..Len(toReceiver), NEW lo \in Nat, Streams(k, lo)
  PROVE  /\ k > 0 => Streams(k - 1, lo)'
         /\ k = 0 /\ toReceiver[1].type = "record" => Streams(0, lo + 1)'
         /\ k = 0 /\ toReceiver[1].type = "file-end" =>
              toReceiver' = <<>> /\ ~Pumping /\ \A n \in Nat : Streams(0, n)'
<1>1. toReceiver \in Seq(ToReceiver) /\ stream.nextSeq \in Nat /\ SegCount[HeadNo] \in Nat
  BY DEF Basic, SenderOK, WireOK, Segs
<1>2. PICK v : v = toReceiver'
  OBVIOUS
<1>3. v = Tail(toReceiver) /\ Len(toReceiver) \in Nat /\ Len(v) = Len(toReceiver) - 1
      /\ v \in Seq(ToReceiver)
  BY <1>1, <1>2
<1>4. PICK w : w = toReceiver
  OBVIOUS
<1>5. Flow(w, k, lo, stream.salt, HeadNo)
  BY <1>4 DEF Streams
<1>6. /\ k > 0 => Flow(v, k - 1, lo, stream.salt, HeadNo)
      /\ k = 0 /\ w[1].type = "record" => Flow(v, 0, lo + 1, stream.salt, HeadNo)
      /\ k = 0 /\ w[1].type = "file-end" => Len(w) = 1
  BY <1>1, <1>3, <1>4, <1>5, FlowTail
<1>7. /\ k > 0 /\ OnlyRecords(w, k) => OnlyRecords(v, k - 1)
      /\ k > 0 /\ Ended(w, k) => Ended(v, k - 1)
      /\ k = 0 /\ OnlyRecords(w, k) => OnlyRecords(v, 0)
      /\ k = 0 /\ Ended(w, k) => Ended(v, 0)
  BY <1>1, <1>3, <1>4, KindsTail
<1>8. /\ Pumping' = Pumping /\ stream' = stream /\ record' = record /\ phase' = phase
      /\ HeadNo' = HeadNo /\ Segs' = Segs
  BY DEF Pumping
<1>9. ASSUME k > 0 PROVE Streams(k - 1, lo)'
  <2>1. lo + (Len(v) - (k - 1)) = lo + (Len(w) - k)
    BY <1>3, <1>4, <1>9
  <2> QED
    BY <1>2, <1>4, <1>6, <1>7, <1>8, <1>9, <2>1 DEF Streams
<1>10. ASSUME k = 0, w[1].type = "record" PROVE Streams(0, lo + 1)'
  <2>1. lo + 1 + (Len(v) - 0) = lo + (Len(w) - k)
    BY <1>3, <1>4, <1>10
  <2> QED
    BY <1>2, <1>4, <1>6, <1>7, <1>8, <1>10, <2>1 DEF Streams
<1>11. ASSUME k = 0, w[1].type = "file-end"
       PROVE  toReceiver' = <<>> /\ ~Pumping /\ \A n \in Nat : Streams(0, n)'
  <2>1. Len(w) = 1 /\ Len(v) = 0 /\ v = <<>>
    BY <1>3, <1>4, <1>6, <1>11
  <2>2. ~Pumping
    <3>1. ~OnlyRecords(w, k)
      BY <1>11, <2>1 DEF OnlyRecords
    <3> QED
      BY <1>4, <3>1 DEF Streams
  <2>3. \A n \in Nat : Flow(v, 0, n, stream.salt, HeadNo)
    BY <2>1 DEF Flow
  <2>4. Ended(v, 0)
    BY <2>1 DEF Ended
  <2> QED
    BY <1>2, <1>4, <1>8, <2>1, <2>2, <2>3, <2>4 DEF Streams, Pumping
<1> QED
  BY <1>4, <1>9, <1>10, <1>11

\* The steps of the pump.
Pumps == ReadSegment \/ SealRecord \/ SendRecord \/ SendFileEnd

\* What a step of the pump leaves of a stream: it goes on, or it ends and a
\* nack that came meanwhile is answered.
PumpedOn ==
    /\ \/ Pumping' /\ segmentNackSeq' = segmentNackSeq
          /\ Len(toReceiver') >= Len(toReceiver)
       \/ /\ phase' = AfterFileEnd /\ nackedSeq' = segmentNackSeq
          /\ segmentNackSeq' = None
          /\ Len(toReceiver') = Len(toReceiver) + 1
    /\ \A i \in 1..Len(toReceiver) : toReceiver'[i] = toReceiver[i]
    /\ Len(toReceiver') \in Nat
    /\ stream'.salt = stream.salt
    /\ UNCHANGED <<toSender, receiverVars, pairingVars, queue, picked, failed, HeadNo, Segs,
                   pausedOnTransient>>

LEMMA PumpsOn ==
  ASSUME Basic, QueueInOrder, Unbroken, Pumps, NEW k \in 0..Len(toReceiver), NEW lo \in Nat,
         Streams(k, lo)
  PROVE  PumpedOn /\ Streams(k, lo)'
<1>1. /\ toReceiver \in Seq(ToReceiver) /\ stream.nextSeq \in Nat /\ record.seq \in Nat
      /\ stream \in [salt : Nat, nextSeq : Nat, read : SUBSET Nat]
      /\ record \in [salt : Nat, seq : Nat]
  BY DEF Basic, SenderOK, WireOK
<1>2. Pumping /\ Sending
  BY DEF Pumps, ReadSegment, SealRecord, SendRecord, SendFileEnd, Pumping, Sending
<1>3. /\ Head(queue) = HeadNo /\ Segs \in Nat \ {0} /\ SegCount[HeadNo] = Segs
      /\ HeadNo \in 0..NumFiles /\ HeadNo \in File
  <2>1. File \subseteq 0..NumFiles
    BY ConstantsAssumption DEF File
  <2> QED
    BY <1>2, <2>1, HeadFacts
<1>4. UNCHANGED <<queue, picked, HeadNo, Segs>>
  BY DEF Pumps, ReadSegment, SealRecord, SendRecord, SendFileEnd, HeadNo, Concluded, Segs
<1>5. UNCHANGED <<toSender, receiverVars, pairingVars, failed>>
  BY DEF Pumps, ReadSegment, SealRecord, SendRecord, SendFileEnd
<1>6. up /\ senderOpen
  BY DEF Unbroken
<1>7. /\ Flow(toReceiver, k, lo, stream.salt, HeadNo) /\ OnlyRecords(toReceiver, k)
      /\ stream.nextSeq = lo + (Len(toReceiver) - k) /\ stream.nextSeq <= Segs + 1
      /\ phase \in {"read", "seal"} => record.seq = stream.nextSeq /\ record.seq <= Segs
      /\ phase = "seal" => record.salt = stream.salt
  BY <1>2 DEF Streams
<1>8. CASE ReadSegment
  <2>1. /\ toReceiver' = toReceiver /\ phase' = "read" /\ UNCHANGED <<segmentNackSeq, pausedOnTransient>>
        /\ stream'.salt = stream.salt /\ stream'.nextSeq = stream.nextSeq
        /\ record' = [salt |-> 0, seq |-> stream.nextSeq] /\ stream.nextSeq <= Segs
    BY <1>1, <1>3, <1>8 DEF ReadSegment
  <2>2. record'.seq = stream.nextSeq
    BY <2>1
  <2>3. Pumping'
    BY <2>1 DEF Pumping
  <2>4. Streams(k, lo)'
    BY <1>4, <1>7, <2>1, <2>2, <2>3 DEF Streams
  <2>5. PumpedOn
    BY <1>1, <1>4, <1>5, <2>1, <2>3 DEF PumpedOn
  <2> QED
    BY <2>4, <2>5
<1>9. CASE SealRecord
  <2>1. /\ toReceiver' = toReceiver /\ phase' = "seal" /\ stream' = stream
        /\ UNCHANGED <<segmentNackSeq, pausedOnTransient>>
        /\ record' = [salt |-> stream.salt,
                      seq  |-> IF phase = "read" THEN record.seq ELSE 0]
        /\ (phase = "pump" /\ stream.nextSeq = 0) \/ phase = "read"
    BY <1>9 DEF SealRecord
  <2>2. record'.seq = stream.nextSeq /\ record'.seq <= Segs /\ record'.salt = stream.salt
    BY <1>3, <1>7, <2>1
  <2>3. Pumping'
    BY <2>1 DEF Pumping
  <2>4. Streams(k, lo)'
    BY <1>4, <1>7, <2>1, <2>2, <2>3 DEF Streams
  <2>5. PumpedOn
    BY <1>1, <1>4, <1>5, <2>1, <2>3 DEF PumpedOn
  <2> QED
    BY <2>4, <2>5
<1>10. CASE SendRecord
  <2>1. PICK m : m = [type |-> "record", seq |-> record.seq, salt |-> record.salt,
                      file |-> Head(queue)]
    OBVIOUS
  <2>2. /\ toReceiver' = Append(toReceiver, m) /\ phase' = "pump" /\ phase = "seal"
        /\ stream' = [stream EXCEPT !.nextSeq = record.seq + 1]
        /\ UNCHANGED <<segmentNackSeq, pausedOnTransient>>
    BY <1>6, <1>10, <2>1 DEF SendRecord, Transmit
  <2>3. stream'.salt = stream.salt /\ stream'.nextSeq = stream.nextSeq + 1
    BY <1>1, <1>7, <2>2
  <2>4. /\ m \in ToReceiver /\ m.type = "record" /\ m.seq = lo + (Len(toReceiver) - k)
        /\ m.salt = stream.salt /\ m.file = HeadNo /\ m.seq <= SegCount[HeadNo]
    BY <1>1, <1>3, <1>7, <2>1, <2>2 DEF ToReceiver
  <2>5. PICK v : v = toReceiver'
    OBVIOUS
  <2>6. Flow(v, k, lo, stream.salt, HeadNo) /\ OnlyRecords(v, k)
    BY <1>1, <1>3, <1>7, <2>2, <2>4, <2>5, FlowAppend
  <2>7. /\ Len(toReceiver) \in Nat /\ Len(v) = Len(toReceiver) + 1
        /\ \A i \in 1..Len(toReceiver) : v[i] = toReceiver[i]
    BY <1>1, <2>2, <2>5
  <2>8. Pumping' /\ phase' \notin {"read", "seal"}
    BY <2>2 DEF Pumping
  <2>9. stream'.nextSeq = lo + (Len(v) - k) /\ stream'.nextSeq <= Segs + 1
    BY <1>1, <1>3, <1>7, <2>2, <2>3, <2>7
  <2>10. Streams(k, lo)'
    BY <1>4, <2>3, <2>5, <2>6, <2>8, <2>9 DEF Streams
  <2>11. PumpedOn
    BY <1>4, <1>5, <2>2, <2>3, <2>5, <2>7, <2>8 DEF PumpedOn
  <2> QED
    BY <2>10, <2>11
<1>11. CASE SendFileEnd
  <2>1. PICK m : m = [type |-> "file-end"]
    OBVIOUS
  <2>2. /\ toReceiver' = Append(toReceiver, m) /\ phase' = AfterFileEnd /\ stream' = stream
        /\ nackedSeq' = segmentNackSeq /\ segmentNackSeq' = None
        /\ UNCHANGED pausedOnTransient /\ stream.nextSeq > Segs
    BY <1>3, <1>6, <1>11, <2>1 DEF SendFileEnd, Transmit
  <2>3. m \in ToReceiver /\ m.type = "file-end" /\ lo + (Len(toReceiver) - k) = SegCount[HeadNo] + 1
    <3>1. m \in ToReceiver /\ m.type = "file-end"
      BY <2>1 DEF ToReceiver
    <3>2. stream.nextSeq = Segs + 1
      <4>1. stream.nextSeq \in Nat /\ Segs \in Nat
        BY <1>1, <1>3
      <4>2. stream.nextSeq > Segs /\ stream.nextSeq <= Segs + 1
        BY <1>7, <2>2
      <4> QED
        BY <4>1, <4>2
    <3> QED
      BY <1>3, <1>7, <3>1, <3>2
  <2>4. PICK v : v = toReceiver'
    OBVIOUS
  <2>5. Flow(v, k, lo, stream.salt, HeadNo) /\ Ended(v, k)
    BY <1>1, <1>3, <1>7, <2>2, <2>3, <2>4, FlowAppend
  <2>6. /\ Len(toReceiver) \in Nat /\ Len(v) = Len(toReceiver) + 1
        /\ \A i \in 1..Len(toReceiver) : v[i] = toReceiver[i]
    BY <1>1, <2>2, <2>4
  <2>7. ~Pumping' /\ phase' \notin {"read", "seal"}
    BY <2>2 DEF Pumping, AfterFileEnd
  <2>8. Streams(k, lo)'
    BY <1>4, <2>2, <2>4, <2>5, <2>7 DEF Streams
  <2>9. PumpedOn
    BY <1>4, <1>5, <2>2, <2>4, <2>6, <2>7 DEF PumpedOn
  <2> QED
    BY <2>8, <2>9
<1> QED
  BY <1>8, <1>9, <1>10, <1>11 DEF Pumps

-----------------------------------------------------------------------------
(* The sender page moves a transfer from one situation to the next.        *)

\* A position that is named by a variable.
LEMMA StreamsMoves ==
  ASSUME NEW k, NEW n, Streams(k, n)'
  PROVE  /\ n = Verified' => Streams(k, Verified)'
         /\ n = parserNextSeq' => Streams(k, parserNextSeq)'
  BY DEF Streams

\* A step of the pump leaves the transfer in the situation it is in.
LEMMA PumpKeeps ==
  ASSUME Basic, QueueInOrder, Unbroken, Regular, Pumps
  PROVE  Regular'
<1>1. toReceiver \in Seq(ToReceiver) /\ parserNextSeq \in Seqs /\ Verified \in Nat
  BY DEF Basic, WireOK, ReceiverOK, Verified
<1>2. Pumping /\ phase \notin {"wait", "rewind", "idle", "loop", "start"}
  BY DEF Pumps, ReadSegment, SealRecord, SendRecord, SendFileEnd, Pumping
<1>3. Len(toReceiver) \in Nat /\ parserNextSeq \in Nat \cup {None} /\ None \notin Nat
  BY <1>1 DEF Seqs, None
<1>4. ASSUME PumpedOn
      PROVE  /\ UNCHANGED <<receiver, awaitingRewindSeq, parserNextSeq, Verified>>
             /\ toSender' = toSender /\ Segs' = Segs
  BY <1>4 DEF PumpedOn, receiverVars, Verified
<1>5. ASSUME PumpedOn, Quiet
      PROVE  Quiet' /\ (Pumping' \/ (phase' = "wait" /\ Len(toReceiver') = Len(toReceiver) + 1))
  BY <1>5 DEF PumpedOn, Quiet, AfterFileEnd
<1>6. CASE Starting
  <2>1. /\ Quiet /\ Streams(1, 0) /\ toReceiver # <<>>
        /\ toReceiver[1].type = "file-start" /\ toReceiver[1].salt = stream.salt
        /\ toReceiver[1].segCount = Segs
    BY <1>6 DEF Starting
  <2>2. 1 \in 0..Len(toReceiver) /\ 1 \in 1..Len(toReceiver)
    BY <1>1, <2>1
  <2>3. PumpedOn /\ Streams(1, 0)'
    BY <2>1, <2>2, PumpsOn
  <2>4. /\ Quiet' /\ (Pumping' \/ (phase' = "wait" /\ Len(toReceiver') > 1))
        /\ toReceiver' # <<>>
    BY <1>1, <1>5, <2>1, <2>2, <2>3 DEF PumpedOn
  <2>5. toReceiver'[1] = toReceiver[1] /\ stream'.salt = stream.salt /\ Segs' = Segs
    BY <2>2, <2>3 DEF PumpedOn
  <2> QED
    BY <2>1, <2>3, <2>4, <2>5 DEF Starting, Regular
<1>7. CASE Listening
  <2>1. Quiet /\ Streams(0, Verified)
    BY <1>7 DEF Listening
  <2>2. PICK n : n = Verified
    OBVIOUS
  <2>3. PumpedOn /\ Streams(0, n)'
    BY <1>1, <1>3, <2>1, <2>2, PumpsOn
  <2>4. /\ Quiet' /\ (Pumping' \/ (phase' = "wait" /\ Len(toReceiver') > 0))
    BY <1>3, <1>5, <2>1, <2>3
  <2>5. Streams(0, Verified)'
    BY <1>4, <2>2, <2>3, StreamsMoves
  <2> QED
    BY <1>4, <1>7, <2>3, <2>4, <2>5 DEF Listening, Regular, PumpedOn
<1>8. CASE Nacked
  <2>1. Awaits /\ NackPending /\ Streams(0, parserNextSeq)
    BY <1>8 DEF Nacked
  <2>2. PICK n : n = parserNextSeq
    OBVIOUS
  <2>3. n \in Nat
    BY <1>1, <1>3, <2>1, <2>2 DEF Awaits, None
  <2>4. PumpedOn /\ Streams(0, n)'
    BY <1>3, <2>1, <2>2, <2>3, PumpsOn
  <2>5. Streams(0, parserNextSeq)'
    BY <1>4, <2>2, <2>4, StreamsMoves
  <2>6. Awaits'
    BY <1>4, <2>1, <2>4 DEF Awaits
  <2>7. NackPending'
    <3>1. CASE Len(toSender) = 1
      <4>1. toSender # <<>>
        BY <3>1
      <4>2. /\ toSender[1].type = "segment-nack" /\ toSender[1].seq = Verified
            /\ segmentNackSeq = None
        BY <1>2, <2>1, <4>1 DEF NackPending
      <4>3. segmentNackSeq' = None /\ (Pumping' \/ phase' = "wait")
        BY <2>4, <4>2 DEF PumpedOn, AfterFileEnd
      <4> QED
        BY <1>4, <2>4, <3>1, <4>2, <4>3 DEF NackPending
    <3>2. CASE toSender = <<>> /\ segmentNackSeq = Verified
      <4>1. segmentNackSeq # None
        BY <1>1, <1>3, <3>2
      <4> QED
        BY <1>4, <2>4, <3>2, <4>1 DEF NackPending, PumpedOn, AfterFileEnd, Quiet
    <3> QED
      BY <1>2, <2>1, <3>1, <3>2 DEF NackPending
  <2> QED
    BY <2>5, <2>6, <2>7 DEF Nacked, Regular
<1>9. CASE Rewinding
  <2>1. Awaits /\ Quiet
    BY <1>9 DEF Rewinding
  <2>2. PICK k \in 1..Len(toReceiver) : RewindAt(k)
    BY <1>9 DEF Rewinding
  <2>3. PICK n : n = Verified
    OBVIOUS
  <2>4. PumpedOn /\ Streams(k, n)'
    BY <1>1, <1>3, <2>2, <2>3, PumpsOn DEF RewindAt
  <2>5. Streams(k, Verified)'
    BY <1>4, <2>3, <2>4, StreamsMoves
  <2>6. Awaits' /\ Quiet' /\ (Pumping' \/ (phase' = "wait" /\ Len(toReceiver') > k))
    BY <1>3, <1>4, <1>5, <2>1, <2>2, <2>4 DEF Awaits
  <2>7. PICK v : v = toReceiver'
    OBVIOUS
  <2>8. /\ \A i \in 1..Len(toReceiver) : v[i] = toReceiver[i]
        /\ Len(v) >= Len(toReceiver) /\ stream'.salt = stream.salt /\ Len(v) \in Nat
    BY <1>3, <2>4, <2>7 DEF PumpedOn
  <2>9. PICK w : w = toReceiver
    OBVIOUS
  <2>10. Skipped(v, k, parserNextSeq)
    <3>1. Skipped(w, k, parserNextSeq)
      BY <2>2, <2>9 DEF RewindAt
    <3>2. ASSUME NEW i \in 1..Len(v), i < k PROVE i \in 1..Len(w) /\ v[i] = w[i]
      BY <1>3, <2>8, <2>9, <3>2
    <3> QED
      BY <3>1, <3>2 DEF Skipped
  <2>11. /\ v[k].type = "segment-rewind" /\ v[k].seq = Verified
         /\ v[k].salt = stream.salt
    BY <2>2, <2>8 DEF RewindAt
  <2>12. RewindAt(k)'
    BY <1>4, <2>4, <2>5, <2>6, <2>7, <2>8, <2>10, <2>11 DEF RewindAt
  <2>13. k \in 1..Len(toReceiver')
    BY <1>3, <2>7, <2>8
  <2> QED
    BY <2>6, <2>12, <2>13 DEF Rewinding, Regular
<1>10. CASE GivenUp
  <2>1. /\ receiver = NoReceiver /\ parserNextSeq # None /\ Streams(0, parserNextSeq)
        /\ segmentNackSeq = None
        /\ toSender = <<>> \/ (Len(toSender) = 1 /\ toSender[1].type = "file-nack")
    BY <1>10 DEF GivenUp
  <2>2. PICK n : n = parserNextSeq
    OBVIOUS
  <2>3. PumpedOn /\ Streams(0, n)'
    BY <1>3, <2>1, <2>2, PumpsOn
  <2>4. Streams(0, parserNextSeq)'
    BY <1>4, <2>2, <2>3, StreamsMoves
  <2>5. segmentNackSeq' = None /\ (Pumping' \/ phase' = "wait")
    BY <2>1, <2>3 DEF PumpedOn, AfterFileEnd
  <2> QED
    BY <1>4, <2>1, <2>3, <2>4, <2>5 DEF GivenUp, Regular
<1>11. CASE AtRest \/ Acked
  BY <1>2, <1>11 DEF AtRest, Acked
<1> QED
  BY <1>6, <1>7, <1>8, <1>9, <1>10, <1>11 DEF Regular

\* A step that leaves both wires, the stream and the receiver alone keeps the
\* situation, unless it goes on from rest.
LEMMA RestKeeps ==
  ASSUME Regular,
         UNCHANGED <<toReceiver, toSender, stream, record, segmentNackSeq, nackedSeq, phase,
                     receiver, awaitingRewindSeq, parserNextSeq>>,
         (phase \notin {"idle", "loop", "start"}) => HeadNo' = HeadNo
  PROVE  Regular'
<1>1. /\ Pumping' = Pumping /\ Verified' = Verified /\ Quiet' = Quiet
      /\ phase \notin {"idle", "loop", "start"} => HeadNo' = HeadNo /\ Segs' = Segs
  BY DEF Pumping, Verified, Quiet, Segs
<1>2. ASSUME NEW k, NEW n, Streams(k, n), HeadNo' = HeadNo, Segs' = Segs
      PROVE  Streams(k, n)'
  BY <1>1, <1>2 DEF Streams
<1>3. CASE AtRest
  BY <1>3 DEF AtRest, Regular
<1>4. CASE Starting
  <2>1. HeadNo' = HeadNo /\ Segs' = Segs
    BY <1>1, <1>4 DEF Starting, Pumping
  <2> QED
    BY <1>1, <1>2, <1>4, <2>1 DEF Starting, Regular
<1>5. CASE Listening
  <2>1. HeadNo' = HeadNo /\ Segs' = Segs
    BY <1>1, <1>5 DEF Listening, Pumping
  <2>2. Streams(0, Verified)'
    <3>1. PICK n : n = Verified
      OBVIOUS
    <3> QED
      BY <1>1, <1>2, <1>5, <2>1, <3>1, StreamsMoves DEF Listening
  <2> QED
    BY <1>1, <1>5, <2>1, <2>2 DEF Listening, Regular
<1>6. CASE Nacked
  <2>1. HeadNo' = HeadNo /\ Segs' = Segs
    BY <1>1, <1>6 DEF Nacked, NackPending, Pumping
  <2>2. Streams(0, parserNextSeq)'
    <3>1. PICK n : n = parserNextSeq
      OBVIOUS
    <3> QED
      BY <1>1, <1>2, <1>6, <2>1, <3>1, StreamsMoves DEF Nacked
  <2>3. Awaits'
    BY <1>1, <1>6, <2>1 DEF Nacked, Awaits
  <2>4. NackPending'
    BY <1>1, <1>6 DEF Nacked, NackPending
  <2> QED
    BY <2>2, <2>3, <2>4 DEF Nacked, Regular
<1>7. CASE Rewinding
  <2>1. PICK k \in 1..Len(toReceiver) : RewindAt(k)
    BY <1>7 DEF Rewinding
  <2>2. HeadNo' = HeadNo /\ Segs' = Segs
    BY <1>1, <2>1 DEF RewindAt, Pumping
  <2>3. Streams(k, Verified)'
    <3>1. PICK n : n = Verified
      OBVIOUS
    <3> QED
      BY <1>1, <1>2, <2>1, <2>2, <3>1, StreamsMoves DEF RewindAt
  <2>4. RewindAt(k)'
    BY <1>1, <2>1, <2>3 DEF RewindAt
  <2>5. Awaits' /\ Quiet'
    BY <1>1, <1>7, <2>2 DEF Rewinding, Awaits
  <2>6. k \in 1..Len(toReceiver')
    OBVIOUS
  <2> QED
    BY <2>4, <2>5, <2>6 DEF Rewinding, Regular
<1>8. CASE GivenUp
  <2>1. HeadNo' = HeadNo /\ Segs' = Segs
    BY <1>1, <1>8 DEF GivenUp, Pumping
  <2>2. Streams(0, parserNextSeq)'
    <3>1. PICK n : n = parserNextSeq
      OBVIOUS
    <3> QED
      BY <1>1, <1>2, <1>8, <2>1, <3>1, StreamsMoves DEF GivenUp
  <2> QED
    BY <1>1, <1>8, <2>2 DEF GivenUp, Regular
<1>9. CASE Acked
  BY <1>9 DEF Acked, Regular
<1> QED
  BY <1>3, <1>4, <1>5, <1>6, <1>7, <1>8, <1>9 DEF Regular

\* Which frames of the receiver a situation has under way.
LEMMA AnswersUnderWay ==
  ASSUME Basic, Regular, toSender # <<>>
  PROVE  /\ Len(toSender) = 1 /\ Head(toSender) = toSender[1] /\ Tail(toSender) = <<>>
         /\ \/ Nacked /\ toSender[1].type = "segment-nack" /\ toSender[1].seq = Verified
               /\ segmentNackSeq = None /\ (Pumping \/ phase = "wait")
            \/ GivenUp /\ toSender[1].type = "file-nack"
            \/ Acked /\ toSender[1].type = "file-ack"
<1>1. toSender \in Seq(ToSender)
  BY DEF Basic, WireOK
<1>2. \/ Nacked /\ Len(toSender) = 1 /\ toSender[1].type = "segment-nack"
         /\ toSender[1].seq = Verified /\ segmentNackSeq = None /\ (Pumping \/ phase = "wait")
      \/ GivenUp /\ Len(toSender) = 1 /\ toSender[1].type = "file-nack"
      \/ Acked /\ Len(toSender) = 1 /\ toSender[1].type = "file-ack"
  BY DEF Regular, AtRest, Starting, Listening, Nacked, NackPending, Rewinding, GivenUp, Acked, Quiet
<1>3. Head(toSender) = toSender[1] /\ (Len(toSender) = 1 => Tail(toSender) = <<>>)
  <2>1. Head(toSender) = toSender[1]
    BY <1>1
  <2>2. Tail(toSender) \in Seq(ToSender) /\ Len(Tail(toSender)) = Len(toSender) - 1
    BY <1>1
  <2> QED
    BY <2>1, <2>2
<1> QED
  BY <1>2, <1>3

\* The sender page hears of a nack, of the end of a transfer that was given
\* up, or of the file it sent.
LEMMA AnswerKeeps ==
  ASSUME Basic, QueueInOrder, Regular, failed = {}, (failed = {})',
         ReceiveFileAck \/ ReceiveFileNack \/ ReceiveSegmentNack \/ ReceiveResumeOffer
  PROVE  Regular' /\ ~ReceiveResumeOffer
<1>1. /\ toSender # <<>> /\ toSender' = Tail(toSender)
      /\ ReceiveFileAck => Head(toSender).type = "file-ack"
      /\ ReceiveFileNack => Head(toSender).type = "file-nack"
      /\ ReceiveSegmentNack => Head(toSender).type = "segment-nack"
      /\ ReceiveResumeOffer => Head(toSender).type = "file-resume-offer"
  BY DEF ReceiveFileAck, ReceiveFileNack, ReceiveSegmentNack, ReceiveResumeOffer, TakeFromReceiver
<1>2. ~ReceiveResumeOffer
  BY <1>1, AnswersUnderWay
<1>3. /\ Len(toSender) = 1 /\ Head(toSender) = toSender[1] /\ toSender' = <<>>
  BY <1>1, AnswersUnderWay
<1>4. CASE ReceiveFileAck
  <2>1. Acked
    BY <1>1, <1>4, AnswersUnderWay
  <2>2. phase' = "loop" /\ UNCHANGED <<toReceiver, receiver>>
    BY <1>4, <2>1 DEF Acked, ReceiveFileAck, Conclude, receiverVars
  <2> QED
    BY <1>2, <1>3, <2>1, <2>2 DEF Acked, AtRest, Regular
<1>5. CASE ReceiveFileNack
  <2>1. GivenUp
    BY <1>1, <1>5, AnswersUnderWay
  <2>2. phase # "wait"
    BY <1>5 DEF ReceiveFileNack, Conclude
  <2>3. /\ UNCHANGED <<phase, stream, queue, picked, record, toReceiver, receiver, parserNextSeq,
                       segmentNackSeq>>
    BY <1>5, <2>2 DEF ReceiveFileNack, receiverVars
  <2>4. HeadNo' = HeadNo /\ Segs' = Segs /\ Pumping' = Pumping
    BY <2>3 DEF HeadNo, Concluded, Segs, Pumping
  <2>5. Streams(0, parserNextSeq)'
    <3>1. Streams(0, parserNextSeq)
      BY <2>1 DEF GivenUp
    <3> QED
      BY <2>3, <2>4, <3>1 DEF Streams
  <2> QED
    BY <1>2, <1>3, <2>1, <2>2, <2>3, <2>4, <2>5 DEF GivenUp, Regular
<1>6. CASE ReceiveSegmentNack
  <2>1. /\ Nacked /\ Head(toSender).seq = Verified /\ segmentNackSeq = None
        /\ Pumping \/ phase = "wait"
    BY <1>1, <1>6, AnswersUnderWay
  <2>2. /\ UNCHANGED <<stream, queue, picked, record, toReceiver, receiver, parserNextSeq,
                       awaitingRewindSeq>>
        /\ \/ phase = "wait" /\ phase' = "rewind" /\ nackedSeq' = Verified
              /\ segmentNackSeq' = None
           \/ phase # "wait" /\ phase' = phase /\ segmentNackSeq' = Verified
    BY <1>6, <2>1 DEF ReceiveSegmentNack, receiverVars
  <2>3. /\ HeadNo' = HeadNo /\ Segs' = Segs /\ Pumping' = Pumping /\ Verified' = Verified
    BY <2>2 DEF HeadNo, Concluded, Segs, Pumping, Verified
  <2>4. Streams(0, parserNextSeq)'
    <3>1. Streams(0, parserNextSeq) /\ (phase' = phase \/ (phase = "wait" /\ phase' = "rewind"))
      BY <2>1, <2>2 DEF Nacked
    <3> QED
      BY <2>2, <2>3, <3>1 DEF Streams
  <2>5. Awaits'
    BY <2>1, <2>2, <2>3 DEF Nacked, Awaits
  <2>6. NackPending'
    BY <1>3, <2>1, <2>2, <2>3 DEF NackPending, Quiet
  <2> QED
    BY <1>2, <2>4, <2>5, <2>6 DEF Nacked, Regular
<1> QED
  BY <1>2, <1>4, <1>5, <1>6

\* The drain loop takes the next file, and its transfer begins.
LEMMA BeginKeeps ==
  ASSUME Basic, QueueInOrder, Unbroken, Regular, DrainLoop \/ SendFileStart
  PROVE  Regular'
<1>1. phase \in {"loop", "start"}
  BY DEF DrainLoop, SendFileStart
<1>2. AtRest
  BY <1>1 DEF Regular, Starting, Listening, Nacked, NackPending, Rewinding, RewindAt, GivenUp,
     Acked, Pumping
<1>3. CASE DrainLoop
  <2>1. /\ UNCHANGED <<toReceiver, toSender, receiver>>
        /\ \/ phase' = "idle"
           \/ /\ phase' = "start"
              /\ stream' = Rewound(stream, 0) \/ (stream' = stream /\ stream.nextSeq = 0)
    BY <1>3 DEF DrainLoop, receiverVars
  <2>2. Rewound(stream, 0).nextSeq = 0
    BY RewoundTyped DEF Basic
  <2> QED
    BY <1>2, <2>1, <2>2 DEF AtRest, Regular
<1>4. CASE SendFileStart
  <2>1. PICK m : m = [type |-> "file-start", salt |-> stream.salt,
                      segCount |-> SegCount[Head(queue)]]
    OBVIOUS
  <2>2. /\ toReceiver' = Append(toReceiver, m) /\ phase' = "pump" /\ phase = "start"
        /\ segmentNackSeq' = None
        /\ UNCHANGED <<queue, picked, stream, record, toSender, receiver>>
    BY <1>4, <2>1 DEF SendFileStart, Transmit, Unbroken, receiverVars
  <2>3. /\ Sending /\ HeadNo' = HeadNo /\ Segs' = Segs
        /\ toReceiver = <<>> /\ toSender = <<>> /\ stream.nextSeq = 0
    BY <1>2, <2>2 DEF Sending, AtRest, HeadNo, Concluded, Segs
  <2>4. m.type = "file-start" /\ m.salt = stream.salt /\ m.segCount = Segs /\ Segs \in Nat
    BY <2>1, <2>3, HeadFacts
  <2>5. PICK v : v = toReceiver'
    OBVIOUS
  <2>6. Len(v) = 1 /\ v[1] = m /\ v # <<>>
    <3>1. v = <<m>>
      BY <2>2, <2>3, <2>5
    <3> QED
      BY <3>1
  <2>7. Flow(v, 1, 0, stream.salt, HeadNo) /\ OnlyRecords(v, 1)
    BY <2>6 DEF Flow, OnlyRecords
  <2>8. 0 = 0 + (Len(v) - 1) /\ 0 <= Segs + 1
    BY <2>4, <2>6
  <2>9. Pumping' /\ Quiet'
    BY <2>2, <2>3 DEF Pumping, Quiet
  <2>10. Streams(1, 0)'
    BY <2>2, <2>3, <2>5, <2>7, <2>8, <2>9 DEF Streams
  <2> QED
    BY <2>2, <2>3, <2>4, <2>5, <2>6, <2>9, <2>10 DEF Starting, Regular
<1> QED
  BY <1>3, <1>4

\* The sender page announces a rewind: what it pumped before is passed over.
LEMMA RewindKeeps ==
  ASSUME Basic, QueueInOrder, Unbroken, Regular, failed = {}, (failed = {})', RewindTail
  PROVE  Regular'
<1>1. phase = "rewind" /\ Sending
  BY DEF RewindTail, Sending
<1>2. /\ Awaits /\ nackedSeq = Verified /\ Quiet /\ Streams(0, parserNextSeq)
  BY <1>1 DEF Regular, AtRest, Starting, Listening, Nacked, NackPending, Rewinding, RewindAt,
     GivenUp, Acked, Pumping
<1>3. /\ toReceiver \in Seq(ToReceiver) /\ Len(toReceiver) \in Nat /\ Verified \in Nat
      /\ parserNextSeq \in Nat /\ Segs \in Nat
  <2>1. /\ toReceiver \in Seq(ToReceiver) /\ Verified \in Nat /\ parserNextSeq \in Seqs
    BY DEF Basic, WireOK, ReceiverOK, Verified
  <2>2. parserNextSeq # None
    BY <1>2, <2>1 DEF Awaits, None
  <2> QED
    BY <1>1, <2>1, <2>2, HeadFacts DEF Seqs
<1>4. PICK m : m = [type |-> "segment-rewind", seq |-> nackedSeq, salt |-> stream'.salt]
  OBVIOUS
<1>5. /\ toReceiver' = Append(toReceiver, m) /\ phase' = "pump"
      /\ stream' = Rewound(stream, nackedSeq)
      /\ UNCHANGED <<queue, picked, record, toSender, receiver, awaitingRewindSeq, parserNextSeq,
                     segmentNackSeq>>
  <2>1. ~Conclude(FALSE)
    BY DEF Conclude
  <2> QED
    BY <1>4, <2>1 DEF RewindTail, Transmit, Unbroken, receiverVars
<1>6. /\ HeadNo' = HeadNo /\ Segs' = Segs /\ Verified' = Verified
      /\ stream'.nextSeq = Verified
  <2>1. Rewound(stream, Verified).nextSeq = Verified
    BY <1>3, RewoundTyped DEF Basic
  <2> QED
    BY <1>2, <1>5, <2>1 DEF HeadNo, Concluded, Segs, Verified
<1>7. m.type = "segment-rewind" /\ m.seq = Verified /\ m.salt = stream'.salt
  BY <1>2, <1>4
<1>8. PICK v : v = toReceiver'
  OBVIOUS
<1>9. PICK k : k = Len(toReceiver) + 1
  OBVIOUS
<1>10. /\ Len(v) = k /\ v[k] = m /\ k \in Nat
       /\ \A i \in 1..Len(toReceiver) : v[i] = toReceiver[i]
  BY <1>3, <1>5, <1>8, <1>9
<1>11. Skipped(v, k, parserNextSeq)
  <2>1. ASSUME NEW i \in 1..Len(v), i < k
        PROVE  \/ v[i].type = "record" /\ v[i].seq = parserNextSeq + (i - 1)
               \/ v[i].type = "file-end" /\ i = k - 1
    <3>1. i \in 1..Len(toReceiver) /\ i > 0 /\ v[i] = toReceiver[i]
      BY <1>3, <1>9, <1>10, <2>1
    <3>2. \/ toReceiver[i].type = "record" /\ toReceiver[i].seq = parserNextSeq + (i - 0 - 1)
          \/ toReceiver[i].type = "file-end" /\ i = Len(toReceiver)
      BY <1>2, <3>1 DEF Streams, Flow
    <3>3. i - 0 - 1 = i - 1 /\ k - 1 = Len(toReceiver)
      BY <1>3, <1>9, <3>1
    <3> QED
      BY <3>1, <3>2, <3>3
  <2> QED
    BY <2>1 DEF Skipped
<1>12. PICK n : n = Verified
  OBVIOUS
<1>13. Streams(k, n)'
  <2>1. \A i \in 1..Len(v) : ~(i > k)
    BY <1>10
  <2>2. Flow(v, k, n, stream'.salt, HeadNo) /\ OnlyRecords(v, k)
    BY <2>1 DEF Flow, OnlyRecords
  <2>3. n = n + (Len(v) - k) /\ n <= Segs + 1
    BY <1>2, <1>3, <1>10, <1>12 DEF Awaits
  <2>4. Pumping' /\ phase' \notin {"read", "seal"}
    BY <1>5 DEF Pumping
  <2> QED
    BY <1>6, <1>8, <1>12, <2>2, <2>3, <2>4 DEF Streams
<1>14. Streams(k, Verified)'
  BY <1>6, <1>12, <1>13, StreamsMoves
<1>15. RewindAt(k)'
  BY <1>5, <1>6, <1>7, <1>8, <1>10, <1>11, <1>14 DEF RewindAt, Pumping
<1>16. Awaits' /\ Quiet' /\ k \in 1..Len(toReceiver')
  BY <1>2, <1>3, <1>5, <1>6, <1>8, <1>9, <1>10 DEF Awaits, Quiet
<1> QED
  BY <1>15, <1>16 DEF Rewinding, Regular

-----------------------------------------------------------------------------
(* The receiver page takes the first frame off the wire.                   *)

Took ==
    /\ toReceiver # <<>> /\ toReceiver' = Tail(toReceiver)
    /\ UNCHANGED <<phase, stream, record, HeadNo, Segs, segmentNackSeq, nackedSeq, Pumping>>

ReceiverTakesOne ==
    \/ ReceiveFileStart \/ ReceiveRecord \/ AbortAbusiveStream
    \/ ReceiveSegmentRewind \/ ReceiveFileEnd \/ ReceiveResumeAck

LEMMA TakesOne ==
  ASSUME ReceiverTakesOne
  PROVE  Took /\ UNCHANGED <<failed, drops, pausedOnTransient, queue, picked>>
<1>1. toReceiver # <<>> /\ toReceiver' = Tail(toReceiver) /\ UNCHANGED <<senderVars, drops>>
  BY DEF ReceiverTakesOne, ReceiveFileStart, ReceiveRecord, AbortAbusiveStream,
     ReceiveSegmentRewind, ReceiveFileEnd, ReceiveResumeAck, TakeFromSender, pairingVars
<1> QED
  BY <1>1 DEF Took, senderVars, HeadNo, Concluded, Segs, Pumping

\* The first frame is the record the parser is at.
InTurn(next) ==
    \/ toReceiver[1].type = "record" /\ toReceiver[1].seq = next
    \/ toReceiver[1].type = "file-end"

LEMMA FirstInTurn ==
  ASSUME toReceiver # <<>>, toReceiver \in Seq(ToReceiver), NEW lo \in Nat, Streams(0, lo)
  PROVE  /\ InTurn(lo)
         /\ toReceiver[1].type = "record" =>
              /\ toReceiver[1].salt = stream.salt /\ toReceiver[1].file = HeadNo /\ lo <= Segs
         /\ toReceiver[1].type = "file-end" => lo = Segs + 1
<1>1. 1 \in 1..Len(toReceiver) /\ 1 > 0 /\ lo + (1 - 0 - 1) = lo
  OBVIOUS
<1>2. \/ /\ toReceiver[1].type = "record" /\ toReceiver[1].seq = lo + (1 - 0 - 1)
         /\ toReceiver[1].salt = stream.salt /\ toReceiver[1].file = HeadNo
         /\ lo + (1 - 0 - 1) <= SegCount[HeadNo]
      \/ /\ toReceiver[1].type = "file-end" /\ 1 = Len(toReceiver)
         /\ lo + (1 - 0 - 1) = SegCount[HeadNo] + 1
  BY <1>1 DEF Streams, Flow
<1> QED
  BY <1>1, <1>2 DEF InTurn, Segs

\* What the first frame may be.
LEMMA FirstFrame ==
  ASSUME Basic, Regular, toReceiver # <<>>
  PROVE  \/ Starting /\ toReceiver[1].type = "file-start"
         \/ Listening /\ InTurn(Verified) /\ parserNextSeq # None /\ Verified <= parserNextSeq
         \/ Nacked /\ InTurn(parserNextSeq)
         \/ GivenUp /\ InTurn(parserNextSeq)
         \/ /\ Awaits /\ Quiet
            /\ \/ RewindAt(1) /\ toReceiver[1].type = "segment-rewind"
               \/ \E k \in 2..Len(toReceiver) : RewindAt(k) /\ InTurn(parserNextSeq)
<1>1. /\ toReceiver \in Seq(ToReceiver) /\ Verified \in Nat /\ parserNextSeq \in Seqs
      /\ Len(toReceiver) \in Nat /\ None \notin Nat
  BY DEF Basic, WireOK, ReceiverOK, Verified, None
<1>2. Verified <= parserNextSeq => parserNextSeq \in Nat
  BY <1>1 DEF Seqs, None
<1>3. CASE Listening
  <2>1. InTurn(Verified)
    BY <1>1, <1>3, FirstInTurn DEF Listening
  <2> QED
    BY <1>1, <1>2, <1>3, <2>1 DEF Listening
<1>4. CASE Nacked
  BY <1>1, <1>2, <1>4, FirstInTurn DEF Nacked, Awaits
<1>5. CASE GivenUp
  <2>1. parserNextSeq \in Nat
    BY <1>1, <1>5 DEF GivenUp, Seqs
  <2> QED
    BY <1>1, <1>5, <2>1, FirstInTurn DEF GivenUp
<1>6. CASE Rewinding
  <2>1. PICK k \in 1..Len(toReceiver) : RewindAt(k)
    BY <1>6 DEF Rewinding
  <2>2. Awaits /\ Quiet /\ parserNextSeq \in Nat
    BY <1>2, <1>6 DEF Rewinding, Awaits
  <2>3. CASE k = 1
    BY <2>1, <2>2, <2>3 DEF RewindAt
  <2>4. CASE k \in 2..Len(toReceiver)
    <3>1. Skipped(toReceiver, k, parserNextSeq)
      BY <2>1 DEF RewindAt
    <3>2. InTurn(parserNextSeq)
      BY <1>1, <2>2, <2>4, <3>1, SkippedTail DEF InTurn
    <3> QED
      BY <2>1, <2>2, <2>4, <3>2
  <2> QED
    BY <1>1, <2>1, <2>3, <2>4
<1>7. CASE Starting
  BY <1>7 DEF Starting
<1>8. ~AtRest /\ ~Acked
  BY DEF AtRest, Acked
<1> QED
  BY <1>3, <1>4, <1>5, <1>6, <1>7, <1>8 DEF Regular

\* A frame that the receiver passes over, because the transfer was given up
\* or because it waits for a rewind.
LEMMA PassedOver ==
  ASSUME Basic, QueueInOrder, Regular, Took, UNCHANGED <<receiver, awaitingRewindSeq, toSender>>,
         toReceiver[1].type = "record" => parserNextSeq' = toReceiver[1].seq + 1,
         toReceiver[1].type = "file-end" => parserNextSeq' = parserNextSeq,
         InTurn(parserNextSeq), receiver = NoReceiver \/ awaitingRewindSeq # None
  PROVE  Regular'
<1>1. /\ toReceiver \in Seq(ToReceiver) /\ Verified \in Nat /\ parserNextSeq \in Seqs
      /\ toReceiver # <<>> /\ Len(toReceiver) \in Nat /\ None \notin Nat
  BY DEF Basic, WireOK, ReceiverOK, Verified, None, Took
<1>2. /\ Verified' = Verified /\ Quiet' = Quiet /\ Pumping' = Pumping /\ Segs' = Segs
      /\ HeadNo' = HeadNo
  BY DEF Took, Verified, Quiet
<1>3. Verified <= parserNextSeq => parserNextSeq \in Nat
  BY <1>1 DEF Seqs, None
<1>4. ~Starting
  BY DEF Starting, InTurn
<1>5. ~Listening
  <2>1. ASSUME Listening PROVE FALSE
    <3>1. Sending
      BY <2>1 DEF Listening, Pumping, Sending
    <3>2. receiver # NoReceiver /\ awaitingRewindSeq = None
      BY <2>1, <3>1, HeadFacts DEF Listening, NoReceiver
    <3> QED
      BY <3>2
  <2> QED
    BY <2>1
<1>6. ASSUME parserNextSeq \in Nat, Sending, Streams(0, parserNextSeq)
      PROVE  /\ Streams(0, parserNextSeq)' /\ parserNextSeq' \in Nat
             /\ parserNextSeq' >= parserNextSeq
  <2>1. Segs \in Nat /\ 0 \in 0..Len(toReceiver)
    BY <1>1, <1>6, HeadFacts
  <2>2. PICK n \in Nat : n = parserNextSeq
    BY <1>6
  <2>3. /\ toReceiver[1].type = "record" => Streams(0, n + 1)'
        /\ toReceiver[1].type = "file-end" => Streams(0, n)'
    BY <1>1, <1>6, <2>1, <2>2, StreamsTail DEF Took
  <2>4. CASE toReceiver[1].type = "record"
    <3>1. parserNextSeq' = n + 1
      BY <2>2, <2>4 DEF InTurn
    <3> QED
      BY <2>2, <2>3, <2>4, <3>1, StreamsMoves
  <2>5. CASE toReceiver[1].type = "file-end"
    BY <2>2, <2>3, <2>5, StreamsMoves
  <2> QED
    BY <2>4, <2>5 DEF InTurn
<1>7. CASE Nacked
  <2>1. Awaits /\ NackPending /\ Streams(0, parserNextSeq) /\ parserNextSeq \in Nat
    BY <1>3, <1>7 DEF Nacked, Awaits
  <2>2. Sending
    BY <2>1 DEF NackPending, Pumping, Sending
  <2>3. Streams(0, parserNextSeq)' /\ parserNextSeq' \in Nat /\ parserNextSeq' >= parserNextSeq
    BY <1>6, <2>1, <2>2
  <2>4. Awaits'
    BY <1>1, <1>2, <2>1, <2>3 DEF Awaits
  <2>5. NackPending'
    BY <1>2, <2>1 DEF NackPending, Took
  <2> QED
    BY <2>3, <2>4, <2>5 DEF Nacked, Regular
<1>8. CASE GivenUp
  <2>1. Streams(0, parserNextSeq) /\ parserNextSeq \in Nat
    BY <1>1, <1>8 DEF GivenUp, Seqs
  <2>2. Sending
    BY <1>8 DEF GivenUp, Pumping, Sending
  <2>3. Streams(0, parserNextSeq)' /\ parserNextSeq' # None
    BY <1>1, <1>6, <2>1, <2>2
  <2> QED
    BY <1>2, <1>8, <2>3 DEF GivenUp, Regular, Took
<1>9. CASE Rewinding
  <2>1. PICK k \in 1..Len(toReceiver) : RewindAt(k)
    BY <1>9 DEF Rewinding
  <2>2. Awaits /\ Quiet /\ parserNextSeq \in Nat
    BY <1>3, <1>9 DEF Rewinding, Awaits
  <2>3. k \in 2..Len(toReceiver)
    <3>1. k # 1
      BY <2>1 DEF RewindAt, InTurn
    <3> QED
      BY <1>1, <3>1
  <2>4. PICK v, j : v = toReceiver' /\ j = k - 1
    OBVIOUS
  <2>5. /\ Len(v) = Len(toReceiver) - 1 /\ j \in 1..Len(v) /\ v[j] = toReceiver[k]
        /\ v = Tail(toReceiver)
    BY <1>1, <2>3, <2>4 DEF Took
  <2>6. Sending
    BY <2>1 DEF RewindAt, Pumping, Sending
  <2>7. PICK n : n = Verified
    OBVIOUS
  <2>8. Streams(j, n)'
    <3>1. Streams(k, n) /\ n \in Nat /\ Segs \in Nat /\ k \in 0..Len(toReceiver) /\ k > 0
      BY <1>1, <2>1, <2>6, <2>7, HeadFacts DEF RewindAt
    <3> QED
      BY <1>1, <2>4, <3>1, StreamsTail DEF Took
  <2>9. Streams(j, Verified)'
    BY <1>2, <2>7, <2>8, StreamsMoves
  <2>10. /\ Skipped(v, j, parserNextSeq') /\ parserNextSeq' \in Nat
         /\ parserNextSeq' >= parserNextSeq
    <3>1. Skipped(toReceiver, k, parserNextSeq)
      BY <2>1 DEF RewindAt
    <3>2. CASE toReceiver[1].type = "record"
      <4>1. parserNextSeq' = parserNextSeq + 1
        BY <3>2 DEF InTurn
      <4>2. Skipped(v, j, parserNextSeq + 1)
        BY <1>1, <2>2, <2>3, <2>4, <2>5, <3>1, <3>2, SkippedTail
      <4> QED
        BY <2>2, <4>1, <4>2
    <3>3. CASE toReceiver[1].type = "file-end"
      BY <1>1, <2>2, <2>3, <2>4, <2>5, <3>1, <3>3, SkippedTail
    <3> QED
      BY <3>2, <3>3 DEF InTurn
  <2>11. RewindAt(j)'
    <3>1. /\ v[j].type = "segment-rewind" /\ v[j].seq = Verified
          /\ v[j].salt = stream.salt /\ (Pumping \/ (phase = "wait" /\ Len(toReceiver) > k))
      BY <2>1, <2>5 DEF RewindAt
    <3>2. Len(toReceiver) > k => Len(v) > j
      BY <1>1, <2>3, <2>4, <2>5
    <3>3. Pumping' \/ (phase' = "wait" /\ Len(v) > j)
      BY <1>2, <3>1, <3>2 DEF Took
    <3>4. stream'.salt = stream.salt /\ Verified' = Verified
      BY <1>2 DEF Took
    <3> QED
      BY <2>4, <2>9, <2>10, <3>1, <3>3, <3>4 DEF RewindAt
  <2>12. Awaits' /\ Quiet'
    BY <1>1, <1>2, <2>2, <2>10 DEF Awaits
  <2>13. j \in 1..Len(toReceiver')
    BY <2>4, <2>5
  <2> QED
    BY <2>11, <2>12, <2>13 DEF Rewinding, Regular
<1>10. ~AtRest /\ ~Acked
  BY <1>1 DEF AtRest, Acked
<1> QED
  BY <1>4, <1>5, <1>7, <1>8, <1>9, <1>10 DEF Regular

\* A file-start is taken by a receiver that is not in a transfer: it listens.
LEMMA StartKeeps ==
  ASSUME Basic, QueueInOrder, Regular, ReceiveFileStart
  PROVE  Regular' /\ retryCount' = 0
<1>1. /\ Took /\ toReceiver \in Seq(ToReceiver) /\ Len(toReceiver) \in Nat
      /\ toReceiver # <<>> /\ Head(toReceiver) = toReceiver[1]
  BY TakesOne DEF ReceiverTakesOne, Took, Basic, WireOK
<1>2. /\ toReceiver[1].type = "file-start" /\ parserNextSeq' = 0
      /\ receiver' = [salt |-> toReceiver[1].salt, parts |-> <<>>,
                      segCount |-> toReceiver[1].segCount]
      /\ awaitingRewindSeq' = None /\ UNCHANGED toSender /\ retryCount' = 0
  BY <1>1 DEF ReceiveFileStart, TakeFromSender
<1>3. Starting
  BY <1>1, <1>2, FirstFrame DEF InTurn
<1>4. Sending /\ Segs \in Nat
  BY <1>3, HeadFacts DEF Starting, Pumping, Sending
<1>5. /\ Verified' = 0 /\ receiver'.salt = stream.salt /\ receiver'.segCount = Segs
  BY <1>2, <1>3 DEF Verified, Starting
<1>6. Streams(0, 0)'
  <2>1. Streams(1, 0) /\ 1 \in 0..Len(toReceiver) /\ 1 - 1 = 0
    BY <1>1, <1>3 DEF Starting
  <2> QED
    BY <1>1, <1>4, <2>1, StreamsTail DEF Took
<1>7. Streams(0, Verified)'
  BY <1>5, <1>6, StreamsMoves
<1>8. /\ Quiet' /\ (Pumping' \/ (phase' = "wait" /\ Len(toReceiver') > 0))
  <2>1. Len(toReceiver') = Len(toReceiver) - 1
    BY <1>1 DEF Took
  <2> QED
    BY <1>1, <1>2, <1>3, <2>1 DEF Starting, Quiet, Took
<1> QED
  BY <1>1, <1>2, <1>5, <1>7, <1>8 DEF Listening, Regular, Took

\* A nack, or the end of a transfer that was nacked too often.
LEMMA NackKeeps ==
  ASSUME Basic, QueueInOrder, Listening, Took, up, RequestRewind,
         NEW n \in Nat, parserNextSeq' = n, Streams(0, n)',
         Verified <= n, Verified <= Segs, receiver # NoReceiver
  PROVE  Regular' /\ retryCount' = retryCount + 1
<1>1. toSender = <<>> /\ segmentNackSeq = None /\ (Pumping \/ phase = "wait")
  BY DEF Listening, Quiet
<1>2. Segs' = Segs /\ segmentNackSeq' = None /\ (Pumping' \/ phase' = "wait")
  BY <1>1 DEF Took
<1>3. Streams(0, parserNextSeq)'
  BY StreamsMoves
<1>4. CASE /\ receiver' = NoReceiver /\ Reply([type |-> "file-nack"])
  <2>1. PICK m : m = [type |-> "file-nack"]
    OBVIOUS
  <2>2. toSender' = Append(<<>>, m) /\ m.type = "file-nack"
    BY <1>1, <1>4, <2>1 DEF Reply
  <2>3. Len(toSender') = 1 /\ toSender'[1].type = "file-nack"
    <3>1. toSender' = <<m>>
      BY <2>2
    <3> QED
      BY <2>2, <3>1
  <2>4. parserNextSeq' # None
    BY DEF None
  <2> QED
    BY <1>2, <1>3, <1>4, <2>3, <2>4 DEF GivenUp, Regular, RequestRewind
<1>5. CASE /\ receiver' = receiver /\ awaitingRewindSeq' = Len(receiver.parts)
           /\ Reply([type |-> "segment-nack", seq |-> Len(receiver.parts)])
  <2>1. PICK m : m = [type |-> "segment-nack", seq |-> Len(receiver.parts)]
    OBVIOUS
  <2>2. /\ toSender' = Append(<<>>, m) /\ m.type = "segment-nack" /\ m.seq = Verified
        /\ Verified' = Verified /\ awaitingRewindSeq' = Verified
    BY <1>1, <1>5, <2>1 DEF Reply, Verified
  <2>3. Len(toSender') = 1 /\ toSender'[1].type = "segment-nack" /\ toSender'[1].seq = Verified'
    <3>1. toSender' = <<m>>
      BY <2>2
    <3> QED
      BY <2>2, <3>1
  <2>4. NackPending'
    BY <1>2, <2>3 DEF NackPending
  <2>5. Awaits'
    BY <1>2, <1>5, <2>2 DEF Awaits, Listening
  <2> QED
    BY <1>3, <2>4, <2>5 DEF Nacked, Regular, RequestRewind
<1> QED
  BY <1>4, <1>5 DEF RequestRewind

\* A record costs a rewind only if it was damaged, and only one: while the
\* rewind is awaited, and after the transfer was given up, none is looked at.
LEMMA RecordKeeps ==
  ASSUME Basic, QueueInOrder, Unbroken, Regular, ReceiveRecord, retryCount <= corrupted
  PROVE  Regular' /\ retryCount' <= corrupted'
<1>1. /\ Took /\ toReceiver \in Seq(ToReceiver) /\ Len(toReceiver) \in Nat
      /\ toReceiver # <<>> /\ Head(toReceiver) = toReceiver[1]
      /\ retryCount \in Nat /\ corrupted \in Nat /\ Verified \in Nat
      /\ receiver \in [salt : Nat, segCount : Nat, parts : Seq(0..NumFiles)]
  BY TakesOne, ConstantsAssumption DEF ReceiverTakesOne, Took, Basic, WireOK, ReceiverOK, PairingOK, Verified
<1>2. /\ toReceiver[1].type = "record" /\ parserNextSeq' = toReceiver[1].seq + 1
      /\ parserNextSeq # None
  BY <1>1 DEF ReceiveRecord, TakeFromSender
<1>3. PICK m \in Arrivals :
        /\ corrupted' = IF m = toReceiver[1] THEN corrupted ELSE corrupted + 1
        /\ \/ /\ NotListening
              /\ UNCHANGED <<receiver, awaitingRewindSeq, retryCount, toSender>>
           \/ /\ ~NotListening /\ Opens(receiver, m)
              /\ receiver' = [receiver EXCEPT !.parts = Append(@, m.file)]
              /\ UNCHANGED <<awaitingRewindSeq, retryCount, toSender>>
           \/ /\ ~NotListening /\ ~Opens(receiver, m)
              /\ RequestRewind
  BY <1>1 DEF ReceiveRecord
<1>4. corrupted' \in {corrupted, corrupted + 1}
  BY <1>3
<1>5. CASE /\ NotListening
           /\ UNCHANGED <<receiver, awaitingRewindSeq, retryCount, toSender>>
  <2>1. ~Listening
    <3>1. ASSUME Listening PROVE FALSE
      <4>1. receiver # NoReceiver
        BY <3>1, HeadFacts DEF Listening, Pumping, Sending, NoReceiver
      <4> QED
        BY <1>5, <3>1, <4>1 DEF Listening, NotListening
    <3> QED
      BY <3>1
  <2>2. InTurn(parserNextSeq)
    BY <1>1, <1>2, <2>1, FirstFrame DEF RewindAt
  <2>3. Regular'
    BY <1>1, <1>2, <1>5, <2>2, PassedOver DEF NotListening
  <2> QED
    BY <1>1, <1>4, <1>5, <2>3
<1>6. CASE ~NotListening
  <2>1. Listening
    <3>1. ~Awaits
      BY <1>1, <1>6 DEF Awaits, NotListening, None
    <3>2. ~GivenUp
      BY <1>6 DEF GivenUp, NotListening
    <3>3. toReceiver[1].type # "file-start"
      BY <1>2
    <3> QED
      BY <1>1, <3>1, <3>2, <3>3, FirstFrame DEF Nacked
  <2>2. Sending /\ Streams(0, Verified) /\ InTurn(Verified) /\ Verified <= parserNextSeq
    BY <1>1, <2>1, FirstInTurn DEF Listening, Pumping, Sending
  <2>3. /\ toReceiver[1].seq = Verified /\ toReceiver[1].salt = stream.salt
        /\ toReceiver[1].file = HeadNo /\ Verified <= Segs
    BY <1>1, <1>2, <2>2, FirstInTurn DEF InTurn
  <2>4. /\ receiver.salt = stream.salt /\ receiver.segCount = Segs /\ SegCountOf(HeadNo) = Segs
        /\ Segs \in Nat /\ stream.salt # 0 /\ receiver # NoReceiver
    BY <1>6, <2>1, <2>2, HeadFacts DEF Listening, NotListening
  <2>5. PICK n : n = Verified
    OBVIOUS
  <2>6. Streams(0, n + 1)' /\ parserNextSeq' = n + 1 /\ n + 1 \in Nat
    <3>1. 0 \in 0..Len(toReceiver) /\ Streams(0, n) /\ n \in Nat
      BY <1>1, <2>2, <2>5
    <3> QED
      BY <1>1, <1>2, <2>3, <2>4, <2>5, <3>1, StreamsTail DEF Took
  <2>7. CASE m = toReceiver[1]
    <3>1. Opens(receiver, m)
      BY <2>3, <2>4, <2>7 DEF Opens, Verified
    <3>2. /\ receiver' = [receiver EXCEPT !.parts = Append(@, m.file)]
          /\ UNCHANGED <<awaitingRewindSeq, retryCount, toSender, corrupted>>
      BY <1>3, <1>6, <2>7, <3>1
    <3>3. /\ Verified' = Verified + 1 /\ receiver'.salt = receiver.salt
          /\ receiver'.segCount = receiver.segCount
      <4>1. receiver.parts \in Seq(0..NumFiles) /\ m.file \in 0..NumFiles
        BY <1>1, ArrivalTyped DEF ReceiveRecord
      <4>2. Len(Append(receiver.parts, m.file)) = Len(receiver.parts) + 1
        BY <4>1
      <4> QED
        BY <1>1, <3>2, <4>2 DEF Verified
    <3>4. Streams(0, Verified)'
      BY <2>5, <2>6, <3>3, StreamsMoves
    <3>5. Pumping' \/ (phase' = "wait" /\ Len(toReceiver') > 0)
      <4>1. ASSUME phase = "wait" PROVE Len(toReceiver) > 1
        <5>1. Ended(toReceiver, 0)
          BY <2>2, <4>1 DEF Streams, Pumping
        <5>2. toReceiver[Len(toReceiver)].type = "file-end"
          BY <1>1, <5>1 DEF Ended
        <5>3. Len(toReceiver) # 1
          BY <1>2, <5>2
        <5>4. PICK l : l = Len(toReceiver)
          OBVIOUS
        <5>5. l \in Nat /\ l # 0
          BY <1>1, <5>4
        <5> QED
          BY <5>3, <5>4, <5>5
      <4>2. Len(toReceiver') = Len(toReceiver) - 1
        BY <1>1 DEF Took
      <4> QED
        BY <1>1, <2>1, <4>1, <4>2 DEF Listening, Took
    <3>6. Quiet' /\ Segs' = Segs /\ stream' = stream /\ awaitingRewindSeq' = None
      BY <1>1, <2>1, <3>2 DEF Listening, Quiet, Took
    <3>7. Verified' <= parserNextSeq'
      BY <2>5, <2>6, <3>3
    <3> QED
      BY <1>1, <2>4, <3>2, <3>3, <3>4, <3>5, <3>6, <3>7 DEF Listening, Regular
  <2>8. CASE m # toReceiver[1]
    <3>1. m = Damaged(toReceiver[1])
      BY <1>1, <1>3, <2>8 DEF Arrivals
    <3>2. m.salt = 0
      <4>1. toReceiver[1] \in [type : {"record"}, seq : Nat, salt : Nat, file : 0..NumFiles]
        BY <1>1, <1>2 DEF ToReceiver
      <4> QED
        BY <3>1, <4>1 DEF Damaged
    <3>3. RequestRewind /\ corrupted' = corrupted + 1
      BY <1>3, <1>6, <2>4, <2>8, <3>2 DEF Opens
    <3>4. Verified <= n + 1
      BY <1>1, <2>5
    <3>5. Regular' /\ retryCount' = retryCount + 1
      BY <1>1, <2>1, <2>3, <2>4, <2>6, <3>3, <3>4, NackKeeps DEF Unbroken
    <3> QED
      BY <1>1, <3>3, <3>5
  <2> QED
    BY <2>7, <2>8
<1> QED
  BY <1>3, <1>5, <1>6

\* A file-end behind the last record: the file is shown, and nothing is
\* nacked again.
LEMMA EndKeeps ==
  ASSUME Basic, QueueInOrder, Unbroken, Regular, ReceiveFileEnd
  PROVE  Regular' /\ retryCount' = retryCount
<1>1. /\ Took /\ toReceiver \in Seq(ToReceiver) /\ Len(toReceiver) \in Nat
      /\ toReceiver # <<>> /\ Head(toReceiver) = toReceiver[1] /\ Verified \in Nat
  BY TakesOne DEF ReceiverTakesOne, Took, Basic, WireOK, ReceiverOK, Verified
<1>2. /\ toReceiver[1].type = "file-end" /\ UNCHANGED parserNextSeq
  BY <1>1 DEF ReceiveFileEnd, TakeFromSender
<1>3. CASE Listening
  <2>1. Sending /\ Streams(0, Verified) /\ awaitingRewindSeq = None /\ receiver.segCount = Segs
    BY <1>3 DEF Listening, Pumping, Sending
  <2>2. /\ Segs \in Nat /\ stream.salt # 0 /\ receiver # NoReceiver
    BY <1>3, <2>1, HeadFacts DEF Listening, NoReceiver
  <2>3. ~NotListening /\ Complete(receiver)
    BY <1>1, <1>2, <2>1, <2>2, FirstInTurn DEF NotListening, Complete, Verified
  <2>4. PICK m : m = [type |-> "file-ack", parts |-> receiver.parts]
    OBVIOUS
  <2>5. /\ receiver' = NoReceiver /\ retryCount' = retryCount /\ toSender' = Append(<<>>, m)
        /\ m.type = "file-ack"
    BY <1>3, <2>3, <2>4 DEF ReceiveFileEnd, Reply, Unbroken, Listening, Quiet
  <2>6. Len(toSender') = 1 /\ toSender'[1].type = "file-ack"
    <3>1. toSender' = <<m>>
      BY <2>5
    <3> QED
      BY <2>5, <3>1
  <2>7. toReceiver' = <<>> /\ ~Pumping
    <3>1. PICK n : n = Verified
      OBVIOUS
    <3>2. 0 \in 0..Len(toReceiver) /\ Streams(0, n) /\ n \in Nat
      BY <1>1, <2>1, <3>1
    <3> QED
      BY <1>1, <1>2, <2>2, <3>2, StreamsTail DEF Took
  <2>8. phase' = "wait"
    BY <1>1, <1>3, <2>7 DEF Listening, Took
  <2> QED
    BY <2>5, <2>6, <2>7, <2>8 DEF Acked, Regular
<1>4. CASE ~Listening
  <2>1. InTurn(parserNextSeq) /\ (Awaits \/ GivenUp)
    BY <1>1, <1>2, <1>4, FirstFrame DEF RewindAt, Nacked
  <2>2. NotListening
    BY <1>1, <2>1 DEF NotListening, Awaits, GivenUp, None
  <2>3. UNCHANGED <<receiver, awaitingRewindSeq, retryCount, toSender>>
    BY <2>2 DEF ReceiveFileEnd
  <2>4. Regular'
    BY <1>1, <1>2, <2>1, <2>2, <2>3, PassedOver DEF NotListening
  <2> QED
    BY <2>3, <2>4
<1> QED
  BY <1>3, <1>4

\* The rewind arrives, and the receiver listens again.
LEMMA RekeyKeeps ==
  ASSUME Basic, QueueInOrder, Regular, ReceiveSegmentRewind
  PROVE  Regular' /\ retryCount' = retryCount
<1>1. /\ Took /\ toReceiver \in Seq(ToReceiver) /\ Len(toReceiver) \in Nat
      /\ toReceiver # <<>> /\ Head(toReceiver) = toReceiver[1] /\ Verified \in Nat
  BY TakesOne DEF ReceiverTakesOne, Took, Basic, WireOK, ReceiverOK, Verified
<1>2. /\ toReceiver[1].type = "segment-rewind" /\ UNCHANGED <<parserNextSeq, retryCount, toSender>>
  BY <1>1 DEF ReceiveSegmentRewind, TakeFromSender
<1>3. Awaits /\ Quiet /\ RewindAt(1)
  BY <1>1, <1>2, FirstFrame DEF InTurn
<1>4. /\ toReceiver[1].seq = Verified /\ toReceiver[1].salt = stream.salt
      /\ awaitingRewindSeq = Verified /\ receiver # NoReceiver /\ receiver.segCount = Segs
  BY <1>3 DEF RewindAt, Awaits
<1>5. receiver' = Rekeyed(receiver, stream.salt, Verified) /\ awaitingRewindSeq' = None
  BY <1>1, <1>4 DEF ReceiveSegmentRewind
<1>6. Sending /\ stream.salt \in Nat /\ Segs \in Nat
  BY <1>3, HeadFacts DEF RewindAt, Pumping, Sending
<1>7. receiver'.salt = stream.salt /\ receiver'.segCount = Segs /\ Verified' = Verified
  <2>1. /\ Rekeyed(receiver, stream.salt, Verified).segCount = receiver.segCount
        /\ Len(Rekeyed(receiver, stream.salt, Verified).parts) = Verified
    <3>1. ReceiverOK /\ Verified <= Len(receiver.parts) /\ Verified \in Nat
      BY <1>1 DEF Basic, Verified
    <3> QED
      BY <1>6, <3>1, RekeyedTyped
  <2>2. Rekeyed(receiver, stream.salt, Verified).salt = stream.salt
    BY DEF Rekeyed, Basic, ReceiverOK
  <2> QED
    BY <1>4, <1>5, <2>1, <2>2 DEF Verified
<1>8. PICK n : n = Verified
  OBVIOUS
<1>9. Streams(0, n)'
  <2>1. 1 \in 0..Len(toReceiver) /\ Streams(1, n) /\ n \in Nat /\ 1 - 1 = 0
    BY <1>1, <1>3, <1>8 DEF RewindAt
  <2> QED
    BY <1>1, <1>6, <2>1, StreamsTail DEF Took
<1>10. Streams(0, Verified)'
  BY <1>7, <1>8, <1>9, StreamsMoves
<1>11. Pumping' \/ (phase' = "wait" /\ Len(toReceiver') > 0)
  <2>1. Len(toReceiver') = Len(toReceiver) - 1
    BY <1>1 DEF Took
  <2> QED
    BY <1>1, <1>3, <2>1 DEF RewindAt, Took
<1>12. Quiet' /\ Segs' = Segs /\ stream' = stream
  BY <1>1, <1>2, <1>3 DEF Quiet, Took
<1>13. Verified' <= parserNextSeq'
  BY <1>2, <1>3, <1>7 DEF Awaits
<1> QED
  BY <1>2, <1>5, <1>7, <1>10, <1>11, <1>12, <1>13 DEF Listening, Regular

\* Every record is in turn, and no transfer is resumed.
LEMMA NeverAborts ==
  ASSUME Basic, QueueInOrder, Regular
  PROVE  ~AbortAbusiveStream /\ ~ReceiveResumeAck
<1>1. /\ toReceiver \in Seq(ToReceiver) /\ parserNextSeq \in Seqs /\ Verified \in Nat
  BY DEF Basic, WireOK, ReceiverOK, Verified
<1>2. ASSUME AbortAbusiveStream PROVE FALSE
  <2>1. /\ toReceiver # <<>> /\ toReceiver[1].type = "record"
        /\ parserNextSeq = None \/ toReceiver[1].seq > parserNextSeq
    BY <1>1, <1>2 DEF AbortAbusiveStream, TakeFromSender
  <2>2. \/ InTurn(Verified) /\ parserNextSeq # None /\ Verified <= parserNextSeq
        \/ InTurn(parserNextSeq) /\ parserNextSeq # None
    <3>1. Awaits => parserNextSeq # None
      BY <1>1 DEF Awaits, None
    <3> QED
      BY <2>1, <3>1, FirstFrame DEF Nacked, GivenUp, RewindAt
  <2>3. parserNextSeq \in Nat
    BY <1>1, <2>2 DEF Seqs
  <2> QED
    BY <1>1, <2>1, <2>2, <2>3 DEF InTurn
<1>3. ASSUME ReceiveResumeAck PROVE FALSE
  <2>1. toReceiver # <<>> /\ toReceiver[1].type = "file-resume-ack"
    BY <1>1, <1>3 DEF ReceiveResumeAck, TakeFromSender
  <2> QED
    BY <2>1, FirstFrame DEF InTurn
<1> QED
  BY <1>2, <1>3

-----------------------------------------------------------------------------
(* On an unbroken pairing every step keeps the two pages in step.          *)

LEMMA InitInStep == Init => InStep
<1> SUFFICES ASSUME Init PROVE InStep
  OBVIOUS
<1>1. Unbroken /\ AtRest /\ retryCount <= corrupted
  BY DEF Init, Unbroken, AtRest
<1> QED
  BY <1>1 DEF InStep, Regular

LEMMA SenderInStep ==
  ASSUME Basic, QueueInOrder, Unbroken, Regular, failed = {}, (failed = {})',
         SenderStep \/ AckTimeout
  PROVE  Regular' /\ Unbroken' /\ UNCHANGED <<retryCount, corrupted>>
<1>1. ~RecoveryKick /\ ~AckTimeout
  BY DEF RecoveryKick, AckTimeout, Unbroken, Conclude
<1>2. UNCHANGED <<receiverVars, pairingVars>>
  BY <1>1 DEF SenderStep, Pick, DrainLoop, SendFileStart, ReadSegment, SealRecord, SendRecord,
     SendFileEnd, RewindTail, ReceiveFileAck, ReceiveFileNack, ReceiveSegmentNack,
     ReceiveResumeOffer
<1>3. Regular'
  <2>1. CASE Pick
    <3>1. UNCHANGED <<toReceiver, toSender, stream, record, segmentNackSeq, nackedSeq,
                      receiver, awaitingRewindSeq, parserNextSeq>>
      BY <2>1 DEF Pick, receiverVars
    <3>2. HeadNo' = HeadNo
      BY <2>1, HeadStays
    <3>3. CASE phase' = phase
      BY <3>1, <3>2, <3>3, RestKeeps
    <3>4. CASE phase = "idle" /\ phase' = "loop"
      <4>1. AtRest
        BY <3>4 DEF Regular, Starting, Listening, Nacked, NackPending, Rewinding, RewindAt,
           GivenUp, Acked, Pumping
      <4> QED
        BY <3>1, <3>4, <4>1 DEF AtRest, Regular
    <3> QED
      BY <2>1, <3>3, <3>4 DEF Pick
  <2>2. CASE DrainLoop \/ SendFileStart
    BY <2>2, BeginKeeps
  <2>3. CASE ReadSegment \/ SealRecord \/ SendRecord \/ SendFileEnd
    BY <2>3, PumpKeeps DEF Pumps
  <2>4. CASE RewindTail
    BY <2>4, RewindKeeps
  <2>5. CASE ReceiveFileAck \/ ReceiveFileNack \/ ReceiveSegmentNack \/ ReceiveResumeOffer
    BY <2>5, AnswerKeeps
  <2> QED
    BY <1>1, <2>1, <2>2, <2>3, <2>4, <2>5 DEF SenderStep
<1>4. pausedOnTransient' = FALSE
  <2>1. ~ReceiveResumeOffer
    <3>1. ASSUME ReceiveResumeOffer PROVE FALSE
      BY <3>1, AnswerKeeps
    <3> QED
      BY <3>1
  <2>2. pausedOnTransient = FALSE /\ senderOpen
    BY DEF Unbroken
  <2> QED
    BY <1>1, <2>1, <2>2 DEF SenderStep, Pick, DrainLoop, SendFileStart, ReadSegment, SealRecord,
       SendRecord, SendFileEnd, RewindTail, ReceiveFileAck, ReceiveFileNack, ReceiveSegmentNack
<1> QED
  BY <1>2, <1>3, <1>4 DEF Unbroken, receiverVars, pairingVars

LEMMA ReceiverInStep ==
  ASSUME Basic, QueueInOrder, Unbroken, Regular, retryCount <= corrupted, ReceiverStep
  PROVE  Regular' /\ Unbroken' /\ retryCount' <= corrupted'
<1>1. ~OfferResume /\ ~AbortAbusiveStream /\ ~ReceiveResumeAck
  BY NeverAborts DEF OfferResume, Unbroken
<1>2. retryCount \in Nat /\ corrupted \in Nat
  BY ConstantsAssumption DEF Basic, ReceiverOK, PairingOK
<1>3. Unbroken'
  <2>1. UNCHANGED pausedOnTransient
    BY <1>1, TakesOne DEF ReceiverStep, ReceiverTakesOne
  <2>2. UNCHANGED <<up, senderOpen, receiverOpen, kickDue, offerDue, aborted>>
    <3>1. CASE ReceiveRecord
      BY <3>1 DEF ReceiveRecord
    <3>2. CASE ReceiveFileStart \/ ReceiveSegmentRewind \/ ReceiveFileEnd
      BY <3>2 DEF ReceiveFileStart, ReceiveSegmentRewind, ReceiveFileEnd, pairingVars
    <3> QED
      BY <1>1, <3>1, <3>2 DEF ReceiverStep
  <2> QED
    BY <2>1, <2>2 DEF Unbroken
<1>4. CASE ReceiveRecord
  BY <1>3, <1>4, RecordKeeps
<1>5. CASE ReceiveFileStart \/ ReceiveSegmentRewind \/ ReceiveFileEnd
  <2>1. corrupted' = corrupted
    BY <1>5 DEF ReceiveFileStart, ReceiveSegmentRewind, ReceiveFileEnd, pairingVars
  <2>2. Regular' /\ (retryCount' = 0 \/ retryCount' = retryCount)
    BY <1>5, StartKeeps, RekeyKeeps, EndKeeps
  <2> QED
    BY <1>2, <1>3, <2>1, <2>2
<1> QED
  BY <1>1, <1>4, <1>5 DEF ReceiverStep

LEMMA StepInStep == Basic /\ QueueInOrder /\ InStep /\ [Next]_vars => InStep'
<1> SUFFICES ASSUME Basic, QueueInOrder, InStep, [Next]_vars, (failed = {} /\ drops = 0)'
             PROVE  (Unbroken /\ Regular /\ retryCount <= corrupted)'
  BY DEF InStep
<1>1. drops \in Nat
  BY ConstantsAssumption DEF Basic, PairingOK
<1>2. failed = {} /\ drops = 0 /\ ~Drop
  <2>1. CASE SenderStep \/ AckTimeout
    BY <2>1 DEF SenderStep, AckTimeout, Pick, DrainLoop, SendFileStart, ReadSegment, SealRecord,
       SendRecord, SendFileEnd, RewindTail, ReceiveFileAck, ReceiveFileNack, ReceiveSegmentNack,
       ReceiveResumeOffer, RecoveryKick, Conclude, pairingVars, Drop, senderVars
  <2>2. CASE ReceiverStep
    <3>1. UNCHANGED <<failed, drops>>
      BY <2>2, TakesOne DEF ReceiverStep, ReceiverTakesOne, OfferResume, senderVars
    <3> QED
      BY <1>1, <3>1 DEF Drop
  <2>3. CASE PairingStep
    BY <1>1, <2>3 DEF PairingStep, Drop, SenderNotices, ReceiverNotices, Reconnect, senderVars
  <2>4. CASE UNCHANGED vars
    BY <1>1, <2>4 DEF vars, senderVars, pairingVars, Drop
  <2> QED
    BY <2>1, <2>2, <2>3, <2>4 DEF Next, PromptNext
<1>3. Unbroken /\ Regular /\ retryCount <= corrupted
  BY <1>2 DEF InStep
<1>4. CASE SenderStep \/ AckTimeout
  BY <1>2, <1>3, <1>4, SenderInStep
<1>5. CASE ReceiverStep
  BY <1>3, <1>5, ReceiverInStep
<1>6. CASE PairingStep
  BY <1>2, <1>3, <1>6 DEF PairingStep, SenderNotices, ReceiverNotices, Reconnect, Unbroken
<1>7. CASE UNCHANGED vars
  <2>1. UNCHANGED <<toReceiver, toSender, stream, record, segmentNackSeq, nackedSeq, phase,
                    receiver, awaitingRewindSeq, parserNextSeq, queue, picked, retryCount,
                    corrupted>>
    BY <1>7 DEF vars, senderVars, receiverVars, pairingVars
  <2>2. HeadNo' = HeadNo
    BY <2>1 DEF HeadNo, Concluded
  <2>3. Unbroken'
    BY <1>3, <1>7 DEF vars, senderVars, receiverVars, pairingVars, Unbroken
  <2> QED
    BY <1>3, <2>1, <2>2, <2>3, RestKeeps
<1> QED
  BY <1>4, <1>5, <1>6, <1>7 DEF Next, PromptNext

\* On an unbroken pairing a receiver asks for no more rewinds than records
\* were damaged: neither the records nor the file-end that the sender put on
\* the wire behind a nacked record are nacked again (receive-flow.js,
\* _requestRewind() and the guards on awaitingRewindSeq).
THEOREM OneRewindEach == Spec => []OneRewindPerCorruption
<1>1. Init => InStep
  BY InitInStep
<1>2. Basic /\ WholeInv /\ Order => Basic /\ QueueInOrder
  BY DEF Order
<1>3. Basic /\ QueueInOrder /\ InStep /\ [Next]_vars => InStep'
  BY StepInStep
<1>4. InStep => OneRewindPerCorruption
  BY DEF InStep, OneRewindPerCorruption
<1> QED
  BY <1>1, <1>2, <1>3, <1>4, OrderHolds, PTL DEF Spec

=============================================================================
