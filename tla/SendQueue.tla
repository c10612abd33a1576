----------------------------- MODULE SendQueue -----------------------------
(***************************************************************************)
(* The sender page around one transfer: the send queue and its drain loop  *)
(* (sender-send.js), the handlers that change queue and gallery while a    *)
(* send is suspended (file picker and camera of send.html, edits of        *)
(* sender-gallery.js), and what happens to both when the transport drops,  *)
(* reconnects or is paired anew (sender-connect.js).                       *)
(*                                                                         *)
(* A page runs one turn at a time: a drain loop that stands at "top" or    *)
(* "start" is in the middle of a turn, and no handler runs before it       *)
(* reaches its next await.                                                 *)
(*                                                                         *)
(* The transfer itself (SegmentTransfer) is one step here: shown by the    *)
(* receiver, then acknowledged; or failed; or paused by a transient drop.  *)
(* Content is a photo and a version of its bytes; it is its own hash. A    *)
(* file that is no gallery photo is "photo" 0, and its version its item.   *)
(***************************************************************************)
EXTENDS Naturals, SequencesExt

CONSTANTS
    NumPhotos,      \* photos the camera takes, in this order
    PickSizes,      \* the user's file picks: how many files each has
    MaxLoops,       \* bound: drain loops alive at the same time
    MaxCrops,       \* bound: crops of gallery photos
    MaxRotations,   \* bound: rotations, flips and B&W of gallery photos
    MaxDeletes,     \* bound: deletions from the gallery
    MaxDrops,       \* bound: times the pairing breaks
    MaxReconnects,  \* bound: full reconnects to the same room
    MaxPairings     \* bound: pairings with another receiver

ASSUME ConstantsAssumption ==
    /\ NumPhotos \in Nat
    /\ PickSizes \in Seq(Nat \ {0})
    /\ MaxLoops \in Nat \ {0}
    /\ {MaxCrops, MaxRotations, MaxDeletes, MaxDrops, MaxReconnects,
        MaxPairings} \subseteq Nat

Photo == 1..NumPhotos
Loops == 1..MaxLoops

VARIABLES
    \* sender-send.js
    item,               \* every item ever pushed; an item is its index here
    queue,              \* the items in the queue
    isSending,
    pausedOnTransient,
    pendingBatchStart,
    pendingBatchEnd,
    loop,               \* the activations of drain() and resumeDrain()
    resuming,           \* head whose rewind handleResumeOffer awaits (0: none)
    \* send.html and sender-gallery.js
    photo,              \* the gallery
    capturing,          \* photo being auto-cropped before it is queued (0: none)
    picks,              \* how many of PickSizes the user did
    picking,            \* files of the present pick still to be queued
    edits,              \* edits of the gallery and new pairings so far
    \* sender-connect.js
    session,            \* number of the transport and key exchange in use
    verified,           \* both users confirmed the keys of this session
    hasWinner,          \* the transport race of this session was won
    connected,          \* the sender believes its transport open
    reconnects,         \* full reconnects so far
    \* The pairing and the receiver page
    up,                 \* messages reach the receiver
    drops,              \* times the pairing broke so far
    partial,            \* the receiver holds a file in flight
    offer,              \* a file-resume-offer is on its way
    images,             \* what the receiver shows, in the order it came
    pendingReplaceHash, \* the image the next file replaces
    collection,         \* collections opened so far
    \* History
    shownItems,         \* the items whose file was shown, in order
    chosen              \* the pairings in which the pick under way and the
                        \* photo being cropped were chosen by the user

queueVars   == <<item, queue, isSending, pausedOnTransient, pendingBatchStart,
                 pendingBatchEnd, loop, resuming>>
galleryVars == <<photo, capturing, picks, picking, edits, chosen>>
sessionVars == <<session, verified, hasWinner, connected, reconnects>>
pairingVars == <<up, drops, partial, offer, images, pendingReplaceHash,
                 collection, shownItems>>
vars == <<queueVars, galleryVars, sessionVars, pairingVars>>

-----------------------------------------------------------------------------
(* Items, photos, loops and images.                                        *)

NoHash   == <<0, 0>>
NoStream == [session |-> 0, bytes |-> 0, started |-> FALSE]

Stream == [session : Nat, bytes : Nat, started : BOOLEAN]

Item == [photo : 0..NumPhotos, bytes : Nat, replace : Nat,
         replaceSent : BOOLEAN, stream : Stream, pick : Nat, pairing : Nat,
         fate : {"queued", "sent", "failed", "removed"}]

LoopState == [at : {"off", "top", "create", "rewind", "start", "send", "ack"},
              item : Nat, stream : Stream, via : Nat, resume : BOOLEAN,
              cut : BOOLEAN]

Off == [at |-> "off", item |-> 0, stream |-> NoStream, via |-> 0,
        resume |-> FALSE, cut |-> FALSE]

GalleryPhoto == [state : {"none", "kept", "gone"}, bytes : Nat, sentHash : Nat]

Image == [hash : Nat \X Nat, looks : Nat \X Nat, item : Nat, collection : Nat]

TypeOK ==
    /\ item \in Seq(Item)
    /\ queue \in Seq(1..Len(item))
    /\ isSending \in BOOLEAN
    /\ pausedOnTransient \in BOOLEAN
    /\ pendingBatchStart \in BOOLEAN
    /\ pendingBatchEnd \in BOOLEAN
    /\ loop \in [Loops -> LoopState]
    /\ resuming \in 0..Len(item)
    /\ photo \in [Photo -> GalleryPhoto]
    /\ capturing \in 0..NumPhotos
    /\ picks \in 0..Len(PickSizes)
    /\ picking \in Nat
    /\ edits \in [crops : 0..MaxCrops, rotations : 0..MaxRotations,
                  deletes : 0..MaxDeletes, pairings : 0..MaxPairings]
    /\ session \in Nat \ {0}
    /\ verified \in BOOLEAN
    /\ hasWinner \in BOOLEAN
    /\ connected \in BOOLEAN
    /\ reconnects \in 0..MaxReconnects
    /\ up \in BOOLEAN
    /\ drops \in 0..MaxDrops
    /\ partial \in BOOLEAN
    /\ offer \in BOOLEAN
    /\ images \in Seq(Image)
    /\ pendingReplaceHash \in Nat \X Nat
    /\ collection \in Nat
    /\ shownItems \in Seq(Nat)
    /\ chosen \in [pick : Nat, photo : Nat]

Init ==
    /\ item = <<>>
    /\ queue = <<>>
    /\ isSending = FALSE
    /\ pausedOnTransient = FALSE
    /\ pendingBatchStart = FALSE
    /\ pendingBatchEnd = FALSE
    /\ loop = [l \in Loops |-> Off]
    /\ resuming = 0
    /\ photo = [p \in Photo |-> [state |-> "none", bytes |-> 0, sentHash |-> 0]]
    /\ capturing = 0
    /\ picks = 0
    /\ picking = 0
    /\ edits = [crops |-> 0, rotations |-> 0, deletes |-> 0, pairings |-> 0]
    /\ session = 1
    /\ verified = TRUE
    /\ hasWinner = TRUE
    /\ connected = TRUE
    /\ reconnects = 0
    /\ up = TRUE
    /\ drops = 0
    /\ partial = FALSE
    /\ offer = FALSE
    /\ images = <<>>
    /\ pendingReplaceHash = NoHash
    /\ collection = 0
    /\ shownItems = <<>>
    /\ chosen = [pick |-> 0, photo |-> 0]

\* A loop is in the middle of a turn: no handler can run.
InTurn == \E l \in Loops : loop[l].at \in {"top", "start"}

\* A control message reaches the receiver page and passes its gate.
Reaches == connected /\ up /\ verified

-----------------------------------------------------------------------------
(* The drain loop.                                                         *)

\* Mutant: drain() without its first line.
StartDrainAgain(paused) ==
    IF paused THEN UNCHANGED <<isSending, loop>>
    ELSE /\ isSending' = TRUE
         /\ \E l \in Loops :
               /\ loop[l].at = "off"
               /\ \A k \in 1..(l - 1) : loop[k].at # "off"
               /\ loop' = [loop EXCEPT ![l].at = "top"]

\* A call of drain(), when pausedOnTransient is paused.
StartDrain(paused) ==
    IF isSending \/ paused THEN UNCHANGED <<isSending, loop>>
    ELSE /\ isSending' = TRUE
         /\ \E l \in Loops :
               /\ loop[l].at = "off"
               /\ \A k \in 1..(l - 1) : loop[k].at # "off"
               /\ loop' = [loop EXCEPT ![l].at = "top"]

\* The loop returns with the queue as it is.
LeaveQueue(l) ==
    /\ isSending' = FALSE
    /\ loop' = [loop EXCEPT ![l] = Off]

\* sendOnePhoto() up to its first await: a SegmentSender is made of the
\* bytes and the keys of this moment, rewound, or used as it is.
SendOnePhoto(i, resume) ==
    LET s == item[i].stream
    IN  [at     |-> IF s = NoStream THEN "create"
                    ELSE IF s.started /\ ~resume THEN "rewind" ELSE "start",
         item   |-> i,
         stream |-> IF s = NoStream
                    THEN [session |-> session, bytes |-> item[i].bytes,
                          started |-> FALSE]
                    ELSE s,
         via    |-> 0,
         resume |-> resume,
         cut    |-> FALSE]

\* The queue is empty: close the batch, if that is asked for.
DrainEnd(l) ==
    /\ loop[l].at = "top"
    /\ queue = <<>>
    /\ LeaveQueue(l)
    /\ pendingBatchEnd' = (pendingBatchEnd /\ ~(verified /\ connected))
    /\ UNCHANGED <<item, queue, pausedOnTransient, pendingBatchStart, resuming,
                   galleryVars, sessionVars, pairingVars>>

\* The gates: not verified, or transport not connected.
DrainGate(l) ==
    /\ loop[l].at = "top"
    /\ queue # <<>>
    /\ ~verified \/ ~connected
    /\ LeaveQueue(l)
    /\ UNCHANGED <<item, queue, pausedOnTransient, pendingBatchStart,
                   pendingBatchEnd, resuming, galleryVars, sessionVars,
                   pairingVars>>

\* Open the batch, announce a replacement (once per item), take the head.
DrainHead(l) ==
    /\ loop[l].at = "top"
    /\ queue # <<>>
    /\ verified /\ connected
    /\ pendingBatchStart' = FALSE
    /\ collection' = IF pendingBatchStart /\ up THEN collection + 1
                                                ELSE collection
    /\ LET i == Head(queue)
           announce == item[i].replace # 0 /\ ~item[i].replaceSent
       IN  /\ item' = IF announce THEN [item EXCEPT ![i].replaceSent = TRUE]
                                  ELSE item
           /\ pendingReplaceHash' = IF announce /\ up
                                    THEN <<item[i].photo, item[i].replace>>
                                    ELSE pendingReplaceHash
           /\ loop' = [loop EXCEPT ![l] = SendOnePhoto(i, FALSE)]
    /\ UNCHANGED <<queue, isSending, pausedOnTransient, pendingBatchEnd,
                   resuming, galleryVars, sessionVars, up, drops, partial,
                   offer, images, shownItems>>

\* createSender() or rewind(0) returns; the new sender is stored on the item
\* whatever happened to the item meanwhile.
SenderReady(l) ==
    /\ loop[l].at \in {"create", "rewind"}
    /\ loop' = [loop EXCEPT ![l].at = "start"]
    /\ item' = IF loop[l].at = "create"
               THEN [item EXCEPT ![loop[l].item].stream = loop[l].stream]
               ELSE item
    /\ UNCHANGED <<queue, isSending, pausedOnTransient, pendingBatchStart,
                   pendingBatchEnd, resuming, galleryVars, sessionVars,
                   pairingVars>>

\* Mutant: a failed item goes to the end of the queue.
ShiftedRequeueing(ok) ==
    IF queue = <<>> THEN <<>>
    ELSE IF ok THEN Tail(queue) ELSE Append(Tail(queue), Head(queue))

\* queue.shift(), when the loop's send has ended well or badly.
Shifted(ok) == IF queue = <<>> THEN <<>> ELSE Tail(queue)

\* Mutant: the gallery is told the bytes it has, not the bytes that were sent.
SentHashOf(l) == photo[item[loop[l].item].photo].bytes

\* The composite hash of what the loop sent.
LocalHash(l) == loop[l].stream.bytes

\* The send of the loop's item has ended: shift the queue, tell the gallery,
\* and go on. resumeDrain() ends here and leaves the rest to a new drain().
Conclude(l, ok) ==
    LET i == loop[l].item
        p == item[i].photo
    IN  /\ queue' = Shifted(ok)
        /\ item' = [item EXCEPT
                       ![i].fate = IF @ # "queued" THEN @
                                   ELSE IF ok THEN "sent" ELSE "failed",
                       ![i].stream = IF ok THEN NoStream ELSE @]
        /\ photo' = IF ok /\ p # 0 /\ photo[p].state = "kept"
                    THEN [photo EXCEPT ![p].sentHash = LocalHash(l)]
                    ELSE photo
        /\ IF loop[l].resume /\ (queue' = <<>> \/ pausedOnTransient)
           THEN LeaveQueue(l)
           ELSE /\ loop' = [loop EXCEPT ![l] = [Off EXCEPT !.at = "top"]]
                /\ isSending' = (isSending \/ loop[l].resume)
        /\ UNCHANGED <<pausedOnTransient, pendingBatchStart, pendingBatchEnd,
                       resuming, capturing, picks, picking, edits, chosen,
                       sessionVars>>

\* The transport of this session carries another file already.
Busy == \E k \in Loops : loop[k].at \in {"send", "ack"} /\ loop[k].via = session

\* sendFile() on an open transport: file-start, or the resumed records.
SendFile(l) ==
    /\ loop[l].at = "start"
    /\ connected
    /\ ~Busy
    /\ loop' = [loop EXCEPT ![l].at = "send", ![l].via = session,
                            ![l].cut = @ \/ ~up,
                            ![l].stream.started = TRUE]
    /\ item' = [item EXCEPT ![loop[l].item].stream =
                   IF @ = NoStream THEN @ ELSE [@ EXCEPT !.started = TRUE]]
    /\ partial' = (partial \/ (up /\ verified /\ ~loop[l].resume))
    /\ UNCHANGED <<queue, isSending, pausedOnTransient, pendingBatchStart,
                   pendingBatchEnd, resuming, galleryVars, sessionVars, up,
                   drops, offer, images, pendingReplaceHash, collection,
                   shownItems>>

\* sendFile() on a closed transport: nothing left this host, so the loop
\* keeps the queue; a resumed send waits for another offer.
SendFileClosed(l) ==
    /\ loop[l].at = "start"
    /\ hasWinner /\ ~connected
    /\ LeaveQueue(l)
    /\ pausedOnTransient' = (pausedOnTransient \/ loop[l].resume)
    /\ UNCHANGED <<item, queue, pendingBatchStart, pendingBatchEnd, resuming,
                   galleryVars, sessionVars, pairingVars>>

\* sendFile() before the race of a new session has a winner, or beside
\* another transfer, throws an error that is not transient.
SendFileRefused(l) ==
    /\ loop[l].at = "start"
    /\ ~hasWinner \/ (connected /\ Busy)
    /\ Conclude(l, FALSE)
    /\ UNCHANGED pairingVars

\* The transport closes under the records: keep the head, await an offer.
SendPaused(l) ==
    /\ loop[l].at = "send"
    /\ ~connected \/ loop[l].via # session
    /\ LeaveQueue(l)
    /\ pausedOnTransient' = TRUE
    /\ UNCHANGED <<item, queue, pendingBatchStart, pendingBatchEnd, resuming,
                   galleryVars, sessionVars, pairingVars>>

\* file-nack, an unreadable blob, the ack timer, or a transport closed by a
\* reconnect while the verdict is awaited.
SendFails(l) ==
    /\ loop[l].at \in {"send", "ack"}
    /\ Conclude(l, FALSE)
    /\ partial' \in {partial, FALSE}
    /\ UNCHANGED <<up, drops, offer, images, pendingReplaceHash, collection,
                   shownItems>>

AckArrives(l) ==
    /\ loop[l].at = "ack"
    /\ ~loop[l].cut /\ loop[l].via = session
    /\ Conclude(l, TRUE)
    /\ UNCHANGED pairingVars

\* The receiver page has the whole file and shows it: in the place of the
\* image it was told to replace, if it has that, or as a new one.
Present(l) ==
    LET i == loop[l].item
        h == <<item[i].photo, loop[l].stream.bytes>>
        k == SelectInSeq(images, LAMBDA m : m.hash = pendingReplaceHash)
    IN  /\ images' = IF k # 0
                     THEN [images EXCEPT ![k] =
                              [@ EXCEPT !.hash = h, !.looks = h, !.item = i]]
                     ELSE Append(images, [hash |-> h, looks |-> h, item |-> i,
                                          collection |-> collection])
        /\ pendingReplaceHash' = NoHash
        /\ shownItems' = Append(shownItems, i)

ReceiverShows(l) ==
    /\ loop[l].at = "send"
    /\ ~loop[l].cut /\ verified
    /\ loop[l].via = session /\ loop[l].stream.session = session
    /\ Present(l)
    /\ partial' = FALSE
    /\ loop' = [loop EXCEPT ![l].at = "ack"]
    /\ UNCHANGED <<item, queue, isSending, pausedOnTransient,
                   pendingBatchStart, pendingBatchEnd, resuming, galleryVars,
                   sessionVars, up, drops, offer, collection>>

LoopStep(l) ==
    \/ DrainEnd(l) \/ DrainGate(l) \/ DrainHead(l) \/ SendFile(l)
    \/ SendFileClosed(l) \/ SendFileRefused(l)

TransferStep(l) ==
    \/ SenderReady(l) \/ SendPaused(l) \/ SendFails(l) \/ AckArrives(l)
    \/ ReceiverShows(l)

-----------------------------------------------------------------------------
(* Resume after a transient drop.                                          *)

\* handleResumeOffer(): nothing to resume at the head, so the receiver drops
\* what it holds and the queue is drained; or the head is rewound.
OfferArrives ==
    /\ offer /\ resuming = 0
    /\ offer' = FALSE
    /\ \/ /\ partial' = (partial /\ ~Reaches)
          /\ pausedOnTransient' = FALSE
          /\ IF queue # <<>> THEN StartDrain(FALSE)
                             ELSE UNCHANGED <<isSending, loop>>
          /\ UNCHANGED <<item, resuming>>
       \/ /\ queue # <<>>
          /\ item[Head(queue)].stream # NoStream
          /\ resuming' = Head(queue)
          /\ item' = [item EXCEPT ![Head(queue)].stream.started = TRUE]
          /\ UNCHANGED <<partial, pausedOnTransient, isSending, loop>>
    /\ UNCHANGED <<queue, pendingBatchStart, pendingBatchEnd, galleryVars,
                   sessionVars, up, drops, images, pendingReplaceHash,
                   collection, shownItems>>

\* The rewind returns: file-resume-ack, then resumeDrain() on whatever is
\* the head by now. An empty queue makes its error path throw, so isSending
\* stays set; an unverified peer fails the head.
ResumeDrain ==
    /\ resuming # 0
    /\ resuming' = 0
    /\ pausedOnTransient' = FALSE
    /\ \/ isSending /\ UNCHANGED <<item, queue, isSending, loop>>
       \/ /\ ~isSending /\ queue = <<>>
          /\ isSending' = TRUE
          /\ UNCHANGED <<item, queue, loop>>
       \/ /\ ~isSending /\ queue # <<>> /\ verified
          /\ isSending' = TRUE
          /\ \E l \in Loops :
                /\ loop[l].at = "off"
                /\ \A k \in 1..(l - 1) : loop[k].at # "off"
                /\ loop' = [loop EXCEPT ![l] =
                      [SendOnePhoto(Head(queue), TRUE) EXCEPT
                          !.cut = (Head(queue) # resuming)]]
          /\ UNCHANGED <<item, queue>>
       \/ /\ ~isSending /\ queue # <<>> /\ ~verified
          /\ queue' = Tail(queue)
          /\ item' = [item EXCEPT ![Head(queue)].fate = "failed"]
          /\ IF Tail(queue) # <<>> THEN StartDrain(FALSE)
                                   ELSE UNCHANGED <<isSending, loop>>
    /\ UNCHANGED <<pendingBatchStart, pendingBatchEnd, galleryVars,
                   sessionVars, pairingVars>>

-----------------------------------------------------------------------------
(* The user: file picker, camera and gallery.                              *)

\* Mutant: the queue is given a wrong item.
PushNext(p, bytes, replace, pick, chosenIn) ==
    /\ item' = Append(item, [photo |-> p, bytes |-> bytes, replace |-> replace,
                             replaceSent |-> FALSE, stream |-> NoStream,
                             pick |-> pick, pairing |-> chosenIn,
                             fate |-> "queued"])
    /\ queue' = Append(queue, Len(item) + 2)

\* push() of a new item.
Push(p, bytes, replace, pick, chosenIn) ==
    /\ item' = Append(item, [photo |-> p, bytes |-> bytes, replace |-> replace,
                             replaceSent |-> FALSE, stream |-> NoStream,
                             pick |-> pick, pairing |-> chosenIn,
                             fate |-> "queued"])
    /\ queue' = Append(queue, Len(item) + 1)

\* handleFileSelect(): the files are stripped of metadata one after another,
\* and each is queued as soon as it is ready.
PickFiles ==
    /\ picks < Len(PickSizes) /\ picking = 0
    /\ picks' = picks + 1
    /\ picking' = PickSizes[picks + 1]
    /\ chosen' = [chosen EXCEPT !.pick = edits.pairings]
    /\ UNCHANGED <<queueVars, photo, capturing, edits, sessionVars,
                   pairingVars>>

FileStripped ==
    /\ picking # 0
    /\ picking' = picking - 1
    /\ Push(0, Len(item) + 1, 0, picks, chosen.pick)
    /\ pendingBatchStart' = (pendingBatchStart \/ picking = PickSizes[picks])
    /\ pendingBatchEnd' = (pendingBatchEnd \/ picking = 1)
    /\ StartDrain(pausedOnTransient)
    /\ UNCHANGED <<pausedOnTransient, resuming, photo, capturing, picks, edits,
                   chosen, sessionVars, pairingVars>>

\* processCapturedPhoto(): in the gallery at once, queued after the auto-crop.
Capture(p) ==
    /\ capturing = 0
    /\ photo[p].state = "none"
    /\ \A q \in 1..(p - 1) : photo[q].state # "none"
    /\ capturing' = p
    /\ photo' = [photo EXCEPT ![p] = [state |-> "kept", bytes |-> 1,
                                      sentHash |-> 0]]
    /\ chosen' = [chosen EXCEPT !.photo = edits.pairings]
    /\ UNCHANGED <<queueVars, picks, picking, edits, sessionVars, pairingVars>>

\* The bytes queued are the captured ones or their auto-crop, and only an
\* auto-crop touches the gallery again.
CaptureQueued ==
    /\ capturing # 0
    /\ capturing' = 0
    /\ photo' \in {photo, [photo EXCEPT ![capturing].bytes = 1]}
    /\ Push(capturing, 1, 0, 0, chosen.photo)
    /\ StartDrain(pausedOnTransient)
    /\ UNCHANGED <<pausedOnTransient, pendingBatchStart, pendingBatchEnd,
                   resuming, picks, picking, edits, chosen, sessionVars,
                   pairingVars>>

\* The first queued item of photo p (0: none).
QueuedOf(p) == SelectInSeq(queue, LAMBDA i : item[i].photo = p)

\* deleteGalleryPhoto(): tell the receiver, or take it out of the queue.
Delete(p) ==
    /\ edits.deletes < MaxDeletes
    /\ edits' = [edits EXCEPT !.deletes = @ + 1]
    /\ photo[p].state = "kept"
    /\ photo' = [photo EXCEPT ![p].state = "gone"]
    /\ IF photo[p].sentHash # 0
       THEN LET k == SelectInSeq(images, LAMBDA m :
                                     m.hash = <<p, photo[p].sentHash>>)
            IN  /\ images' = IF k # 0 /\ Reaches THEN RemoveAt(images, k)
                                                 ELSE images
                /\ UNCHANGED <<item, queue>>
       ELSE /\ IF QueuedOf(p) # 0
               THEN /\ queue' = RemoveAt(queue, QueuedOf(p))
                    /\ item' = [item EXCEPT
                                   ![queue[QueuedOf(p)]].fate = "removed"]
               ELSE UNCHANGED <<item, queue>>
            /\ UNCHANGED images
    /\ UNCHANGED <<isSending, pausedOnTransient, pendingBatchStart,
                   pendingBatchEnd, loop, resuming, capturing, picks, picking,
                   chosen, sessionVars, up, drops, partial, offer, pendingReplaceHash,
                   collection, shownItems>>

\* applyGalleryTransform(): new bytes; the receiver of a sent photo replays
\* the transforms, a photo that was not sent yet is only changed here.
Rotate(p) ==
    /\ edits.rotations < MaxRotations
    /\ edits' = [edits EXCEPT !.rotations = @ + 1]
    /\ photo[p].state = "kept"
    /\ photo' = [photo EXCEPT ![p].bytes = @ + 1]
    /\ LET k == SelectInSeq(images, LAMBDA m : m.hash = <<p, photo[p].sentHash>>)
       IN  images' = IF photo[p].sentHash # 0 /\ k # 0 /\ Reaches
                     THEN [images EXCEPT ![k].looks = <<p, photo[p].bytes + 1>>]
                     ELSE images
    /\ UNCHANGED <<queueVars, capturing, picks, picking, chosen, sessionVars, up,
                   drops, partial, offer, pendingReplaceHash, collection,
                   shownItems>>

\* applyCropResult(): queue the new bytes as a replacement of what was sent,
\* or swap the bytes of the item that waits.
Crop(p) ==
    /\ edits.crops < MaxCrops
    /\ edits' = [edits EXCEPT !.crops = @ + 1]
    /\ photo[p].state = "kept"
    /\ photo' = [photo EXCEPT ![p].bytes = @ + 1]
    /\ IF photo[p].sentHash # 0
       THEN /\ Push(p, photo[p].bytes + 1, photo[p].sentHash, 0,
                    edits.pairings)
            /\ StartDrain(pausedOnTransient)
       ELSE /\ item' = IF QueuedOf(p) = 0 THEN item
                       ELSE [item EXCEPT
                                ![queue[QueuedOf(p)]].bytes = photo[p].bytes + 1,
                                ![queue[QueuedOf(p)]].stream = NoStream]
            /\ UNCHANGED <<queue, isSending, loop>>
    /\ UNCHANGED <<pausedOnTransient, pendingBatchStart, pendingBatchEnd,
                   resuming, capturing, picks, picking, chosen, sessionVars,
                   pairingVars>>

-----------------------------------------------------------------------------
(* Connection: drops, recovery, reconnect, new pairing.                    *)

Cut(loops) == [l \in Loops |-> [loops[l] EXCEPT
                  !.cut = @ \/ loops[l].at \in {"send", "ack"}]]

\* The relay pairing breaks; the sender notices at once or later.
Drop ==
    /\ up /\ drops < MaxDrops
    /\ drops' = drops + 1
    /\ up' = FALSE
    /\ connected' \in {TRUE, FALSE}
    /\ offer' = FALSE
    /\ loop' = Cut(loop)
    /\ UNCHANGED <<item, queue, isSending, pausedOnTransient,
                   pendingBatchStart, pendingBatchEnd, resuming, galleryVars,
                   session, verified, hasWinner, reconnects, partial, images,
                   pendingReplaceHash, collection, shownItems>>

DropNoticed ==
    /\ connected /\ ~up
    /\ connected' = FALSE
    /\ UNCHANGED <<queueVars, galleryVars, session, verified, hasWinner,
                   reconnects, pairingVars>>

\* Mutant: a recovery that does not flush the queue.
KickNever == UNCHANGED <<isSending, loop>>

\* restoreSendUiAfterRecovery(), handleReady(): flush what was queued.
Kick == IF queue # <<>> THEN StartDrain(pausedOnTransient)
                        ELSE UNCHANGED <<isSending, loop>>

\* The transport reconnects by itself within the session; the receiver
\* offers to resume the file it holds a part of.
Recover ==
    /\ hasWinner /\ ~connected
    /\ connected' = TRUE
    /\ up' = TRUE
    /\ offer' = partial
    /\ IF verified THEN Kick ELSE UNCHANGED <<isSending, loop>>
    /\ UNCHANGED <<item, queue, pausedOnTransient, pendingBatchStart,
                   pendingBatchEnd, resuming, galleryVars, session, verified,
                   hasWinner, reconnects, drops, partial, images,
                   pendingReplaceHash, collection, shownItems>>

\* Keys and transport of the next session; the receiver starts afresh too.
NextSession ==
    /\ session' = session + 1
    /\ verified' = FALSE
    /\ hasWinner' = FALSE
    /\ connected' = FALSE
    /\ up' = FALSE
    /\ partial' = FALSE
    /\ offer' = FALSE
    /\ pendingReplaceHash' = NoHash
    /\ UNCHANGED drops

\* Mutant: only the announced replacements are forgotten.
ResetKeepingSenders(i) == [item[i] EXCEPT !.replaceSent = FALSE]

\* What resetForReconnect() keeps of an item.
ResetItem(i) == [item[i] EXCEPT !.stream = NoStream, !.replaceSent = FALSE]

\* reconnect() and resetForReconnect(): the queue is kept, what is bound to
\* the old session is dropped from it.
Reconnect ==
    /\ ~connected /\ reconnects < MaxReconnects
    /\ reconnects' = reconnects + 1
    /\ NextSession
    /\ pausedOnTransient' = FALSE
    /\ item' = [i \in 1..Len(item) |->
                   IF i \in ToSet(queue) THEN ResetItem(i) ELSE item[i]]
    /\ UNCHANGED <<queue, isSending, pendingBatchStart, pendingBatchEnd, loop,
                   resuming, galleryVars, images, collection, shownItems>>

\* Mutant: only the gallery's photos leave the queue.
AfterRemovals == SelectSeq(queue, LAMBDA i : item[i].photo = 0)

\* What shredLocal() leaves in the queue.
AfterShred == <<>>

\* join() of another room: gallery and queue are shredded, and clear()
\* resets the flags although a loop may be suspended.
NewPairing ==
    /\ edits.pairings < MaxPairings
    /\ edits' = [edits EXCEPT !.pairings = @ + 1]
    /\ NextSession
    /\ queue' = AfterShred
    /\ item' = [i \in 1..Len(item) |->
                   IF i \in ToSet(queue)
                   THEN [item[i] EXCEPT !.fate = "removed"] ELSE item[i]]
    /\ isSending' = FALSE
    /\ pausedOnTransient' = FALSE
    /\ pendingBatchStart' = FALSE
    /\ pendingBatchEnd' = FALSE
    /\ photo' = [p \in Photo |-> IF photo[p].state = "kept"
                                 THEN [photo[p] EXCEPT !.state = "gone"]
                                 ELSE photo[p]]
    /\ images' = <<>>
    /\ UNCHANGED <<loop, resuming, capturing, picks, picking, chosen,
                   reconnects, collection, shownItems>>

\* A loop, or handleResumeOffer(), is suspended in the crypto or the
\* transport of an old session.
StaleLoop ==
    \/ resuming # 0
    \/ \E l \in Loops :
        \/ loop[l].at \in {"create", "rewind"} /\ loop[l].stream.session # session
        \/ loop[l].at \in {"send", "ack"} /\ loop[l].via # session

\* The race of the new session has a winner: that takes the room and the
\* network, while a stale loop is gone within milliseconds.
Connected ==
    /\ ~hasWinner
    /\ ~StaleLoop
    /\ hasWinner' = TRUE
    /\ connected' = TRUE
    /\ up' = TRUE
    /\ UNCHANGED <<queueVars, galleryVars, session, verified, reconnects,
                   drops, partial, offer, images, pendingReplaceHash,
                   collection, shownItems>>

\* handleReady(), once both users confirmed: flush what was queued.
Ready ==
    /\ connected /\ up /\ ~verified
    /\ verified' = TRUE
    /\ Kick
    /\ UNCHANGED <<item, queue, pausedOnTransient, pendingBatchStart,
                   pendingBatchEnd, resuming, galleryVars, session, hasWinner,
                   connected, reconnects, pairingVars>>

-----------------------------------------------------------------------------

User ==
    \/ PickFiles \/ FileStripped \/ CaptureQueued \/ NewPairing
    \/ \E p \in Photo : Capture(p) \/ Delete(p) \/ Rotate(p) \/ Crop(p)

Connection ==
    Drop \/ DropNoticed \/ Recover \/ Reconnect \/ Connected \/ Ready

Next ==
    \/ \E l \in Loops : LoopStep(l)
    \/ /\ ~InTurn
       /\ \/ \E l \in Loops : TransferStep(l)
          \/ OfferArrives \/ ResumeDrain
          \/ User
          \/ Connection

Spec == Init /\ [][Next]_vars

\* Pages go on running, transports reconnect for ever, the users confirm;
\* a transfer that is not paused ends by its verdict or its timer.
Fairness ==
    /\ \A l \in Loops : WF_vars(LoopStep(l)) /\ WF_vars(~InTurn /\ TransferStep(l))
    /\ WF_vars(~InTurn /\ (OfferArrives \/ ResumeDrain))
    /\ WF_vars(~InTurn /\ (FileStripped \/ CaptureQueued))
    /\ WF_vars(~InTurn /\ (DropNoticed \/ Recover))
    /\ WF_vars(~InTurn /\ (Connected \/ Ready))

FairSpec == Spec /\ Fairness

\* Leaves out that messages are lost in a socket that is no longer paired
\* (the sender sees every drop at once), and that a verdict comes during the
\* few milliseconds of a rewind.
CalmNext ==
    /\ Next
    /\ up' \/ ~connected'
    /\ resuming # 0 => Len(queue') >= Len(queue)

CalmSpec == Init /\ [][CalmNext]_vars /\ Fairness

-----------------------------------------------------------------------------
(* Properties.                                                             *)

\* "Safe to call multiple times; only one drain loop runs at a time": push
\* handlers, recovery, resume and the loop's own tail all start it.
OneLoop == \A k, l \in Loops : loop[k].at # "off" /\ loop[l].at # "off" => k = l

\* isSending is set only while a loop is there that will reset it, else
\* every later drain() returns at its first line.
SendingIsAlive == isSending => \E l \in Loops : loop[l].at # "off"

\* The files reach the receiver in the order they were queued, and none
\* twice, through pauses, resumes, restarts and reconnects.
ShownInOrder ==
    \A j, k \in 1..Len(shownItems) : j < k => shownItems[j] < shownItems[k]

\* What goes out on the transport of a session was confirmed by both users
\* in that session and is sealed with its keys, also when the sender of the
\* file was made, or its send interrupted, before a reconnect.
SealedForSession ==
    \A l \in Loops :
        (loop[l].at \in {"send", "ack"} /\ loop[l].via = session) =>
            verified /\ loop[l].stream.session = session

\* The gallery's hash of a photo that was sent names an image the receiver
\* shows: deletions, transforms and crops of the photo refer to it by that.
SentPhotoIsThere ==
    \A p \in Photo :
        (photo[p].state = "kept" /\ photo[p].sentHash # 0) =>
            \E k \in 1..Len(images) : images[k].hash = <<p, photo[p].sentHash>>

\* The queue is an outbox: nothing leaves it but the head by its own
\* conclusion, or an item the user took out.
Fated(fate) == {i \in 1..Len(item) : item[i].fate = fate}

Promise == INSTANCE Outbox WITH
    pushed  <- Len(item),
    waiting <- queue,
    sent    <- Fated("sent"),
    failed  <- Fated("failed"),
    removed <- Fated("removed")

ImplementsOutbox == Promise!Spec

\* The queue is emptied: no pause, gate or reconnect strands what it holds.
QueueEmpties == queue # <<>> ~> queue = <<>>

\* Nothing is under way on either page.
Quiet ==
    /\ queue = <<>> /\ ~isSending /\ capturing = 0 /\ picking = 0
    /\ \A l \in Loops : loop[l].at = "off"
    /\ verified /\ connected /\ up /\ drops = 0

\* When all is quiet, the receiver shows each sent photo as the gallery does.
LatestBytesShown ==
    Quiet => \A p \in Photo :
        (photo[p].state = "kept" /\ photo[p].sentHash # 0) =>
            \E k \in 1..Len(images) :
                images[k].looks = <<p, photo[p].bytes>>

\* When the queue is empty and idle, no batch is left open.
BatchIsClosed ==
    (queue = <<>> /\ ~isSending /\ resuming = 0 /\ verified /\ connected)
        => ~pendingBatchEnd

\* Files are grouped by the pick they came from.
GroupedByPick ==
    \A j, k \in 1..Len(images) :
        LET a == item[images[j].item]
            b == item[images[k].item]
        IN  (a.photo = 0 /\ b.photo = 0) =>
                (a.pick = b.pick
                    <=> images[j].collection = images[k].collection)

\* No item fails because the session it was prepared for is over.
ReconnectFailsNothing ==
    [][\A i \in 1..Len(item) :
          (item[i].fate = "queued" /\ item'[i].fate = "failed") =>
              \A l \in Loops : loop[l].item = i =>
                                   loop[l].stream.session = session]_vars

\* The receiver of a new pairing is shown nothing the user chose for the
\* receiver before: "local shred" when another room is joined.
ShredIsFinal ==
    \A k \in 1..Len(images) : item[images[k].item].pairing = edits.pairings

\* The receiver never shows two images of one gallery photo.
OneImagePerPhoto ==
    \A j, k \in 1..Len(images) :
        (images[j].hash[1] # 0 /\ images[j].hash[1] = images[k].hash[1]) => j = k

\* An image gives way only to new bytes of the same photo.
ReplacedByItself ==
    [][\A k \in 1..Len(images) :
          (Len(images') >= Len(images) /\ images'[k].item # images[k].item)
              => images'[k].hash[1] = images[k].hash[1]]_vars
=============================================================================
