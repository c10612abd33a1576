----------------------------- MODULE ReceiverPage -----------------------------
(***************************************************************************)
(* The receive page after decryption: the images and the documents they    *)
(* are filed in, edits of either user, the background OCR loop of          *)
(* bg-ocr.js, and the exports that wait for it.  receivedImages is indexed *)
(* by arrival, and the OCR queue, the edits in progress and the B&W copies *)
(* refer to images by that index across their awaits.  Of the bytes only   *)
(* the hash of the file they came in, whether the card shows them, and     *)
(* whether there is text are kept; the order of pages is left out.         *)
(***************************************************************************)
EXTENDS Naturals, Sequences, FiniteSets, FiniteSetsExt, SequencesExt

CONSTANTS
  MaxFiles,   \* files that arrive
  MaxDocs,    \* MAX_COLLECTIONS_PER_SESSION
  MaxNacks,   \* MAX_NACK_RETRIES_PER_PHOTO
  MaxActs,    \* things the two users do: edit, move, discard, export, shred
  Hasty       \* cards are swapped while OCR or an edit is under way

ASSUME PageAssumption ==
  /\ {MaxFiles, MaxNacks, MaxActs} \subseteq Nat
  /\ MaxDocs \in Nat \ {0}
  /\ Hasty \in BOOLEAN

Images == 1 .. MaxFiles
Slots == 1 .. MaxFiles
Handles == 1 .. 5
None == 0
Unknown == MaxFiles + 1  \* a hash no image has

(* hash 0: the sender knows no photo of that hash.  card: it shows the bytes. *)
NoImage == [photo |-> FALSE, hash |-> 0, card |-> FALSE, text |-> FALSE, waiting |-> FALSE]
NoLoop == [pc |-> "off", at |-> None, img |-> None, file |-> FALSE]
NoExport == [pc |-> "off", imgs |-> {}, handle |-> None]

VARIABLES
  page,    \* receivedImages, documents, OCR, exports and scribe handles
  edits,   \* edits that await their pixels
  resend,  \* replacements the sender owes after a transform-nack
  spent    \* bounds used, and nacks per image

vars == <<page, edits, resend, spent>>

At(P, i) == IF i \in DOMAIN P.slots THEN P.slots[i] ELSE None
Live(P) == ToSet(P.slots) \ {None}
IndexOf(P, m) == CHOOSE i \in DOMAIN P.slots : P.slots[i] = m

Init ==
  /\ page = [slots |-> <<>>, image |-> [m \in Images |-> NoImage], made |-> 0,
             docs |-> <<>>, active |-> None, pending |-> None, preBW |-> {},
             queue |-> <<>>, loop |-> NoLoop, ahead |-> {}, processing |-> FALSE,
             current |-> None, aborted |-> FALSE, bg |-> None, claim |-> None,
             preload |-> None, waits |-> {}, exp |-> NoExport, pdf |-> None]
  /\ edits = {}
  /\ resend = <<>>
  /\ spent = [files |-> 0, acts |-> 0, nacks |-> [m \in Images |-> 0]]

-----------------------------------------------------------------------------
(* Background OCR.  An operator maps the page P to the page after the call. *)

SettleAll(P, ms) ==
  [P EXCEPT !.image = [m \in Images |-> IF m \in ms THEN [@[m] EXCEPT !.waiting = FALSE] ELSE @[m]],
            !.waits = @ \ ms]

Settle(P, m) == SettleAll(P, {m} \ {None})

(* downscaleForOcr() takes the image when it is called, if there is one. *)
IsPhoto(P, i) == At(P, i) # None /\ P.image[At(P, i)].photo

PreStarted(P, i) == {e \in P.ahead : e.at = i}

PreStart(P) ==
  IF P.queue = <<>> \/ PreStarted(P, Head(P.queue)) # {} THEN P
  ELSE [P EXCEPT !.ahead = @ \cup {[at |-> Head(P.queue), file |-> IsPhoto(P, Head(P.queue))]}]

(* The file the loop awaits once it has a handle. *)
Load(P) ==
  LET i == P.loop.at IN
  [P EXCEPT !.loop.pc = "load",
            !.loop.file = IF PreStarted(P, i) = {} THEN IsPhoto(P, i)
                          ELSE \E e \in PreStarted(P, i) : e.file]

Begin(P, i) ==
  LET Q == PreStart([P EXCEPT !.loop = [NoLoop EXCEPT !.pc = "scribe", !.at = i, !.img = At(P, i)],
                              !.current = i, !.aborted = FALSE])
  IN IF P.bg = None THEN [Q EXCEPT !.claim = P.preload, !.preload = None] ELSE Load(Q)

Due(P, i) == IsPhoto(P, i) /\ ~P.image[At(P, i)].text

(* The loop takes the next index that has an image without text, or ends. *)
Take(P) ==
  LET n == SelectInSeq(P.queue, LAMBDA i : Due(P, i))
      skipped == IF n = 0 THEN P.queue ELSE SubSeq(P.queue, 1, n - 1)
      R == [SettleAll(P, {At(P, i) : i \in ToSet(skipped)} \ {None})
              EXCEPT !.queue = SubSeq(@, Len(skipped) + 1, Len(@)),
                     !.ahead = {e \in @ : e.at \notin ToSet(skipped)}]
      Q == IF skipped = <<>> THEN R ELSE PreStart(R)
  IN IF n = 0 THEN [Q EXCEPT !.loop = NoLoop, !.ahead = {}, !.processing = FALSE]
     ELSE Begin([Q EXCEPT !.queue = Tail(@)], P.queue[n])

(* The finally of one item, by index. *)
Finish(P) == Take(Settle([P EXCEPT !.current = None], At(P, P.loop.at)))

Queue(P, i) ==
  LET m == At(P, i)
      Q == [P EXCEPT !.image[m].text = FALSE, !.image[m].waiting = TRUE,
                     !.queue = IF i \in ToSet(@) THEN @ ELSE Append(@, i)]
  IN IF ~IsPhoto(P, i) THEN P
     ELSE IF P.processing THEN Q
     ELSE Take(PreStart([Q EXCEPT !.processing = TRUE]))

(* Mutant: the promise of the image is left open. *)
CancelUnsettled(P, i) ==
  LET m == At(P, i)
      Q == [P EXCEPT !.queue = SelectSeq(@, LAMBDA j : j # i),
                     !.aborted = @ \/ P.current = i]
  IN IF m = None THEN Q ELSE [Q EXCEPT !.image[m].text = FALSE]

Cancel(P, i) ==
  LET m == At(P, i)
      Q == Settle([P EXCEPT !.queue = SelectSeq(@, LAMBDA j : j # i),
                            !.aborted = @ \/ P.current = i], m)
  IN IF m = None THEN Q ELSE [Q EXCEPT !.image[m].text = FALSE]

Restart(P, i) == Queue(Cancel(P, i), i)

Becomes(P) == page' = P /\ UNCHANGED <<edits, resend, spent>>

MayAct == spent.acts < MaxActs
OneAct == spent' = [spent EXCEPT !.acts = @ + 1]
Acts(P) == MayAct /\ OneAct /\ page' = P /\ UNCHANGED <<edits, resend>>

NewHandle == Min(Handles \ {page.bg, page.claim, page.preload, page.exp.handle, page.pdf})

(* Without the preloaded handle, or when its creation failed, the loop
   creates one. *)
LoopGetsHandle ==
  /\ page.loop.pc = "scribe"
  /\ LET P == [page EXCEPT !.bg = IF page.claim = None THEN NewHandle ELSE page.claim,
                           !.claim = None] IN
     Becomes(IF P.aborted
             THEN Finish([P EXCEPT !.ahead = @ \ PreStarted(P, P.loop.at)]) ELSE Load(P))

LoopLacksHandle ==
  /\ page.loop.pc = "scribe"
  /\ Becomes(Finish([page EXCEPT !.claim = None]))

(* The downscaled file is there and imported. *)
LoopLoads ==
  /\ page.loop.pc = "load"
  /\ LET P == [page EXCEPT !.ahead = @ \ PreStarted(page, page.loop.at)] IN
     Becomes(IF P.aborted \/ ~P.loop.file THEN Finish(P)
             ELSE PreStart([P EXCEPT !.loop.pc = "recognize"]))

(* Mutant: an edit that comes during recognize() is not looked at again. *)
LoopRecognizesAnyway ==
  /\ page.loop.pc = "recognize"
  /\ Becomes([page EXCEPT !.image[page.loop.img].text = TRUE, !.loop.pc = "clear"])

LoopRecognizes ==
  /\ page.loop.pc = "recognize"
  /\ Becomes(IF page.aborted THEN Finish(page)
             ELSE [page EXCEPT !.image[page.loop.img].text = TRUE,
                               !.loop.pc = "clear"])

(* importFiles() or recognize() throws; the handle is cleared either way. *)
LoopFails ==
  /\ page.loop.pc \in {"load", "recognize"}
  /\ Becomes([page EXCEPT !.loop.pc = "clear",
                          !.ahead = @ \ IF page.loop.pc = "load"
                                        THEN PreStarted(page, page.loop.at) ELSE {}])

(* reset() of the handle: FALSE or an error gives the handle up. *)
LoopClears ==
  /\ page.loop.pc = "clear"
  /\ \E bg \in {page.bg, None} : Becomes(Finish([page EXCEPT !.bg = bg]))

-----------------------------------------------------------------------------
(* Documents. *)

Doc(P, d) == CHOOSE k \in DOMAIN P.docs : P.docs[k].id = d
DocIds(P) == {P.docs[k].id : k \in DOMAIN P.docs}
FreshDoc(P) == Min((1 .. MaxDocs) \ DocIds(P))

CreateNew(P) ==
  IF Len(P.docs) >= MaxDocs THEN P
  ELSE [P EXCEPT !.docs = Append(@, [id |-> FreshDoc(P), imgs |-> {}, holes |-> FALSE]),
                 !.active = FreshDoc(P)]

GetActive(P) == IF P.active \in DocIds(P) THEN P ELSE CreateNew(P)

Into(P, m, d) == [P EXCEPT !.docs[Doc(P, d)].imgs = @ \cup {m}]

(* splice() takes the entry out, a deletion leaves null in its place. *)
Unfiled(docs, m, hole) ==
  [k \in DOMAIN docs |->
     IF m \in docs[k].imgs THEN [docs[k] EXCEPT !.imgs = @ \ {m}, !.holes = @ \/ hole]
     ELSE docs[k]]

Without(P, m) == [P EXCEPT !.docs = Unfiled(@, m, FALSE)]

DiscardIfEmpty(P, d) ==
  LET k == Doc(P, d) IN
  IF P.docs[k].imgs # {} THEN P
  ELSE LET docs == RemoveAt(P.docs, k) IN
       [P EXCEPT !.docs = docs, !.active = IF docs = <<>> THEN None ELSE Last(docs).id]

BatchStart == Acts(CreateNew(page))

BatchStartIfNonempty ==
  /\ page.active \in DocIds(page)
  /\ LET doc == page.docs[Doc(page, page.active)] IN doc.imgs # {} \/ doc.holes
  /\ Acts(CreateNew(page))

BatchEnd ==
  /\ page.active \in DocIds(page)
  /\ Acts(DiscardIfEmpty(page, page.active))

Move(m, d) ==
  /\ m \in Live(page) /\ d \in DocIds(page)
  /\ Acts(Into(Without(page, m), m, d))

MoveToNew(m) ==
  /\ m \in Live(page)
  /\ LET P == CreateNew(page) IN Acts(Into(Without(P, m), m, P.active))

(* One card is dropped on another of its document: their indices swap.
   Unless Hasty, nothing that refers to an index is under way. *)
Reorder(i, j) ==
  /\ {i, j} \subseteq DOMAIN page.slots /\ i # j
  /\ {At(page, i), At(page, j)} \subseteq Live(page)
  /\ \E k \in DOMAIN page.docs : {At(page, i), At(page, j)} \subseteq page.docs[k].imgs
  /\ Hasty \/ (~page.processing /\ edits = {} /\ page.preBW = {})
  /\ Acts([page EXCEPT !.slots[i] = At(page, j), !.slots[j] = At(page, i)])

(* Mutant: the deleted image stays in its document. *)
GoneUnfiled(P, i) == [Cancel(P, i) EXCEPT !.slots[i] = None]

Gone(P, i) ==
  LET m == At(P, i)
      Q == Cancel(P, i)
  IN [Q EXCEPT !.docs = Unfiled(@, m, TRUE), !.slots[i] = None]

(* doDiscard() of this user, deleteByHash() for the sender. *)
Discard(i) == At(page, i) # None /\ Acts(Gone(page, i))

-----------------------------------------------------------------------------
(* Files.  The page is connected again, and no loop of a shredded session is
   left, when one arrives. *)

Arrives ==
  /\ spent.files < MaxFiles /\ (page.processing \/ page.loop = NoLoop)
  /\ spent' = [spent EXCEPT !.files = @ + 1]
  /\ UNCHANGED <<edits, resend>>

(* replace-image: after a nack, or for a crop; the hash may be gone. *)
AnnounceResend ==
  /\ resend # <<>>
  /\ LET r == Head(resend) IN
     page' = [page EXCEPT !.pending = IF page.image[r.img].hash = r.hash THEN r.img ELSE Unknown]
  /\ resend' = Tail(resend)
  /\ UNCHANGED <<edits, spent>>

AnnounceCrop(m) ==
  /\ m \in 1 .. page.made \cup {Unknown} /\ page.pending = None
  /\ Acts([page EXCEPT !.pending = m])

Written(P, m) == [P EXCEPT !.image[m].card = FALSE]

ShowCard(P, i, m) ==
  IF At(P, i) = None THEN P ELSE [P EXCEPT !.image[At(P, i)].card = (At(P, i) = m)]

(* presentDecodedFile(): a replacement whose acknowledgement cannot be sent
   does not reach the OCR. *)
Replace(acked) ==
  /\ Arrives /\ page.pending \in Live(page)
  /\ LET m == page.pending
         i == IndexOf(page, m)
         P == ShowCard(Written([page EXCEPT !.pending = None], m), i, m)
         Q == [P EXCEPT !.image[m].hash = @ + 1]
     IN page' = IF acked THEN Restart(Q, i) ELSE Q

AddNew(isPhoto) ==
  /\ Arrives /\ page.pending \notin Live(page)
  /\ LET m == page.made + 1
         P == GetActive([page EXCEPT
                !.made = m, !.pending = None, !.slots = Append(@, m),
                !.image[m] = [NoImage EXCEPT !.photo = isPhoto, !.hash = 1, !.card = TRUE]])
     IN page' = Queue(Into(P, m, P.active), Len(P.slots))

-----------------------------------------------------------------------------
(* Edits.  Both pages' users edit: this one by the index of a card, the
   sender by transform-image.  The pixels are computed in an await. *)

Edit(op, i) == [op |-> op, at |-> i, img |-> At(page, i), hash |-> page.image[At(page, i)].hash]

(* rotate, crop, and B&W, which keeps a copy to undo it. *)
StartEdit(op, i) ==
  /\ MayAct /\ OneAct
  /\ IsPhoto(page, i)
  /\ op = "bw" => i \notin page.preBW
  /\ edits' = edits \cup {Edit(op, i)}
  /\ page' = [page EXCEPT !.preBW = IF op = "bw" THEN @ \cup {i} ELSE @]
  /\ UNCHANGED resend

EndEdit(e) ==
  /\ e \in edits /\ e.op # "replay"
  /\ page' = Restart(ShowCard(Written(page, e.img), e.at, e.img), e.at)
  /\ edits' = edits \ {e}
  /\ UNCHANGED <<resend, spent>>

UndoBW(i) ==
  /\ MayAct /\ OneAct
  /\ i \in page.preBW /\ At(page, i) # None
  /\ LET m == At(page, i) IN
     page' = Restart(ShowCard(Written([page EXCEPT !.preBW = @ \ {i}], m), i, m), i)
  /\ UNCHANGED <<edits, resend>>

(* The sender re-sends a nacked photo whole, MaxNacks times. *)
Nacked(m, hash) ==
  IF hash = page.image[m].hash /\ spent.nacks[m] < MaxNacks
  THEN Append(resend, [img |-> m, hash |-> hash]) ELSE resend

OneMoreNack(m, hash, s) ==
  IF hash = page.image[m].hash /\ s.nacks[m] < MaxNacks
  THEN [s EXCEPT !.nacks[m] = @ + 1] ELSE s

(* transform-image: an image that is gone here is nacked at once. *)
StartReplay(m) ==
  /\ MayAct /\ OneAct
  /\ m \in Live(page) /\ page.image[m].photo
  /\ edits' = edits \cup {Edit("replay", IndexOf(page, m))}
  /\ UNCHANGED <<page, resend>>

RefuseReplay(m) ==
  /\ m \in 1 .. page.made /\ (m \notin Live(page) \/ ~page.image[m].photo)
  /\ page.image[m].hash # 0
  /\ MayAct
  /\ spent' = OneMoreNack(m, page.image[m].hash, [spent EXCEPT !.acts = @ + 1])
  /\ resend' = Nacked(m, page.image[m].hash)
  /\ UNCHANGED <<page, edits>>

(* handle() after applyOps(): the bytes change, then currentData, which is
   declared nowhere, throws; the card and the OCR stay as they are. *)
EndReplay(e) ==
  /\ e \in edits /\ e.op = "replay"
  /\ page' = [Written(page, e.img) EXCEPT !.image[e.img].text = FALSE,
                                         !.preBW = @ \ {e.at}]
  /\ edits' = edits \ {e}
  /\ resend' = Nacked(e.img, e.hash)
  /\ spent' = OneMoreNack(e.img, e.hash, spent)

(* The image cannot be transformed. *)
EditFails(e) ==
  /\ e \in edits
  /\ edits' = edits \ {e}
  /\ IF e.op # "replay" THEN UNCHANGED <<resend, spent>>
     ELSE resend' = Nacked(e.img, e.hash) /\ spent' = OneMoreNack(e.img, e.hash, spent)
  /\ UNCHANGED page

-----------------------------------------------------------------------------
(* Exports. *)

(* What the loop has not got is queued image by image: the first call starts
   the loop, or finds it running, and the others add to its queue. *)
QueueAll(P, is) ==
  IF is = <<>> THEN P
  ELSE LET Q == Queue(P, Head(is))
           ms == {At(P, i) : i \in ToSet(is)}
       IN [Q EXCEPT !.queue = @ \o Tail(is),
                    !.image = [m \in Images |-> IF m \in ms THEN [@[m] EXCEPT !.waiting = TRUE]
                                                ELSE @[m]]]

(* generateOcrPdf() queues what has no text, then waits for all promises. *)
StartExport(S) ==
  /\ MayAct /\ OneAct /\ page.exp = NoExport
  /\ S # {} /\ S \subseteq {m \in Live(page) : page.image[m].photo}
  /\ LET needs == {m \in S : ~page.image[m].text}
         asked == {IndexOf(page, m) : m \in needs} \ (ToSet(page.queue) \cup {page.current})
     IN \E is \in SetToSeqs(asked) :
          LET P == QueueAll(page, is) IN
          page' = [P EXCEPT !.exp = [imgs |-> S, handle |-> None,
                                     pc |-> IF needs = {} THEN "build" ELSE "wait"],
                            !.waits = IF needs = {} THEN {}
                                      ELSE {m \in S : P.image[m].waiting}]
  /\ UNCHANGED <<edits, resend>>

WaitEnds ==
  /\ page.exp.pc = "wait" /\ page.waits = {}
  /\ Becomes([page EXCEPT !.exp.pc = "build"])

(* Mutant: the handle of the loop is taken while the loop uses it. *)
TakeScribe(P) ==
  IF P.bg # None THEN [P EXCEPT !.exp.handle = P.bg]
  ELSE IF P.preload # None THEN [P EXCEPT !.exp.handle = P.preload, !.preload = None]
  ELSE [P EXCEPT !.exp.handle = NewHandle]

AcquireScribe(P) ==
  IF P.bg # None /\ ~P.processing THEN [P EXCEPT !.exp.handle = P.bg, !.bg = None]
  ELSE IF P.preload # None THEN [P EXCEPT !.exp.handle = P.preload, !.preload = None]
  ELSE [P EXCEPT !.exp.handle = NewHandle]

Build ==
  /\ page.exp.pc = "build"
  /\ Becomes(AcquireScribe([page EXCEPT !.exp.pc = "assemble"]))

(* The PDF is assembled from cached text, or recognized anew with the same
   handle, or fails, or the user cancels; the handle is disposed of. *)
EndExport ==
  /\ page.exp.pc \in {"wait", "build", "assemble"}
  /\ Becomes([page EXCEPT !.exp = NoExport, !.waits = {}])

(* exportPdfAsOcr() of a received PDF. *)
StartPdf ==
  /\ MayAct /\ OneAct /\ page.pdf = None
  /\ \E m \in Live(page) : ~page.image[m].photo
  /\ page' = [page EXCEPT !.pdf = IF page.preload = None THEN NewHandle ELSE page.preload,
                          !.preload = None]
  /\ UNCHANGED <<edits, resend>>

EndPdf == page.pdf # None /\ Becomes([page EXCEPT !.pdf = None])

-----------------------------------------------------------------------------
(* preloadScribe() runs when a QR code is shown. *)
PreloadScribe ==
  /\ page.preload = None /\ page.slots = <<>>
  /\ Becomes([page EXCEPT !.preload = NewHandle])

(* startNewPairing(): a loop that is suspended finds its abort later. *)
Shred ==
  /\ MayAct /\ OneAct
  /\ LET P == SettleAll(page, Live(page)) IN
     page' = [P EXCEPT !.slots = <<>>, !.docs = <<>>, !.active = None, !.pending = None,
                       !.preBW = {}, !.queue = <<>>, !.current = None, !.processing = FALSE,
                       !.aborted = P.loop # NoLoop, !.bg = None, !.preload = None,
                       !.image = [m \in Images |->
                                    [P.image[m] EXCEPT !.hash = 0,
                                                       !.text = @ /\ m \notin Live(P)]]]
  /\ resend' = <<>>
  /\ UNCHANGED edits

-----------------------------------------------------------------------------
Loop ==
  LoopGetsHandle \/ LoopLacksHandle \/ LoopLoads \/ LoopRecognizes \/ LoopFails \/ LoopClears

Documents ==
  \/ BatchStart \/ BatchStartIfNonempty \/ BatchEnd
  \/ \E m \in Images : MoveToNew(m) \/ \E d \in 1 .. MaxDocs : Move(m, d)
  \/ \E i, j \in Slots : Reorder(i, j)
  \/ \E i \in Slots : Discard(i)

Files ==
  \/ AnnounceResend
  \/ \E m \in Images \cup {Unknown} : AnnounceCrop(m)
  \/ \E acked \in BOOLEAN : Replace(acked)
  \/ \E isPhoto \in BOOLEAN : AddNew(isPhoto)

Edits ==
  \/ \E i \in Slots : UndoBW(i) \/ \E op \in {"pixels", "bw"} : StartEdit(op, i)
  \/ \E e \in edits : EndEdit(e) \/ EndReplay(e) \/ EditFails(e)
  \/ \E m \in Images : StartReplay(m) \/ RefuseReplay(m)

Exports ==
  \/ \E S \in SUBSET Images : StartExport(S)
  \/ WaitEnds \/ Build \/ EndExport \/ StartPdf \/ EndPdf

Next == Loop \/ Documents \/ Files \/ Edits \/ Exports \/ PreloadScribe \/ Shred

Spec == Init /\ [][Next]_vars

(* Every await of the loop ends, and Promise.all() is noticed: weak fairness,
   with the condition that enables Loop and WaitEnds written out. *)
FairSpec ==
  /\ Spec
  /\ []<>(page.loop = NoLoop) \/ []<><<Loop>>_vars
  /\ []<>~(page.exp.pc = "wait" /\ page.waits = {}) \/ []<><<WaitEnds>>_vars

-----------------------------------------------------------------------------
Image == [photo : BOOLEAN, hash : 0 .. MaxFiles, card : BOOLEAN, text : BOOLEAN,
          waiting : BOOLEAN]

(* Types; the loop works on an index exactly while a loop is running, and
   what the page counts as its loop has been started. *)
TypeOK ==
  /\ page.image \in [Images -> Image]
  /\ ToSet(page.slots) \subseteq 0 .. page.made
  /\ Len(page.docs) <= MaxDocs /\ page.active \in DocIds(page) \cup {None}
  /\ (page.active = None) = (page.docs = <<>>)
  /\ IsInjective(page.queue) /\ ToSet(page.queue) \subseteq Slots
  /\ page.loop.pc \in {"off", "scribe", "load", "recognize", "clear"}
  /\ page.processing => page.current = page.loop.at /\ page.loop # NoLoop
  /\ page.queue # <<>> => page.processing
  /\ {page.bg, page.claim, page.preload, page.pdf} \subseteq Handles \cup {None}
  /\ page.waits \subseteq page.exp.imgs
  /\ spent.nacks \in [Images -> 0 .. MaxNacks]

(* What an export of all documents contains (getAllImages() of
   collections.js): whatever is moved, deleted, discarded or ends a batch,
   every image the page holds is in exactly one document and no document holds
   an image that is gone. *)
Filed ==
  /\ \A m \in Live(page) : Cardinality({k \in DOMAIN page.docs : m \in page.docs[k].imgs}) = 1
  /\ \A k \in DOMAIN page.docs : page.docs[k].imgs \subseteq Live(page)

(* A discarded, deleted or shredded image keeps no recognized text, even if
   it was being recognized at that moment. *)
GoneHasNoText ==
  \A m \in Images \ Live(page) : ~page.image[m].text

(* "two concurrent claimers never both think they own the same handle": the
   loop, the preload slot and the exports never share a scribe handle. *)
HandleHasOneOwner ==
  LET held == <<page.bg, page.claim, page.preload, page.exp.handle, page.pdf>> IN
  \A a, b \in DOMAIN held : a # b /\ held[a] # None => held[a] # held[b]

(* An export that waits for the background OCR goes on without its timer:
   every promise it waits for is settled, whatever is edited, replaced,
   discarded or shredded meanwhile. *)
ExportsGoOn == page.exp.pc = "wait" ~> page.exp.pc # "wait"

(* "Find image by oldHash, replay transforms, update image, restart OCR": the
   card of an image shows the bytes that the exports use. *)
CardShowsBytes == \A m \in Live(page) : page.image[m].card

=============================================================================
