-------------------------- MODULE ReceiverPageProofs --------------------------
(***************************************************************************)
(* What ReceiverPage keeps true of the receive page, for any number of     *)
(* files, documents, nacks and edits: every image is filed in exactly one  *)
(* document, an OCR handle has one owner, and what is gone keeps no text.  *)
(* First what a call of each operator does to a page, then the invariants. *)
(***************************************************************************)
EXTENDS ReceiverPage, FiniteSetTheorems, SequenceTheorems, WellFoundedInduction, TLAPS

Fields == {"slots", "image", "made", "docs", "active", "pending", "preBW", "queue", "loop",
           "ahead", "processing", "current", "aborted", "bg", "claim", "preload", "waits",
           "exp", "pdf"}

AnImage == [photo : BOOLEAN, hash : Nat, card : BOOLEAN, text : BOOLEAN, waiting : BOOLEAN]
ADoc == [id : 1 .. MaxDocs, imgs : SUBSET Images, holes : BOOLEAN]
Owned == Handles \cup {None}

IsPage(P) ==
  /\ DOMAIN P = Fields
  /\ P.image \in [Images -> AnImage]
  /\ P.slots \in Seq(Nat) /\ P.made \in Nat
  /\ P.docs \in Seq(ADoc) /\ Len(P.docs) <= MaxDocs
  /\ DOMAIN P.loop = {"pc", "at", "img", "file"} /\ DOMAIN P.exp = {"pc", "imgs", "handle"}
  /\ P.processing \in BOOLEAN /\ P.aborted \in BOOLEAN
  /\ {P.bg, P.claim, P.preload, P.exp.handle, P.pdf} \subseteq Owned

\* No two of the five places hold one handle.
OneOwner(P) ==
  LET held == <<P.bg, P.claim, P.preload, P.exp.handle, P.pdf>> IN
  \A a, b \in DOMAIN held : a # b /\ held[a] # None => held[a] # held[b]

SameOwners(P, Q) ==
  Q.bg = P.bg /\ Q.claim = P.claim /\ Q.preload = P.preload /\ Q.exp = P.exp /\ Q.pdf = P.pdf

SameFiling(P, Q) ==
  Q.slots = P.slots /\ Q.made = P.made /\ Q.docs = P.docs /\ Q.active = P.active

SameLoop(P, Q) ==
  /\ Q.loop = P.loop /\ Q.current = P.current
  /\ Q.processing = P.processing /\ Q.aborted = P.aborted

\* An image of Q has text only if it had it in P.
TextOnlyLost(P, Q) == \A m \in Images : Q.image[m].text => P.image[m].text

\* What a call into the background OCR may do to a page.
Follows(P, Q) ==
  /\ IsPage(Q) /\ SameFiling(P, Q) /\ TextOnlyLost(P, Q)
  /\ OneOwner(P) => OneOwner(Q)

-----------------------------------------------------------------------------
(* Least elements, and the first entry of the queue that is due. *)

LEMMA LeastOf ==
  ASSUME NEW I \in SUBSET Nat, I # {}
  PROVE  Min(I) \in I
<1>1. PICK x \in I : \A y \in I : ~(<<y, x>> \in OpToRel(<, Nat))
  BY NatLessThanWellFounded, WFMin
<1>2. \A a, b \in Nat : a < b => <<a, b>> \in OpToRel(<, Nat)
  BY Zenon DEF OpToRel
<1>3. \A y \in I : ~(y < x)
  BY <1>1, <1>2
<1>4. \A y \in I : x <= y
  BY <1>3
<1> QED
  BY <1>1, <1>4 DEF Min

LEMMA FirstDue ==
  ASSUME NEW P, NEW n, n = SelectInSeq(P.queue, LAMBDA i : Due(P, i)), n # 0
  PROVE  n \in Nat /\ Due(P, P.queue[n])
<1> DEFINE I == {i \in 1 .. Len(P.queue) : Due(P, P.queue[i])}
<1>1. n = IF I # {} THEN Min(I) ELSE 0
  BY Zenon DEF SelectInSeq
<1>2. I \in SUBSET Nat
  OBVIOUS
<1> HIDE DEF I
<1>3. I # {} /\ n = Min(I)
  BY <1>1
<1>4. n \in I
  BY <1>2, <1>3, LeastOf
<1> QED
  BY <1>2, <1>4 DEF I

(* Four handles never use up the five. *)
LEMMA FreeHandle ==
  ASSUME NEW a, NEW b, NEW c, NEW d
  PROVE  Min(Handles \ {a, b, c, d, None}) \in Handles \ {a, b, c, d, None}
<1> DEFINE F == Handles \ {a, b, c, d, None}
<1>1. F \in SUBSET Nat
  BY DEF Handles
<1>2. F # {}
  <2>1. CASE 1 \in F \/ 2 \in F
    BY <2>1
  <2>2. CASE 1 \notin F /\ 2 \notin F
    BY <2>2 DEF Handles, None
  <2> QED
    BY <2>1, <2>2
<1> HIDE DEF F
<1> QED
  BY <1>1, <1>2, LeastOf DEF F

-----------------------------------------------------------------------------
(* The operators of the background OCR. *)

LEMMA FollowsSelf ==
  ASSUME NEW P, IsPage(P)
  PROVE  Follows(P, P)
<1> QED
  BY DEF Follows, SameFiling, TextOnlyLost

LEMMA FollowsOn ==
  ASSUME NEW P, NEW Q, NEW R, Follows(P, Q), Follows(Q, R)
  PROVE  Follows(P, R)
<1> QED
  BY DEF Follows, SameFiling, TextOnlyLost

LEMMA OwnersAlone ==
  ASSUME NEW P, NEW Q, SameOwners(P, Q), OneOwner(P)
  PROVE  OneOwner(Q)
<1> QED
  BY DEF SameOwners, OneOwner

(* A step that touches neither files, nor owners, and adds no text. *)
LEMMA FollowsIf ==
  ASSUME NEW P, NEW Q, IsPage(P), DOMAIN Q = Fields, DOMAIN Q.loop = DOMAIN P.loop,
         Q.image \in [Images -> AnImage], Q.processing \in BOOLEAN, Q.aborted \in BOOLEAN,
         SameFiling(P, Q), SameOwners(P, Q), TextOnlyLost(P, Q)
  PROVE  Follows(P, Q)
<1>1. IsPage(Q)
  BY DEF IsPage, SameFiling, SameOwners
<1> QED
  BY <1>1, OwnersAlone DEF Follows

LEMMA SettleAllKeeps ==
  ASSUME NEW P, IsPage(P), NEW ms
  PROVE  /\ Follows(P, SettleAll(P, ms)) /\ SameLoop(P, SettleAll(P, ms))
         /\ SameOwners(P, SettleAll(P, ms))
<1> DEFINE Q == SettleAll(P, ms)
<1>1. DOMAIN P = Fields
  BY DEF IsPage
<1>2. DOMAIN Q = Fields /\ SameFiling(P, Q) /\ SameOwners(P, Q) /\ SameLoop(P, Q)
  BY <1>1 DEF SettleAll, Fields, SameFiling, SameOwners, SameLoop
<1>3. Q.image = [m \in Images |-> IF m \in ms THEN [P.image[m] EXCEPT !.waiting = FALSE]
                                  ELSE P.image[m]]
  BY <1>1 DEF SettleAll, Fields
<1> HIDE DEF Q
<1>4. ASSUME NEW m \in Images
      PROVE  Q.image[m] \in AnImage /\ (Q.image[m].text => P.image[m].text)
  <2>1. P.image[m] \in AnImage
    BY DEF IsPage
  <2>2. Q.image[m] = P.image[m] \/ Q.image[m] = [P.image[m] EXCEPT !.waiting = FALSE]
    BY <1>3
  <2> QED
    BY <2>1, <2>2 DEF AnImage
<1>5. Q.image \in [Images -> AnImage] /\ TextOnlyLost(P, Q)
  BY <1>3, <1>4 DEF TextOnlyLost
<1>6. Follows(P, Q)
  BY <1>2, <1>5, FollowsIf DEF SameLoop, IsPage
<1> QED
  BY <1>2, <1>6 DEF Q

LEMMA PreStartKeeps ==
  ASSUME NEW P, IsPage(P)
  PROVE  /\ Follows(P, PreStart(P)) /\ SameLoop(P, PreStart(P)) /\ SameOwners(P, PreStart(P))
         /\ PreStart(P).image = P.image
<1> DEFINE Q == PreStart(P)
<1>1. DOMAIN P = Fields
  BY DEF IsPage
<1>2. DOMAIN Q = Fields /\ SameFiling(P, Q) /\ SameOwners(P, Q) /\ SameLoop(P, Q)
      /\ Q.image = P.image
  BY <1>1 DEF PreStart, Fields, SameFiling, SameOwners, SameLoop
<1> HIDE DEF Q
<1>3. Follows(P, Q)
  BY <1>2, FollowsIf DEF SameLoop, IsPage, TextOnlyLost
<1> QED
  BY <1>2, <1>3 DEF Q

(* Load() only moves the loop on: it stays at its item. *)
LEMMA LoadKeeps ==
  ASSUME NEW P, IsPage(P)
  PROVE  /\ Follows(P, Load(P)) /\ SameOwners(P, Load(P))
         /\ Load(P).current = P.current /\ Load(P).aborted = P.aborted
         /\ Load(P).processing = P.processing /\ Load(P).loop.pc = "load"
         /\ Load(P).loop.at = P.loop.at /\ Load(P).loop.img = P.loop.img
<1> DEFINE Q == Load(P)
<1>1. DOMAIN P = Fields /\ DOMAIN P.loop = {"pc", "at", "img", "file"}
  BY DEF IsPage
<1> DEFINE file == IF PreStarted(P, P.loop.at) = {} THEN IsPhoto(P, P.loop.at)
                   ELSE \E e \in PreStarted(P, P.loop.at) : e.file
<1>2. Q = [P EXCEPT !.loop.pc = "load", !.loop.file = file]
  BY DEF Load
<1> HIDE DEF Q, file
<1>3. DOMAIN Q = Fields /\ Q.loop = [P.loop EXCEPT !.pc = "load", !.file = file]
  BY <1>1, <1>2 DEF Fields
<1>4. DOMAIN Q.loop = DOMAIN P.loop /\ Q.loop.pc = "load" /\ Q.loop.at = P.loop.at
      /\ Q.loop.img = P.loop.img
  BY <1>1, <1>3
<1>5. SameFiling(P, Q) /\ SameOwners(P, Q) /\ Q.image = P.image /\ Q.current = P.current
      /\ Q.aborted = P.aborted /\ Q.processing = P.processing
  BY <1>1, <1>2 DEF Fields, SameFiling, SameOwners
<1>6. Follows(P, Q)
  BY <1>3, <1>4, <1>5, FollowsIf DEF IsPage, TextOnlyLost
<1> QED
  BY <1>4, <1>5, <1>6 DEF Q

(* What holds of the loop between two steps of the page: while it works on an
   image that nobody took away, it is the current item and the image is still
   at its index; and a loop that the page does not count has no image left. *)
OnItsImage(P) ==
  P.loop.pc \in {"scribe", "load", "recognize"} /\ ~P.aborted =>
    /\ P.processing /\ P.current = P.loop.at
    /\ P.loop.img # None /\ At(P, P.loop.at) = P.loop.img

LeftBehind(P) == ~P.processing /\ P.loop # NoLoop => P.slots = <<>>

LoopGood(P) == OnItsImage(P) /\ LeftBehind(P)

LEMMA LoopStays ==
  ASSUME NEW P, NEW Q, Q.slots = P.slots, SameLoop(P, Q), LoopGood(P)
  PROVE  LoopGood(Q)
<1> QED
  BY DEF SameLoop, LoopGood, OnItsImage, LeftBehind, At

LEMMA BeginKeeps ==
  ASSUME NEW P, NEW i, IsPage(P)
  PROVE  /\ Follows(P, Begin(P, i))
         /\ At(P, i) # None /\ P.processing => LoopGood(Begin(P, i))
<1> DEFINE loop == [NoLoop EXCEPT !.pc = "scribe", !.at = i, !.img = At(P, i)]
           P1 == [P EXCEPT !.loop = loop, !.current = i, !.aborted = FALSE]
           Q == PreStart(P1)
           R == [Q EXCEPT !.claim = P.preload, !.preload = None]
<1>1. DOMAIN P = Fields
  BY DEF IsPage
<1>2. loop.pc = "scribe" /\ loop.at = i /\ loop.img = At(P, i)
      /\ DOMAIN loop = {"pc", "at", "img", "file"}
  BY DEF NoLoop
<1> HIDE DEF loop
<1>3. DOMAIN P1 = Fields /\ SameFiling(P, P1) /\ SameOwners(P, P1) /\ P1.image = P.image
      /\ P1.preload = P.preload
  BY <1>1 DEF Fields, SameFiling, SameOwners
<1>4. P1.loop = loop /\ P1.current = i /\ P1.aborted = FALSE /\ P1.processing = P.processing
  BY <1>1 DEF Fields
<1> HIDE DEF P1
<1>5. Follows(P, P1) /\ IsPage(P1)
  <2>1. DOMAIN P1.loop = DOMAIN P.loop /\ P1.processing \in BOOLEAN /\ P1.aborted \in BOOLEAN
        /\ P1.image \in [Images -> AnImage]
    BY <1>2, <1>3, <1>4 DEF IsPage
  <2>2. TextOnlyLost(P, P1)
    BY <1>3 DEF TextOnlyLost
  <2>3. Follows(P, P1)
    BY <1>3, <2>1, <2>2, FollowsIf
  <2> QED
    BY <2>3 DEF Follows
<1>6. Follows(P1, Q) /\ SameLoop(P1, Q) /\ SameOwners(P1, Q)
  BY <1>5, PreStartKeeps
<1> HIDE DEF Q
<1>7. Follows(P, Q) /\ IsPage(Q)
  BY <1>5, <1>6, FollowsOn DEF Follows
<1>8. Begin(P, i) = IF P.bg = None THEN R ELSE Load(Q)
  BY DEF Begin, Q, P1, loop
<1>9. ASSUME NEW S, S.slots = P.slots, S.loop.pc \in {"scribe", "load"}, S.loop.at = i,
             S.loop.img = At(P, i), S.current = i, S.processing = P.processing
      PROVE  At(P, i) # None /\ P.processing => LoopGood(S)
  BY <1>9 DEF LoopGood, OnItsImage, LeftBehind, At
<1>10. CASE P.bg # None
  <2>1. Follows(P, Load(Q)) /\ Load(Q).slots = P.slots
    BY <1>7, LoadKeeps, FollowsOn DEF Follows, SameFiling
  <2>2. At(P, i) # None /\ P.processing => LoopGood(Load(Q))
    <3>1. /\ Q.loop.at = i /\ Q.loop.img = At(P, i) /\ Q.current = i
          /\ Q.processing = P.processing
      BY <1>2, <1>4, <1>6 DEF SameLoop
    <3>2. /\ Load(Q).loop.pc = "load" /\ Load(Q).loop.at = i /\ Load(Q).loop.img = At(P, i)
          /\ Load(Q).current = i /\ Load(Q).processing = P.processing
      BY <1>7, <3>1, LoadKeeps
    <3> QED
      BY <1>9, <2>1, <3>2
  <2>3. Begin(P, i) = Load(Q)
    BY <1>8, <1>10
  <2> QED
    BY <2>1, <2>2, <2>3
<1>11. CASE P.bg = None
  <2>1. DOMAIN Q = Fields
    BY <1>7 DEF IsPage
  <2>2. DOMAIN R = Fields /\ SameFiling(Q, R) /\ SameLoop(Q, R) /\ R.image = Q.image
    BY <2>1 DEF Fields, SameFiling, SameLoop
  <2>3. R.claim = P.preload /\ R.preload = None /\ R.bg = Q.bg /\ R.pdf = Q.pdf /\ R.exp = Q.exp
    BY <2>1 DEF Fields
  <2> HIDE DEF R
  <2>4. Q.bg = P.bg /\ Q.preload = P.preload /\ Q.pdf = P.pdf /\ Q.exp = P.exp
    BY <1>3, <1>6 DEF SameOwners
  <2>5. IsPage(R)
    BY <1>7, <2>2, <2>3, <2>4 DEF IsPage, SameFiling, SameLoop, Owned
  <2>6. OneOwner(P) => OneOwner(R)
    BY <1>11, <2>3, <2>4 DEF OneOwner
  <2>7. Follows(P, R)
    BY <1>7, <2>2, <2>5, <2>6 DEF Follows, SameFiling, TextOnlyLost
  <2>8. R.slots = P.slots
    BY <2>7 DEF Follows, SameFiling
  <2>9. At(P, i) # None /\ P.processing => LoopGood(R)
    BY <1>2, <1>4, <1>6, <1>9, <2>2, <2>8 DEF SameLoop
  <2> QED
    BY <1>8, <1>11, <2>7, <2>9
<1> QED
  BY <1>10, <1>11

LEMMA TakeKeeps ==
  ASSUME NEW P, IsPage(P)
  PROVE  /\ Follows(P, Take(P))
         /\ P.processing \/ P.slots = <<>> => LoopGood(Take(P))
<1> DEFINE n == SelectInSeq(P.queue, LAMBDA i : Due(P, i))
           skipped == IF n = 0 THEN P.queue ELSE SubSeq(P.queue, 1, n - 1)
           A == SettleAll(P, {At(P, i) : i \in ToSet(skipped)} \ {None})
           R == [A EXCEPT !.queue = SubSeq(@, Len(skipped) + 1, Len(@)),
                          !.ahead = {e \in @ : e.at \notin ToSet(skipped)}]
           Q == IF skipped = <<>> THEN R ELSE PreStart(R)
           E == [Q EXCEPT !.loop = NoLoop, !.ahead = {}, !.processing = FALSE]
           B == [Q EXCEPT !.queue = Tail(@)]
<1>1. Take(P) = IF n = 0 THEN E ELSE Begin(B, P.queue[n])
  BY DEF Take
<1>2. n # 0 => Due(P, P.queue[n])
  BY FirstDue
<1> HIDE DEF n, skipped
<1>3. Follows(P, A) /\ SameLoop(P, A) /\ IsPage(A)
  BY SettleAllKeeps DEF Follows
<1> HIDE DEF A
<1>4. DOMAIN R = Fields /\ SameFiling(A, R) /\ SameOwners(A, R) /\ SameLoop(A, R)
      /\ R.image = A.image
  <2>1. DOMAIN A = Fields
    BY <1>3 DEF IsPage
  <2> QED
    BY <2>1 DEF Fields, SameFiling, SameOwners, SameLoop
<1> HIDE DEF R
<1>5. Follows(P, R) /\ SameLoop(P, R) /\ IsPage(R)
  <2>1. Follows(A, R)
    BY <1>3, <1>4, FollowsIf DEF SameLoop, IsPage, TextOnlyLost
  <2> QED
    BY <1>3, <1>4, <2>1, FollowsOn DEF Follows, SameLoop
<1>6. Follows(P, Q) /\ SameLoop(P, Q) /\ IsPage(Q)
  BY <1>5, PreStartKeeps, FollowsOn DEF Follows, SameLoop
<1> HIDE DEF Q
<1>7. DOMAIN Q = Fields
  BY <1>6 DEF IsPage
<1>8. Q.slots = P.slots
  BY <1>6 DEF Follows, SameFiling
<1>9. CASE n = 0
  <2>1. DOMAIN E = Fields /\ SameFiling(Q, E) /\ SameOwners(Q, E) /\ E.image = Q.image
        /\ E.loop = NoLoop /\ E.processing = FALSE /\ E.aborted = Q.aborted
    BY <1>7 DEF Fields, SameFiling, SameOwners
  <2> HIDE DEF E
  <2>2. DOMAIN E.loop = DOMAIN Q.loop /\ E.aborted \in BOOLEAN /\ E.image \in [Images -> AnImage]
    BY <1>6, <2>1 DEF IsPage, NoLoop
  <2>3. Follows(Q, E)
    BY <1>6, <2>1, <2>2, FollowsIf DEF TextOnlyLost
  <2>4. LoopGood(E)
    BY <2>1 DEF LoopGood, OnItsImage, LeftBehind, NoLoop
  <2> QED
    BY <1>1, <1>6, <1>9, <2>3, <2>4, FollowsOn
<1>10. CASE n # 0
  <2>1. DOMAIN B = Fields /\ SameFiling(Q, B) /\ SameOwners(Q, B) /\ SameLoop(Q, B)
        /\ B.image = Q.image
    BY <1>7 DEF Fields, SameFiling, SameOwners, SameLoop
  <2> HIDE DEF B
  <2>2. Follows(Q, B)
    BY <1>6, <2>1, FollowsIf DEF TextOnlyLost, SameLoop, IsPage
  <2>3. IsPage(B) /\ B.slots = P.slots /\ B.processing = P.processing
    BY <1>6, <1>8, <2>1, <2>2 DEF Follows, SameFiling, SameLoop
  <2>4. Follows(P, Begin(B, P.queue[n]))
    BY <1>6, <2>2, <2>3, BeginKeeps, FollowsOn
  <2>5. At(P, P.queue[n]) # None /\ At(B, P.queue[n]) = At(P, P.queue[n])
    BY <1>2, <1>10, <2>3 DEF Due, IsPhoto, At
  <2>6. P.slots # <<>>
    BY <2>5 DEF At
  <2>7. P.processing => LoopGood(Begin(B, P.queue[n]))
    BY <2>3, <2>5, BeginKeeps
  <2> QED
    BY <1>1, <1>10, <2>4, <2>6, <2>7
<1> QED
  BY <1>9, <1>10

LEMMA FinishKeeps ==
  ASSUME NEW P, IsPage(P)
  PROVE  /\ Follows(P, Finish(P))
         /\ P.processing \/ P.slots = <<>> => LoopGood(Finish(P))
<1> DEFINE A == [P EXCEPT !.current = None]
           m == At(P, P.loop.at)
           B == Settle(A, m)
<1>1. Finish(P) = Take(B)
  BY DEF Finish
<1>2. DOMAIN P = Fields
  BY DEF IsPage
<1>3. DOMAIN A = Fields /\ SameFiling(P, A) /\ SameOwners(P, A) /\ A.image = P.image
      /\ A.loop = P.loop /\ A.processing = P.processing /\ A.aborted = P.aborted
  BY <1>2 DEF Fields, SameFiling, SameOwners
<1> HIDE DEF A
<1>4. Follows(P, A) /\ IsPage(A)
  BY <1>3, FollowsIf DEF IsPage, TextOnlyLost, Follows
<1>5. Follows(A, B) /\ IsPage(B) /\ B.processing = P.processing
  BY <1>3, <1>4, SettleAllKeeps DEF Settle, Follows, SameLoop
<1> HIDE DEF B
<1>6. Follows(P, B)
  BY <1>4, <1>5, FollowsOn
<1>7. B.slots = P.slots
  BY <1>6 DEF Follows, SameFiling
<1> QED
  BY <1>1, <1>5, <1>6, <1>7, TakeKeeps, FollowsOn

LEMMA QueueKeeps ==
  ASSUME NEW P, NEW i, IsPage(P)
  PROVE  /\ Follows(P, Queue(P, i))
         /\ LoopGood(P) => LoopGood(Queue(P, i))
<1> DEFINE m == At(P, i)
           q == IF i \in ToSet(P.queue) THEN P.queue ELSE Append(P.queue, i)
           Q == [P EXCEPT !.image[m].text = FALSE, !.image[m].waiting = TRUE, !.queue = q]
           R == [Q EXCEPT !.processing = TRUE]
<1>1. DOMAIN P = Fields
  BY DEF IsPage
<1>2. Queue(P, i) = IF ~IsPhoto(P, i) THEN P ELSE IF P.processing THEN Q ELSE Take(PreStart(R))
  BY <1>1 DEF Queue, Fields
<1> HIDE DEF q, m
<1>3. DOMAIN Q = Fields /\ SameFiling(P, Q) /\ SameOwners(P, Q) /\ SameLoop(P, Q)
      /\ Q.image = [P.image EXCEPT ![m] = [P.image[m] EXCEPT !.text = FALSE, !.waiting = TRUE]]
  BY <1>1 DEF Fields, SameFiling, SameOwners, SameLoop
<1> HIDE DEF Q
<1>4. ASSUME NEW k \in Images
      PROVE  Q.image[k] \in AnImage /\ (Q.image[k].text => P.image[k].text)
  <2>1. P.image[k] \in AnImage
    BY DEF IsPage
  <2>2. Q.image[k] = P.image[k] \/ Q.image[k] = [P.image[k] EXCEPT !.text = FALSE, !.waiting = TRUE]
    BY <1>3 DEF IsPage
  <2> QED
    BY <2>1, <2>2 DEF AnImage
<1>5. Q.image \in [Images -> AnImage] /\ TextOnlyLost(P, Q)
  BY <1>3, <1>4 DEF IsPage, TextOnlyLost
<1>6. Follows(P, Q) /\ IsPage(Q)
  BY <1>3, <1>5, FollowsIf DEF SameLoop, IsPage, Follows
<1>7. CASE ~IsPhoto(P, i)
  BY <1>2, <1>7, FollowsSelf
<1>8. CASE IsPhoto(P, i) /\ P.processing
  BY <1>2, <1>3, <1>6, <1>8, LoopStays DEF SameFiling
<1>9. CASE IsPhoto(P, i) /\ ~P.processing
  <2>1. DOMAIN R = Fields /\ SameFiling(Q, R) /\ SameOwners(Q, R) /\ R.image = Q.image
        /\ R.processing = TRUE /\ R.loop = Q.loop /\ R.aborted = Q.aborted
    BY <1>3 DEF Fields, SameFiling, SameOwners
  <2> HIDE DEF R
  <2>2. Follows(Q, R) /\ IsPage(R)
    BY <1>6, <2>1, FollowsIf DEF TextOnlyLost, IsPage, Follows
  <2>3. Follows(R, PreStart(R)) /\ IsPage(PreStart(R)) /\ PreStart(R).processing
    BY <2>1, <2>2, PreStartKeeps DEF Follows, SameLoop
  <2>4. Follows(PreStart(R), Take(PreStart(R))) /\ LoopGood(Take(PreStart(R)))
    BY <2>3, TakeKeeps
  <2>5. Follows(P, Take(PreStart(R)))
    BY <1>6, <2>2, <2>3, <2>4, FollowsOn
  <2> QED
    BY <1>2, <1>9, <2>4, <2>5
<1> QED
  BY <1>7, <1>8, <1>9

(* cancel(): besides what a call into the background OCR may do, it aborts the
   current item if it is the one, and its image has no text. *)
LEMMA CancelKeeps ==
  ASSUME NEW P, NEW i, IsPage(P)
  PROVE  LET C == Cancel(P, i) IN
         /\ Follows(P, C) /\ SameOwners(P, C)
         /\ C.loop = P.loop /\ C.current = P.current /\ C.processing = P.processing
         /\ C.aborted = (P.aborted \/ P.current = i)
         /\ At(P, i) \in Images => ~C.image[At(P, i)].text
         /\ LoopGood(P) => LoopGood(C)
<1> DEFINE m == At(P, i)
           q == SelectSeq(P.queue, LAMBDA j : j # i)
           A == [P EXCEPT !.queue = q, !.aborted = P.aborted \/ P.current = i]
           B == Settle(A, m)
           C == IF m = None THEN B ELSE [B EXCEPT !.image[m].text = FALSE]
<1>1. DOMAIN P = Fields
  BY DEF IsPage
<1>2. Cancel(P, i) = C
  BY <1>1 DEF Cancel, Fields
<1> HIDE DEF q
<1>3. DOMAIN A = Fields /\ SameFiling(P, A) /\ SameOwners(P, A) /\ A.image = P.image
      /\ A.loop = P.loop /\ A.current = P.current /\ A.processing = P.processing
      /\ A.aborted = (P.aborted \/ P.current = i)
  BY <1>1 DEF Fields, SameFiling, SameOwners
<1> HIDE DEF A
<1>4. Follows(P, A) /\ IsPage(A)
  <2>1. A.image \in [Images -> AnImage] /\ A.processing \in BOOLEAN /\ A.aborted \in BOOLEAN
        /\ DOMAIN A.loop = DOMAIN P.loop
    BY <1>3 DEF IsPage
  <2>2. TextOnlyLost(P, A)
    BY <1>3 DEF TextOnlyLost
  <2>3. Follows(P, A)
    BY <1>3, <2>1, <2>2, FollowsIf
  <2> QED
    BY <2>3 DEF Follows
<1>5. Follows(A, B) /\ IsPage(B) /\ SameLoop(A, B) /\ SameOwners(A, B)
  BY <1>4, SettleAllKeeps DEF Settle, Follows
<1> HIDE DEF B, m
<1>6. DOMAIN B = Fields
  BY <1>5 DEF IsPage
<1>7. DOMAIN C = Fields /\ SameFiling(B, C) /\ SameOwners(B, C) /\ SameLoop(B, C)
      /\ C.image = IF m = None THEN B.image
                   ELSE [B.image EXCEPT ![m] = [B.image[m] EXCEPT !.text = FALSE]]
  BY <1>6 DEF Fields, SameFiling, SameOwners, SameLoop
<1> HIDE DEF C
<1>8. ASSUME NEW k \in Images
      PROVE  C.image[k] \in AnImage /\ (C.image[k].text => B.image[k].text)
             /\ (k = m => ~C.image[k].text)
  <2>1. B.image[k] \in AnImage
    BY <1>5 DEF IsPage
  <2>2. DOMAIN B.image = Images /\ k # None
    BY <1>5 DEF IsPage, Images, None
  <2>3. CASE k = m
    <3>1. C.image[k] = [B.image[k] EXCEPT !.text = FALSE]
      BY <1>7, <2>2, <2>3
    <3> QED
      BY <2>1, <3>1 DEF AnImage
  <2>4. CASE k # m
    <3>1. C.image[k] = B.image[k]
      BY <1>7, <2>2, <2>4
    <3> QED
      BY <2>1, <2>4, <3>1 DEF AnImage
  <2> QED
    BY <2>3, <2>4
<1>9. C.image \in [Images -> AnImage] /\ TextOnlyLost(B, C)
  BY <1>5, <1>7, <1>8 DEF IsPage, TextOnlyLost
<1>10. Follows(B, C)
  BY <1>5, <1>7, <1>9, FollowsIf DEF SameLoop, IsPage
<1>11. Follows(P, C) /\ SameOwners(P, C)
  BY <1>3, <1>4, <1>5, <1>7, <1>10, FollowsOn DEF SameOwners
<1>12. C.loop = P.loop /\ C.current = P.current /\ C.processing = P.processing
       /\ C.aborted = (P.aborted \/ P.current = i)
  BY <1>3, <1>5, <1>7 DEF SameLoop
<1>13. LoopGood(P) => LoopGood(C)
  BY <1>11, <1>12 DEF Follows, SameFiling, LoopGood, OnItsImage, LeftBehind, At
<1> QED
  BY <1>2, <1>8, <1>11, <1>12, <1>13 DEF m

LEMMA RestartKeeps ==
  ASSUME NEW P, NEW i, IsPage(P)
  PROVE  /\ Follows(P, Restart(P, i))
         /\ LoopGood(P) => LoopGood(Restart(P, i))
<1>1. Follows(P, Cancel(P, i)) /\ IsPage(Cancel(P, i)) /\ (LoopGood(P) => LoopGood(Cancel(P, i)))
  BY CancelKeeps DEF Follows
<1> QED
  BY <1>1, QueueKeeps, FollowsOn DEF Restart

LEMMA QueueAllKeeps ==
  ASSUME NEW P, NEW is, IsPage(P)
  PROVE  /\ Follows(P, QueueAll(P, is))
         /\ LoopGood(P) => LoopGood(QueueAll(P, is))
<1> DEFINE Q == Queue(P, Head(is))
           ms == {At(P, i) : i \in ToSet(is)}
           q == Q.queue \o Tail(is)
           image == [m \in Images |-> IF m \in ms THEN [Q.image[m] EXCEPT !.waiting = TRUE]
                                      ELSE Q.image[m]]
           R == [Q EXCEPT !.queue = q, !.image = image]
<1>1. Follows(P, Q) /\ IsPage(Q) /\ (LoopGood(P) => LoopGood(Q))
  BY QueueKeeps DEF Follows
<1>2. DOMAIN Q = Fields
  BY <1>1 DEF IsPage
<1>3. QueueAll(P, is) = IF is = <<>> THEN P ELSE R
  BY <1>2 DEF QueueAll, Fields
<1> HIDE DEF Q, q
<1>4. ASSUME NEW m \in Images
      PROVE  image[m] \in AnImage /\ (image[m].text => Q.image[m].text)
  <2>1. Q.image[m] \in AnImage
    BY <1>1 DEF IsPage
  <2>2. image[m] = Q.image[m] \/ image[m] = [Q.image[m] EXCEPT !.waiting = TRUE]
    OBVIOUS
  <2> QED
    BY <2>1, <2>2 DEF AnImage
<1>5. image \in [Images -> AnImage]
  BY <1>4
<1> HIDE DEF image
<1>6. DOMAIN R = Fields /\ SameFiling(Q, R) /\ SameOwners(Q, R) /\ SameLoop(Q, R)
      /\ R.image = image
  BY <1>2 DEF Fields, SameFiling, SameOwners, SameLoop
<1> HIDE DEF R
<1>7. Follows(Q, R)
  BY <1>1, <1>4, <1>5, <1>6, FollowsIf DEF SameLoop, IsPage, TextOnlyLost
<1>8. Follows(P, R) /\ (LoopGood(P) => LoopGood(R))
  BY <1>1, <1>6, <1>7, FollowsOn, LoopStays DEF SameFiling
<1> QED
  BY <1>3, <1>8, FollowsSelf

-----------------------------------------------------------------------------
(* The indices of the images. *)

Injects(s) == \A i, j \in DOMAIN s : s[i] = s[j] /\ s[i] # None => i = j

LEMMA AboutSeq ==
  ASSUME NEW S, NEW s \in Seq(S)
  PROVE  Len(s) \in Nat /\ DOMAIN s = 1 .. Len(s) /\ \A i \in 1 .. Len(s) : s[i] \in S
<1> QED
  BY LenProperties, ElementOfSeq

LEMMA SlotAppended ==
  ASSUME NEW s \in Seq(Nat), Injects(s), NEW m \in Nat, m \notin ToSet(s)
  PROVE  /\ Append(s, m) \in Seq(Nat) /\ Injects(Append(s, m))
         /\ ToSet(Append(s, m)) = ToSet(s) \cup {m}
<1> DEFINE t == Append(s, m)
<1>1. Len(s) \in Nat /\ DOMAIN s = 1 .. Len(s)
  BY AboutSeq
<1>2. t \in Seq(Nat) /\ Len(t) = Len(s) + 1 /\ (\A i \in 1 .. Len(s) : t[i] = s[i])
      /\ t[Len(s) + 1] = m
  BY AppendProperties
<1> HIDE DEF t
<1>3. DOMAIN t = 1 .. Len(s) + 1
  BY <1>2, AboutSeq
<1>4. \A i \in 1 .. Len(s) : s[i] # m
  BY <1>1 DEF ToSet
<1>5. Injects(t)
  <2> SUFFICES ASSUME NEW i \in 1 .. Len(s) + 1, NEW j \in 1 .. Len(s) + 1,
                      t[i] = t[j], t[i] # None
               PROVE  i = j
    BY <1>3 DEF Injects
  <2>1. i \in 1 .. Len(s) \/ i = Len(s) + 1
    BY <1>1
  <2>2. j \in 1 .. Len(s) \/ j = Len(s) + 1
    BY <1>1
  <2> QED
    BY <1>1, <1>2, <1>4, <2>1, <2>2 DEF Injects
<1>6. ASSUME NEW x
      PROVE  x \in ToSet(t) <=> x \in ToSet(s) \/ x = m
  <2>1. x \in ToSet(t) <=> \E i \in 1 .. Len(s) + 1 : x = t[i]
    BY <1>3 DEF ToSet
  <2>2. x \in ToSet(s) <=> \E i \in 1 .. Len(s) : x = s[i]
    BY <1>1 DEF ToSet
  <2>3. 1 .. Len(s) + 1 = 1 .. Len(s) \cup {Len(s) + 1}
    BY <1>1
  <2>4. (\E i \in 1 .. Len(s) + 1 : x = t[i])
          <=> (\E i \in 1 .. Len(s) : x = t[i]) \/ x = t[Len(s) + 1]
    BY <2>3, Zenon
  <2> QED
    BY <1>2, <2>1, <2>2, <2>4
<1> QED
  BY <1>2, <1>5, <1>6 DEF t

LEMMA SlotCleared ==
  ASSUME NEW s \in Seq(Nat), Injects(s), NEW i \in DOMAIN s
  PROVE  LET t == [s EXCEPT ![i] = None] IN
         /\ t \in Seq(Nat) /\ Injects(t)
         /\ ToSet(t) \ {None} = (ToSet(s) \ {None}) \ {s[i]}
<1> DEFINE t == [s EXCEPT ![i] = None]
<1>1. Len(s) \in Nat /\ DOMAIN s = 1 .. Len(s)
  BY AboutSeq
<1>2. t \in Seq(Nat) /\ DOMAIN t = DOMAIN s
  BY <1>1, ExceptSeq DEF None
<1>3. t[i] = None /\ \A j \in DOMAIN s : j # i => t[j] = s[j]
  OBVIOUS
<1> HIDE DEF t
<1>4. Injects(t)
  BY <1>2, <1>3 DEF Injects
<1>5. ASSUME NEW x, x # None
      PROVE  x \in ToSet(t) <=> x \in ToSet(s) /\ x # s[i]
  <2>1. x \in ToSet(t) <=> \E j \in DOMAIN s : x = t[j]
    BY <1>2 DEF ToSet
  <2>2. x \in ToSet(s) <=> \E j \in DOMAIN s : x = s[j]
    BY DEF ToSet
  <2> QED
    BY <1>3, <1>5, <2>1, <2>2 DEF Injects
<1> QED
  BY <1>2, <1>4, <1>5 DEF t

LEMMA SlotsSwapped ==
  ASSUME NEW s \in Seq(Nat), Injects(s), NEW i \in DOMAIN s, NEW j \in DOMAIN s, i # j
  PROVE  LET t == [s EXCEPT ![i] = s[j], ![j] = s[i]] IN
         t \in Seq(Nat) /\ Injects(t) /\ ToSet(t) = ToSet(s)
<1> DEFINE t == [s EXCEPT ![i] = s[j], ![j] = s[i]]
<1>1. Len(s) \in Nat /\ DOMAIN s = 1 .. Len(s) /\ s[i] \in Nat /\ s[j] \in Nat
  BY AboutSeq
<1>2. t \in Seq(Nat)
  <2>1. [s EXCEPT ![i] = s[j]] \in Seq(Nat) /\ Len([s EXCEPT ![i] = s[j]]) = Len(s)
    BY <1>1, ExceptSeq
  <2> QED
    BY <1>1, <2>1, ExceptSeq
<1>3. DOMAIN t = DOMAIN s /\ t[i] = s[j] /\ t[j] = s[i]
      /\ \A k \in DOMAIN s : k # i /\ k # j => t[k] = s[k]
  OBVIOUS
<1> HIDE DEF t
<1>4. Injects(t)
  BY <1>3 DEF Injects
<1>5. ASSUME NEW x
      PROVE  x \in ToSet(t) <=> x \in ToSet(s)
  <2>1. x \in ToSet(t) <=> \E k \in DOMAIN s : x = t[k]
    BY <1>3 DEF ToSet
  <2>2. x \in ToSet(s) <=> \E k \in DOMAIN s : x = s[k]
    BY DEF ToSet
  <2> QED
    BY <1>3, <2>1, <2>2
<1> QED
  BY <1>2, <1>4, <1>5 DEF t

LEMMA RemovedAt ==
  ASSUME NEW S, NEW s \in Seq(S), NEW k \in 1 .. Len(s)
  PROVE  /\ RemoveAt(s, k) \in Seq(S) /\ Len(RemoveAt(s, k)) = Len(s) - 1
         /\ \A i \in 1 .. Len(s) - 1 : RemoveAt(s, k)[i] = IF i < k THEN s[i] ELSE s[i + 1]
<1>1. PICK a, b : a = SubSeq(s, 1, k - 1) /\ b = SubSeq(s, k + 1, Len(s))
  OBVIOUS
<1>2. Len(s) \in Nat /\ \A i \in 1 .. Len(s) : s[i] \in S
  BY AboutSeq
<1>3. a \in Seq(S) /\ Len(a) = k - 1 /\ \A i \in 1 .. k - 1 : a[i] = s[i]
  <2>1. k - 1 \in Int /\ \A i \in 1 .. k - 1 : s[i] \in S
    BY <1>2
  <2>2. /\ SubSeq(s, 1, k - 1) \in Seq(S)
        /\ Len(SubSeq(s, 1, k - 1)) = IF 1 <= k - 1 THEN (k - 1) - 1 + 1 ELSE 0
        /\ \A i \in 1 .. (k - 1) - 1 + 1 : SubSeq(s, 1, k - 1)[i] = s[1 + i - 1]
    BY <2>1, SubSeqProperties
  <2> QED
    BY <1>1, <2>1, <2>2
<1>4. b \in Seq(S) /\ Len(b) = Len(s) - k /\ \A i \in 1 .. Len(s) - k : b[i] = s[k + i]
  <2>1. k + 1 \in Int /\ \A i \in k + 1 .. Len(s) : s[i] \in S
    BY <1>2
  <2>2. /\ SubSeq(s, k + 1, Len(s)) \in Seq(S)
        /\ Len(SubSeq(s, k + 1, Len(s))) = IF k + 1 <= Len(s) THEN Len(s) - (k + 1) + 1 ELSE 0
        /\ \A i \in 1 .. Len(s) - (k + 1) + 1 :
             SubSeq(s, k + 1, Len(s))[i] = s[(k + 1) + i - 1]
    BY <1>2, <2>1, SubSeqProperties
  <2> QED
    BY <1>1, <1>2, <2>1, <2>2
<1>5. RemoveAt(s, k) = a \o b
  BY <1>1 DEF RemoveAt
<1>6. /\ a \o b \in Seq(S) /\ Len(a \o b) = Len(a) + Len(b)
      /\ \A i \in 1 .. Len(a) + Len(b) : (a \o b)[i] = IF i <= Len(a) THEN a[i] ELSE b[i - Len(a)]
  BY <1>3, <1>4, ConcatProperties
<1>7. ASSUME NEW i \in 1 .. Len(s) - 1
      PROVE  (a \o b)[i] = IF i < k THEN s[i] ELSE s[i + 1]
  <2>1. CASE i < k
    BY <1>2, <1>3, <1>4, <1>6, <2>1
  <2>2. CASE ~(i < k)
    <3>1. i - Len(a) \in 1 .. Len(s) - k /\ k + (i - Len(a)) = i + 1
      BY <1>2, <1>3, <2>2
    <3>2. (a \o b)[i] = b[i - Len(a)]
      BY <1>2, <1>3, <1>4, <1>6, <2>2
    <3> QED
      BY <1>4, <2>2, <3>1, <3>2
  <2> QED
    BY <2>1, <2>2
<1> QED
  BY <1>2, <1>3, <1>4, <1>5, <1>6, <1>7

-----------------------------------------------------------------------------
(* The documents. *)

\* The images of L are filed in these documents, each in one of them.
FiledIn(docs, active, L) ==
  /\ docs # <<>> => \E k \in DOMAIN docs : docs[k].id = active
  /\ \A k \in DOMAIN docs : docs[k].imgs \subseteq L
  /\ \A m \in L : \E k \in DOMAIN docs : m \in docs[k].imgs
  /\ \A k, l \in DOMAIN docs : \A m : m \in docs[k].imgs /\ m \in docs[l].imgs => k = l

\* At most the documents differ.
DocsOnly(P, Q) ==
  /\ DOMAIN Q = Fields /\ SameLoop(P, Q) /\ SameOwners(P, Q)
  /\ Q.slots = P.slots /\ Q.made = P.made /\ Q.image = P.image

LEMMA DocsOnlyKeeps ==
  ASSUME NEW P, NEW Q, IsPage(P), DocsOnly(P, Q), Q.docs \in Seq(ADoc), Len(Q.docs) <= MaxDocs
  PROVE  /\ IsPage(Q) /\ Live(Q) = Live(P) /\ TextOnlyLost(P, Q)
         /\ OneOwner(P) => OneOwner(Q)
         /\ LoopGood(P) => LoopGood(Q)
<1>1. IsPage(Q)
  BY DEF IsPage, DocsOnly, SameLoop, SameOwners
<1> QED
  BY <1>1, OwnersAlone, LoopStays DEF DocsOnly, Live, TextOnlyLost

LEMMA FreshDocTyped ==
  ASSUME NEW P, IsPage(P), Len(P.docs) < MaxDocs
  PROVE  FreshDoc(P) \in 1 .. MaxDocs
<1>1. Len(P.docs) \in Nat /\ DOMAIN P.docs = 1 .. Len(P.docs) /\ MaxDocs \in Nat
  BY AboutSeq, PageAssumption DEF IsPage
<1> DEFINE D == 1 .. Len(P.docs)
           f == [k \in D |-> P.docs[k].id]
<1>2. IsFiniteSet(D) /\ Cardinality(D) = Len(P.docs)
  BY <1>1, FS_Interval
<1>3. f \in Surjection(D, DocIds(P))
  <2>1. DocIds(P) = {P.docs[k].id : k \in D}
    BY <1>1 DEF DocIds
  <2> QED
    BY <2>1 DEF Surjection
<1>4. IsFiniteSet(DocIds(P)) /\ Cardinality(DocIds(P)) <= Len(P.docs)
  BY <1>2, <1>3, FS_Surjection
<1>5. (1 .. MaxDocs) \ DocIds(P) # {}
  <2> SUFFICES ASSUME 1 .. MaxDocs \subseteq DocIds(P) PROVE FALSE
    OBVIOUS
  <2>1. Cardinality(1 .. MaxDocs) = MaxDocs
    <3>1. Cardinality(1 .. MaxDocs) = IF 1 > MaxDocs THEN 0 ELSE MaxDocs - 1 + 1
      BY <1>1, FS_Interval
    <3> QED
      BY <1>1, <3>1
  <2>2. Cardinality(1 .. MaxDocs) <= Cardinality(DocIds(P))
    BY <1>4, FS_Subset
  <2>3. Cardinality(DocIds(P)) \in Nat
    BY <1>4, FS_CardinalityType
  <2> QED
    BY <1>1, <1>4, <2>1, <2>2, <2>3
<1>6. FreshDoc(P) \in (1 .. MaxDocs) \ DocIds(P)
  <2>1. (1 .. MaxDocs) \ DocIds(P) \in SUBSET Nat
    OBVIOUS
  <2> QED
    BY <1>5, <2>1, LeastOf DEF FreshDoc
<1> QED
  BY <1>6

LEMMA CreateNewKeeps ==
  ASSUME NEW P, IsPage(P), NEW L, FiledIn(P.docs, P.active, L)
  PROVE  LET Q == CreateNew(P) IN
         /\ DocsOnly(P, Q) /\ Q.docs \in Seq(ADoc) /\ Len(Q.docs) <= MaxDocs
         /\ FiledIn(Q.docs, Q.active, L) /\ Q.docs # <<>>
<1> DEFINE d == FreshDoc(P)
           doc == [id |-> d, imgs |-> {}, holes |-> FALSE]
           Q == [P EXCEPT !.docs = Append(P.docs, doc), !.active = d]
<1>1. DOMAIN P = Fields
  BY DEF IsPage
<1>2. CreateNew(P) = IF Len(P.docs) >= MaxDocs THEN P ELSE Q
  BY <1>1 DEF CreateNew, Fields
<1>3. Len(P.docs) \in Nat /\ DOMAIN P.docs = 1 .. Len(P.docs) /\ MaxDocs \in Nat \ {0}
  BY AboutSeq, PageAssumption DEF IsPage
<1>4. CASE Len(P.docs) >= MaxDocs
  <2>1. P.docs # <<>>
    BY <1>3, <1>4
  <2> QED
    BY <1>2, <1>4, <2>1 DEF IsPage, DocsOnly, SameLoop, SameOwners
<1>5. CASE ~(Len(P.docs) >= MaxDocs)
  <2>1. doc \in ADoc
    BY <1>3, <1>5, FreshDocTyped DEF ADoc
  <2>2. doc.id = d /\ doc.imgs = {}
    OBVIOUS
  <2>3. PICK docs : docs = Append(P.docs, doc)
    OBVIOUS
  <2> HIDE DEF d, doc
  <2>4. /\ docs \in Seq(ADoc) /\ docs # <<>> /\ Len(docs) = Len(P.docs) + 1
        /\ \A k \in 1 .. Len(P.docs) : docs[k] = P.docs[k]
        /\ docs[Len(P.docs) + 1] = doc
    BY <2>1, <2>3, AppendProperties DEF IsPage
  <2>5. DOMAIN docs = 1 .. Len(P.docs) + 1
    BY <2>4, AboutSeq
  <2>6. FiledIn(docs, d, L)
    <3>1. \A k \in DOMAIN docs : (k \in DOMAIN P.docs /\ docs[k] = P.docs[k]) \/ docs[k].imgs = {}
      BY <1>3, <2>2, <2>4, <2>5
    <3>2. \A k \in DOMAIN P.docs : k \in DOMAIN docs /\ docs[k] = P.docs[k]
      BY <1>3, <2>4, <2>5
    <3>3. \E k \in DOMAIN docs : docs[k].id = d
      BY <1>3, <2>2, <2>4, <2>5
    <3> QED
      BY <3>1, <3>2, <3>3 DEF FiledIn
  <2>7. DocsOnly(P, Q) /\ Q.docs = docs /\ Q.active = d
    BY <1>1, <2>3 DEF Fields, DocsOnly, SameLoop, SameOwners
  <2> HIDE DEF Q
  <2> QED
    BY <1>2, <1>3, <1>5, <2>4, <2>6, <2>7
<1> QED
  BY <1>4, <1>5

LEMMA UnfiledDocs ==
  ASSUME NEW docs \in Seq(ADoc), NEW m, NEW hole \in BOOLEAN
  PROVE  LET out == Unfiled(docs, m, hole) IN
         /\ out \in Seq(ADoc) /\ DOMAIN out = DOMAIN docs /\ Len(out) = Len(docs)
         /\ \A j \in DOMAIN docs : /\ out[j] \in ADoc /\ out[j].id = docs[j].id
                                   /\ out[j].imgs = docs[j].imgs \ {m}
<1> DEFINE out == Unfiled(docs, m, hole)
<1>1. Len(docs) \in Nat /\ DOMAIN docs = 1 .. Len(docs) /\ \A j \in 1 .. Len(docs) : docs[j] \in ADoc
  BY AboutSeq
<1>2. out = [k \in DOMAIN docs |->
               IF m \in docs[k].imgs THEN [docs[k] EXCEPT !.imgs = @ \ {m}, !.holes = @ \/ hole]
               ELSE docs[k]]
  BY DEF Unfiled
<1> HIDE DEF out
<1>3. ASSUME NEW j \in DOMAIN docs
      PROVE  out[j] \in ADoc /\ out[j].id = docs[j].id /\ out[j].imgs = docs[j].imgs \ {m}
  <2>1. docs[j] \in ADoc
    BY <1>1
  <2>2. CASE m \in docs[j].imgs
    <3>1. out[j] = [docs[j] EXCEPT !.imgs = @ \ {m}, !.holes = @ \/ hole]
      BY <1>2, <2>2
    <3> QED
      BY <2>1, <3>1 DEF ADoc
  <2>3. CASE m \notin docs[j].imgs
    BY <1>2, <2>1, <2>3 DEF ADoc
  <2> QED
    BY <2>2, <2>3
<1>4. DOMAIN out = DOMAIN docs
  BY <1>2
<1>5. out \in Seq(ADoc)
  <2>1. out \in [1 .. Len(docs) -> ADoc]
    BY <1>1, <1>2, <1>3
  <2> QED
    BY <1>1, <2>1, SeqDef
<1>6. Len(out) = Len(docs)
  BY <1>1, <1>4, <1>5, AboutSeq
<1> QED
  BY <1>3, <1>4, <1>5, <1>6 DEF out

(* An image goes into one document, out of whichever it was in. *)
LEMMA IntoKeeps ==
  ASSUME NEW P, IsPage(P), NEW L, FiledIn(P.docs, P.active, L),
         NEW m \in Images, NEW d \in DocIds(P), NEW W,
         W = Without(P, m) \/ (W = P /\ m \notin L)
  PROVE  LET Q == Into(W, m, d) IN
         /\ DocsOnly(P, Q) /\ Q.docs \in Seq(ADoc) /\ Len(Q.docs) <= MaxDocs
         /\ FiledIn(Q.docs, Q.active, L \cup {m})
<1> DEFINE D == DOMAIN P.docs
           out == Unfiled(P.docs, m, FALSE)
<1>1. DOMAIN P = Fields /\ P.docs \in Seq(ADoc) /\ Len(P.docs) <= MaxDocs
  BY DEF IsPage
<1>2. Len(P.docs) \in Nat /\ D = 1 .. Len(P.docs) /\ \A j \in D : P.docs[j] \in ADoc
  BY <1>1, AboutSeq
<1>3. DocsOnly(P, W) /\ W.active = P.active /\ (W.docs = out \/ (W = P /\ m \notin L))
  <2>1. CASE W = P /\ m \notin L
    BY <1>1, <2>1 DEF DocsOnly, SameLoop, SameOwners
  <2>2. CASE W = Without(P, m)
    <3>1. W = [P EXCEPT !.docs = out]
      BY <1>1, <2>2 DEF Without, Fields
    <3> HIDE DEF out, D
    <3>2. DocsOnly(P, W) /\ W.active = P.active /\ W.docs = out
      BY <1>1, <3>1 DEF Fields, DocsOnly, SameLoop, SameOwners
    <3> QED
      BY <3>2
  <2> QED
    BY <2>1, <2>2
<1>4. /\ out \in Seq(ADoc) /\ DOMAIN out = D /\ Len(out) = Len(P.docs)
       /\ \A j \in D : /\ out[j] \in ADoc /\ out[j].id = P.docs[j].id
                       /\ out[j].imgs = P.docs[j].imgs \ {m}
  <2>1. PICK hole \in BOOLEAN : hole = FALSE
    OBVIOUS
  <2>2. out = Unfiled(P.docs, m, hole)
    BY <2>1
  <2> HIDE DEF out
  <2> QED
    BY <1>1, <2>2, UnfiledDocs
<1>5. DOMAIN W.docs = D /\ \A j \in D :
        /\ W.docs[j] \in ADoc /\ W.docs[j].id = P.docs[j].id
        /\ W.docs[j].imgs = P.docs[j].imgs \ {m}
  <2>1. CASE W = P /\ m \notin L
    <3>1. \A j \in D : m \notin P.docs[j].imgs
      BY <2>1 DEF FiledIn
    <3> QED
      BY <1>2, <2>1, <3>1
  <2>2. CASE W.docs = out
    BY <1>4, <2>2
  <2> QED
    BY <1>3, <2>1, <2>2
<1> HIDE DEF out
<1>6. PICK k \in D : k = Doc(W, d)
  <2>1. PICK j \in D : P.docs[j].id = d
    BY DEF DocIds
  <2>2. j \in DOMAIN W.docs /\ W.docs[j].id = d
    BY <1>5, <2>1
  <2>3. Doc(W, d) \in DOMAIN W.docs
    BY <2>2 DEF Doc
  <2> QED
    BY <1>5, <2>3
<1> DEFINE Q == Into(W, m, d)
           doc == [W.docs[k] EXCEPT !.imgs = @ \cup {m}]
<1>7. DocsOnly(P, Q) /\ Q.active = P.active /\ Q.docs = [W.docs EXCEPT ![k] = doc]
  <2>1. DOMAIN W = Fields
    BY <1>3 DEF DocsOnly
  <2>2. Q = [W EXCEPT !.docs[k].imgs = @ \cup {m}]
    BY <1>6 DEF Into
  <2> HIDE DEF Q
  <2>3. Q.docs = [W.docs EXCEPT ![k] = doc] /\ DOMAIN Q = Fields /\ Q.active = W.active
    BY <2>1, <2>2 DEF Fields
  <2>4. DocsOnly(W, Q)
    BY <2>1, <2>2 DEF Fields, DocsOnly, SameLoop, SameOwners
  <2> QED
    BY <1>3, <2>3, <2>4 DEF DocsOnly, SameLoop, SameOwners
<1> HIDE DEF Q
<1>8. doc \in ADoc /\ doc.id = P.docs[k].id /\ doc.imgs = P.docs[k].imgs \cup {m}
  BY <1>5, <1>6 DEF ADoc
<1> HIDE DEF doc
<1>9. DOMAIN Q.docs = D /\ Q.docs[k] = doc /\ \A j \in D : j # k => Q.docs[j] = W.docs[j]
  BY <1>5, <1>6, <1>7
<1>10. \A j \in D : Q.docs[j] \in ADoc /\ Q.docs[j].id = P.docs[j].id
      /\ \A x : x \in Q.docs[j].imgs <=> (x \in P.docs[j].imgs /\ x # m) \/ (x = m /\ j = k)
  <2> TAKE j \in D
  <2>1. CASE j = k
    BY <1>8, <1>9, <2>1
  <2>2. CASE j # k
    BY <1>5, <1>9, <2>2
  <2> QED
    BY <2>1, <2>2
<1>11. Q.docs \in Seq(ADoc) /\ Len(Q.docs) <= MaxDocs
  <2>1. W.docs \in Seq(ADoc)
    BY <1>1, <1>3, <1>4
  <2>2. Len(W.docs) = Len(P.docs)
    BY <1>2, <1>5, <2>1, AboutSeq
  <2> QED
    BY <1>1, <1>2, <1>6, <1>7, <1>8, <2>1, <2>2, ExceptSeq
<1>12. FiledIn(Q.docs, Q.active, L \cup {m})
  <2>1. \A j \in D : Q.docs[j].imgs \subseteq L \cup {m}
    BY <1>10 DEF FiledIn
  <2>2. \A x \in L \cup {m} : \E j \in D : x \in Q.docs[j].imgs
    BY <1>6, <1>10 DEF FiledIn
  <2>3. \A i, j \in D : \A x : x \in Q.docs[i].imgs /\ x \in Q.docs[j].imgs => i = j
    BY <1>10 DEF FiledIn
  <2>4. Q.docs # <<>> => P.docs # <<>>
    BY <1>2, <1>6
  <2>5. Q.docs # <<>> => \E j \in D : Q.docs[j].id = Q.active
    BY <1>7, <1>10, <2>4 DEF FiledIn
  <2> QED
    BY <1>9, <2>1, <2>2, <2>3, <2>5 DEF FiledIn
<1> QED
  BY <1>7, <1>11, <1>12 DEF Q

(* A batch that ends empty loses its document; the last one left is active. *)
LEMMA DiscardIfEmptyKeeps ==
  ASSUME NEW P, IsPage(P), NEW L, FiledIn(P.docs, P.active, L), NEW d \in DocIds(P)
  PROVE  LET Q == DiscardIfEmpty(P, d) IN
         /\ DocsOnly(P, Q) /\ Q.docs \in Seq(ADoc) /\ Len(Q.docs) <= MaxDocs
         /\ FiledIn(Q.docs, Q.active, L)
<1> DEFINE k == Doc(P, d)
           t == RemoveAt(P.docs, k)
           active == IF t = <<>> THEN None ELSE Last(t).id
           Q == [P EXCEPT !.docs = t, !.active = active]
<1>1. DOMAIN P = Fields /\ P.docs \in Seq(ADoc) /\ Len(P.docs) <= MaxDocs
  BY DEF IsPage
<1>2. Len(P.docs) \in Nat /\ DOMAIN P.docs = 1 .. Len(P.docs)
  BY <1>1, AboutSeq
<1>3. k \in 1 .. Len(P.docs)
  <2>1. PICK j \in DOMAIN P.docs : P.docs[j].id = d
    BY DEF DocIds
  <2> QED
    BY <1>2, <2>1 DEF Doc
<1>4. DiscardIfEmpty(P, d) = IF P.docs[k].imgs # {} THEN P ELSE Q
  BY DEF DiscardIfEmpty
<1> HIDE DEF k
<1>5. CASE P.docs[k].imgs # {}
  BY <1>1, <1>4, <1>5 DEF DocsOnly, SameLoop, SameOwners
<1>6. CASE P.docs[k].imgs = {}
  <2>1. /\ t \in Seq(ADoc) /\ Len(t) = Len(P.docs) - 1
        /\ \A i \in 1 .. Len(P.docs) - 1 : t[i] = IF i < k THEN P.docs[i] ELSE P.docs[i + 1]
    BY <1>1, <1>3, RemovedAt
  <2> HIDE DEF t
  <2>2. DOMAIN t = 1 .. Len(P.docs) - 1 /\ Len(t) \in Nat
    BY <2>1, AboutSeq
  <2>3. ASSUME NEW i \in DOMAIN t
        PROVE  t[i] = P.docs[IF i < k THEN i ELSE i + 1]
               /\ (IF i < k THEN i ELSE i + 1) \in DOMAIN P.docs
    BY <1>2, <1>3, <2>1, <2>2
  <2>4. ASSUME NEW m \in L
        PROVE  \E i \in DOMAIN t : m \in t[i].imgs
    <3>1. PICK j \in DOMAIN P.docs : m \in P.docs[j].imgs
      BY DEF FiledIn
    <3>2. j # k
      BY <1>6, <3>1
    <3>3. CASE j < k
      <4>1. j \in DOMAIN t /\ t[j] = P.docs[j]
        BY <1>2, <1>3, <2>1, <2>2, <3>3
      <4> QED
        BY <3>1, <4>1
    <3>4. CASE j > k
      <4>1. j - 1 \in DOMAIN t /\ ~(j - 1 < k) /\ j - 1 + 1 = j
        BY <1>2, <1>3, <2>2, <3>4
      <4>2. t[j - 1] = P.docs[j]
        BY <2>1, <2>2, <4>1
      <4> QED
        BY <3>1, <4>1, <4>2
    <3> QED
      BY <1>2, <1>3, <3>2, <3>3, <3>4
  <2>5. ASSUME NEW i \in DOMAIN t, NEW j \in DOMAIN t, NEW m,
               m \in t[i].imgs, m \in t[j].imgs
        PROVE  i = j
    <3>1. (IF i < k THEN i ELSE i + 1) = (IF j < k THEN j ELSE j + 1)
      BY <2>3, <2>5 DEF FiledIn
    <3> QED
      BY <1>3, <2>2, <3>1
  <2>6. \A i \in DOMAIN t : t[i].imgs \subseteq L
    BY <2>3 DEF FiledIn
  <2>7. t # <<>> => \E i \in DOMAIN t : t[i].id = active
    <3>1. t # <<>> => Len(t) \in DOMAIN t
      BY <2>1, <2>2
    <3> QED
      BY <3>1 DEF Last
  <2> HIDE DEF active
  <2>8. FiledIn(t, active, L)
    BY <2>4, <2>5, <2>6, <2>7 DEF FiledIn
  <2>9. DocsOnly(P, Q) /\ Q.docs = t /\ Q.active = active
    BY <1>1 DEF Fields, DocsOnly, SameLoop, SameOwners
  <2> HIDE DEF Q
  <2>10. Len(t) <= MaxDocs
    <3>1. MaxDocs \in Nat
      BY PageAssumption
    <3> QED
      BY <1>1, <1>2, <2>1, <3>1
  <2> QED
    BY <1>4, <1>6, <2>1, <2>8, <2>9, <2>10
<1> QED
  BY <1>5, <1>6

-----------------------------------------------------------------------------
(* An image is taken away: by its index, out of its document, with its text
   and its turn in the OCR. *)

Indexed(P) == Injects(P.slots) /\ \A i \in DOMAIN P.slots : P.slots[i] <= P.made

Filing(P) == Indexed(P) /\ FiledIn(P.docs, P.active, Live(P))

LEMMA FollowsFiles ==
  ASSUME NEW P, NEW Q, SameFiling(P, Q), Filing(P)
  PROVE  Filing(Q)
<1> QED
  BY DEF SameFiling, Filing, Indexed, Live

LEMMA ClearedAt ==
  ASSUME NEW f, NEW i
  PROVE  LET g == [f EXCEPT ![i] = None] IN
         /\ DOMAIN g = DOMAIN f
         /\ \A j \in DOMAIN f : g[j] = IF j = i THEN None ELSE f[j]
  OBVIOUS

LEMMA GoneKeeps ==
  ASSUME NEW P, NEW i, IsPage(P), Filing(P), At(P, i) \in Images
  PROVE  LET G == Gone(P, i) IN
         /\ IsPage(G) /\ Filing(G) /\ G.made = P.made
         /\ Live(G) = Live(P) \ {At(P, i)}
         /\ TextOnlyLost(P, G) /\ ~G.image[At(P, i)].text
         /\ OneOwner(P) => OneOwner(G)
         /\ LoopGood(P) => LoopGood(G)
<1> DEFINE m == At(P, i)
           C == Cancel(P, i)
           docs == Unfiled(P.docs, m, TRUE)
           slots == [P.slots EXCEPT ![i] = None]
           G == [C EXCEPT !.docs = docs, !.slots = slots]
<1>1. /\ Follows(P, C) /\ SameOwners(P, C)
      /\ C.loop = P.loop /\ C.current = P.current /\ C.processing = P.processing
      /\ C.aborted = (P.aborted \/ P.current = i) /\ ~C.image[m].text
      /\ LoopGood(P) => LoopGood(C)
  BY CancelKeeps
<1>2. C.docs = P.docs /\ C.slots = P.slots /\ C.active = P.active /\ C.made = P.made
      /\ IsPage(C) /\ DOMAIN C = Fields
  BY <1>1 DEF Follows, SameFiling, IsPage
<1>3. Gone(P, i) = G
  BY <1>2 DEF Gone, Fields
<1>4. i \in DOMAIN P.slots /\ P.slots[i] = m /\ m # None
  BY DEF At, Images, None
<1>5. /\ slots \in Seq(Nat) /\ Injects(slots)
      /\ ToSet(slots) \ {None} = (ToSet(P.slots) \ {None}) \ {m}
  <2>1. P.slots \in Seq(Nat) /\ Injects(P.slots)
    BY DEF IsPage, Filing, Indexed
  <2>2. i \in DOMAIN P.slots /\ P.slots[i] = m
    BY <1>4
  <2> HIDE DEF m
  <2> QED
    BY <2>1, <2>2, SlotCleared
<1>6. DOMAIN slots = DOMAIN P.slots /\ \A j \in DOMAIN P.slots :
        slots[j] = IF j = i THEN None ELSE P.slots[j]
  BY ClearedAt
<1>7. /\ docs \in Seq(ADoc) /\ DOMAIN docs = DOMAIN P.docs /\ Len(docs) = Len(P.docs)
      /\ \A j \in DOMAIN P.docs : docs[j].id = P.docs[j].id /\ docs[j].imgs = P.docs[j].imgs \ {m}
  <2>1. PICK hole \in BOOLEAN : hole = TRUE
    OBVIOUS
  <2>2. docs = Unfiled(P.docs, m, hole)
    BY <2>1
  <2> HIDE DEF docs, m
  <2> QED
    BY <2>2, UnfiledDocs DEF IsPage
<1> HIDE DEF C, docs, slots, m
<1>8. /\ DOMAIN G = Fields /\ G.docs = docs /\ G.slots = slots /\ G.active = P.active
      /\ G.made = P.made /\ G.image = C.image /\ SameOwners(C, G) /\ SameLoop(C, G)
  BY <1>2 DEF Fields, SameOwners, SameLoop
<1> HIDE DEF G
<1>9. IsPage(G)
  BY <1>2, <1>5, <1>7, <1>8 DEF IsPage, SameOwners, SameLoop
<1>10. Live(G) = Live(P) \ {m}
  BY <1>5, <1>8 DEF Live
<1>11. Filing(G)
  <2>1. Indexed(G)
    <3>1. G.made \in Nat
      BY <1>9 DEF IsPage
    <3>2. \A j \in DOMAIN slots : slots[j] <= G.made
      BY <1>6, <1>8, <3>1 DEF Filing, Indexed, None
    <3> QED
      BY <1>5, <1>8, <3>2 DEF Indexed
  <2>2. docs # <<>> => P.docs # <<>>
    BY <1>7 DEF IsPage
  <2>3. FiledIn(P.docs, P.active, Live(P))
    BY DEF Filing
  <2>4. FiledIn(docs, P.active, Live(P) \ {m})
    BY <1>7, <2>2, <2>3 DEF FiledIn
  <2> QED
    BY <1>8, <1>10, <2>1, <2>4 DEF Filing
<1>12. LoopGood(P) => LoopGood(G)
  <2> SUFFICES ASSUME LoopGood(P) PROVE LoopGood(G)
    OBVIOUS
  <2>1. G.loop = P.loop /\ G.current = P.current /\ G.processing = P.processing
        /\ G.aborted = (P.aborted \/ P.current = i)
    BY <1>1, <1>8 DEF SameLoop
  <2>2. LeftBehind(G)
    <3>1. P.slots # <<>>
      BY <1>4
    <3> QED
      BY <2>1, <3>1 DEF LoopGood, LeftBehind
  <2>3. OnItsImage(G)
    BY <1>6, <1>8, <2>1 DEF LoopGood, OnItsImage, At
  <2> QED
    BY <2>2, <2>3 DEF LoopGood
<1>13. OneOwner(P) => OneOwner(G)
  BY <1>1, <1>8, OwnersAlone
<1>14. TextOnlyLost(P, G) /\ ~G.image[m].text
  BY <1>1, <1>8 DEF Follows, TextOnlyLost
<1> QED
  BY <1>3, <1>8, <1>9, <1>10, <1>11, <1>12, <1>13, <1>14 DEF m

-----------------------------------------------------------------------------
(* The invariants.  Files bound the images that were made, so that a new one *)
(* has an index and a name of its own.                                       *)

SpentFiles ==
  /\ DOMAIN spent = {"files", "acts", "nacks"} /\ spent.files \in Nat
  /\ page.made <= spent.files /\ spent.files <= MaxFiles

PageInv == IsPage(page) /\ OneOwner(page) /\ Filing(page) /\ SpentFiles

\* What is gone has no text, and what is being recognized is not gone.
WatchInv == LoopGood(page) /\ GoneHasNoText

LEMMA InitPage == Init => PageInv /\ WatchInv
<1> SUFFICES ASSUME Init PROVE PageInv /\ WatchInv
  OBVIOUS
<1>1. /\ DOMAIN page = Fields /\ page.slots = <<>> /\ page.made = 0 /\ page.docs = <<>>
      /\ page.loop = NoLoop /\ page.exp = NoExport /\ page.processing = FALSE
      /\ page.aborted = FALSE /\ page.bg = None /\ page.claim = None /\ page.preload = None
      /\ page.pdf = None /\ page.image = [m \in Images |-> NoImage]
  BY DEF Init, Fields
<1>2. page.image \in [Images -> AnImage] /\ \A m \in Images : page.image[m].text = FALSE
  BY <1>1 DEF NoImage, AnImage
<1>3. page.slots \in Seq(Nat) /\ page.docs \in Seq(ADoc) /\ Len(page.docs) = 0
  BY <1>1, EmptySeq
<1>4. IsPage(page)
  <2>1. DOMAIN page.loop = {"pc", "at", "img", "file"} /\ DOMAIN page.exp = {"pc", "imgs", "handle"}
    BY <1>1 DEF NoLoop, NoExport
  <2>2. {page.bg, page.claim, page.preload, page.exp.handle, page.pdf} \subseteq Owned
    BY <1>1 DEF NoExport, Owned
  <2>3. page.made \in Nat /\ Len(page.docs) <= MaxDocs
    BY <1>1, <1>3, PageAssumption
  <2>4. page.processing \in BOOLEAN /\ page.aborted \in BOOLEAN
    BY <1>1
  <2> QED
    BY <1>1, <1>2, <1>3, <2>1, <2>2, <2>3, <2>4 DEF IsPage
<1>5. OneOwner(page)
  BY <1>1 DEF OneOwner, NoExport
<1>6. Filing(page)
  BY <1>1 DEF Filing, Indexed, Injects, FiledIn, Live, ToSet
<1>7. SpentFiles
  BY <1>1, PageAssumption DEF SpentFiles, Init
<1>8. WatchInv
  BY <1>1, <1>2 DEF WatchInv, LoopGood, OnItsImage, LeftBehind, NoLoop, GoneHasNoText
<1> QED
  BY <1>4, <1>5, <1>6, <1>7, <1>8 DEF PageInv

LEMMA LiveImages ==
  ASSUME PageInv
  PROVE  /\ Live(page) \subseteq Images
         /\ \A i : At(page, i) # None => At(page, i) \in Live(page) /\ i \in DOMAIN page.slots
<1>1. page.made \in Nat /\ page.slots \in Seq(Nat) /\ MaxFiles \in Nat
      /\ page.made <= MaxFiles /\ \A i \in DOMAIN page.slots : page.slots[i] <= page.made
  BY PageAssumption DEF PageInv, IsPage, Filing, Indexed, SpentFiles
<1>2. DOMAIN page.slots = 1 .. Len(page.slots) /\ \A i \in DOMAIN page.slots : page.slots[i] \in Nat
  BY <1>1, AboutSeq
<1>3. Live(page) \subseteq Images
  <2>1. \A i \in DOMAIN page.slots :
          page.slots[i] # 0 => page.slots[i] \in 1 .. MaxFiles
    BY <1>1, <1>2
  <2> QED
    BY <2>1 DEF Live, ToSet, Images, None
<1>4. \A i : At(page, i) # None => At(page, i) \in Live(page) /\ i \in DOMAIN page.slots
  BY <1>2 DEF Live, ToSet, At
<1> QED
  BY <1>3, <1>4

\* No file comes with this step.
SameFiles == DOMAIN spent' = DOMAIN spent /\ spent'.files = spent.files

LEMMA FollowsStep ==
  ASSUME PageInv, Follows(page, page'), SameFiles
  PROVE  /\ PageInv'
         /\ WatchInv /\ (LoopGood(page) => LoopGood(page')) => WatchInv'
<1>1. Filing(page') /\ IsPage(page') /\ OneOwner(page')
  BY FollowsFiles DEF PageInv, Follows
<1>2. page'.made = page.made /\ page'.slots = page.slots
  BY DEF Follows, SameFiling
<1>3. SpentFiles'
  BY <1>2 DEF PageInv, SpentFiles, SameFiles
<1>4. GoneHasNoText => GoneHasNoText'
  BY <1>2 DEF GoneHasNoText, Live, Follows, TextOnlyLost
<1> QED
  BY <1>1, <1>3, <1>4 DEF PageInv, WatchInv

\* The same for a call that changes the documents alone.
LEMMA DocsStep ==
  ASSUME PageInv, DocsOnly(page, page'), SameFiles, page'.docs \in Seq(ADoc),
         Len(page'.docs) <= MaxDocs, FiledIn(page'.docs, page'.active, Live(page))
  PROVE  PageInv' /\ (WatchInv => WatchInv')
<1>1. /\ IsPage(page') /\ Live(page') = Live(page) /\ TextOnlyLost(page, page')
      /\ OneOwner(page') /\ (LoopGood(page) => LoopGood(page'))
  BY DocsOnlyKeeps DEF PageInv
<1>2. Filing(page')
  BY <1>1 DEF PageInv, Filing, Indexed, DocsOnly
<1>3. SpentFiles'
  BY DEF PageInv, SpentFiles, SameFiles, DocsOnly
<1>4. GoneHasNoText => GoneHasNoText'
  BY <1>1 DEF GoneHasNoText, TextOnlyLost
<1> QED
  BY <1>1, <1>2, <1>3, <1>4 DEF PageInv, WatchInv

\* A change beside the files, the loop, the owners and the images.
Aside(P, Q) ==
  /\ DOMAIN Q = Fields /\ SameFiling(P, Q) /\ SameLoop(P, Q) /\ SameOwners(P, Q)
  /\ Q.image = P.image

LEMMA AsideKeeps ==
  ASSUME NEW P, NEW Q, IsPage(P), Aside(P, Q)
  PROVE  Follows(P, Q) /\ IsPage(Q) /\ (LoopGood(P) => LoopGood(Q))
<1>1. Follows(P, Q)
  BY FollowsIf DEF Aside, SameLoop, IsPage, TextOnlyLost
<1> QED
  BY <1>1, LoopStays DEF Follows, Aside, SameFiling

\* A change of owners alone.
LEMMA OwnersKeep ==
  ASSUME NEW P, NEW Q, IsPage(P), DOMAIN Q = Fields, SameFiling(P, Q), SameLoop(P, Q),
         Q.image = P.image, DOMAIN Q.exp = DOMAIN P.exp,
         {Q.bg, Q.claim, Q.preload, Q.exp.handle, Q.pdf} \subseteq Owned,
         OneOwner(P) => OneOwner(Q)
  PROVE  Follows(P, Q) /\ IsPage(Q) /\ (LoopGood(P) => LoopGood(Q))
<1>1. IsPage(Q)
  BY DEF IsPage, SameFiling, SameLoop
<1> QED
  BY <1>1, LoopStays DEF Follows, SameFiling, TextOnlyLost

-----------------------------------------------------------------------------
(* The steps of the OCR loop. *)

LEMMA FinishStep ==
  ASSUME NEW P, PageInv, Follows(page, P), page' = Finish(P), SameFiles,
         LoopGood(page) => P.processing \/ P.slots = <<>>
  PROVE  PageInv' /\ (WatchInv => WatchInv')
<1>1. IsPage(P)
  BY DEF Follows
<1>2. Follows(page, page') /\ (LoopGood(page) => LoopGood(page'))
  BY <1>1, FinishKeeps, FollowsOn
<1> QED
  BY <1>2, FollowsStep

(* A loop that runs is the page's, or the page is empty. *)
LEMMA LoopRuns ==
  ASSUME page.loop.pc # "off"
  PROVE  LoopGood(page) => page.processing \/ page.slots = <<>>
<1> QED
  BY DEF LoopGood, LeftBehind, NoLoop

LEMMA HandleIsNew ==
  ASSUME PageInv, None \in {page.claim, page.preload, page.pdf}
  PROVE  /\ NewHandle \in Handles
         /\ NewHandle \notin {page.bg, page.claim, page.preload, page.exp.handle, page.pdf}
<1> DEFINE U == {page.bg, page.claim, page.preload, page.exp.handle, page.pdf}
<1>1. CASE page.claim = None
  <2>1. U = {page.bg, page.preload, page.exp.handle, page.pdf, None}
    BY <1>1
  <2> QED
    BY <2>1, FreeHandle DEF NewHandle
<1>2. CASE page.preload = None
  <2>1. U = {page.bg, page.claim, page.exp.handle, page.pdf, None}
    BY <1>2
  <2> QED
    BY <2>1, FreeHandle DEF NewHandle
<1>3. CASE page.pdf = None
  <2>1. U = {page.bg, page.claim, page.preload, page.exp.handle, None}
    BY <1>3
  <2> QED
    BY <2>1, FreeHandle DEF NewHandle
<1> QED
  BY <1>1, <1>2, <1>3

LEMMA LoopGetsHandleStep ==
  ASSUME PageInv, LoopGetsHandle
  PROVE  PageInv' /\ (WatchInv => WatchInv')
<1> DEFINE bg == IF page.claim = None THEN NewHandle ELSE page.claim
           P == [page EXCEPT !.bg = bg, !.claim = None]
           A == [P EXCEPT !.ahead = @ \ PreStarted(P, P.loop.at)]
<1>1. page.loop.pc = "scribe" /\ SameFiles /\ IsPage(page)
      /\ page' = IF P.aborted THEN Finish(A) ELSE Load(P)
  BY DEF LoopGetsHandle, Becomes, SameFiles, PageInv
<1>2. bg \in Handles /\ bg \notin {page.preload, page.exp.handle, page.pdf}
  <2>1. CASE page.claim = None
    BY <2>1, HandleIsNew
  <2>2. CASE page.claim # None
    <3>1. page.claim \in Handles
      BY <2>2 DEF PageInv, IsPage, Owned
    <3>2. page.claim # page.preload /\ page.claim # page.exp.handle /\ page.claim # page.pdf
      BY <2>2 DEF PageInv, OneOwner
    <3> QED
      BY <2>2, <3>1, <3>2
  <2> QED
    BY <2>1, <2>2
<1> HIDE DEF bg
<1>3. DOMAIN page = Fields
  BY <1>1 DEF IsPage
<1>4. /\ DOMAIN P = Fields /\ SameFiling(page, P) /\ SameLoop(page, P) /\ P.image = page.image
      /\ P.bg = bg /\ P.claim = None /\ P.preload = page.preload /\ P.exp = page.exp
      /\ P.pdf = page.pdf
  BY <1>3 DEF Fields, SameFiling, SameLoop
<1> HIDE DEF P
<1>5. Follows(page, P) /\ IsPage(P) /\ (LoopGood(page) => LoopGood(P))
  <2>1. {P.bg, P.claim, P.preload, P.exp.handle, P.pdf} \subseteq Owned
    BY <1>1, <1>2, <1>4 DEF IsPage, Owned
  <2>2. OneOwner(page) => OneOwner(P)
    BY <1>2, <1>4 DEF OneOwner
  <2> QED
    BY <1>1, <1>4, <2>1, <2>2, OwnersKeep
<1>6. CASE P.aborted
  <2>1. Aside(P, A)
    BY <1>4 DEF Aside, Fields, SameFiling, SameLoop, SameOwners
  <2> HIDE DEF A
  <2>2. Follows(page, A)
    BY <1>5, <2>1, AsideKeeps, FollowsOn
  <2>3. LoopGood(page) => A.processing \/ A.slots = <<>>
    BY <1>1, <1>4, <2>1, LoopRuns DEF Aside, SameFiling, SameLoop
  <2> QED
    BY <1>1, <1>6, <2>2, <2>3, FinishStep
<1>7. CASE ~P.aborted
  <2>1. Follows(page, page') /\ Follows(P, page')
    BY <1>1, <1>5, <1>7, LoadKeeps, FollowsOn
  <2>2. LoopGood(page) => LoopGood(page')
    <3>1. page' = Load(P) /\ page'.slots = P.slots /\ P.loop.pc = "scribe"
      BY <1>1, <1>4, <1>7, <2>1 DEF Follows, SameFiling, SameLoop
    <3>2. P.loop # NoLoop
      BY <3>1 DEF NoLoop
    <3> QED
      BY <1>5, <1>7, <3>1, <3>2, LoadKeeps DEF LoopGood, OnItsImage, LeftBehind, At
  <2> QED
    BY <1>1, <2>1, <2>2, FollowsStep
<1> QED
  BY <1>6, <1>7

LEMMA LoopLacksHandleStep ==
  ASSUME PageInv, LoopLacksHandle
  PROVE  PageInv' /\ (WatchInv => WatchInv')
<1> DEFINE P == [page EXCEPT !.claim = None]
<1>1. page.loop.pc = "scribe" /\ SameFiles /\ IsPage(page) /\ page' = Finish(P)
  BY DEF LoopLacksHandle, Becomes, SameFiles, PageInv
<1>2. DOMAIN page = Fields
  BY <1>1 DEF IsPage
<1>3. /\ DOMAIN P = Fields /\ SameFiling(page, P) /\ SameLoop(page, P) /\ P.image = page.image
      /\ P.bg = page.bg /\ P.claim = None /\ P.preload = page.preload /\ P.exp = page.exp
      /\ P.pdf = page.pdf
  BY <1>2 DEF Fields, SameFiling, SameLoop
<1> HIDE DEF P
<1>4. {P.bg, P.claim, P.preload, P.exp.handle, P.pdf} \subseteq Owned
  BY <1>1, <1>3 DEF IsPage, Owned
<1>5. OneOwner(page) => OneOwner(P)
  BY <1>3 DEF OneOwner
<1>6. Follows(page, P)
  BY <1>1, <1>3, <1>4, <1>5, OwnersKeep
<1>7. LoopGood(page) => P.processing \/ P.slots = <<>>
  BY <1>1, <1>3, LoopRuns DEF SameFiling, SameLoop
<1> QED
  BY <1>1, <1>6, <1>7, FinishStep

(* The loop moves on in the same item. *)
LEMMA LoopMoves ==
  ASSUME NEW P, NEW pc \in {"recognize", "clear"}, IsPage(P)
  PROVE  LET Q == [P EXCEPT !.loop.pc = pc] IN
         /\ Follows(P, Q) /\ IsPage(Q) /\ Q.processing = P.processing
         /\ LoopGood(P) /\ P.loop.pc \in {"load", "recognize"} => LoopGood(Q)
<1> DEFINE Q == [P EXCEPT !.loop.pc = pc]
<1>1. DOMAIN P = Fields /\ DOMAIN P.loop = {"pc", "at", "img", "file"}
  BY DEF IsPage
<1>2. /\ DOMAIN Q = Fields /\ SameFiling(P, Q) /\ SameOwners(P, Q) /\ Q.image = P.image
      /\ Q.current = P.current /\ Q.processing = P.processing /\ Q.aborted = P.aborted
      /\ Q.loop = [P.loop EXCEPT !.pc = pc]
  BY <1>1 DEF Fields, SameFiling, SameOwners
<1> HIDE DEF Q
<1>3. DOMAIN Q.loop = DOMAIN P.loop /\ Q.loop.pc = pc /\ Q.loop.at = P.loop.at
      /\ Q.loop.img = P.loop.img
  BY <1>1, <1>2
<1>4. Follows(P, Q)
  BY <1>2, <1>3, FollowsIf DEF IsPage, TextOnlyLost
<1>5. ASSUME LoopGood(P), P.loop.pc \in {"load", "recognize"}
      PROVE  LoopGood(Q)
  <2>1. P.loop # NoLoop /\ Q.slots = P.slots
    BY <1>2, <1>5 DEF NoLoop, SameFiling
  <2> QED
    BY <1>2, <1>3, <1>5, <2>1 DEF LoopGood, OnItsImage, LeftBehind, At
<1> QED
  BY <1>2, <1>4, <1>5 DEF Q, Follows

LEMMA LoopLoadsStep ==
  ASSUME PageInv, LoopLoads
  PROVE  PageInv' /\ (WatchInv => WatchInv')
<1> DEFINE P == [page EXCEPT !.ahead = @ \ PreStarted(page, page.loop.at)]
           R == [P EXCEPT !.loop.pc = "recognize"]
<1>1. page.loop.pc = "load" /\ SameFiles /\ IsPage(page)
      /\ (page' = Finish(P) \/ page' = PreStart(R))
  BY DEF LoopLoads, Becomes, SameFiles, PageInv
<1>2. Aside(page, P)
  BY <1>1 DEF Aside, Fields, SameFiling, SameLoop, SameOwners, IsPage
<1> HIDE DEF P
<1>3. /\ Follows(page, P) /\ IsPage(P) /\ P.loop.pc = "load"
      /\ LoopGood(page) => LoopGood(P) /\ (P.processing \/ P.slots = <<>>)
  BY <1>1, <1>2, AsideKeeps, LoopRuns DEF Aside, SameLoop, SameFiling
<1>4. CASE page' = Finish(P)
  BY <1>1, <1>3, <1>4, FinishStep
<1>5. CASE page' = PreStart(R)
  <2>1. Follows(P, R) /\ IsPage(R) /\ (LoopGood(page) => LoopGood(R))
    BY <1>3, LoopMoves
  <2> HIDE DEF R
  <2>2. Follows(R, PreStart(R)) /\ SameLoop(R, PreStart(R)) /\ PreStart(R).slots = R.slots
    BY <2>1, PreStartKeeps DEF Follows, SameFiling
  <2>3. (LoopGood(page) => LoopGood(PreStart(R))) /\ Follows(page, PreStart(R))
    BY <1>3, <2>1, <2>2, LoopStays, FollowsOn
  <2> QED
    BY <1>1, <1>5, <2>3, FollowsStep
<1> QED
  BY <1>1, <1>4, <1>5

(* The text of an image is kept only while it is on the page. *)
LEMMA LoopRecognizesStep ==
  ASSUME PageInv, LoopRecognizes
  PROVE  PageInv' /\ (WatchInv => WatchInv')
<1> DEFINE m == page.loop.img
           Q == [page EXCEPT !.image[m].text = TRUE, !.loop.pc = "clear"]
<1>1. /\ page.loop.pc = "recognize" /\ SameFiles /\ IsPage(page)
      /\ page' = IF page.aborted THEN Finish(page) ELSE Q
      /\ spent' = spent
  BY DEF LoopRecognizes, Becomes, SameFiles, PageInv
<1>2. CASE page.aborted
  BY <1>1, <1>2, FollowsSelf, LoopRuns, FinishStep
<1>3. CASE ~page.aborted
  <2>1. DOMAIN page = Fields /\ DOMAIN page.loop = {"pc", "at", "img", "file"}
        /\ page.image \in [Images -> AnImage]
    BY <1>1 DEF IsPage
  <2> HIDE DEF m
  <2>2. /\ DOMAIN Q = Fields /\ SameFiling(page, Q) /\ SameOwners(page, Q)
        /\ Q.processing = page.processing /\ Q.aborted = page.aborted
        /\ Q.loop = [page.loop EXCEPT !.pc = "clear"]
        /\ Q.image = [page.image EXCEPT ![m] = [page.image[m] EXCEPT !.text = TRUE]]
    BY <2>1 DEF Fields, SameFiling, SameOwners
  <2> HIDE DEF Q
  <2>3. DOMAIN Q.loop = DOMAIN page.loop /\ Q.loop.pc = "clear"
    BY <2>1, <2>2
  <2>4. ASSUME NEW k \in Images
        PROVE  Q.image[k] \in AnImage /\ (k # m => Q.image[k] = page.image[k])
    <3>1. page.image[k] \in AnImage
      BY <2>1
    <3>2. CASE k = m
      <4>1. Q.image[k] = [page.image[k] EXCEPT !.text = TRUE]
        BY <2>1, <2>2, <3>2
      <4> QED
        BY <3>1, <3>2, <4>1 DEF AnImage
    <3>3. CASE k # m
      BY <2>1, <2>2, <3>1, <3>3
    <3> QED
      BY <3>2, <3>3
  <2>5. Q.image \in [Images -> AnImage]
    BY <2>1, <2>2, <2>4
  <2>6. IsPage(Q)
    BY <1>1, <2>2, <2>3, <2>5 DEF IsPage, SameFiling, SameOwners
  <2>7. PageInv'
    BY <1>1, <1>3, <2>2, <2>6, OwnersAlone, FollowsFiles DEF PageInv, SpentFiles, SameFiling
  <2>8. ASSUME WatchInv
        PROVE  WatchInv'
    <3>1. m \in Live(page) /\ page.processing
      <4>1. page.processing /\ m # None /\ At(page, page.loop.at) = m
        BY <1>1, <1>3, <2>8 DEF WatchInv, LoopGood, OnItsImage, m
      <4> QED
        BY <4>1, LiveImages
    <3>2. Live(Q) = Live(page)
      BY <2>2 DEF SameFiling, Live
    <3>3. \A k \in Images \ Live(Q) : ~Q.image[k].text
      BY <2>4, <2>8, <3>1, <3>2 DEF WatchInv, GoneHasNoText
    <3>4. LoopGood(Q)
      BY <2>2, <2>3, <3>1 DEF LoopGood, OnItsImage, LeftBehind
    <3> QED
      BY <1>1, <1>3, <3>3, <3>4 DEF WatchInv, GoneHasNoText
  <2> QED
    BY <2>7, <2>8
<1> QED
  BY <1>2, <1>3

LEMMA LoopFailsStep ==
  ASSUME PageInv, LoopFails
  PROVE  PageInv' /\ (WatchInv => WatchInv')
<1> DEFINE gone == IF page.loop.pc = "load" THEN PreStarted(page, page.loop.at) ELSE {}
           P == [page EXCEPT !.ahead = @ \ gone]
           Q == [P EXCEPT !.loop.pc = "clear"]
<1>1. page.loop.pc \in {"load", "recognize"} /\ SameFiles /\ IsPage(page)
      /\ page' = [page EXCEPT !.loop.pc = "clear", !.ahead = @ \ gone]
  BY DEF LoopFails, Becomes, SameFiles, PageInv
<1> HIDE DEF gone
<1>2. DOMAIN page = Fields
  BY <1>1 DEF IsPage
<1>3. page' = Q /\ Aside(page, P)
  BY <1>1, <1>2 DEF Aside, Fields, SameFiling, SameLoop, SameOwners
<1> HIDE DEF P
<1>4. Follows(page, P) /\ IsPage(P) /\ (LoopGood(page) => LoopGood(P))
      /\ P.loop.pc \in {"load", "recognize"}
  BY <1>1, <1>3, AsideKeeps DEF Aside, SameLoop
<1>5. Follows(P, Q) /\ (LoopGood(page) => LoopGood(Q))
  BY <1>4, LoopMoves
<1>6. Follows(page, page') /\ (LoopGood(page) => LoopGood(page'))
  BY <1>3, <1>4, <1>5, FollowsOn
<1> QED
  BY <1>1, <1>6, FollowsStep

LEMMA LoopClearsStep ==
  ASSUME PageInv, LoopClears
  PROVE  PageInv' /\ (WatchInv => WatchInv')
<1>1. page.loop.pc = "clear" /\ SameFiles /\ IsPage(page)
  BY DEF LoopClears, Becomes, SameFiles, PageInv
<1>2. PICK bg \in {page.bg, None} : page' = Finish([page EXCEPT !.bg = bg])
  BY DEF LoopClears, Becomes
<1> DEFINE P == [page EXCEPT !.bg = bg]
<1>3. DOMAIN page = Fields
  BY <1>1 DEF IsPage
<1>4. /\ DOMAIN P = Fields /\ SameFiling(page, P) /\ SameLoop(page, P) /\ P.image = page.image
      /\ P.bg = bg /\ P.claim = page.claim /\ P.preload = page.preload /\ P.exp = page.exp
      /\ P.pdf = page.pdf
  BY <1>3 DEF Fields, SameFiling, SameLoop
<1> HIDE DEF P
<1>5. {P.bg, P.claim, P.preload, P.exp.handle, P.pdf} \subseteq Owned
  BY <1>1, <1>4 DEF IsPage, Owned
<1>6. OneOwner(page) => OneOwner(P)
  BY <1>4 DEF OneOwner
<1>7. Follows(page, P)
  BY <1>1, <1>4, <1>5, <1>6, OwnersKeep
<1>8. LoopGood(page) => P.processing \/ P.slots = <<>>
  BY <1>1, <1>4, LoopRuns DEF SameFiling, SameLoop
<1>9. page' = Finish(P)
  BY <1>2 DEF P
<1> QED
  BY <1>1, <1>7, <1>8, <1>9, FinishStep

-----------------------------------------------------------------------------
(* The steps that change the documents. *)

LEMMA DocumentsOf ==
  ASSUME PageInv
  PROVE  IsPage(page) /\ DOMAIN page = Fields /\ FiledIn(page.docs, page.active, Live(page))
<1> QED
  BY DEF PageInv, Filing, IsPage

LEMMA ActsSameFiles ==
  ASSUME PageInv, NEW Q, Acts(Q)
  PROVE  SameFiles /\ page' = Q
<1> QED
  BY DEF PageInv, SpentFiles, Acts, OneAct, SameFiles

LEMMA BatchStep ==
  ASSUME PageInv, BatchStart \/ BatchStartIfNonempty \/ BatchEnd
  PROVE  PageInv' /\ (WatchInv => WatchInv')
<1>1. CASE Acts(CreateNew(page))
  <2>1. page' = CreateNew(page) /\ SameFiles
    BY <1>1, ActsSameFiles
  <2> QED
    BY <2>1, DocumentsOf, CreateNewKeeps, DocsStep
<1>2. CASE page.active \in DocIds(page) /\ Acts(DiscardIfEmpty(page, page.active))
  <2>1. page' = DiscardIfEmpty(page, page.active) /\ SameFiles
    BY <1>2, ActsSameFiles
  <2> QED
    BY <1>2, <2>1, DocumentsOf, DiscardIfEmptyKeeps, DocsStep
<1> QED
  BY <1>1, <1>2 DEF BatchStart, BatchStartIfNonempty, BatchEnd

LEMMA MoveStep ==
  ASSUME PageInv, NEW m, NEW d, Move(m, d)
  PROVE  PageInv' /\ (WatchInv => WatchInv')
<1> DEFINE W == Without(page, m)
           Q == Into(W, m, d)
<1>1. page' = Q /\ SameFiles /\ m \in Live(page) /\ m \in Images /\ d \in DocIds(page)
  BY ActsSameFiles, LiveImages DEF Move
<1>2. /\ DocsOnly(page, Q) /\ Q.docs \in Seq(ADoc) /\ Len(Q.docs) <= MaxDocs
      /\ FiledIn(Q.docs, Q.active, Live(page) \cup {m})
  BY <1>1, DocumentsOf, IntoKeeps
<1>3. Live(page) \cup {m} = Live(page)
  BY <1>1
<1> QED
  BY <1>1, <1>2, <1>3, DocsStep

LEMMA MoveToNewStep ==
  ASSUME PageInv, NEW m, MoveToNew(m)
  PROVE  PageInv' /\ (WatchInv => WatchInv')
<1> DEFINE P == CreateNew(page)
           W == Without(P, m)
           Q == Into(W, m, P.active)
<1>1. page' = Q /\ SameFiles /\ m \in Live(page) /\ m \in Images
  BY ActsSameFiles, LiveImages DEF MoveToNew
<1>2. /\ DocsOnly(page, P) /\ P.docs \in Seq(ADoc) /\ Len(P.docs) <= MaxDocs
      /\ FiledIn(P.docs, P.active, Live(page)) /\ P.docs # <<>>
  BY DocumentsOf, CreateNewKeeps
<1>3. IsPage(P) /\ DOMAIN P = Fields /\ Live(P) = Live(page)
  BY <1>2, DocumentsOf, DocsOnlyKeeps DEF IsPage
<1> HIDE DEF P
<1>4. P.active \in DocIds(P)
  BY <1>2 DEF FiledIn, DocIds
<1>5. /\ DocsOnly(P, Q) /\ Q.docs \in Seq(ADoc) /\ Len(Q.docs) <= MaxDocs
      /\ FiledIn(Q.docs, Q.active, Live(page) \cup {m})
  BY <1>1, <1>2, <1>3, <1>4, IntoKeeps
<1>6. Live(page) \cup {m} = Live(page)
  BY <1>1
<1>7. DocsOnly(page, Q)
  BY <1>2, <1>5 DEF DocsOnly, SameLoop, SameOwners
<1> HIDE DEF Q
<1> QED
  BY <1>1, <1>5, <1>6, <1>7, DocsStep

LEMMA DiscardStep ==
  ASSUME PageInv, NEW i, Discard(i)
  PROVE  PageInv' /\ (WatchInv => WatchInv')
<1> DEFINE m == At(page, i)
<1>1. page' = Gone(page, i) /\ SameFiles /\ m \in Images
  BY ActsSameFiles, LiveImages DEF Discard
<1>2. /\ IsPage(page') /\ Filing(page') /\ page'.made = page.made
      /\ Live(page') = Live(page) \ {m}
      /\ TextOnlyLost(page, page') /\ ~page'.image[m].text
      /\ OneOwner(page') /\ (LoopGood(page) => LoopGood(page'))
  BY <1>1, GoneKeeps DEF PageInv
<1>3. PageInv'
  BY <1>1, <1>2 DEF PageInv, SpentFiles, SameFiles
<1>4. GoneHasNoText => GoneHasNoText'
  BY <1>2 DEF GoneHasNoText, TextOnlyLost
<1> QED
  BY <1>2, <1>3, <1>4 DEF WatchInv

(* Two images swap their indices: nothing looks at them unless Hasty. *)
LEMMA ReorderStep ==
  ASSUME PageInv, NEW i, NEW j, Reorder(i, j)
  PROVE  PageInv' /\ (WatchInv /\ ~Hasty => WatchInv')
<1> DEFINE t == [page.slots EXCEPT ![i] = page.slots[j], ![j] = page.slots[i]]
<1>1. /\ i \in DOMAIN page.slots /\ j \in DOMAIN page.slots /\ i # j /\ SameFiles
      /\ page' = [page EXCEPT !.slots[i] = At(page, j), !.slots[j] = At(page, i)]
  BY ActsSameFiles DEF Reorder
<1>2. At(page, i) = page.slots[i] /\ At(page, j) = page.slots[j]
  BY <1>1 DEF At
<1>3. t \in Seq(Nat) /\ Injects(t) /\ ToSet(t) = ToSet(page.slots)
  BY <1>1, SlotsSwapped DEF PageInv, IsPage, Filing, Indexed
<1>4. DOMAIN t = DOMAIN page.slots /\ \A k \in DOMAIN t : \E l \in DOMAIN page.slots : t[k] = page.slots[l]
  BY <1>1
<1>5. /\ DOMAIN page' = Fields /\ page'.slots = t /\ page'.docs = page.docs
      /\ page'.active = page.active /\ page'.made = page.made /\ page'.image = page.image
      /\ SameOwners(page, page') /\ SameLoop(page, page')
  BY <1>1, <1>2, DocumentsOf DEF Fields, SameOwners, SameLoop
<1> HIDE DEF t
<1>6. IsPage(page')
  BY <1>3, <1>5, DocumentsOf DEF IsPage, SameOwners, SameLoop
<1>7. Live(page') = Live(page)
  BY <1>3, <1>5 DEF Live
<1>8. Filing(page')
  <2>1. Indexed(page')
    BY <1>3, <1>4, <1>5 DEF PageInv, Filing, Indexed
  <2> QED
    BY <1>5, <1>7, <2>1, DocumentsOf DEF Filing
<1>9. PageInv'
  BY <1>1, <1>5, <1>6, <1>8, OwnersAlone DEF PageInv, SpentFiles, SameFiles
<1>10. ASSUME WatchInv, ~Hasty
       PROVE  WatchInv'
  <2>1. ~page.processing
    BY <1>10 DEF Reorder
  <2>2. LoopGood(page')
    <3>1. page.slots # <<>>
      BY <1>1
    <3> QED
      BY <1>5, <1>10, <2>1, <3>1 DEF WatchInv, LoopGood, OnItsImage, LeftBehind, SameLoop
  <2> QED
    BY <1>5, <1>7, <1>10, <2>2 DEF WatchInv, GoneHasNoText
<1> QED
  BY <1>9, <1>10

-----------------------------------------------------------------------------
(* Files and edits. *)

LEMMA ImageEdited ==
  ASSUME NEW P, NEW Q, NEW m, NEW r, IsPage(P), DOMAIN Q = Fields,
         SameFiling(P, Q), SameLoop(P, Q), SameOwners(P, Q), Q.image = [P.image EXCEPT ![m] = r],
         m \in Images => r \in AnImage /\ (r.text => P.image[m].text)
  PROVE  Follows(P, Q) /\ IsPage(Q) /\ (LoopGood(P) => LoopGood(Q))
<1>1. ASSUME NEW k \in Images
      PROVE  Q.image[k] \in AnImage /\ (Q.image[k].text => P.image[k].text)
  <2>1. P.image[k] \in AnImage /\ DOMAIN P.image = Images
    BY DEF IsPage
  <2> QED
    BY <2>1
<1>2. Q.image \in [Images -> AnImage] /\ TextOnlyLost(P, Q)
  BY <1>1 DEF IsPage, TextOnlyLost
<1>3. Follows(P, Q)
  BY <1>2, FollowsIf DEF SameLoop, IsPage
<1> QED
  BY <1>3, LoopStays DEF Follows, SameFiling

LEMMA CardKeeps ==
  ASSUME NEW P, NEW m, NEW card \in BOOLEAN, IsPage(P)
  PROVE  LET Q == [P EXCEPT !.image[m].card = card] IN
         Follows(P, Q) /\ IsPage(Q) /\ (LoopGood(P) => LoopGood(Q))
<1> DEFINE Q == [P EXCEPT !.image[m].card = card]
           r == [P.image[m] EXCEPT !.card = card]
<1>1. DOMAIN P = Fields
  BY DEF IsPage
<1>2. /\ DOMAIN Q = Fields /\ SameFiling(P, Q) /\ SameLoop(P, Q) /\ SameOwners(P, Q)
      /\ Q.image = [P.image EXCEPT ![m] = r]
  BY <1>1 DEF Fields, SameFiling, SameLoop, SameOwners
<1> HIDE DEF Q
<1>3. ASSUME m \in Images
      PROVE  r \in AnImage /\ (r.text => P.image[m].text)
  <2>1. P.image[m] \in AnImage
    BY <1>3 DEF IsPage
  <2> QED
    BY <2>1 DEF AnImage
<1> HIDE DEF r
<1>4. Follows(P, Q) /\ IsPage(Q) /\ (LoopGood(P) => LoopGood(Q))
  BY <1>2, <1>3, ImageEdited
<1> QED
  BY <1>4 DEF Q

(* The bytes of an image change and a card is drawn anew. *)
LEMMA CardsKeep ==
  ASSUME NEW P, NEW i, NEW m, IsPage(P)
  PROVE  LET Q == ShowCard(Written(P, m), i, m) IN
         Follows(P, Q) /\ IsPage(Q) /\ (LoopGood(P) => LoopGood(Q))
<1> DEFINE W == Written(P, m)
<1>1. Follows(P, W) /\ IsPage(W) /\ (LoopGood(P) => LoopGood(W))
  <2>1. PICK card \in BOOLEAN : card = FALSE
    OBVIOUS
  <2>2. W = [P EXCEPT !.image[m].card = card]
    BY <2>1 DEF Written
  <2> HIDE DEF W
  <2> QED
    BY <2>2, CardKeeps
<1> HIDE DEF W
<1>2. PICK card \in BOOLEAN : card = (At(W, i) = m)
  OBVIOUS
<1> DEFINE Q == [W EXCEPT !.image[At(W, i)].card = card]
<1>3. ShowCard(W, i, m) = IF At(W, i) = None THEN W ELSE Q
  BY <1>2 DEF ShowCard
<1>4. Follows(W, Q) /\ IsPage(Q) /\ (LoopGood(W) => LoopGood(Q))
  BY <1>1, CardKeeps
<1> HIDE DEF Q
<1>5. Follows(P, Q)
  BY <1>1, <1>4, FollowsOn
<1>6. LET R == ShowCard(W, i, m) IN
      Follows(P, R) /\ IsPage(R) /\ (LoopGood(P) => LoopGood(R))
  BY <1>1, <1>3, <1>4, <1>5
<1> QED
  BY <1>6 DEF W

(* A step that is a call into the OCR after an edit. *)
LEMMA EditedStep ==
  ASSUME NEW P, PageInv, Follows(page, P), LoopGood(page) => LoopGood(P), SameFiles,
         page' = P \/ \E i : page' = Restart(P, i)
  PROVE  PageInv' /\ (WatchInv => WatchInv')
<1>1. IsPage(P)
  BY DEF Follows
<1>2. Follows(page, page') /\ (LoopGood(page) => LoopGood(page'))
  <2>1. CASE page' = P
    BY <2>1
  <2>2. CASE \E i : page' = Restart(P, i)
    BY <1>1, <2>2, RestartKeeps, FollowsOn
  <2> QED
    BY <2>1, <2>2
<1> QED
  BY <1>2, FollowsStep

LEMMA AsideStep ==
  ASSUME PageInv, Aside(page, page'), SameFiles
  PROVE  PageInv' /\ (WatchInv => WatchInv')
<1>1. IsPage(page)
  BY DEF PageInv
<1>2. Follows(page, page') /\ (LoopGood(page) => LoopGood(page'))
  BY <1>1, AsideKeeps
<1> QED
  BY <1>2, FollowsStep

LEMMA AnnounceStep ==
  ASSUME PageInv, AnnounceResend \/ \E m \in Images \cup {Unknown} : AnnounceCrop(m)
  PROVE  PageInv' /\ (WatchInv => WatchInv')
<1>1. PICK pending : page' = [page EXCEPT !.pending = pending]
  BY DEF AnnounceResend, AnnounceCrop, Acts
<1>2. SameFiles
  BY ActsSameFiles DEF AnnounceResend, AnnounceCrop, SameFiles
<1>3. Aside(page, page')
  BY <1>1, DocumentsOf DEF Aside, Fields, SameFiling, SameLoop, SameOwners
<1> QED
  BY <1>2, <1>3, AsideStep

(* An arrival counts one file more. *)
LEMMA ArrivesCounts ==
  ASSUME PageInv, Arrives
  PROVE  /\ DOMAIN spent' = DOMAIN spent /\ spent'.files = spent.files + 1
         /\ spent.files < MaxFiles /\ spent.files \in Nat
         /\ page.processing \/ page.loop = NoLoop
<1> QED
  BY DEF PageInv, SpentFiles, Arrives

LEMMA ReplaceStep ==
  ASSUME PageInv, NEW acked, Replace(acked)
  PROVE  PageInv' /\ (WatchInv => WatchInv')
<1> DEFINE m == page.pending
           i == IndexOf(page, m)
           A == [page EXCEPT !.pending = None]
           P == ShowCard(Written(A, m), i, m)
           Q == [P EXCEPT !.image[m].hash = @ + 1]
<1>1. Arrives /\ (page' = Q \/ page' = Restart(Q, i)) /\ m \in Images
  BY LiveImages DEF Replace
<1> HIDE DEF m, i
<1>2. Follows(page, A) /\ IsPage(A) /\ (LoopGood(page) => LoopGood(A))
  <2>1. Aside(page, A)
    BY DocumentsOf DEF Aside, Fields, SameFiling, SameLoop, SameOwners
  <2> HIDE DEF A
  <2> QED
    BY <2>1, DocumentsOf, AsideKeeps
<1> HIDE DEF A
<1>3. Follows(A, P) /\ IsPage(P) /\ (LoopGood(A) => LoopGood(P))
  BY <1>2, CardsKeep
<1> HIDE DEF P
<1>4. Follows(P, Q) /\ IsPage(Q) /\ (LoopGood(P) => LoopGood(Q))
  <2> DEFINE r == [P.image[m] EXCEPT !.hash = @ + 1]
  <2>1. DOMAIN P = Fields
    BY <1>3 DEF IsPage
  <2>2. /\ DOMAIN Q = Fields /\ SameFiling(P, Q) /\ SameLoop(P, Q) /\ SameOwners(P, Q)
        /\ Q.image = [P.image EXCEPT ![m] = r]
    BY <2>1 DEF Fields, SameFiling, SameLoop, SameOwners
  <2>3. P.image[m] \in AnImage
    BY <1>1, <1>3 DEF IsPage
  <2>4. r \in AnImage /\ (r.text => P.image[m].text)
    BY <2>3 DEF AnImage
  <2> HIDE DEF Q, r
  <2> QED
    BY <1>3, <2>2, <2>4, ImageEdited
<1> HIDE DEF Q
<1>5. Follows(page, Q) /\ (LoopGood(page) => LoopGood(Q))
  BY <1>2, <1>3, <1>4, FollowsOn
<1>6. Follows(page, page') /\ (LoopGood(page) => LoopGood(page'))
  BY <1>1, <1>4, <1>5, RestartKeeps, FollowsOn
<1>7. Filing(page') /\ IsPage(page') /\ OneOwner(page')
  BY <1>6, FollowsFiles DEF PageInv, Follows
<1>8. page'.made = page.made /\ page'.slots = page.slots
  BY <1>6 DEF Follows, SameFiling
<1>9. SpentFiles'
  <2>1. page.made \in Nat /\ MaxFiles \in Nat
    BY DocumentsOf, PageAssumption DEF IsPage
  <2> QED
    BY <1>1, <1>8, <2>1, ArrivesCounts DEF PageInv, SpentFiles
<1>10. GoneHasNoText => GoneHasNoText'
  BY <1>6, <1>8 DEF GoneHasNoText, Live, Follows, TextOnlyLost
<1> QED
  BY <1>6, <1>7, <1>9, <1>10 DEF PageInv, WatchInv

(* A new image has a name and an index no image has, and goes into the
   document that is active, or is created for it. *)
LEMMA AddNewStep ==
  ASSUME PageInv, NEW isPhoto \in BOOLEAN, AddNew(isPhoto)
  PROVE  PageInv' /\ (WatchInv => WatchInv')
<1> DEFINE m == page.made + 1
           new == [NoImage EXCEPT !.photo = isPhoto, !.hash = 1, !.card = TRUE]
           slots == Append(page.slots, m)
           A == [page EXCEPT !.made = m, !.pending = None, !.slots = Append(@, m),
                             !.image[m] = new]
           P == GetActive(A)
           R == Into(P, m, P.active)
           L == Live(page)
<1>1. Arrives /\ page' = Queue(R, Len(P.slots))
  BY DEF AddNew
<1>2. /\ page.made \in Nat /\ MaxFiles \in Nat /\ m \in Images /\ m # None
      /\ page.slots \in Seq(Nat) /\ page.image \in [Images -> AnImage]
  <2>1. page.made \in Nat /\ page.slots \in Seq(Nat) /\ page.image \in [Images -> AnImage]
    BY DEF IsPage, PageInv
  <2>2. m \in Images /\ m # None
    <3>1. page.made <= spent.files /\ spent.files < MaxFiles /\ spent.files \in Nat
      BY <1>1, ArrivesCounts DEF PageInv, SpentFiles
    <3> QED
      BY <2>1, <3>1, PageAssumption DEF Images, None
  <2> QED
    BY <2>1, <2>2, PageAssumption
<1>3. m \notin ToSet(page.slots) /\ \A i \in DOMAIN page.slots : page.slots[i] <= page.made
  BY <1>2 DEF PageInv, Filing, Indexed, ToSet
<1>4. slots \in Seq(Nat) /\ Injects(slots) /\ ToSet(slots) = ToSet(page.slots) \cup {m}
  BY <1>2, <1>3, SlotAppended DEF PageInv, Filing, Indexed
<1>5. /\ DOMAIN slots = 1 .. Len(page.slots) + 1 /\ DOMAIN page.slots = 1 .. Len(page.slots)
      /\ \A i \in DOMAIN page.slots : slots[i] = page.slots[i]
      /\ slots[Len(page.slots) + 1] = m /\ Len(page.slots) \in Nat
  BY <1>2, <1>4, AppendProperties, AboutSeq
<1>6. new \in AnImage /\ ~new.text
  BY DEF NoImage, AnImage
<1> HIDE DEF slots, new
<1>7. /\ DOMAIN A = Fields /\ A.slots = slots /\ A.docs = page.docs /\ A.active = page.active
      /\ A.made = m /\ SameLoop(page, A) /\ SameOwners(page, A)
      /\ A.image = [page.image EXCEPT ![m] = new]
  BY DocumentsOf DEF Fields, SameLoop, SameOwners, slots
<1> HIDE DEF A, m
<1>8. IsPage(A)
  <2>1. A.image \in [Images -> AnImage] /\ A.made \in Nat
    BY <1>2, <1>6, <1>7 DEF Images
  <2> QED
    BY <1>4, <1>7, <2>1, DocumentsOf DEF IsPage, SameLoop, SameOwners
<1>9. Live(A) = L \cup {m}
  BY <1>2, <1>4, <1>7 DEF Live
<1>10. Indexed(A)
  <2>1. \A i \in DOMAIN slots : slots[i] <= m
    <3>1. page.made <= m /\ m <= m /\ m \in Nat
      BY <1>2 DEF m
    <3>2. \A i \in DOMAIN page.slots : page.slots[i] \in Nat
      BY <1>2, AboutSeq
    <3>3. \A i \in DOMAIN page.slots : slots[i] <= m
      BY <1>2, <1>3, <1>5, <3>1, <3>2
    <3>4. DOMAIN slots = DOMAIN page.slots \cup {Len(page.slots) + 1}
      BY <1>5
    <3> QED
      BY <1>5, <3>1, <3>3, <3>4
  <2> QED
    BY <1>4, <1>7, <2>1 DEF Indexed
<1>11. /\ DocsOnly(A, P) /\ P.docs \in Seq(ADoc) /\ Len(P.docs) <= MaxDocs
       /\ FiledIn(P.docs, P.active, L) /\ P.active \in DocIds(P)
  <2>1. FiledIn(A.docs, A.active, L)
    BY <1>7, DocumentsOf
  <2>2. CASE A.active \in DocIds(A)
    <3>1. P = A
      BY <2>2 DEF GetActive
    <3> QED
      BY <1>7, <1>8, <2>1, <2>2, <3>1 DEF DocsOnly, SameLoop, SameOwners, IsPage
  <2>3. CASE A.active \notin DocIds(A)
    <3>1. P = CreateNew(A)
      BY <2>3 DEF GetActive
    <3> HIDE DEF P
    <3>2. DocsOnly(A, P) /\ P.docs \in Seq(ADoc) /\ Len(P.docs) <= MaxDocs
          /\ FiledIn(P.docs, P.active, L) /\ P.docs # <<>>
      BY <1>8, <2>1, <3>1, CreateNewKeeps
    <3> QED
      BY <3>2 DEF FiledIn, DocIds
  <2> QED
    BY <2>2, <2>3
<1> HIDE DEF P
<1>12. IsPage(P)
  BY <1>8, <1>11, DocsOnlyKeeps
<1>13. m \notin L
  BY <1>3 DEF Live
<1>14. /\ DocsOnly(P, R) /\ R.docs \in Seq(ADoc) /\ Len(R.docs) <= MaxDocs
       /\ FiledIn(R.docs, R.active, L \cup {m})
  BY <1>2, <1>11, <1>12, <1>13, IntoKeeps
<1> HIDE DEF R
<1>15. DocsOnly(A, R)
  BY <1>11, <1>14 DEF DocsOnly, SameLoop, SameOwners
<1>16. IsPage(R) /\ Live(R) = L \cup {m} /\ OneOwner(R)
  <2>1. OneOwner(A)
    BY <1>7, OwnersAlone DEF PageInv
  <2> QED
    BY <1>8, <1>9, <1>14, <1>15, <2>1, DocsOnlyKeeps
<1>17. Filing(R)
  BY <1>10, <1>14, <1>15, <1>16 DEF Filing, Indexed, DocsOnly
<1>18. LoopGood(page) => LoopGood(R)
  <2> SUFFICES ASSUME LoopGood(page) PROVE LoopGood(R)
    OBVIOUS
  <2>1. /\ R.slots = slots /\ R.loop = page.loop /\ R.current = page.current
        /\ R.processing = page.processing /\ R.aborted = page.aborted
    BY <1>7, <1>15 DEF DocsOnly, SameLoop
  <2>2. At(page, page.loop.at) # None => At(R, page.loop.at) = At(page, page.loop.at)
    BY <1>5, <2>1 DEF At
  <2>3. OnItsImage(R)
    BY <2>1, <2>2 DEF LoopGood, OnItsImage
  <2>4. LeftBehind(R)
    BY <1>1, <2>1, ArrivesCounts DEF LeftBehind
  <2> QED
    BY <2>3, <2>4 DEF LoopGood
<1>19. Follows(R, page') /\ (LoopGood(page) => LoopGood(page'))
  BY <1>1, <1>16, <1>18, QueueKeeps
<1>20. IsPage(page') /\ OneOwner(page') /\ Filing(page')
  BY <1>16, <1>17, <1>19, FollowsFiles DEF Follows
<1>21. SpentFiles'
  <2>1. page'.made = page.made + 1
    BY <1>7, <1>15, <1>19 DEF DocsOnly, Follows, SameFiling, m
  <2> QED
    BY <1>1, <1>2, <2>1, ArrivesCounts DEF PageInv, SpentFiles
<1>22. GoneHasNoText => GoneHasNoText'
  <2> SUFFICES ASSUME GoneHasNoText, NEW k \in Images, k \notin Live(page') PROVE ~page'.image[k].text
    BY DEF GoneHasNoText
  <2>1. k # m /\ k \notin L
    BY <1>16, <1>19 DEF Follows, SameFiling, Live
  <2>2. R.image[k] = page.image[k]
    BY <1>2, <1>7, <1>15, <2>1 DEF DocsOnly
  <2> QED
    BY <1>19, <2>1, <2>2 DEF GoneHasNoText, Follows, TextOnlyLost
<1> QED
  BY <1>19, <1>20, <1>21, <1>22 DEF PageInv, WatchInv

LEMMA OneMoreNackFiles ==
  ASSUME NEW m, NEW hash, NEW s, DOMAIN s = {"files", "acts", "nacks"}
  PROVE  DOMAIN OneMoreNack(m, hash, s) = DOMAIN s /\ OneMoreNack(m, hash, s).files = s.files
<1> QED
  BY DEF OneMoreNack

LEMMA EditStep ==
  ASSUME PageInv, Edits
  PROVE  PageInv' /\ (WatchInv => WatchInv')
<1>1. IsPage(page) /\ DOMAIN page = Fields /\ DOMAIN spent = {"files", "acts", "nacks"}
  BY DocumentsOf DEF PageInv, SpentFiles
<1>2. ASSUME NEW i, UndoBW(i)
      PROVE  PageInv' /\ (WatchInv => WatchInv')
  <2> DEFINE A == [page EXCEPT !.preBW = @ \ {i}]
             P == ShowCard(Written(A, At(page, i)), i, At(page, i))
  <2>1. page' = Restart(P, i) /\ SameFiles
    BY <1>1, <1>2 DEF UndoBW, OneAct, SameFiles
  <2>2. Aside(page, A)
    BY <1>1 DEF Aside, Fields, SameFiling, SameLoop, SameOwners
  <2> HIDE DEF A
  <2>3. Follows(page, A) /\ IsPage(A) /\ (LoopGood(page) => LoopGood(A))
    BY <1>1, <2>2, AsideKeeps
  <2>4. Follows(A, P) /\ (LoopGood(A) => LoopGood(P))
    BY <2>3, CardsKeep
  <2> HIDE DEF P
  <2>5. Follows(page, P) /\ (LoopGood(page) => LoopGood(P))
    BY <2>3, <2>4, FollowsOn
  <2> QED
    BY <2>1, <2>5, EditedStep
<1>3. ASSUME NEW op, NEW i, StartEdit(op, i)
      PROVE  PageInv' /\ (WatchInv => WatchInv')
  <2>1. Aside(page, page') /\ SameFiles
    BY <1>1, <1>3 DEF StartEdit, OneAct, SameFiles, Aside, Fields, SameFiling, SameLoop, SameOwners
  <2> QED
    BY <2>1, AsideStep
<1>4. ASSUME NEW e, EndEdit(e)
      PROVE  PageInv' /\ (WatchInv => WatchInv')
  <2> DEFINE P == ShowCard(Written(page, e.img), e.at, e.img)
  <2>1. page' = Restart(P, e.at) /\ SameFiles
    BY <1>4 DEF EndEdit, SameFiles
  <2>2. Follows(page, P) /\ (LoopGood(page) => LoopGood(P))
    BY <1>1, CardsKeep
  <2> HIDE DEF P
  <2> QED
    BY <2>1, <2>2, EditedStep
<1>5. ASSUME NEW e, EndReplay(e)
      PROVE  PageInv' /\ (WatchInv => WatchInv')
  <2> DEFINE W == Written(page, e.img)
             r == [W.image[e.img] EXCEPT !.text = FALSE]
  <2>1. page' = [W EXCEPT !.image[e.img].text = FALSE, !.preBW = @ \ {e.at}] /\ SameFiles
    BY <1>1, <1>5, OneMoreNackFiles DEF EndReplay, SameFiles
  <2>2. Follows(page, W) /\ IsPage(W) /\ (LoopGood(page) => LoopGood(W))
    <3>1. PICK card \in BOOLEAN : card = FALSE
      OBVIOUS
    <3>2. W = [page EXCEPT !.image[e.img].card = card]
      BY <3>1 DEF Written
    <3> HIDE DEF W
    <3> QED
      BY <1>1, <3>2, CardKeeps
  <2> HIDE DEF W
  <2>3. DOMAIN W = Fields
    BY <2>2 DEF IsPage
  <2>4. /\ DOMAIN page' = Fields /\ SameFiling(W, page') /\ SameLoop(W, page')
        /\ SameOwners(W, page') /\ page'.image = [W.image EXCEPT ![e.img] = r]
    BY <2>1, <2>3 DEF Fields, SameFiling, SameLoop, SameOwners
  <2>5. ASSUME e.img \in Images
        PROVE  r \in AnImage /\ (r.text => W.image[e.img].text)
    <3>1. W.image[e.img] \in AnImage
      BY <2>2, <2>5 DEF IsPage
    <3> QED
      BY <3>1 DEF AnImage
  <2> HIDE DEF r
  <2>6. Follows(W, page') /\ (LoopGood(W) => LoopGood(page'))
    BY <2>2, <2>4, <2>5, ImageEdited
  <2>7. Follows(page, page') /\ (LoopGood(page) => LoopGood(page'))
    BY <2>2, <2>6, FollowsOn
  <2> QED
    BY <2>1, <2>7, FollowsStep
<1>6. ASSUME page' = page, SameFiles
      PROVE  PageInv' /\ (WatchInv => WatchInv')
  BY <1>1, <1>6, FollowsSelf, FollowsStep
<1>7. ASSUME NEW e, EditFails(e)
      PROVE  page' = page /\ SameFiles
  BY <1>1, <1>7, OneMoreNackFiles DEF EditFails, SameFiles
<1>8. ASSUME NEW m, StartReplay(m)
      PROVE  page' = page /\ SameFiles
  BY <1>1, <1>8 DEF StartReplay, OneAct, SameFiles
<1>9. ASSUME NEW m, RefuseReplay(m)
      PROVE  page' = page /\ SameFiles
  <2>1. page' = page /\ spent' = OneMoreNack(m, page.image[m].hash, [spent EXCEPT !.acts = @ + 1])
    BY <1>9 DEF RefuseReplay
  <2>2. PICK s : s = [spent EXCEPT !.acts = @ + 1]
    OBVIOUS
  <2>3. DOMAIN s = {"files", "acts", "nacks"} /\ s.files = spent.files
    BY <1>1, <2>2
  <2> QED
    BY <1>1, <2>1, <2>2, <2>3, OneMoreNackFiles DEF SameFiles
<1> QED
  BY <1>2, <1>3, <1>4, <1>5, <1>6, <1>7, <1>8, <1>9 DEF Edits

-----------------------------------------------------------------------------
(* Exports, the preloaded handle, and a new pairing. *)

(* Steps that change owners alone. *)
LEMMA OwnersStep ==
  ASSUME PageInv, SameFiles, DOMAIN page' = Fields, SameFiling(page, page'),
         SameLoop(page, page'), page'.image = page.image, DOMAIN page'.exp = DOMAIN page.exp,
         {page'.bg, page'.claim, page'.preload, page'.exp.handle, page'.pdf} \subseteq Owned,
         OneOwner(page) => OneOwner(page')
  PROVE  PageInv' /\ (WatchInv => WatchInv')
<1>1. Follows(page, page') /\ (LoopGood(page) => LoopGood(page'))
  BY DocumentsOf, OwnersKeep
<1> QED
  BY <1>1, FollowsStep

LEMMA StartExportStep ==
  ASSUME PageInv, NEW S, StartExport(S)
  PROVE  PageInv' /\ (WatchInv => WatchInv')
<1> DEFINE needs == {m \in S : ~page.image[m].text}
           exp == [imgs |-> S, handle |-> None, pc |-> IF needs = {} THEN "build" ELSE "wait"]
           Waits(is) == IF needs = {} THEN {}
                        ELSE {m \in S : QueueAll(page, is).image[m].waiting}
<1>1. PICK is : page' = [QueueAll(page, is) EXCEPT !.exp = exp, !.waits = Waits(is)]
  BY DEF StartExport
<1>2. DOMAIN exp = {"pc", "imgs", "handle"} /\ exp.handle = None
  OBVIOUS
<1> HIDE DEF exp, Waits
<1>3. SameFiles /\ IsPage(page)
  BY DocumentsOf DEF StartExport, OneAct, SameFiles, PageInv, SpentFiles
<1> DEFINE P == QueueAll(page, is)
<1>4. Follows(page, P) /\ IsPage(P) /\ (LoopGood(page) => LoopGood(P))
  BY <1>3, QueueAllKeeps DEF Follows
<1> HIDE DEF P
<1>5. DOMAIN P = Fields
  BY <1>4 DEF IsPage
<1>6. /\ DOMAIN page' = Fields /\ SameFiling(P, page') /\ SameLoop(P, page')
      /\ page'.image = P.image /\ page'.exp = exp /\ page'.bg = P.bg
      /\ page'.claim = P.claim /\ page'.preload = P.preload /\ page'.pdf = P.pdf
  BY <1>1, <1>5 DEF Fields, SameFiling, SameLoop, P
<1>7. Follows(P, page') /\ (LoopGood(P) => LoopGood(page'))
  <2>1. DOMAIN page'.exp = DOMAIN P.exp
    BY <1>4, <1>6, <1>2 DEF IsPage
  <2>2. page'.exp.handle = None
    BY <1>6, <1>2
  <2>3. {page'.bg, page'.claim, page'.preload, page'.exp.handle, page'.pdf} \subseteq Owned
    BY <1>4, <1>6, <2>2 DEF IsPage, Owned
  <2>4. OneOwner(P) => OneOwner(page')
    BY <1>6, <2>2 DEF OneOwner
  <2> QED
    BY <1>4, <1>6, <2>1, <2>3, <2>4, OwnersKeep
<1>8. Follows(page, page') /\ (LoopGood(page) => LoopGood(page'))
  BY <1>4, <1>7, FollowsOn
<1> QED
  BY <1>3, <1>8, FollowsStep

(* buildOrigFiles(): a handle nobody else has, or is left with. *)
LEMMA BuildStep ==
  ASSUME PageInv, Build
  PROVE  PageInv' /\ (WatchInv => WatchInv')
<1> DEFINE P == [page EXCEPT !.exp.pc = "assemble"]
<1>1. page' = AcquireScribe(P) /\ SameFiles /\ IsPage(page)
  BY DocumentsOf DEF Build, Becomes, SameFiles
<1>2. DOMAIN page = Fields /\ DOMAIN page.exp = {"pc", "imgs", "handle"}
      /\ {page.bg, page.claim, page.preload, page.exp.handle, page.pdf} \subseteq Owned
  BY <1>1 DEF IsPage
<1>3. /\ DOMAIN P = Fields /\ SameFiling(page, P) /\ SameLoop(page, P) /\ P.image = page.image
      /\ P.bg = page.bg /\ P.claim = page.claim /\ P.preload = page.preload /\ P.pdf = page.pdf
      /\ DOMAIN P.exp = {"pc", "imgs", "handle"}
  BY <1>2 DEF Fields, SameFiling, SameLoop
<1> HIDE DEF P
<1>4. ASSUME NEW bg, NEW preload, NEW handle, handle \in Owned,
             page' = [P EXCEPT !.bg = bg, !.preload = preload, !.exp.handle = handle],
             bg \in {page.bg, None}, preload \in {page.preload, None},
             handle # None => handle \notin {bg, page.claim, preload, page.pdf}
      PROVE  PageInv' /\ (WatchInv => WatchInv')
  <2>1. /\ DOMAIN page' = Fields /\ SameFiling(P, page') /\ SameLoop(P, page')
        /\ page'.image = P.image /\ page'.bg = bg /\ page'.claim = P.claim
        /\ page'.preload = preload /\ page'.pdf = P.pdf
        /\ page'.exp = [P.exp EXCEPT !.handle = handle]
    BY <1>3, <1>4 DEF Fields, SameFiling, SameLoop
  <2>2. DOMAIN page'.exp = DOMAIN page.exp /\ page'.exp.handle = handle
    BY <1>2, <1>3, <2>1
  <2>3. OneOwner(page) => OneOwner(page')
    BY <1>3, <1>4, <2>1, <2>2 DEF OneOwner
  <2>4. {page'.bg, page'.claim, page'.preload, page'.exp.handle, page'.pdf} \subseteq Owned
    BY <1>2, <1>3, <1>4, <2>1, <2>2 DEF Owned
  <2>5. SameFiling(page, page') /\ SameLoop(page, page') /\ page'.image = page.image
    BY <1>3, <2>1 DEF SameFiling, SameLoop
  <2> QED
    BY <1>1, <2>1, <2>2, <2>3, <2>4, <2>5, OwnersStep
<1>5. CASE P.bg # None /\ ~P.processing
  <2>1. page' = [P EXCEPT !.exp.handle = P.bg, !.bg = None]
    BY <1>1, <1>5 DEF AcquireScribe
  <2>2. page' = [P EXCEPT !.bg = None, !.preload = P.preload, !.exp.handle = P.bg]
    BY <1>3, <2>1 DEF Fields
  <2>3. page.bg \notin {page.claim, page.preload, page.pdf}
    BY <1>3, <1>5 DEF PageInv, OneOwner
  <2> QED
    BY <1>2, <1>3, <1>4, <1>5, <2>2, <2>3
<1>6. CASE ~(P.bg # None /\ ~P.processing) /\ P.preload # None
  <2>1. page' = [P EXCEPT !.exp.handle = P.preload, !.preload = None]
    BY <1>1, <1>6 DEF AcquireScribe
  <2>2. page' = [P EXCEPT !.bg = P.bg, !.preload = None, !.exp.handle = P.preload]
    BY <1>3, <2>1 DEF Fields
  <2>3. page.preload \notin {page.bg, page.claim, page.pdf}
    BY <1>3, <1>6 DEF PageInv, OneOwner
  <2> QED
    BY <1>2, <1>3, <1>4, <1>6, <2>2, <2>3
<1>7. CASE ~(P.bg # None /\ ~P.processing) /\ P.preload = None
  <2>1. page' = [P EXCEPT !.exp.handle = NewHandle]
    BY <1>1, <1>7 DEF AcquireScribe
  <2>2. PICK h : h = NewHandle
    OBVIOUS
  <2>3. page' = [P EXCEPT !.bg = P.bg, !.preload = P.preload, !.exp.handle = h]
    BY <1>3, <2>1, <2>2 DEF Fields
  <2>4. h \in Owned /\ h \notin {page.bg, page.claim, page.preload, page.pdf}
    BY <1>3, <1>7, <2>2, HandleIsNew DEF Owned
  <2> QED
    BY <1>3, <1>4, <2>3, <2>4
<1> QED
  BY <1>5, <1>6, <1>7

(* The other steps of exports, and the preloading of a handle. *)
LEMMA HandleStep ==
  ASSUME PageInv, WaitEnds \/ EndExport \/ StartPdf \/ EndPdf \/ PreloadScribe
  PROVE  PageInv' /\ (WatchInv => WatchInv')
<1>1. /\ IsPage(page) /\ DOMAIN page = Fields /\ DOMAIN page.exp = {"pc", "imgs", "handle"}
      /\ {page.bg, page.claim, page.preload, page.exp.handle, page.pdf} \subseteq Owned
  BY DocumentsOf DEF IsPage
<1> DEFINE Beside == /\ DOMAIN page' = Fields /\ SameFiling(page, page') /\ SameLoop(page, page')
                     /\ page'.image = page.image /\ page'.bg = page.bg
                     /\ page'.claim = page.claim
<1>2. ASSUME SameFiles, Beside, DOMAIN page'.exp = {"pc", "imgs", "handle"},
             page'.exp.handle \in {page.exp.handle, None},
             {page'.pdf, page'.preload} \subseteq Owned,
             OneOwner(page) => OneOwner(page')
      PROVE  PageInv' /\ (WatchInv => WatchInv')
  <2>1. {page'.bg, page'.claim, page'.preload, page'.exp.handle, page'.pdf} \subseteq Owned
    BY <1>1, <1>2 DEF Owned
  <2> QED
    BY <1>1, <1>2, <2>1, OwnersStep
<1>3. CASE WaitEnds
  <2>1. page' = [page EXCEPT !.exp.pc = "build"] /\ SameFiles
    BY <1>3 DEF WaitEnds, Becomes, SameFiles
  <2>2. /\ Beside /\ page'.exp = [page.exp EXCEPT !.pc = "build"]
        /\ page'.pdf = page.pdf /\ page'.preload = page.preload
    BY <1>1, <2>1 DEF Fields, SameFiling, SameLoop
  <2>3. DOMAIN page'.exp = {"pc", "imgs", "handle"} /\ page'.exp.handle = page.exp.handle
    BY <1>1, <2>2
  <2>4. OneOwner(page) => OneOwner(page')
    BY <2>2, <2>3 DEF OneOwner
  <2> QED
    BY <1>1, <1>2, <2>1, <2>2, <2>3, <2>4
<1>4. CASE EndExport
  <2>1. page' = [page EXCEPT !.exp = NoExport, !.waits = {}] /\ SameFiles
    BY <1>4 DEF EndExport, Becomes, SameFiles
  <2>2. /\ Beside /\ page'.exp = NoExport
        /\ page'.pdf = page.pdf /\ page'.preload = page.preload
    BY <1>1, <2>1 DEF Fields, SameFiling, SameLoop
  <2>3. DOMAIN page'.exp = {"pc", "imgs", "handle"} /\ page'.exp.handle = None
    BY <2>2 DEF NoExport
  <2>4. OneOwner(page) => OneOwner(page')
    BY <2>2, <2>3 DEF OneOwner
  <2> QED
    BY <1>1, <1>2, <2>1, <2>2, <2>3, <2>4
<1>5. CASE StartPdf
  <2>1. PICK pdf : pdf = IF page.preload = None THEN NewHandle ELSE page.preload
    OBVIOUS
  <2>2. page' = [page EXCEPT !.pdf = pdf, !.preload = None] /\ SameFiles /\ page.pdf = None
    BY <1>5, <2>1 DEF StartPdf, OneAct, SameFiles, PageInv, SpentFiles
  <2>3. Beside /\ page'.exp = page.exp /\ page'.pdf = pdf /\ page'.preload = None
    BY <1>1, <2>2 DEF Fields, SameFiling, SameLoop
  <2>4. pdf \in Owned /\ (OneOwner(page) => pdf \notin {page.bg, page.claim, page.exp.handle})
    <3>1. CASE page.preload = None
      BY <2>1, <3>1, HandleIsNew DEF Owned
    <3>2. CASE page.preload # None
      BY <1>1, <2>1, <3>2 DEF OneOwner
    <3> QED
      BY <3>1, <3>2
  <2>5. OneOwner(page) => OneOwner(page')
    BY <2>3, <2>4 DEF OneOwner
  <2> QED
    BY <1>1, <1>2, <2>2, <2>3, <2>4, <2>5 DEF Owned
<1>6. CASE EndPdf
  <2>1. page' = [page EXCEPT !.pdf = None] /\ SameFiles
    BY <1>6 DEF EndPdf, Becomes, SameFiles
  <2>2. Beside /\ page'.exp = page.exp /\ page'.pdf = None /\ page'.preload = page.preload
    BY <1>1, <2>1 DEF Fields, SameFiling, SameLoop
  <2>3. OneOwner(page) => OneOwner(page')
    BY <2>2 DEF OneOwner
  <2> QED
    BY <1>1, <1>2, <2>1, <2>2, <2>3 DEF Owned
<1>7. CASE PreloadScribe
  <2>1. PICK h : h = NewHandle
    OBVIOUS
  <2>2. page' = [page EXCEPT !.preload = h] /\ SameFiles /\ page.preload = None
    BY <1>7, <2>1 DEF PreloadScribe, Becomes, SameFiles
  <2>3. Beside /\ page'.exp = page.exp /\ page'.pdf = page.pdf /\ page'.preload = h
    BY <1>1, <2>2 DEF Fields, SameFiling, SameLoop
  <2>4. h \in Owned /\ h \notin {page.bg, page.claim, page.exp.handle, page.pdf}
    BY <2>1, <2>2, HandleIsNew DEF Owned
  <2>5. OneOwner(page) => OneOwner(page')
    BY <2>3, <2>4 DEF OneOwner
  <2> QED
    BY <1>1, <1>2, <2>2, <2>3, <2>4, <2>5
<1> QED
  BY <1>3, <1>4, <1>5, <1>6, <1>7

(* cleanupAllData() takes every image away, and its text with it. *)
LEMMA ShredStep ==
  ASSUME PageInv, Shred
  PROVE  PageInv' /\ (WatchInv => WatchInv')
<1> DEFINE P == SettleAll(page, Live(page))
           image == [m \in Images |-> [P.image[m] EXCEPT !.hash = 0,
                                                         !.text = @ /\ m \notin Live(P)]]
<1>1. /\ page' = [P EXCEPT !.slots = <<>>, !.docs = <<>>, !.active = None, !.pending = None,
                           !.preBW = {}, !.queue = <<>>, !.current = None, !.processing = FALSE,
                           !.aborted = P.loop # NoLoop, !.bg = None, !.preload = None,
                           !.image = image]
      /\ SameFiles
  BY DEF Shred, OneAct, SameFiles, PageInv, SpentFiles
<1>2. Follows(page, P) /\ IsPage(P) /\ P.slots = page.slots /\ P.made = page.made
  BY DocumentsOf, SettleAllKeeps DEF Follows, SameFiling
<1> HIDE DEF P
<1>3. ASSUME NEW m \in Images
      PROVE  image[m] \in AnImage /\ (image[m].text => P.image[m].text /\ m \notin Live(page))
  <2>1. P.image[m] \in AnImage
    BY <1>2 DEF IsPage
  <2>2. image[m] = [P.image[m] EXCEPT !.hash = 0, !.text = @ /\ m \notin Live(P)]
    OBVIOUS
  <2>3. Live(P) = Live(page)
    BY <1>2 DEF Live
  <2> QED
    BY <2>1, <2>2, <2>3 DEF AnImage
<1>4. image \in [Images -> AnImage]
  BY <1>3
<1> HIDE DEF image
<1>5. DOMAIN P = Fields
  BY <1>2 DEF IsPage
<1>6. /\ DOMAIN page' = Fields /\ page'.slots = <<>> /\ page'.docs = <<>>
      /\ page'.made = page.made /\ page'.image = image /\ page'.processing = FALSE
      /\ page'.aborted = (P.loop # NoLoop) /\ page'.loop = P.loop /\ page'.bg = None
      /\ page'.preload = None /\ page'.claim = P.claim /\ page'.exp = P.exp /\ page'.pdf = P.pdf
  BY <1>1, <1>2, <1>5 DEF Fields
<1>7. page'.slots \in Seq(Nat) /\ page'.docs \in Seq(ADoc) /\ Len(page'.docs) <= MaxDocs
  BY <1>6, EmptySeq, PageAssumption
<1>8. IsPage(page')
  BY <1>2, <1>4, <1>6, <1>7 DEF IsPage, Owned
<1>9. OneOwner(page')
  <2>1. OneOwner(P)
    BY <1>2 DEF PageInv, Follows
  <2> QED
    BY <1>6, <2>1 DEF OneOwner
<1>10. Live(page') = {} /\ Filing(page')
  BY <1>6 DEF Filing, Indexed, Injects, FiledIn, Live, ToSet
<1>11. LoopGood(page')
  <2>1. P.loop.pc \in {"scribe", "load", "recognize"} => P.loop # NoLoop
    BY DEF NoLoop
  <2>2. page'.loop.pc \in {"scribe", "load", "recognize"} => page'.aborted
    BY <1>6, <2>1
  <2> QED
    BY <1>6, <2>2 DEF LoopGood, OnItsImage, LeftBehind
<1>12. GoneHasNoText => GoneHasNoText'
  <2> SUFFICES ASSUME GoneHasNoText, NEW m \in Images PROVE ~page'.image[m].text
    BY DEF GoneHasNoText
  <2>1. m \notin Live(page) => ~P.image[m].text
    BY <1>2 DEF GoneHasNoText, Follows, TextOnlyLost
  <2> QED
    BY <1>3, <1>6, <2>1
<1>13. SpentFiles'
  BY <1>1, <1>6 DEF PageInv, SpentFiles, SameFiles
<1> QED
  BY <1>8, <1>9, <1>10, <1>11, <1>12, <1>13 DEF PageInv, WatchInv

-----------------------------------------------------------------------------
(* The theorems. *)

LEMMA StepPage ==
  ASSUME PageInv, [Next]_vars
  PROVE  PageInv' /\ (WatchInv /\ ~Hasty => WatchInv')
<1>1. CASE Loop
  BY <1>1, LoopGetsHandleStep, LoopLacksHandleStep, LoopLoadsStep, LoopRecognizesStep,
     LoopFailsStep, LoopClearsStep DEF Loop
<1>2. CASE Documents
  <2>1. CASE BatchStart \/ BatchStartIfNonempty \/ BatchEnd
    BY <2>1, BatchStep
  <2>2. CASE \E m \in Images : MoveToNew(m) \/ \E d \in 1 .. MaxDocs : Move(m, d)
    BY <2>2, MoveStep, MoveToNewStep
  <2>3. CASE \E i, j \in Slots : Reorder(i, j)
    BY <2>3, ReorderStep
  <2>4. CASE \E i \in Slots : Discard(i)
    BY <2>4, DiscardStep
  <2> QED
    BY <1>2, <2>1, <2>2, <2>3, <2>4 DEF Documents
<1>3. CASE Files
  <2>1. CASE AnnounceResend \/ \E m \in Images \cup {Unknown} : AnnounceCrop(m)
    BY <2>1, AnnounceStep
  <2>2. CASE \E acked \in BOOLEAN : Replace(acked)
    BY <2>2, ReplaceStep
  <2>3. CASE \E isPhoto \in BOOLEAN : AddNew(isPhoto)
    BY <2>3, AddNewStep
  <2> QED
    BY <1>3, <2>1, <2>2, <2>3 DEF Files
<1>4. CASE Edits
  BY <1>4, EditStep
<1>5. CASE Exports
  BY <1>5, StartExportStep, BuildStep, HandleStep DEF Exports
<1>6. CASE PreloadScribe
  BY <1>6, HandleStep
<1>7. CASE Shred
  BY <1>7, ShredStep
<1>8. CASE UNCHANGED vars
  <2>1. page' = page /\ SameFiles
    BY <1>8 DEF vars, SameFiles
  <2> QED
    BY <2>1, DocumentsOf, FollowsSelf, FollowsStep
<1> QED
  BY <1>1, <1>2, <1>3, <1>4, <1>5, <1>6, <1>7, <1>8 DEF Next

\* Every state of the receive page has the invariant: well formed, handles with
\* one owner, images filed, and no more images than files came.
THEOREM PageInvHolds == Spec => []PageInv
<1>1. Init => PageInv
  BY InitPage
<1>2. PageInv /\ [Next]_vars => PageInv'
  BY StepPage
<1> QED
  BY <1>1, <1>2, PTL DEF Spec

LEMMA OneDocument ==
  ASSUME NEW docs, NEW active, NEW L, FiledIn(docs, active, L), NEW m \in L
  PROVE  Cardinality({k \in DOMAIN docs : m \in docs[k].imgs}) = 1
<1>1. PICK k \in DOMAIN docs : m \in docs[k].imgs
  BY DEF FiledIn
<1>2. {j \in DOMAIN docs : m \in docs[j].imgs} = {k}
  BY <1>1 DEF FiledIn
<1> QED
  BY <1>2, FS_Singleton

\* Whatever is moved, replaced, deleted, discarded or ends a batch, every image
\* the page holds is in exactly one document, and no document holds one that is
\* gone: an export of all documents has every image once.
THEOREM EveryImageFiled == Spec => []Filed
<1>1. PageInv => Filed
  <2> SUFFICES ASSUME PageInv PROVE Filed
    OBVIOUS
  <2>1. FiledIn(page.docs, page.active, Live(page))
    BY DocumentsOf
  <2>2. \A m \in Live(page) : Cardinality({k \in DOMAIN page.docs : m \in page.docs[k].imgs}) = 1
    BY <2>1, OneDocument
  <2>3. \A k \in DOMAIN page.docs : page.docs[k].imgs \subseteq Live(page)
    BY <2>1 DEF FiledIn
  <2> QED
    BY <2>2, <2>3 DEF Filed
<1> QED
  BY <1>1, PageInvHolds, PTL

\* The background OCR, the preload slot and the two exports never own the same
\* scribe handle, however acquireScribeForExport() and the loop interleave.
THEOREM HandlesHaveOneOwner == Spec => []HandleHasOneOwner
<1>1. PageInv => HandleHasOneOwner
  BY DEF PageInv, OneOwner, HandleHasOneOwner
<1> QED
  BY <1>1, PageInvHolds, PTL

\* An image that is discarded, deleted or shredded while it is being recognized
\* gets no text, as long as nobody swaps cards under the OCR.
THEOREM NothingGoneIsKept ==
  ASSUME ~Hasty
  PROVE  Spec => []GoneHasNoText
<1>1. Init => WatchInv
  BY InitPage
<1>2. PageInv /\ WatchInv /\ [Next]_vars => WatchInv'
  BY StepPage
<1>3. WatchInv => GoneHasNoText
  BY DEF WatchInv
<1> QED
  BY <1>1, <1>2, <1>3, PageInvHolds, PTL DEF Spec

=============================================================================
