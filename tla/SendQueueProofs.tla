---------------------------- MODULE SendQueueProofs ----------------------------
(***************************************************************************)
(* What SendQueue guarantees for every number of photos, picks, loops,     *)
(* drops and reconnects: types, one drain loop on a connection, order,     *)
(* the keys of the session, and what the gallery knows of the receiver;    *)
(* and that the queue implements Outbox as long as the user takes nothing  *)
(* out of it.                                                              *)
(***************************************************************************)
EXTENDS SendQueue, SequenceTheorems, WellFoundedInduction, TLAPS

-----------------------------------------------------------------------------
(* Sequences: their elements, their first match, one element less.         *)

LEMMA SetOfSeq ==
  ASSUME NEW S, NEW s \in Seq(S)
  PROVE  /\ ToSet(s) \subseteq S
         /\ \A x : x \in ToSet(s) <=> \E i \in 1..Len(s) : x = s[i]
<1>1. DOMAIN s = 1..Len(s) /\ \A i \in 1..Len(s) : s[i] \in S
  BY LenProperties, ElementOfSeq
<1> QED
  BY <1>1 DEF ToSet

LEMMA LeastOf ==
  ASSUME NEW I \in SUBSET Nat, I # {}
  PROVE  Min(I) \in I
<1>1. PICK x \in I : \A y \in I : ~(<<y, x>> \in OpToRel(<, Nat))
  BY NatLessThanWellFounded, WFMin
<1>2. \A a, b \in Nat : a < b => <<a, b>> \in OpToRel(<, Nat)
  BY Zenon DEF OpToRel
<1>3. \A y \in I : ~(y < x)
  BY <1>1, <1>2
<1>4. \A y \in I : x <= y
  BY <1>3
<1> QED
  BY <1>1, <1>4 DEF Min

\* The image of a hash, and the first queued item of a photo.
WithHash(h)  == {i \in 1..Len(images) : images[i].hash = h}
FirstHash(h) == IF WithHash(h) # {} THEN Min(WithHash(h)) ELSE 0

LEMMA ImageOf ==
  ASSUME NEW h
  PROVE  /\ FirstHash(h) # 0 => FirstHash(h) \in 1..Len(images) /\ images[FirstHash(h)].hash = h
         /\ FirstHash(h) = 0 => \A j \in 1..Len(images) : images[j].hash # h
<1> DEFINE I == {i \in 1..Len(images) : images[i].hash = h}
<1>1. FirstHash(h) = IF I # {} THEN Min(I) ELSE 0
  BY DEF FirstHash, WithHash
<1>2. I \in SUBSET Nat
  OBVIOUS
<1> HIDE DEF I
<1>3. I # {} => Min(I) \in I
  BY <1>2, LeastOf
<1> QED
  BY <1>1, <1>2, <1>3 DEF I

LEMMA ItemOf ==
  ASSUME NEW p
  PROVE  QueuedOf(p) # 0 => QueuedOf(p) \in 1..Len(queue) /\ item[queue[QueuedOf(p)]].photo = p
<1> DEFINE I == {i \in 1..Len(queue) : item[queue[i]].photo = p}
<1>1. QueuedOf(p) = IF I # {} THEN Min(I) ELSE 0
  BY DEF QueuedOf, SelectInSeq
<1>2. I \in SUBSET Nat
  OBVIOUS
<1> HIDE DEF I
<1>3. I # {} => Min(I) \in I
  BY <1>2, LeastOf
<1> QED
  BY <1>1, <1>2, <1>3 DEF I

LEMMA RemovedAt ==
  ASSUME NEW S, NEW s \in Seq(S), NEW k \in 1..Len(s)
  PROVE  /\ RemoveAt(s, k) \in Seq(S)
         /\ Len(RemoveAt(s, k)) = Len(s) - 1
         /\ \A i \in 1..Len(s) - 1 : RemoveAt(s, k)[i] = IF i < k THEN s[i] ELSE s[i + 1]
<1>1. Len(s) \in Nat /\ \A i \in 1..Len(s) : s[i] \in S
  BY LenProperties, ElementOfSeq
<1>2. PICK a : a = SubSeq(s, 1, k - 1)
  OBVIOUS
<1>3. PICK b : b = SubSeq(s, k + 1, Len(s))
  OBVIOUS
<1>4. /\ a \in Seq(S) /\ Len(a) = k - 1
      /\ \A i \in 1..k - 1 : a[i] = s[i]
  <2>1. k - 1 \in Int /\ \A i \in 1..k - 1 : s[i] \in S
    BY <1>1
  <2>2. /\ SubSeq(s, 1, k - 1) \in Seq(S)
        /\ Len(SubSeq(s, 1, k - 1)) = IF 1 <= k - 1 THEN (k - 1) - 1 + 1 ELSE 0
        /\ \A i \in 1..(k - 1) - 1 + 1 : SubSeq(s, 1, k - 1)[i] = s[1 + i - 1]
    BY <2>1, SubSeqProperties
  <2> QED
    BY <1>2, <2>1, <2>2
<1>5. /\ b \in Seq(S) /\ Len(b) = Len(s) - k
      /\ \A i \in 1..Len(s) - k : b[i] = s[k + i]
  <2>1. k + 1 \in Int /\ \A i \in k + 1..Len(s) : s[i] \in S
    BY <1>1
  <2>2. /\ SubSeq(s, k + 1, Len(s)) \in Seq(S)
        /\ Len(SubSeq(s, k + 1, Len(s))) = IF k + 1 <= Len(s) THEN Len(s) - (k + 1) + 1 ELSE 0
        /\ \A i \in 1..Len(s) - (k + 1) + 1 : SubSeq(s, k + 1, Len(s))[i] = s[(k + 1) + i - 1]
    BY <1>1, <2>1, SubSeqProperties
  <2> QED
    BY <1>1, <1>3, <2>1, <2>2
<1>6. RemoveAt(s, k) = a \o b
  BY <1>2, <1>3 DEF RemoveAt
<1>7. /\ a \o b \in Seq(S) /\ Len(a \o b) = Len(a) + Len(b)
      /\ \A i \in 1..Len(a) + Len(b) : (a \o b)[i] = IF i <= Len(a) THEN a[i] ELSE b[i - Len(a)]
  BY <1>4, <1>5, ConcatProperties
<1>8. ASSUME NEW i \in 1..Len(s) - 1 PROVE (a \o b)[i] = IF i < k THEN s[i] ELSE s[i + 1]
  <2>1. CASE i < k
    BY <1>1, <1>4, <1>5, <1>7, <2>1
  <2>2. CASE ~(i < k)
    <3>1. i - Len(a) \in 1..Len(s) - k /\ k + (i - Len(a)) = i + 1
      BY <1>1, <1>4, <2>2
    <3>2. (a \o b)[i] = b[i - Len(a)]
      BY <1>1, <1>4, <1>5, <1>7, <2>2
    <3> QED
      BY <1>5, <2>2, <3>1, <3>2
  <2> QED
    BY <2>1, <2>2
<1> QED
  BY <1>1, <1>4, <1>5, <1>6, <1>7, <1>8

\* The queue ascends: items leave it from anywhere and enter at its end.
Ascending(s) == \A j, k \in 1..Len(s) : j < k => s[j] < s[k]

LEMMA TailAscends ==
  ASSUME NEW S \in SUBSET Nat, NEW s \in Seq(S), s # <<>>, Ascending(s)
  PROVE  /\ Head(s) \in ToSet(s) /\ Tail(s) \in Seq(S) /\ Ascending(Tail(s))
         /\ ToSet(Tail(s)) = ToSet(s) \ {Head(s)}
         /\ \A x \in ToSet(s) : Head(s) <= x
<1>1. /\ Tail(s) \in Seq(S) /\ Len(Tail(s)) = Len(s) - 1 /\ Len(s) \in Nat \ {0}
      /\ \A i \in 1..Len(Tail(s)) : Tail(s)[i] = s[i + 1]
      /\ \A i \in 1..Len(s) : s[i] \in Nat
      /\ Head(s) = s[1]
  <2>1. \A i \in 1..Len(s) : s[i] \in S
    BY ElementOfSeq
  <2>2. Head(s) = s[1]
    OBVIOUS
  <2> QED
    BY <2>1, <2>2, HeadTailProperties, LenProperties, EmptySeq
<1>2. Ascending(Tail(s))
  BY <1>1 DEF Ascending
<1>3. \A i \in 2..Len(s) : s[1] < s[i]
  BY <1>1 DEF Ascending
<1>4. ToSet(s) = {s[i] : i \in 1..Len(s)} /\ ToSet(Tail(s)) = {Tail(s)[i] : i \in 1..Len(Tail(s))}
  BY <1>1, LenProperties DEF ToSet
<1>5. \A x \in ToSet(Tail(s)) : x \in ToSet(s) /\ x # Head(s)
  BY <1>1, <1>3, <1>4
<1>6. ASSUME NEW x \in ToSet(s), x # Head(s) PROVE x \in ToSet(Tail(s))
  <2>1. PICK i \in 1..Len(s) : x = s[i]
    BY <1>4
  <2>2. i - 1 \in 1..Len(Tail(s)) /\ Tail(s)[i - 1] = s[i]
    BY <1>1, <1>6, <2>1
  <2> QED
    BY <1>4, <2>1, <2>2
<1>7. Head(s) \in ToSet(s) /\ \A x \in ToSet(s) : Head(s) <= x
  <2>1. 1 \in 1..Len(s)
    BY <1>1
  <2>2. \A i \in 1..Len(s) : s[1] <= s[i]
    BY <1>1, <1>3, <2>1
  <2> QED
    BY <1>1, <1>4, <2>1, <2>2
<1> QED
  BY <1>1, <1>2, <1>5, <1>6, <1>7

LEMMA AppendAscends ==
  ASSUME NEW S \in SUBSET Nat, NEW s \in Seq(S), NEW x \in S, Ascending(s), \A y \in ToSet(s) : y < x
  PROVE  /\ Append(s, x) \in Seq(S) /\ Ascending(Append(s, x))
         /\ ToSet(Append(s, x)) = ToSet(s) \cup {x}
<1>1. /\ Append(s, x) \in Seq(S) /\ Len(Append(s, x)) = Len(s) + 1 /\ Len(s) \in Nat
      /\ \A i \in 1..Len(s) : Append(s, x)[i] = s[i]
      /\ Append(s, x)[Len(s) + 1] = x
  BY AppendProperties, LenProperties
<1>2. ToSet(s) = {s[i] : i \in 1..Len(s)} /\ ToSet(Append(s, x)) = {Append(s, x)[i] : i \in 1..Len(s) + 1}
  BY <1>1, LenProperties DEF ToSet
<1>3. \A i \in 1..Len(s) : s[i] < x
  BY <1>2
<1>4. Ascending(Append(s, x))
  BY <1>1, <1>3 DEF Ascending
<1>5. \A i \in 1..Len(s) + 1 : i \in 1..Len(s) \/ i = Len(s) + 1
  BY <1>1
<1>6. \A y : y \in ToSet(Append(s, x)) => y \in ToSet(s) \cup {x}
  BY <1>1, <1>2, <1>5
<1>7. \A y \in ToSet(s) \cup {x} : y \in ToSet(Append(s, x))
  <2>1. Len(s) + 1 \in 1..Len(s) + 1 /\ \A i \in 1..Len(s) : i \in 1..Len(s) + 1
    BY <1>1
  <2> QED
    BY <1>1, <1>2, <2>1
<1> QED
  BY <1>1, <1>4, <1>6, <1>7

LEMMA RemovedAscends ==
  ASSUME NEW S \in SUBSET Nat, NEW s \in Seq(S), NEW k \in 1..Len(s), Ascending(s)
  PROVE  /\ RemoveAt(s, k) \in Seq(S) /\ Ascending(RemoveAt(s, k))
         /\ ToSet(RemoveAt(s, k)) = ToSet(s) \ {s[k]}
<1>1. PICK t : t = RemoveAt(s, k)
  OBVIOUS
<1>2. /\ t \in Seq(S) /\ Len(t) = Len(s) - 1 /\ Len(s) \in Nat
      /\ \A i \in 1..Len(s) - 1 : t[i] = IF i < k THEN s[i] ELSE s[i + 1]
      /\ \A i \in 1..Len(s) : s[i] \in Nat
  BY <1>1, RemovedAt, LenProperties, ElementOfSeq
<1>3. Ascending(t)
  <2> SUFFICES ASSUME NEW i \in 1..Len(t), NEW j \in 1..Len(t), i < j PROVE t[i] < t[j]
    BY DEF Ascending
  <2>1. i \in 1..Len(s) /\ j \in 1..Len(s) /\ i + 1 \in 1..Len(s) /\ j + 1 \in 1..Len(s)
    BY <1>2
  <2>2. s[i] < s[j] /\ s[i + 1] < s[j + 1]
    BY <1>2, <2>1 DEF Ascending
  <2>3. s[i] \in Nat /\ s[j] \in Nat /\ s[i + 1] \in Nat /\ s[j + 1] \in Nat
    BY <1>2, <2>1
  <2>4. t[i] = (IF i < k THEN s[i] ELSE s[i + 1]) /\ t[j] = (IF j < k THEN s[j] ELSE s[j + 1])
    BY <1>2
  <2>5. CASE i < k
    <3>1. t[i] = s[i] /\ s[i] < s[j] /\ s[j] < s[j + 1]
      BY <1>2, <2>1, <2>2, <2>4, <2>5 DEF Ascending
    <3>2. t[j] = s[j] \/ t[j] = s[j + 1]
      BY <2>4
    <3> QED
      BY <2>3, <3>1, <3>2
  <2>6. CASE ~(i < k)
    <3>1. t[i] = s[i + 1] /\ t[j] = s[j + 1]
      BY <2>4, <2>6
    <3> QED
      BY <2>2, <3>1
  <2> QED
    BY <2>5, <2>6
<1>4. ToSet(s) = {s[i] : i \in 1..Len(s)} /\ ToSet(t) = {t[i] : i \in 1..Len(t)}
  BY <1>2, LenProperties DEF ToSet
<1>5. \A i \in 1..Len(s) : i # k => s[i] # s[k]
  BY <1>2 DEF Ascending
<1>6. ASSUME NEW i \in 1..Len(t) PROVE t[i] \in ToSet(s) \ {s[k]}
  <2>1. i \in 1..Len(s) /\ i + 1 \in 1..Len(s)
    BY <1>2
  <2> QED
    BY <1>2, <1>4, <1>5, <2>1
<1>7. ASSUME NEW i \in 1..Len(s), i # k PROVE s[i] \in ToSet(t)
  <2>1. CASE i < k
    <3>1. i \in 1..Len(t) /\ t[i] = s[i]
      BY <1>2, <2>1
    <3> QED
      BY <1>4, <3>1
  <2>2. CASE ~(i < k)
    <3>1. i - 1 \in 1..Len(t) /\ t[i - 1] = s[i]
      BY <1>2, <1>7, <2>2
    <3> QED
      BY <1>4, <3>1
  <2> QED
    BY <2>1, <2>2
<1>8. ToSet(t) = ToSet(s) \ {s[k]}
  BY <1>4, <1>6, <1>7
<1> QED
  BY <1>1, <1>2, <1>3, <1>8

-----------------------------------------------------------------------------
(* Types, and the queue's order that its types rest on.                    *)

Working == {"create", "rewind", "start", "send", "ack"}
Resting == {"off", "top"}

QueueTypes ==
  /\ item \in Seq(Item) /\ queue \in Seq(1..Len(item))
  /\ isSending \in BOOLEAN /\ pausedOnTransient \in BOOLEAN
  /\ pendingBatchStart \in BOOLEAN /\ pendingBatchEnd \in BOOLEAN
  /\ loop \in [Loops -> LoopState] /\ resuming \in 0..Len(item)

GalleryTypes ==
  /\ photo \in [Photo -> GalleryPhoto] /\ capturing \in 0..NumPhotos
  /\ picks \in 0..Len(PickSizes) /\ picking \in Nat
  /\ edits \in [crops : 0..MaxCrops, rotations : 0..MaxRotations,
                deletes : 0..MaxDeletes, pairings : 0..MaxPairings]
  /\ chosen \in [pick : Nat, photo : Nat]

SessionTypes ==
  /\ session \in Nat \ {0} /\ verified \in BOOLEAN /\ hasWinner \in BOOLEAN
  /\ connected \in BOOLEAN /\ reconnects \in 0..MaxReconnects

PairingTypes ==
  /\ up \in BOOLEAN /\ drops \in 0..MaxDrops /\ partial \in BOOLEAN /\ offer \in BOOLEAN
  /\ images \in Seq(Image) /\ pendingReplaceHash \in Nat \X Nat
  /\ collection \in Nat /\ shownItems \in Seq(Nat)

LEMMA TypesAreThese == TypeOK <=> QueueTypes /\ GalleryTypes /\ SessionTypes /\ PairingTypes
  BY DEF TypeOK, QueueTypes, GalleryTypes, SessionTypes, PairingTypes

\* A loop that works has an item.
LoopItems == \A l \in Loops : loop[l].at \in Working => loop[l].item \in 1..Len(item)

Base ==
  /\ QueueTypes /\ GalleryTypes /\ SessionTypes /\ PairingTypes
  /\ LoopItems /\ Ascending(queue)

-----------------------------------------------------------------------------
(* What the operators of the actions do.                                   *)

LEMMA OffFacts ==
  /\ Off \in LoopState /\ Off.at = "off" /\ Off.item = 0 /\ Off.via = 0 /\ Off.stream = NoStream
  /\ [Off EXCEPT !.at = "top"] \in LoopState /\ [Off EXCEPT !.at = "top"].at = "top"
  /\ NoStream \in Stream /\ NoStream.session = 0
  BY DEF Off, LoopState, NoStream, Stream

\* One loop becomes r.
LEMMA OneLoopTyped ==
  ASSUME QueueTypes, NEW l \in Loops, NEW r \in LoopState, loop' = [loop EXCEPT ![l] = r]
  PROVE  /\ loop' \in [Loops -> LoopState] /\ loop'[l] = r
         /\ \A k \in Loops : k # l => loop'[k] = loop[k]
  BY DEF QueueTypes

LEMMA LeaveQueueFacts ==
  ASSUME QueueTypes, NEW l \in Loops, LeaveQueue(l)
  PROVE  /\ loop' \in [Loops -> LoopState] /\ loop'[l] = Off /\ ~isSending' /\ isSending' \in BOOLEAN
         /\ \A k \in Loops : k # l => loop'[k] = loop[k]
  BY OffFacts, OneLoopTyped DEF LeaveQueue

\* A new loop that stands at the top; the others as they were.
Begins ==
  /\ ~isSending /\ isSending'
  /\ \E l \in Loops : /\ loop[l].at = "off" /\ loop'[l].at = "top"
                      /\ \A k \in Loops : k # l => loop'[k] = loop[k]

LEMMA StartDrainFacts ==
  ASSUME QueueTypes, NEW paused, StartDrain(paused)
  PROVE  /\ loop' \in [Loops -> LoopState] /\ isSending' \in BOOLEAN
         /\ (isSending' = isSending /\ loop' = loop) \/ Begins
<1>1. CASE isSending \/ paused
  BY <1>1 DEF StartDrain, QueueTypes
<1>2. CASE ~(isSending \/ paused)
  <2>1. PICK l \in Loops : loop[l].at = "off" /\ loop' = [loop EXCEPT ![l].at = "top"]
    BY <1>2 DEF StartDrain
  <2>2. PICK r : r = [loop[l] EXCEPT !.at = "top"]
    OBVIOUS
  <2>3. loop[l] \in LoopState
    BY DEF QueueTypes
  <2>4. r \in LoopState /\ r.at = "top"
    BY <2>2, <2>3 DEF LoopState
  <2>5. /\ loop' \in [Loops -> LoopState] /\ loop'[l] = r
        /\ \A k \in Loops : k # l => loop'[k] = loop[k]
    BY <2>1, <2>2, <2>4, OneLoopTyped
  <2>6. ~isSending /\ isSending' = TRUE
    BY <1>2 DEF StartDrain
  <2> QED
    BY <2>1, <2>4, <2>5, <2>6 DEF Begins
<1> QED
  BY <1>1, <1>2

LEMMA KickFacts ==
  ASSUME QueueTypes, Kick
  PROVE  /\ loop' \in [Loops -> LoopState] /\ isSending' \in BOOLEAN
         /\ (isSending' = isSending /\ loop' = loop) \/ Begins
<1>1. CASE queue # <<>>
  BY <1>1, StartDrainFacts DEF Kick
<1>2. CASE queue = <<>>
  BY <1>2 DEF Kick, QueueTypes
<1> QED
  BY <1>1, <1>2

\* The loop that begins the send of item i.
LEMMA SendOnePhotoFacts ==
  ASSUME QueueTypes, SessionTypes, NEW i \in 1..Len(item), NEW resume \in BOOLEAN
  PROVE  LET r == SendOnePhoto(i, resume) IN
           /\ r \in LoopState /\ r.at \in {"create", "rewind", "start"} /\ r.item = i
           /\ r.stream = IF item[i].stream = NoStream
                         THEN [session |-> session, bytes |-> item[i].bytes, started |-> FALSE]
                         ELSE item[i].stream
<1>1. item[i] \in Item
  BY ElementOfSeq DEF QueueTypes
<1>2. item[i].stream \in Stream /\ item[i].bytes \in Nat /\ session \in Nat /\ i \in Nat
  <2>1. item[i].stream \in Stream /\ item[i].bytes \in Nat
    BY <1>1 DEF Item
  <2>2. Len(item) \in Nat
    BY LenProperties DEF QueueTypes
  <2> QED
    BY <2>1, <2>2 DEF SessionTypes
<1>3. PICK s : s = IF item[i].stream = NoStream
                   THEN [session |-> session, bytes |-> item[i].bytes, started |-> FALSE]
                   ELSE item[i].stream
  OBVIOUS
<1>4. s \in Stream
  BY <1>2, <1>3 DEF Stream
<1>5. PICK a : a = IF item[i].stream = NoStream THEN "create"
                   ELSE IF item[i].stream.started /\ ~resume THEN "rewind" ELSE "start"
  OBVIOUS
<1>6. a \in {"create", "rewind", "start"}
  BY <1>5
<1>7. SendOnePhoto(i, resume) = [at |-> a, item |-> i, stream |-> s, via |-> 0,
                                 resume |-> resume, cut |-> FALSE]
  BY <1>3, <1>5 DEF SendOnePhoto
<1> QED
  BY <1>2, <1>3, <1>4, <1>6, <1>7 DEF LoopState

\* One item becomes r.
LEMMA OneItemTyped ==
  ASSUME QueueTypes, NEW i \in 1..Len(item), NEW r \in Item, item' = [item EXCEPT ![i] = r]
  PROVE  /\ item' \in Seq(Item) /\ Len(item') = Len(item) /\ item'[i] = r
         /\ \A j \in 1..Len(item) : j # i => item'[j] = item[j]
<1>1. item \in Seq(Item)
  BY DEF QueueTypes
<1> QED
  BY <1>1, ExceptSeq

\* What no step but createSender() does to an item.
StreamKept(i) ==
  \/ item'[i].stream = NoStream
  \/ /\ item[i].stream # NoStream
     /\ item'[i].stream.session = item[i].stream.session
     /\ item'[i].stream.bytes = item[i].stream.bytes

BytesKept(i) == item'[i].bytes = item[i].bytes \/ item'[i].bytes > 0

ItemsKept ==
  /\ Len(item') \in {Len(item), Len(item) + 1}
  /\ \A i \in 1..Len(item) : /\ StreamKept(i) /\ item'[i].photo = item[i].photo
                             /\ item'[i].replace = item[i].replace /\ BytesKept(i)
  /\ Len(item') = Len(item) + 1 =>
       /\ item'[Len(item) + 1].stream = NoStream /\ item'[Len(item) + 1].bytes > 0
       /\ edits'.crops = 0 => /\ item'[Len(item) + 1].replace = 0
                              /\ item'[Len(item) + 1].photo \in {0, capturing}

LEMMA KeptItems ==
  ASSUME Len(item) \in Nat, Len(item') = Len(item),
         \A i \in 1..Len(item) : StreamKept(i) /\ item'[i].photo = item[i].photo
                                 /\ item'[i].replace = item[i].replace /\ BytesKept(i)
  PROVE  ItemsKept
<1>1. Len(item') # Len(item) + 1
  OBVIOUS
<1> QED
  BY <1>1 DEF ItemsKept

LEMMA SameItems ==
  ASSUME item' = item
  PROVE  ItemsKept
  BY DEF ItemsKept, StreamKept, BytesKept

LEMMA OneItemKept ==
  ASSUME QueueTypes, NEW i \in 1..Len(item), NEW r \in Item, item' = [item EXCEPT ![i] = r],
         \/ r.stream = item[i].stream
         \/ r.stream = NoStream
         \/ item[i].stream # NoStream /\ r.stream.session = item[i].stream.session
                                      /\ r.stream.bytes = item[i].stream.bytes,
         r.photo = item[i].photo, r.replace = item[i].replace,
         r.bytes = item[i].bytes \/ r.bytes > 0
  PROVE  /\ item' \in Seq(Item) /\ Len(item') = Len(item) /\ ItemsKept /\ item'[i] = r
         /\ \A j \in 1..Len(item) : j # i => item'[j] = item[j]
<1>1. /\ item' \in Seq(Item) /\ Len(item') = Len(item) /\ item'[i] = r
      /\ \A j \in 1..Len(item) : j # i => item'[j] = item[j]
  BY OneItemTyped
<1>2. Len(item) \in Nat
  BY LenProperties DEF QueueTypes
<1>3. ASSUME NEW j \in 1..Len(item)
      PROVE  /\ StreamKept(j) /\ item'[j].photo = item[j].photo
             /\ item'[j].replace = item[j].replace /\ BytesKept(j)
  <2>1. CASE j = i
    BY <1>1, <2>1 DEF StreamKept, BytesKept
  <2>2. CASE j # i
    BY <1>1, <2>2 DEF StreamKept, BytesKept
  <2> QED
    BY <2>1, <2>2
<1>5. ItemsKept
  BY <1>1, <1>2, <1>3, KeptItems
<1> QED
  BY <1>1, <1>5

\* What leaves the queue was in it, and what enters it is new.
QueueMoves ==
  /\ queue' \in Seq(1..Len(item')) /\ Ascending(queue')
  /\ \A q \in ToSet(queue') : q \in ToSet(queue) \/ (q = Len(item) + 1 /\ Len(item') = Len(item) + 1)

LEMMA QueueElements ==
  ASSUME QueueTypes
  PROVE  /\ Len(item) \in Nat /\ 1..Len(item) \in SUBSET Nat
         /\ \A q \in ToSet(queue) : q \in 1..Len(item) /\ item[q] \in Item
<1>1. queue \in Seq(1..Len(item)) /\ item \in Seq(Item)
  BY DEF QueueTypes
<1>2. ToSet(queue) \subseteq 1..Len(item)
  BY <1>1, SetOfSeq
<1> QED
  BY <1>1, <1>2, LenProperties, ElementOfSeq

LEMMA SameQueue ==
  ASSUME Base, queue' = queue, Len(item') = Len(item)
  PROVE  QueueMoves
  BY DEF Base, QueueTypes, QueueMoves

LEMMA ShiftedQueue ==
  ASSUME Base, NEW ok, queue' = Shifted(ok), Len(item') = Len(item)
  PROVE  /\ QueueMoves
         /\ queue # <<>> => /\ Head(queue) \in ToSet(queue) /\ queue' = Tail(queue)
                            /\ ToSet(queue') = ToSet(queue) \ {Head(queue)}
                            /\ \A q \in ToSet(queue) : Head(queue) <= q
         /\ queue = <<>> => queue' = <<>>
<1>1. queue \in Seq(1..Len(item)) /\ 1..Len(item) \in SUBSET Nat /\ Ascending(queue)
  BY QueueElements DEF Base, QueueTypes
<1>2. CASE queue = <<>>
  BY <1>1, <1>2 DEF Shifted, QueueMoves
<1>3. CASE queue # <<>>
  <2>1. /\ Head(queue) \in ToSet(queue) /\ Tail(queue) \in Seq(1..Len(item)) /\ Ascending(Tail(queue))
        /\ ToSet(Tail(queue)) = ToSet(queue) \ {Head(queue)}
        /\ \A q \in ToSet(queue) : Head(queue) <= q
    BY <1>1, <1>3, TailAscends
  <2>2. queue' = Tail(queue)
    BY <1>3 DEF Shifted
  <2> QED
    BY <1>3, <2>1, <2>2 DEF QueueMoves
<1> QED
  BY <1>2, <1>3

LEMMA PushFacts ==
  ASSUME Base, NEW p \in 0..NumPhotos, NEW b \in Nat, NEW h \in Nat, NEW n \in Nat, NEW c \in Nat,
         b > 0, edits'.crops = 0 => h = 0 /\ p \in {0, capturing}, Push(p, b, h, n, c)
  PROVE  /\ item' \in Seq(Item) /\ Len(item') = Len(item) + 1 /\ ItemsKept /\ QueueMoves
         /\ item'[Len(item) + 1].photo = p /\ item'[Len(item) + 1].bytes = b
         /\ item'[Len(item) + 1].replace = h /\ item'[Len(item) + 1].fate = "queued"
         /\ item'[Len(item) + 1].stream = NoStream
         /\ \A i \in 1..Len(item) : item'[i] = item[i]
         /\ queue' = Append(queue, Len(item) + 1)
<1>1. item \in Seq(Item) /\ queue \in Seq(1..Len(item)) /\ Len(item) \in Nat
      /\ ToSet(queue) \subseteq 1..Len(item) /\ Ascending(queue)
  BY QueueElements DEF Base, QueueTypes
<1>2. PICK r : r = [photo |-> p, bytes |-> b, replace |-> h, replaceSent |-> FALSE,
                    stream |-> NoStream, pick |-> n, pairing |-> c, fate |-> "queued"]
  OBVIOUS
<1>3. r \in Item
  BY <1>2, OffFacts DEF Item
<1>4. item' = Append(item, r) /\ queue' = Append(queue, Len(item) + 1)
  BY <1>2 DEF Push
<1>5. /\ item' \in Seq(Item) /\ Len(item') = Len(item) + 1 /\ item'[Len(item) + 1] = r
      /\ \A i \in 1..Len(item) : item'[i] = item[i]
  BY <1>1, <1>3, <1>4, AppendProperties
<1>6. ItemsKept
  BY <1>2, <1>5 DEF ItemsKept, StreamKept, BytesKept
<1>7. /\ queue \in Seq(1..Len(item) + 1) /\ 1..Len(item) + 1 \in SUBSET Nat
      /\ Len(item) + 1 \in 1..Len(item) + 1 /\ \A q \in ToSet(queue) : q < Len(item) + 1
  <2>1. 1..Len(item) \subseteq 1..Len(item) + 1
    BY <1>1
  <2> QED
    BY <1>1, <2>1, SeqMonotonic
<1>8. /\ queue' \in Seq(1..Len(item) + 1) /\ Ascending(queue')
      /\ ToSet(queue') = ToSet(queue) \cup {Len(item) + 1}
  BY <1>1, <1>4, <1>7, AppendAscends
<1>9. QueueMoves
  BY <1>5, <1>8 DEF QueueMoves
<1> QED
  BY <1>2, <1>4, <1>5, <1>6, <1>9

-----------------------------------------------------------------------------
(* The steps as the loops, the queue and the session see them: nobody who
   works moves, or one loop takes, prepares, sends, shows or ends an item.  *)

Active(l) == loop[l].at # "off"

Keeps(l) ==
  /\ loop'[l].at = loop[l].at /\ loop'[l].item = loop[l].item
  /\ loop'[l].stream = loop[l].stream /\ loop'[l].via = loop[l].via

Rests == \A l \in Loops : Keeps(l) \/ {loop[l].at, loop'[l].at} \subseteq Resting

OthersKeep(l) == \A k \in Loops : k # l => loop'[k] = loop[k]

SameFlow == session' = session /\ hasWinner' = hasWinner /\ (verified => verified')

Rest == Rests /\ ItemsKept /\ QueueMoves /\ SameFlow /\ shownItems' = shownItems

Renew ==
  /\ Rests /\ ItemsKept /\ QueueMoves /\ shownItems' = shownItems
  /\ session' = session + 1 /\ ~hasWinner'
  /\ \A q \in ToSet(queue') : item'[q].stream = NoStream

Join ==
  /\ UNCHANGED <<item, queue, loop, session, verified, shownItems>>
  /\ ~hasWinner /\ ~StaleLoop /\ ~InTurn

Take(l) ==
  /\ hasWinner /\ verified /\ queue # <<>>
  /\ loop[l].at = "top" \/ (loop[l].at = "off" /\ ~isSending)
  /\ loop'[l].at \in {"create", "rewind", "start"} /\ loop'[l].item = Head(queue)
  /\ loop'[l].stream = IF item[Head(queue)].stream = NoStream
                       THEN [session |-> session, bytes |-> item[Head(queue)].bytes, started |-> FALSE]
                       ELSE item[Head(queue)].stream
  /\ OthersKeep(l) /\ ItemsKept /\ queue' = queue /\ Len(item') = Len(item)
  /\ SameFlow /\ shownItems' = shownItems

Prepare(l) ==
  /\ loop[l].at \in {"create", "rewind"} /\ loop'[l].at = "start"
  /\ loop'[l].item = loop[l].item /\ loop'[l].stream = loop[l].stream
  /\ OthersKeep(l) /\ queue' = queue /\ Len(item') = Len(item)
  /\ \A i \in 1..Len(item) :
       /\ item'[i].stream = item[i].stream \/ (i = loop[l].item /\ item'[i].stream = loop[l].stream)
       /\ item'[i].photo = item[i].photo /\ item'[i].replace = item[i].replace
       /\ item'[i].bytes = item[i].bytes
  /\ SameFlow /\ shownItems' = shownItems

Send(l) ==
  /\ loop[l].at = "start" /\ connected /\ loop'[l].at = "send"
  /\ loop'[l].item = loop[l].item /\ loop'[l].via = session
  /\ loop'[l].stream.session = loop[l].stream.session
  /\ loop'[l].stream.bytes = loop[l].stream.bytes
  /\ OthersKeep(l) /\ ItemsKept /\ queue' = queue /\ Len(item') = Len(item)
  /\ SameFlow /\ shownItems' = shownItems

Show(l) ==
  /\ loop[l].at = "send" /\ loop'[l].at = "ack" /\ verified
  /\ loop'[l].item = loop[l].item /\ loop'[l].stream = loop[l].stream /\ loop'[l].via = loop[l].via
  /\ OthersKeep(l) /\ item' = item /\ queue' = queue /\ SameFlow
  /\ shownItems' = Append(shownItems, loop[l].item)

End(l) ==
  /\ loop[l].at \in {"start", "send", "ack"} /\ loop'[l].at \in Resting
  /\ OthersKeep(l) /\ ItemsKept /\ Len(item') = Len(item) /\ SameFlow /\ shownItems' = shownItems
  /\ QueueMoves
  /\ \/ queue' = queue /\ (loop[l].at = "send" \/ (loop[l].at = "start" /\ hasWinner))
     \/ queue = <<>> /\ queue' = <<>>
     \/ /\ queue # <<>> /\ queue' = Tail(queue)
        /\ ToSet(queue') = ToSet(queue) \ {Head(queue)} /\ \A q \in ToSet(queue) : Head(queue) <= q

LoopMoves(l) == Take(l) \/ Prepare(l) \/ Send(l) \/ Show(l) \/ End(l)

\* isSending: nobody starts while it is set, and who leaves resets it.
Alive ==
  \/ (isSending => isSending') /\ \A k \in Loops : Active(k)' => Active(k)
  \/ \E l \in Loops : Active(l) /\ ~Active(l)' /\ \A k \in Loops : k # l /\ Active(k)' => Active(k)
  \/ ~isSending /\ isSending' /\ \E l \in Loops : \A k \in Loops : k # l /\ Active(k)' => Active(k)

Typed == QueueTypes /\ GalleryTypes /\ SessionTypes /\ PairingTypes

LEMMA OnlyLoops ==
  /\ loop' = loop => Rests /\ \A k \in Loops : Active(k)' => Active(k)
  /\ Begins => Rests /\ Alive
  /\ loop' = loop /\ isSending' = isSending => Alive
  BY DEF Begins, Rests, Keeps, Resting, Alive, Active

LEMMA SameTypes ==
  /\ Typed /\ UNCHANGED galleryVars => GalleryTypes'
  /\ Typed /\ UNCHANGED sessionVars => SessionTypes'
  /\ Typed /\ UNCHANGED pairingVars => PairingTypes'
  /\ Typed /\ UNCHANGED queueVars => QueueTypes'
<1>1. Typed /\ UNCHANGED galleryVars => GalleryTypes'
  BY DEF Typed, galleryVars, GalleryTypes
<1>2. Typed /\ UNCHANGED sessionVars => SessionTypes'
  BY DEF Typed, sessionVars, SessionTypes
<1>3. Typed /\ UNCHANGED pairingVars => PairingTypes'
  BY DEF Typed, pairingVars, PairingTypes
<1>4. Typed /\ UNCHANGED queueVars => QueueTypes'
  BY DEF Typed, queueVars, QueueTypes
<1> QED
  BY <1>1, <1>2, <1>3, <1>4

LEMMA DrainStops ==
  ASSUME Base, NEW l \in Loops, DrainEnd(l) \/ DrainGate(l)
  PROVE  Typed' /\ Rest /\ Alive
<1>1. Typed
  BY DEF Base, Typed
<1>2. /\ LeaveQueue(l) /\ loop[l].at = "top" /\ item' = item /\ queue' = queue
      /\ UNCHANGED <<pausedOnTransient, pendingBatchStart, resuming>>
      /\ pendingBatchEnd' \in {pendingBatchEnd, pendingBatchEnd /\ ~(verified /\ connected)}
      /\ UNCHANGED <<galleryVars, sessionVars, pairingVars>>
  BY DEF DrainEnd, DrainGate
<1>3. /\ loop' \in [Loops -> LoopState] /\ loop'[l] = Off /\ ~isSending' /\ isSending' \in BOOLEAN
      /\ \A k \in Loops : k # l => loop'[k] = loop[k]
  BY <1>1, <1>2, LeaveQueueFacts DEF Typed
<1>4. pendingBatchEnd' \in BOOLEAN
  BY <1>1, <1>2 DEF Typed, QueueTypes
<1>5. QueueTypes'
  BY <1>1, <1>2, <1>3, <1>4 DEF Typed, QueueTypes
<1>6. GalleryTypes' /\ SessionTypes' /\ PairingTypes'
  BY <1>1, <1>2, SameTypes
<1>7. Rests
  BY <1>2, <1>3, OffFacts DEF Rests, Keeps, Resting
<1>8. ItemsKept /\ QueueMoves
  BY <1>2, SameItems, SameQueue
<1>9. SameFlow /\ shownItems' = shownItems
  BY <1>2 DEF SameFlow, sessionVars, pairingVars
<1>10. Alive
  BY <1>2, <1>3, OffFacts DEF Alive, Active
<1> QED
  BY <1>5, <1>6, <1>7, <1>8, <1>9, <1>10 DEF Typed, Rest

LEMMA HeadFacts ==
  ASSUME Base, queue # <<>>
  PROVE  /\ Head(queue) \in ToSet(queue) /\ Head(queue) \in 1..Len(item)
         /\ item[Head(queue)] \in Item /\ \A q \in ToSet(queue) : Head(queue) <= q
<1>1. queue \in Seq(1..Len(item)) /\ 1..Len(item) \in SUBSET Nat /\ Ascending(queue) /\ QueueTypes
  BY QueueElements DEF Base, QueueTypes
<1>2. Head(queue) \in ToSet(queue) /\ \A q \in ToSet(queue) : Head(queue) <= q
  BY <1>1, TailAscends
<1> QED
  BY <1>1, <1>2, QueueElements

LEMMA DrainHeadTakes ==
  ASSUME Base, NEW l \in Loops, DrainHead(l), connected => hasWinner
  PROVE  Typed' /\ Take(l) /\ Alive
<1>1. Typed /\ queue # <<>>
  BY DEF Base, Typed, DrainHead
<1>2. PICK i : i = Head(queue)
  OBVIOUS
<1>3. i \in 1..Len(item) /\ item[i] \in Item
  BY <1>1, <1>2, HeadFacts
<1>4. PICK r : r = SendOnePhoto(i, FALSE)
  OBVIOUS
<1>5. /\ r \in LoopState /\ r.at \in {"create", "rewind", "start"} /\ r.item = i
      /\ r.stream = IF item[i].stream = NoStream
                    THEN [session |-> session, bytes |-> item[i].bytes, started |-> FALSE]
                    ELSE item[i].stream
  BY <1>1, <1>3, <1>4, SendOnePhotoFacts DEF Typed
<1>6. loop' = [loop EXCEPT ![l] = r] /\ loop[l].at = "top"
  BY <1>2, <1>4 DEF DrainHead
<1>7. /\ loop' \in [Loops -> LoopState] /\ loop'[l] = r
      /\ \A k \in Loops : k # l => loop'[k] = loop[k]
  BY <1>1, <1>5, <1>6, OneLoopTyped DEF Typed
<1>8. item' \in Seq(Item) /\ Len(item') = Len(item) /\ ItemsKept
  <2>1. PICK e : e = [item[i] EXCEPT !.replaceSent = TRUE]
    OBVIOUS
  <2>2. /\ e \in Item /\ e.stream = item[i].stream /\ e.photo = item[i].photo
        /\ e.replace = item[i].replace /\ e.bytes = item[i].bytes
    BY <1>3, <2>1 DEF Item
  <2>3. item' = item \/ item' = [item EXCEPT ![i] = e]
    BY <1>2, <2>1 DEF DrainHead
  <2>4. CASE item' = item
    BY <1>1, <2>4, SameItems DEF Typed, QueueTypes
  <2>5. CASE item' = [item EXCEPT ![i] = e]
    BY <1>1, <1>3, <2>2, <2>5, OneItemKept DEF Typed
  <2> QED
    BY <2>3, <2>4, <2>5
<1>9. QueueTypes'
  BY <1>1, <1>7, <1>8 DEF Typed, QueueTypes, DrainHead
<1>10. GalleryTypes' /\ SessionTypes'
  BY <1>1, SameTypes DEF DrainHead
<1>11. PairingTypes'
  <2>1. item[i].photo \in Nat /\ item[i].replace \in Nat
    <3>1. item[i].photo \in 0..NumPhotos /\ item[i].replace \in Nat
      BY <1>3 DEF Item
    <3> QED
      BY <3>1, ConstantsAssumption DEF ConstantsAssumption
  <2>2. pendingReplaceHash' \in {pendingReplaceHash, <<item[i].photo, item[i].replace>>}
    BY <1>2 DEF DrainHead
  <2>3. pendingReplaceHash' \in Nat \X Nat
    BY <1>1, <2>1, <2>2 DEF Typed, PairingTypes
  <2>4. collection' \in Nat
    BY <1>1 DEF Typed, PairingTypes, DrainHead
  <2> QED
    BY <1>1, <2>3, <2>4 DEF Typed, PairingTypes, DrainHead
<1>12. Take(l)
  <2>1. SameFlow /\ hasWinner /\ verified /\ queue' = queue /\ shownItems' = shownItems
    BY DEF DrainHead, SameFlow, sessionVars
  <2> QED
    BY <1>1, <1>2, <1>5, <1>6, <1>7, <1>8, <2>1 DEF Take, OthersKeep
<1>13. Alive
  BY <1>6, <1>7 DEF Alive, Active, DrainHead
<1> QED
  BY <1>9, <1>10, <1>11, <1>12, <1>13 DEF Typed

LEMMA SenderReadyPrepares ==
  ASSUME Base, NEW l \in Loops, SenderReady(l)
  PROVE  Typed' /\ Prepare(l) /\ Alive
<1>1. Typed /\ LoopItems /\ loop[l] \in LoopState /\ loop[l].at \in {"create", "rewind"}
  BY DEF Base, Typed, QueueTypes, SenderReady
<1>2. PICK i : i = loop[l].item
  OBVIOUS
<1>3. i \in 1..Len(item) /\ Len(item) \in Nat /\ item[i] \in Item
  <2>1. i \in 1..Len(item)
    BY <1>1, <1>2 DEF LoopItems, Working
  <2> QED
    BY <1>1, <2>1, QueueElements, ElementOfSeq DEF Typed, QueueTypes
<1>4. PICK r : r = [loop[l] EXCEPT !.at = "start"]
  OBVIOUS
<1>5. /\ r \in LoopState /\ r.at = "start" /\ r.item = i /\ r.stream = loop[l].stream
  BY <1>1, <1>2, <1>4 DEF LoopState
<1>6. loop' = [loop EXCEPT ![l] = r]
  BY <1>4 DEF SenderReady
<1>7. /\ loop' \in [Loops -> LoopState] /\ loop'[l] = r
      /\ \A k \in Loops : k # l => loop'[k] = loop[k]
  BY <1>1, <1>5, <1>6, OneLoopTyped DEF Typed
<1>8. /\ item' \in Seq(Item) /\ Len(item') = Len(item)
      /\ \A j \in 1..Len(item) :
           /\ item'[j].stream = item[j].stream \/ (j = i /\ item'[j].stream = loop[l].stream)
           /\ item'[j].photo = item[j].photo /\ item'[j].replace = item[j].replace
           /\ item'[j].bytes = item[j].bytes
  <2>1. PICK e : e = [item[i] EXCEPT !.stream = loop[l].stream]
    OBVIOUS
  <2>2. loop[l].stream \in Stream
    BY <1>1 DEF LoopState
  <2>3. /\ e \in Item /\ e.stream = loop[l].stream /\ e.photo = item[i].photo
        /\ e.replace = item[i].replace /\ e.bytes = item[i].bytes
    BY <1>3, <2>1, <2>2 DEF Item
  <2>4. item' = item \/ item' = [item EXCEPT ![i] = e]
    BY <1>2, <2>1 DEF SenderReady
  <2>5. CASE item' = item
    BY <1>1, <2>5 DEF Typed, QueueTypes
  <2>6. CASE item' = [item EXCEPT ![i] = e]
    <3>1. /\ item' \in Seq(Item) /\ Len(item') = Len(item) /\ item'[i] = e
          /\ \A j \in 1..Len(item) : j # i => item'[j] = item[j]
      BY <1>1, <1>3, <2>3, <2>6, OneItemTyped DEF Typed
    <3>2. ASSUME NEW j \in 1..Len(item)
          PROVE  /\ item'[j].stream = item[j].stream \/ (j = i /\ item'[j].stream = loop[l].stream)
                 /\ item'[j].photo = item[j].photo /\ item'[j].replace = item[j].replace
                 /\ item'[j].bytes = item[j].bytes
      <4>1. CASE j = i
        BY <2>3, <3>1, <4>1
      <4>2. CASE j # i
        BY <3>1, <4>2
      <4> QED
        BY <4>1, <4>2
    <3> QED
      BY <3>1, <3>2
  <2> QED
    BY <2>4, <2>5, <2>6
<1>9. QueueTypes'
  BY <1>1, <1>7, <1>8 DEF Typed, QueueTypes, SenderReady
<1>10. GalleryTypes' /\ SessionTypes' /\ PairingTypes'
  BY <1>1, SameTypes DEF SenderReady
<1>11. Prepare(l)
  <2>1. SameFlow /\ queue' = queue /\ shownItems' = shownItems
    BY DEF SenderReady, SameFlow, sessionVars, pairingVars
  <2> QED
    BY <1>1, <1>2, <1>5, <1>7, <1>8, <2>1 DEF Prepare, OthersKeep
<1>12. Alive
  BY <1>1, <1>5, <1>7 DEF Alive, Active, SenderReady
<1> QED
  BY <1>9, <1>10, <1>11, <1>12 DEF Typed

LEMMA SendFileSends ==
  ASSUME Base, NEW l \in Loops, SendFile(l)
  PROVE  Typed' /\ Send(l) /\ Alive
<1>1. Typed /\ LoopItems /\ loop[l] \in LoopState /\ loop[l].at = "start" /\ session \in Nat
  BY DEF Base, Typed, QueueTypes, SessionTypes, SendFile
<1>2. PICK i : i = loop[l].item
  OBVIOUS
<1>3. i \in 1..Len(item) /\ Len(item) \in Nat /\ item[i] \in Item
  <2>1. i \in 1..Len(item)
    BY <1>1, <1>2 DEF LoopItems, Working
  <2> QED
    BY <1>1, <2>1, QueueElements, ElementOfSeq DEF Typed, QueueTypes
<1>4. PICK c : c = (loop[l].cut \/ ~up)
  OBVIOUS
<1>5. c \in BOOLEAN
  BY <1>4
<1>6. PICK s : s = [loop[l].stream EXCEPT !.started = TRUE]
  OBVIOUS
<1>7. s \in Stream /\ s.session = loop[l].stream.session /\ s.bytes = loop[l].stream.bytes
  <2>1. loop[l].stream \in Stream
    BY <1>1 DEF LoopState
  <2> QED
    BY <1>6, <2>1 DEF Stream
<1>8. PICK r : r = [loop[l] EXCEPT !.at = "send", !.via = session, !.cut = c, !.stream = s]
  OBVIOUS
<1>9. /\ r \in LoopState /\ r.at = "send" /\ r.item = i /\ r.stream = s /\ r.via = session
  BY <1>1, <1>2, <1>5, <1>7, <1>8 DEF LoopState
<1>10. loop' = [loop EXCEPT ![l] = r]
  <2>1. loop' = [loop EXCEPT ![l].at = "send", ![l].via = session,
                             ![l].cut = loop[l].cut \/ ~up,
                             ![l].stream.started = TRUE]
    BY DEF SendFile
  <2>2. loop \in [Loops -> LoopState] /\ l \in Loops
    BY <1>1 DEF Typed, QueueTypes
  <2>3. loop' = [loop EXCEPT ![l].at = "send", ![l].via = session, ![l].cut = c,
                             ![l].stream = s]
    BY <1>4, <1>6, <2>1
  <2>4. loop' = [loop EXCEPT ![l] = loop'[l]]
    BY <2>2, <2>3
  <2>5. loop'[l] = r
    BY <1>8, <2>2, <2>3
  <2> QED
    BY <2>4, <2>5
<1>11. /\ loop' \in [Loops -> LoopState] /\ loop'[l] = r
       /\ \A k \in Loops : k # l => loop'[k] = loop[k]
  BY <1>1, <1>9, <1>10, OneLoopTyped DEF Typed
<1>12. item' \in Seq(Item) /\ Len(item') = Len(item) /\ ItemsKept
  <2>1. PICK t : t = IF item[i].stream = NoStream THEN item[i].stream
                     ELSE [item[i].stream EXCEPT !.started = TRUE]
    OBVIOUS
  <2>2. item[i].stream \in Stream
    BY <1>3 DEF Item
  <2>3. /\ t \in Stream /\ t.session = item[i].stream.session /\ t.bytes = item[i].stream.bytes
        /\ item[i].stream = NoStream => t = item[i].stream
    BY <2>1, <2>2 DEF Stream
  <2>4. PICK e : e = [item[i] EXCEPT !.stream = t]
    OBVIOUS
  <2>5. /\ e \in Item /\ e.stream = t /\ e.photo = item[i].photo
        /\ e.replace = item[i].replace /\ e.bytes = item[i].bytes
    BY <1>3, <2>3, <2>4 DEF Item
  <2>6. item' = [item EXCEPT ![i] = e]
    BY <1>2, <2>1, <2>4 DEF SendFile
  <2> QED
    BY <1>1, <1>3, <2>3, <2>5, <2>6, OneItemKept DEF Typed
<1>13. QueueTypes'
  BY <1>1, <1>11, <1>12 DEF Typed, QueueTypes, SendFile
<1>14. GalleryTypes' /\ SessionTypes'
  BY <1>1, SameTypes DEF SendFile
<1>15. PairingTypes'
  BY <1>1 DEF Typed, PairingTypes, SendFile
<1>16. Send(l)
  <2>1. SameFlow /\ queue' = queue /\ shownItems' = shownItems /\ connected
    BY DEF SendFile, SameFlow, sessionVars
  <2> QED
    BY <1>1, <1>2, <1>7, <1>9, <1>11, <1>12, <2>1 DEF Send, OthersKeep
<1>17. Alive
  BY <1>1, <1>9, <1>11 DEF Alive, Active, SendFile
<1> QED
  BY <1>13, <1>14, <1>15, <1>16, <1>17 DEF Typed

LEMMA PauseEnds ==
  ASSUME Base, NEW l \in Loops, SendFileClosed(l) \/ SendPaused(l)
  PROVE  Typed' /\ End(l) /\ Alive
<1>1. Typed
  BY DEF Base, Typed
<1>2. /\ LeaveQueue(l) /\ item' = item /\ queue' = queue
      /\ loop[l].at = "send" \/ (loop[l].at = "start" /\ hasWinner)
      /\ UNCHANGED <<pendingBatchStart, pendingBatchEnd, resuming>>
      /\ pausedOnTransient' \in {pausedOnTransient \/ loop[l].resume, TRUE}
      /\ UNCHANGED <<galleryVars, sessionVars, pairingVars>>
  BY DEF SendFileClosed, SendPaused
<1>3. /\ loop' \in [Loops -> LoopState] /\ loop'[l] = Off /\ ~isSending' /\ isSending' \in BOOLEAN
      /\ \A k \in Loops : k # l => loop'[k] = loop[k]
  BY <1>1, <1>2, LeaveQueueFacts DEF Typed
<1>4. pausedOnTransient' \in BOOLEAN
  BY <1>2
<1>5. QueueTypes'
  BY <1>1, <1>2, <1>3, <1>4 DEF Typed, QueueTypes
<1>6. GalleryTypes' /\ SessionTypes' /\ PairingTypes'
  BY <1>1, <1>2, SameTypes
<1>7. ItemsKept /\ QueueMoves
  BY <1>2, SameItems, SameQueue
<1>8. SameFlow /\ shownItems' = shownItems
  BY <1>2 DEF SameFlow, sessionVars, pairingVars
<1>9. End(l)
  BY <1>2, <1>3, <1>7, <1>8, OffFacts DEF End, OthersKeep, Resting
<1>10. Alive
  BY <1>2, <1>3, OffFacts DEF Alive, Active
<1> QED
  BY <1>5, <1>6, <1>9, <1>10 DEF Typed

\* The end of a send: the head is shifted, the gallery told.
LEMMA ConcludeFacts ==
  ASSUME Base, NEW l \in Loops, loop[l].at \in {"start", "send", "ack"}, NEW ok \in BOOLEAN,
         Conclude(l, ok)
  PROVE  LET i == loop[l].item IN
         /\ QueueTypes' /\ GalleryTypes' /\ SessionTypes'
         /\ item' \in Seq(Item) /\ Len(item') = Len(item) /\ ItemsKept /\ QueueMoves
         /\ queue' = Shifted(ok)
         /\ \A j \in 1..Len(item) : j # i => item'[j] = item[j]
         /\ i \in 1..Len(item)
         /\ item'[i].fate = IF item[i].fate # "queued" THEN item[i].fate
                            ELSE IF ok THEN "sent" ELSE "failed"
         /\ item'[i].bytes = item[i].bytes
         /\ photo' = IF ok /\ item[i].photo # 0 /\ photo[item[i].photo].state = "kept"
                     THEN [photo EXCEPT ![item[i].photo] =
                             [photo[item[i].photo] EXCEPT !.sentHash = loop[l].stream.bytes]]
                     ELSE photo
         /\ loop'[l].at \in Resting /\ OthersKeep(l) /\ SameFlow /\ Alive
         /\ edits' = edits /\ capturing' = capturing
<1>1. Typed /\ LoopItems /\ loop[l] \in LoopState
  BY DEF Base, Typed, QueueTypes
<1>2. PICK i : i = loop[l].item
  OBVIOUS
<1>3. i \in 1..Len(item) /\ Len(item) \in Nat /\ item[i] \in Item
  <2>1. i \in 1..Len(item)
    BY <1>1, <1>2 DEF LoopItems, Working
  <2> QED
    BY <1>1, <2>1, QueueElements, ElementOfSeq DEF Typed, QueueTypes
<1>4. PICK f : f = IF item[i].fate # "queued" THEN item[i].fate ELSE IF ok THEN "sent" ELSE "failed"
  OBVIOUS
<1>5. PICK s : s = IF ok THEN NoStream ELSE item[i].stream
  OBVIOUS
<1>6. PICK e : e = [item[i] EXCEPT !.fate = f, !.stream = s]
  OBVIOUS
<1>7. /\ e \in Item /\ e.fate = f /\ e.stream = s /\ e.photo = item[i].photo
      /\ e.replace = item[i].replace /\ e.bytes = item[i].bytes
  <2>1. f \in {"queued", "sent", "failed", "removed"}
    BY <1>3, <1>4 DEF Item
  <2>2. s \in Stream
    BY <1>3, <1>5, OffFacts DEF Item
  <2> QED
    BY <1>3, <1>6, <2>1, <2>2 DEF Item
<1>8. item' = [item EXCEPT ![i] = e]
  BY <1>2, <1>4, <1>5, <1>6 DEF Conclude
<1>9. /\ item' \in Seq(Item) /\ Len(item') = Len(item) /\ ItemsKept /\ item'[i] = e
      /\ \A j \in 1..Len(item) : j # i => item'[j] = item[j]
  BY <1>1, <1>3, <1>5, <1>7, <1>8, OneItemKept DEF Typed
<1>10. queue' = Shifted(ok) /\ QueueMoves
  BY <1>9, ShiftedQueue DEF Conclude
<1>11. PICK p : p = item[i].photo
  OBVIOUS
<1>12. PICK g : g = [photo[p] EXCEPT !.sentHash = loop[l].stream.bytes]
  OBVIOUS
<1>13. photo' = IF ok /\ p # 0 /\ photo[p].state = "kept" THEN [photo EXCEPT ![p] = g] ELSE photo
  BY <1>2, <1>11, <1>12 DEF Conclude, LocalHash
<1>14. photo' \in [Photo -> GalleryPhoto]
  <2>1. photo \in [Photo -> GalleryPhoto] /\ loop[l].stream.bytes \in Nat
    BY <1>1 DEF Typed, GalleryTypes, LoopState, Stream
  <2>2. p # 0 => p \in Photo
    <3>1. p \in 0..NumPhotos
      BY <1>3, <1>11 DEF Item
    <3> QED
      BY <3>1, ConstantsAssumption DEF Photo, ConstantsAssumption
  <2>3. p # 0 => g \in GalleryPhoto
    BY <1>12, <2>1, <2>2 DEF GalleryPhoto
  <2> QED
    BY <1>13, <2>1, <2>2, <2>3
<1>15. /\ loop' \in [Loops -> LoopState] /\ isSending' \in BOOLEAN /\ loop'[l].at \in Resting
       /\ \A k \in Loops : k # l => loop'[k] = loop[k]
       /\ (isSending => isSending') \/ loop'[l].at = "off"
  <2>1. CASE loop[l].resume /\ (queue' = <<>> \/ pausedOnTransient)
    <3>1. LeaveQueue(l)
      BY <2>1 DEF Conclude
    <3> QED
      BY <1>1, <3>1, LeaveQueueFacts, OffFacts DEF Typed, Resting
  <2>2. CASE ~(loop[l].resume /\ (queue' = <<>> \/ pausedOnTransient))
    <3>1. /\ loop' = [loop EXCEPT ![l] = [Off EXCEPT !.at = "top"]]
          /\ isSending' = (isSending \/ loop[l].resume)
      BY <2>2 DEF Conclude
    <3>2. /\ loop' \in [Loops -> LoopState] /\ loop'[l] = [Off EXCEPT !.at = "top"]
          /\ \A k \in Loops : k # l => loop'[k] = loop[k]
      BY <1>1, <3>1, OffFacts, OneLoopTyped DEF Typed
    <3>3. isSending' \in BOOLEAN /\ (isSending => isSending')
      BY <3>1
    <3> QED
      BY <3>2, <3>3, OffFacts DEF Resting
  <2> QED
    BY <2>1, <2>2
<1>16. /\ UNCHANGED <<pausedOnTransient, pendingBatchStart, pendingBatchEnd, resuming>>
       /\ UNCHANGED <<capturing, picks, picking, edits, chosen>> /\ UNCHANGED sessionVars
  BY DEF Conclude
<1>17. QueueTypes'
  <2>1. queue' \in Seq(1..Len(item'))
    BY <1>10 DEF QueueMoves
  <2>2. resuming' \in 0..Len(item')
    BY <1>1, <1>9, <1>16 DEF Typed, QueueTypes
  <2> QED
    BY <1>1, <1>9, <1>15, <1>16, <2>1, <2>2 DEF Typed, QueueTypes
<1>18. GalleryTypes' /\ SessionTypes' /\ SameFlow
  BY <1>1, <1>14, <1>16, SameTypes DEF Typed, GalleryTypes, SameFlow, sessionVars
<1>19. Alive
  BY <1>15 DEF Alive, Active
<1> QED
  BY <1>2, <1>3, <1>4, <1>7, <1>9, <1>10, <1>11, <1>12, <1>13, <1>15, <1>16, <1>17, <1>18, <1>19
     DEF OthersKeep

LEMMA ConcludeEnds ==
  ASSUME Base, NEW l \in Loops, SendFileRefused(l) \/ SendFails(l) \/ AckArrives(l)
  PROVE  Typed' /\ End(l) /\ Alive
<1>1. loop[l].at \in {"start", "send", "ack"} /\ \E ok \in BOOLEAN : Conclude(l, ok)
  BY DEF SendFileRefused, SendFails, AckArrives
<1>2. PICK ok \in BOOLEAN : Conclude(l, ok)
  BY <1>1
<1>3. /\ QueueTypes' /\ GalleryTypes' /\ SessionTypes'
      /\ Len(item') = Len(item) /\ ItemsKept /\ QueueMoves /\ queue' = Shifted(ok)
      /\ loop'[l].at \in Resting /\ OthersKeep(l) /\ SameFlow /\ Alive
  BY <1>1, <1>2, ConcludeFacts
<1>4. /\ queue # <<>> => /\ queue' = Tail(queue)
                         /\ ToSet(queue') = ToSet(queue) \ {Head(queue)}
                         /\ \A q \in ToSet(queue) : Head(queue) <= q
      /\ queue = <<>> => queue' = <<>>
  BY <1>3, ShiftedQueue
<1>5. shownItems' = shownItems /\ PairingTypes'
  <2>1. Typed
    BY DEF Base, Typed
  <2>2. CASE UNCHANGED pairingVars
    BY <2>1, <2>2, SameTypes DEF pairingVars
  <2>3. CASE SendFails(l)
    BY <2>1, <2>3 DEF SendFails, Typed, PairingTypes
  <2> QED
    BY <2>2, <2>3 DEF SendFileRefused, AckArrives
<1>6. End(l)
  BY <1>1, <1>3, <1>4, <1>5 DEF End
<1> QED
  BY <1>3, <1>5, <1>6 DEF Typed

LEMMA ReceiverShowsShows ==
  ASSUME Base, NEW l \in Loops, ReceiverShows(l)
  PROVE  Typed' /\ Show(l) /\ Alive
<1>1. Typed /\ LoopItems /\ loop[l] \in LoopState /\ loop[l].at = "send"
  BY DEF Base, Typed, QueueTypes, ReceiverShows
<1>2. PICK i : i = loop[l].item
  OBVIOUS
<1>3. i \in 1..Len(item) /\ Len(item) \in Nat /\ item[i] \in Item
  <2>1. i \in 1..Len(item)
    BY <1>1, <1>2 DEF LoopItems, Working
  <2> QED
    BY <1>1, <2>1, QueueElements, ElementOfSeq DEF Typed, QueueTypes
<1>4. PICK r : r = [loop[l] EXCEPT !.at = "ack"]
  OBVIOUS
<1>5. r \in LoopState /\ r.at = "ack" /\ r.item = i /\ r.stream = loop[l].stream /\ r.via = loop[l].via
  BY <1>1, <1>2, <1>4 DEF LoopState
<1>6. loop' = [loop EXCEPT ![l] = r]
  BY <1>4 DEF ReceiverShows
<1>7. /\ loop' \in [Loops -> LoopState] /\ loop'[l] = r
      /\ \A k \in Loops : k # l => loop'[k] = loop[k]
  BY <1>1, <1>5, <1>6, OneLoopTyped DEF Typed
<1>8. /\ UNCHANGED <<item, queue, isSending, pausedOnTransient, pendingBatchStart,
                     pendingBatchEnd, resuming, up, drops, offer, collection>>
      /\ UNCHANGED galleryVars /\ UNCHANGED sessionVars /\ partial' = FALSE
      /\ shownItems' = Append(shownItems, i) /\ pendingReplaceHash' = NoHash /\ verified
  BY <1>2 DEF ReceiverShows, Present
<1>9. QueueTypes'
  BY <1>1, <1>7, <1>8 DEF Typed, QueueTypes
<1>10. GalleryTypes' /\ SessionTypes'
  BY <1>1, <1>8, SameTypes
<1>11. images' \in Seq(Image)
  <2>1. PICK h : h = <<item[i].photo, loop[l].stream.bytes>>
    OBVIOUS
  <2>2. h \in Nat \X Nat /\ i \in Nat /\ collection \in Nat /\ images \in Seq(Image)
    <3>1. item[i].photo \in Nat
      BY <1>3, ConstantsAssumption DEF Item
    <3>2. loop[l].stream.bytes \in Nat
      BY <1>1 DEF LoopState, Stream
    <3>3. collection \in Nat /\ images \in Seq(Image)
      BY <1>1 DEF Typed, PairingTypes
    <3> QED
      BY <1>3, <2>1, <3>1, <3>2, <3>3
  <2>3. PICK k : k = SelectInSeq(images, LAMBDA m : m.hash = pendingReplaceHash)
    OBVIOUS
  <2>4. k # 0 => k \in 1..Len(images)
    <3>1. k = FirstHash(pendingReplaceHash)
      BY <2>3 DEF FirstHash, WithHash, SelectInSeq
    <3> QED
      BY <3>1, ImageOf
  <2>5. CASE k = 0
    <3>1. PICK m : m = [hash |-> h, looks |-> h, item |-> i, collection |-> collection]
      OBVIOUS
    <3>2. m \in Image
      BY <2>2, <3>1 DEF Image
    <3>3. images' = Append(images, m)
      BY <1>2, <2>1, <2>3, <2>5, <3>1 DEF ReceiverShows, Present
    <3> QED
      BY <2>2, <3>2, <3>3, AppendProperties
  <2>6. CASE k # 0
    <3>1. PICK m : m = [images[k] EXCEPT !.hash = h, !.looks = h, !.item = i]
      OBVIOUS
    <3>2. images[k] \in Image
      BY <2>2, <2>4, <2>6, ElementOfSeq
    <3>3. m \in Image
      BY <2>2, <3>1, <3>2 DEF Image
    <3>4. images' = [images EXCEPT ![k] = m]
      BY <1>2, <2>1, <2>3, <2>6, <3>1 DEF ReceiverShows, Present
    <3> QED
      BY <2>2, <2>4, <2>6, <3>3, <3>4, ExceptSeq
  <2> QED
    BY <2>5, <2>6
<1>12. PairingTypes'
  <2>1. shownItems' \in Seq(Nat)
    BY <1>1, <1>3, <1>8, AppendProperties DEF Typed, PairingTypes
  <2>2. NoHash \in Nat \X Nat
    BY DEF NoHash
  <2> QED
    BY <1>1, <1>8, <1>11, <2>1, <2>2 DEF Typed, PairingTypes
<1>13. Show(l)
  BY <1>1, <1>2, <1>5, <1>7, <1>8 DEF Show, OthersKeep, SameFlow, sessionVars
<1>14. Alive
  BY <1>1, <1>5, <1>7, <1>8 DEF Alive, Active
<1> QED
  BY <1>9, <1>10, <1>12, <1>13, <1>14 DEF Typed

\* A step that moves nobody who works.
LEMMA Quietly ==
  ASSUME Base, item' \in Seq(Item), ItemsKept, QueueMoves, SameFlow,
         shownItems' = shownItems,
         loop' \in [Loops -> LoopState], isSending' \in BOOLEAN,
         (isSending' = isSending /\ loop' = loop) \/ Begins,
         pausedOnTransient' \in BOOLEAN, pendingBatchStart' \in BOOLEAN, pendingBatchEnd' \in BOOLEAN,
         resuming' \in {0, resuming} \/ resuming' \in 1..Len(item),
         GalleryTypes', SessionTypes', PairingTypes'
  PROVE  Typed' /\ Rest /\ Alive
<1>1. Len(item) \in Nat /\ resuming \in 0..Len(item)
  BY QueueElements DEF Base, QueueTypes
<1>2. resuming' \in 0..Len(item')
  BY <1>1 DEF ItemsKept
<1>3. QueueTypes'
  BY <1>2 DEF QueueMoves, QueueTypes
<1>4. Rests /\ Alive
  BY OnlyLoops
<1> QED
  BY <1>3, <1>4 DEF Typed, Rest

LEMMA OfferRests ==
  ASSUME Base, OfferArrives
  PROVE  Typed' /\ Rest /\ Alive
<1>1. Typed /\ item \in Seq(Item) /\ Len(item) \in Nat
  BY QueueElements DEF Base, Typed, QueueTypes
<1>2. GalleryTypes' /\ SessionTypes' /\ SameFlow /\ shownItems' = shownItems
  BY <1>1, SameTypes DEF OfferArrives, SameFlow, sessionVars
<1>3. PairingTypes'
  <2>1. partial' \in {partial, partial /\ ~Reaches}
    BY DEF OfferArrives
  <2>2. partial' \in BOOLEAN
    BY <1>1, <2>1 DEF Typed, PairingTypes
  <2> QED
    BY <1>1, <2>2 DEF Typed, PairingTypes, OfferArrives
<1>4. /\ loop' \in [Loops -> LoopState] /\ isSending' \in BOOLEAN
      /\ (isSending' = isSending /\ loop' = loop) \/ Begins
  <2>1. StartDrain(FALSE) \/ UNCHANGED <<isSending, loop>>
    BY DEF OfferArrives
  <2>2. CASE StartDrain(FALSE)
    BY <1>1, <2>2, StartDrainFacts DEF Typed
  <2>3. CASE UNCHANGED <<isSending, loop>>
    BY <1>1, <2>3 DEF Typed, QueueTypes
  <2> QED
    BY <2>1, <2>2, <2>3
<1>5. /\ item' \in Seq(Item) /\ ItemsKept /\ Len(item') = Len(item)
      /\ resuming' \in {0, resuming} \/ resuming' \in 1..Len(item)
  <2>1. CASE UNCHANGED <<item, resuming>>
    BY <1>1, <2>1, SameItems
  <2>2. CASE ~UNCHANGED <<item, resuming>>
    <3>1. /\ queue # <<>> /\ resuming' = Head(queue) /\ item[Head(queue)].stream # NoStream
          /\ item' = [item EXCEPT ![Head(queue)].stream.started = TRUE]
      BY <2>2 DEF OfferArrives
    <3>2. PICK i : i = Head(queue)
      OBVIOUS
    <3>3. i \in 1..Len(item) /\ item[i] \in Item
      BY <3>1, <3>2, HeadFacts
    <3>4. PICK s : s = [item[i].stream EXCEPT !.started = TRUE]
      OBVIOUS
    <3>5. item[i].stream \in Stream
      BY <3>3 DEF Item
    <3>6. s \in Stream /\ s.session = item[i].stream.session /\ s.bytes = item[i].stream.bytes
      BY <3>4, <3>5 DEF Stream
    <3>7. PICK e : e = [item[i] EXCEPT !.stream = s]
      OBVIOUS
    <3>8. /\ e \in Item /\ e.stream = s /\ e.photo = item[i].photo
          /\ e.replace = item[i].replace /\ e.bytes = item[i].bytes
      BY <3>3, <3>6, <3>7 DEF Item
    <3>9. item' = [item EXCEPT ![i] = e] /\ item[i].stream # NoStream
      BY <3>1, <3>2, <3>4, <3>7
    <3> QED
      BY <1>1, <3>1, <3>2, <3>3, <3>6, <3>8, <3>9, OneItemKept DEF Typed
  <2> QED
    BY <2>1, <2>2
<1>6. QueueMoves
  BY <1>5, SameQueue DEF OfferArrives
<1>7. pausedOnTransient' \in BOOLEAN /\ pendingBatchStart' \in BOOLEAN /\ pendingBatchEnd' \in BOOLEAN
  BY <1>1 DEF Typed, QueueTypes, OfferArrives
<1> QED
  BY <1>2, <1>3, <1>4, <1>5, <1>6, <1>7, Quietly

LEMMA ResumeDrainMoves ==
  ASSUME Base, ResumeDrain, verified => hasWinner
  PROVE  Typed' /\ (Rest \/ \E l \in Loops : Take(l)) /\ Alive
<1>1. Typed /\ item \in Seq(Item) /\ Len(item) \in Nat
  BY QueueElements DEF Base, Typed, QueueTypes
<1>2. /\ GalleryTypes' /\ SessionTypes' /\ PairingTypes' /\ SameFlow /\ shownItems' = shownItems
      /\ resuming' = 0 /\ pausedOnTransient' = FALSE
      /\ UNCHANGED <<pendingBatchStart, pendingBatchEnd>>
  BY <1>1, SameTypes DEF ResumeDrain, SameFlow, sessionVars, pairingVars
<1>3. /\ pausedOnTransient' \in BOOLEAN /\ pendingBatchStart' \in BOOLEAN
      /\ pendingBatchEnd' \in BOOLEAN /\ isSending \in BOOLEAN /\ loop \in [Loops -> LoopState]
  BY <1>1, <1>2 DEF Typed, QueueTypes
<1>4. CASE UNCHANGED <<item, queue, loop>>
  <2>1. isSending' = isSending \/ (~isSending /\ isSending' = TRUE)
    BY <1>4 DEF ResumeDrain, StartDrain
  <2>2. ItemsKept /\ QueueMoves /\ isSending' \in BOOLEAN /\ resuming' \in 0..Len(item')
    <3>1. ItemsKept /\ Len(item') = Len(item) /\ queue' = queue
      BY <1>4, SameItems
    <3>2. QueueMoves
      BY <3>1, SameQueue
    <3>3. isSending' \in BOOLEAN
      BY <1>3, <2>1
    <3>4. resuming' \in 0..Len(item')
      BY <1>1, <1>2, <3>1
    <3> QED
      BY <3>1, <3>2, <3>3, <3>4
  <2>3. QueueTypes'
    BY <1>1, <1>2, <1>3, <1>4, <2>2 DEF Typed, QueueTypes
  <2>4. Rests /\ Alive
    BY <1>4, <2>1, OnlyLoops DEF Alive
  <2> QED
    BY <1>2, <2>2, <2>3, <2>4 DEF Typed, Rest
<1>5. CASE ~isSending /\ queue # <<>> /\ verified /\ ~UNCHANGED <<item, queue, loop>>
  <2>1. /\ isSending' = TRUE /\ UNCHANGED <<item, queue>>
        /\ \E l \in Loops :
              /\ loop[l].at = "off"
              /\ loop' = [loop EXCEPT ![l] =
                    [SendOnePhoto(Head(queue), TRUE) EXCEPT !.cut = (Head(queue) # resuming)]]
    BY <1>5 DEF ResumeDrain
  <2>2. PICK l \in Loops :
              /\ loop[l].at = "off"
              /\ loop' = [loop EXCEPT ![l] =
                    [SendOnePhoto(Head(queue), TRUE) EXCEPT !.cut = (Head(queue) # resuming)]]
    BY <2>1
  <2>3. PICK i : i = Head(queue)
    OBVIOUS
  <2>4. i \in 1..Len(item)
    BY <1>5, <2>3, HeadFacts
  <2>5. PICK r : r = SendOnePhoto(i, TRUE)
    OBVIOUS
  <2>6. /\ r \in LoopState /\ r.at \in {"create", "rewind", "start"} /\ r.item = i
        /\ r.stream = IF item[i].stream = NoStream
                      THEN [session |-> session, bytes |-> item[i].bytes, started |-> FALSE]
                      ELSE item[i].stream
    BY <1>1, <2>4, <2>5, SendOnePhotoFacts DEF Typed
  <2>7. PICK c : c = (i # resuming)
    OBVIOUS
  <2>8. c \in BOOLEAN
    BY <2>7
  <2>9. PICK t : t = [r EXCEPT !.cut = c]
    OBVIOUS
  <2>10. t \in LoopState /\ t.at = r.at /\ t.item = i /\ t.stream = r.stream
    BY <2>6, <2>8, <2>9 DEF LoopState
  <2>11. loop' = [loop EXCEPT ![l] = t]
    BY <2>2, <2>3, <2>5, <2>7, <2>9
  <2>12. /\ loop' \in [Loops -> LoopState] /\ loop'[l] = t
         /\ \A k \in Loops : k # l => loop'[k] = loop[k]
    BY <1>1, <2>10, <2>11, OneLoopTyped DEF Typed
  <2>13. QueueTypes'
    BY <1>1, <1>2, <1>3, <2>1, <2>12 DEF Typed, QueueTypes
  <2>14. ItemsKept
    BY <2>1, SameItems
  <2>15. Take(l)
    BY <1>2, <1>5, <2>1, <2>2, <2>3, <2>6, <2>10, <2>12, <2>14 DEF Take, OthersKeep
  <2>16. Alive
    BY <1>5, <2>1, <2>12 DEF Alive, Active
  <2> QED
    BY <1>2, <2>13, <2>15, <2>16 DEF Typed
<1>6. CASE ~isSending /\ queue # <<>> /\ ~verified /\ ~UNCHANGED <<item, queue, loop>>
  <2>1. /\ queue' = Tail(queue) /\ item' = [item EXCEPT ![Head(queue)].fate = "failed"]
        /\ StartDrain(FALSE) \/ UNCHANGED <<isSending, loop>>
    BY <1>6 DEF ResumeDrain
  <2>2. PICK i : i = Head(queue)
    OBVIOUS
  <2>3. i \in 1..Len(item) /\ item[i] \in Item
    BY <1>6, <2>2, HeadFacts
  <2>4. PICK e : e = [item[i] EXCEPT !.fate = "failed"]
    OBVIOUS
  <2>5. /\ e \in Item /\ e.stream = item[i].stream /\ e.photo = item[i].photo
        /\ e.replace = item[i].replace /\ e.bytes = item[i].bytes
    BY <2>3, <2>4 DEF Item
  <2>6. item' = [item EXCEPT ![i] = e]
    BY <2>1, <2>2, <2>4
  <2>7. item' \in Seq(Item) /\ Len(item') = Len(item) /\ ItemsKept
    BY <1>1, <2>3, <2>5, <2>6, OneItemKept DEF Typed
  <2>8. QueueMoves
    BY <1>6, <2>1, <2>7, ShiftedQueue DEF Shifted
  <2>9. /\ loop' \in [Loops -> LoopState] /\ isSending' \in BOOLEAN
        /\ (isSending' = isSending /\ loop' = loop) \/ Begins
    BY <1>1, <1>3, <2>1, StartDrainFacts DEF Typed
  <2> QED
    BY <1>2, <1>3, <2>7, <2>8, <2>9, Quietly
<1> QED
  BY <1>4, <1>5, <1>6 DEF ResumeDrain

\* A step of the gallery that leaves queue and loops alone.
LEMMA GalleryOnly ==
  ASSUME Base, UNCHANGED queueVars, UNCHANGED sessionVars, shownItems' = shownItems,
         GalleryTypes', PairingTypes'
  PROVE  Typed' /\ Rest /\ Alive
<1>1. Typed
  BY DEF Base, Typed
<1>2. QueueTypes' /\ SessionTypes' /\ SameFlow
  BY <1>1, SameTypes DEF SameFlow, sessionVars
<1>3. /\ item' = item /\ queue' = queue /\ loop' = loop /\ isSending' = isSending
  BY DEF queueVars
<1>4. ItemsKept /\ QueueMoves /\ Rests /\ Alive
  <2>1. Len(item') = Len(item)
    BY <1>3
  <2> QED
    BY <1>3, <2>1, SameItems, SameQueue, OnlyLoops
<1> QED
  BY <1>2, <1>4 DEF Typed, Rest

LEMMA PickFilesRests ==
  ASSUME Base, PickFiles
  PROVE  Typed' /\ Rest /\ Alive
<1>1. Typed
  BY DEF Base, Typed
<1>2. PairingTypes' /\ shownItems' = shownItems
  BY <1>1, SameTypes DEF PickFiles, pairingVars
<1>3. picking' \in Nat /\ picks' \in 0..Len(PickSizes)
  <2>1. Len(PickSizes) \in Nat
    BY ConstantsAssumption, LenProperties
  <2>2. picks' \in 0..Len(PickSizes) /\ picks' \in 1..Len(PickSizes)
    BY <1>1, <2>1 DEF Typed, GalleryTypes, PickFiles
  <2>3. picking' = PickSizes[picks']
    BY DEF PickFiles
  <2>4. PickSizes[picks'] \in Nat \ {0}
    BY <2>2, ConstantsAssumption, ElementOfSeq
  <2> QED
    BY <2>2, <2>3, <2>4
<1>4. chosen' \in [pick : Nat, photo : Nat]
  <2>1. edits.pairings \in Nat /\ chosen \in [pick : Nat, photo : Nat]
    BY <1>1, ConstantsAssumption DEF Typed, GalleryTypes
  <2>2. PICK n \in Nat : n = edits.pairings
    BY <2>1
  <2>3. chosen' = [chosen EXCEPT !.pick = n]
    BY <2>2 DEF PickFiles
  <2> QED
    BY <2>1, <2>3
<1>5. GalleryTypes'
  BY <1>1, <1>3, <1>4 DEF Typed, GalleryTypes, PickFiles
<1> QED
  BY <1>2, <1>5, GalleryOnly DEF PickFiles

LEMMA CaptureRests ==
  ASSUME Base, NEW p \in Photo, Capture(p)
  PROVE  Typed' /\ Rest /\ Alive
<1>1. Typed
  BY DEF Base, Typed
<1>2. PairingTypes' /\ shownItems' = shownItems
  BY <1>1, SameTypes DEF Capture, pairingVars
<1>3. photo' \in [Photo -> GalleryPhoto]
  <2>1. PICK g : g = [state |-> "kept", bytes |-> 1, sentHash |-> 0]
    OBVIOUS
  <2>2. g \in GalleryPhoto
    BY <2>1 DEF GalleryPhoto
  <2>3. photo' = [photo EXCEPT ![p] = g]
    BY <2>1 DEF Capture
  <2> QED
    BY <1>1, <2>2, <2>3 DEF Typed, GalleryTypes
<1>4. chosen' \in [pick : Nat, photo : Nat]
  <2>1. edits.pairings \in Nat /\ chosen \in [pick : Nat, photo : Nat]
    BY <1>1, ConstantsAssumption DEF Typed, GalleryTypes
  <2>2. PICK n \in Nat : n = edits.pairings
    BY <2>1
  <2>3. chosen' = [chosen EXCEPT !.photo = n]
    BY <2>2 DEF Capture
  <2> QED
    BY <2>1, <2>3
<1>5. capturing' \in 0..NumPhotos
  BY ConstantsAssumption DEF Capture, Photo
<1>6. GalleryTypes'
  BY <1>1, <1>3, <1>4, <1>5 DEF Typed, GalleryTypes, Capture
<1> QED
  BY <1>2, <1>6, GalleryOnly DEF Capture

\* One more edit of some kind.
LEMMA EditsTyped ==
  ASSUME Typed
  PROVE  /\ edits.crops < MaxCrops => [edits EXCEPT !.crops = @ + 1] \in
              [crops : 0..MaxCrops, rotations : 0..MaxRotations,
               deletes : 0..MaxDeletes, pairings : 0..MaxPairings]
         /\ edits.rotations < MaxRotations => [edits EXCEPT !.rotations = @ + 1] \in
              [crops : 0..MaxCrops, rotations : 0..MaxRotations,
               deletes : 0..MaxDeletes, pairings : 0..MaxPairings]
         /\ edits.deletes < MaxDeletes => [edits EXCEPT !.deletes = @ + 1] \in
              [crops : 0..MaxCrops, rotations : 0..MaxRotations,
               deletes : 0..MaxDeletes, pairings : 0..MaxPairings]
         /\ edits.pairings < MaxPairings => [edits EXCEPT !.pairings = @ + 1] \in
              [crops : 0..MaxCrops, rotations : 0..MaxRotations,
               deletes : 0..MaxDeletes, pairings : 0..MaxPairings]
<1>1. MaxCrops \in Nat /\ MaxRotations \in Nat /\ MaxDeletes \in Nat /\ MaxPairings \in Nat
  BY ConstantsAssumption
<1>2. edits \in [crops : 0..MaxCrops, rotations : 0..MaxRotations,
                 deletes : 0..MaxDeletes, pairings : 0..MaxPairings]
  BY DEF Typed, GalleryTypes
<1>3. /\ edits.crops < MaxCrops => edits.crops + 1 \in 0..MaxCrops
      /\ edits.rotations < MaxRotations => edits.rotations + 1 \in 0..MaxRotations
      /\ edits.deletes < MaxDeletes => edits.deletes + 1 \in 0..MaxDeletes
      /\ edits.pairings < MaxPairings => edits.pairings + 1 \in 0..MaxPairings
  BY <1>1, <1>2
<1>4. PICK c, r, d, g : /\ c = edits.crops + 1 /\ r = edits.rotations + 1
                        /\ d = edits.deletes + 1 /\ g = edits.pairings + 1
  OBVIOUS
<1>5. /\ c \in 0..MaxCrops => [edits EXCEPT !.crops = c] \in
            [crops : 0..MaxCrops, rotations : 0..MaxRotations,
             deletes : 0..MaxDeletes, pairings : 0..MaxPairings]
      /\ r \in 0..MaxRotations => [edits EXCEPT !.rotations = r] \in
            [crops : 0..MaxCrops, rotations : 0..MaxRotations,
             deletes : 0..MaxDeletes, pairings : 0..MaxPairings]
      /\ d \in 0..MaxDeletes => [edits EXCEPT !.deletes = d] \in
            [crops : 0..MaxCrops, rotations : 0..MaxRotations,
             deletes : 0..MaxDeletes, pairings : 0..MaxPairings]
      /\ g \in 0..MaxPairings => [edits EXCEPT !.pairings = g] \in
            [crops : 0..MaxCrops, rotations : 0..MaxRotations,
             deletes : 0..MaxDeletes, pairings : 0..MaxPairings]
  BY <1>2
<1> QED
  BY <1>3, <1>4, <1>5

LEMMA CropsCounted ==
  ASSUME Typed, NEW p \in Photo, Crop(p)
  PROVE  edits'.crops # 0
<1>1. edits \in [crops : 0..MaxCrops, rotations : 0..MaxRotations,
                 deletes : 0..MaxDeletes, pairings : 0..MaxPairings]
  BY DEF Typed, GalleryTypes
<1>2. edits.crops \in Nat /\ edits' = [edits EXCEPT !.crops = @ + 1]
  BY <1>1, ConstantsAssumption DEF Crop
<1>3. edits'.crops = edits.crops + 1
  BY <1>1, <1>2
<1> QED
  BY <1>2, <1>3

LEMMA PushRests ==
  ASSUME Base, FileStripped \/ CaptureQueued
  PROVE  Typed' /\ Rest /\ Alive
<1>1. Typed /\ item \in Seq(Item) /\ Len(item) \in Nat
  BY QueueElements DEF Base, Typed, QueueTypes
<1>2. /\ SessionTypes' /\ PairingTypes' /\ SameFlow /\ shownItems' = shownItems
      /\ StartDrain(pausedOnTransient) /\ UNCHANGED <<pausedOnTransient, resuming>>
  BY <1>1, SameTypes DEF FileStripped, CaptureQueued, SameFlow, sessionVars, pairingVars
<1>3. /\ loop' \in [Loops -> LoopState] /\ isSending' \in BOOLEAN
      /\ (isSending' = isSending /\ loop' = loop) \/ Begins
  BY <1>1, <1>2, StartDrainFacts DEF Typed
<1>4. \E p \in 0..NumPhotos, b, n, c \in Nat :
        b > 0 /\ p \in {0, capturing} /\ Push(p, b, 0, n, c)
  <2>1. /\ capturing \in 0..NumPhotos /\ chosen.pick \in Nat /\ chosen.photo \in Nat /\ picks \in Nat
        /\ 0 \in 0..NumPhotos
    BY <1>1, ConstantsAssumption, LenProperties DEF Typed, GalleryTypes
  <2>2. CASE FileStripped
    <3>1. Push(0, Len(item) + 1, 0, picks, chosen.pick) /\ Len(item) + 1 \in Nat \ {0}
      BY <1>1, <2>2 DEF FileStripped
    <3> QED
      BY <2>1, <3>1
  <2>3. CASE CaptureQueued
    BY <2>1, <2>3 DEF CaptureQueued
  <2> QED
    BY <2>2, <2>3
<1>5. item' \in Seq(Item) /\ ItemsKept /\ QueueMoves
  BY <1>4, PushFacts
<1>6. GalleryTypes'
  <2>1. CASE FileStripped
    BY <1>1, <2>1 DEF Typed, GalleryTypes, FileStripped
  <2>2. CASE CaptureQueued
    <3>1. photo' \in [Photo -> GalleryPhoto]
      <4>1. capturing \in Photo /\ photo \in [Photo -> GalleryPhoto]
        <5>1. capturing \in 0..NumPhotos /\ photo \in [Photo -> GalleryPhoto]
          BY <1>1 DEF Typed, GalleryTypes
        <5>2. capturing # 0
          BY <2>2 DEF CaptureQueued
        <5> QED
          BY <5>1, <5>2, ConstantsAssumption DEF Photo
      <4>2. PICK g : g = [photo[capturing] EXCEPT !.bytes = 1]
        OBVIOUS
      <4>3. g \in GalleryPhoto
        BY <4>1, <4>2 DEF GalleryPhoto
      <4>4. photo' \in {photo, [photo EXCEPT ![capturing] = g]}
        BY <2>2, <4>2 DEF CaptureQueued
      <4> QED
        BY <4>1, <4>3, <4>4
    <3>2. capturing' \in 0..NumPhotos
      BY <2>2, ConstantsAssumption DEF CaptureQueued
    <3> QED
      BY <1>1, <2>2, <3>1, <3>2 DEF Typed, GalleryTypes, CaptureQueued
  <2> QED
    BY <2>1, <2>2
<1>7. /\ pausedOnTransient' \in BOOLEAN /\ pendingBatchStart' \in BOOLEAN
      /\ pendingBatchEnd' \in BOOLEAN
  BY <1>1, <1>2 DEF Typed, QueueTypes, FileStripped, CaptureQueued
<1> QED
  BY <1>2, <1>3, <1>5, <1>6, <1>7, Quietly

LEMMA RotateRests ==
  ASSUME Base, NEW p \in Photo, Rotate(p)
  PROVE  Typed' /\ Rest /\ Alive
<1>1. Typed /\ photo \in [Photo -> GalleryPhoto] /\ images \in Seq(Image)
  BY DEF Base, Typed, GalleryTypes, PairingTypes
<1>2. photo[p].bytes \in Nat /\ photo[p] \in GalleryPhoto /\ p \in Nat
  BY <1>1 DEF GalleryPhoto, Photo
<1>3. photo' \in [Photo -> GalleryPhoto]
  <2>1. PICK g : g = [photo[p] EXCEPT !.bytes = photo[p].bytes + 1]
    OBVIOUS
  <2>2. g \in GalleryPhoto
    BY <1>2, <2>1 DEF GalleryPhoto
  <2>3. photo' = [photo EXCEPT ![p] = g]
    BY <2>1 DEF Rotate
  <2> QED
    BY <1>1, <2>2, <2>3
<1>4. GalleryTypes'
  BY <1>1, <1>3, EditsTyped DEF Typed, GalleryTypes, Rotate
<1>5. images' \in Seq(Image)
  <2>1. PICK k : k = FirstHash(<<p, photo[p].sentHash>>)
    OBVIOUS
  <2>2. k # 0 => k \in 1..Len(images)
    BY <2>1, ImageOf
  <2>3. PICK w : w = <<p, photo[p].bytes + 1>>
    OBVIOUS
  <2>4. w \in Nat \X Nat
    BY <1>2, <2>3
  <2>5. PICK m : m = [images[k] EXCEPT !.looks = w]
    OBVIOUS
  <2>6. k # 0 => m \in Image
    <3>1. k # 0 => images[k] \in Image
      BY <1>1, <2>2, ElementOfSeq
    <3> QED
      BY <2>4, <2>5, <3>1 DEF Image
  <2>7. images' = images \/ (k # 0 /\ images' = [images EXCEPT ![k] = m])
    BY <2>1, <2>3, <2>5 DEF Rotate, FirstHash, WithHash, SelectInSeq
  <2> QED
    BY <1>1, <2>2, <2>6, <2>7, ExceptSeq
<1>6. PairingTypes'
  BY <1>1, <1>5 DEF Typed, PairingTypes, Rotate
<1> QED
  BY <1>4, <1>6, GalleryOnly DEF Rotate

LEMMA DeleteRests ==
  ASSUME Base, NEW p \in Photo, Delete(p)
  PROVE  Typed' /\ Rest /\ Alive
<1>1. Typed /\ item \in Seq(Item) /\ Len(item) \in Nat /\ queue \in Seq(1..Len(item))
  BY QueueElements DEF Base, Typed, QueueTypes
<1>2. /\ SessionTypes' /\ SameFlow /\ shownItems' = shownItems
      /\ UNCHANGED <<isSending, pausedOnTransient, pendingBatchStart, pendingBatchEnd, loop, resuming>>
  BY <1>1, SameTypes DEF Delete, SameFlow, sessionVars
<1>3. photo' \in [Photo -> GalleryPhoto]
  <2>1. photo \in [Photo -> GalleryPhoto]
    BY <1>1 DEF Typed, GalleryTypes
  <2>2. PICK g : g = [photo[p] EXCEPT !.state = "gone"]
    OBVIOUS
  <2>3. g \in GalleryPhoto
    BY <2>1, <2>2 DEF GalleryPhoto
  <2>4. photo' = [photo EXCEPT ![p] = g]
    BY <2>2 DEF Delete
  <2> QED
    BY <2>1, <2>3, <2>4
<1>4. GalleryTypes'
  BY <1>1, <1>3, EditsTyped DEF Typed, GalleryTypes, Delete
<1>5. images' \in Seq(Image)
  <2>1. PICK k : k = FirstHash(<<p, photo[p].sentHash>>)
    OBVIOUS
  <2>2. k # 0 => k \in 1..Len(images)
    BY <2>1, ImageOf
  <2>3. images' = images \/ (k # 0 /\ images' = RemoveAt(images, k))
    BY <2>1 DEF Delete, FirstHash, WithHash, SelectInSeq
  <2>4. images \in Seq(Image)
    BY <1>1 DEF Typed, PairingTypes
  <2> QED
    BY <2>2, <2>3, <2>4, RemovedAt
<1>6. PairingTypes'
  BY <1>1, <1>5 DEF Typed, PairingTypes, Delete
<1>7. item' \in Seq(Item) /\ ItemsKept /\ QueueMoves
  <2>1. CASE UNCHANGED <<item, queue>>
    <3>1. Len(item') = Len(item)
      BY <2>1
    <3> QED
      BY <1>1, <2>1, <3>1, SameItems, SameQueue
  <2>2. CASE ~UNCHANGED <<item, queue>>
    <3>1. PICK n : n = QueuedOf(p)
      OBVIOUS
    <3>2. /\ n # 0 /\ queue' = RemoveAt(queue, n)
          /\ item' = [item EXCEPT ![queue[n]].fate = "removed"]
      BY <2>2, <3>1 DEF Delete
    <3>3. n \in 1..Len(queue)
      BY <3>1, <3>2, ItemOf
    <3>4. PICK i : i = queue[n]
      OBVIOUS
    <3>5. i \in 1..Len(item) /\ item[i] \in Item
      BY <1>1, <3>3, <3>4, ElementOfSeq
    <3>6. PICK e : e = [item[i] EXCEPT !.fate = "removed"]
      OBVIOUS
    <3>7. /\ e \in Item /\ e.stream = item[i].stream /\ e.photo = item[i].photo
          /\ e.replace = item[i].replace /\ e.bytes = item[i].bytes
      BY <3>5, <3>6 DEF Item
    <3>8. item' = [item EXCEPT ![i] = e]
      BY <3>2, <3>4, <3>6
    <3>9. item' \in Seq(Item) /\ Len(item') = Len(item) /\ ItemsKept
      BY <1>1, <3>5, <3>7, <3>8, OneItemKept DEF Typed
    <3>10. /\ queue' \in Seq(1..Len(item)) /\ Ascending(queue')
           /\ ToSet(queue') = ToSet(queue) \ {queue[n]}
      <4>1. 1..Len(item) \in SUBSET Nat /\ Ascending(queue)
        BY <1>1 DEF Base
      <4> QED
        BY <1>1, <3>2, <3>3, <4>1, RemovedAscends
    <3> QED
      BY <3>9, <3>10 DEF QueueMoves
  <2> QED
    BY <2>1, <2>2
<1>8. /\ loop' \in [Loops -> LoopState] /\ isSending' \in BOOLEAN /\ pausedOnTransient' \in BOOLEAN
      /\ pendingBatchStart' \in BOOLEAN /\ pendingBatchEnd' \in BOOLEAN
  BY <1>1, <1>2 DEF Typed, QueueTypes
<1> QED
  BY <1>2, <1>4, <1>6, <1>7, <1>8, Quietly

LEMMA CropRests ==
  ASSUME Base, NEW p \in Photo, Crop(p)
  PROVE  Typed' /\ Rest /\ Alive
<1>1. Typed /\ item \in Seq(Item) /\ Len(item) \in Nat /\ queue \in Seq(1..Len(item))
  BY QueueElements DEF Base, Typed, QueueTypes
<1>2. /\ SessionTypes' /\ PairingTypes' /\ SameFlow /\ shownItems' = shownItems
      /\ UNCHANGED <<pausedOnTransient, pendingBatchStart, pendingBatchEnd, resuming>>
  BY <1>1, SameTypes DEF Crop, SameFlow, sessionVars, pairingVars
<1>3. photo \in [Photo -> GalleryPhoto] /\ edits.pairings \in Nat
  BY <1>1, ConstantsAssumption DEF Typed, GalleryTypes
<1>4. photo[p].bytes \in Nat /\ photo[p].sentHash \in Nat /\ p \in 0..NumPhotos
  BY <1>3, ConstantsAssumption DEF GalleryPhoto, Photo
<1>5. photo' \in [Photo -> GalleryPhoto]
  <2>1. PICK g : g = [photo[p] EXCEPT !.bytes = photo[p].bytes + 1]
    OBVIOUS
  <2>2. g \in GalleryPhoto
    BY <1>3, <1>4, <2>1 DEF GalleryPhoto
  <2>3. photo' = [photo EXCEPT ![p] = g]
    BY <2>1 DEF Crop
  <2> QED
    BY <1>3, <2>2, <2>3
<1>6. GalleryTypes'
  BY <1>1, <1>5, EditsTyped DEF Typed, GalleryTypes, Crop
<1>7. /\ loop' \in [Loops -> LoopState] /\ isSending' \in BOOLEAN
      /\ (isSending' = isSending /\ loop' = loop) \/ Begins
  <2>1. StartDrain(pausedOnTransient) \/ UNCHANGED <<isSending, loop>>
    BY DEF Crop
  <2>2. CASE StartDrain(pausedOnTransient)
    BY <1>1, <2>2, StartDrainFacts DEF Typed
  <2>3. CASE UNCHANGED <<isSending, loop>>
    BY <1>1, <2>3 DEF Typed, QueueTypes
  <2> QED
    BY <2>1, <2>2, <2>3
<1>8. item' \in Seq(Item) /\ ItemsKept /\ QueueMoves
  <2>1. CASE photo[p].sentHash # 0
    <3>1. Push(p, photo[p].bytes + 1, photo[p].sentHash, 0, edits.pairings)
      BY <2>1 DEF Crop
    <3>2. photo[p].bytes + 1 \in Nat /\ photo[p].bytes + 1 > 0 /\ 0 \in Nat
      BY <1>4
    <3>3. edits'.crops # 0
      BY <1>1, CropsCounted
    <3> QED
      BY <1>3, <1>4, <3>1, <3>2, <3>3, PushFacts
  <2>2. CASE UNCHANGED <<item, queue>>
    <3>1. Len(item') = Len(item)
      BY <2>2
    <3> QED
      BY <1>1, <2>2, <3>1, SameItems, SameQueue
  <2>3. CASE photo[p].sentHash = 0 /\ ~UNCHANGED <<item, queue>>
    <3>1. PICK n : n = QueuedOf(p)
      OBVIOUS
    <3>2. /\ n # 0 /\ queue' = queue
          /\ item' = [item EXCEPT ![queue[n]].bytes = photo[p].bytes + 1,
                                  ![queue[n]].stream = NoStream]
      BY <2>3, <3>1 DEF Crop
    <3>3. n \in 1..Len(queue)
      BY <3>1, <3>2, ItemOf
    <3>4. PICK i : i = queue[n]
      OBVIOUS
    <3>5. i \in 1..Len(item) /\ item[i] \in Item
      BY <1>1, <3>3, <3>4, ElementOfSeq
    <3>6. PICK b : b = photo[p].bytes + 1
      OBVIOUS
    <3>7. b \in Nat /\ b > 0
      BY <1>4, <3>6
    <3>8. PICK e : e = [item[i] EXCEPT !.bytes = b, !.stream = NoStream]
      OBVIOUS
    <3>9. /\ e \in Item /\ e.stream = NoStream /\ e.photo = item[i].photo
          /\ e.replace = item[i].replace /\ e.bytes > 0
      BY <3>5, <3>7, <3>8, OffFacts DEF Item
    <3>10. item' = [item EXCEPT ![i] = e]
      BY <1>1, <3>2, <3>4, <3>5, <3>6, <3>8
    <3>11. item' \in Seq(Item) /\ Len(item') = Len(item) /\ ItemsKept
      BY <1>1, <3>5, <3>9, <3>10, OneItemKept DEF Typed
    <3> QED
      BY <3>2, <3>11, SameQueue
  <2> QED
    BY <2>1, <2>2, <2>3
<1>9. /\ pausedOnTransient' \in BOOLEAN /\ pendingBatchStart' \in BOOLEAN
      /\ pendingBatchEnd' \in BOOLEAN
  BY <1>1, <1>2 DEF Typed, QueueTypes
<1> QED
  BY <1>2, <1>6, <1>7, <1>8, <1>9, Quietly

LEMMA DropRests ==
  ASSUME Base, Drop
  PROVE  Typed' /\ Rest /\ Alive
<1>1. Typed /\ loop \in [Loops -> LoopState]
  BY DEF Base, Typed, QueueTypes
<1>2. /\ GalleryTypes' /\ SameFlow /\ shownItems' = shownItems
      /\ UNCHANGED <<item, queue, isSending, pausedOnTransient, pendingBatchStart,
                     pendingBatchEnd, resuming>>
  BY <1>1, SameTypes DEF Drop, SameFlow
<1>3. SessionTypes'
  BY <1>1 DEF Typed, SessionTypes, Drop
<1>4. PairingTypes'
  <2>1. drops' \in 0..MaxDrops
    BY <1>1, ConstantsAssumption DEF Typed, PairingTypes, Drop
  <2> QED
    BY <1>1, <2>1 DEF Typed, PairingTypes, Drop
<1>5. ASSUME NEW l \in Loops PROVE loop'[l] \in LoopState /\ Keeps(l)
  <2>1. PICK c : c = (loop[l].cut \/ loop[l].at \in {"send", "ack"})
    OBVIOUS
  <2>2. c \in BOOLEAN
    BY <2>1
  <2>3. loop'[l] = [loop[l] EXCEPT !.cut = c]
    BY <2>1 DEF Drop, Cut
  <2>4. loop[l] \in LoopState
    BY <1>1
  <2> QED
    BY <2>2, <2>3, <2>4 DEF LoopState, Keeps
<1>6. loop' \in [Loops -> LoopState]
  <2>1. loop' = [l \in Loops |-> loop'[l]]
    BY DEF Drop, Cut
  <2> QED
    BY <1>5, <2>1
<1>7. QueueTypes'
  BY <1>1, <1>2, <1>6 DEF Typed, QueueTypes
<1>8. ItemsKept /\ QueueMoves
  <2>1. Len(item') = Len(item) /\ item' = item /\ queue' = queue
    BY <1>2
  <2> QED
    BY <2>1, SameItems, SameQueue
<1>9. Rests /\ Alive
  BY <1>2, <1>5 DEF Rests, Alive, Active, Keeps
<1> QED
  BY <1>2, <1>3, <1>4, <1>7, <1>8, <1>9 DEF Typed, Rest

LEMMA ConnectionRests ==
  ASSUME Base, DropNoticed \/ Recover \/ Ready
  PROVE  Typed' /\ Rest /\ Alive
<1>1. Typed /\ item \in Seq(Item)
  BY DEF Base, Typed, QueueTypes
<1>2. /\ GalleryTypes' /\ shownItems' = shownItems /\ SessionTypes' /\ PairingTypes'
  <2>1. CASE DropNoticed
    BY <1>1, <2>1, SameTypes DEF DropNoticed, pairingVars, SessionTypes, Typed
  <2>2. CASE Recover
    BY <1>1, <2>2, SameTypes DEF Recover, SessionTypes, PairingTypes, Typed
  <2>3. CASE Ready
    BY <1>1, <2>3, SameTypes DEF Ready, pairingVars, SessionTypes, Typed
  <2> QED
    BY <2>1, <2>2, <2>3
<1>3. SameFlow
  BY DEF DropNoticed, Recover, Ready, SameFlow
<1>4. /\ UNCHANGED <<item, queue, pausedOnTransient, pendingBatchStart, pendingBatchEnd, resuming>>
      /\ Kick \/ UNCHANGED <<isSending, loop>>
  BY DEF DropNoticed, Recover, Ready, queueVars
<1>5. /\ loop' \in [Loops -> LoopState] /\ isSending' \in BOOLEAN
      /\ (isSending' = isSending /\ loop' = loop) \/ Begins
  <2>1. CASE Kick
    BY <1>1, <2>1, KickFacts DEF Typed
  <2>2. CASE UNCHANGED <<isSending, loop>>
    BY <1>1, <2>2 DEF Typed, QueueTypes
  <2> QED
    BY <1>4, <2>1, <2>2
<1>6. ItemsKept /\ QueueMoves
  <2>1. Len(item') = Len(item) /\ item' = item /\ queue' = queue
    BY <1>4
  <2> QED
    BY <2>1, SameItems, SameQueue
<1>7. /\ pausedOnTransient' \in BOOLEAN /\ pendingBatchStart' \in BOOLEAN
      /\ pendingBatchEnd' \in BOOLEAN
  BY <1>1, <1>4 DEF Typed, QueueTypes
<1> QED
  BY <1>1, <1>2, <1>3, <1>4, <1>5, <1>6, <1>7, Quietly

LEMMA ConnectedJoins ==
  ASSUME Base, Connected, ~InTurn
  PROVE  Typed' /\ Join /\ Alive
<1>1. Typed
  BY DEF Base, Typed
<1>2. QueueTypes' /\ GalleryTypes'
  BY <1>1, SameTypes DEF Connected
<1>3. SessionTypes' /\ PairingTypes'
  BY <1>1 DEF Typed, SessionTypes, PairingTypes, Connected
<1>4. Join
  BY DEF Connected, Join, queueVars
<1>5. Alive
  BY OnlyLoops DEF Connected, queueVars
<1> QED
  BY <1>2, <1>3, <1>4, <1>5 DEF Typed

\* A function on the items is a sequence of items.
LEMMA ItemsMapped ==
  ASSUME QueueTypes, NEW f \in [1..Len(item) -> Item], item' = f
  PROVE  item' \in Seq(Item) /\ Len(item') = Len(item)
<1>1. Len(item) \in Nat
  BY LenProperties DEF QueueTypes
<1>2. f \in Seq(Item)
  BY <1>1, SeqDef, Zenon
<1>3. Len(f) \in Nat /\ DOMAIN f = 1..Len(f) /\ DOMAIN f = 1..Len(item)
  BY <1>2, LenProperties
<1>4. Len(f) = Len(item)
  BY <1>1, <1>3
<1> QED
  BY <1>2, <1>4

LEMMA NextSessionTyped ==
  ASSUME Typed, NextSession, reconnects' \in 0..MaxReconnects, images' \in Seq(Image),
         UNCHANGED <<collection, shownItems>>
  PROVE  /\ SessionTypes' /\ PairingTypes'
         /\ session' = session + 1 /\ ~hasWinner' /\ ~verified' /\ ~connected'
         /\ pendingReplaceHash' = NoHash
<1>1. NoHash \in Nat \X Nat
  BY DEF NoHash
<1>2. session' = session + 1 /\ ~hasWinner' /\ ~verified' /\ ~connected' /\ pendingReplaceHash' = NoHash
  BY DEF NextSession
<1>3. SessionTypes'
  <2>1. session + 1 \in Nat \ {0}
    BY DEF Typed, SessionTypes
  <2>2. verified' = FALSE /\ hasWinner' = FALSE /\ connected' = FALSE
    BY DEF NextSession
  <2> QED
    BY <1>2, <2>1, <2>2 DEF SessionTypes
<1>4. PairingTypes'
  BY <1>1 DEF Typed, PairingTypes, NextSession
<1> QED
  BY <1>2, <1>3, <1>4

LEMMA ReconnectRenews ==
  ASSUME Base, Reconnect
  PROVE  Typed' /\ Renew /\ Alive
<1>1. Typed /\ item \in Seq(Item) /\ Len(item) \in Nat
  BY QueueElements DEF Base, Typed, QueueTypes
<1>2. /\ GalleryTypes'
      /\ UNCHANGED <<queue, isSending, pendingBatchStart, pendingBatchEnd, loop, resuming>>
      /\ UNCHANGED <<images, collection, shownItems>> /\ NextSession
      /\ pausedOnTransient' = FALSE
  BY <1>1, SameTypes DEF Reconnect
<1>3. reconnects' \in 0..MaxReconnects
  BY <1>1, ConstantsAssumption DEF Typed, SessionTypes, Reconnect
<1>4. images' \in Seq(Image)
  BY <1>1, <1>2 DEF Typed, PairingTypes
<1>5. SessionTypes' /\ PairingTypes' /\ session' = session + 1 /\ ~hasWinner'
  BY <1>1, <1>2, <1>3, <1>4, NextSessionTyped
<1>6. ASSUME NEW i \in 1..Len(item)
      PROVE  /\ ResetItem(i) \in Item /\ ResetItem(i).stream = NoStream
             /\ ResetItem(i).photo = item[i].photo /\ ResetItem(i).replace = item[i].replace
             /\ ResetItem(i).bytes = item[i].bytes
  <2>1. item[i] \in Item
    BY <1>1, ElementOfSeq
  <2> QED
    BY <2>1, OffFacts DEF ResetItem, Item
<1>7. \A i \in 1..Len(item) : item[i] \in Item
  BY <1>1, ElementOfSeq
<1>8. PICK f : f = [i \in 1..Len(item) |-> IF i \in ToSet(queue) THEN ResetItem(i) ELSE item[i]]
  OBVIOUS
<1>9. f \in [1..Len(item) -> Item] /\ item' = f
  BY <1>6, <1>7, <1>8 DEF Reconnect
<1>10. item' \in Seq(Item) /\ Len(item') = Len(item)
  BY <1>1, <1>9, ItemsMapped DEF Typed
<1>11. ItemsKept
  <2>1. \A i \in 1..Len(item) : item'[i] = ResetItem(i) \/ item'[i] = item[i]
    BY <1>8, <1>9
  <2>2. \A i \in 1..Len(item) : /\ StreamKept(i) /\ item'[i].photo = item[i].photo
                                /\ item'[i].replace = item[i].replace /\ BytesKept(i)
    BY <1>6, <2>1 DEF StreamKept, BytesKept
  <2> QED
    BY <1>1, <1>10, <2>2, KeptItems
<1>12. QueueMoves
  BY <1>2, <1>10, SameQueue
<1>13. \A q \in ToSet(queue') : item'[q].stream = NoStream
  <2>1. \A q \in ToSet(queue) : q \in 1..Len(item)
    BY <1>1, QueueElements DEF Typed
  <2> QED
    BY <1>2, <1>6, <1>8, <1>9, <2>1
<1>14. QueueTypes'
  BY <1>1, <1>2, <1>10 DEF Typed, QueueTypes
<1>15. Rests /\ Alive
  BY <1>2, OnlyLoops
<1> QED
  BY <1>2, <1>5, <1>11, <1>12, <1>13, <1>14, <1>15 DEF Typed, Renew

LEMMA NewPairingRenews ==
  ASSUME Base, NewPairing
  PROVE  Typed' /\ Renew
<1>1. Typed /\ item \in Seq(Item) /\ Len(item) \in Nat
  BY QueueElements DEF Base, Typed, QueueTypes
<1>2. /\ UNCHANGED <<loop, resuming, capturing, picks, picking, chosen, reconnects,
                     collection, shownItems>>
      /\ NextSession /\ queue' = <<>> /\ images' = <<>>
      /\ pausedOnTransient' = FALSE /\ pendingBatchStart' = FALSE /\ pendingBatchEnd' = FALSE
      /\ isSending' = FALSE
  BY DEF NewPairing, AfterShred
<1>3. reconnects' \in 0..MaxReconnects /\ images' \in Seq(Image)
  BY <1>1, <1>2, EmptySeq DEF Typed, SessionTypes
<1>4. SessionTypes' /\ PairingTypes' /\ session' = session + 1 /\ ~hasWinner'
  BY <1>1, <1>2, <1>3, NextSessionTyped
<1>5. photo' \in [Photo -> GalleryPhoto]
  <2>1. photo \in [Photo -> GalleryPhoto]
    BY <1>1 DEF Typed, GalleryTypes
  <2>2. ASSUME NEW p \in Photo PROVE photo'[p] \in GalleryPhoto
    <3>1. PICK g : g = [photo[p] EXCEPT !.state = "gone"]
      OBVIOUS
    <3>2. g \in GalleryPhoto /\ photo[p] \in GalleryPhoto
      BY <2>1, <3>1 DEF GalleryPhoto
    <3>3. photo'[p] \in {g, photo[p]}
      BY <3>1 DEF NewPairing
    <3> QED
      BY <3>2, <3>3
  <2>3. photo' = [p \in Photo |-> photo'[p]]
    BY DEF NewPairing
  <2> QED
    BY <2>2, <2>3
<1>6. GalleryTypes'
  BY <1>1, <1>2, <1>5, EditsTyped DEF Typed, GalleryTypes, NewPairing
<1>7. ASSUME NEW i \in 1..Len(item)
      PROVE  /\ [item[i] EXCEPT !.fate = "removed"] \in Item
             /\ [item[i] EXCEPT !.fate = "removed"].stream = item[i].stream
             /\ [item[i] EXCEPT !.fate = "removed"].photo = item[i].photo
             /\ [item[i] EXCEPT !.fate = "removed"].replace = item[i].replace
             /\ [item[i] EXCEPT !.fate = "removed"].bytes = item[i].bytes
             /\ item[i] \in Item
  <2>1. item[i] \in Item
    BY <1>1, ElementOfSeq
  <2> QED
    BY <2>1 DEF Item
<1>8. PICK f : f = [i \in 1..Len(item) |->
                      IF i \in ToSet(queue) THEN [item[i] EXCEPT !.fate = "removed"] ELSE item[i]]
  OBVIOUS
<1>9. f \in [1..Len(item) -> Item] /\ item' = f
  BY <1>7, <1>8 DEF NewPairing
<1>10. item' \in Seq(Item) /\ Len(item') = Len(item)
  BY <1>1, <1>9, ItemsMapped DEF Typed
<1>11. ItemsKept
  <2>1. \A i \in 1..Len(item) : item'[i] \in {[item[i] EXCEPT !.fate = "removed"], item[i]}
    BY <1>8, <1>9
  <2>2. \A i \in 1..Len(item) : /\ StreamKept(i) /\ item'[i].photo = item[i].photo
                                /\ item'[i].replace = item[i].replace /\ BytesKept(i)
    BY <1>7, <2>1 DEF StreamKept, BytesKept
  <2> QED
    BY <1>1, <1>10, <2>2, KeptItems
<1>12. /\ queue' \in Seq(1..Len(item')) /\ Ascending(queue') /\ ToSet(queue') = {}
  BY <1>2, EmptySeq DEF Ascending, ToSet
<1>13. QueueMoves
  BY <1>12 DEF QueueMoves
<1>14. QueueTypes'
  BY <1>1, <1>2, <1>10, <1>12 DEF Typed, QueueTypes
<1>15. Rests
  BY <1>2, OnlyLoops
<1> QED
  BY <1>2, <1>4, <1>6, <1>11, <1>12, <1>13, <1>14, <1>15 DEF Typed, Renew

-----------------------------------------------------------------------------
(* Every step is one of these, and preserves the base.                     *)

\* What no step but a new pairing does.
SamePairing == edits'.pairings = edits.pairings

GatesOpen == connected \/ verified \/ up => hasWinner

Effect ==
  \/ Rest /\ Alive /\ SamePairing
  \/ Renew /\ Alive /\ SamePairing
  \/ Renew /\ edits'.pairings # 0
  \/ Join /\ hasWinner' /\ Alive /\ SamePairing
  \/ \E l \in Loops : LoopMoves(l) /\ Alive /\ SamePairing

LEMMA StepEffect ==
  ASSUME Base, GatesOpen, Next
  PROVE  Typed' /\ Effect
<1>1. connected => hasWinner
  BY DEF GatesOpen
<1>2. verified => hasWinner
  BY DEF GatesOpen
<1>3. ASSUME NEW l \in Loops, LoopStep(l) PROVE Typed' /\ Effect
  <2>1. SamePairing
    BY <1>3 DEF LoopStep, DrainEnd, DrainGate, DrainHead, SendFile, SendFileClosed,
                SendFileRefused, Conclude, galleryVars, SamePairing
  <2>2. CASE DrainEnd(l) \/ DrainGate(l)
    BY <2>1, <2>2, DrainStops DEF Effect
  <2>3. CASE DrainHead(l)
    BY <1>1, <2>1, <2>3, DrainHeadTakes DEF Effect, LoopMoves
  <2>4. CASE SendFile(l)
    BY <2>1, <2>4, SendFileSends DEF Effect, LoopMoves
  <2>5. CASE SendFileClosed(l)
    BY <2>1, <2>5, PauseEnds DEF Effect, LoopMoves
  <2>6. CASE SendFileRefused(l)
    BY <2>1, <2>6, ConcludeEnds DEF Effect, LoopMoves
  <2> QED
    BY <1>3, <2>2, <2>3, <2>4, <2>5, <2>6 DEF LoopStep
<1>4. ASSUME NEW l \in Loops, TransferStep(l) PROVE Typed' /\ Effect
  <2>1. SamePairing
    BY <1>4 DEF TransferStep, SenderReady, SendPaused, SendFails, AckArrives, ReceiverShows,
                Conclude, galleryVars, SamePairing
  <2>2. CASE SenderReady(l)
    BY <2>1, <2>2, SenderReadyPrepares DEF Effect, LoopMoves
  <2>3. CASE SendPaused(l)
    BY <2>1, <2>3, PauseEnds DEF Effect, LoopMoves
  <2>4. CASE SendFails(l) \/ AckArrives(l)
    BY <2>1, <2>4, ConcludeEnds DEF Effect, LoopMoves
  <2>5. CASE ReceiverShows(l)
    BY <2>1, <2>5, ReceiverShowsShows DEF Effect, LoopMoves
  <2> QED
    BY <1>4, <2>2, <2>3, <2>4, <2>5 DEF TransferStep
<1>5. CASE OfferArrives
  <2>1. SamePairing
    BY <1>5 DEF OfferArrives, galleryVars, SamePairing
  <2> QED
    BY <1>5, <2>1, OfferRests DEF Effect
<1>6. CASE ResumeDrain
  <2>1. SamePairing
    BY <1>6 DEF ResumeDrain, galleryVars, SamePairing
  <2> QED
    BY <1>2, <1>6, <2>1, ResumeDrainMoves DEF Effect, LoopMoves
<1>7. CASE User
  <2>1. CASE NewPairing
    <3>1. edits'.pairings # 0
      <4>1. Typed
        BY DEF Base, Typed
      <4>2. edits.pairings \in Nat
        BY <4>1, ConstantsAssumption DEF Typed, GalleryTypes
      <4>3. edits' = [edits EXCEPT !.pairings = @ + 1]
        BY <2>1 DEF NewPairing
      <4>4. edits'.pairings = edits.pairings + 1
        BY <4>1, <4>3 DEF Typed, GalleryTypes
      <4> QED
        BY <4>2, <4>4
    <3> QED
      BY <2>1, <3>1, NewPairingRenews DEF Effect
  <2>2. CASE PickFiles
    BY <2>2, PickFilesRests DEF Effect, PickFiles, SamePairing
  <2>3. CASE FileStripped \/ CaptureQueued
    BY <2>3, PushRests DEF Effect, FileStripped, CaptureQueued, SamePairing
  <2>4. ASSUME NEW p \in Photo, Capture(p) \/ Delete(p) \/ Rotate(p) \/ Crop(p)
        PROVE  Typed' /\ Effect
    <3>1. edits \in [crops : 0..MaxCrops, rotations : 0..MaxRotations,
                     deletes : 0..MaxDeletes, pairings : 0..MaxPairings]
      BY DEF Base, GalleryTypes
    <3>2. SamePairing
      BY <2>4, <3>1 DEF Capture, Delete, Rotate, Crop, SamePairing
    <3>3. CASE Capture(p)
      BY <3>2, <3>3, CaptureRests DEF Effect
    <3>4. CASE Delete(p)
      BY <3>2, <3>4, DeleteRests DEF Effect
    <3>5. CASE Rotate(p)
      BY <3>2, <3>5, RotateRests DEF Effect
    <3>6. CASE Crop(p)
      BY <3>2, <3>6, CropRests DEF Effect
    <3> QED
      BY <2>4, <3>3, <3>4, <3>5, <3>6
  <2> QED
    BY <1>7, <2>1, <2>2, <2>3, <2>4 DEF User
<1>8. CASE Connection /\ ~InTurn
  <2>1. CASE Drop
    BY <2>1, DropRests DEF Effect, Drop, galleryVars, SamePairing
  <2>2. CASE DropNoticed \/ Recover \/ Ready
    BY <2>2, ConnectionRests DEF Effect, DropNoticed, Recover, Ready, galleryVars, SamePairing
  <2>3. CASE Reconnect
    BY <2>3, ReconnectRenews DEF Effect, Reconnect, galleryVars, SamePairing
  <2>4. CASE Connected
    BY <1>8, <2>4, ConnectedJoins DEF Effect, Connected, galleryVars, SamePairing
  <2> QED
    BY <1>8, <2>1, <2>2, <2>3, <2>4 DEF Connection
<1> QED
  BY <1>3, <1>4, <1>5, <1>6, <1>7, <1>8 DEF Next

LEMMA Numbers ==
  ASSUME Base
  PROVE  /\ session \in Nat /\ Len(item) \in Nat
         /\ \A l \in Loops : /\ loop[l].via \in Nat /\ loop[l].stream.session \in Nat
                             /\ loop[l].item \in Nat
         /\ \A q \in ToSet(queue) : q \in 1..Len(item)
         /\ \A j \in ToSet(shownItems) : j \in Nat
<1>1. session \in Nat /\ Len(item) \in Nat /\ \A q \in ToSet(queue) : q \in 1..Len(item)
  BY QueueElements DEF Base, SessionTypes
<1>2. \A l \in Loops : /\ loop[l].via \in Nat /\ loop[l].stream.session \in Nat
                       /\ loop[l].item \in Nat
  BY DEF Base, QueueTypes, LoopState, Stream
<1>3. \A j \in ToSet(shownItems) : j \in Nat
  <2>1. shownItems \in Seq(Nat)
    BY DEF Base, PairingTypes
  <2> QED
    BY <2>1, SetOfSeq
<1> QED
  BY <1>1, <1>2, <1>3

\* The loops that work after a step, and where they come from.
LEMMA WorkGoesOn ==
  ASSUME Base, NEW l \in Loops, LoopMoves(l)
  PROVE  /\ \A k \in Loops : k # l => loop'[k] = loop[k]
         /\ Len(item) \in Nat /\ Len(item') = Len(item) /\ SameFlow
         /\ \A q \in ToSet(queue') : q \in ToSet(queue)
         /\ Take(l) \/ End(l) \/
            (loop[l].at \in Working /\ loop'[l].item = loop[l].item /\ queue' = queue
             /\ loop'[l].stream.session = loop[l].stream.session)
         /\ Take(l) => queue' = queue
<1>1. Len(item) \in Nat
  BY Numbers
<1>2. Take(l) => queue' = queue
  BY DEF Take
<1>3. CASE End(l)
  <2>1. Len(item') # Len(item) + 1
    BY <1>1, <1>3 DEF End
  <2>2. QueueMoves /\ OthersKeep(l) /\ Len(item') = Len(item) /\ SameFlow
    BY <1>3 DEF End
  <2>3. \A q \in ToSet(queue') : q \in ToSet(queue)
    BY <2>1, <2>2 DEF QueueMoves
  <2> QED
    BY <1>1, <1>2, <1>3, <2>2, <2>3 DEF OthersKeep
<1>4. CASE ~End(l)
  BY <1>1, <1>4 DEF LoopMoves, Take, Prepare, Send, Show, OthersKeep, Working
<1> QED
  BY <1>3, <1>4

LEMMA RestedWork ==
  ASSUME Rests, NEW l \in Loops, loop'[l].at \in Working \/ loop[l].at \in Working
  PROVE  Keeps(l) /\ loop[l].at \in Working
BY DEF Rests, Keeps, Resting, Working

LEMMA StepBase ==
  ASSUME Base, Typed', Effect
  PROVE  Base'
<1>1. Len(item) \in Nat
  BY Numbers
<1>2. CASE Rest \/ Renew
  <2>1. Rests /\ ItemsKept /\ QueueMoves
    BY <1>2 DEF Rest, Renew
  <2>2. LoopItems'
    <3> SUFFICES ASSUME NEW l \in Loops, loop'[l].at \in Working
                 PROVE  loop'[l].item \in 1..Len(item')
      BY DEF LoopItems
    <3>1. loop'[l].item = loop[l].item /\ loop[l].at \in Working
      BY <2>1, RestedWork DEF Keeps
    <3>2. loop[l].item \in 1..Len(item)
      BY <3>1 DEF Base, LoopItems
    <3>3. Len(item') \in {Len(item), Len(item) + 1}
      BY <2>1 DEF ItemsKept
    <3> QED
      BY <1>1, <3>1, <3>2, <3>3
  <2> QED
    BY <2>1, <2>2 DEF Base, Typed, QueueMoves
<1>3. CASE Join
  BY <1>3 DEF Base, Typed, Join, LoopItems, Ascending
<1>4. ASSUME NEW l \in Loops, LoopMoves(l) PROVE Base'
  <2>1. /\ \A k \in Loops : k # l => loop'[k] = loop[k]
        /\ Len(item') = Len(item)
        /\ Take(l) \/ End(l) \/ (loop[l].at \in Working /\ loop'[l].item = loop[l].item /\ queue' = queue)
        /\ Take(l) => queue' = queue
    BY <1>4, WorkGoesOn
  <2>2. loop'[l].at \in Working => loop'[l].item \in 1..Len(item)
    <3>1. CASE Take(l)
      BY <3>1, HeadFacts DEF Take
    <3>2. CASE End(l)
      BY <3>2 DEF End, Resting, Working
    <3>3. CASE loop[l].at \in Working /\ loop'[l].item = loop[l].item
      BY <3>3 DEF Base, LoopItems
    <3> QED
      BY <2>1, <3>1, <3>2, <3>3
  <2>3. LoopItems'
    <3> SUFFICES ASSUME NEW k \in Loops, loop'[k].at \in Working
                 PROVE  loop'[k].item \in 1..Len(item')
      BY DEF LoopItems
    <3>1. CASE k = l
      BY <2>1, <2>2, <3>1
    <3>2. CASE k # l
      BY <2>1, <3>2 DEF Base, LoopItems
    <3> QED
      BY <3>1, <3>2
  <2>4. Ascending(queue')
    <3>1. queue' = queue \/ QueueMoves
      BY <2>1 DEF End
    <3> QED
      BY <3>1 DEF Base, QueueMoves
  <2> QED
    BY <2>3, <2>4 DEF Base, Typed
<1> QED
  BY <1>2, <1>3, <1>4 DEF Effect

-----------------------------------------------------------------------------
(* One loop on a connection, the sessions of what it sends, and order.     *)

\* A loop's item is at the head, or it has left the queue.
Behind ==
  \A l \in Loops : loop[l].at \in Working => \A q \in ToSet(queue) : loop[l].item <= q

\* clear() resets isSending under a loop of the old pairing: it lives on
\* until that notices, which is before the next race is won.
OneAlive ==
  (hasWinner \/ edits.pairings = 0) =>
    /\ OneLoop
    /\ \A l \in Loops : Active(l) => isSending

OfSession ==
  \A l \in Loops :
    /\ loop[l].at \in {"create", "rewind", "start"} =>
         IF hasWinner THEN verified /\ loop[l].stream.session = session
         ELSE loop[l].stream.session < session
    /\ loop[l].at \in {"send", "ack"} =>
         IF hasWinner THEN verified /\ loop[l].via = session /\ loop[l].stream.session = session
         ELSE loop[l].via < session

\* A sender on a queued item has the session's keys, or createSender() of an
\* old session put it there and its loop is about to fail it.
QueuedOfSession ==
  \A q \in ToSet(queue) :
    \/ item[q].stream = NoStream
    \/ item[q].stream.session = session
    \/ ~hasWinner /\ \E l \in Loops : loop[l].at = "start" /\ loop[l].item = q

\* What was shown is behind all that is queued or under way, but for the
\* head whose ack is awaited.
ShownBefore ==
  \A j \in ToSet(shownItems) :
    /\ j <= Len(item)
    /\ \A l \in Loops : loop[l].at \in Working \ {"ack"} => j < loop[l].item
    /\ \A q \in ToSet(queue) :
         j < q \/ (j = q /\ \E l \in Loops : loop[l].at = "ack" /\ loop[l].item = q)

LEMMA StepBehind ==
  ASSUME Base, Effect, Behind
  PROVE  Behind'
<1> SUFFICES ASSUME NEW k \in Loops, loop'[k].at \in Working, NEW q \in ToSet(queue')
             PROVE  loop'[k].item <= q
  BY DEF Behind
<1>1. Len(item) \in Nat /\ \A p \in ToSet(queue) : p \in 1..Len(item)
  BY Numbers
<1>2. CASE Rest \/ Renew
  <2>1. loop'[k].item = loop[k].item /\ loop[k].at \in Working
    BY <1>2, RestedWork DEF Rest, Renew, Keeps
  <2>2. q \in ToSet(queue) \/ q = Len(item) + 1
    BY <1>2 DEF Rest, Renew, QueueMoves
  <2>3. loop[k].item \in 1..Len(item)
    BY <2>1 DEF Base, LoopItems
  <2> QED
    BY <1>1, <2>1, <2>2, <2>3 DEF Behind
<1>3. CASE Join
  BY <1>3 DEF Join, Behind
<1>4. ASSUME NEW l \in Loops, LoopMoves(l) PROVE loop'[k].item <= q
  <2>1. /\ k # l => loop'[k] = loop[k]
        /\ q \in ToSet(queue)
        /\ Take(l) \/ End(l) \/ (loop[l].at \in Working /\ loop'[l].item = loop[l].item)
    BY <1>4, WorkGoesOn
  <2>2. CASE k # l
    BY <2>1, <2>2 DEF Behind
  <2>3. CASE k = l /\ Take(l)
    BY <2>1, <2>3, HeadFacts DEF Take
  <2>4. CASE k = l /\ End(l)
    BY <2>4 DEF End, Resting, Working
  <2>5. CASE k = l /\ loop[l].at \in Working /\ loop'[l].item = loop[l].item
    BY <2>1, <2>5 DEF Behind
  <2> QED
    BY <2>1, <2>2, <2>3, <2>4, <2>5
<1> QED
  BY <1>2, <1>3, <1>4 DEF Effect

\* When the race of a session is won, no loop of another one is left.
LEMMA NobodyLeft ==
  ASSUME Base, OfSession, Join
  PROVE  \A l \in Loops : loop[l].at = "off"
<1> SUFFICES ASSUME NEW l \in Loops PROVE loop[l].at = "off"
  OBVIOUS
<1>1. loop[l].at \notin {"top", "start"}
  BY DEF Join, InTurn
<1>2. loop[l].at \in {"create", "rewind"} => FALSE
  <2>1. loop[l].at \in {"create", "rewind"} => loop[l].stream.session = session
    BY DEF Join, StaleLoop
  <2>2. loop[l].at \in {"create", "rewind"} => loop[l].stream.session < session
    BY DEF Join, OfSession
  <2> QED
    BY <2>1, <2>2, Numbers
<1>3. loop[l].at \in {"send", "ack"} => FALSE
  <2>1. loop[l].at \in {"send", "ack"} => loop[l].via = session
    BY DEF Join, StaleLoop
  <2>2. loop[l].at \in {"send", "ack"} => loop[l].via < session
    BY DEF Join, OfSession
  <2> QED
    BY <2>1, <2>2, Numbers
<1>4. loop[l].at \in {"off", "top", "create", "rewind", "start", "send", "ack"}
  BY DEF Base, QueueTypes, LoopState
<1> QED
  BY <1>1, <1>2, <1>3, <1>4

LEMMA StepOneAlive ==
  ASSUME Base, Effect, OfSession, OneAlive
  PROVE  OneAlive'
<1> SUFFICES ASSUME hasWinner' \/ edits'.pairings = 0
             PROVE  OneLoop' /\ \A l \in Loops : Active(l)' => isSending'
  BY DEF OneAlive
<1>1. CASE Join /\ Alive /\ SamePairing
  <2>1. \A l \in Loops : ~Active(l)'
    BY <1>1, NobodyLeft DEF Join, Active
  <2> QED
    BY <2>1 DEF OneLoop, Active
<1>2. CASE ~Join /\ Alive /\ (hasWinner \/ edits.pairings = 0)
  <2>1. /\ \A k, l \in Loops : Active(k) /\ Active(l) => k = l
        /\ \A l \in Loops : Active(l) => isSending
    BY <1>2 DEF OneAlive, OneLoop, Active
  <2>2. /\ \A k, l \in Loops : Active(k)' /\ Active(l)' => k = l
        /\ \A l \in Loops : Active(l)' => isSending'
    BY <1>2, <2>1 DEF Alive
  <2> QED
    BY <2>2 DEF OneLoop, Active
<1>3. (Rest \/ \E l \in Loops : LoopMoves(l)) => hasWinner' = hasWinner
  BY DEF Rest, LoopMoves, Take, Prepare, Send, Show, End, SameFlow
<1>4. Renew => ~hasWinner'
  BY DEF Renew
<1>5. Join \/ (Alive /\ (hasWinner \/ edits.pairings = 0))
  BY <1>3, <1>4 DEF Effect, SamePairing
<1> QED
  BY <1>1, <1>2, <1>5, <1>4, <1>3 DEF Effect

LEMMA StepOfSession ==
  ASSUME Base, GatesOpen, Effect, OfSession, QueuedOfSession
  PROVE  OfSession'
<1> SUFFICES ASSUME NEW k \in Loops
             PROVE  /\ loop'[k].at \in {"create", "rewind", "start"} =>
                         IF hasWinner' THEN verified' /\ loop'[k].stream.session = session'
                         ELSE loop'[k].stream.session < session'
                    /\ loop'[k].at \in {"send", "ack"} =>
                         IF hasWinner' THEN verified' /\ loop'[k].via = session'
                                            /\ loop'[k].stream.session = session'
                         ELSE loop'[k].via < session'
  BY DEF OfSession
<1>1. session \in Nat /\ loop[k].via \in Nat /\ loop[k].stream.session \in Nat
  BY Numbers
<1>2. CASE Rest \/ Renew
  <2>1. loop'[k].at \in Working => Keeps(k)
    BY <1>2, RestedWork DEF Rest, Renew
  <2>2. CASE loop'[k].at \notin Working
    BY <2>2 DEF Working
  <2>3. CASE Rest /\ Keeps(k)
    BY <2>3 DEF Rest, SameFlow, Keeps, OfSession
  <2>4. CASE Renew /\ Keeps(k)
    <3>1. /\ loop[k].at \in {"create", "rewind", "start"} => loop[k].stream.session < session + 1
          /\ loop[k].at \in {"send", "ack"} => loop[k].via < session + 1
      BY <1>1 DEF OfSession
    <3> QED
      BY <2>4, <3>1 DEF Renew, Keeps
  <2> QED
    BY <1>2, <2>1, <2>2, <2>3, <2>4
<1>3. CASE Join
  <2>1. loop'[k].at = "off"
    BY <1>3, NobodyLeft DEF Join
  <2> QED
    BY <2>1
<1>4. ASSUME NEW l \in Loops, LoopMoves(l), k # l
      PROVE  loop'[k] = loop[k] /\ SameFlow
  BY <1>4, WorkGoesOn
<1>5. ASSUME NEW l \in Loops, LoopMoves(l), k # l
      PROVE  /\ loop'[k].at \in {"create", "rewind", "start"} =>
                  IF hasWinner' THEN verified' /\ loop'[k].stream.session = session'
                  ELSE loop'[k].stream.session < session'
             /\ loop'[k].at \in {"send", "ack"} =>
                  IF hasWinner' THEN verified' /\ loop'[k].via = session'
                                     /\ loop'[k].stream.session = session'
                  ELSE loop'[k].via < session'
  BY <1>4, <1>5 DEF SameFlow, OfSession
<1>6. CASE Take(k)
  <2>1. hasWinner /\ verified /\ SameFlow /\ loop'[k].at \in {"create", "rewind", "start"}
    BY <1>6 DEF Take
  <2>2. loop'[k].stream.session = session
    <3>1. Head(queue) \in ToSet(queue)
      BY <1>6, HeadFacts DEF Take
    <3>2. CASE item[Head(queue)].stream = NoStream
      BY <1>6, <3>2 DEF Take
    <3>3. CASE item[Head(queue)].stream # NoStream
      <4>1. item[Head(queue)].stream.session = session
        BY <2>1, <3>1, <3>3 DEF QueuedOfSession
      <4> QED
        BY <1>6, <3>3, <4>1 DEF Take
    <3> QED
      BY <3>2, <3>3
  <2> QED
    BY <2>1, <2>2 DEF SameFlow
<1>7. CASE Prepare(k)
  BY <1>7 DEF Prepare, SameFlow, OfSession
<1>8. CASE Send(k)
  <2>1. hasWinner
    BY <1>8 DEF Send, GatesOpen
  <2> QED
    BY <1>8, <2>1 DEF Send, SameFlow, OfSession
<1>9. CASE Show(k)
  BY <1>9 DEF Show, SameFlow, OfSession
<1>10. CASE End(k)
  BY <1>10 DEF End, Resting
<1> QED
  BY <1>2, <1>3, <1>5, <1>6, <1>7, <1>8, <1>9, <1>10 DEF Effect, LoopMoves

LEMMA StepQueuedOfSession ==
  ASSUME Base, GatesOpen, Effect, Behind, OfSession, QueuedOfSession
  PROVE  QueuedOfSession'
<1> SUFFICES ASSUME NEW q \in ToSet(queue')
             PROVE  \/ item'[q].stream = NoStream
                    \/ item'[q].stream.session = session'
                    \/ ~hasWinner' /\ \E l \in Loops : loop'[l].at = "start" /\ loop'[l].item = q
  BY DEF QueuedOfSession
<1>1. Len(item) \in Nat /\ \A p \in ToSet(queue) : p \in 1..Len(item)
  BY Numbers
<1>2. CASE Rest
  <2>1. CASE q \in ToSet(queue)
    <3>1. StreamKept(q)
      BY <1>1, <1>2, <2>1 DEF Rest, ItemsKept
    <3>2. ASSUME NEW l \in Loops, loop[l].at = "start" PROVE Keeps(l)
      BY <1>2, <3>2, RestedWork DEF Rest, Working
    <3>3. session' = session /\ hasWinner' = hasWinner
      BY <1>2 DEF Rest, SameFlow
    <3> QED
      BY <2>1, <3>1, <3>2, <3>3 DEF QueuedOfSession, StreamKept, Keeps
  <2>2. CASE q \notin ToSet(queue)
    BY <1>2, <2>2 DEF Rest, QueueMoves, ItemsKept
  <2> QED
    BY <2>1, <2>2
<1>3. CASE Renew
  BY <1>3 DEF Renew
<1>4. CASE Join
  <2>1. \A l \in Loops : loop[l].at = "off"
    BY <1>4, NobodyLeft
  <2> QED
    BY <1>4, <2>1 DEF Join, QueuedOfSession
<1>5. ASSUME NEW l \in Loops, LoopMoves(l)
      PROVE  \/ item'[q].stream = NoStream
             \/ item'[q].stream.session = session'
             \/ ~hasWinner' /\ \E k \in Loops : loop'[k].at = "start" /\ loop'[k].item = q
  <2>1. /\ \A k \in Loops : k # l => loop'[k] = loop[k]
        /\ Len(item') = Len(item) /\ SameFlow /\ q \in ToSet(queue)
    BY <1>5, WorkGoesOn
  <2>2. session' = session /\ hasWinner' = hasWinner /\ q \in 1..Len(item)
    BY <1>1, <2>1 DEF SameFlow
  <2>3. CASE Prepare(l)
    <3>1. CASE item'[q].stream = item[q].stream
      <4>1. \A k \in Loops : loop[k].at = "start" => k # l
        BY <2>3 DEF Prepare
      <4> QED
        BY <2>1, <2>2, <3>1, <4>1 DEF QueuedOfSession
    <3>2. CASE q = loop[l].item /\ item'[q].stream = loop[l].stream
      <4>1. CASE hasWinner
        BY <2>2, <2>3, <3>2, <4>1 DEF Prepare, OfSession
      <4>2. CASE ~hasWinner
        BY <2>2, <2>3, <3>2, <4>2 DEF Prepare
      <4> QED
        BY <4>1, <4>2
    <3> QED
      BY <2>2, <2>3, <3>1, <3>2 DEF Prepare
  <2>4. CASE ~Prepare(l)
    <3>1. ItemsKept \/ item' = item
      BY <1>5, <2>4 DEF LoopMoves, Take, Send, Show, End
    <3>2. StreamKept(q)
      BY <2>2, <3>1 DEF ItemsKept, StreamKept
    <3>3. CASE hasWinner
      BY <2>1, <2>2, <3>2, <3>3 DEF QueuedOfSession, StreamKept
    <3>4. CASE ~hasWinner
      <4>1. End(l)
        BY <1>5, <2>4, <3>4 DEF LoopMoves, Take, Send, Show, GatesOpen
      <4>2. ASSUME loop[l].at = "start", loop[l].item = q PROVE FALSE
        <5>1. queue # <<>> /\ q # Head(queue) /\ \A p \in ToSet(queue) : Head(queue) <= p
          <6>1. queue # <<>>
            BY <2>1, EmptySeq DEF ToSet
          <6>2. ToSet(queue') = ToSet(queue) \ {Head(queue)}
            BY <3>4, <4>1, <4>2, <6>1 DEF End
          <6> QED
            BY <6>1, <6>2, HeadFacts
        <5>2. Head(queue) \in ToSet(queue)
          BY <5>1, HeadFacts
        <5>3. q <= Head(queue)
          BY <4>2, <5>2 DEF Behind, Working
        <5> QED
          BY <1>1, <2>1, <5>1, <5>2, <5>3
      <4> QED
        BY <2>1, <2>2, <3>2, <4>2 DEF QueuedOfSession, StreamKept
    <3> QED
      BY <3>3, <3>4
  <2> QED
    BY <2>3, <2>4
<1> QED
  BY <1>2, <1>3, <1>4, <1>5 DEF Effect

LEMMA StepShown ==
  ASSUME Base, GatesOpen, Effect, Behind, OneAlive, OfSession, ShownBefore, ShownInOrder
  PROVE  ShownBefore' /\ ShownInOrder'
<1>1. /\ Len(item) \in Nat /\ \A p \in ToSet(queue) : p \in 1..Len(item)
      /\ \A j \in ToSet(shownItems) : j \in Nat /\ j <= Len(item)
      /\ \A l \in Loops : loop[l].item \in Nat
  BY Numbers DEF ShownBefore
<1>2. CASE Rest \/ Renew
  <2>1. shownItems' = shownItems /\ Rests /\ ItemsKept /\ QueueMoves
    BY <1>2 DEF Rest, Renew
  <2>2. Len(item') \in {Len(item), Len(item) + 1}
    BY <2>1 DEF ItemsKept
  <2>3. ASSUME NEW j \in ToSet(shownItems), NEW l \in Loops, loop'[l].at \in Working \ {"ack"}
        PROVE  j < loop'[l].item
    <3>1. Keeps(l)
      BY <2>1, <2>3, RestedWork
    <3> QED
      BY <2>3, <3>1 DEF Keeps, ShownBefore
  <2>4. ASSUME NEW j \in ToSet(shownItems), NEW q \in ToSet(queue')
        PROVE  j < q \/ (j = q /\ \E l \in Loops : loop'[l].at = "ack" /\ loop'[l].item = q)
    <3>1. CASE q \in ToSet(queue)
      <4>1. \A l \in Loops : loop[l].at = "ack" => Keeps(l)
        BY <2>1, RestedWork DEF Working
      <4> QED
        BY <3>1, <4>1 DEF ShownBefore, Keeps
    <3>2. CASE q = Len(item) + 1
      <4>1. j \in Nat /\ j <= Len(item) /\ Len(item) \in Nat
        BY <1>1, <2>4
      <4>2. j < q
        BY <3>2, <4>1
      <4> QED
        BY <4>2
    <3> QED
      BY <2>1, <3>1, <3>2 DEF QueueMoves
  <2>5. ASSUME NEW j \in ToSet(shownItems) PROVE j <= Len(item')
    BY <1>1, <2>2
  <2> QED
    BY <2>1, <2>3, <2>4, <2>5 DEF ShownBefore, ShownInOrder
<1>3. CASE Join
  BY <1>3 DEF Join, ShownBefore, ShownInOrder
<1>4. ASSUME NEW l \in Loops, LoopMoves(l) PROVE ShownBefore' /\ ShownInOrder'
  <2>1. /\ \A k \in Loops : k # l => loop'[k] = loop[k]
        /\ Len(item') = Len(item) /\ \A q \in ToSet(queue') : q \in ToSet(queue)
    BY <1>4, WorkGoesOn
  \* A loop whose ack is awaited is the only one.
  <2>2. ASSUME NEW k \in Loops, k # l, hasWinner, loop[k].at = "ack" PROVE Take(l) => FALSE
    <3>1. Active(k) /\ isSending
      BY <2>2 DEF OneAlive, Active
    <3>2. Active(l) => k = l
      BY <2>2, <3>1 DEF OneAlive, OneLoop, Active
    <3> QED
      BY <2>2, <3>1, <3>2 DEF Take, Active
  <2>3. CASE Take(l)
    <3>1. /\ hasWinner /\ queue # <<>> /\ loop'[l].item = Head(queue) /\ loop'[l].at # "ack"
          /\ shownItems' = shownItems /\ loop[l].at # "ack"
      BY <2>3 DEF Take
    <3>2. Head(queue) \in ToSet(queue)
      BY <3>1, HeadFacts
    <3>3. \A k \in Loops : loop[k].at # "ack"
      BY <2>2, <2>3, <3>1
    <3>4. ASSUME NEW j \in ToSet(shownItems), NEW q \in ToSet(queue) PROVE j < q
      BY <3>3 DEF ShownBefore
    <3>5. ASSUME NEW j \in ToSet(shownItems), NEW k \in Loops, loop'[k].at \in Working \ {"ack"}
          PROVE  j < loop'[k].item
      <4>1. CASE k = l
        BY <3>1, <3>2, <3>4, <4>1
      <4>2. CASE k # l
        BY <2>1, <3>5, <4>2 DEF ShownBefore
      <4> QED
        BY <4>1, <4>2
    <3> QED
      BY <1>1, <2>1, <3>1, <3>4, <3>5 DEF ShownBefore, ShownInOrder
  <2>4. CASE Prepare(l) \/ Send(l)
    <3>1. /\ shownItems' = shownItems /\ queue' = queue /\ loop'[l].item = loop[l].item
          /\ loop[l].at \in Working \ {"ack"} /\ loop'[l].at # "ack"
      BY <2>4 DEF Prepare, Send, Working
    <3>2. ASSUME NEW j \in ToSet(shownItems), NEW k \in Loops, loop'[k].at \in Working \ {"ack"}
          PROVE  j < loop'[k].item
      BY <2>1, <3>1, <3>2 DEF ShownBefore
    <3>3. ASSUME NEW j \in ToSet(shownItems), NEW q \in ToSet(queue)
          PROVE  j < q \/ (j = q /\ \E k \in Loops : loop'[k].at = "ack" /\ loop'[k].item = q)
      BY <2>1, <3>1 DEF ShownBefore
    <3> QED
      BY <1>1, <2>1, <3>1, <3>2, <3>3 DEF ShownBefore, ShownInOrder
  <2>5. CASE Show(l)
    <3>1. /\ loop[l].at = "send" /\ loop'[l].at = "ack" /\ loop'[l].item = loop[l].item
          /\ hasWinner /\ queue' = queue /\ shownItems' = Append(shownItems, loop[l].item)
      BY <2>5 DEF Show, GatesOpen
    <3>2. PICK i : i = loop[l].item
      OBVIOUS
    <3>3. i \in 1..Len(item) /\ i \in Nat
      BY <1>1, <3>1, <3>2 DEF Base, LoopItems, Working
    <3>4. \A k \in Loops : k # l => loop[k].at = "off"
      BY <3>1 DEF OneAlive, OneLoop
    <3>5. \A j \in ToSet(shownItems) : j < i
      BY <3>1, <3>2 DEF ShownBefore, Working
    <3>6. shownItems \in Seq(Nat) /\ Ascending(shownItems)
      BY DEF Base, PairingTypes, ShownInOrder, Ascending
    <3>7. Ascending(shownItems') /\ ToSet(shownItems') = ToSet(shownItems) \cup {i}
      <4>1. Nat \in SUBSET Nat
        OBVIOUS
      <4> QED
        BY <3>1, <3>2, <3>3, <3>5, <3>6, <4>1, AppendAscends
    <3>8. \A k \in Loops : loop'[k].at \notin Working \ {"ack"}
      BY <2>1, <3>1, <3>4 DEF Working
    <3>9. ASSUME NEW j \in ToSet(shownItems'), NEW q \in ToSet(queue)
          PROVE  j < q \/ (j = q /\ \E k \in Loops : loop'[k].at = "ack" /\ loop'[k].item = q)
      <4>1. i <= q
        BY <3>1, <3>2 DEF Behind, Working
      <4>2. CASE j \in ToSet(shownItems)
        BY <1>1, <3>3, <3>5, <4>1, <4>2
      <4>3. CASE j = i
        BY <1>1, <3>1, <3>2, <3>3, <4>1, <4>3
      <4> QED
        BY <3>7, <4>2, <4>3
    <3>10. ASSUME NEW j \in ToSet(shownItems') PROVE j <= Len(item')
      BY <1>1, <2>1, <3>3, <3>7
    <3> QED
      BY <3>1, <3>7, <3>8, <3>9, <3>10 DEF ShownBefore, ShownInOrder, Ascending
  <2>6. CASE End(l)
    <3>1. shownItems' = shownItems /\ loop'[l].at \notin Working
      BY <2>6 DEF End, Resting, Working
    <3>2. ASSUME NEW j \in ToSet(shownItems), NEW k \in Loops, loop'[k].at \in Working \ {"ack"}
          PROVE  j < loop'[k].item
      BY <2>1, <3>1, <3>2 DEF ShownBefore
    <3>3. ASSUME NEW q \in ToSet(queue'), loop[l].at = "ack", loop[l].item = q PROVE FALSE
      <4>1. queue # <<>> /\ q # Head(queue) /\ \A p \in ToSet(queue) : Head(queue) <= p
        <5>1. queue # <<>> /\ q \in ToSet(queue)
          BY <2>1, EmptySeq DEF ToSet
        <5>2. ToSet(queue') = ToSet(queue) \ {Head(queue)}
          BY <2>6, <3>3, <5>1 DEF End
        <5> QED
          BY <5>1, <5>2, HeadFacts
      <4>2. Head(queue) \in ToSet(queue)
        BY <4>1, HeadFacts
      <4>3. q <= Head(queue)
        BY <3>3, <4>2 DEF Behind, Working
      <4> QED
        BY <1>1, <2>1, <4>1, <4>2, <4>3
    <3>4. ASSUME NEW j \in ToSet(shownItems), NEW q \in ToSet(queue')
          PROVE  j < q \/ (j = q /\ \E k \in Loops : loop'[k].at = "ack" /\ loop'[k].item = q)
      BY <2>1, <3>3 DEF ShownBefore
    <3> QED
      BY <1>1, <2>1, <3>1, <3>2, <3>4 DEF ShownBefore, ShownInOrder
  <2> QED
    BY <1>4, <2>3, <2>4, <2>5, <2>6 DEF LoopMoves
<1> QED
  BY <1>2, <1>3, <1>4 DEF Effect

LEMMA StepGates ==
  ASSUME Base, GatesOpen, Next
  PROVE  GatesOpen'
<1>1. CASE UNCHANGED <<connected, verified, up, hasWinner>>
  BY <1>1 DEF GatesOpen
<1>2. ASSUME NEW l \in Loops, LoopStep(l) \/ TransferStep(l)
      PROVE  UNCHANGED <<connected, verified, up, hasWinner>>
  BY <1>2 DEF LoopStep, DrainEnd, DrainGate, DrainHead, SendFile, SendFileClosed, SendFileRefused,
              TransferStep, SenderReady, SendPaused, SendFails, AckArrives, ReceiverShows,
              Conclude, sessionVars, pairingVars
<1>3. CASE OfferArrives \/ ResumeDrain
  BY <1>1, <1>3 DEF OfferArrives, ResumeDrain, sessionVars, pairingVars
<1>4. CASE User /\ ~NewPairing
  BY <1>1, <1>4 DEF User, PickFiles, FileStripped, CaptureQueued, Capture, Delete, Rotate, Crop,
                    sessionVars, pairingVars
<1>5. CASE NewPairing \/ Reconnect
  <2>1. NextSession
    BY <1>5 DEF NewPairing, Reconnect
  <2> QED
    BY <2>1 DEF NextSession, GatesOpen
<1>6. CASE Drop
  BY <1>6 DEF Drop, GatesOpen
<1>7. CASE DropNoticed \/ Recover \/ Connected \/ Ready
  BY <1>7 DEF DropNoticed, Recover, Connected, Ready, GatesOpen, pairingVars
<1> QED
  BY <1>2, <1>1, <1>3, <1>4, <1>5, <1>6, <1>7 DEF Next, User, Connection

QueueInv ==
  /\ Base /\ GatesOpen /\ Behind /\ OneAlive
  /\ OfSession /\ QueuedOfSession
  /\ ShownBefore /\ ShownInOrder

LEMMA InitQueueInv == Init => QueueInv
<1> SUFFICES ASSUME Init PROVE QueueInv
  OBVIOUS
<1>1. ConstantsAssumption
  BY ConstantsAssumption
<1>2. /\ <<>> \in Seq(Item) /\ <<>> \in Seq(1..0) /\ Len(<<>>) = 0
      /\ <<>> \in Seq(Image) /\ <<>> \in Seq(Nat)
  BY EmptySeq
<1>3. Len(item) = 0 /\ Len(shownItems) = 0 /\ Len(queue) = 0
  BY <1>2 DEF Init
<1>4. ToSet(queue) = {} /\ ToSet(shownItems) = {}
  BY DEF Init, ToSet
<1>5. \A l \in Loops : loop[l] = Off
  BY DEF Init
<1>6. QueueTypes
  <2>1. loop \in [Loops -> LoopState]
    BY OffFacts DEF Init
  <2>2. queue \in Seq(1..Len(item))
    BY <1>2, <1>3 DEF Init
  <2>3. item \in Seq(Item)
    BY <1>2 DEF Init
  <2>4. /\ isSending \in BOOLEAN /\ pausedOnTransient \in BOOLEAN
        /\ pendingBatchStart \in BOOLEAN /\ pendingBatchEnd \in BOOLEAN
    BY DEF Init
  <2>5. resuming \in 0..Len(item)
    BY <1>3 DEF Init
  <2> QED
    BY <2>1, <2>2, <2>3, <2>4, <2>5 DEF QueueTypes
<1>7. GalleryTypes
  <2>1. photo \in [Photo -> GalleryPhoto]
    <3>1. [state |-> "none", bytes |-> 0, sentHash |-> 0] \in GalleryPhoto
      BY DEF GalleryPhoto
    <3> QED
      BY <3>1 DEF Init
  <2>2. capturing \in 0..NumPhotos /\ picks \in 0..Len(PickSizes)
    BY <1>1, LenProperties DEF Init, ConstantsAssumption
  <2>3. edits \in [crops : 0..MaxCrops, rotations : 0..MaxRotations,
                   deletes : 0..MaxDeletes, pairings : 0..MaxPairings]
    BY <1>1 DEF Init, ConstantsAssumption
  <2>4. picking \in Nat /\ chosen \in [pick : Nat, photo : Nat]
    BY DEF Init
  <2> QED
    BY <2>1, <2>2, <2>3, <2>4 DEF GalleryTypes
<1>8. SessionTypes
  BY <1>1 DEF Init, SessionTypes, ConstantsAssumption
<1>9. PairingTypes
  <2>1. images \in Seq(Image) /\ shownItems \in Seq(Nat)
    BY <1>2 DEF Init
  <2>2. pendingReplaceHash \in Nat \X Nat
    BY DEF Init, NoHash
  <2>3. drops \in 0..MaxDrops /\ collection \in Nat
    BY <1>1 DEF Init, ConstantsAssumption
  <2>4. up \in BOOLEAN /\ partial \in BOOLEAN /\ offer \in BOOLEAN
    BY DEF Init
  <2> QED
    BY <2>1, <2>2, <2>3, <2>4 DEF PairingTypes
<1>10. LoopItems /\ Ascending(queue) /\ GatesOpen
  BY <1>3, <1>5, OffFacts DEF LoopItems, Working, Ascending, GatesOpen, Init
<1>11. Behind /\ QueuedOfSession /\ ShownBefore /\ ShownInOrder
  BY <1>3, <1>4 DEF Behind, QueuedOfSession, ShownBefore, ShownInOrder
<1>12. OneAlive /\ OfSession
  BY <1>5, OffFacts DEF OneAlive, OneLoop, Active, OfSession
<1> QED
  BY <1>6, <1>7, <1>8, <1>9, <1>10, <1>11, <1>12 DEF QueueInv, Base

LEMMA StepQueueInv == QueueInv /\ [Next]_vars => QueueInv'
<1> SUFFICES ASSUME QueueInv, [Next]_vars PROVE QueueInv'
  OBVIOUS
<1>1. CASE Next
  <2>1. Typed' /\ Effect
    BY <1>1, StepEffect DEF QueueInv
  <2>2. Base'
    BY <2>1, StepBase DEF QueueInv
  <2>3. GatesOpen'
    BY <1>1, StepGates DEF QueueInv
  <2>4. Behind'
    BY <2>1, StepBehind DEF QueueInv
  <2>5. OneAlive'
    BY <2>1, StepOneAlive DEF QueueInv
  <2>6. OfSession'
    BY <2>1, StepOfSession DEF QueueInv
  <2>7. QueuedOfSession'
    BY <2>1, StepQueuedOfSession DEF QueueInv
  <2>8. ShownBefore' /\ ShownInOrder'
    BY <2>1, StepShown DEF QueueInv
  <2> QED
    BY <2>2, <2>3, <2>4, <2>5, <2>6, <2>7, <2>8 DEF QueueInv
<1>2. CASE UNCHANGED vars
  <2>a. UNCHANGED queueVars /\ UNCHANGED galleryVars
        /\ UNCHANGED sessionVars /\ UNCHANGED pairingVars
    BY <1>2 DEF vars
  <2>b. QueueTypes' /\ LoopItems' /\ Ascending(queue)'
    BY <2>a DEF QueueInv, Base, QueueTypes, LoopItems, Ascending, queueVars
  <2>c. GalleryTypes' /\ SessionTypes' /\ PairingTypes'
    BY <2>a DEF QueueInv, Base, GalleryTypes, SessionTypes, PairingTypes,
                galleryVars, sessionVars, pairingVars
  <2>1. Base'
    BY <2>b, <2>c DEF Base
  <2>2. GatesOpen' /\ Behind' /\ OneAlive'
    BY <1>2 DEF QueueInv, GatesOpen, Behind, OneAlive, OneLoop, Active,
                vars, queueVars, galleryVars, sessionVars, pairingVars
  <2>3. OfSession' /\ QueuedOfSession' /\ ShownBefore' /\ ShownInOrder'
    BY <1>2 DEF QueueInv, OfSession, QueuedOfSession, ShownBefore, ShownInOrder,
                vars, queueVars, galleryVars, sessionVars, pairingVars
  <2> QED
    BY <2>1, <2>2, <2>3 DEF QueueInv
<1> QED
  BY <1>1, <1>2

\* Every reachable state satisfies the invariant: the order of the queue, the
\* life of its loops and the sessions of what they send (sender-send.js).
THEOREM QueueInvHolds == Spec => []QueueInv
<1>1. Init => QueueInv
  BY InitQueueInv
<1>2. QueueInv /\ [Next]_vars => QueueInv'
  BY StepQueueInv
<1> QED
  BY <1>1, <1>2, PTL DEF Spec

\* The sender page's variables keep their types: a handler that changes the
\* queue while a send is suspended leaves no loop, resume or gallery entry
\* with an item that does not exist.
THEOREM TypesHold == Spec => []TypeOK
<1>1. QueueInv => TypeOK
  BY TypesAreThese DEF QueueInv, Base
<1> QED
  BY <1>1, QueueInvHolds, PTL

\* While a session has a transport, and before any new pairing, drain() and
\* resumeDrain() never run twice at a time: isSending is set as long as one
\* of them runs, through pauses, resumes and reconnects.
THEOREM OneLoopPerConnection == Spec => [](hasWinner \/ edits.pairings = 0 => OneLoop)
<1>1. QueueInv => (hasWinner \/ edits.pairings = 0 => OneLoop)
  BY DEF QueueInv, OneAlive
<1> QED
  BY <1>1, QueueInvHolds, PTL

\* What goes out on a session's transport was confirmed in that session and
\* is sealed with its keys, whatever senders survived on items and in loops.
THEOREM SealedForItsSession == Spec => []SealedForSession
<1>1. QueueInv => SealedForSession
  <2> SUFFICES ASSUME QueueInv, NEW l \in Loops, loop[l].at \in {"send", "ack"},
                      loop[l].via = session
               PROVE  verified /\ loop[l].stream.session = session
    BY DEF SealedForSession
  <2>1. hasWinner
    <3>1. ~hasWinner => loop[l].via < session
      BY DEF QueueInv, OfSession
    <3> QED
      BY <3>1, Numbers DEF QueueInv
  <2> QED
    BY <2>1 DEF QueueInv, OfSession
<1> QED
  BY <1>1, QueueInvHolds, PTL

\* The receiver is shown the files in the order they were queued, and none
\* twice, through pauses, resumes, reconnects and new pairings.
THEOREM FilesInOrder == Spec => []ShownInOrder
<1>1. QueueInv => ShownInOrder
  BY DEF QueueInv
<1> QED
  BY <1>1, QueueInvHolds, PTL

-----------------------------------------------------------------------------
(* The queue is an outbox while the user takes nothing out of it.          *)

\* Nobody deleted a photo or left the room.
Untouched == edits.deletes = 0 /\ edits.pairings = 0

HeadInHand ==
  Untouched =>
    /\ \A q \in ToSet(queue) : item[q].fate = "queued"
    /\ \A l \in Loops : loop[l].at \in Working => queue # <<>> /\ Head(queue) = loop[l].item

SameFates == Len(item') = Len(item) /\ \A i \in 1..Len(item) : item'[i].fate = item[i].fate

Waits == SameFates /\ queue' = queue

Pushes ==
  /\ Len(item') = Len(item) + 1 /\ queue' = Append(queue, Len(item) + 1)
  /\ item'[Len(item) + 1].fate = "queued"
  /\ \A i \in 1..Len(item) : item'[i].fate = item[i].fate

Concludes ==
  /\ queue # <<>> /\ Len(item') = Len(item) /\ queue' = Tail(queue)
  /\ item'[Head(queue)].fate \in {"sent", "failed"}
  /\ \A i \in 1..Len(item) : i # Head(queue) => item'[i].fate = item[i].fate
  /\ \A l \in Loops : loop'[l].at \notin Working

LEMMA OneFate ==
  ASSUME QueueTypes, NEW i \in 1..Len(item), NEW e, e.fate = item[i].fate,
         item' = [item EXCEPT ![i] = e], Len(item') = Len(item)
  PROVE  SameFates
<1>1. item \in [1..Len(item) -> Item]
  BY LenProperties DEF QueueTypes
<1>2. \A j \in 1..Len(item) : item'[j] = IF j = i THEN e ELSE item[j]
  BY <1>1
<1> QED
  BY <1>2 DEF SameFates

LEMMA ConcludeOutbox ==
  ASSUME Base, OneAlive, HeadInHand, Untouched, NEW l \in Loops,
         loop[l].at \in {"start", "send", "ack"}, NEW ok \in BOOLEAN, Conclude(l, ok)
  PROVE  Concludes
<1>1. PICK i : i = loop[l].item
  OBVIOUS
<1>2. /\ Len(item') = Len(item) /\ queue' = Shifted(ok)
      /\ \A j \in 1..Len(item) : j # i => item'[j] = item[j]
      /\ item'[i].fate = IF item[i].fate # "queued" THEN item[i].fate
                         ELSE IF ok THEN "sent" ELSE "failed"
      /\ loop'[l].at \in Resting /\ OthersKeep(l)
  BY <1>1, ConcludeFacts
<1>3. queue # <<>> /\ Head(queue) = i
  BY <1>1 DEF HeadInHand, Working
<1>4. item[i].fate = "queued"
  BY <1>3, HeadFacts DEF HeadInHand
<1>5. queue' = Tail(queue)
  BY <1>2, <1>3, ShiftedQueue
<1>6. \A k \in Loops : loop'[k].at \notin Working
  <2>1. \A k \in Loops : k # l => loop[k].at = "off"
    BY DEF OneAlive, OneLoop, Untouched
  <2> QED
    BY <1>2, <2>1 DEF OthersKeep, Resting, Working
<1> QED
  BY <1>2, <1>3, <1>4, <1>5, <1>6 DEF Concludes

LEMMA LoopOutbox ==
  ASSUME Base, OneAlive, HeadInHand, Untouched, NEW l \in Loops, LoopStep(l) \/ TransferStep(l)
  PROVE  Waits \/ Concludes
<1>1. Typed /\ item \in [1..Len(item) -> Item] /\ Len(item) \in Nat
  BY LenProperties DEF Base, Typed, QueueTypes
<1>2. CASE item' = item /\ queue' = queue
  BY <1>2 DEF Waits, SameFates
<1>3. CASE DrainEnd(l) \/ DrainGate(l) \/ SendFileClosed(l) \/ SendPaused(l) \/ ReceiverShows(l)
  BY <1>2, <1>3 DEF DrainEnd, DrainGate, SendFileClosed, SendPaused, ReceiverShows
<1>4. CASE DrainHead(l)
  <2>1. PICK i : i = Head(queue)
    OBVIOUS
  <2>2. i \in 1..Len(item) /\ item[i] \in Item
    BY <1>4, <2>1, HeadFacts DEF DrainHead
  <2>3. PICK e : e = [item[i] EXCEPT !.replaceSent = TRUE]
    OBVIOUS
  <2>4. e \in Item /\ e.fate = item[i].fate
    BY <2>2, <2>3 DEF Item
  <2>5. (item' = item \/ item' = [item EXCEPT ![i] = e]) /\ queue' = queue
    BY <1>4, <2>1, <2>3 DEF DrainHead
  <2>6. item' = [item EXCEPT ![i] = e] => Len(item') = Len(item)
    BY <1>1, <2>2, <2>4, OneItemTyped DEF Typed
  <2> QED
    BY <1>1, <1>2, <2>2, <2>4, <2>5, <2>6, OneFate DEF Waits, Typed
<1>5. CASE SenderReady(l) \/ SendFile(l)
  <2>1. loop[l].at \in Working /\ queue' = queue
    BY <1>5 DEF SenderReady, SendFile, Working
  <2>2. PICK i : i = loop[l].item
    OBVIOUS
  <2>3. i \in 1..Len(item) /\ item[i] \in Item /\ item[i].stream \in Stream
    <3>1. i \in 1..Len(item)
      BY <2>1, <2>2 DEF Base, LoopItems
    <3>2. item[i] \in Item
      BY <1>1, <3>1
    <3> QED
      BY <3>1, <3>2 DEF Item
  <2>4. \E s \in Stream : item' = item \/ item' = [item EXCEPT ![i].stream = s]
    <3>1. CASE SenderReady(l)
      <4>1. loop[l].stream \in Stream
        BY <1>1 DEF Typed, QueueTypes, LoopState
      <4> QED
        BY <2>2, <3>1, <4>1 DEF SenderReady
    <3>2. CASE SendFile(l)
      <4>1. PICK s : s = IF item[i].stream = NoStream THEN item[i].stream
                         ELSE [item[i].stream EXCEPT !.started = TRUE]
        OBVIOUS
      <4>2. s \in Stream
        BY <2>3, <4>1 DEF Stream
      <4>3. item' = [item EXCEPT ![i].stream = s]
        BY <2>2, <3>2, <4>1 DEF SendFile
      <4> QED
        BY <4>2, <4>3
    <3> QED
      BY <1>5, <3>1, <3>2
  <2>5. PICK s \in Stream : item' = item \/ item' = [item EXCEPT ![i].stream = s]
    BY <2>4
  <2>6. PICK e : e = [item[i] EXCEPT !.stream = s]
    OBVIOUS
  <2>7. e \in Item /\ e.fate = item[i].fate
    BY <2>3, <2>6 DEF Item
  <2>8. item' = item \/ item' = [item EXCEPT ![i] = e]
    BY <2>5, <2>6
  <2>9. item' = [item EXCEPT ![i] = e] => Len(item') = Len(item)
    BY <1>1, <2>3, <2>7, OneItemTyped DEF Typed
  <2> QED
    BY <1>1, <1>2, <2>1, <2>3, <2>7, <2>8, <2>9, OneFate DEF Waits, Typed
<1>6. CASE SendFileRefused(l) \/ SendFails(l) \/ AckArrives(l)
  <2>1. loop[l].at \in {"start", "send", "ack"} /\ \E ok \in BOOLEAN : Conclude(l, ok)
    BY <1>6 DEF SendFileRefused, SendFails, AckArrives
  <2> QED
    BY <2>1, ConcludeOutbox
<1> QED
  BY <1>3, <1>4, <1>5, <1>6 DEF LoopStep, TransferStep

LEMMA ResumeOutbox ==
  ASSUME Base, OneAlive, HeadInHand, Untouched, OfferArrives \/ ResumeDrain
  PROVE  Waits \/ Concludes
<1>1. Typed /\ item \in [1..Len(item) -> Item] /\ Len(item) \in Nat
  BY LenProperties DEF Base, Typed, QueueTypes
<1>2. CASE item' = item /\ queue' = queue
  BY <1>2 DEF Waits, SameFates
<1>3. CASE OfferArrives /\ ~(item' = item)
  <2>1. /\ queue # <<>> /\ queue' = queue
        /\ item' = [item EXCEPT ![Head(queue)].stream.started = TRUE]
    BY <1>3 DEF OfferArrives
  <2>2. PICK i : i = Head(queue)
    OBVIOUS
  <2>3. i \in 1..Len(item) /\ item[i] \in Item
    BY <2>1, <2>2, HeadFacts
  <2>4. PICK s : s = [item[i].stream EXCEPT !.started = TRUE]
    OBVIOUS
  <2>5. PICK e : e = [item[i] EXCEPT !.stream = s]
    OBVIOUS
  <2>6. item[i].stream \in Stream /\ s \in Stream
    <3>1. item[i].stream \in Stream
      BY <2>3 DEF Item
    <3> QED
      BY <2>4, <3>1 DEF Stream
  <2>7. e \in Item /\ e.fate = item[i].fate
    BY <2>3, <2>5, <2>6 DEF Item
  <2>8. item' = [item EXCEPT ![i] = e]
    BY <2>1, <2>2, <2>4, <2>5
  <2>9. Len(item') = Len(item)
    BY <1>1, <2>3, <2>7, <2>8, OneItemTyped DEF Typed
  <2> QED
    BY <1>1, <2>1, <2>3, <2>7, <2>8, <2>9, OneFate DEF Waits, Typed
<1>4. CASE ResumeDrain /\ ~(item' = item /\ queue' = queue)
  <2>1. /\ ~isSending /\ queue # <<>> /\ queue' = Tail(queue)
        /\ item' = [item EXCEPT ![Head(queue)].fate = "failed"]
        /\ StartDrain(FALSE) \/ UNCHANGED <<isSending, loop>>
    BY <1>4 DEF ResumeDrain
  <2>2. PICK i : i = Head(queue)
    OBVIOUS
  <2>3. i \in 1..Len(item) /\ item[i] \in Item
    BY <2>1, <2>2, HeadFacts
  <2>4. PICK e : e = [item[i] EXCEPT !.fate = "failed"]
    OBVIOUS
  <2>5. e \in Item /\ e.fate = "failed"
    BY <2>3, <2>4 DEF Item
  <2>6. item' = [item EXCEPT ![i] = e]
    BY <2>1, <2>2, <2>4
  <2>7. /\ Len(item') = Len(item) /\ item'[i] = e
        /\ \A j \in 1..Len(item) : j # i => item'[j] = item[j]
    BY <1>1, <2>3, <2>5, <2>6, OneItemTyped DEF Typed
  <2>8. \A l \in Loops : loop[l].at = "off"
    BY <2>1 DEF OneAlive, Untouched, Active
  <2>9. loop' = loop \/ Begins
    BY <1>1, <2>1, StartDrainFacts DEF Typed
  <2>10. \A l \in Loops : loop'[l].at \notin Working
    BY <2>8, <2>9 DEF Begins, Working
  <2> QED
    BY <2>1, <2>2, <2>5, <2>7, <2>10 DEF Concludes
<1> QED
  BY <1>2, <1>3, <1>4 DEF OfferArrives

LEMMA UserOutbox ==
  ASSUME Base, Untouched', User \/ Connection
  PROVE  Waits \/ Pushes
<1>1. Typed /\ item \in [1..Len(item) -> Item] /\ Len(item) \in Nat
  BY LenProperties DEF Base, Typed, QueueTypes
<1>2. CASE item' = item /\ queue' = queue
  BY <1>2 DEF Waits, SameFates
<1>3. ASSUME NEW p \in 0..NumPhotos, NEW b \in Nat, NEW h \in Nat, NEW n \in Nat, NEW c \in Nat,
             b > 0, edits'.crops = 0 => h = 0 /\ p \in {0, capturing}, Push(p, b, h, n, c)
      PROVE  Pushes
  BY <1>3, PushFacts DEF Pushes
<1>4. photo \in [Photo -> GalleryPhoto] /\ edits.pairings \in Nat /\ edits.deletes \in Nat
  BY <1>1, ConstantsAssumption DEF Typed, GalleryTypes
<1>5. CASE PickFiles \/ Drop \/ DropNoticed \/ Recover \/ Connected \/ Ready
           \/ \E p \in Photo : Capture(p) \/ Rotate(p)
  BY <1>2, <1>5 DEF PickFiles, Drop, DropNoticed, Recover, Connected, Ready, Capture, Rotate, queueVars
<1>6. CASE FileStripped \/ CaptureQueued
  <2>1. /\ capturing \in 0..NumPhotos /\ chosen.pick \in Nat /\ chosen.photo \in Nat /\ picks \in Nat
        /\ 0 \in 0..NumPhotos
    BY <1>1, ConstantsAssumption, LenProperties DEF Typed, GalleryTypes
  <2>2. CASE FileStripped
    <3>1. Push(0, Len(item) + 1, 0, picks, chosen.pick) /\ Len(item) + 1 \in Nat \ {0}
      BY <1>1, <2>2 DEF FileStripped
    <3> QED
      BY <1>3, <2>1, <3>1
  <2>3. CASE CaptureQueued
    BY <1>3, <2>1, <2>3 DEF CaptureQueued
  <2> QED
    BY <1>6, <2>2, <2>3
<1>7. CASE NewPairing \/ \E p \in Photo : Delete(p)
  <2>1. edits \in [crops : 0..MaxCrops, rotations : 0..MaxRotations,
                   deletes : 0..MaxDeletes, pairings : 0..MaxPairings]
    BY <1>1 DEF Typed, GalleryTypes
  <2>2. edits'.deletes = edits.deletes + 1 \/ edits'.pairings = edits.pairings + 1
    BY <1>7, <2>1 DEF NewPairing, Delete
  <2> QED
    BY <1>4, <2>2 DEF Untouched
<1>8. ASSUME NEW p \in Photo, Crop(p) PROVE Waits \/ Pushes
  <2>1. photo[p].bytes \in Nat /\ photo[p].sentHash \in Nat /\ p \in 0..NumPhotos
    BY <1>4, ConstantsAssumption DEF GalleryPhoto, Photo
  <2>2. CASE photo[p].sentHash # 0
    <3>1. Push(p, photo[p].bytes + 1, photo[p].sentHash, 0, edits.pairings)
      BY <1>8, <2>2 DEF Crop
    <3>2. photo[p].bytes + 1 \in Nat /\ photo[p].bytes + 1 > 0 /\ 0 \in Nat
      BY <2>1
    <3>3. edits'.crops # 0
      BY <1>1, <1>8, CropsCounted
    <3> QED
      BY <1>3, <1>4, <2>1, <3>1, <3>2, <3>3
  <2>3. CASE photo[p].sentHash = 0 /\ QueuedOf(p) # 0
    <3>1. PICK n : n = QueuedOf(p)
      OBVIOUS
    <3>2. n \in 1..Len(queue)
      BY <2>3, <3>1, ItemOf
    <3>3. PICK i : i = queue[n]
      OBVIOUS
    <3>4. i \in 1..Len(item) /\ item[i] \in Item
      <4>1. queue \in Seq(1..Len(item))
        BY <1>1 DEF Typed, QueueTypes
      <4> QED
        BY <1>1, <3>2, <3>3, <4>1, ElementOfSeq
    <3>5. PICK b : b = photo[p].bytes + 1
      OBVIOUS
    <3>6. PICK e : e = [item[i] EXCEPT !.bytes = b, !.stream = NoStream]
      OBVIOUS
    <3>7. b \in Nat
      BY <2>1, <3>5
    <3>8. e \in Item /\ e.fate = item[i].fate
      BY <3>4, <3>6, <3>7, OffFacts DEF Item
    <3>9. /\ queue' = queue
          /\ item' = [item EXCEPT ![queue[n]].bytes = photo[p].bytes + 1,
                                  ![queue[n]].stream = NoStream]
      BY <1>8, <2>3, <3>1 DEF Crop
    <3>10. item' = [item EXCEPT ![i] = e]
      BY <1>1, <3>3, <3>4, <3>5, <3>6, <3>9
    <3>11. Len(item') = Len(item)
      BY <1>1, <3>4, <3>8, <3>10, OneItemTyped DEF Typed
    <3> QED
      BY <1>1, <3>4, <3>8, <3>9, <3>10, <3>11, OneFate DEF Waits, Typed
  <2>4. CASE photo[p].sentHash = 0 /\ QueuedOf(p) = 0
    BY <1>2, <1>8, <2>4 DEF Crop
  <2> QED
    BY <2>2, <2>3, <2>4
<1>9. CASE Reconnect
  <2>1. /\ queue' = queue
        /\ item' = [i \in 1..Len(item) |-> IF i \in ToSet(queue) THEN ResetItem(i) ELSE item[i]]
    BY <1>9 DEF Reconnect
  <2>2. Len(item') = Len(item)
    <3>1. DOMAIN item' = 1..Len(item)
      BY <2>1
    <3>2. Typed' /\ Renew
      BY <1>9, ReconnectRenews
    <3>3. Len(item') \in {Len(item), Len(item) + 1}
      BY <3>2 DEF Renew, ItemsKept
    <3>4. DOMAIN item' = 1..Len(item')
      BY <3>2, LenProperties DEF Typed, QueueTypes
    <3>5. Len(item) + 1 \in 1..Len(item) + 1 /\ Len(item) + 1 \notin 1..Len(item)
      BY <1>1
    <3> QED
      BY <3>1, <3>3, <3>4, <3>5
  <2>3. ASSUME NEW i \in 1..Len(item) PROVE ResetItem(i).fate = item[i].fate
    <3>1. item[i] \in Item
      BY <1>1
    <3> QED
      BY <3>1 DEF ResetItem, Item
  <2> QED
    BY <2>1, <2>2, <2>3 DEF Waits, SameFates
<1> QED
  BY <1>5, <1>6, <1>7, <1>8, <1>9 DEF User, Connection

LEMMA StepOutbox ==
  ASSUME QueueInv, HeadInHand, Untouched, Untouched', Next
  PROVE  Waits \/ Pushes \/ Concludes
<1>1. Base /\ OneAlive
  BY DEF QueueInv
<1>2. ASSUME NEW l \in Loops, LoopStep(l) \/ TransferStep(l) PROVE Waits \/ Concludes
  BY <1>1, <1>2, LoopOutbox
<1>3. CASE OfferArrives \/ ResumeDrain
  BY <1>1, <1>3, ResumeOutbox
<1>4. CASE User \/ Connection
  BY <1>1, <1>4, UserOutbox
<1> QED
  BY <1>2, <1>3, <1>4 DEF Next

\* Edits are counted up.
LEMMA EditsGrow ==
  ASSUME QueueInv, Next, Untouched'
  PROVE  Untouched
<1>1. edits \in [crops : 0..MaxCrops, rotations : 0..MaxRotations,
                 deletes : 0..MaxDeletes, pairings : 0..MaxPairings]
  BY DEF QueueInv, Base, GalleryTypes
<1>2. edits.deletes \in Nat /\ edits.pairings \in Nat
  BY <1>1, ConstantsAssumption
<1>3. ASSUME NEW l \in Loops, LoopStep(l) \/ TransferStep(l) PROVE edits' = edits
  BY <1>3 DEF LoopStep, DrainEnd, DrainGate, DrainHead, SendFile, SendFileClosed, SendFileRefused,
              TransferStep, SenderReady, SendPaused, SendFails, AckArrives, ReceiverShows,
              Conclude, galleryVars
<1>4. CASE OfferArrives \/ ResumeDrain \/ Connection
  BY <1>4 DEF OfferArrives, ResumeDrain, Connection, Drop, DropNoticed, Recover, Reconnect,
              Connected, Ready, galleryVars, Untouched
<1>5. CASE User
  <2>1. \/ edits' = edits
        \/ edits' \in {[edits EXCEPT !.crops = @ + 1], [edits EXCEPT !.rotations = @ + 1],
                       [edits EXCEPT !.deletes = @ + 1], [edits EXCEPT !.pairings = @ + 1]}
    BY <1>5 DEF User, PickFiles, FileStripped, CaptureQueued, NewPairing, Capture, Delete,
                Rotate, Crop
  <2>2. /\ edits'.deletes \in {edits.deletes, edits.deletes + 1}
        /\ edits'.pairings \in {edits.pairings, edits.pairings + 1}
    BY <1>1, <2>1
  <2> QED
    BY <1>2, <2>2 DEF Untouched
<1> QED
  BY <1>3, <1>4, <1>5 DEF Next, Untouched

LEMMA StepHeadInHand ==
  ASSUME QueueInv, HeadInHand, Next
  PROVE  HeadInHand'
<1> SUFFICES ASSUME Untouched'
             PROVE  /\ \A q \in ToSet(queue') : item'[q].fate = "queued"
                    /\ \A l \in Loops : loop'[l].at \in Working =>
                                          queue' # <<>> /\ Head(queue') = loop'[l].item
  BY DEF HeadInHand
<1>1. Untouched
  BY EditsGrow
<1>2. Base /\ Typed' /\ Effect
  BY StepEffect DEF QueueInv
<1>3. /\ Len(item) \in Nat /\ \A q \in ToSet(queue) : q \in 1..Len(item)
      /\ queue \in Seq(1..Len(item)) /\ 1..Len(item) \in SUBSET Nat
  BY <1>2, Numbers DEF Base, QueueTypes
<1>4. /\ \A q \in ToSet(queue) : item[q].fate = "queued"
      /\ \A l \in Loops : loop[l].at \in Working => queue # <<>> /\ Head(queue) = loop[l].item
  BY <1>1 DEF HeadInHand
\* Who works after the step did so before, or has just taken the head.
<1>5. ASSUME NEW l \in Loops, loop'[l].at \in Working
      PROVE  \/ loop[l].at \in Working /\ loop'[l].item = loop[l].item
             \/ queue # <<>> /\ loop'[l].item = Head(queue) /\ queue' = queue
  <2>1. CASE Rest \/ Renew
    BY <1>5, <2>1, RestedWork DEF Rest, Renew, Keeps
  <2>2. CASE Join
    BY <1>5, <2>2 DEF Join
  <2>3. ASSUME NEW k \in Loops, LoopMoves(k)
        PROVE  \/ loop[l].at \in Working /\ loop'[l].item = loop[l].item
               \/ queue # <<>> /\ loop'[l].item = Head(queue) /\ queue' = queue
    <3>1. /\ k # l => loop'[l] = loop[l]
          /\ Take(k) \/ End(k) \/ (loop[k].at \in Working /\ loop'[k].item = loop[k].item)
      BY <1>2, <2>3, WorkGoesOn
    <3>2. End(k) => k # l
      BY <1>5 DEF End, Resting, Working
    <3>3. Take(k) => queue # <<>> /\ loop'[k].item = Head(queue) /\ queue' = queue
      BY DEF Take
    <3> QED
      BY <1>5, <3>1, <3>2, <3>3
  <2> QED
    BY <1>2, <2>1, <2>2, <2>3 DEF Effect
<1>6. CASE Waits
  BY <1>3, <1>4, <1>5, <1>6 DEF Waits, SameFates
<1>7. CASE Pushes
  <2>1. /\ Append(queue, Len(item) + 1) # <<>>
        /\ queue # <<>> => Head(Append(queue, Len(item) + 1)) = Head(queue)
    <3>1. queue \in Seq(Nat) /\ Len(item) + 1 \in Nat
      BY <1>3, SeqMonotonic
    <3> QED
      BY <3>1
  <2>2. ASSUME NEW q \in ToSet(queue') PROVE item'[q].fate = "queued"
    <3>1. CASE q \in ToSet(queue)
      BY <1>3, <1>4, <1>7, <3>1 DEF Pushes
    <3>2. CASE q \notin ToSet(queue)
      <4>1. q = Len(item) + 1
        <5>1. /\ Append(queue, Len(item) + 1) \in Seq(1..Len(item) + 1)
              /\ ToSet(Append(queue, Len(item) + 1)) = ToSet(queue) \cup {Len(item) + 1}
          <6>1. queue \in Seq(1..Len(item) + 1) /\ 1..Len(item) + 1 \in SUBSET Nat
            <7>1. 1..Len(item) \subseteq 1..Len(item) + 1
              BY <1>3
            <7> QED
              BY <1>3, <7>1, SeqMonotonic
          <6>2. Ascending(queue) /\ \A y \in ToSet(queue) : y < Len(item) + 1
            BY <1>2, <1>3 DEF Base
          <6>3. Len(item) + 1 \in 1..Len(item) + 1
            BY <1>3
          <6> QED
            BY <6>1, <6>2, <6>3, AppendAscends
        <5> QED
          BY <1>7, <3>2, <5>1 DEF Pushes
      <4> QED
        BY <1>7, <4>1 DEF Pushes
    <3> QED
      BY <3>1, <3>2
  <2>3. ASSUME NEW l \in Loops, loop'[l].at \in Working
        PROVE  queue' # <<>> /\ Head(queue') = loop'[l].item
    <3>1. queue' # queue
      BY <1>3, <1>7, AppendProperties, LenProperties DEF Pushes
    <3>2. loop[l].at \in Working /\ loop'[l].item = loop[l].item
      BY <1>5, <2>3, <3>1
    <3> QED
      BY <1>4, <1>7, <2>1, <3>2 DEF Pushes
  <2> QED
    BY <2>2, <2>3
<1>8. CASE Concludes
  <2>1. ToSet(queue') = ToSet(queue) \ {Head(queue)}
    BY <1>2, <1>3, <1>8, TailAscends DEF Base, Concludes
  <2> QED
    BY <1>3, <1>4, <1>8, <2>1 DEF Concludes
<1> QED
  BY <1>1, <1>6, <1>7, <1>8, StepOutbox

OutboxInv == QueueInv /\ HeadInHand

LEMMA OutboxInvHolds == Spec => []OutboxInv
<1>1. Init => OutboxInv
  <2> SUFFICES ASSUME Init PROVE HeadInHand
    BY InitQueueInv DEF OutboxInv
  <2>1. ToSet(queue) = {} /\ \A l \in Loops : loop[l].at = "off"
    BY OffFacts DEF Init, ToSet
  <2> QED
    BY <2>1 DEF HeadInHand, Working
<1>2. OutboxInv /\ [Next]_vars => OutboxInv'
  <2> SUFFICES ASSUME OutboxInv, [Next]_vars PROVE OutboxInv'
    OBVIOUS
  <2>1. QueueInv'
    BY StepQueueInv DEF OutboxInv
  <2>2. CASE Next
    BY <2>1, <2>2, StepHeadInHand DEF OutboxInv
  <2>3. CASE UNCHANGED vars
    BY <2>1, <2>3 DEF OutboxInv, HeadInHand, Untouched, vars, queueVars, galleryVars
  <2> QED
    BY <2>2, <2>3
<1> QED
  BY <1>1, <1>2, PTL DEF Spec

\* A step of the queue that changes nothing an outbox has.
LEMMA WaitsMaps == Base /\ Waits => UNCHANGED Promise!vars
<1> SUFFICES ASSUME Base, Waits PROVE UNCHANGED Promise!vars
  OBVIOUS
<1>1. ASSUME NEW f PROVE Fated(f)' = Fated(f)
  BY DEF Waits, SameFates, Fated
<1> QED
  BY <1>1 DEF Waits, SameFates, Promise!vars

LEMMA PushesMaps == Base /\ Pushes => Promise!Push
<1> SUFFICES ASSUME Base, Pushes PROVE Promise!Push
  OBVIOUS
<1>1. Len(item) \in Nat
  BY Numbers
<1>2. ASSUME NEW f \in {"sent", "failed", "removed"} PROVE Fated(f)' = Fated(f)
  <2>1. \A i \in 1..Len(item') : i \in 1..Len(item) \/ i = Len(item) + 1
    BY <1>1 DEF Pushes
  <2>2. \A i \in 1..Len(item) : i \in 1..Len(item')
    BY <1>1 DEF Pushes
  <2> QED
    BY <2>1, <2>2 DEF Pushes, Fated
<1> QED
  BY <1>2 DEF Pushes, Promise!Push

LEMMA ConcludesMaps == OutboxInv /\ Untouched /\ Concludes => Promise!ConcludeHead
<1> SUFFICES ASSUME OutboxInv, Untouched, Concludes PROVE Promise!ConcludeHead
  OBVIOUS
<1>1. PICK i : i = Head(queue)
  OBVIOUS
<1>2. Base /\ queue # <<>>
  BY DEF OutboxInv, QueueInv, Concludes
<1>3. i \in 1..Len(item) /\ item[i].fate = "queued"
  BY <1>1, <1>2, HeadFacts DEF OutboxInv, HeadInHand
<1>4. Fated("removed")' = Fated("removed")
  BY <1>1, <1>3 DEF Concludes, Fated
<1>5. CASE item'[i].fate = "sent"
  <2>1. Fated("sent")' = Fated("sent") \cup {i} /\ Fated("failed")' = Fated("failed")
    BY <1>1, <1>3, <1>5 DEF Concludes, Fated
  <2> QED
    BY <1>1, <1>4, <2>1 DEF Concludes, Promise!ConcludeHead
<1>6. CASE item'[i].fate = "failed"
  <2>1. Fated("failed")' = Fated("failed") \cup {i} /\ Fated("sent")' = Fated("sent")
    BY <1>1, <1>3, <1>6 DEF Concludes, Fated
  <2> QED
    BY <1>1, <1>4, <2>1 DEF Concludes, Promise!ConcludeHead
<1> QED
  BY <1>1, <1>5, <1>6 DEF Concludes

\* While the user deletes nothing and stays with the receiver, the queue of
\* sender-send.js is an outbox: items wait in the order of their push, only
\* the head is concluded, once, and drops, resumes and reconnects lose none.
THEOREM QueueIsAnOutbox == Spec /\ []Untouched => ImplementsOutbox
<1>1. Init => Promise!Init
  <2> SUFFICES ASSUME Init PROVE Promise!Init
    OBVIOUS
  <2>1. Len(item) = 0
    BY EmptySeq DEF Init
  <2>2. 1..0 = {}
    OBVIOUS
  <2>3. \A f : Fated(f) = {}
    BY <2>1, <2>2 DEF Fated
  <2> QED
    BY <2>1, <2>3 DEF Init, Promise!Init
<1>2. OutboxInv /\ OutboxInv' /\ Untouched /\ Untouched' /\ [Next]_vars
        => [Promise!Next]_Promise!vars
  <2> SUFFICES ASSUME OutboxInv, OutboxInv', Untouched, Untouched', [Next]_vars
               PROVE  [Promise!Next]_Promise!vars
    OBVIOUS
  <2>1. Base
    BY DEF OutboxInv, QueueInv
  <2>2. CASE Next
    <3>1. Waits \/ Pushes \/ Concludes
      BY <2>1, <2>2, StepOutbox DEF OutboxInv
    <3> QED
      BY <2>1, <3>1, WaitsMaps, PushesMaps, ConcludesMaps DEF Promise!Next
  <2>3. CASE UNCHANGED vars
    <3>1. Waits
      BY <2>3 DEF Waits, SameFates, vars, queueVars
    <3> QED
      BY <2>1, <3>1, WaitsMaps
  <2> QED
    BY <2>2, <2>3
<1> QED
  BY <1>1, <1>2, OutboxInvHolds, PTL DEF Spec, ImplementsOutbox, Promise!Spec

-----------------------------------------------------------------------------
(* What the gallery calls sent is what the receiver shows, without crops.  *)

HasImage(p, b) == \E k \in 1..Len(images) : images[k].hash = <<p, b>>

\* No content is empty: the hash of none is the hash of no image.
Bytes ==
  /\ \A i \in 1..Len(item) : /\ item[i].bytes > 0
                             /\ item[i].stream = NoStream \/ item[i].stream.bytes > 0
  /\ \A l \in Loops : loop[l].at \in Working => loop[l].stream.bytes > 0

ImageBytes == \A k \in 1..Len(images) : images[k].hash[2] > 0

\* An item of the gallery, and the photo being cropped, were taken.
Taken ==
  /\ \A i \in 1..Len(item) : item[i].photo # 0 => photo[item[i].photo].state # "none"
  /\ capturing # 0 => photo[capturing].state # "none"

\* The receiver shows the photo whose ack is on its way.
Acked ==
  \A l \in Loops : (loop[l].at = "ack" /\ loop[l].via = session) =>
    \A p \in Photo : (item[loop[l].item].photo = p /\ photo[p].state = "kept") =>
                        HasImage(p, loop[l].stream.bytes)

Shown ==
  /\ Bytes /\ ImageBytes /\ Taken /\ Acked /\ SentPhotoIsThere
  /\ pendingReplaceHash = NoHash /\ \A i \in 1..Len(item) : item[i].replace = 0

ShownInv == edits.crops = 0 => Shown

\* What the steps do to the gallery and to the images, all but the two that
\* show a file and that take its ack.
GalleryMoves ==
  /\ \A p \in Photo : photo'[p].state = "kept" =>
       \/ photo[p].state = "kept" /\ photo'[p].sentHash = photo[p].sentHash
       \/ photo[p].state = "none" /\ photo'[p].sentHash = 0
  /\ \A p \in Photo : photo[p].state # "none" => photo'[p].state # "none"
  /\ \A p \in Photo : photo'[p].state = "kept" => \A b : HasImage(p, b) => HasImage(p, b)'
  /\ \A k \in 1..Len(images') : \E j \in 1..Len(images) : images'[k].hash = images[j].hash
  /\ capturing' # 0 => capturing' = capturing \/ photo'[capturing'].state # "none"
  /\ pendingReplaceHash' \in {pendingReplaceHash, NoHash}

LEMMA GallerySame ==
  ASSUME Typed, photo' = photo, capturing' = capturing, images' = images,
         pendingReplaceHash' \in {pendingReplaceHash, NoHash}
  PROVE  GalleryMoves
<1>1. \A p \in Photo : photo[p].state \in {"none", "kept", "gone"}
  BY DEF Typed, GalleryTypes, GalleryPhoto
<1>2. \A p, b : HasImage(p, b) => HasImage(p, b)'
  BY DEF HasImage
<1> QED
  BY <1>1, <1>2 DEF GalleryMoves

LEMMA LoopGallery ==
  ASSUME Base, NEW l \in Loops, LoopStep(l) \/ TransferStep(l),
         ~ReceiverShows(l), ~AckArrives(l), \A i \in 1..Len(item) : item[i].replace = 0
  PROVE  GalleryMoves
<1>1. Typed
  BY DEF Base, Typed
<1>2. CASE DrainHead(l)
  <2>1. Head(queue) \in 1..Len(item)
    BY <1>2, HeadFacts DEF DrainHead
  <2>2. item[Head(queue)].replace = 0
    BY <2>1
  <2>3. photo' = photo /\ capturing' = capturing /\ images' = images
        /\ pendingReplaceHash' = pendingReplaceHash
    BY <1>2, <2>2 DEF DrainHead, galleryVars
  <2> QED
    BY <1>1, <2>3, GallerySame
<1>3. CASE DrainEnd(l) \/ DrainGate(l) \/ SendFile(l) \/ SendFileClosed(l) \/ SenderReady(l)
           \/ SendPaused(l)
  <2>1. photo' = photo /\ capturing' = capturing /\ images' = images
        /\ pendingReplaceHash' = pendingReplaceHash
    BY <1>3 DEF DrainEnd, DrainGate, SendFile, SendFileClosed, SenderReady, SendPaused,
                galleryVars, pairingVars
  <2> QED
    BY <1>1, <2>1, GallerySame
<1>4. CASE SendFileRefused(l) \/ SendFails(l)
  <2>1. Conclude(l, FALSE) /\ images' = images /\ pendingReplaceHash' = pendingReplaceHash
    BY <1>4 DEF SendFileRefused, SendFails, pairingVars
  <2>2. photo' = photo /\ capturing' = capturing
    BY <2>1 DEF Conclude
  <2> QED
    BY <1>1, <2>1, <2>2, GallerySame
<1> QED
  BY <1>2, <1>3, <1>4 DEF LoopStep, TransferStep

\* Deleting photo p takes one image of that photo away.
LEMMA DeleteGallery ==
  ASSUME Base, NEW p \in Photo, Delete(p)
  PROVE  GalleryMoves
<1>1. Typed /\ photo \in [Photo -> GalleryPhoto] /\ images \in Seq(Image)
  BY DEF Base, Typed, GalleryTypes, PairingTypes
<1>2. /\ photo'[p].state = "gone" /\ \A r \in Photo : r # p => photo'[r] = photo[r]
      /\ capturing' = capturing /\ pendingReplaceHash' = pendingReplaceHash
  BY <1>1 DEF Delete, GalleryPhoto
<1>3. \A r \in Photo : photo[r].state \in {"none", "kept", "gone"}
  BY <1>1 DEF GalleryPhoto
<1>4. /\ \A k \in 1..Len(images') : \E j \in 1..Len(images) : images'[k].hash = images[j].hash
      /\ \A r \in Photo : r # p => \A b : HasImage(r, b) => HasImage(r, b)'
  <2>1. PICK k : k = FirstHash(<<p, photo[p].sentHash>>)
    OBVIOUS
  <2>2. k # 0 => k \in 1..Len(images) /\ images[k].hash = <<p, photo[p].sentHash>>
    BY <2>1, ImageOf
  <2>3. images' = images \/ (k # 0 /\ images' = RemoveAt(images, k))
    BY <2>1 DEF Delete, FirstHash, WithHash, SelectInSeq
  <2>4. CASE images' = images
    BY <2>4 DEF HasImage
  <2>5. CASE k # 0 /\ images' = RemoveAt(images, k)
    <3>1. /\ Len(images') = Len(images) - 1 /\ Len(images) \in Nat
          /\ \A i \in 1..Len(images) - 1 : images'[i] = IF i < k THEN images[i] ELSE images[i + 1]
      BY <1>1, <2>2, <2>5, RemovedAt, LenProperties
    <3>2. ASSUME NEW i \in 1..Len(images')
          PROVE  \E j \in 1..Len(images) : images'[i].hash = images[j].hash
      <4>1. i \in 1..Len(images) /\ i + 1 \in 1..Len(images)
        BY <3>1
      <4> QED
        BY <3>1, <4>1
    <3>3. ASSUME NEW r \in Photo, r # p, NEW b, HasImage(r, b) PROVE HasImage(r, b)'
      <4>1. PICK j \in 1..Len(images) : images[j].hash = <<r, b>>
        BY <3>3 DEF HasImage
      <4>2. j # k
        BY <2>2, <2>5, <3>3, <4>1
      <4>3. CASE j < k
        <5>1. j \in 1..Len(images') /\ images'[j] = images[j]
          BY <2>2, <2>5, <3>1, <4>3
        <5> QED
          BY <4>1, <5>1 DEF HasImage
      <4>4. CASE ~(j < k)
        <5>1. j - 1 \in 1..Len(images') /\ images'[j - 1] = images[j]
          BY <2>2, <2>5, <3>1, <4>2, <4>4
        <5> QED
          BY <4>1, <5>1 DEF HasImage
      <4> QED
        BY <4>3, <4>4
    <3> QED
      BY <3>2, <3>3
  <2> QED
    BY <2>3, <2>4, <2>5
<1> QED
  BY <1>2, <1>3, <1>4 DEF GalleryMoves

LEMMA UserGallery ==
  ASSUME Base, edits'.crops = 0, OfferArrives \/ ResumeDrain \/ User \/ Connection
  PROVE  GalleryMoves
<1>1. /\ Typed /\ photo \in [Photo -> GalleryPhoto] /\ images \in Seq(Image)
      /\ capturing \in 0..NumPhotos
  BY DEF Base, Typed, GalleryTypes, PairingTypes
<1>2. \A r \in Photo : photo[r].state \in {"none", "kept", "gone"}
  BY <1>1 DEF GalleryPhoto
<1>3. CASE OfferArrives \/ ResumeDrain \/ PickFiles \/ Drop \/ DropNoticed \/ Recover
           \/ Connected \/ Ready \/ Reconnect
  <2>1. photo' = photo /\ capturing' = capturing /\ images' = images
        /\ pendingReplaceHash' \in {pendingReplaceHash, NoHash}
    BY <1>3 DEF OfferArrives, ResumeDrain, PickFiles, Drop, DropNoticed, Recover, Connected,
                Ready, Reconnect, NextSession, galleryVars, pairingVars
  <2> QED
    BY <1>1, <2>1, GallerySame
<1>4. CASE FileStripped
  <2>1. photo' = photo /\ capturing' = capturing /\ images' = images
        /\ pendingReplaceHash' = pendingReplaceHash
    BY <1>4 DEF FileStripped, pairingVars
  <2> QED
    BY <1>1, <2>1, GallerySame
<1>5. CASE CaptureQueued
  <2>1. \A r \in Photo : photo'[r].state = photo[r].state /\ photo'[r].sentHash = photo[r].sentHash
    <3>1. capturing \in Photo
      <4>1. capturing # 0
        BY <1>5 DEF CaptureQueued
      <4> QED
        BY <1>1, <4>1, ConstantsAssumption DEF Photo
    <3>2. PICK g : g = [photo[capturing] EXCEPT !.bytes = 1]
      OBVIOUS
    <3>3. g.state = photo[capturing].state /\ g.sentHash = photo[capturing].sentHash
      BY <1>1, <3>1, <3>2 DEF GalleryPhoto
    <3>4. photo' = photo \/ photo' = [photo EXCEPT ![capturing] = g]
      BY <1>5, <3>2 DEF CaptureQueued
    <3> QED
      BY <1>1, <3>3, <3>4
  <2>2. capturing' = 0 /\ images' = images /\ pendingReplaceHash' = pendingReplaceHash
    BY <1>5 DEF CaptureQueued, pairingVars
  <2>3. \A p, b : HasImage(p, b) => HasImage(p, b)'
    BY <2>2 DEF HasImage
  <2> QED
    BY <1>2, <2>1, <2>2, <2>3 DEF GalleryMoves
<1>6. CASE NewPairing
  <2>1. /\ images' = <<>> /\ capturing' = capturing /\ pendingReplaceHash' = NoHash
        /\ \A r \in Photo : photo'[r] = IF photo[r].state = "kept"
                                        THEN [photo[r] EXCEPT !.state = "gone"] ELSE photo[r]
    BY <1>6 DEF NewPairing, NextSession
  <2>2. \A r \in Photo : photo'[r].state # "kept" /\ (photo[r].state # "none" => photo'[r].state # "none")
    <3> SUFFICES ASSUME NEW r \in Photo
                 PROVE  photo'[r].state # "kept" /\ (photo[r].state # "none" => photo'[r].state # "none")
      OBVIOUS
    <3>1. photo[r] \in GalleryPhoto
      BY <1>1
    <3>2. [photo[r] EXCEPT !.state = "gone"].state = "gone"
      BY <3>1 DEF GalleryPhoto
    <3> QED
      BY <2>1, <3>2
  <2>3. Len(images') = 0
    BY <2>1, EmptySeq
  <2>4. 1..0 = {}
    OBVIOUS
  <2> QED
    BY <2>1, <2>2, <2>3, <2>4 DEF GalleryMoves
<1>7. ASSUME NEW p \in Photo, Capture(p) PROVE GalleryMoves
  <2>1. /\ photo[p].state = "none" /\ photo'[p].state = "kept" /\ photo'[p].sentHash = 0
        /\ \A r \in Photo : r # p => photo'[r] = photo[r]
        /\ capturing' = p
    BY <1>1, <1>7 DEF Capture
  <2>2. images' = images /\ pendingReplaceHash' = pendingReplaceHash
    BY <1>7 DEF Capture, pairingVars
  <2>3. \A r, b : HasImage(r, b) => HasImage(r, b)'
    BY <2>2 DEF HasImage
  <2> QED
    BY <1>2, <2>1, <2>2, <2>3 DEF GalleryMoves
<1>8. ASSUME NEW p \in Photo, Rotate(p) PROVE GalleryMoves
  <2>1. \A r \in Photo : photo'[r].state = photo[r].state /\ photo'[r].sentHash = photo[r].sentHash
    BY <1>1, <1>8 DEF Rotate, GalleryPhoto
  <2>2. capturing' = capturing /\ pendingReplaceHash' = pendingReplaceHash
    BY <1>8 DEF Rotate
  <2>3. Len(images') = Len(images) /\ \A j \in 1..Len(images) : images'[j].hash = images[j].hash
    <3>1. PICK k : k = FirstHash(<<p, photo[p].sentHash>>)
      OBVIOUS
    <3>2. k # 0 => k \in 1..Len(images)
      BY <3>1, ImageOf
    <3>3. PICK w : w = <<p, photo[p].bytes + 1>>
      OBVIOUS
    <3>4. images' = images \/ (k # 0 /\ images' = [images EXCEPT ![k].looks = w])
      BY <1>8, <3>1, <3>3 DEF Rotate, FirstHash, WithHash, SelectInSeq
    <3>5. CASE images' = images
      BY <3>5
    <3>6. CASE k # 0 /\ images' = [images EXCEPT ![k].looks = w]
      <4>1. PICK m : m = [images[k] EXCEPT !.looks = w]
        OBVIOUS
      <4>2. images[k] \in Image
        BY <1>1, <3>2, <3>6, ElementOfSeq
      <4>3. w \in Nat \X Nat
        <5>1. photo[p].bytes \in Nat /\ p \in Nat
          BY <1>1 DEF GalleryPhoto, Photo
        <5> QED
          BY <3>3, <5>1
      <4>4. m \in Image /\ m.hash = images[k].hash
        BY <4>1, <4>2, <4>3 DEF Image
      <4>5. images' = [images EXCEPT ![k] = m]
        BY <3>6, <4>1
      <4>6. /\ Len(images') = Len(images)
            /\ \A j \in 1..Len(images) : images'[j] = IF j = k THEN m ELSE images[j]
        BY <1>1, <3>2, <3>6, <4>4, <4>5, ExceptSeq
      <4> QED
        BY <4>4, <4>6
    <3> QED
      BY <3>4, <3>5, <3>6
  <2>4. \A r, b : HasImage(r, b) => HasImage(r, b)'
    BY <2>3 DEF HasImage
  <2> QED
    BY <1>2, <2>1, <2>2, <2>3, <2>4 DEF GalleryMoves
<1>9. ASSUME NEW p \in Photo PROVE ~Crop(p)
  BY <1>1, CropsCounted
<1> QED
  BY <1>3, <1>4, <1>5, <1>6, <1>7, <1>8, <1>9, DeleteGallery DEF User, Connection

LEMMA StepBytes ==
  ASSUME Base, Effect, Bytes
  PROVE  Bytes'
<1>1. Len(item) \in Nat /\ \A q \in ToSet(queue) : q \in 1..Len(item)
  BY Numbers
<1>2. ASSUME ItemsKept
      PROVE  \A i \in 1..Len(item') : /\ item'[i].bytes > 0
                                      /\ item'[i].stream = NoStream \/ item'[i].stream.bytes > 0
  <2> SUFFICES ASSUME NEW i \in 1..Len(item')
               PROVE  /\ item'[i].bytes > 0
                      /\ item'[i].stream = NoStream \/ item'[i].stream.bytes > 0
    OBVIOUS
  <2>1. i \in 1..Len(item) \/ (i = Len(item) + 1 /\ Len(item') = Len(item) + 1)
    BY <1>1, <1>2 DEF ItemsKept
  <2>2. CASE i \in 1..Len(item)
    BY <1>2, <2>2 DEF ItemsKept, StreamKept, BytesKept, Bytes
  <2>3. CASE i = Len(item) + 1 /\ Len(item') = Len(item) + 1
    BY <1>2, <2>3 DEF ItemsKept
  <2> QED
    BY <2>1, <2>2, <2>3
<1>3. CASE Rest \/ Renew
  <2>1. Rests /\ ItemsKept
    BY <1>3 DEF Rest, Renew
  <2>2. ASSUME NEW l \in Loops, loop'[l].at \in Working PROVE loop'[l].stream.bytes > 0
    <3>1. Keeps(l) /\ loop[l].at \in Working
      BY <2>1, <2>2, RestedWork
    <3> QED
      BY <3>1 DEF Keeps, Bytes
  <2> QED
    BY <1>2, <2>1, <2>2 DEF Bytes
<1>4. CASE Join
  BY <1>4 DEF Join, Bytes
<1>5. ASSUME NEW l \in Loops, LoopMoves(l) PROVE Bytes'
  <2>1. \A k \in Loops : k # l => loop'[k] = loop[k]
    BY <1>5, WorkGoesOn
  <2>2. loop'[l].at \in Working => loop'[l].stream.bytes > 0
    <3>1. CASE Take(l)
      <4>1. PICK i \in 1..Len(item) : i = Head(queue)
        BY <3>1, HeadFacts DEF Take
      <4>2. /\ item[i].bytes > 0
            /\ item[i].stream = NoStream \/ item[i].stream.bytes > 0
        BY DEF Bytes
      <4>3. loop'[l].stream = IF item[i].stream = NoStream
                              THEN [session |-> session, bytes |-> item[i].bytes, started |-> FALSE]
                              ELSE item[i].stream
        BY <3>1, <4>1 DEF Take
      <4> QED
        BY <4>2, <4>3
    <3>2. CASE Prepare(l) \/ Send(l) \/ Show(l)
      BY <3>2 DEF Prepare, Send, Show, Bytes, Working
    <3>3. CASE End(l)
      BY <3>3 DEF End, Resting, Working
    <3> QED
      BY <1>5, <3>1, <3>2, <3>3 DEF LoopMoves
  <2>3. \A k \in Loops : loop'[k].at \in Working => loop'[k].stream.bytes > 0
    BY <2>1, <2>2 DEF Bytes
  <2>4. CASE Prepare(l)
    <3>1. loop[l].stream.bytes > 0
      BY <2>4 DEF Prepare, Bytes, Working
    <3> QED
      BY <2>3, <2>4, <3>1 DEF Prepare, Bytes
  <2>5. CASE ~Prepare(l)
    <3>1. ItemsKept \/ item' = item
      BY <1>5, <2>5 DEF LoopMoves, Take, Send, Show, End
    <3>2. ItemsKept
      BY <3>1, SameItems
    <3> QED
      BY <1>2, <2>3, <3>2 DEF Bytes
  <2> QED
    BY <2>4, <2>5
<1> QED
  BY <1>3, <1>4, <1>5 DEF Effect

\* Items stay of the photo they are of, and a new one is of the photo that
\* was being cropped, or of none.
LEMMA StepItems ==
  ASSUME Base, Effect, edits'.crops = 0
  PROVE  /\ Len(item) \in Nat
         /\ \A i \in 1..Len(item') : i \in 1..Len(item) \/ (i = Len(item) + 1)
         /\ \A i \in 1..Len(item) : /\ i \in 1..Len(item')
                                    /\ item'[i].photo = item[i].photo
                                    /\ item'[i].replace = item[i].replace
         /\ Len(item') = Len(item) + 1 => /\ item'[Len(item) + 1].replace = 0
                                          /\ item'[Len(item) + 1].photo \in {0, capturing}
<1>1. Len(item) \in Nat
  BY Numbers
<1>2. CASE ItemsKept
  BY <1>1, <1>2 DEF ItemsKept
<1>3. ASSUME NEW l \in Loops, Prepare(l) PROVE Len(item') = Len(item) /\
        \A i \in 1..Len(item) : item'[i].photo = item[i].photo /\ item'[i].replace = item[i].replace
  BY <1>3 DEF Prepare
<1>4. ItemsKept \/ item' = item \/ \E l \in Loops : Prepare(l)
  BY DEF Effect, Rest, Renew, Join, LoopMoves, Take, Send, Show, End
<1>5. CASE item' = item
  BY <1>2, <1>5, SameItems
<1>6. ASSUME NEW l \in Loops, Prepare(l)
      PROVE  Len(item') # Len(item) + 1
  BY <1>1, <1>3, <1>6
<1> QED
  BY <1>1, <1>2, <1>3, <1>4, <1>5, <1>6

LEMMA StepTaken ==
  ASSUME Base, Typed', Effect, edits'.crops = 0, Taken,
         \A p \in Photo : photo[p].state # "none" => photo'[p].state # "none",
         capturing' # 0 => capturing' = capturing \/ photo'[capturing'].state # "none"
  PROVE  Taken'
<1>1. /\ capturing \in 0..NumPhotos
      /\ \A i \in 1..Len(item) : item[i].photo \in 0..NumPhotos
  <2>1. item \in Seq(Item)
    BY DEF Base, QueueTypes
  <2>2. \A i \in 1..Len(item) : item[i] \in Item
    BY <2>1, ElementOfSeq
  <2> QED
    BY <2>2 DEF Base, GalleryTypes, Item
<1>2. \A p \in 0..NumPhotos : p # 0 => p \in Photo
  BY ConstantsAssumption DEF Photo
<1>3. ASSUME NEW i \in 1..Len(item'), item'[i].photo # 0
      PROVE  photo'[item'[i].photo].state # "none"
  <2>1. CASE i \in 1..Len(item)
    <3>1. item'[i].photo = item[i].photo
      BY <2>1, StepItems
    <3> QED
      BY <1>1, <1>2, <1>3, <2>1, <3>1 DEF Taken
  <2>2. CASE i \notin 1..Len(item)
    <3>1. i = Len(item) + 1 /\ Len(item) \in Nat
      BY <2>2, StepItems
    <3>2. Len(item') = Len(item) + 1
      <4>1. Effect => ItemsKept \/ item' = item \/ Len(item') = Len(item)
        BY DEF Effect, Rest, Renew, Join, LoopMoves, Take, Prepare, Send, Show, End
      <4>2. Len(item') \in {Len(item), Len(item) + 1}
        BY <4>1 DEF ItemsKept
      <4> QED
        BY <3>1, <4>2
    <3>3. item'[i].photo = capturing
      BY <1>3, <3>1, <3>2, StepItems
    <3> QED
      BY <1>1, <1>2, <1>3, <3>3 DEF Taken
  <2> QED
    BY <2>1, <2>2
<1>4. capturing' # 0 => photo'[capturing'].state # "none"
  BY <1>1, <1>2 DEF Taken
<1> QED
  BY <1>3, <1>4 DEF Taken

\* An ack that is awaited after a step was awaited before, and for the same
\* session, or it is the file's that was just shown.
LEMMA StepAwaits ==
  ASSUME Base, OfSession, Effect, NEW l \in Loops, loop'[l].at = "ack", loop'[l].via = session',
         ~Show(l)
  PROVE  /\ loop[l].at = "ack" /\ loop[l].via = session
         /\ loop'[l].item = loop[l].item /\ loop'[l].stream = loop[l].stream
<1>1. loop[l].via \in Nat /\ session \in Nat
  BY Numbers
<1>2. CASE Rest
  <2>1. Keeps(l)
    BY <1>2, RestedWork DEF Rest, Working
  <2> QED
    BY <1>2, <2>1 DEF Keeps, Rest, SameFlow
<1>3. CASE Renew
  <2>1. Keeps(l)
    BY <1>3, RestedWork DEF Renew, Working
  <2>2. loop[l].at = "ack" /\ loop[l].via = session + 1
    BY <1>3, <2>1 DEF Keeps, Renew
  <2>3. loop[l].via = session \/ loop[l].via < session
    BY <2>2 DEF OfSession
  <2> QED
    BY <1>1, <2>2, <2>3
<1>4. CASE Join
  BY <1>4 DEF Join
<1>5. ASSUME NEW k \in Loops, LoopMoves(k)
      PROVE  /\ loop[l].at = "ack" /\ loop[l].via = session
             /\ loop'[l].item = loop[l].item /\ loop'[l].stream = loop[l].stream
  <2>1. /\ k # l => loop'[l] = loop[l]
        /\ SameFlow
    BY <1>5, WorkGoesOn
  <2>2. CASE k = l
    BY <1>5, <2>2 DEF LoopMoves, Take, Prepare, Send, End, Resting
  <2>3. CASE k # l
    BY <2>1, <2>3 DEF SameFlow
  <2> QED
    BY <2>2, <2>3
<1> QED
  BY <1>2, <1>3, <1>4, <1>5 DEF Effect

LEMMA StepReplaces ==
  ASSUME Base, Effect, edits'.crops = 0, \A i \in 1..Len(item) : item[i].replace = 0
  PROVE  \A i \in 1..Len(item') : item'[i].replace = 0
<1> SUFFICES ASSUME NEW i \in 1..Len(item') PROVE item'[i].replace = 0
  OBVIOUS
<1>1. CASE i \in 1..Len(item)
  BY <1>1, StepItems
<1>2. CASE i \notin 1..Len(item)
  <2>1. i = Len(item) + 1 /\ Len(item) \in Nat
    BY <1>2, StepItems
  <2>2. ItemsKept \/ item' = item \/ Len(item') = Len(item)
    BY DEF Effect, Rest, Renew, Join, LoopMoves, Take, Prepare, Send, Show, End
  <2>3. Len(item') \in {Len(item), Len(item) + 1}
    BY <2>2 DEF ItemsKept
  <2>4. Len(item') = Len(item) + 1
    BY <2>1, <2>3
  <2> QED
    BY <2>1, <2>4, StepItems
<1> QED
  BY <1>1, <1>2

LEMMA NothingShown ==
  ASSUME Base, shownItems' = shownItems, NEW l \in Loops
  PROVE  ~Show(l)
<1> SUFFICES ASSUME Show(l) PROVE FALSE
  OBVIOUS
<1>1. shownItems \in Seq(Nat) /\ loop[l].item \in Nat
  BY Numbers DEF Base, PairingTypes
<1>2. Len(shownItems') = Len(shownItems) + 1 /\ Len(shownItems) \in Nat
  BY <1>1, AppendProperties, LenProperties DEF Show
<1> QED
  BY <1>2

\* An ack on its way goes on naming an image, as long as images stay for the
\* photos that stay.
LEMMA StepAcked ==
  ASSUME QueueInv, Shown, Effect, edits'.crops = 0, NEW l \in Loops,
         loop'[l].at = "ack", loop'[l].via = session', ~Show(l),
         NEW p \in Photo, item'[loop'[l].item].photo = p, photo'[p].state = "kept",
         photo[p].state = "kept" \/ photo[p].state = "none",
         \A b : HasImage(p, b) => HasImage(p, b)'
  PROVE  \E k \in 1..Len(images') : images'[k].hash = <<p, loop'[l].stream.bytes>>
<1>1. /\ loop[l].at = "ack" /\ loop[l].via = session
      /\ loop'[l].item = loop[l].item /\ loop'[l].stream = loop[l].stream
  BY StepAwaits DEF QueueInv
<1>2. PICK i : i = loop[l].item
  OBVIOUS
<1>3. i \in 1..Len(item) /\ item'[i].photo = item[i].photo
  <2>1. i \in 1..Len(item)
    BY <1>1, <1>2 DEF QueueInv, Base, LoopItems, Working
  <2> QED
    BY <2>1, StepItems DEF QueueInv
<1>4. item[i].photo = p /\ p # 0
  BY <1>1, <1>2, <1>3 DEF Photo
<1>5. photo[p].state = "kept"
  BY <1>3, <1>4 DEF Shown, Taken
<1>6. HasImage(p, loop[l].stream.bytes)
  BY <1>1, <1>2, <1>4, <1>5 DEF Shown, Acked
<1>7. PICK b : b = loop[l].stream.bytes
  OBVIOUS
<1>8. HasImage(p, b)'
  BY <1>6, <1>7
<1> QED
  BY <1>1, <1>7, <1>8 DEF HasImage

\* What the gallery and the images go through, and nobody shows a file.
LEMMA StepGallery ==
  ASSUME QueueInv, Shown, Typed', Effect, GalleryMoves, edits'.crops = 0,
         shownItems' = shownItems
  PROVE  Shown'
<1>1. Base /\ Bytes /\ ImageBytes /\ Taken /\ SentPhotoIsThere /\ pendingReplaceHash = NoHash
  BY DEF QueueInv, Shown
<1>2. Bytes' /\ Taken'
  BY <1>1, StepBytes, StepTaken DEF GalleryMoves
<1>3. ImageBytes'
  BY <1>1 DEF ImageBytes, GalleryMoves
<1>4. Acked'
  <2> SUFFICES ASSUME NEW l \in Loops, loop'[l].at = "ack", loop'[l].via = session',
                      NEW p \in Photo, item'[loop'[l].item].photo = p, photo'[p].state = "kept"
               PROVE  \E k \in 1..Len(images') : images'[k].hash = <<p, loop'[l].stream.bytes>>
    BY DEF Acked, HasImage
  <2>1. /\ photo[p].state = "kept" \/ photo[p].state = "none"
        /\ \A b : HasImage(p, b) => HasImage(p, b)'
    BY DEF GalleryMoves
  <2>2. ~Show(l)
    BY <1>1, NothingShown
  <2> QED
    BY <2>1, <2>2, StepAcked
<1>5. SentPhotoIsThere'
  <2> SUFFICES ASSUME NEW p \in Photo, photo'[p].state = "kept", photo'[p].sentHash # 0
               PROVE  \E k \in 1..Len(images') : images'[k].hash = <<p, photo'[p].sentHash>>
    BY DEF SentPhotoIsThere
  <2>1. PICK b : b = photo'[p].sentHash
    OBVIOUS
  <2>2. photo[p].state = "kept" /\ photo[p].sentHash = b /\ b # 0
    BY <2>1 DEF GalleryMoves
  <2>3. HasImage(p, b)
    BY <1>1, <2>2 DEF SentPhotoIsThere, HasImage
  <2>4. HasImage(p, b)'
    BY <2>3 DEF GalleryMoves
  <2> QED
    BY <2>1, <2>4 DEF HasImage
<1>6. pendingReplaceHash' = NoHash
  BY <1>1 DEF GalleryMoves
<1>7. \A i \in 1..Len(item') : item'[i].replace = 0
  BY <1>1, StepReplaces DEF Shown
<1> QED
  BY <1>2, <1>3, <1>4, <1>5, <1>6, <1>7 DEF Shown

LEMMA CropsGrow ==
  ASSUME QueueInv, Next, edits'.crops = 0
  PROVE  edits.crops = 0
<1>1. /\ edits \in [crops : 0..MaxCrops, rotations : 0..MaxRotations,
                    deletes : 0..MaxDeletes, pairings : 0..MaxPairings]
      /\ edits.crops \in Nat
  BY ConstantsAssumption DEF QueueInv, Base, GalleryTypes
<1>2. \/ edits' = edits
      \/ edits' \in {[edits EXCEPT !.crops = @ + 1], [edits EXCEPT !.rotations = @ + 1],
                     [edits EXCEPT !.deletes = @ + 1], [edits EXCEPT !.pairings = @ + 1]}
  BY DEF Next, LoopStep, DrainEnd, DrainGate, DrainHead, SendFile, SendFileClosed, SendFileRefused,
         TransferStep, SenderReady, SendPaused, SendFails, AckArrives, ReceiverShows, Conclude,
         OfferArrives, ResumeDrain, User, PickFiles, FileStripped, CaptureQueued, NewPairing,
         Capture, Delete, Rotate, Crop, Connection, Drop, DropNoticed, Recover, Reconnect,
         Connected, Ready, galleryVars
<1>3. edits'.crops \in {edits.crops, edits.crops + 1}
  BY <1>1, <1>2
<1> QED
  BY <1>1, <1>3

\* The ack gives a photo the hash of the image that the receiver shows.
LEMMA AckGallery ==
  ASSUME QueueInv, Shown, Typed', Effect, edits'.crops = 0, NEW l \in Loops, AckArrives(l)
  PROVE  Shown'
<1>1. Base /\ Bytes /\ ImageBytes /\ Taken /\ Acked /\ SentPhotoIsThere /\ pendingReplaceHash = NoHash
  BY DEF QueueInv, Shown
<1>2. /\ Conclude(l, TRUE) /\ loop[l].at = "ack" /\ loop[l].via = session
      /\ images' = images /\ shownItems' = shownItems /\ pendingReplaceHash' = pendingReplaceHash
  BY DEF AckArrives, pairingVars
<1>3. PICK i : i = loop[l].item
  OBVIOUS
<1>4. PICK b : b = loop[l].stream.bytes
  OBVIOUS
<1>5. /\ photo' = IF item[i].photo # 0 /\ photo[item[i].photo].state = "kept"
                  THEN [photo EXCEPT ![item[i].photo] = [photo[item[i].photo] EXCEPT !.sentHash = b]]
                  ELSE photo
      /\ capturing' = capturing /\ i \in 1..Len(item)
  BY <1>1, <1>2, <1>3, <1>4, ConcludeFacts
<1>6. photo \in [Photo -> GalleryPhoto] /\ item[i].photo \in 0..NumPhotos
  <2>1. item[i] \in Item
    BY <1>1, <1>5, ElementOfSeq DEF Base, QueueTypes
  <2> QED
    BY <1>1, <2>1 DEF Base, GalleryTypes, Item
<1>7. item[i].photo # 0 => item[i].photo \in Photo
  BY <1>6, ConstantsAssumption DEF Photo
<1>8. \A p \in Photo : /\ photo'[p].state = photo[p].state
                       /\ photo'[p].sentHash = photo[p].sentHash
                            \/ (p = item[i].photo /\ photo[p].state = "kept" /\ photo'[p].sentHash = b)
  <2> SUFFICES ASSUME NEW p \in Photo
               PROVE  /\ photo'[p].state = photo[p].state
                      /\ photo'[p].sentHash = photo[p].sentHash
                           \/ (p = item[i].photo /\ photo[p].state = "kept" /\ photo'[p].sentHash = b)
    OBVIOUS
  <2>1. PICK g : g = [photo[p] EXCEPT !.sentHash = b]
    OBVIOUS
  <2>2. g.state = photo[p].state /\ g.sentHash = b
    BY <1>6, <2>1 DEF GalleryPhoto
  <2>3. photo'[p] = photo[p] \/ (p = item[i].photo /\ photo[p].state = "kept" /\ photo'[p] = g)
    BY <1>5, <1>6, <1>7, <2>1
  <2> QED
    BY <2>2, <2>3
<1>9. \A p, c : HasImage(p, c) => HasImage(p, c)'
  BY <1>2 DEF HasImage
<1>10. Bytes'
  BY <1>1, StepBytes
<1>11. Taken'
  <2>1. \A p \in Photo : photo[p].state # "none" => photo'[p].state # "none"
    BY <1>8
  <2>2. capturing' # 0 => capturing' = capturing
    BY <1>5
  <2> QED
    BY <1>1, <2>1, <2>2, StepTaken
<1>12. ImageBytes'
  BY <1>1, <1>2 DEF ImageBytes
<1>13. Acked'
  <2> SUFFICES ASSUME NEW k \in Loops, loop'[k].at = "ack", loop'[k].via = session',
                      NEW p \in Photo, item'[loop'[k].item].photo = p, photo'[p].state = "kept"
               PROVE  \E j \in 1..Len(images') : images'[j].hash = <<p, loop'[k].stream.bytes>>
    BY DEF Acked, HasImage
  <2>1. photo[p].state = "kept" /\ ~Show(k) /\ \A c : HasImage(p, c) => HasImage(p, c)'
    BY <1>1, <1>2, <1>8, <1>9, NothingShown
  <2> QED
    BY <2>1, StepAcked
<1>14. SentPhotoIsThere'
  <2> SUFFICES ASSUME NEW p \in Photo, photo'[p].state = "kept", photo'[p].sentHash # 0
               PROVE  \E k \in 1..Len(images') : images'[k].hash = <<p, photo'[p].sentHash>>
    BY DEF SentPhotoIsThere
  <2>1. CASE photo'[p].sentHash = photo[p].sentHash
    BY <1>1, <1>2, <1>8, <2>1 DEF SentPhotoIsThere
  <2>2. CASE p = item[i].photo /\ photo[p].state = "kept" /\ photo'[p].sentHash = b
    <3>1. HasImage(p, loop[l].stream.bytes)
      BY <1>1, <1>2, <1>3, <2>2 DEF Acked
    <3> QED
      BY <1>2, <1>4, <2>2, <3>1 DEF HasImage
  <2> QED
    BY <1>8, <2>1, <2>2
<1>15. \A j \in 1..Len(item') : item'[j].replace = 0
  BY <1>1, StepReplaces DEF Shown
<1>16. pendingReplaceHash' = NoHash
  BY <1>1, <1>2
<1> QED
  BY <1>10, <1>11, <1>12, <1>13, <1>14, <1>15, <1>16 DEF Shown

\* A file that is shown replaces nothing: it comes after the other images.
LEMMA ShowGallery ==
  ASSUME QueueInv, Shown, Typed', Effect, edits'.crops = 0, NEW l \in Loops, ReceiverShows(l)
  PROVE  Shown'
<1>1. Base /\ Bytes /\ ImageBytes /\ Taken /\ Acked /\ SentPhotoIsThere /\ pendingReplaceHash = NoHash
  BY DEF QueueInv, Shown
<1>2. /\ loop[l].at = "send" /\ Show(l) /\ item' = item /\ pendingReplaceHash' = NoHash
      /\ photo' = photo /\ capturing' = capturing
  BY <1>1, ReceiverShowsShows DEF ReceiverShows, Present, galleryVars
<1>3. PICK i : i = loop[l].item
  OBVIOUS
<1>4. PICK h : h = <<item[i].photo, loop[l].stream.bytes>>
  OBVIOUS
<1>5. h[2] > 0
  BY <1>1, <1>2, <1>4 DEF Bytes, Working
<1>6. PICK m : m = [hash |-> h, looks |-> h, item |-> i, collection |-> collection]
  OBVIOUS
<1>7. images' = Append(images, m)
  <2>1. PICK k : k = SelectInSeq(images, LAMBDA n : n.hash = pendingReplaceHash)
    OBVIOUS
  <2>2. k = FirstHash(NoHash)
    BY <1>1, <2>1 DEF FirstHash, WithHash, SelectInSeq
  <2>3. NoHash[2] = 0
    BY DEF NoHash
  <2>4. k = 0
    <3> SUFFICES ASSUME k # 0 PROVE FALSE
      OBVIOUS
    <3>1. k \in 1..Len(images) /\ images[k].hash = NoHash
      BY <2>2, ImageOf
    <3>2. images[k].hash[2] > 0
      BY <1>1, <3>1 DEF ImageBytes
    <3> QED
      BY <2>3, <3>1, <3>2
  <2> QED
    BY <1>3, <1>4, <1>6, <2>1, <2>4 DEF ReceiverShows, Present
<1>8. /\ Len(images') = Len(images) + 1 /\ Len(images) \in Nat
      /\ \A k \in 1..Len(images) : images'[k] = images[k]
      /\ images'[Len(images) + 1].hash = h
  <2>1. images \in Seq(Image) /\ images' \in Seq(Image)
    BY <1>1 DEF Base, Typed, PairingTypes
  <2>2. m \in Image
    <3>1. Len(images') \in Nat /\ Len(images) \in Nat
      BY <2>1, LenProperties
    <3>2. item[i].photo \in Nat /\ i \in Nat /\ collection \in Nat
      <4>1. i \in 1..Len(item)
        BY <1>1, <1>2, <1>3 DEF Base, LoopItems, Working
      <4>2. item[i] \in Item
        BY <1>1, <4>1, ElementOfSeq DEF Base, QueueTypes
      <4> QED
        <5>1. item[i].photo \in Nat
          BY <4>2, ConstantsAssumption DEF Item
        <5>2. i \in Nat
          BY <1>1, <1>3, Numbers
        <5> QED
          BY <1>1, <5>1, <5>2 DEF Base, PairingTypes
    <3>3. loop[l].stream.bytes \in Nat
      BY <1>1 DEF Base, QueueTypes, LoopState, Stream
    <3>4. h \in Nat \X Nat
      BY <1>4, <3>2, <3>3
    <3> QED
      BY <1>6, <3>2, <3>4 DEF Image
  <2>3. m.hash = h
    BY <1>6
  <2> QED
    BY <1>7, <2>1, <2>2, <2>3, AppendProperties, LenProperties
<1>9. \A p, b : HasImage(p, b) => HasImage(p, b)'
  <2>1. \A k \in 1..Len(images) : k \in 1..Len(images')
    BY <1>8
  <2> QED
    BY <1>8, <2>1 DEF HasImage
<1>10. Bytes' /\ Taken'
  <2>1. Bytes'
    BY <1>1, StepBytes
  <2>2. Taken'
    BY <1>1, <1>2, StepTaken
  <2> QED
    BY <2>1, <2>2
<1>11. ImageBytes'
  <2> SUFFICES ASSUME NEW k \in 1..Len(images') PROVE images'[k].hash[2] > 0
    BY DEF ImageBytes
  <2>1. k \in 1..Len(images) \/ k = Len(images) + 1
    BY <1>8
  <2>2. CASE k \in 1..Len(images)
    BY <1>1, <1>8, <2>2 DEF ImageBytes
  <2>3. CASE k = Len(images) + 1
    BY <1>5, <1>8, <2>3
  <2> QED
    BY <2>1, <2>2, <2>3
<1>12. Acked'
  <2> SUFFICES ASSUME NEW k \in Loops, loop'[k].at = "ack", loop'[k].via = session',
                      NEW p \in Photo, item'[loop'[k].item].photo = p, photo'[p].state = "kept"
               PROVE  \E j \in 1..Len(images') : images'[j].hash = <<p, loop'[k].stream.bytes>>
    BY DEF Acked, HasImage
  <2>1. CASE k = l
    <3>1. loop'[k].stream = loop[l].stream /\ loop'[k].item = i
      BY <1>2, <1>3, <2>1 DEF Show
    <3>2. h = <<p, loop'[k].stream.bytes>>
      BY <1>2, <1>4, <3>1
    <3>3. Len(images) + 1 \in 1..Len(images')
      BY <1>8
    <3> QED
      BY <1>8, <3>2, <3>3
  <2>2. CASE k # l
    <3>1. ~Show(k)
      BY <1>2, <2>2 DEF Show, OthersKeep
    <3>2. photo[p].state = "kept" /\ \A b : HasImage(p, b) => HasImage(p, b)'
      BY <1>2, <1>9
    <3> QED
      BY <3>1, <3>2, StepAcked
  <2> QED
    BY <2>1, <2>2
<1>13. SentPhotoIsThere'
  <2> SUFFICES ASSUME NEW p \in Photo, photo'[p].state = "kept", photo'[p].sentHash # 0
               PROVE  \E k \in 1..Len(images') : images'[k].hash = <<p, photo'[p].sentHash>>
    BY DEF SentPhotoIsThere
  <2>1. PICK b : b = photo'[p].sentHash
    OBVIOUS
  <2>2. HasImage(p, b)
    BY <1>1, <1>2, <2>1 DEF SentPhotoIsThere, HasImage
  <2>3. HasImage(p, b)'
    BY <1>9, <2>2
  <2> QED
    BY <2>1, <2>3 DEF HasImage
<1>14. \A j \in 1..Len(item') : item'[j].replace = 0
  BY <1>2 DEF Shown
<1> QED
  BY <1>2, <1>10, <1>11, <1>12, <1>13, <1>14 DEF Shown

LEMMA StepShownInv ==
  ASSUME QueueInv, ShownInv, Next
  PROVE  ShownInv'
<1> SUFFICES ASSUME edits'.crops = 0 PROVE Shown'
  BY DEF ShownInv
<1>1. Base /\ Typed' /\ Effect
  BY StepEffect DEF QueueInv
<1>2. Shown
  BY CropsGrow DEF ShownInv
<1>3. \A i \in 1..Len(item) : item[i].replace = 0
  BY <1>2 DEF Shown
<1>4. ASSUME NEW l \in Loops, LoopStep(l) \/ TransferStep(l) PROVE Shown'
  <2>1. CASE AckArrives(l)
    BY <1>1, <1>2, <2>1, AckGallery
  <2>2. CASE ReceiverShows(l)
    BY <1>1, <1>2, <2>2, ShowGallery
  <2>3. CASE ~AckArrives(l) /\ ~ReceiverShows(l)
    <3>1. GalleryMoves
      BY <1>1, <1>3, <1>4, <2>3, LoopGallery
    <3>2. shownItems' = shownItems
      BY <1>4, <2>3 DEF LoopStep, DrainEnd, DrainGate, DrainHead, SendFile, SendFileClosed,
                        SendFileRefused, TransferStep, SenderReady, SendPaused, SendFails, pairingVars
    <3> QED
      BY <1>1, <1>2, <3>1, <3>2, StepGallery
  <2> QED
    BY <2>1, <2>2, <2>3
<1>5. CASE OfferArrives \/ ResumeDrain \/ User \/ Connection
  <2>1. GalleryMoves
    BY <1>1, <1>5, UserGallery
  <2>2. shownItems' = shownItems
    BY <1>5 DEF OfferArrives, ResumeDrain, User, PickFiles, FileStripped, CaptureQueued, NewPairing,
                Capture, Delete, Rotate, Crop, Connection, Drop, DropNoticed, Recover, Reconnect,
                Connected, Ready, pairingVars
  <2> QED
    BY <1>1, <1>2, <2>1, <2>2, StepGallery
<1> QED
  BY <1>4, <1>5 DEF Next

LEMMA ShownInvHolds == Spec => [](QueueInv /\ ShownInv)
<1>1. Init => QueueInv /\ ShownInv
  <2> SUFFICES ASSUME Init PROVE Shown
    BY InitQueueInv DEF ShownInv
  <2>1. Len(item) = 0 /\ Len(images) = 0 /\ \A l \in Loops : loop[l].at = "off"
    BY OffFacts, EmptySeq DEF Init
  <2>2. capturing = 0 /\ pendingReplaceHash = NoHash /\ \A p \in Photo : photo[p].state = "none"
    BY DEF Init
  <2> QED
    BY <2>1, <2>2 DEF Shown, Bytes, ImageBytes, Taken, Acked, SentPhotoIsThere, Working
<1>2. (QueueInv /\ ShownInv) /\ [Next]_vars => (QueueInv /\ ShownInv)'
  <2> SUFFICES ASSUME QueueInv, ShownInv, [Next]_vars PROVE ShownInv'
    BY StepQueueInv
  <2>1. CASE Next
    BY <2>1, StepShownInv
  <2>2. CASE UNCHANGED vars
    BY <2>2 DEF ShownInv, Shown, Bytes, ImageBytes, Taken, Acked, SentPhotoIsThere, HasImage,
                vars, queueVars, galleryVars, sessionVars, pairingVars
  <2> QED
    BY <2>1, <2>2
<1> QED
  BY <1>1, <1>2, PTL DEF Spec

\* As long as no photo was cropped, the hash the gallery keeps of a photo
\* that was sent names an image the receiver shows: through late acks, lost
\* connections, deletions beside a send, and new pairings. A crop is left out
\* because the replacement it queues takes the old image away before its own
\* ack renews the hash.
THEOREM SentPhotosAreShown == Spec => [](edits.crops = 0 => SentPhotoIsThere)
<1>1. QueueInv /\ ShownInv => (edits.crops = 0 => SentPhotoIsThere)
  BY DEF ShownInv, Shown
<1> QED
  BY <1>1, ShownInvHolds, PTL

=============================================================================
