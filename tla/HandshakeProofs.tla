---------------------------- MODULE HandshakeProofs ----------------------------
(***************************************************************************)
(* What Handshake guarantees for every number of keys, breaks and repeated *)
(* messages: a page that counts as verified was confirmed by both users    *)
(* for exactly the keys it holds, two verified pages hold the same key,    *)
(* and no key message undoes a verification.                               *)
(***************************************************************************)
EXTENDS Handshake, SequenceTheorems, TLAPS

-----------------------------------------------------------------------------
(* The inductive invariant of the key exchange, for any user.              *)

Current == [q \in Pages |-> page[q].kp]

Messages == Schemas["receiver"] \cup Schemas["sender"]

\* A page has a session exactly with the peer it cached.
WithPeer(p, s) ==
  s.shared = IF s.peer = NoKey THEN NoPair
             ELSE [q \in Pages |-> IF q = p THEN s.kp ELSE s.peer]

Types ==
  /\ page \in [Pages -> Sessions]
  /\ \A p \in Pages : WithPeer(p, page[p])
  /\ wire \in [Pages -> {"new", "on", "lost", "away"}]
  /\ queue \in [Pages -> Seq(Messages)]
  /\ retry \in [Pages -> SUBSET Messages]
  /\ seen \in [Pages -> SUBSET Pairs] /\ agreed \in [Pages -> SUBSET Pairs]

\* Keys travel on a live connection only, and no page has changed its keys
\* since then.
KeysAreCurrent ==
  /\ \A p \in Pages : \A m \in ToSet(queue[p]) : m.key # NoKey => m.key = page[Other(p)].kp
  /\ \A p \in Pages : \A m \in retry[p] : m.key = NoKey

LinkedAreOn == link => \A p \in Pages : wire[p] = "on"

AwayIsFresh ==
  \A p \in Pages : wire[p] = "away" => page[p].shared = NoPair /\ page[p].shown = NoPair

\* The codes that were displayed: one after the other, none of keys to come.
Below(x, y) == \A q \in Pages : x[q] <= y[q]

SeenIsPast == \A p \in Pages : \A x \in seen[p] : Below(x, Current)

SeenInOrder ==
  \A p, q \in Pages : \A x \in seen[p], y \in seen[q] : Below(x, y) \/ Below(y, x)

ShownIsSeen == \A p \in Pages : page[p].shown # NoPair => page[p].shown \in seen[p]

AgreedIsSeen == \A p, q \in Pages : agreed[p] \subseteq seen[q]

\* A page that has displayed the code of the present keys has their session.
SeenIsShared ==
  \A p \in Pages : Current \in seen[p] /\ wire[p] # "away" => page[p].shared = Current

KeyInv ==
  /\ Types /\ KeysAreCurrent /\ LinkedAreOn /\ AwayIsFresh
  /\ SeenIsPast /\ SeenInOrder /\ ShownIsSeen /\ AgreedIsSeen /\ SeenIsShared

-----------------------------------------------------------------------------
(* Pages, key pairs and sequences of messages.                             *)

LEMMA PageFacts ==
  /\ "receiver" \in Pages /\ "sender" \in Pages
  /\ \A p \in Pages : Other(p) \in Pages /\ Other(p) # p /\ Other(Other(p)) = p
  /\ \A p, q \in Pages : q # p => q = Other(p)
  BY DEF Pages, Other

LEMMA PairFacts ==
  /\ Keys \subseteq Nat /\ 0 \notin Keys /\ NoKey = 0
  /\ \A x \in Pairs : x # NoPair /\ x = [q \in Pages |-> x[q]] /\ \A q \in Pages : x[q] \in Keys
<1>1. Keys \subseteq Nat /\ 0 \notin Keys /\ NoKey = 0
  BY HandshakeAssumption DEF Keys, NoKey
<1>2. NoPair["receiver"] = NoKey
  BY DEF NoPair
<1>3. \A x \in Pairs : x["receiver"] \in Keys /\ x = [q \in Pages |-> x[q]]
                       /\ \A q \in Pages : x[q] \in Keys
  BY PageFacts DEF Pairs
<1> QED
  BY <1>1, <1>2, <1>3

LEMMA CurrentType ==
  ASSUME Types
  PROVE  /\ Current \in Pairs
         /\ \A p \in Pages : page[p] \in Sessions /\ page[p].kp \in Keys /\ Current[p] = page[p].kp
  BY DEF Types, Sessions, Current, Pairs

LEMMA DerivedFacts ==
  ASSUME Types, NEW p \in Pages, NEW k \in Keys
  PROVE  /\ Derived(p, k) \in Pairs
         /\ k = page[Other(p)].kp => Derived(p, k) = Current
         /\ Derived(p, k) = [q \in Pages |-> IF q = p THEN page[p].kp ELSE k]
  BY CurrentType, PageFacts DEF Derived, Pairs, Current

LEMMA SessionFacts ==
  ASSUME Types, NEW p \in Pages
  PROVE  /\ page[p].shared # NoPair => /\ page[p].peer \in Keys
                                       /\ page[p].shared = Derived(p, page[p].peer)
                                       /\ page[p].shared \in Pairs
         /\ page[p].peer # NoKey => page[p].shared # NoPair
<1>1. page[p] \in Sessions /\ WithPeer(p, page[p])
  BY DEF Types
<1>2. page[p].peer \in Keys \cup {NoKey} /\ page[p].shared \in Pairs \cup {NoPair}
  BY <1>1 DEF Sessions
<1>3. page[p].peer # NoKey => page[p].shared = Derived(p, page[p].peer)
  BY <1>1 DEF WithPeer, Derived
<1>4. page[p].peer = NoKey => page[p].shared = NoPair
  BY <1>1 DEF WithPeer
<1>5. page[p].peer \in Keys => Derived(p, page[p].peer) \in Pairs
  BY DerivedFacts
<1> QED
  BY <1>2, <1>3, <1>4, <1>5, PairFacts

LEMMA SetOfTail ==
  ASSUME NEW S, NEW s \in Seq(S), s # <<>>
  PROVE  /\ Tail(s) \in Seq(S) /\ ToSet(Tail(s)) \subseteq ToSet(s) /\ Head(s) \in ToSet(s)
<1>1. /\ Tail(s) \in Seq(S) /\ Len(Tail(s)) = Len(s) - 1 /\ Len(s) \in Nat \ {0}
      /\ \A i \in 1 .. Len(Tail(s)) : Tail(s)[i] = s[i + 1]
  BY HeadTailProperties, LenProperties
<1>2. \A i \in 1 .. Len(Tail(s)) : i + 1 \in 1 .. Len(s)
  BY <1>1
<1>3. DOMAIN s = 1 .. Len(s) /\ DOMAIN Tail(s) = 1 .. Len(Tail(s))
  BY <1>1, LenProperties
<1>4. Head(s) = s[1] /\ 1 \in 1 .. Len(s)
  BY <1>1
<1> QED
  BY <1>1, <1>2, <1>3, <1>4 DEF ToSet

LEMMA SetOfConcat ==
  ASSUME NEW S, NEW s \in Seq(S), NEW t \in Seq(S)
  PROVE  s \o t \in Seq(S) /\ ToSet(s \o t) = ToSet(s) \cup ToSet(t)
<1>1. /\ s \o t \in Seq(S)
      /\ Len(s \o t) = Len(s) + Len(t) /\ Len(s) \in Nat /\ Len(t) \in Nat
      /\ \A i \in 1 .. Len(s) + Len(t) : (s \o t)[i] = IF i <= Len(s) THEN s[i] ELSE t[i - Len(s)]
  BY ConcatProperties, LenProperties
<1>2. /\ DOMAIN s = 1 .. Len(s) /\ DOMAIN t = 1 .. Len(t)
      /\ DOMAIN (s \o t) = 1 .. Len(s) + Len(t)
  BY <1>1, LenProperties
<1>3. ASSUME NEW i \in 1 .. Len(s) + Len(t) PROVE (s \o t)[i] \in ToSet(s) \cup ToSet(t)
  <2>1. CASE i <= Len(s)
    BY <1>1, <1>2, <2>1 DEF ToSet
  <2>2. CASE ~(i <= Len(s))
    <3>1. i - Len(s) \in 1 .. Len(t)
      BY <1>1, <2>2
    <3> QED
      BY <1>1, <1>2, <2>2, <3>1 DEF ToSet
  <2> QED
    BY <2>1, <2>2
<1>4. ASSUME NEW i \in 1 .. Len(s) PROVE s[i] \in ToSet(s \o t)
  <2>1. i \in 1 .. Len(s) + Len(t) /\ (s \o t)[i] = s[i]
    BY <1>1
  <2> QED
    BY <1>2, <2>1 DEF ToSet
<1>5. ASSUME NEW i \in 1 .. Len(t) PROVE t[i] \in ToSet(s \o t)
  <2>1. Len(s) + i \in 1 .. Len(s) + Len(t) /\ (s \o t)[Len(s) + i] = t[i]
    BY <1>1
  <2> QED
    BY <1>2, <2>1 DEF ToSet
<1> QED
  BY <1>1, <1>2, <1>3, <1>4, <1>5 DEF ToSet

LEMMA SetOfFew ==
  /\ ToSet(<<>>) = {}
  /\ \A m : ToSet(<<m>>) = {m}
  /\ \A m, n : ToSet(<<m>> \o <<n>>) = {m, n}
  BY DEF ToSet

LEMMA SetOfAppend ==
  ASSUME NEW S, NEW s \in Seq(S), NEW m \in S
  PROVE  Append(s, m) \in Seq(S) /\ ToSet(Append(s, m)) = ToSet(s) \cup {m}
<1>1. Append(s, m) = s \o <<m>> /\ <<m>> \in Seq(S)
  BY AppendIsConcat
<1>2. PICK t \in Seq(S) : t = <<m>>
  BY <1>1
<1>a. s \o t \in Seq(S) /\ ToSet(s \o t) = ToSet(s) \cup ToSet(t)
  BY SetOfConcat
<1>3. ToSet(<<m>>) = {m}
  BY SetOfFew
<1> QED
  BY <1>1, <1>2, <1>a, <1>3

-----------------------------------------------------------------------------
(* What page p sends goes to the other page, or waits to be sent again.    *)

LEMMA SendsAdds ==
  ASSUME Types, NEW p \in Pages, NEW in \in [Pages -> Seq(Messages)],
         NEW once \in Seq(Messages), NEW insist \in Seq(Messages),
         Sends(p, in, once, insist)
  PROVE  /\ queue' \in [Pages -> Seq(Messages)] /\ retry' \in [Pages -> SUBSET Messages]
         /\ \A q \in Pages : ToSet(queue'[q]) \subseteq
              ToSet(in[q]) \cup (IF q = p THEN {} ELSE ToSet(once) \cup ToSet(insist))
         /\ \A q \in Pages : retry'[q] \subseteq
              retry[q] \cup (IF q = p THEN ToSet(insist) ELSE {})
<1>1. Other(p) \in Pages /\ Other(p) # p /\ \A q \in Pages : q # p => q = Other(p)
  BY PageFacts
<1>2. PICK more : more = in[Other(p)] \o once \o insist
  OBVIOUS
<1>3. /\ more \in Seq(Messages)
      /\ ToSet(more) = ToSet(in[Other(p)]) \cup ToSet(once) \cup ToSet(insist)
  <2>1. in[Other(p)] \in Seq(Messages)
    BY <1>1
  <2>2. PICK both : both = in[Other(p)] \o once
    OBVIOUS
  <2>3. both \in Seq(Messages) /\ ToSet(both) = ToSet(in[Other(p)]) \cup ToSet(once)
    BY <2>1, <2>2, SetOfConcat
  <2>4. both \o insist \in Seq(Messages) /\ ToSet(both \o insist) = ToSet(both) \cup ToSet(insist)
    BY <2>3, SetOfConcat
  <2> QED
    BY <1>2, <2>2, <2>3, <2>4
<1>4. queue' = in \/ queue' = [in EXCEPT ![Other(p)] = more]
  BY <1>2 DEF Sends
<1>5. queue' \in [Pages -> Seq(Messages)]
  BY <1>1, <1>3, <1>4
<1>6. ASSUME NEW q \in Pages
      PROVE  ToSet(queue'[q]) \subseteq
               ToSet(in[q]) \cup (IF q = p THEN {} ELSE ToSet(once) \cup ToSet(insist))
  <2>1. queue'[q] = in[q] \/ (q = Other(p) /\ queue'[q] = more)
    BY <1>1, <1>4
  <2> QED
    BY <1>1, <1>3, <2>1
<1>7. ToSet(insist) \subseteq Messages
  <2>1. DOMAIN insist = 1 .. Len(insist) /\ \A i \in 1 .. Len(insist) : insist[i] \in Messages
    BY LenProperties, ElementOfSeq
  <2> QED
    BY <2>1 DEF ToSet
<1>8. retry' = retry \/ retry' = [retry EXCEPT ![p] = retry[p] \cup ToSet(insist)]
  BY DEF Sends
<1>9. retry \in [Pages -> SUBSET Messages]
  BY DEF Types
<1>10. retry' \in [Pages -> SUBSET Messages]
  BY <1>7, <1>8, <1>9
<1>11. \A q \in Pages : retry'[q] \subseteq retry[q] \cup (IF q = p THEN ToSet(insist) ELSE {})
  BY <1>8, <1>9
<1> QED
  BY <1>5, <1>6, <1>10, <1>11

\* Page p becomes s and sends messages, those of insist with retries.
Speaks(p, s, once, insist) ==
  /\ page' = [page EXCEPT ![p] = s]
  /\ queue' \in [Pages -> Seq(Messages)] /\ retry' \in [Pages -> SUBSET Messages]
  /\ \A q \in Pages : ToSet(queue'[q]) \subseteq
       ToSet(queue[q]) \cup (IF q = p THEN {} ELSE ToSet(once) \cup ToSet(insist))
  /\ \A q \in Pages : retry'[q] \subseteq retry[q] \cup (IF q = p THEN ToSet(insist) ELSE {})
  /\ wire' = wire /\ link' = link

LEMMA SaysSpeaks ==
  ASSUME Types, NEW p \in Pages, NEW s,
         NEW once \in Seq(Messages), NEW insist \in Seq(Messages), Says(p, s, once, insist)
  PROVE  Speaks(p, s, once, insist)
<1>1. queue \in [Pages -> Seq(Messages)]
  BY DEF Types
<1> QED
  BY <1>1, SendsAdds DEF Says, Speaks

LEMMA AnswersSpeaks ==
  ASSUME Types, NEW p \in Pages, NEW m, NEW s,
         NEW once \in Seq(Messages), NEW insist \in Seq(Messages), Answers(p, m, s, once, insist)
  PROVE  /\ Speaks(p, s, once, insist)
         /\ m \in ToSet(queue[p]) /\ wire[p] = "on" /\ link
         /\ seen' = [seen EXCEPT ![p] = seen[p] \cup ({s.shown} \ {NoPair})]
         /\ agreed' = agreed
<1>1. queue \in [Pages -> Seq(Messages)] /\ queue[p] # <<>> /\ Head(queue[p]) = m
  BY DEF Types, Answers
<1>2. Tail(queue[p]) \in Seq(Messages) /\ ToSet(Tail(queue[p])) \subseteq ToSet(queue[p])
      /\ m \in ToSet(queue[p])
  BY <1>1, SetOfTail
<1>3. PICK in : in = [queue EXCEPT ![p] = Tail(queue[p])]
  OBVIOUS
<1>4. in \in [Pages -> Seq(Messages)] /\ \A q \in Pages : ToSet(in[q]) \subseteq ToSet(queue[q])
  BY <1>1, <1>2, <1>3
<1>5. Sends(p, in, once, insist)
  BY <1>3 DEF Answers
<1>6. /\ queue' \in [Pages -> Seq(Messages)] /\ retry' \in [Pages -> SUBSET Messages]
      /\ \A q \in Pages : ToSet(queue'[q]) \subseteq
           ToSet(in[q]) \cup (IF q = p THEN {} ELSE ToSet(once) \cup ToSet(insist))
      /\ \A q \in Pages : retry'[q] \subseteq
           retry[q] \cup (IF q = p THEN ToSet(insist) ELSE {})
  BY <1>4, <1>5, SendsAdds
<1>7. \A q \in Pages : ToSet(queue'[q]) \subseteq
         ToSet(queue[q]) \cup (IF q = p THEN {} ELSE ToSet(once) \cup ToSet(insist))
  BY <1>4, <1>6
<1> QED
  BY <1>2, <1>6, <1>7 DEF Answers, Speaks

LEMMA MessageFacts ==
  /\ \A k \in Keys : /\ PublicKey(k) \in Messages /\ SenderPublicKey(k) \in Messages
                     /\ PublicKey(k).key = k /\ SenderPublicKey(k).key = k
                     /\ PublicKey(k) # Confirmed /\ SenderPublicKey(k) # Confirmed
  /\ {Confirmed, Denied, Ready} \subseteq Messages
  /\ Confirmed.key = NoKey /\ Denied.key = NoKey /\ Ready.key = NoKey
  /\ Denied # Confirmed /\ Ready # Confirmed
<1>1. \A k \in Keys : /\ PublicKey(k) \in Messages /\ SenderPublicKey(k) \in Messages
                     /\ PublicKey(k).key = k /\ SenderPublicKey(k).key = k
  BY DEF PublicKey, SenderPublicKey, Messages, Schemas
<1>2. \A k \in Keys : PublicKey(k).type = "public-key" /\ SenderPublicKey(k).type = "sender-public-key"
  BY DEF PublicKey, SenderPublicKey
<1>3. /\ Confirmed.type = "fingerprint-confirmed" /\ Denied.type = "fingerprint-denied"
      /\ Ready.type = "ready"
      /\ Confirmed.key = NoKey /\ Denied.key = NoKey /\ Ready.key = NoKey
  BY DEF Confirmed, Denied, Ready, Control
<1>4. {Confirmed, Denied, Ready} \subseteq Messages
  BY DEF Messages, Schemas
<1> QED
  BY <1>1, <1>2, <1>3, <1>4

-----------------------------------------------------------------------------
(* One lemma for all handlers: a page with the same key pair keeps the
   invariant if its new state and what it says agree with the present keys. *)

\* What is new among the displayed codes is the code of the present keys.
SeesCurrent(p, s) ==
  \/ seen' = seen
  \/ /\ seen' = [seen EXCEPT ![p] = seen[p] \cup ({s.shown} \ {NoPair})]
     /\ s.shown \in seen[p] \cup {Current, NoPair}

\* What is new among the confirmed codes was displayed by both pages.
AgreesSeen(p) ==
  /\ agreed' \in [Pages -> SUBSET Pairs]
  /\ \A q \in Pages : agreed[q] \subseteq agreed'[q]
  /\ \A q \in Pages : \A x \in agreed'[q] : x \in agreed[q] \/ \A r \in Pages : x \in seen[r]

LEMMA SpeaksSound ==
  ASSUME KeyInv, NEW p \in Pages, NEW s \in Sessions, s.kp = page[p].kp, WithPeer(p, s),
         NEW once, NEW insist, Speaks(p, s, once, insist),
         \A m \in ToSet(once) : m.key # NoKey => m.key = page[p].kp,
         \A m \in ToSet(insist) : m.key = NoKey,
         SeesCurrent(p, s), AgreesSeen(p),
         s.shown \in seen'[p] \cup {NoPair},
         wire[p] = "away" => s.shared = NoPair /\ s.shown = NoPair,
         Current \in seen'[p] /\ wire[p] # "away" => s.shared = Current
  PROVE  KeyInv' /\ Current' = Current
<1>1. Types /\ KeysAreCurrent /\ LinkedAreOn /\ AwayIsFresh
      /\ SeenIsPast /\ SeenInOrder /\ ShownIsSeen /\ AgreedIsSeen /\ SeenIsShared
  BY DEF KeyInv
<1>2. page' = [page EXCEPT ![p] = s] /\ page \in [Pages -> Sessions]
  BY <1>1 DEF Speaks, Types
<1>3. /\ page' \in [Pages -> Sessions] /\ page'[p] = s
      /\ \A q \in Pages : q # p => page'[q] = page[q]
      /\ \A q \in Pages : page'[q].kp = page[q].kp
  BY <1>2
<1>4. Current' = Current
  BY <1>3 DEF Current
<1>5. Current \in Pairs /\ \A q \in Pages : Current[q] = page[q].kp /\ page[q].kp \in Keys
  BY <1>1, CurrentType
<1>6. /\ seen' \in [Pages -> SUBSET Pairs]
      /\ \A q \in Pages : seen[q] \subseteq seen'[q]
      /\ \A q \in Pages : seen'[q] \subseteq seen[q] \cup {Current}
      /\ \A q \in Pages : q # p => seen'[q] = seen[q]
  <2>1. seen \in [Pages -> SUBSET Pairs]
    BY <1>1 DEF Types
  <2>2. CASE seen' = seen
    BY <2>1, <2>2
  <2>3. CASE /\ seen' = [seen EXCEPT ![p] = seen[p] \cup ({s.shown} \ {NoPair})]
             /\ s.shown \in seen[p] \cup {Current, NoPair}
    BY <1>5, <2>1, <2>3
  <2> QED
    BY <2>2, <2>3 DEF SeesCurrent
<1>7. wire' = wire /\ link' = link
  BY DEF Speaks
<1>8. Types'
  <2>1. \A q \in Pages : WithPeer(q, page'[q])
    BY <1>1, <1>3 DEF Types
  <2> QED
    BY <1>1, <1>3, <1>6, <1>7, <2>1 DEF Types, Speaks, AgreesSeen, WithPeer
<1>9. KeysAreCurrent'
  <2>1. ASSUME NEW q \in Pages, NEW m \in ToSet(queue'[q]), m.key # NoKey
        PROVE  m.key = page'[Other(q)].kp
    <3>1. CASE m \in ToSet(queue[q])
      BY <1>1, <1>3, <2>1, <3>1, PageFacts DEF KeysAreCurrent
    <3>2. CASE q # p /\ m \in ToSet(once) \cup ToSet(insist)
      BY <1>3, <2>1, <3>2, PageFacts
    <3> QED
      BY <3>1, <3>2 DEF Speaks
  <2>2. ASSUME NEW q \in Pages, NEW m \in retry'[q]
        PROVE  m.key = NoKey
    BY <1>1, <2>2 DEF Speaks, KeysAreCurrent
  <2> QED
    BY <2>1, <2>2 DEF KeysAreCurrent
<1>10. LinkedAreOn' /\ AwayIsFresh'
  BY <1>1, <1>3, <1>7 DEF LinkedAreOn, AwayIsFresh
<1>11. \A q \in Pages : \A x \in seen'[q] : Below(x, Current)
  BY <1>1, <1>5, <1>6, PairFacts DEF SeenIsPast, Below
<1>12. SeenIsPast'
  BY <1>4, <1>11 DEF SeenIsPast, Below
<1>13. SeenInOrder'
  <2> SUFFICES ASSUME NEW q \in Pages, NEW r \in Pages, NEW x \in seen'[q], NEW y \in seen'[r]
               PROVE  Below(x, y) \/ Below(y, x)
    BY DEF SeenInOrder, Below
  <2>1. CASE x \in seen[q] /\ y \in seen[r]
    BY <1>1, <2>1 DEF SeenInOrder
  <2>2. CASE x = Current \/ y = Current
    BY <1>11, <2>2
  <2> QED
    BY <1>6, <2>1, <2>2
<1>14. ShownIsSeen'
  BY <1>1, <1>3, <1>6 DEF ShownIsSeen
<1>15. AgreedIsSeen'
  BY <1>1, <1>6 DEF AgreedIsSeen, AgreesSeen
<1>16. SeenIsShared'
  <2> SUFFICES ASSUME NEW q \in Pages, Current \in seen'[q], wire[q] # "away"
               PROVE  page'[q].shared = Current
    BY <1>4, <1>7 DEF SeenIsShared
  <2> QED
    BY <1>1, <1>3, <1>6 DEF SeenIsShared
<1> QED
  BY <1>4, <1>8, <1>9, <1>10, <1>12, <1>13, <1>14, <1>15, <1>16 DEF KeyInv

-----------------------------------------------------------------------------
(* The flags.  As long as no user and no retry is faster than a modal and a
   restart, a flag stands for the keys of its page, and a confirmation that is
   on its way for the present keys of both. *)

FlagsConfirmed ==
  \A p \in Pages :
    /\ page[p].we => page[p].shared # NoPair /\ page[p].shared \in agreed[p]
    /\ page[p].they => page[p].shared # NoPair /\ page[p].shared \in agreed[Other(p)]

Settled == \A q \in Pages : wire[q] \notin {"new", "away"}

ConfirmedIsCurrent ==
  \A p \in Pages :
    /\ Confirmed \in ToSet(queue[p]) => Current \in agreed[Other(p)]
    /\ Confirmed \in retry[p] /\ Settled => Current \in agreed[p]

FlagInv == FlagsConfirmed /\ ConfirmedIsCurrent

\* What one step owes: the two invariants and the verification of a page.
Stays(p) ==
  Verified(page[p]) /\ StillValid(p) /\ wire'[p] # "away" => Verified(page'[p])

Kept ==
  /\ KeyInv'
  /\ FlagInv /\ ~Hasty => FlagInv'
  /\ \A p \in Pages : Stays(p)

LEMMA SpeaksKept ==
  ASSUME KeyInv, KeyInv', Current' = Current, NEW p \in Pages, NEW s,
         NEW once, NEW insist, Speaks(p, s, once, insist),
         \A q \in Pages : agreed[q] \subseteq agreed'[q],
         FlagInv /\ ~Hasty /\ s.we => s.shared # NoPair /\ s.shared \in agreed'[p],
         FlagInv /\ ~Hasty /\ s.they => s.shared # NoPair /\ s.shared \in agreed'[Other(p)],
         ~Hasty /\ Confirmed \in ToSet(once) \cup ToSet(insist) => Current \in agreed'[p],
         Verified(page[p]) /\ page[Other(p)].kp = page[p].peer => Verified(s)
  PROVE  Kept
<1>1. /\ page \in [Pages -> Sessions] /\ page' = [page EXCEPT ![p] = s] /\ wire' = wire
  BY DEF KeyInv, Types, Speaks
<1>2. page'[p] = s /\ \A q \in Pages : q # p => page'[q] = page[q]
  BY <1>1
<1>3. ASSUME FlagInv, ~Hasty PROVE FlagInv'
  <2>1. ASSUME NEW q \in Pages
        PROVE  /\ page'[q].we => page'[q].shared # NoPair /\ page'[q].shared \in agreed'[q]
               /\ page'[q].they => page'[q].shared # NoPair /\ page'[q].shared \in agreed'[Other(q)]
    <3>1. CASE q = p
      BY <1>2, <1>3, <3>1
    <3>2. CASE q # p
      BY <1>2, <1>3, <3>2, PageFacts DEF FlagInv, FlagsConfirmed
    <3> QED
      BY <3>1, <3>2
  <2>2. ASSUME NEW q \in Pages, Confirmed \in ToSet(queue'[q])
        PROVE  Current \in agreed'[Other(q)]
    <3>1. CASE Confirmed \in ToSet(queue[q])
      BY <1>3, <3>1, PageFacts DEF FlagInv, ConfirmedIsCurrent
    <3>2. CASE q # p /\ Confirmed \in ToSet(once) \cup ToSet(insist)
      BY <1>3, <3>2, PageFacts
    <3> QED
      BY <2>2, <3>1, <3>2 DEF Speaks
  <2>3. ASSUME NEW q \in Pages, Confirmed \in retry'[q], Settled
        PROVE  Current \in agreed'[q]
    <3>1. CASE Confirmed \in retry[q]
      BY <1>3, <2>3, <3>1 DEF FlagInv, ConfirmedIsCurrent
    <3>2. CASE q = p /\ Confirmed \in ToSet(insist)
      BY <1>3, <3>2
    <3> QED
      BY <2>3, <3>1, <3>2 DEF Speaks
  <2>4. Settled' = Settled
    BY <1>1 DEF Settled
  <2> QED
    BY <2>1, <2>2, <2>3, <2>4 DEF FlagInv, FlagsConfirmed, ConfirmedIsCurrent
<1>4. ASSUME NEW q \in Pages PROVE Stays(q)
  <2>1. CASE q = p
    BY <1>2, <2>1, PageFacts DEF Stays, StillValid
  <2>2. CASE q # p
    BY <1>2, <2>2 DEF Stays
  <2> QED
    BY <2>1, <2>2
<1> QED
  BY <1>3, <1>4 DEF Kept

\* A handler that leaves the session alone.
LEMMA SameSession ==
  ASSUME KeyInv, NEW p \in Pages, NEW s \in Sessions,
         s.kp = page[p].kp, s.shared = page[p].shared, s.peer = page[p].peer,
         s.shown \in {page[p].shown, NoPair},
         NEW once, NEW insist, Speaks(p, s, once, insist),
         \A m \in ToSet(once) : m.key # NoKey => m.key = page[p].kp,
         \A m \in ToSet(insist) : m.key = NoKey,
         \/ seen' = seen
         \/ seen' = [seen EXCEPT ![p] = seen[p] \cup ({s.shown} \ {NoPair})],
         AgreesSeen(p)
  PROVE  KeyInv' /\ Current' = Current
<1>1. Types /\ AwayIsFresh /\ ShownIsSeen /\ SeenIsShared
  BY DEF KeyInv
<1>2. s.shown \in seen[p] \cup {NoPair}
  BY <1>1 DEF ShownIsSeen
<1>3. SeesCurrent(p, s)
  BY <1>2 DEF SeesCurrent
<1>4. seen' = seen
  <2>1. seen[p] \cup ({s.shown} \ {NoPair}) = seen[p]
    BY <1>2
  <2>2. seen = [seen EXCEPT ![p] = seen[p]]
    BY <1>1 DEF Types
  <2> QED
    BY <2>1, <2>2
<1>5. WithPeer(p, s)
  BY <1>1 DEF Types, WithPeer
<1>6. /\ wire[p] = "away" => s.shared = NoPair /\ s.shown = NoPair
      /\ Current \in seen'[p] /\ wire[p] # "away" => s.shared = Current
  BY <1>1, <1>4 DEF AwayIsFresh, SeenIsShared
<1> QED
  BY <1>2, <1>3, <1>4, <1>5, <1>6, SpeaksSound

LEMMA SameAgreed == KeyInv /\ agreed' = agreed => \A p \in Pages : AgreesSeen(p)
  BY DEF KeyInv, Types, AgreesSeen

LEMMA ResendKept ==
  ASSUME KeyInv, Resend
  PROVE  Kept
<1>1. PICK r : r = page["receiver"]
  OBVIOUS
<1>2. Types /\ "receiver" \in Pages /\ r \in Sessions /\ r.kp \in Keys
  BY <1>1, CurrentType, PageFacts DEF KeyInv
<1>3. PICK s : s = [r EXCEPT !.resends = r.resends + 1]
  OBVIOUS
<1>4. r.resends \in 0 .. MaxResends /\ r.resends < MaxResends /\ r.shared = NoPair
      /\ r.resends + 1 \in 0 .. MaxResends
  BY <1>1, <1>2, HandshakeAssumption DEF Resend, Sessions
<1>5. s \in Sessions
  BY <1>2, <1>3, <1>4 DEF Sessions
<1>6. /\ s.kp = r.kp /\ s.shared = r.shared /\ s.peer = r.peer /\ s.shown = r.shown
      /\ s.we = r.we /\ s.they = r.they
  BY <1>2, <1>3 DEF Sessions
<1>7. <<PublicKey(r.kp)>> \in Seq(Messages) /\ <<>> \in Seq(Messages)
      /\ ToSet(<<PublicKey(r.kp)>>) = {PublicKey(r.kp)} /\ ToSet(<<>>) = {}
      /\ PublicKey(r.kp).key = r.kp /\ PublicKey(r.kp) # Confirmed
  BY <1>2, MessageFacts, SetOfFew
<1>8. Says("receiver", s, <<PublicKey(r.kp)>>, <<>>) /\ seen' = seen /\ agreed' = agreed
  BY <1>1, <1>3 DEF Resend
<1>9. Speaks("receiver", s, <<PublicKey(r.kp)>>, <<>>)
  BY <1>2, <1>7, <1>8, SaysSpeaks
<1>10. AgreesSeen("receiver")
  BY <1>2, <1>8, SameAgreed
<1>11. KeyInv' /\ Current' = Current
  BY <1>1, <1>2, <1>5, <1>6, <1>7, <1>8, <1>9, <1>10, SameSession
<1> QED
  BY <1>1, <1>2, <1>4, <1>6, <1>7, <1>8, <1>9, <1>11, SpeaksKept, PageFacts
     DEF FlagInv, FlagsConfirmed, Verified

LEMMA ReplyFacts ==
  ASSUME Types
  PROVE  /\ <<Reply>> \in Seq(Messages) /\ <<>> \in Seq(Messages)
         /\ ToSet(<<Reply>>) = {Reply} /\ ToSet(<<>>) = {}
         /\ Reply.key = page["sender"].kp /\ Reply # Confirmed
<1>1. page["sender"].kp \in Keys
  BY CurrentType, PageFacts
<1> QED
  BY <1>1, MessageFacts, SetOfFew DEF Reply

LEMMA DeriveFacts ==
  ASSUME Types, NEW p \in Pages, NEW k \in Keys, k = page[Other(p)].kp,
         NEW s \in Sessions, s.kp = page[p].kp
  PROVE  /\ Derive(p, s, k) \in Sessions
         /\ Derive(p, s, k).kp = s.kp /\ Derive(p, s, k).shared = Current
         /\ Derive(p, s, k).shown = Current /\ WithPeer(p, Derive(p, s, k))
         /\ Derive(p, s, k).we = s.we /\ Derive(p, s, k).they = s.they
<1>1. /\ Derived(p, k) = Current /\ Derived(p, k) \in Pairs
      /\ Derived(p, k) = [q \in Pages |-> IF q = p THEN page[p].kp ELSE k]
  BY DerivedFacts
<1>2. PICK d : d = Derive(p, s, k)
  OBVIOUS
<1>3. d = [s EXCEPT !.shared = Current, !.peer = k, !.shown = Current]
  BY <1>1, <1>2 DEF Derive
<1>4. d \in Sessions
  <2>1. Current \in Pairs
    BY <1>1
  <2> QED
    BY <1>3, <2>1 DEF Sessions
<1>5. /\ d.kp = s.kp /\ d.shared = Current /\ d.shown = Current /\ d.peer = k
      /\ d.we = s.we /\ d.they = s.they
  BY <1>3 DEF Sessions
<1>6. WithPeer(p, d)
  BY <1>1, <1>5, PairFacts DEF WithPeer
<1> QED
  BY <1>2, <1>4, <1>5, <1>6

LEMMA SenderDerivesKept ==
  ASSUME KeyInv, NEW k \in Keys, SenderDerives(k)
  PROVE  Kept
<1>1. PICK r : r = page["sender"]
  OBVIOUS
<1>2. Types /\ "sender" \in Pages /\ r \in Sessions /\ r.shared = NoPair
  BY <1>1, CurrentType, PageFacts DEF KeyInv, SenderDerives
<1>3. PICK s : s = Derive("sender", r, k)
  OBVIOUS
<1>4. Answers("sender", PublicKey(k), s, <<Reply>>, <<>>)
  BY <1>1, <1>3 DEF SenderDerives
<1>5. /\ Speaks("sender", s, <<Reply>>, <<>>)
      /\ PublicKey(k) \in ToSet(queue["sender"]) /\ wire["sender"] = "on"
      /\ seen' = [seen EXCEPT !["sender"] = seen["sender"] \cup ({s.shown} \ {NoPair})]
      /\ agreed' = agreed
  <2>1. <<Reply>> \in Seq(Messages) /\ <<>> \in Seq(Messages)
    BY <1>2, ReplyFacts
  <2> QED
    BY <1>2, <1>4, <2>1, AnswersSpeaks
<1>6. k = page[Other("sender")].kp
  BY <1>2, <1>5, MessageFacts, PairFacts DEF KeyInv, KeysAreCurrent
<1>7. /\ s \in Sessions /\ s.kp = r.kp /\ s.shared = Current /\ s.shown = Current
      /\ WithPeer("sender", s) /\ s.we = r.we /\ s.they = r.they
  BY <1>1, <1>2, <1>3, <1>6, DeriveFacts
<1>8. SeesCurrent("sender", s) /\ s.shown \in seen'["sender"] \cup {NoPair}
  BY <1>2, <1>5, <1>7 DEF SeesCurrent, Types
<1>9. AgreesSeen("sender")
  BY <1>2, <1>5, SameAgreed
<1>10. KeyInv' /\ Current' = Current
  BY <1>1, <1>2, <1>5, <1>7, <1>8, <1>9, ReplyFacts, SpeaksSound
<1> QED
  BY <1>1, <1>2, <1>5, <1>7, <1>10, ReplyFacts, SpeaksKept DEF FlagInv, FlagsConfirmed, Verified

LEMMA SenderKnowsKept ==
  ASSUME KeyInv, NEW k \in Keys, SenderKnows(k)
  PROVE  Kept
<1>1. PICK r : r = page["sender"]
  OBVIOUS
<1>2. Types /\ "sender" \in Pages /\ r \in Sessions
  BY <1>1, CurrentType, PageFacts DEF KeyInv
<1>3. PICK s : s = [r EXCEPT !.again = FALSE]
  OBVIOUS
<1>4. Answers("sender", PublicKey(k), s, <<Reply>>, <<>>)
  BY <1>1, <1>3 DEF SenderKnows
<1>5. /\ Speaks("sender", s, <<Reply>>, <<>>)
      /\ seen' = [seen EXCEPT !["sender"] = seen["sender"] \cup ({s.shown} \ {NoPair})]
      /\ agreed' = agreed
  BY <1>2, <1>4, ReplyFacts, AnswersSpeaks
<1>6. /\ s \in Sessions /\ s.kp = r.kp /\ s.shared = r.shared /\ s.peer = r.peer
      /\ s.shown = r.shown /\ s.we = r.we /\ s.they = r.they
  BY <1>2, <1>3 DEF Sessions
<1>7. AgreesSeen("sender")
  BY <1>2, <1>5, SameAgreed
<1>8. KeyInv' /\ Current' = Current
  BY <1>1, <1>2, <1>5, <1>6, <1>7, ReplyFacts, SameSession
<1> QED
  BY <1>1, <1>2, <1>5, <1>6, <1>8, ReplyFacts, SpeaksKept DEF FlagInv, FlagsConfirmed, Verified

\* A session without its flags.
LEMMA FreshFacts ==
  ASSUME NEW k \in Keys, NEW shown \in Pairs \cup {NoPair}
  PROVE  /\ Fresh(k, shown) \in Sessions
         /\ Fresh(k, shown).kp = k /\ Fresh(k, shown).shown = shown
         /\ Fresh(k, shown).shared = NoPair /\ Fresh(k, shown).peer = NoKey
         /\ ~Fresh(k, shown).we /\ ~Fresh(k, shown).they
<1>1. MaxResends \in 0 .. MaxResends
  BY HandshakeAssumption
<1> QED
  BY <1>1 DEF Fresh, Sessions

\* A key that is not the cached one: had the code of the present keys been
\* displayed, the peer would be cached with it.
LEMMA SenderRefusesKept ==
  ASSUME KeyInv, NEW k \in Keys, SenderRefuses(k)
  PROVE  Kept
<1>1. PICK r : r = page["sender"]
  OBVIOUS
<1>2. Types /\ "sender" \in Pages /\ r \in Sessions /\ r.shared # NoPair /\ r.peer # k
      /\ r.kp \in Keys /\ r.shown \in Pairs \cup {NoPair} /\ r.pending \in BOOLEAN
  BY <1>1, CurrentType, PageFacts DEF KeyInv, SenderRefuses, Sessions
<1>3. PICK s : s = IF r.again THEN [Fresh(r.kp, r.shown) EXCEPT !.pending = r.pending] ELSE r
  OBVIOUS
<1>4. Answers("sender", PublicKey(k), s, <<>>, <<>>)
  BY <1>1, <1>3 DEF SenderRefuses
<1>5. /\ Speaks("sender", s, <<>>, <<>>)
      /\ PublicKey(k) \in ToSet(queue["sender"]) /\ wire["sender"] = "on"
      /\ seen' = [seen EXCEPT !["sender"] = seen["sender"] \cup ({s.shown} \ {NoPair})]
      /\ agreed' = agreed
  BY <1>2, <1>4, ReplyFacts, AnswersSpeaks
<1>6. k = page[Other("sender")].kp
  BY <1>2, <1>5, MessageFacts, PairFacts DEF KeyInv, KeysAreCurrent
<1>7. AgreesSeen("sender")
  BY <1>2, <1>5, SameAgreed
<1>8. CASE s = r
  <2>1. KeyInv' /\ Current' = Current
    BY <1>1, <1>2, <1>5, <1>7, <1>8, ReplyFacts, SameSession
  <2> QED
    BY <1>1, <1>2, <1>5, <1>8, <2>1, ReplyFacts, SpeaksKept DEF FlagInv, FlagsConfirmed, Verified
<1>9. CASE r.again /\ s = [Fresh(r.kp, r.shown) EXCEPT !.pending = r.pending]
  <2>1. /\ s \in Sessions /\ s.kp = r.kp /\ s.shown = r.shown
        /\ s.shared = NoPair /\ s.peer = NoKey /\ ~s.we /\ ~s.they
    BY <1>2, <1>9, FreshFacts DEF Sessions
  <2>2. s.shown \in seen["sender"] \cup {NoPair}
    BY <1>1, <1>2, <2>1 DEF KeyInv, ShownIsSeen
  <2>3. SeesCurrent("sender", s) /\ s.shown \in seen'["sender"] \cup {NoPair}
    BY <1>2, <1>5, <2>2 DEF SeesCurrent, Types
  <2>4. Current \notin seen["sender"]
    <3> SUFFICES ASSUME Current \in seen["sender"] PROVE FALSE
      OBVIOUS
    <3>1. r.shared = Current
      BY <1>1, <1>2, <1>5 DEF KeyInv, SeenIsShared
    <3>2. r.shared = Derived("sender", r.peer) /\ r.peer \in Keys
      BY <1>1, <1>2, SessionFacts
    <3>3. Current[Other("sender")] = r.peer
      BY <1>2, <3>1, <3>2, PageFacts DEF Derived
    <3> QED
      BY <1>2, <1>6, <3>3, CurrentType, PageFacts
  <2>5. Current \notin seen'["sender"]
    BY <1>2, <1>5, <2>2, <2>4, CurrentType, PairFacts DEF Types
  <2>6. WithPeer("sender", s)
    BY <2>1 DEF WithPeer
  <2>7. KeyInv' /\ Current' = Current
    BY <1>1, <1>2, <1>5, <1>7, <2>1, <2>3, <2>5, <2>6, ReplyFacts, SpeaksSound
  <2> QED
    BY <1>1, <1>2, <1>5, <1>6, <2>1, <2>7, ReplyFacts, SpeaksKept
<1> QED
  BY <1>3, <1>8, <1>9

\* A key that is the cached one changes nothing; another one begins a session
\* without flags.
LEMMA ReceiverDerivesKept ==
  ASSUME KeyInv, NEW k \in Keys, ReceiverDerives(k)
  PROVE  Kept
<1>1. PICK r : r = page["receiver"]
  OBVIOUS
<1>2. Types /\ "receiver" \in Pages /\ r \in Sessions
  BY <1>1, CurrentType, PageFacts DEF KeyInv
<1>3. PICK q : q = [r EXCEPT !.resends = MaxResends]
  OBVIOUS
<1>4. PICK s : s = IF ReceiverKnows(q, k) THEN [q EXCEPT !.again = FALSE]
                   ELSE Derive("receiver",
                               [q EXCEPT !.we = FALSE, !.they = FALSE, !.opened = FALSE,
                                         !.again = @ /\ q.shared = NoPair], k)
  OBVIOUS
<1>5. Answers("receiver", SenderPublicKey(k), s, <<>>, <<>>)
  BY <1>1, <1>3, <1>4 DEF ReceiverDerives
<1>6. /\ Speaks("receiver", s, <<>>, <<>>)
      /\ SenderPublicKey(k) \in ToSet(queue["receiver"]) /\ wire["receiver"] = "on"
      /\ seen' = [seen EXCEPT !["receiver"] = seen["receiver"] \cup ({s.shown} \ {NoPair})]
      /\ agreed' = agreed
  BY <1>2, <1>5, ReplyFacts, AnswersSpeaks
<1>7. k = page[Other("receiver")].kp
  BY <1>2, <1>6, MessageFacts, PairFacts DEF KeyInv, KeysAreCurrent
<1>8. AgreesSeen("receiver")
  BY <1>2, <1>6, SameAgreed
<1>9. /\ q \in Sessions /\ q.kp = r.kp /\ q.shared = r.shared /\ q.peer = r.peer
      /\ q.shown = r.shown /\ q.we = r.we /\ q.they = r.they
  <2>1. MaxResends \in 0 .. MaxResends
    BY HandshakeAssumption
  <2> QED
    BY <1>2, <1>3, <2>1 DEF Sessions
<1>10. CASE ReceiverKnows(q, k)
  <2>1. s = [q EXCEPT !.again = FALSE]
    BY <1>4, <1>10
  <2>2. /\ s \in Sessions /\ s.kp = r.kp /\ s.shared = r.shared /\ s.peer = r.peer
        /\ s.shown = r.shown /\ s.we = r.we /\ s.they = r.they
    BY <1>9, <2>1 DEF Sessions
  <2>3. KeyInv' /\ Current' = Current
    BY <1>1, <1>2, <1>6, <1>8, <2>2, ReplyFacts, SameSession
  <2> QED
    BY <1>1, <1>2, <1>6, <2>2, <2>3, ReplyFacts, SpeaksKept DEF FlagInv, FlagsConfirmed, Verified
<1>11. CASE ~ReceiverKnows(q, k)
  <2>1. PICK a : a = (q.again /\ q.shared = NoPair)
    OBVIOUS
  <2>2. a \in BOOLEAN
    BY <2>1
  <2>3. PICK u : u = [q EXCEPT !.we = FALSE, !.they = FALSE, !.opened = FALSE, !.again = a]
    OBVIOUS
  <2>4. u \in Sessions /\ u.kp = r.kp /\ ~u.we /\ ~u.they
    BY <1>9, <2>2, <2>3 DEF Sessions
  <2>5. s = Derive("receiver", u, k)
    BY <1>4, <1>9, <1>11, <2>1, <2>3 DEF Sessions
  <2>6. /\ s \in Sessions /\ s.kp = r.kp /\ s.shared = Current /\ s.shown = Current
        /\ WithPeer("receiver", s) /\ ~s.we /\ ~s.they
    BY <1>1, <1>2, <1>7, <2>4, <2>5, DeriveFacts
  <2>7. SeesCurrent("receiver", s) /\ s.shown \in seen'["receiver"] \cup {NoPair}
    BY <1>2, <1>6, <2>6 DEF SeesCurrent, Types
  <2>8. KeyInv' /\ Current' = Current
    BY <1>1, <1>2, <1>6, <1>8, <2>6, <2>7, ReplyFacts, SpeaksSound
  <2>9. ~(Verified(page["receiver"]) /\ page[Other("receiver")].kp = page["receiver"].peer)
    <3> SUFFICES ASSUME Verified(r), r.peer = k PROVE FALSE
      BY <1>1, <1>7
    <3>1. q.shared # NoPair /\ q.peer # NoKey /\ q.peer = k
      BY <1>9, PairFacts DEF Verified
    <3> QED
      BY <1>11, <3>1 DEF ReceiverKnows
  <2> QED
    BY <1>2, <1>6, <2>6, <2>8, <2>9, ReplyFacts, SpeaksKept
<1> QED
  BY <1>10, <1>11

-----------------------------------------------------------------------------
(* Verification.                                                           *)

LEMMA OpensFacts ==
  ASSUME NEW p \in Pages, NEW s \in Sessions
  PROVE  /\ Opens(p, s) \in Sessions
         /\ Opens(p, s).kp = s.kp /\ Opens(p, s).shared = s.shared
         /\ Opens(p, s).peer = s.peer /\ Opens(p, s).shown = s.shown
         /\ Opens(p, s).we = s.we /\ Opens(p, s).they = s.they
<1>1. PICK a : a = (s.opened \/ (Verified(s) /\ (p = "receiver" \/ s.pending)))
  OBVIOUS
<1>2. PICK b : b = (s.pending /\ ~Verified(s))
  OBVIOUS
<1>3. a \in BOOLEAN /\ b \in BOOLEAN
  BY <1>1, <1>2
<1>4. Opens(p, s) = [s EXCEPT !.opened = a, !.pending = b]
  BY <1>1, <1>2 DEF Opens, Sessions
<1> QED
  BY <1>3, <1>4 DEF Sessions

LEMMA AnnounceFacts ==
  ASSUME NEW p \in Pages, NEW s
  PROVE  /\ Announces(p, s) \in Seq(Messages) /\ <<Confirmed>> \o Announces(p, s) \in Seq(Messages)
         /\ ToSet(Announces(p, s)) \subseteq {Ready}
         /\ ToSet(<<Confirmed>> \o Announces(p, s)) \subseteq {Confirmed, Ready}
<1>1. <<>> \in Seq(Messages) /\ <<Ready>> \in Seq(Messages) /\ <<Confirmed>> \in Seq(Messages)
  BY MessageFacts
<1>2. ToSet(<<>>) = {} /\ ToSet(<<Ready>>) = {Ready} /\ ToSet(<<Confirmed>>) = {Confirmed}
  BY SetOfFew
<1>3. PICK a : a = Announces(p, s)
  OBVIOUS
<1>4. a \in Seq(Messages) /\ ToSet(a) \subseteq {Ready}
  BY <1>1, <1>2, <1>3 DEF Announces
<1>5. <<Confirmed>> \o a \in Seq(Messages)
      /\ ToSet(<<Confirmed>> \o a) = ToSet(<<Confirmed>>) \cup ToSet(a)
  BY <1>1, <1>4, SetOfConcat
<1> QED
  BY <1>2, <1>3, <1>4, <1>5

LEMMA ConfirmKept ==
  ASSUME KeyInv, NEW p \in Pages, Confirm(p)
  PROVE  Kept
<1>1. PICK r : r = page[p]
  OBVIOUS
<1>2. Types /\ r \in Sessions
  BY <1>1, CurrentType DEF KeyInv
<1>3. PICK u : u = [r EXCEPT !.we = TRUE, !.shown = NoPair]
  OBVIOUS
<1>4. /\ u \in Sessions /\ u.kp = r.kp /\ u.shared = r.shared /\ u.peer = r.peer
      /\ u.shown = NoPair /\ u.we /\ u.they = r.they
  BY <1>2, <1>3 DEF Sessions
<1>5. PICK s : s = Opens(p, u)
  OBVIOUS
<1>6. /\ s \in Sessions /\ s.kp = r.kp /\ s.shared = r.shared /\ s.peer = r.peer
      /\ s.shown = NoPair /\ s.we /\ s.they = r.they
  BY <1>4, <1>5, OpensFacts
<1>7. PICK told : told = <<Confirmed>> \o Announces(p, u)
  OBVIOUS
<1>8. told \in Seq(Messages) /\ ToSet(told) \subseteq {Confirmed, Ready}
      /\ <<>> \in Seq(Messages) /\ ToSet(<<>>) = {}
  BY <1>2, <1>7, AnnounceFacts, ReplyFacts
<1>9. /\ Says(p, s, <<>>, told) /\ seen' = seen
      /\ r.shown # NoPair /\ r.shown \in seen[Other(p)]
      /\ Hasty \/ r.shown = Current
      /\ agreed' = [agreed EXCEPT ![p] = agreed[p] \cup {r.shown}]
  BY <1>1, <1>3, <1>5, <1>7 DEF Confirm, Current
<1>10. Speaks(p, s, <<>>, told)
  BY <1>2, <1>8, <1>9, SaysSpeaks
<1>11. r.shown \in seen[p]
  BY <1>1, <1>9 DEF KeyInv, ShownIsSeen
<1>12. /\ agreed' \in [Pages -> SUBSET Pairs] /\ r.shown \in agreed'[p]
       /\ \A q \in Pages : agreed[q] \subseteq agreed'[q]
       /\ \A q \in Pages : \A x \in agreed'[q] : x \in agreed[q] \/ x = r.shown
  <2>1. r.shown \in Pairs
    BY <1>2, <1>11 DEF Types
  <2> QED
    BY <1>2, <1>9, <2>1 DEF Types
<1>13. AgreesSeen(p)
  BY <1>9, <1>11, <1>12, PageFacts DEF AgreesSeen
<1>14. KeyInv' /\ Current' = Current
  BY <1>1, <1>6, <1>8, <1>9, <1>10, <1>13, MessageFacts, SameSession
<1>15. ~Hasty => Current \in agreed'[p] /\ r.shared = Current /\ Current # NoPair
  <2> SUFFICES ASSUME ~Hasty PROVE Current \in agreed'[p] /\ r.shared = Current /\ Current # NoPair
    OBVIOUS
  <2>1. r.shown = Current
    BY <1>9
  <2>2. wire[p] # "away"
    BY <1>1, <1>9 DEF KeyInv, AwayIsFresh
  <2> QED
    BY <1>1, <1>9, <1>11, <1>12, <2>1, <2>2 DEF KeyInv, SeenIsShared
<1>16. FlagInv /\ s.they => s.shared # NoPair /\ s.shared \in agreed'[Other(p)]
  BY <1>1, <1>6, <1>12, PageFacts DEF FlagInv, FlagsConfirmed
<1>17. Verified(r) => Verified(s)
  BY <1>6 DEF Verified
<1> QED
  BY <1>1, <1>6, <1>8, <1>10, <1>12, <1>14, <1>15, <1>16, <1>17, SpeaksKept

LEMMA PeerConfirmedKept ==
  ASSUME KeyInv, NEW p \in Pages, PeerConfirmed(p)
  PROVE  Kept
<1>1. PICK r : r = page[p]
  OBVIOUS
<1>2. Types /\ r \in Sessions
  BY <1>1, CurrentType DEF KeyInv
<1>3. PICK u : u = [r EXCEPT !.they = TRUE]
  OBVIOUS
<1>4. /\ u \in Sessions /\ u.kp = r.kp /\ u.shared = r.shared /\ u.peer = r.peer
      /\ u.shown = r.shown /\ u.we = r.we /\ u.they
  BY <1>2, <1>3 DEF Sessions
<1>5. PICK s : s = Opens(p, u)
  OBVIOUS
<1>6. /\ s \in Sessions /\ s.kp = r.kp /\ s.shared = r.shared /\ s.peer = r.peer
      /\ s.shown = r.shown /\ s.we = r.we /\ s.they
  BY <1>4, <1>5, OpensFacts
<1>7. PICK told : told = Announces(p, u)
  OBVIOUS
<1>8. told \in Seq(Messages) /\ ToSet(told) \subseteq {Ready}
      /\ <<>> \in Seq(Messages) /\ ToSet(<<>>) = {}
  BY <1>2, <1>7, AnnounceFacts, ReplyFacts
<1>9. Answers(p, Confirmed, s, <<>>, told)
  BY <1>1, <1>3, <1>5, <1>7 DEF PeerConfirmed
<1>10. /\ Speaks(p, s, <<>>, told)
       /\ Confirmed \in ToSet(queue[p]) /\ wire[p] = "on"
       /\ seen' = [seen EXCEPT ![p] = seen[p] \cup ({s.shown} \ {NoPair})]
       /\ agreed' = agreed
  BY <1>2, <1>8, <1>9, AnswersSpeaks
<1>11. AgreesSeen(p)
  BY <1>10, SameAgreed
<1>12. KeyInv' /\ Current' = Current
  BY <1>1, <1>6, <1>8, <1>10, <1>11, MessageFacts, SameSession
<1>13. FlagInv => r.shared = Current /\ Current # NoPair /\ Current \in agreed[Other(p)]
  <2> SUFFICES ASSUME FlagInv
               PROVE  r.shared = Current /\ Current # NoPair /\ Current \in agreed[Other(p)]
    OBVIOUS
  <2>1. Current \in agreed[Other(p)]
    BY <1>10 DEF FlagInv, ConfirmedIsCurrent
  <2>2. Current \in seen[p]
    BY <2>1, PageFacts DEF KeyInv, AgreedIsSeen
  <2> QED
    BY <1>1, <1>2, <1>10, <2>1, <2>2, CurrentType, PairFacts DEF KeyInv, SeenIsShared
<1>14. FlagInv /\ s.we => s.shared # NoPair /\ s.shared \in agreed[p]
  BY <1>1, <1>6 DEF FlagInv, FlagsConfirmed
<1>15. Verified(r) => Verified(s)
  BY <1>6 DEF Verified
<1> QED
  BY <1>1, <1>6, <1>8, <1>10, <1>12, <1>13, <1>14, <1>15, MessageFacts, SpeaksKept

\* The other messages of the verification leave session and flags alone.
LEMMA SameFlags ==
  ASSUME KeyInv, NEW p \in Pages, NEW s \in Sessions,
         s.kp = page[p].kp, s.shared = page[p].shared, s.peer = page[p].peer,
         s.shown = page[p].shown, s.we = page[p].we, s.they = page[p].they,
         NEW once \in Seq(Messages), NEW insist \in Seq(Messages),
         ToSet(once) \cup ToSet(insist) \subseteq {Denied, Ready},
         Speaks(p, s, once, insist), agreed' = agreed,
         \/ seen' = seen
         \/ seen' = [seen EXCEPT ![p] = seen[p] \cup ({s.shown} \ {NoPair})]
  PROVE  Kept
<1>1. \A m \in ToSet(once) \cup ToSet(insist) : m.key = NoKey /\ m # Confirmed
  BY MessageFacts
<1>2. AgreesSeen(p)
  BY SameAgreed
<1>3. KeyInv' /\ Current' = Current
  BY <1>1, <1>2, SameSession
<1>4. FlagInv => /\ s.we => s.shared # NoPair /\ s.shared \in agreed'[p]
                 /\ s.they => s.shared # NoPair /\ s.shared \in agreed'[Other(p)]
  BY DEF FlagInv, FlagsConfirmed
<1>5. Verified(page[p]) => Verified(s)
  BY DEF Verified
<1> QED
  BY <1>1, <1>3, <1>4, <1>5, SpeaksKept

LEMMA ControlKept ==
  ASSUME KeyInv, GetsReady \/ \E p \in Pages : Deny(p) \/ PeerDenied(p)
  PROVE  Kept
<1>0. Types /\ \A p \in Pages : page[p] \in Sessions
  BY CurrentType DEF KeyInv
<1>1. /\ <<>> \in Seq(Messages) /\ <<Denied>> \in Seq(Messages)
      /\ ToSet(<<>>) = {} /\ ToSet(<<Denied>>) = {Denied}
  BY <1>0, ReplyFacts, MessageFacts, SetOfFew
<1>2. CASE GetsReady
  <2>a. page["sender"] \in Sessions
    BY <1>0, PageFacts
  <2>1. PICK u : u = [page["sender"] EXCEPT !.pending = TRUE]
    OBVIOUS
  <2>2. /\ u \in Sessions /\ u.kp = page["sender"].kp /\ u.shared = page["sender"].shared
        /\ u.peer = page["sender"].peer /\ u.shown = page["sender"].shown
        /\ u.we = page["sender"].we /\ u.they = page["sender"].they
    BY <2>1, <2>a DEF Sessions
  <2>3. PICK s : s = Opens("sender", u)
    OBVIOUS
  <2>4. /\ s \in Sessions /\ s.kp = page["sender"].kp /\ s.shared = page["sender"].shared
        /\ s.peer = page["sender"].peer /\ s.shown = page["sender"].shown
        /\ s.we = page["sender"].we /\ s.they = page["sender"].they
    BY <2>2, <2>3, OpensFacts, PageFacts
  <2>5. Answers("sender", Ready, s, <<>>, <<>>)
    BY <1>2, <2>1, <2>3 DEF GetsReady
  <2>6. /\ Speaks("sender", s, <<>>, <<>>) /\ agreed' = agreed
        /\ seen' = [seen EXCEPT !["sender"] = seen["sender"] \cup ({s.shown} \ {NoPair})]
    BY <1>0, <1>1, <2>5, AnswersSpeaks, PageFacts
  <2> QED
    BY <1>1, <2>4, <2>6, SameFlags, PageFacts
<1>3. ASSUME NEW p \in Pages, Deny(p) PROVE Kept
  <2>1. CASE p = "receiver"
    <3>1. PICK s : s = [page[p] EXCEPT !.leaving = TRUE]
      OBVIOUS
    <3>2. /\ s \in Sessions /\ s.kp = page[p].kp /\ s.shared = page[p].shared
          /\ s.peer = page[p].peer /\ s.shown = page[p].shown
          /\ s.we = page[p].we /\ s.they = page[p].they
      BY <1>0, <3>1 DEF Sessions
    <3>3. Says(p, s, <<Denied>>, <<>>) /\ agreed' = agreed /\ seen' = seen
      BY <1>3, <2>1, <3>1 DEF Deny
    <3>4. Speaks(p, s, <<Denied>>, <<>>)
      BY <1>0, <1>1, <3>3, SaysSpeaks
    <3> QED
      BY <1>1, <3>2, <3>3, <3>4, SameFlags
  <2>2. CASE p # "receiver"
    <3>1. Says(p, page[p], <<>>, <<Denied>>) /\ agreed' = agreed /\ seen' = seen
      BY <1>3, <2>2 DEF Deny
    <3>2. Speaks(p, page[p], <<>>, <<Denied>>)
      BY <1>0, <1>1, <3>1, SaysSpeaks
    <3> QED
      BY <1>0, <1>1, <3>1, <3>2, SameFlags
  <2> QED
    BY <2>1, <2>2
<1>4. ASSUME NEW p \in Pages, PeerDenied(p) PROVE Kept
  <2>1. PICK b : b = (p = "receiver")
    OBVIOUS
  <2>2. b \in BOOLEAN
    BY <2>1
  <2>3. PICK s : s = [page[p] EXCEPT !.leaving = b]
    OBVIOUS
  <2>4. /\ s \in Sessions /\ s.kp = page[p].kp /\ s.shared = page[p].shared
        /\ s.peer = page[p].peer /\ s.shown = page[p].shown
        /\ s.we = page[p].we /\ s.they = page[p].they
    BY <1>0, <2>2, <2>3 DEF Sessions
  <2>5. Answers(p, Denied, s, <<>>, <<>>)
    BY <1>4, <2>1, <2>3 DEF PeerDenied
  <2>6. /\ Speaks(p, s, <<>>, <<>>) /\ agreed' = agreed
        /\ seen' = [seen EXCEPT ![p] = seen[p] \cup ({s.shown} \ {NoPair})]
    BY <1>0, <1>1, <2>5, AnswersSpeaks
  <2> QED
    BY <1>1, <2>4, <2>6, SameFlags
<1> QED
  BY <1>2, <1>3, <1>4

-----------------------------------------------------------------------------
(* Connections that break and are made again.                              *)

\* The sessions of both pages stay as they are.
SameSessions ==
  /\ page' \in [Pages -> Sessions]
  /\ \A q \in Pages : /\ page'[q].kp = page[q].kp /\ page'[q].shared = page[q].shared
                      /\ page'[q].peer = page[q].peer /\ page'[q].shown = page[q].shown
                      /\ page'[q].we = page[q].we /\ page'[q].they = page[q].they
  /\ seen' = seen /\ agreed' = agreed

LEMMA WireKept ==
  ASSUME KeyInv, SameSessions,
         wire' \in [Pages -> {"new", "on", "lost", "away"}],
         \A q \in Pages : wire'[q] = "away" <=> wire[q] = "away",
         link' => \A q \in Pages : wire'[q] = "on",
         queue' \in [Pages -> Seq(Messages)],
         retry' \in [Pages -> SUBSET Messages],
         \A q \in Pages : retry'[q] \subseteq retry[q],
         \A q \in Pages : \A m \in ToSet(queue'[q]) : m.key # NoKey => m.key = page[Other(q)].kp,
         ~Hasty => \A q \in Pages :
           /\ Confirmed \in ToSet(queue'[q]) =>
                Confirmed \in ToSet(queue[q]) \/ (Confirmed \in retry[Other(q)] /\ Settled)
           /\ Confirmed \in retry'[q] /\ Settled' => Settled
  PROVE  Kept
<1>1. Types /\ KeysAreCurrent /\ LinkedAreOn /\ AwayIsFresh
      /\ SeenIsPast /\ SeenInOrder /\ ShownIsSeen /\ AgreedIsSeen /\ SeenIsShared
  BY DEF KeyInv
<1>2. Current' = Current
  BY DEF SameSessions, Current
<1>3. Types'
  <2>1. ASSUME NEW q \in Pages PROVE WithPeer(q, page'[q])
    <3>1. WithPeer(q, page[q])
      BY <1>1 DEF Types
    <3>2. page'[q].kp = page[q].kp /\ page'[q].shared = page[q].shared /\ page'[q].peer = page[q].peer
      BY DEF SameSessions
    <3> QED
      BY <3>1, <3>2 DEF WithPeer
  <2>2. seen' = seen /\ agreed' = agreed /\ page' \in [Pages -> Sessions]
    BY DEF SameSessions
  <2> QED
    BY <1>1, <2>1, <2>2 DEF Types, WithPeer
<1>a. KeysAreCurrent'
  <2>1. \A q \in Pages : page'[q].kp = page[q].kp
    BY DEF SameSessions
  <2> QED
    BY <1>1, <2>1, PageFacts DEF KeysAreCurrent
<1>b. AwayIsFresh'
  <2>1. \A q \in Pages : page'[q].shared = page[q].shared /\ page'[q].shown = page[q].shown
    BY DEF SameSessions
  <2> QED
    BY <1>1, <2>1 DEF AwayIsFresh
<1>4. KeysAreCurrent' /\ LinkedAreOn' /\ AwayIsFresh'
  BY <1>a, <1>b DEF LinkedAreOn
<1>5. SeenIsPast' /\ SeenInOrder' /\ ShownIsSeen' /\ AgreedIsSeen'
  BY <1>1, <1>2 DEF SeenIsPast, SeenInOrder, ShownIsSeen, AgreedIsSeen, SameSessions, Below
<1>6. SeenIsShared'
  BY <1>1, <1>2 DEF SeenIsShared, SameSessions
<1>7. FlagInv /\ ~Hasty => FlagInv'
  BY <1>2, PageFacts DEF FlagInv, FlagsConfirmed, ConfirmedIsCurrent, SameSessions
<1>8. \A q \in Pages : Stays(q)
  BY DEF Stays, Verified, SameSessions
<1> QED
  BY <1>3, <1>4, <1>5, <1>6, <1>7, <1>8 DEF Kept, KeyInv

\* Pages that do not change at all.
LEMMA UntouchedSessions ==
  ASSUME Types, page' = page, seen' = seen, agreed' = agreed
  PROVE  SameSessions
  BY DEF Types, SameSessions

LEMMA SilentFacts ==
  /\ Silent \in [Pages -> Seq(Messages)]
  /\ \A q \in Pages : ToSet(Silent[q]) = {}
<1>1. <<>> \in Seq(Messages) /\ ToSet(<<>>) = {}
  BY SetOfFew
<1> QED
  BY <1>1 DEF Silent

LEMMA RetryKept ==
  ASSUME KeyInv, NEW p \in Pages, NEW m \in retry[p], RetrySends(p, m) \/ RetryGivesUp(p, m)
  PROVE  Kept
<1>1. Types /\ KeysAreCurrent /\ LinkedAreOn
  BY DEF KeyInv
<1>2. SameSessions
  BY <1>1, UntouchedSessions DEF RetrySends, RetryGivesUp
<1>3. wire' = wire /\ link' = link /\ retry' = [retry EXCEPT ![p] = retry[p] \ {m}]
  BY DEF RetrySends, RetryGivesUp
<1>4. retry' \in [Pages -> SUBSET Messages] /\ \A q \in Pages : retry'[q] \subseteq retry[q]
  BY <1>1, <1>3 DEF Types
<1>5. m \in Messages /\ m.key = NoKey /\ Other(p) \in Pages /\ Other(Other(p)) = p
  BY <1>1, PageFacts DEF Types, KeysAreCurrent
<1>6. \/ queue' = queue
      \/ link /\ queue' = [queue EXCEPT ![Other(p)] = Append(queue[Other(p)], m)]
  BY DEF RetrySends, RetryGivesUp
<1>7. queue \in [Pages -> Seq(Messages)]
  BY <1>1 DEF Types
<1>8. /\ Append(queue[Other(p)], m) \in Seq(Messages)
      /\ ToSet(Append(queue[Other(p)], m)) = ToSet(queue[Other(p)]) \cup {m}
  BY <1>5, <1>7, SetOfAppend
<1>9. queue' \in [Pages -> Seq(Messages)]
  BY <1>5, <1>6, <1>7, <1>8
<1>10. \A q \in Pages : \A n \in ToSet(queue'[q]) :
         n \in ToSet(queue[q]) \/ (link /\ q = Other(p) /\ n = m)
  <2>1. CASE queue' = queue
    BY <2>1
  <2>2. CASE link /\ queue' = [queue EXCEPT ![Other(p)] = Append(queue[Other(p)], m)]
    <3>1. /\ queue'[Other(p)] = Append(queue[Other(p)], m)
          /\ \A q \in Pages : q # Other(p) => queue'[q] = queue[q]
      BY <1>5, <1>7, <2>2
    <3>2. \A n \in ToSet(queue'[Other(p)]) : n \in ToSet(queue[Other(p)]) \/ n = m
      BY <1>8, <3>1
    <3> QED
      BY <2>2, <3>1, <3>2
  <2> QED
    BY <1>6, <2>1, <2>2
<1>11. link => Settled
  BY <1>1 DEF LinkedAreOn, Settled
<1>12. Settled' = Settled
  BY <1>3 DEF Settled
<1>13. \A q \in Pages : Confirmed \in ToSet(queue'[q]) =>
         Confirmed \in ToSet(queue[q]) \/ (Confirmed \in retry[Other(q)] /\ Settled)
  BY <1>5, <1>10, <1>11
<1>14. \A q \in Pages : \A n \in ToSet(queue'[q]) : n.key # NoKey => n.key = page[Other(q)].kp
  BY <1>1, <1>5, <1>10 DEF KeysAreCurrent
<1>15. /\ wire' \in [Pages -> {"new", "on", "lost", "away"}]
       /\ link' => \A q \in Pages : wire'[q] = "on"
  BY <1>1, <1>3 DEF Types, LinkedAreOn
<1>16. \A q \in Pages : wire'[q] = "away" <=> wire[q] = "away"
  BY <1>3
<1>17. ~Hasty => \A q \in Pages :
         /\ Confirmed \in ToSet(queue'[q]) =>
              Confirmed \in ToSet(queue[q]) \/ (Confirmed \in retry[Other(q)] /\ Settled)
         /\ Confirmed \in retry'[q] /\ Settled' => Settled
  BY <1>12, <1>13
<1> QED
  BY <1>2, <1>4, <1>9, <1>14, <1>15, <1>16, <1>17, WireKept

\* With "new" in reach of Connect no retry of the time before is left.
LEMMA ConnectKept ==
  ASSUME KeyInv, Connect
  PROVE  Kept
<1>1. Types /\ KeysAreCurrent /\ "receiver" \in Pages /\ "sender" \in Pages
      /\ Other("sender") = "receiver"
  BY PageFacts DEF KeyInv
<1>2. PICK n : n = IF wire["receiver"] = "new" THEN 0 ELSE page["receiver"].resends
  OBVIOUS
<1>3. PICK r : r = page["receiver"]
  OBVIOUS
<1>4. page' = [page EXCEPT !["receiver"] = [r EXCEPT !.resends = n]]
  BY <1>2, <1>3 DEF Connect
<1>5. r \in Sessions /\ page \in [Pages -> Sessions] /\ r.kp \in Keys
  BY <1>1, <1>3, CurrentType DEF Types
<1>6. n \in 0 .. MaxResends
  BY <1>2, <1>3, <1>5, HandshakeAssumption DEF Sessions
<1>7. PICK s : s = [r EXCEPT !.resends = n]
  OBVIOUS
<1>8. /\ s \in Sessions /\ s.kp = r.kp /\ s.shared = r.shared /\ s.peer = r.peer
      /\ s.shown = r.shown /\ s.we = r.we /\ s.they = r.they
  BY <1>5, <1>6, <1>7 DEF Sessions
<1>9. page' \in [Pages -> Sessions] /\ page'["receiver"] = s
      /\ \A q \in Pages : q # "receiver" => page'[q] = page[q]
  BY <1>1, <1>4, <1>5, <1>7, <1>8
<1>10. SameSessions
  BY <1>3, <1>8, <1>9 DEF Connect, SameSessions
<1>11. /\ wire' = [q \in Pages |-> "on"] /\ retry' = retry
       /\ queue' = [queue EXCEPT !["sender"] = <<PublicKey(r.kp)>>]
       /\ \A q \in Pages : wire[q] \in {"new", "lost"}
       /\ Hasty \/ "new" \notin Range(wire) \/ \A q \in Pages : retry[q] = {}
  BY <1>3 DEF Connect
<1>12. <<PublicKey(r.kp)>> \in Seq(Messages) /\ ToSet(<<PublicKey(r.kp)>>) = {PublicKey(r.kp)}
       /\ PublicKey(r.kp).key = r.kp /\ PublicKey(r.kp) # Confirmed
  BY <1>5, MessageFacts, SetOfFew
<1>13. queue' \in [Pages -> Seq(Messages)] /\ queue'["sender"] = <<PublicKey(r.kp)>>
       /\ \A q \in Pages : q # "sender" => queue'[q] = queue[q]
  BY <1>1, <1>11, <1>12 DEF Types
<1>14. ASSUME NEW q \in Pages, NEW m \in ToSet(queue'[q]), m.key # NoKey
       PROVE  m.key = page[Other(q)].kp
  <2>1. CASE q = "sender"
    BY <1>1, <1>3, <1>12, <1>13, <1>14, <2>1
  <2>2. CASE q # "sender"
    BY <1>1, <1>13, <1>14, <2>2 DEF KeysAreCurrent
  <2> QED
    BY <2>1, <2>2
<1>15. \A q \in Pages : Confirmed \in ToSet(queue'[q]) => Confirmed \in ToSet(queue[q])
  BY <1>12, <1>13
<1>16. "new" \notin Range(wire) => Settled
  <2>1. DOMAIN wire = Pages
    BY <1>1 DEF Types
  <2> QED
    BY <1>11, <2>1 DEF Range, Settled
<1>17. ~Hasty => \A q \in Pages : Confirmed \in retry'[q] => Settled
  BY <1>11, <1>16
<1>18. wire' \in [Pages -> {"new", "on", "lost", "away"}]
       /\ \A q \in Pages : wire'[q] = "on" /\ wire[q] # "away"
  BY <1>11
<1>19. retry' \in [Pages -> SUBSET Messages]
  BY <1>1, <1>11 DEF Types
<1> QED
  BY <1>10, <1>11, <1>13, <1>14, <1>15, <1>17, <1>18, <1>19, WireKept

LEMMA BreakKept ==
  ASSUME KeyInv, Drop \/ Rescan \/ \E p \in Pages : KeyIsLost(p)
  PROVE  Kept
<1>1. Types /\ KeysAreCurrent /\ LinkedAreOn /\ "sender" \in Pages
  BY PageFacts DEF KeyInv
<1>2. page' = page /\ seen' = seen /\ agreed' = agreed /\ retry' = retry
  BY DEF Drop, Rescan, KeyIsLost
<1>3. SameSessions
  BY <1>1, <1>2, UntouchedSessions
<1>4. /\ queue' \in [Pages -> Seq(Messages)]
      /\ \A q \in Pages : ToSet(queue'[q]) \subseteq ToSet(queue[q])
  <2>1. queue \in [Pages -> Seq(Messages)]
    BY <1>1 DEF Types
  <2>2. CASE queue' = Silent
    BY <2>2, SilentFacts
  <2>3. CASE \E p \in Pages : KeyIsLost(p)
    <3>1. PICK p \in Pages : queue[p] # <<>> /\ queue' = [queue EXCEPT ![p] = Tail(queue[p])]
      BY <2>3 DEF KeyIsLost
    <3>2. Tail(queue[p]) \in Seq(Messages) /\ ToSet(Tail(queue[p])) \subseteq ToSet(queue[p])
      BY <2>1, <3>1, SetOfTail
    <3> QED
      BY <2>1, <3>1, <3>2
  <2> QED
    BY <2>2, <2>3 DEF Drop, Rescan
<1>5. /\ wire' \in [Pages -> {"new", "on", "lost", "away"}]
      /\ \A q \in Pages : wire'[q] = "away" <=> wire[q] = "away"
      /\ link' => \A q \in Pages : wire'[q] = "on"
      /\ Settled' => Settled
  <2>1. CASE wire' = wire /\ (link' => link)
    BY <1>1, <2>1 DEF Types, LinkedAreOn, Settled
  <2>2. CASE Rescan
    <3>1. /\ wire["sender"] \in {"on", "lost"} /\ ~link'
          /\ wire' = [wire EXCEPT !["sender"] = "new"]
      BY <2>2 DEF Rescan
    <3>2. wire'["sender"] = "new" /\ \A q \in Pages : q # "sender" => wire'[q] = wire[q]
      BY <1>1, <3>1 DEF Types
    <3>3. ~Settled'
      BY <1>1, <3>2 DEF Settled
    <3> QED
      BY <1>1, <3>1, <3>2, <3>3 DEF Types
  <2> QED
    BY <2>1, <2>2 DEF Drop, KeyIsLost
<1>6. retry' \in [Pages -> SUBSET Messages]
  BY <1>1, <1>2 DEF Types
<1>7. \A q \in Pages : \A m \in ToSet(queue'[q]) : m.key # NoKey => m.key = page[Other(q)].kp
  BY <1>1, <1>4 DEF KeysAreCurrent
<1> QED
  BY <1>2, <1>3, <1>4, <1>5, <1>6, <1>7, WireKept

LEMMA NoticesKept ==
  ASSUME KeyInv, NEW p \in Pages, Notices(p)
  PROVE  Kept
<1>1. Types /\ KeysAreCurrent
  BY DEF KeyInv
<1>2. PICK s : s = [page[p] EXCEPT !.again = TRUE]
  OBVIOUS
<1>3. page[p] \in Sessions /\ page \in [Pages -> Sessions]
  BY <1>1, CurrentType DEF Types
<1>4. /\ s \in Sessions /\ s.kp = page[p].kp /\ s.shared = page[p].shared
      /\ s.peer = page[p].peer /\ s.shown = page[p].shown
      /\ s.we = page[p].we /\ s.they = page[p].they
  BY <1>2, <1>3 DEF Sessions
<1>5. page' = [page EXCEPT ![p] = s]
  BY <1>2 DEF Notices
<1>6. SameSessions
  <2>1. page' \in [Pages -> Sessions] /\ page'[p] = s
        /\ \A q \in Pages : q # p => page'[q] = page[q]
    BY <1>3, <1>4, <1>5
  <2> QED
    BY <1>4, <2>1 DEF Notices, SameSessions
<1>7. /\ wire[p] = "on" /\ ~link /\ wire' = [wire EXCEPT ![p] = "lost"]
      /\ link' = link /\ queue' = queue /\ retry' = retry
  BY DEF Notices
<1>8. wire' \in [Pages -> {"new", "on", "lost", "away"}] /\ wire'[p] = "lost"
      /\ \A q \in Pages : q # p => wire'[q] = wire[q]
  BY <1>1, <1>7 DEF Types
<1>9. Settled' => Settled
  BY <1>7, <1>8 DEF Settled
<1> QED
  BY <1>1, <1>6, <1>7, <1>8, <1>9, WireKept DEF Types, KeysAreCurrent

-----------------------------------------------------------------------------
(* A page that starts over or goes away.                                   *)

\* Page p becomes s without a session, its transport starts again or is gone
\* and takes every message along.
Clears(p, s) ==
  /\ s.shared = NoPair /\ s.peer = NoKey /\ ~s.we /\ ~s.they
  /\ page' = [page EXCEPT ![p] = s]
  /\ wire' \in [Pages -> {"new", "on", "lost", "away"}]
  /\ wire'[p] \in {"new", "away"}
  /\ \A q \in Pages : q # p => wire'[q] = wire[q]
  /\ link' = FALSE
  /\ queue' = Silent
  /\ retry' = [retry EXCEPT ![p] = {}]
  /\ seen' = seen /\ agreed' = agreed

LEMMA ClearsKept ==
  ASSUME KeyInv, NEW p \in Pages, NEW s \in Sessions, Clears(p, s),
         s.kp \in {page[p].kp, page[p].kp + 1},
         s.kp = page[p].kp => wire'[p] = "away",
         s.shown \in {page[p].shown, NoPair},
         wire'[p] = "away" => s.shown = NoPair
  PROVE  Kept
<1>1. /\ Types /\ KeysAreCurrent /\ LinkedAreOn /\ AwayIsFresh
      /\ SeenIsPast /\ SeenInOrder /\ ShownIsSeen /\ AgreedIsSeen /\ SeenIsShared
  BY DEF KeyInv
<1>2. /\ page' \in [Pages -> Sessions] /\ page'[p] = s
      /\ \A q \in Pages : q # p => page'[q] = page[q]
  BY <1>1 DEF Clears, Types
<1>3. /\ Current'[p] = s.kp
      /\ \A q \in Pages : q # p => Current'[q] = Current[q]
  BY <1>2 DEF Current
<1>4. \A q \in Pages : Current[q] \in Nat /\ page[q].kp = Current[q]
  BY <1>1, CurrentType, PairFacts
<1>5. /\ \A q \in Pages : queue'[q] = <<>>
      /\ retry' \in [Pages -> SUBSET Messages]
      /\ \A q \in Pages : retry'[q] \subseteq retry[q]
      /\ retry'[p] = {}
  BY <1>1 DEF Clears, Silent, Types
<1>6. Types'
  <2>1. WithPeer(p, s)
    BY DEF Clears, WithPeer
  <2>2. \A q \in Pages : WithPeer(q, page'[q])
    BY <1>1, <1>2, <2>1 DEF Types
  <2> QED
    BY <1>1, <1>2, <1>5, <2>2, SilentFacts DEF Types, Clears, WithPeer
<1>7. KeysAreCurrent'
  <2>1. \A q \in Pages : ToSet(queue'[q]) = {}
    BY <1>5, SetOfFew
  <2> QED
    BY <1>1, <1>5, <2>1 DEF KeysAreCurrent
<1>8. LinkedAreOn'
  BY DEF LinkedAreOn, Clears
<1>9. AwayIsFresh'
  BY <1>1, <1>2 DEF AwayIsFresh, Clears
<1>10. \A q \in Pages : \A x \in seen[q] :
         /\ x \in Pairs /\ (\A r \in Pages : x[r] \in Nat)
         /\ \A r \in Pages : x[r] <= Current[r]
  <2>1. ASSUME NEW q \in Pages, NEW x \in seen[q] PROVE x \in Pairs /\ Below(x, Current)
    BY <1>1 DEF SeenIsPast, Types
  <2> QED
    BY <2>1, PairFacts DEF Below
<1>11. SeenIsPast'
  <2>1. \A r \in Pages : Current[r] <= Current'[r]
    BY <1>3, <1>4
  <2>2. \A r \in Pages : Current'[r] \in Nat
    BY <1>3, <1>4
  <2>3. ASSUME NEW q \in Pages, NEW x \in seen[q], NEW r \in Pages PROVE x[r] <= Current'[r]
    <3>1. x[r] \in Nat /\ x[r] <= Current[r]
      BY <1>10
    <3>2. Current[r] \in Nat /\ Current'[r] \in Nat /\ Current[r] <= Current'[r]
      BY <1>4, <2>1, <2>2
    <3> QED
      BY <3>1, <3>2
  <2> QED
    BY <2>3 DEF SeenIsPast, Below, Clears
<1>12. SeenInOrder' /\ AgreedIsSeen'
  BY <1>1 DEF SeenInOrder, AgreedIsSeen, Below, Clears
<1>13. ShownIsSeen'
  BY <1>1, <1>2 DEF ShownIsSeen, Clears
<1>14. SeenIsShared'
  <2> SUFFICES ASSUME NEW q \in Pages, Current' \in seen[q], wire'[q] # "away"
               PROVE  page'[q].shared = Current'
    BY DEF SeenIsShared, Clears
  <2>1. Current'[p] <= Current[p]
    BY <1>10
  <2>2. s.kp = page[p].kp
    BY <1>3, <1>4, <2>1
  <2>3. Current' = Current
    BY <1>2, <2>2 DEF Current
  <2>4. wire'[p] = "away"
    BY <2>2
  <2>5. q # p
    BY <2>4
  <2>6. page'[q] = page[q] /\ wire[q] # "away"
    BY <1>2, <2>5 DEF Clears
  <2> QED
    BY <1>1, <2>3, <2>6 DEF SeenIsShared
<1>15. ~Settled'
  BY DEF Settled, Clears
<1>16. FlagInv => FlagInv'
  <2>1. \A q \in Pages : ToSet(queue'[q]) = {}
    BY <1>5, SetOfFew
  <2>2. ConfirmedIsCurrent'
    BY <1>15, <2>1 DEF ConfirmedIsCurrent
  <2>3. FlagsConfirmed => FlagsConfirmed'
    BY <1>2 DEF FlagsConfirmed, Clears
  <2> QED
    BY <2>2, <2>3 DEF FlagInv
<1>17. ASSUME NEW q \in Pages PROVE Stays(q)
  <2>1. CASE q = p
    <3>1. StillValid(p) => s.kp = page[p].kp
      BY <1>2 DEF StillValid
    <3> QED
      BY <2>1, <3>1 DEF Stays
  <2>2. CASE q # p
    BY <1>2, <2>2 DEF Stays
  <2> QED
    BY <2>1, <2>2
<1> QED
  BY <1>6, <1>7, <1>8, <1>9, <1>11, <1>12, <1>13, <1>14, <1>16, <1>17 DEF Kept, KeyInv

LEMMA FreshSession ==
  ASSUME NEW k \in Keys, NEW x \in Pairs \cup {NoPair}, NEW b \in BOOLEAN
  PROVE  LET s == [Fresh(k, x) EXCEPT !.leaving = b] IN
           /\ s \in Sessions /\ s.kp = k /\ s.shown = x
           /\ s.shared = NoPair /\ s.peer = NoKey /\ ~s.we /\ ~s.they
<1>1. MaxResends \in 0 .. MaxResends
  BY HandshakeAssumption
<1> QED
  BY <1>1 DEF Fresh, Sessions

LEMMA RestartKept ==
  ASSUME KeyInv, NEW p \in Pages, Restart(p)
  PROVE  Kept
<1>1. Types /\ page[p] \in Sessions /\ page[p].kp \in Keys
  BY CurrentType DEF KeyInv
<1>2. page[p].kp + 1 \in Keys /\ page[p].kp + 1 # page[p].kp
  BY <1>1, HandshakeAssumption DEF Restart, Keys
<1>3. page[p].shown \in Pairs \cup {NoPair} /\ page[p].leaving \in BOOLEAN
  BY <1>1 DEF Sessions
<1>4. PICK s : s = [Fresh(page[p].kp + 1, page[p].shown) EXCEPT !.leaving = page[p].leaving]
  OBVIOUS
<1>5. /\ s \in Sessions /\ s.kp = page[p].kp + 1 /\ s.shown = page[p].shown
      /\ s.shared = NoPair /\ s.peer = NoKey /\ ~s.we /\ ~s.they
  BY <1>2, <1>3, <1>4, FreshSession
<1>6. /\ page' = [page EXCEPT ![p] = s] /\ wire' = [wire EXCEPT ![p] = "new"]
      /\ link' = FALSE /\ queue' = Silent /\ retry' = [retry EXCEPT ![p] = {}]
      /\ seen' = seen /\ agreed' = agreed
  BY <1>4 DEF Restart
<1>7. /\ wire' \in [Pages -> {"new", "on", "lost", "away"}] /\ wire'[p] = "new"
      /\ \A q \in Pages : q # p => wire'[q] = wire[q]
  BY <1>1, <1>6 DEF Types
<1>8. Clears(p, s)
  BY <1>5, <1>6, <1>7 DEF Clears
<1> QED
  BY <1>2, <1>5, <1>7, <1>8, ClearsKept

LEMMA LeaveKept ==
  ASSUME KeyInv, Leave
  PROVE  Kept
<1> DEFINE p == "receiver"
<1>1. Types /\ p \in Pages /\ page[p].kp \in Keys
  BY CurrentType, PageFacts DEF KeyInv
<1>2. PICK s : s = Fresh(page[p].kp, NoPair)
  OBVIOUS
<1>3. /\ s \in Sessions /\ s.kp = page[p].kp /\ s.shown = NoPair
      /\ s.shared = NoPair /\ s.peer = NoKey /\ ~s.we /\ ~s.they
  <2>1. MaxResends \in 0 .. MaxResends
    BY HandshakeAssumption
  <2> QED
    BY <1>1, <1>2, <2>1 DEF Fresh, Sessions
<1>4. /\ page' = [page EXCEPT ![p] = s] /\ wire' = [wire EXCEPT ![p] = "away"]
      /\ link' = FALSE /\ queue' = Silent /\ retry' = [retry EXCEPT ![p] = {}]
      /\ seen' = seen /\ agreed' = agreed
  BY <1>2 DEF Leave
<1>5. /\ wire' \in [Pages -> {"new", "on", "lost", "away"}] /\ wire'[p] = "away"
      /\ \A q \in Pages : q # p => wire'[q] = wire[q]
  BY <1>1, <1>4 DEF Types
<1>6. Clears(p, s)
  BY <1>3, <1>4, <1>5 DEF Clears
<1> QED
  BY <1>1, <1>3, <1>5, <1>6, ClearsKept

-----------------------------------------------------------------------------
(* The theorems.                                                           *)

LEMMA Begins == Init => KeyInv /\ FlagInv
<1> SUFFICES ASSUME Init PROVE KeyInv /\ FlagInv
  OBVIOUS
<1>1. 1 \in Keys /\ MaxResends \in 0 .. MaxResends
  BY HandshakeAssumption DEF Keys
<1>2. PICK f : f = Fresh(1, NoPair)
  OBVIOUS
<1>3. /\ f \in Sessions /\ f.kp = 1 /\ f.shared = NoPair /\ f.peer = NoKey
      /\ f.shown = NoPair /\ f.we = FALSE /\ f.they = FALSE
  BY <1>1, <1>2 DEF Fresh, Sessions
<1>4. /\ page = [q \in Pages |-> f] /\ wire = [q \in Pages |-> "new"] /\ link = FALSE
      /\ queue = [q \in Pages |-> <<>>] /\ retry = [q \in Pages |-> {}]
      /\ seen = [q \in Pages |-> {}] /\ agreed = [q \in Pages |-> {}]
  BY <1>2 DEF Init
<1>5. <<>> \in Seq(Messages) /\ ToSet(<<>>) = {}
  BY SetOfFew
<1>6. Types
  BY <1>3, <1>4, <1>5 DEF Types, WithPeer
<1>7. KeysAreCurrent /\ LinkedAreOn /\ AwayIsFresh
  BY <1>3, <1>4, <1>5 DEF KeysAreCurrent, LinkedAreOn, AwayIsFresh
<1>8. SeenIsPast /\ SeenInOrder /\ ShownIsSeen /\ AgreedIsSeen /\ SeenIsShared
  BY <1>3, <1>4 DEF SeenIsPast, SeenInOrder, ShownIsSeen, AgreedIsSeen, SeenIsShared
<1>9. FlagInv
  BY <1>3, <1>4, <1>5 DEF FlagInv, FlagsConfirmed, ConfirmedIsCurrent
<1> QED
  BY <1>6, <1>7, <1>8, <1>9 DEF KeyInv

LEMMA StutterKept ==
  ASSUME KeyInv, UNCHANGED vars
  PROVE  Kept
<1>1. page' = page /\ wire' = wire /\ link' = link /\ queue' = queue /\ retry' = retry
      /\ seen' = seen /\ agreed' = agreed
  BY DEF vars
<1>2. Current' = Current
  BY <1>1 DEF Current
<1>3. KeyInv'
  BY <1>1, <1>2 DEF KeyInv, Types, KeysAreCurrent, LinkedAreOn, AwayIsFresh, SeenIsPast,
       SeenInOrder, ShownIsSeen, AgreedIsSeen, SeenIsShared, WithPeer, Below
<1>4. FlagInv => FlagInv'
  BY <1>1, <1>2 DEF FlagInv, FlagsConfirmed, ConfirmedIsCurrent, Settled
<1>5. \A p \in Pages : Stays(p)
  BY <1>1 DEF Stays
<1> QED
  BY <1>3, <1>4, <1>5 DEF Kept

LEMMA StepKept ==
  ASSUME KeyInv, [Next]_vars
  PROVE  Kept
<1>1. CASE Exchange
  BY <1>1, ResendKept, SenderDerivesKept, SenderKnowsKept, SenderRefusesKept,
     ReceiverDerivesKept DEF Exchange
<1>2. CASE Verification
  <2>1. CASE \E p \in Pages : Confirm(p)
    BY <2>1, ConfirmKept
  <2>2. CASE \E p \in Pages : PeerConfirmed(p)
    BY <2>2, PeerConfirmedKept
  <2>3. CASE GetsReady \/ \E p \in Pages : Deny(p) \/ PeerDenied(p)
    BY <2>3, ControlKept
  <2> QED
    BY <1>2, <2>1, <2>2, <2>3 DEF Verification
<1>3. CASE Retries
  BY <1>3, RetryKept DEF Retries
<1>4. CASE Faults
  <2>1. CASE Drop \/ Rescan \/ \E p \in Pages : KeyIsLost(p)
    BY <2>1, BreakKept
  <2>2. CASE \E p \in Pages : Deny(p)
    BY <2>2, ControlKept
  <2>3. CASE \E p \in Pages : Notices(p) \/ Restart(p)
    BY <2>3, NoticesKept, RestartKept
  <2>4. CASE Leave
    BY <2>4, LeaveKept
  <2> QED
    BY <1>4, <2>1, <2>2, <2>3, <2>4 DEF Faults
<1>5. CASE Connect
  BY <1>5, ConnectKept
<1>6. CASE UNCHANGED vars
  BY <1>6, StutterKept
<1> QED
  BY <1>1, <1>2, <1>3, <1>4, <1>5, <1>6 DEF Next

\* Every code a page displayed is of key pairs that were made, in the order
\* they were made, and a page that displayed the present code has its session.
THEOREM KeysAreInOrder == Spec => []KeyInv
<1>1. KeyInv /\ [Next]_vars => KeyInv'
  BY StepKept DEF Kept
<1> QED
  BY Begins, <1>1, PTL DEF Spec

(* No key message that is repeated, late or sent again after a reconnect
   undoes a verification, whatever the users do: as long as a page keeps its
   key pair and its peer the one it was verified with, the page stays
   verified (handlePublicKey, handleSenderPublicKey). *)
THEOREM VerificationStays == Spec => VerifiedStays
<1>1. KeyInv /\ [Next]_vars =>
        [\A p \in Pages : Verified(page[p]) /\ StillValid(p) /\ wire'[p] # "away"
                          => Verified(page[p])']_vars
  BY StepKept DEF Kept, Stays, Verified
<1> QED
  BY KeysAreInOrder, <1>1, PTL DEF Spec, VerifiedStays

\* The flags, for users and pages that are not faster than modals and retries.
LEMMA FlagsAreTrue ==
  ASSUME ~Hasty
  PROVE  Spec => [](KeyInv /\ FlagInv)
<1>1. KeyInv /\ FlagInv /\ [Next]_vars => (KeyInv /\ FlagInv)'
  BY StepKept DEF Kept
<1> QED
  BY Begins, <1>1, PTL DEF Spec

(* A page that counts as verified was confirmed by the users of both pages,
   for the code of exactly the keys its session is derived from. *)
THEOREM ConfirmedByBoth ==
  ASSUME ~Hasty
  PROVE  Spec => []VerifiedIsConfirmed
<1>1. KeyInv /\ FlagInv => VerifiedIsConfirmed
  BY PageFacts DEF FlagInv, FlagsConfirmed, VerifiedIsConfirmed, Verified
<1> QED
  BY FlagsAreTrue, <1>1, PTL

\* Two codes that both users confirmed for sessions the pages hold now: the
\* later of them is the code of the present keys, and both pages have it.
LEMMA OneSession ==
  ASSUME KeyInv, FlagInv
  PROVE  KeysAgree
<1> SUFFICES ASSUME \A p \in Pages : Verified(page[p])
             PROVE  page["receiver"].shared = page["sender"].shared
  BY DEF KeysAgree
<1>1. /\ Types /\ AwayIsFresh /\ SeenIsPast /\ SeenInOrder /\ AgreedIsSeen /\ SeenIsShared
      /\ FlagsConfirmed
  BY DEF KeyInv, FlagInv
<1>2. PICK x : x = page["receiver"].shared
  OBVIOUS
<1>3. PICK y : y = page["sender"].shared
  OBVIOUS
<1>4. \A p \in Pages : /\ page[p].shared # NoPair
                       /\ \A q \in Pages : page[p].shared \in agreed[q]
  BY <1>1, PageFacts DEF Verified, FlagsConfirmed
<1>5. \A p \in Pages : \A q \in Pages : page[p].shared \in seen[q]
  BY <1>1, <1>4 DEF AgreedIsSeen
<1>6. /\ x \in seen["receiver"] /\ x \in seen["sender"]
      /\ y \in seen["receiver"] /\ y \in seen["sender"]
  BY <1>2, <1>3, <1>5, PageFacts
<1>7. x \in Pairs /\ y \in Pairs /\ Current \in Pairs
  BY <1>1, <1>6, CurrentType, PageFacts DEF Types
<1>8. Below(x, Current) /\ Below(y, Current) /\ (Below(x, y) \/ Below(y, x))
  BY <1>1, <1>6, PageFacts DEF SeenIsPast, SeenInOrder
<1>9. x["receiver"] = Current["receiver"] /\ y["sender"] = Current["sender"]
  <2>1. ASSUME NEW p \in Pages PROVE page[p].shared[p] = Current[p]
    <3>1. page[p].peer \in Keys /\ page[p].shared = Derived(p, page[p].peer)
      BY <1>1, <1>4, SessionFacts
    <3> QED
      BY <1>1, <3>1, DerivedFacts, CurrentType
  <2> QED
    BY <1>2, <1>3, <2>1, PageFacts
<1>10. \A p \in Pages : x[p] \in Nat /\ y[p] \in Nat /\ Current[p] \in Nat
  BY <1>7, PairFacts
<1>11. x = Current \/ y = Current
  <2>1. CASE Below(x, y)
    <3>1. /\ y["receiver"] = Current["receiver"]
      BY <1>8, <1>9, <1>10, <2>1, PageFacts DEF Below
    <3>2. \A q \in Pages : y[q] = Current[q]
      BY <1>9, <3>1 DEF Pages
    <3> QED
      BY <1>7, <3>2, PairFacts
  <2>2. CASE Below(y, x)
    <3>1. x["sender"] = Current["sender"]
      BY <1>8, <1>9, <1>10, <2>2, PageFacts DEF Below
    <3>2. \A q \in Pages : x[q] = Current[q]
      BY <1>9, <3>1 DEF Pages
    <3> QED
      BY <1>7, <3>2, PairFacts
  <2> QED
    BY <1>8, <2>1, <2>2
<1>12. \A p \in Pages : Current \in seen[p] /\ wire[p] # "away"
  BY <1>1, <1>4, <1>6, <1>11 DEF AwayIsFresh, Pages
<1> QED
  BY <1>1, <1>12, PageFacts DEF SeenIsShared

(* Two pages that are verified at the same time hold the same session key. *)
THEOREM KeysAgreeAlways ==
  ASSUME ~Hasty
  PROVE  Spec => []KeysAgree
  BY FlagsAreTrue, OneSession, PTL

=============================================================================
