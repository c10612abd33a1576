------------------------------ MODULE Handshake ------------------------------
(***************************************************************************)
(* Key exchange and verification of sender-connect.js and receive.html:    *)
(* the receiver sends its public key until the sender answers with its     *)
(* own, both users compare one code made from the two keys, and after a    *)
(* dropped connection the pages recognise each other by the cached         *)
(* fingerprint.  A key pair is its number, the code and the session key    *)
(* are the pair of key pairs they are derived from.                        *)
(***************************************************************************)
EXTENDS Naturals, Sequences, FiniteSets, SequencesExt

CONSTANTS
  MaxResends,   \* PUBLIC_KEY_MAX_RESENDS
  MaxKeys,      \* key pairs a page generates
  MaxDrops,     \* connections that break
  MaxLost,      \* key messages that do not arrive
  MaxDenials,   \* codes a user refuses
  Hasty         \* users and pages are faster than modals and retries

ASSUME HandshakeAssumption ==
  /\ {MaxResends, MaxKeys, MaxDrops, MaxLost, MaxDenials} \subseteq Nat
  /\ MaxKeys > 0
  /\ Hasty \in BOOLEAN

Pages == {"receiver", "sender"}
Other(p) == CHOOSE q \in Pages : q # p

NoKey == 0
Keys == 1 .. MaxKeys
NoPair == [receiver |-> NoKey, sender |-> NoKey]
Pairs == [Pages -> Keys]

VARIABLES
  page,    \* what each page keeps of the session
  wire,    \* its transport: "away", "new", "on", "lost"
  link,    \* the two transports reach each other
  queue,   \* messages on their way to a page
  retry,   \* messages of a page inside sendMessageWithRetry
  seen,    \* codes each page has displayed
  agreed,  \* codes the user of a page has confirmed
  spent    \* bounds used

vars == <<page, wire, link, queue, retry, seen, agreed, spent>>

-----------------------------------------------------------------------------
(* Messages, by the builders of protocol.js. *)

PublicKey(k) == [type |-> "public-key", key |-> k]
SenderPublicKey(k) == [type |-> "sender-public-key", key |-> k]
Control(t) == [type |-> t, key |-> NoKey]
Confirmed == Control("fingerprint-confirmed")
Denied == Control("fingerprint-denied")
Ready == Control("ready")

Schemas == [receiver |-> {SenderPublicKey(k) : k \in Keys} \cup {Confirmed, Denied},
            sender |-> {PublicKey(k) : k \in Keys} \cup {Confirmed, Denied, Ready}]

(* A page with key pair k and no session.  peer is the cached fingerprint of
   the other page, shown the code its modal displays, resends the attempts
   of the key timer (MaxResends when it is off). *)
Fresh(k, shown) ==
  [kp |-> k, shared |-> NoPair, peer |-> NoKey, shown |-> shown,
   we |-> FALSE, they |-> FALSE, again |-> FALSE, pending |-> FALSE,
   opened |-> FALSE, leaving |-> FALSE, resends |-> MaxResends]

Verified(s) == s.shared # NoPair /\ s.we /\ s.they

Derived(p, k) == [q \in Pages |-> IF q = p THEN page[p].kp ELSE k]

Init ==
  /\ page = [p \in Pages |-> Fresh(1, NoPair)]
  /\ wire = [p \in Pages |-> "new"]
  /\ link = FALSE
  /\ queue = [p \in Pages |-> <<>>]
  /\ retry = [p \in Pages |-> {}]
  /\ seen = [p \in Pages |-> {}]
  /\ agreed = [p \in Pages |-> {}]
  /\ spent = [drops |-> 0, lost |-> 0, denials |-> 0, rescans |-> 0]

-----------------------------------------------------------------------------
(* Sending.  A transport that has not noticed a break takes the message and
   loses it; one that knows refuses, and sendMessageWithRetry waits. *)

Sends(p, in, once, insist) ==
  /\ queue' = IF wire[p] = "on" /\ link
              THEN [in EXCEPT ![Other(p)] = @ \o once \o insist] ELSE in
  /\ retry' = IF wire[p] = "on" THEN retry
              ELSE [retry EXCEPT ![p] = @ \cup ToSet(insist)]

Says(p, s, once, insist) ==
  /\ page' = [page EXCEPT ![p] = s]
  /\ Sends(p, queue, once, insist)
  /\ UNCHANGED <<wire, link>>

(* The handler of message m leaves page p in state s and sends. *)
Answers(p, m, s, once, insist) ==
  /\ wire[p] = "on" /\ link
  /\ queue[p] # <<>> /\ Head(queue[p]) = m
  /\ page' = [page EXCEPT ![p] = s]
  /\ Sends(p, [queue EXCEPT ![p] = Tail(@)], once, insist)
  /\ seen' = [seen EXCEPT ![p] = @ \cup ({s.shown} \ {NoPair})]
  /\ UNCHANGED <<wire, link, agreed, spent>>

RetrySends(p, m) ==
  /\ m \in retry[p] /\ wire[p] = "on"
  /\ queue' = IF link THEN [queue EXCEPT ![Other(p)] = Append(@, m)] ELSE queue
  /\ retry' = [retry EXCEPT ![p] = @ \ {m}]
  /\ UNCHANGED <<page, wire, link, seen, agreed, spent>>

RetryGivesUp(p, m) ==
  /\ m \in retry[p] /\ wire[p] # "on"
  /\ retry' = [retry EXCEPT ![p] = @ \ {m}]
  /\ UNCHANGED <<page, wire, link, queue, seen, agreed, spent>>

-----------------------------------------------------------------------------
(* The connection.  Two transports find each other when neither holds an
   older one; the new receiver announces its key and arms the timer, the
   receiver of a reconnect announces it once.  Unless Hasty, a page that
   restarts is connected after the retries before it have ended (2.25 s). *)

Connect ==
  /\ wire \in [Pages -> {"new", "lost"}]
  /\ Hasty \/ "new" \notin Range(wire) \/ \A p \in Pages : retry[p] = {}
  /\ wire' = [p \in Pages |-> "on"]
  /\ link' = TRUE
  /\ page' = [page EXCEPT !["receiver"].resends = IF wire["receiver"] = "new" THEN 0 ELSE @]
  /\ queue' = [queue EXCEPT !["sender"] = <<PublicKey(page["receiver"].kp)>>]
  /\ UNCHANGED <<retry, seen, agreed, spent>>

Silent == [p \in Pages |-> <<>>]

Drop ==
  /\ link /\ spent.drops < MaxDrops
  /\ link' = FALSE
  /\ queue' = Silent
  /\ spent' = [spent EXCEPT !.drops = @ + 1]
  /\ UNCHANGED <<page, wire, retry, seen, agreed>>

(* onReconnecting: the relay of page p noticed. *)
Notices(p) ==
  /\ wire[p] = "on" /\ ~link
  /\ wire' = [wire EXCEPT ![p] = "lost"]
  /\ page' = [page EXCEPT ![p].again = TRUE]
  /\ UNCHANGED <<link, queue, retry, seen, agreed, spent>>

KeyIsLost(p) ==
  /\ queue[p] # <<>> /\ Head(queue[p]).key # NoKey
  /\ spent.lost < MaxLost
  /\ queue' = [queue EXCEPT ![p] = Tail(@)]
  /\ spent' = [spent EXCEPT !.lost = @ + 1]
  /\ UNCHANGED <<page, wire, link, retry, seen, agreed>>

(* Mutant: the flags of the old session survive. *)
RestartVerified(p) ==
  /\ page[p].kp < MaxKeys /\ wire[p] # "away"
  /\ page' = [page EXCEPT ![p] = [Fresh(@.kp + 1, @.shown) EXCEPT !.we = @ \/ page[p].we,
                                                                !.they = @ \/ page[p].they]]
  /\ wire' = [wire EXCEPT ![p] = "new"]
  /\ link' = FALSE
  /\ queue' = Silent
  /\ retry' = [retry EXCEPT ![p] = {}]
  /\ UNCHANGED <<seen, agreed, spent>>

(* reconnect() and reconnectReceiverSameRoom(): new transport, new key pair;
   the modal of a session that is gone stays up. *)
Restart(p) ==
  /\ page[p].kp < MaxKeys /\ wire[p] # "away"
  /\ page' = [page EXCEPT ![p] = [Fresh(@.kp + 1, @.shown) EXCEPT !.leaving = page[p].leaving]]
  /\ wire' = [wire EXCEPT ![p] = "new"]
  /\ link' = FALSE
  /\ queue' = Silent
  /\ retry' = [retry EXCEPT ![p] = {}]
  /\ UNCHANGED <<seen, agreed, spent>>

(* join() with the room it already has: the transport and the keys stay,
   only the offer of the room is answered again. *)
Rescan ==
  /\ wire["sender"] \in {"on", "lost"} /\ spent.rescans < MaxDrops
  /\ wire' = [wire EXCEPT !["sender"] = "new"]
  /\ link' = FALSE
  /\ queue' = Silent
  /\ spent' = [spent EXCEPT !.rescans = @ + 1]
  /\ UNCHANGED <<page, retry, seen, agreed>>

(* The toast of a refused code takes the receiver to the home page. *)
Leave ==
  /\ page["receiver"].leaving /\ wire["receiver"] # "away"
  /\ page' = [page EXCEPT !["receiver"] = Fresh(@.kp, NoPair)]
  /\ wire' = [wire EXCEPT !["receiver"] = "away"]
  /\ link' = FALSE
  /\ queue' = Silent
  /\ retry' = [retry EXCEPT !["receiver"] = {}]
  /\ UNCHANGED <<seen, agreed, spent>>

-----------------------------------------------------------------------------
(* Key exchange: startPublicKeyResend(), handlePublicKey() of the sender,
   handleSenderPublicKey() of the receiver. *)

Resend ==
  LET s == page["receiver"] IN
  /\ s.resends < MaxResends /\ s.shared = NoPair
  /\ Says("receiver", [s EXCEPT !.resends = @ + 1], <<PublicKey(s.kp)>>, <<>>)
  /\ UNCHANGED <<seen, agreed, spent>>

Reply == SenderPublicKey(page["sender"].kp)

Derive(p, s, k) == [s EXCEPT !.shared = Derived(p, k), !.peer = k, !.shown = Derived(p, k)]

SenderDerives(k) ==
  LET s == page["sender"] IN
  /\ s.shared = NoPair
  /\ Answers("sender", PublicKey(k), Derive("sender", s, k), <<Reply>>, <<>>)

(* Mutant: only a reconnect explains a key that comes twice. *)
SenderKnowsAgain(k) ==
  LET s == page["sender"] IN
  /\ s.shared # NoPair /\ s.peer = k /\ s.again
  /\ Answers("sender", PublicKey(k), [s EXCEPT !.again = FALSE], <<Reply>>, <<>>)

(* The same key again: the reply was lost, or the pages reconnected. *)
SenderKnows(k) ==
  LET s == page["sender"] IN
  /\ s.shared # NoPair /\ s.peer = k
  /\ Answers("sender", PublicKey(k), [s EXCEPT !.again = FALSE], <<Reply>>, <<>>)

SenderRefuses(k) ==
  LET s == page["sender"] IN
  /\ s.shared # NoPair /\ s.peer # k
  /\ Answers("sender", PublicKey(k),
             IF s.again THEN [Fresh(s.kp, s.shown) EXCEPT !.pending = s.pending] ELSE s,
             <<>>, <<>>)

(* Mutant: a repeated key counts as known only in a reconnect. *)
ReceiverKnowsAgain(s, k) == s.again /\ s.shared # NoPair /\ s.peer = k

ReceiverKnows(s, k) == s.shared # NoPair /\ s.peer # NoKey /\ s.peer = k

(* Mutant: a new key pair of the sender leaves the gate open. *)
ReceiverRekeys(k) ==
  LET s == [page["receiver"] EXCEPT !.resends = MaxResends] IN
  Answers("receiver", SenderPublicKey(k),
          IF ReceiverKnows(s, k) THEN [s EXCEPT !.again = FALSE]
          ELSE Derive("receiver", [s EXCEPT !.again = FALSE], k),
          <<>>, <<>>)

ReceiverDerives(k) ==
  LET s == [page["receiver"] EXCEPT !.resends = MaxResends] IN
  Answers("receiver", SenderPublicKey(k),
          IF ReceiverKnows(s, k) THEN [s EXCEPT !.again = FALSE]
          ELSE Derive("receiver",
                      [s EXCEPT !.we = FALSE, !.they = FALSE, !.opened = FALSE,
                                !.again = @ /\ s.shared = NoPair], k),
          <<>>, <<>>)

-----------------------------------------------------------------------------
(* Verification.  A user confirms a code that the other page displayed too;
   unless Hasty, never one whose key pairs a page has replaced. *)

(* checkBothConfirmed() of the receiver, maybeFlushReady() of the sender:
   the state after one of the flags changed. *)
Opens(p, s) ==
  [s EXCEPT !.opened = @ \/ (Verified(s) /\ (p = "receiver" \/ s.pending)),
            !.pending = @ /\ ~Verified(s)]

Announces(p, s) == IF p = "receiver" /\ s.we /\ s.they THEN <<Ready>> ELSE <<>>

Confirm(p) ==
  LET s == [page[p] EXCEPT !.we = TRUE, !.shown = NoPair] IN
  /\ page[p].shown # NoPair
  /\ page[p].shown \in seen[Other(p)]
  /\ Hasty \/ page[p].shown = [q \in Pages |-> page[q].kp]
  /\ Says(p, Opens(p, s), <<>>, <<Confirmed>> \o Announces(p, s))
  /\ agreed' = [agreed EXCEPT ![p] = @ \cup {page[p].shown}]
  /\ UNCHANGED <<seen, spent>>

PeerConfirmed(p) ==
  LET s == [page[p] EXCEPT !.they = TRUE] IN
  Answers(p, Confirmed, Opens(p, s), <<>>, Announces(p, s))

(* A ready that comes before the flags is kept for them. *)
GetsReady ==
  LET s == [page["sender"] EXCEPT !.pending = TRUE] IN
  Answers("sender", Ready, Opens("sender", s), <<>>, <<>>)

Deny(p) ==
  /\ page[p].shown # NoPair /\ spent.denials < MaxDenials
  /\ spent' = [spent EXCEPT !.denials = @ + 1]
  /\ IF p = "receiver"
     THEN Says(p, [page[p] EXCEPT !.leaving = TRUE], <<Denied>>, <<>>)
     ELSE Says(p, page[p], <<>>, <<Denied>>)
  /\ UNCHANGED <<seen, agreed>>

PeerDenied(p) ==
  Answers(p, Denied, [page[p] EXCEPT !.leaving = (p = "receiver")], <<>>, <<>>)

-----------------------------------------------------------------------------
Exchange ==
  \/ Resend
  \/ \E k \in Keys : SenderDerives(k) \/ SenderKnows(k) \/ SenderRefuses(k)
  \/ \E k \in Keys : ReceiverDerives(k)

Verification ==
  \/ \E p \in Pages : Confirm(p) \/ PeerConfirmed(p) \/ PeerDenied(p)
  \/ GetsReady

Retries == \E p \in Pages : \E m \in retry[p] : RetrySends(p, m) \/ RetryGivesUp(p, m)

Faults ==
  \/ Drop \/ Rescan \/ Leave
  \/ \E p \in Pages : Notices(p) \/ KeyIsLost(p) \/ Restart(p) \/ Deny(p)

Next == Connect \/ Exchange \/ Verification \/ Retries \/ Faults

Spec == Init /\ [][Next]_vars

(* Scheduling: the transports keep trying, timers fire, messages on a live
   connection are handled, and both users look at their screens. *)
FairSpec ==
  /\ Spec
  /\ WF_vars(Connect) /\ WF_vars(Exchange) /\ WF_vars(Verification) /\ WF_vars(Retries)

-----------------------------------------------------------------------------
Sessions == [kp : Keys, shared : Pairs \cup {NoPair}, peer : Keys \cup {NoKey},
             shown : Pairs \cup {NoPair}, we : BOOLEAN, they : BOOLEAN,
             again : BOOLEAN, pending : BOOLEAN, opened : BOOLEAN,
             leaving : BOOLEAN, resends : 0 .. MaxResends]

(* Types; a page has a session exactly with the peer it cached. *)
TypeOK ==
  /\ page \in [Pages -> Sessions]
  /\ \A p \in Pages : page[p].shared = (IF page[p].peer = NoKey THEN NoPair
                                        ELSE Derived(p, page[p].peer))
  /\ wire \in [Pages -> {"new", "on", "lost", "away"}]
  /\ link \in BOOLEAN
  /\ \A p \in Pages : ToSet(queue[p]) \subseteq Schemas[p]
  /\ \A p \in Pages : retry[p] \subseteq Schemas[Other(p)]
  /\ {seen, agreed} \subseteq [Pages -> SUBSET Pairs]
  /\ spent \in [drops : 0 .. MaxDrops, lost : 0 .. MaxLost,
                denials : 0 .. MaxDenials, rescans : 0 .. MaxDrops]

(* "isVerified: true only when key exchange completed and both sides
   confirmed": whatever breaks, is lost or restarts, the flags of a page that
   counts as verified stand for its present keys, and the users of both pages
   confirmed the code of exactly these keys. *)
VerifiedIsConfirmed ==
  \A p \in Pages : Verified(page[p]) => \A q \in Pages : page[p].shared \in agreed[q]

(* Two pages that are verified at the same time hold the same session key,
   so that what one seals the other can open. *)
KeysAgree ==
  (\A p \in Pages : Verified(page[p])) => page["receiver"].shared = page["sender"].shared

(* A key message that is repeated, late or sent again after a reconnect never
   undoes a verification: as long as the page keeps its own key pair and the
   peer the one it was verified with, the page stays verified. *)
StillValid(p) == page'[p].kp = page[p].kp /\ page'[Other(p)].kp = page[p].peer

VerifiedStays ==
  [][\A p \in Pages :
       Verified(page[p]) /\ StillValid(p) /\ wire'[p] # "away"
       => Verified(page[p])']_vars

(* Undisturbed, two pages that meet end up verified and the sender in front
   of its camera, even if as many key messages are lost as the timer
   repeats. *)
Disturbed ==
  \/ spent.drops + spent.rescans + spent.denials > 0
  \/ \E p \in Pages : page[p].kp > 1

HandshakeCompletes == <>(Disturbed \/ \A p \in Pages : Verified(page[p]) /\ page[p].opened)

=============================================================================
