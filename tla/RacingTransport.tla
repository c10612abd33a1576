--------------------------- MODULE RacingTransport ---------------------------
(***************************************************************************)
(* The race of transport.js: each page starts WebRTC and a WebSocket to    *)
(* the relay (long polling if the socket fails), locks the first that      *)
(* wins, closes the others, and keeps that choice.  The two pages race     *)
(* separately and may disagree.                                            *)
(*                                                                         *)
(* A page is a record; the callbacks of transport.js are operators from    *)
(* record to record, and the actions are the events that call them.        *)
(***************************************************************************)
EXTENDS Naturals, Sequences, FiniteSets

CONSTANTS
  Modes,        \* configurations of the server: "race", "forced", "lpOnly"
  Speakers,     \* pages that send messages
  MaxSaid,      \* messages each of them may send
  MaxPending,   \* MAX_PENDING_MSGS
  MaxFaults,    \* connections that break or are refused
  MaxHides,     \* times a page goes to the background
  MaxRestarts   \* transports that are replaced

ASSUME RaceAssumption ==
  /\ Modes \subseteq {"race", "forced", "lpOnly"}
  /\ Speakers \subseteq {"receiver", "sender"}
  /\ {MaxSaid, MaxPending, MaxFaults, MaxHides, MaxRestarts} \subseteq Nat

Pages == {"receiver", "sender"}
Relays == {"ws", "lp"}
Inners == Relays \cup {"rtc"}
Other(p) == CHOOSE q \in Pages : q # p

VARIABLES
  mode,      \* what /api/config said to both pages
  page,      \* the RacingTransport of each page, with its inner transports
  hidden,    \* document.visibilityState of each page
  slots,     \* relay slots taken: <<page, inner>>
  stray,     \* pages with a long-poll claim that was under way at close()
  wire,      \* frames on their way to a slot
  channel,   \* frames on their way to a page on the data channel
  matched,   \* the two peer connections belong to one offer and answer
  said,      \* number of messages each page has sent
  spent      \* bounds used: faults, hides, restarts

vars == <<mode, page, hidden, slots, stray, wire, channel, matched, said, spent>>

Ends == Pages \X (Relays \cup {"stray"})
Hello == 0

-----------------------------------------------------------------------------
(* The transport of a page.  ws and lp: off, opening, open (slot taken, no
   hello yet), live (hello received), gone (a close was noticed), closed (by
   close()); lp is spawned while its init() is awaited.  arrived is what
   came in on each inner. *)

InnerStates == {"off", "spawned", "opening", "open", "live", "gone", "closed"}
RtcStates == {"none", "checking", "connected", "disconnected", "failed", "closed"}

Transport(p, known, m) ==
  [winner |-> "none", timer |-> "none", known |-> known,
   reconnecting |-> FALSE, app |-> "waiting",
   rtc |-> IF p = "receiver" THEN "checking" ELSE "none",
   limit |-> "off", grace |-> "none", recheck |-> FALSE,
   ws |-> IF m = "lpOnly" THEN "closed" ELSE "opening",
   lp |-> IF m = "lpOnly" /\ known THEN "spawned" ELSE "off",
   pending |-> [k \in Inners |-> <<>>],
   arrived |-> [k \in Inners |-> <<>>],
   heard |-> <<>>]

(* Mutant: a long-poll transport that waits for its init() is not closed. *)
CloseInnerStarted(r, k) ==
  CASE k = "rtc" -> IF r.rtc = "none" THEN r
                    ELSE [r EXCEPT !.rtc = "closed", !.limit = "off", !.grace = "none"]
    [] k = "lp" /\ r.lp \in {"off", "spawned"} -> r
    [] OTHER -> [r EXCEPT ![k] = "closed"]

(* close() of an inner. *)
CloseInner(r, k) ==
  CASE k = "rtc" -> IF r.rtc = "none" THEN r
                    ELSE [r EXCEPT !.rtc = "closed", !.limit = "off", !.grace = "none"]
    [] k = "lp" /\ r.lp = "off" -> r
    [] OTHER -> [r EXCEPT ![k] = "closed"]

(* Mutant: what the winner received before is not replayed. *)
LockForgetting(r, k) ==
  [r EXCEPT !.winner = k, !.timer = "none", !.app = "connected",
            !.rtc = IF k # "rtc" /\ @ # "none" THEN "closed" ELSE @,
            !.ws = IF k # "ws" THEN "closed" ELSE @,
            !.lp = IF k # "lp" /\ @ # "off" THEN "closed" ELSE @,
            !.pending = [j \in Inners |-> <<>>]]

(* _lockWinner(): the losers are closed and what the winner had received is
   replayed. *)
Lock(r, k) ==
  LET closed == [j \in Inners |-> IF j = k THEN r[j] ELSE CloseInner(r, j)[j]]
      rtcLost == k # "rtc" /\ r.rtc # "none"
  IN [r EXCEPT !.winner = k, !.timer = "none", !.app = "connected",
               !.rtc = closed["rtc"], !.ws = closed["ws"], !.lp = closed["lp"],
               !.limit = IF rtcLost THEN "off" ELSE @, !.grace = IF rtcLost THEN "none" ELSE @,
               !.heard = r.pending[k],
               !.pending = [j \in Inners |-> <<>>]]

(* _spawnLp(). *)
SpawnLp(r) ==
  IF r.lp = "off" /\ r.winner = "none" /\ r.known
  THEN [r EXCEPT !.lp = "spawned"] ELSE r

(* _handleInnerConnected(). *)
InnerConnected(r, k) ==
  IF r.winner = k /\ r.reconnecting
  THEN [r EXCEPT !.reconnecting = FALSE, !.app = "connected"]
  ELSE IF r.winner # "none" THEN r
  ELSE IF k = "rtc" THEN (IF mode = "race" THEN Lock(r, "rtc") ELSE r)
  ELSE IF r.timer = "none" THEN [r EXCEPT !.timer = k]
  ELSE IF k = "ws" THEN [r EXCEPT !.timer = "ws"] ELSE r

(* _handleInnerTransient(): the loop of _reconnectLoop() starts. *)
InnerTransient(r, k) ==
  IF r.winner = k THEN [r EXCEPT !.reconnecting = TRUE] ELSE r

(* Mutant: the loss of a winner is not passed on. *)
InnerDisconnectedQuiet(r, k) ==
  IF r.winner = "none" /\ k = "ws" THEN SpawnLp(r) ELSE r

(* _handleInnerDisconnected(). *)
InnerDisconnected(r, k) ==
  IF r.winner = k
  THEN (IF r.reconnecting THEN r ELSE [r EXCEPT !.app = "lost"])
  ELSE IF r.winner # "none" THEN r
  ELSE CASE k = "ws" -> SpawnLp(r)
         [] k = "lp" -> IF r.ws = "live" THEN r ELSE [r EXCEPT !.app = "lost"]
         [] k = "rtc" -> IF r.ws = "live" THEN Lock(r, "ws")
                         ELSE IF r.lp = "live" THEN Lock(r, "lp") ELSE r

(* _handleInnerMessage(). *)
InnerMessage(r, k, msg) ==
  LET in == [r EXCEPT !.arrived[k] = Append(@, msg)]
  IN CASE r.winner = k -> [in EXCEPT !.heard = Append(@, msg)]
       [] r.winner = "none" /\ Len(r.pending[k]) < MaxPending ->
            [in EXCEPT !.pending[k] = Append(@, msg)]
       [] OTHER -> in

-----------------------------------------------------------------------------
(* The relay as the pages see it (RelayServer has the details): a frame goes
   to the other slot, and when one slot closes both do. *)

Partner(e) == {f \in slots : f # e}
Drained(f) == [e \in Ends |-> IF e \in f THEN <<>> ELSE wire[e]]
FrameTo(ends, w, frame) ==
  [e \in Ends |-> IF e \in ends THEN Append(w[e], frame) ELSE w[e]]

Holds(r, k) == r[k] \in {"open", "live"}

(* The page of p becomes r: slots of inners that r has closed are torn down,
   a long-poll claim under way at a close() goes astray. *)
Became(p, r) ==
  LET dead == \E e \in slots : e[1] = p /\ e[2] \in Relays /\ ~Holds(r, e[2])
  IN /\ page' = [page EXCEPT ![p] = r]
     /\ slots' = IF dead THEN {} ELSE slots
     /\ wire' = IF dead THEN Drained(Ends) ELSE wire
     /\ stray' = IF page[p].lp = "opening" /\ r.lp = "closed"
                 THEN stray \cup {p} ELSE stray

Calm == UNCHANGED <<mode, said, spent>>
Spends(what, most) ==
  /\ spent[what] < most
  /\ spent' = [spent EXCEPT ![what] = @ + 1]

Init ==
  /\ mode \in Modes
  /\ page = [p \in Pages |-> Transport(p, TRUE, mode)]
  /\ hidden = [p \in Pages |-> FALSE]
  /\ slots = {} /\ stray = {}
  /\ wire = [e \in Ends |-> <<>>]
  /\ channel = [p \in Pages |-> <<>>]
  /\ matched = FALSE
  /\ said = [p \in Pages |-> 0]
  /\ spent = [faults |-> 0, hides |-> 0, restarts |-> 0]

(* lp.init() resolved: the transport opens its slot (close() of a lost race
   has closed it by then otherwise). *)
LpStarts(p) ==
  /\ page[p].lp = "spawned"
  /\ page' = [page EXCEPT ![p].lp = "opening"]
  /\ Calm /\ UNCHANGED <<hidden, slots, stray, wire, channel, matched>>

(* The relay accepts a page, which sends its hello. *)
RelayOpens(p, k) ==
  /\ page[p][k] = "opening"
  /\ Cardinality(slots) < 2
  /\ page' = [page EXCEPT ![p][k] = "open"]
  /\ slots' = slots \cup {<<p, k>>}
  /\ wire' = FrameTo(slots, Drained({<<p, k>>}), Hello)
  /\ Calm /\ UNCHANGED <<hidden, stray, channel, matched>>

(* _openWs() and onopen; the handshake of _open(). *)
WsOpens(p) == RelayOpens(p, "ws")
LpOpens(p) == RelayOpens(p, "lp")

(* The network refuses, or the relay is full.  In _reconnectLoop(), and in
   _open() of the long-poll transport, a full relay is tried again until a
   slot is free, which is RelayOpens. *)
OpenFails(p, k) ==
  /\ page[p][k] = "opening"
  /\ IF k = "ws" /\ page[p].winner = "none" /\ Cardinality(slots) = 2
     THEN UNCHANGED spent ELSE Spends("faults", MaxFaults)
  /\ Became(p, InnerDisconnected([page[p] EXCEPT ![k] = "gone"], k))
  /\ UNCHANGED <<mode, said, hidden, channel, matched>>

(* Mutant: the first hello is not echoed. *)
RelayFrameUnechoed(p, k) ==
  /\ <<p, k>> \in slots /\ wire[<<p, k>>] # <<>>
  /\ wire' = [wire EXCEPT ![<<p, k>>] = Tail(@)]
  /\ page' = [page EXCEPT ![p] =
       IF Head(wire[<<p, k>>]) # Hello THEN InnerMessage(@, k, Head(wire[<<p, k>>]))
       ELSE IF @[k] = "open" THEN InnerConnected([@ EXCEPT ![k] = "live"], k) ELSE @]
  /\ Calm /\ UNCHANGED <<hidden, slots, stray, channel, matched>>

(* onclose before the hello; a handshake that is refused for good. *)
WsRefused(p) == OpenFails(p, "ws")
LpRefused(p) == OpenFails(p, "lp")

(* A frame arrives at a slot of the page.  The first hello is echoed. *)
RelayFrame(p, k) ==
  /\ <<p, k>> \in slots /\ wire[<<p, k>>] # <<>>
  /\ LET frame == Head(wire[<<p, k>>])
         rest == [wire EXCEPT ![<<p, k>>] = Tail(@)]
         met == InnerConnected([page[p] EXCEPT ![k] = "live"], k)
     IN \/ /\ frame = Hello /\ page[p][k] = "open"
           /\ page' = [page EXCEPT ![p] = met]
           /\ wire' = FrameTo(Partner(<<p, k>>), rest, Hello)
        \/ /\ frame = Hello /\ page[p][k] = "live"
           /\ wire' = rest
           /\ UNCHANGED page
        \/ /\ frame # Hello
           /\ wire' = rest
           /\ page' = [page EXCEPT ![p] = InnerMessage(page[p], k, frame)]
  /\ Calm /\ UNCHANGED <<hidden, slots, stray, channel, matched>>

(* _handleFrame() of the socket; an answer of the poll loop. *)
WsHears(p) == RelayFrame(p, "ws")
LpHears(p) == RelayFrame(p, "lp")

(* A connection to the relay breaks. *)
RelayDrops ==
  /\ slots # {}
  /\ Spends("faults", MaxFaults)
  /\ slots' = {} /\ wire' = Drained(Ends)
  /\ UNCHANGED <<mode, page, hidden, stray, channel, matched, said>>

(* The page notices that its slot is closed: transient when the hello was
   exchanged, a failure before that. *)
Notices(p, k) ==
  /\ Holds(page[p], k) /\ <<p, k>> \notin slots
  /\ LET gone == [page[p] EXCEPT ![k] = "gone"]
     IN Became(p, IF page[p][k] = "live" THEN InnerTransient(gone, k)
                  ELSE InnerDisconnected(gone, k))
  /\ Calm /\ UNCHANGED <<hidden, channel, matched>>

(* onclose of the socket; status 410 in the poll loop. *)
WsCloses(p) == Notices(p, "ws")
LpCloses(p) == Notices(p, "lp")

(* An attempt of _reconnectLoop(): reopen() does nothing unless the
   connection is gone. *)
Reopens(p) ==
  LET k == page[p].winner
  IN /\ page[p].reconnecting /\ page[p][k] = "gone"
     /\ page' = [page EXCEPT ![p][k] = "opening"]
     /\ Calm /\ UNCHANGED <<hidden, slots, stray, wire, channel, matched>>

(* The grace window ends. *)
TimerFires(p) ==
  /\ page[p].timer # "none" /\ page[p].winner = "none"
  /\ mode = "race" => page[p].rtc # "none"
  /\ Became(p, Lock(page[p], page[p].timer))
  /\ Calm /\ UNCHANGED <<hidden, channel, matched>>

(* A long-poll handshake that close() did not wait for is granted, and given
   up by the server's idle timer. *)
StrayClaims(p) ==
  /\ p \in stray /\ Cardinality(slots) < 2 /\ <<p, "stray">> \notin slots
  /\ stray' = stray \ {p}
  /\ slots' = slots \cup {<<p, "stray">>}
  /\ UNCHANGED <<wire, page, hidden, channel, matched>> /\ Calm

StrayExpires(p) ==
  /\ <<p, "stray">> \in slots
  /\ slots' = {} /\ wire' = Drained(Ends)
  /\ UNCHANGED <<page, hidden, stray, channel, matched>> /\ Calm

-----------------------------------------------------------------------------
(* WebRTC.  joinRoom() does not look at close(): a peer connection may be
   made after the race is over. *)
Reachable(p) == matched /\ page[Other(p)].rtc \in {"checking", "connected", "disconnected"}

RtcJoins ==
  /\ page["sender"].rtc = "none"
  /\ matched' = (page["receiver"].rtc # "closed")
  /\ page' = [p \in Pages |->
       CASE p = "sender" -> [page[p] EXCEPT !.rtc = "checking", !.limit = "armed"]
         [] p = "receiver" -> IF page[p].rtc = "closed" THEN page[p]
                              ELSE [page[p] EXCEPT !.limit = "armed"]]
  /\ Calm /\ UNCHANGED <<hidden, slots, stray, wire, channel>>

RtcConnects(p) ==
  /\ page[p].rtc \in {"checking", "disconnected"} /\ Reachable(p)
  /\ Became(p, InnerConnected([page[p] EXCEPT !.rtc = "connected", !.limit = "past",
                                              !.grace = "none"], "rtc"))
  /\ Calm /\ UNCHANGED <<hidden, channel, matched>>

(* _scheduleDisconnectGrace(), called on "disconnected". *)
ScheduleGrace(r, isHidden) ==
  [r EXCEPT !.grace = IF isHidden THEN "deferred" ELSE "armed"]

RtcDisconnects(p) ==
  /\ page[p].rtc = "connected"
  /\ IF Reachable(p) THEN Spends("faults", MaxFaults) ELSE UNCHANGED spent
  /\ page' = [page EXCEPT ![p] =
                ScheduleGrace([@ EXCEPT !.rtc = "disconnected"], hidden[p])]
  /\ UNCHANGED <<mode, said, hidden, slots, stray, wire, channel, matched>>

RtcFails(p) ==
  /\ page[p].rtc \in {"checking", "disconnected"}
  /\ page[p].rtc = "checking" => page[p].limit # "off"
  /\ Became(p, InnerDisconnected([page[p] EXCEPT !.rtc = "failed", !.limit = "past",
                                                 !.grace = "none"], "rtc"))
  /\ Calm /\ UNCHANGED <<hidden, channel, matched>>

(* _startConnectionTimeout(): the peer connection itself goes on checking. *)
ConnectionTimeout(p) ==
  /\ page[p].limit = "armed" /\ page[p].rtc = "checking"
  /\ Became(p, InnerDisconnected([page[p] EXCEPT !.limit = "past"], "rtc"))
  /\ Calm /\ UNCHANGED <<hidden, channel, matched>>

GraceExpires(p) ==
  /\ page[p].grace = "armed"
  /\ Became(p, InnerDisconnected([page[p] EXCEPT !.grace = "none"], "rtc"))
  /\ Calm /\ UNCHANGED <<hidden, channel, matched>>

Hide(p) ==
  /\ ~hidden[p] /\ Spends("hides", MaxHides)
  /\ hidden' = [hidden EXCEPT ![p] = TRUE]
  /\ UNCHANGED <<mode, page, slots, stray, wire, channel, matched, said>>

(* The page is visible again: _visibilityResumeHandler, and the check that
   the pages make seven seconds after it (Replaces). *)
Show(p) ==
  /\ hidden[p]
  /\ hidden' = [hidden EXCEPT ![p] = FALSE]
  /\ LET r == [page[p] EXCEPT !.recheck = page[p].rtc \in {"failed", "disconnected"}]
     IN page' = [page EXCEPT ![p] =
                   IF r.grace = "deferred" THEN ScheduleGrace(r, FALSE) ELSE r]
  /\ Calm /\ UNCHANGED <<slots, stray, wire, channel, matched>>

ChannelFrame(p) ==
  /\ channel[p] # <<>> /\ page[p].rtc \in {"connected", "disconnected"}
  /\ channel' = [channel EXCEPT ![p] = Tail(@)]
  /\ page' = [page EXCEPT ![p] = InnerMessage(@, "rtc", Head(channel[p]))]
  /\ Calm /\ UNCHANGED <<hidden, slots, stray, wire, matched>>

-----------------------------------------------------------------------------
(* The application. *)

(* sendMessage() of the winner, on an open data channel, ... *)
SayOnChannel(p, msg) ==
  /\ page[p].winner = "rtc" /\ page[p].rtc = "connected" /\ matched
  /\ channel' = [channel EXCEPT ![Other(p)] = Append(@, msg)]
  /\ UNCHANGED wire

(* ... on a socket or an upload that the page believes to be open. *)
SayOnRelay(p, k, msg) ==
  /\ page[p].winner = k /\ Holds(page[p], k)
  /\ wire' = IF <<p, k>> \in slots THEN FrameTo(Partner(<<p, k>>), wire, msg) ELSE wire
  /\ UNCHANGED channel

SayOnWs(p, msg) == SayOnRelay(p, "ws", msg)
SayOnLp(p, msg) == SayOnRelay(p, "lp", msg)

(* sendMessage(): refused without a winner that can carry it. *)
Say(p) ==
  LET msg == said[p] + 1
  IN /\ p \in Speakers /\ said[p] < MaxSaid
     /\ SayOnChannel(p, msg) \/ SayOnWs(p, msg) \/ SayOnLp(p, msg)
     /\ said' = [said EXCEPT ![p] = msg]
     /\ UNCHANGED <<mode, page, hidden, slots, stray, matched, spent>>

(* A page replaces a transport that was lost, or that is still down seven
   seconds after the page came back to the foreground.  The receiver does the
   first at once (reconnectReceiverSameRoom()), the sender's user by joining
   afresh.  Only createRoom() and joinRoom() set _roomId, so that the
   receiver's second transport has none. *)
Replaces(p) ==
  /\ \/ page[p].app = "lost"
     \/ page[p].recheck /\ page[p].rtc \in {"failed", "disconnected"}
  /\ Spends("restarts", MaxRestarts)
  /\ page' = [page EXCEPT ![p] = Transport(p, p = "sender", mode)]
  /\ LET held == \E e \in slots : e[1] = p /\ e[2] \in Relays
     IN /\ slots' = IF held THEN {} ELSE slots
        /\ wire' = IF held THEN Drained(Ends) ELSE wire
  /\ stray' = IF page[p].lp = "opening" THEN stray \cup {p} ELSE stray
  /\ channel' = [q \in Pages |-> <<>>]
  /\ matched' = FALSE
  /\ UNCHANGED <<mode, hidden, said>>

(* What the pages, the relay and the ends of a peer connection do of
   themselves. *)
Works(p) ==
  \/ LpStarts(p) \/ Reopens(p) \/ TimerFires(p) \/ StrayClaims(p) \/ StrayExpires(p)
  \/ WsOpens(p) \/ LpOpens(p) \/ WsHears(p) \/ LpHears(p) \/ WsCloses(p) \/ LpCloses(p)
  \/ ConnectionTimeout(p) \/ GraceExpires(p) \/ ChannelFrame(p) \/ Show(p)
  \/ ~Reachable(p) /\ RtcDisconnects(p)
  \/ page[Other(p)].rtc = "connected" /\ (RtcConnects(p) \/ RtcFails(p))
  \/ page[p].app = "lost" /\ p = "receiver" /\ Replaces(p)

Next ==
  \/ RtcJoins \/ RelayDrops
  \/ \E p \in Pages :
       \/ Works(p)
       \/ WsRefused(p) \/ LpRefused(p)
       \/ RtcConnects(p) \/ RtcDisconnects(p) \/ RtcFails(p)
       \/ Hide(p) \/ Say(p) \/ Replaces(p)

Spec == Init /\ [][Next]_vars

(* Each page runs its timers and callbacks, the relay answers, a peer
   connection whose other end is gone notices it, one whose other end is
   connected connects or fails, and the receiver's page replaces what it lost.
   Nothing is assumed of WebRTC ever connecting, of faults, or of the users. *)
Fairness == WF_vars(RtcJoins) /\ \A p \in Pages : WF_vars(Works(p))

FairSpec == Spec /\ Fairness

-----------------------------------------------------------------------------
(* Types: every inner transport is in a known state, a page that has a winner
   has an inner for it, and at most two slots of the relay are taken. *)
TypeOK ==
  /\ mode \in Modes /\ matched \in BOOLEAN
  /\ \A p \in Pages :
       LET r == page[p]
       IN /\ r.winner \in Inners \cup {"none"} /\ r.timer \in Relays \cup {"none"}
          /\ r.ws \in InnerStates /\ r.lp \in InnerStates /\ r.rtc \in RtcStates
          /\ r.app \in {"waiting", "connected", "lost"}
          /\ r.grace \in {"none", "armed", "deferred"} /\ r.limit \in {"off", "armed", "past"}
          /\ {r.known, r.reconnecting, r.recheck} \subseteq BOOLEAN
          /\ \A k \in Inners : Len(r.pending[k]) <= MaxPending
          /\ r.reconnecting => r.winner \in Relays
  /\ slots \subseteq Ends /\ Cardinality(slots) <= 2
  /\ stray \subseteq Pages /\ hidden \in [Pages -> BOOLEAN]
  /\ said \in [Pages -> 0 .. MaxSaid]

(* What the page has heard is what came in on the winner, from the first
   message on, however early it came: no message sent before the winner was
   locked is lost, overtaken or repeated (_pendingMsgs). *)
HeardFromTheFirst ==
  \A p \in Pages :
    page[p].winner # "none" => page[p].heard = page[p].arrived[page[p].winner]

(* A page that has a winner holds no relay slot but the winner's, and no page
   ever holds one slot with a socket and one with long polling: otherwise it
   would be paired with itself, or keep its peer out. *)
OneSlotPerPage ==
  \A e \in slots : e[2] \in Relays =>
    /\ page[e[1]].winner \in {"none", e[2]}
    /\ \A f \in slots : f[1] = e[1] /\ f[2] \in Relays => f = e

(* Both pages use the same path and its two ends are there. *)
Together ==
  \/ \A p \in Pages : page[p].winner = "rtc" /\ page[p].rtc \in {"connected", "disconnected"}
                       /\ matched
  \/ \A p \in Pages : \E k \in Relays : page[p].winner = k /\ <<p, k>> \in slots

(* The page shows a connection that nobody is at the other end of. *)
Deceived(p) ==
  /\ page[p].winner # "none" /\ page[p].app = "connected" /\ ~page[p].reconnecting
  /\ ~Together

(* A page that locked a relay connection it had already lost: no event is
   left that could tell it. *)
Stranded(p) == page[p].winner \in Relays /\ page[p][page[p].winner] = "gone"
               /\ ~page[p].reconnecting

(* No page is deceived for ever, also when the two races chose differently,
   except one that is stranded. *)
DeceptionEnds ==
  \A p \in Pages : Deceived(p) ~> (~Deceived(p) \/ Stranded(p))

(* Without a network fault and as long as no transport is replaced, the two
   races end together, or the sender learns that its choice was not the
   receiver's. *)
PagesMeet ==
  [](spent.faults = 0 /\ spent.restarts = 0)
    => <>(Together \/ page["sender"].app = "lost")
=============================================================================
