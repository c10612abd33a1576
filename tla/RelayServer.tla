---------------------------- MODULE RelayServer ----------------------------
(***************************************************************************)
(* The HTTP relay of one room (server.js): two slots that pages claim with *)
(* a WebSocket or with long polls, the frames forwarded between them, the  *)
(* backpressure on the feeder, the waiting polls, and the teardown of a    *)
(* pair.  A page reconnects with a new connection, so that connections of  *)
(* different ages meet in the slots.                                       *)
(*                                                                         *)
(* A connection is a number; 0 is null.  A frame is its sender and its     *)
(* place in what that sender sent; every frame counts one byte.            *)
(***************************************************************************)
EXTENDS Integers, Sequences, FiniteSets

CONSTANTS
  MaxConns,      \* bound: connections ever opened
  Kinds,         \* what pages open: a subset of {"ws", "lp"}
  MaxFrames,     \* bound: frames sent on one connection
  Senders,       \* bound: the pages that send frames
  QueueMax,      \* LP_QUEUE_MAX_FRAMES
  BufferMax,     \* WS_PEER_BUFFER_MAX_BYTES, in frames
  Sliver,        \* frames the parser holds when its socket is paused
  WaitersMax,    \* MAX_WAITERS_PER_ROOM
  TotalMax,      \* MAX_TOTAL_WAITERS
  SessionMax,    \* MAX_TOTAL_SESSION_BYTES, in frames
  MaxFaults,     \* bound: pages that close, networks that die, polls that
                 \* fail for the page only, control messages over the cap
  MayExpire      \* whether the room may run out of time

ASSUME RelayAssumption ==
  /\ MaxConns \in Nat /\ MaxFrames \in Nat /\ MaxFaults \in Nat
  /\ Kinds \subseteq {"ws", "lp"} /\ Senders \subseteq {"receiver", "sender"}
  /\ QueueMax \in Nat \ {0} /\ BufferMax \in Nat \ {0} /\ Sliver \in Nat
  /\ WaitersMax \in Nat /\ TotalMax \in Nat /\ SessionMax \in Nat
  /\ MayExpire \in BOOLEAN

Conn  == 1 .. MaxConns
Slot  == {"a", "b"}
Page  == {"receiver", "sender"}
Frame == [from : Conn, seq : 1 .. MaxFrames]

Other(s) == IF s = "a" THEN "b" ELSE "a"

VARIABLES
  roomLive,     \* the room is in the map, so that room.relay is r
  relay,        \* r.a and r.b
  sessionBytes, \* r.sessionBytes
  totalWaiters, \* _totalWaiters
  opened,       \* connections opened so far
  current,      \* a page's last connection
  kind, place,  \* of a connection: "ws" or "lp", and its slot
  ready,        \* readyState of a socket, closed of a long-poll slot
  client,       \* the page's side: "on", "left" (knows it is over), "gone"
  sent,         \* frames the page put on the connection
  handled,      \* frames of it that the server took
  backlog,      \* slot.queue, or the socket's outbound buffer
  handed,       \* history: frames handed towards the page, in order
  waiters,      \* slot.waiters: "live" polls, and "dead" ones the page gave up
  paused,       \* the feeder's TCP socket is paused
  timer,        \* ws._backpressureTimer is set
  slack,        \* parsed frames that still flow out of a paused socket
  relayPings, isAlive,
  faults,       \* leaves, dead networks, lost polls, oversized messages
  oversized     \* history: an oversized message came

connVars  == <<opened, current, kind, place>>
slotVars  == <<roomLive, relay, ready, client>>
pollVars  == <<waiters, totalWaiters>>
flowVars  == <<sent, handled, backlog, handed, sessionBytes>>
pauseVars == <<paused, timer, slack>>
beatVars  == <<relayPings, isAlive>>
faultVars == <<faults, oversized>>
vars == <<connVars, slotVars, pollVars, flowVars, pauseVars, beatVars, faultVars>>

TypeOK ==
  /\ roomLive \in BOOLEAN
  /\ relay \in [Slot -> 0 .. MaxConns]
  /\ sessionBytes \in Nat /\ totalWaiters \in 0 .. TotalMax
  /\ opened \in 0 .. MaxConns
  /\ current \in [Page -> 0 .. MaxConns]
  /\ kind \in [Conn -> {"none", "ws", "lp"}]
  /\ place \in [Conn -> Slot]
  /\ ready \in [Conn -> {"none", "open", "closing", "terminated", "closed"}]
  /\ client \in [Conn -> {"on", "left", "gone"}]
  /\ sent \in [Conn -> 0 .. MaxFrames] /\ handled \in [Conn -> 0 .. MaxFrames]
  /\ backlog \in [Conn -> Seq(Frame)] /\ handed \in [Conn -> Seq(Frame)]
  /\ waiters \in [Conn -> Seq({"live", "dead"})]
  /\ paused \in [Conn -> BOOLEAN] /\ timer \in [Conn -> BOOLEAN]
  /\ slack \in [Conn -> 0 .. Sliver]
  /\ relayPings \subseteq Conn /\ isAlive \in [Conn -> BOOLEAN]
  /\ faults \in 0 .. MaxFaults /\ oversized \in BOOLEAN

Init ==
  /\ roomLive = TRUE
  /\ relay = [s \in Slot |-> 0]
  /\ sessionBytes = 0 /\ totalWaiters = 0 /\ opened = 0
  /\ current = [p \in Page |-> 0]
  /\ kind = [c \in Conn |-> "none"]
  /\ place = [c \in Conn |-> "a"]
  /\ ready = [c \in Conn |-> "none"]
  /\ client = [c \in Conn |-> "left"]
  /\ sent = [c \in Conn |-> 0] /\ handled = [c \in Conn |-> 0]
  /\ backlog = [c \in Conn |-> <<>>] /\ handed = [c \in Conn |-> <<>>]
  /\ waiters = [c \in Conn |-> <<>>]
  /\ paused = [c \in Conn |-> FALSE] /\ timer = [c \in Conn |-> FALSE]
  /\ slack = [c \in Conn |-> 0]
  /\ relayPings = {} /\ isAlive = [c \in Conn |-> FALSE]
  /\ faults = 0 /\ oversized = FALSE
-----------------------------------------------------------------------------
(* Helpers of the handlers.                                                *)

IsWs(c) == kind[c] = "ws"
IsLp(c) == kind[c] = "lp"

\* The page of c is there and has something to send.
Sends(c) ==
  /\ client[c] = "on" /\ sent[c] < MaxFrames
  /\ \E p \in Senders : current[p] = c

\* The connection in the opposite slot, or 0.
Peer(c)  == relay[Other(place[c])]
PeerOf(c) == {Peer(c)} \ {0}

\* Mutant: one frame more than the bound.
BacklogFullLate(d, n) ==
  /\ d # 0 /\ ready[d] = "open"
  /\ \/ IsLp(d) /\ n > QueueMax
     \/ IsWs(d) /\ n > BufferMax

\* peerBacklogFull() and peerBacklogLow() for a peer with n frames queued.
BacklogFull(d, n) ==
  /\ d # 0 /\ ready[d] = "open"
  /\ \/ IsLp(d) /\ n >= QueueMax
     \/ IsWs(d) /\ n > BufferMax

BacklogLow(d, n) ==
  \/ d = 0
  \/ ready[d] # "open"
  \/ 2 * n < (IF IsLp(d) THEN QueueMax ELSE BufferMax)

\* Polls that closeLpSlot() answers with 410 when it closes slot s.
Answered(s, lps) == IF relay[s] \in lps THEN Len(waiters[relay[s]]) ELSE 0

\* Mutant: a socket that is told to close gives up its slot at once.
TeardownFreeing(told, ended, off) ==
  /\ ready' = [c \in Conn |->
       IF c \in ended \/ (c \in told /\ IsLp(c)) THEN "closed"
       ELSE IF c \in told /\ ready[c] = "open" THEN "closing" ELSE ready[c]]
  /\ relay' = [s \in Slot |-> IF relay[s] \in told \cup ended THEN 0 ELSE relay[s]]
  /\ client' = [c \in Conn |-> IF c \in off THEN "left" ELSE client[c]]
  /\ UNCHANGED pollVars

\* teardownPeer() and closeLpSlot() of every connection in told: a long-poll
\* slot is closed, emptied and its polls answered, a socket starts to close.
\* The sockets in ended are gone and leave their slot; the pages in off know
\* by themselves.  A page learns of its closed slot from a poll that waits.
Teardown(told, ended, off) ==
  LET lps == {c \in told : IsLp(c)} IN
  /\ ready' = [c \in Conn |->
       IF c \in ended \cup lps THEN "closed"
       ELSE IF c \in told /\ ready[c] = "open" THEN "closing" ELSE ready[c]]
  /\ relay' = [s \in Slot |-> IF relay[s] \in lps \cup ended THEN 0 ELSE relay[s]]
  /\ client' = [c \in Conn |->
       IF c \in off \/ (c \in lps /\ \E i \in DOMAIN waiters[c] : waiters[c][i] = "live")
       THEN "left" ELSE client[c]]
  /\ waiters' = [c \in Conn |-> IF c \in lps THEN <<>> ELSE waiters[c]]
  /\ totalWaiters' = totalWaiters - Answered("a", lps) - Answered("b", lps)

\* deliverToPeer(): without a peer, or with one that is closing, the frame is
\* dropped; a long-poll slot hands its queue's head to the first waiter.
Deliver(d, f) ==
  \/ /\ d = 0 \/ (d # 0 /\ ready[d] # "open")
     /\ UNCHANGED <<backlog, handed, pollVars>>
  \/ /\ d # 0 /\ ready[d] = "open"
     /\ IsWs(d) \/ waiters[d] = <<>>
     /\ backlog' = [backlog EXCEPT ![d] = Append(@, f)]
     /\ UNCHANGED <<handed, pollVars>>
  \/ /\ d # 0 /\ ready[d] = "open" /\ IsLp(d) /\ waiters[d] # <<>>
     /\ LET queue == Append(backlog[d], f) IN
          /\ handed' = [handed EXCEPT ![d] = Append(@, Head(queue))]
          /\ backlog' = [backlog EXCEPT ![d] = Tail(queue)]
     /\ waiters' = [waiters EXCEPT ![d] = Tail(@)]
     /\ totalWaiters' = totalWaiters - 1

\* maybePauseWsFeeder(), after the delivery.  A paused socket gives up the
\* frames its parser already holds, and no more.
MaybePause(c) ==
  LET d     == Peer(c)
      pause == /\ ~timer[c] /\ roomLive
               /\ d # 0 /\ BacklogFull(d, Len(backlog'[d]))
  IN  /\ timer'  = [timer EXCEPT ![c] = @ \/ pause]
      /\ paused' = [paused EXCEPT ![c] = @ \/ pause]
      /\ slack'  = [slack EXCEPT ![c] = IF paused[c] THEN @ - 1
                                        ELSE IF pause THEN Sliver ELSE @]
-----------------------------------------------------------------------------
(* Claiming a slot: the upgrade of a WebSocket, the long-poll handshake.   *)

\* A page whose last connection is over opens the next one.  The first free
\* slot is taken at once; without one the answer is 409 and the page retries.
Claim(p, k, s) ==
  /\ roomLive /\ k \in Kinds /\ opened < MaxConns
  /\ current[p] = 0 \/ (current[p] # 0 /\ client[current[p]] # "on")
  /\ relay[s] = 0 /\ (s = "b" => relay["a"] # 0)
  /\ LET c == opened + 1 IN
       /\ opened' = c
       /\ current' = [current EXCEPT ![p] = c]
       /\ kind' = [kind EXCEPT ![c] = k]
       /\ place' = [place EXCEPT ![c] = s]
       /\ relay' = [relay EXCEPT ![s] = c]
       /\ ready' = [ready EXCEPT ![c] = "open"]
       /\ client' = [client EXCEPT ![c] = "on"]
       /\ UNCHANGED <<roomLive, pollVars, flowVars, pauseVars, faultVars>>

WsUpgrade(p) ==
  /\ \E s \in Slot : Claim(p, "ws", s)
  /\ relayPings' = relayPings \cup {opened'}
  /\ isAlive' = [isAlive EXCEPT ![opened'] = TRUE]

LpHandshake(p) ==
  /\ \E s \in Slot : Claim(p, "lp", s)
  /\ UNCHANGED beatVars
-----------------------------------------------------------------------------
(* Frames.                                                                 *)

\* The page puts a frame on its socket; it waits there for the server.
ClientSend(c) ==
  /\ IsWs(c) /\ Sends(c) /\ ready[c] \in {"open", "closing"}
  /\ sent' = [sent EXCEPT ![c] = @ + 1]
  /\ UNCHANGED <<connVars, slotVars, pollVars, handled, backlog, handed,
                 sessionBytes, pauseVars, beatVars, faultVars>>

\* The message event of a socket.  It comes while the socket is closing, too.
WsMessage(c) ==
  /\ IsWs(c) /\ ready[c] \in {"open", "closing"}
  /\ handled[c] < sent[c]
  /\ paused[c] => slack[c] > 0
  /\ handled' = [handled EXCEPT ![c] = @ + 1]
  /\ sessionBytes' = sessionBytes + 1
  /\ \/ /\ sessionBytes' > SessionMax
        /\ Teardown({c} \cup PeerOf(c), {}, {})
        /\ slack' = [slack EXCEPT ![c] = IF paused[c] THEN @ - 1 ELSE @]
        /\ UNCHANGED <<roomLive, backlog, handed, paused, timer>>
     \/ /\ sessionBytes' <= SessionMax
        /\ Deliver(Peer(c), [from |-> c, seq |-> handled'[c]])
        /\ MaybePause(c)
        /\ UNCHANGED slotVars
  /\ UNCHANGED <<connVars, sent, beatVars, faultVars>>

\* /relay/up.  A full peer is answered 429, and the page posts again.
LpUp(c) ==
  /\ IsLp(c) /\ Sends(c) /\ roomLive /\ ready[c] = "open"
  /\ Peer(c) # 0 => ~BacklogFull(Peer(c), Len(backlog[Peer(c)]))
  /\ sent' = [sent EXCEPT ![c] = @ + 1]
  /\ handled' = [handled EXCEPT ![c] = sent'[c]]
  /\ sessionBytes' = sessionBytes + 1
  /\ \/ /\ sessionBytes' > SessionMax
        /\ Teardown({c} \cup PeerOf(c), {}, {})
        /\ UNCHANGED <<roomLive, backlog, handed>>
     \/ /\ sessionBytes' <= SessionMax
        /\ Deliver(Peer(c), [from |-> c, seq |-> sent'[c]])
        /\ UNCHANGED slotVars
  /\ UNCHANGED <<connVars, pauseVars, beatVars, faultVars>>

\* A control message over the cap closes the connection that sent it; unlike
\* every other end, that of a long-poll slot does not take the peer along.
Oversized(c) ==
  /\ faults < MaxFaults /\ roomLive
  /\ client[c] = "on" /\ ready[c] = "open" /\ handled[c] = sent[c] /\ ~paused[c]
  /\ faults' = faults + 1 /\ oversized' = TRUE
  /\ Teardown({c}, {}, {})
  /\ UNCHANGED <<connVars, roomLive, flowVars, pauseVars, beatVars>>

\* The socket's outbound buffer reaches the page, also while it closes.
WsTake(c) ==
  /\ IsWs(c) /\ client[c] = "on" /\ ready[c] \in {"open", "closing"}
  /\ backlog[c] # <<>>
  /\ handed' = [handed EXCEPT ![c] = Append(@, Head(backlog[c]))]
  /\ backlog' = [backlog EXCEPT ![c] = Tail(@)]
  /\ UNCHANGED <<connVars, slotVars, pollVars, sent, handled, sessionBytes,
                 pauseVars, beatVars, faultVars>>

\* Mutant: the interval ends, and nobody resumes the socket.
ResumePollIdle(c) ==
  /\ timer[c]
  /\ timer' = [timer EXCEPT ![c] = FALSE]
  /\ UNCHANGED <<connVars, slotVars, pollVars, flowVars, paused, slack, beatVars,
                 faultVars>>

\* The interval of a paused feeder.  It stops once the peer has drained, or
\* once its own socket is no longer open; only an open socket is resumed.
ResumePoll(c) ==
  /\ timer[c]
  /\ LET d == IF roomLive THEN Peer(c) ELSE 0 IN
       ready[c] # "open" \/ d = 0 \/ (d # 0 /\ BacklogLow(d, Len(backlog[d])))
  /\ timer' = [timer EXCEPT ![c] = FALSE]
  /\ paused' = [paused EXCEPT ![c] = @ /\ ready[c] # "open"]
  /\ slack' = [slack EXCEPT ![c] = IF ready[c] = "open" THEN 0 ELSE @]
  /\ UNCHANGED <<connVars, slotVars, pollVars, flowVars, beatVars, faultVars>>
-----------------------------------------------------------------------------
(* Long polls.                                                             *)

\* Mutant: the newest frame of the queue is answered.
LpPollNewest(c) ==
  /\ IsLp(c) /\ client[c] = "on" /\ ready[c] = "open" /\ backlog[c] # <<>>
  /\ handed' = [handed EXCEPT ![c] = Append(@, backlog[c][Len(backlog[c])])]
  /\ backlog' = [backlog EXCEPT ![c] = SubSeq(@, 1, Len(@) - 1)]
  /\ UNCHANGED <<connVars, slotVars, pollVars, sent, handled, sessionBytes,
                 pauseVars, beatVars, faultVars>>

\* /relay/down: the head of the queue at once, or the poll waits.  A page has
\* one poll out; those that it gave up may still wait at the server.  The
\* slot of a closed connection is empty, so that its page's polls are refused
\* (401) and the page, which only knows 410, keeps polling.
LpPoll(c) ==
  /\ IsLp(c) /\ client[c] = "on" /\ roomLive /\ ready[c] = "open"
  /\ \A i \in DOMAIN waiters[c] : waiters[c][i] = "dead"
  /\ \/ /\ backlog[c] # <<>>
        /\ handed' = [handed EXCEPT ![c] = Append(@, Head(backlog[c]))]
        /\ backlog' = [backlog EXCEPT ![c] = Tail(@)]
        /\ UNCHANGED pollVars
     \/ /\ backlog[c] = <<>>
        /\ Len(waiters[c]) < WaitersMax /\ totalWaiters < TotalMax
        /\ waiters' = [waiters EXCEPT ![c] = Append(@, "live")]
        /\ totalWaiters' = totalWaiters + 1
        /\ UNCHANGED <<backlog, handed>>
  /\ UNCHANGED <<connVars, slotVars, sent, handled, sessionBytes, pauseVars,
                 beatVars, faultVars>>

\* Mutant: a poll that was cut is not counted off.
PollSettlesUncounted(c) ==
  /\ \E i \in DOMAIN waiters[c] :
       waiters' = [waiters EXCEPT ![c] =
         SubSeq(@, 1, i - 1) \o SubSeq(@, i + 1, Len(@))]
  /\ UNCHANGED <<connVars, slotVars, totalWaiters, flowVars, pauseVars, beatVars,
                 faultVars>>

\* settle(): a poll ends with 204 after its time, or because it was cut.
PollSettles(c) ==
  /\ \E i \in DOMAIN waiters[c] :
       waiters' = [waiters EXCEPT ![c] =
         SubSeq(@, 1, i - 1) \o SubSeq(@, i + 1, Len(@))]
  /\ totalWaiters' = totalWaiters - 1
  /\ UNCHANGED <<connVars, slotVars, flowVars, pauseVars, beatVars, faultVars>>

\* A poll fails for the page, which polls again; the server still holds it.
PollLost(c) ==
  /\ faults < MaxFaults /\ client[c] = "on"
  /\ \E i \in DOMAIN waiters[c] :
       /\ waiters[c][i] = "live"
       /\ waiters' = [waiters EXCEPT ![c][i] = "dead"]
  /\ faults' = faults + 1
  /\ UNCHANGED <<connVars, slotVars, totalWaiters, flowVars, pauseVars, beatVars,
                 oversized>>
-----------------------------------------------------------------------------
(* The end of a connection.                                                *)

\* The page closes: a socket sends its close frame behind its frames, a
\* long-poll page posts /relay/close.
ClientCloses(c) ==
  /\ faults < MaxFaults /\ client[c] = "on" /\ ready[c] = "open"
  /\ faults' = faults + 1
  /\ \/ /\ IsWs(c)
        /\ client' = [client EXCEPT ![c] = "left"]
        /\ UNCHANGED <<relay, ready, pollVars>>
     \/ /\ IsLp(c) /\ roomLive
        /\ Teardown({c} \cup PeerOf(c), {}, {c})
  /\ UNCHANGED <<connVars, roomLive, flowVars, pauseVars, beatVars,
                 oversized>>

\* The page's network dies; nobody is told.
Vanish(c) ==
  /\ faults < MaxFaults /\ client[c] = "on" /\ ready[c] = "open"
  /\ faults' = faults + 1
  /\ client' = [client EXCEPT ![c] = "gone"]
  /\ waiters' = [waiters EXCEPT ![c] = [i \in DOMAIN @ |-> "dead"]]
  /\ UNCHANGED <<connVars, roomLive, relay, ready, totalWaiters, flowVars,
                 pauseVars, beatVars, oversized>>

\* The page sees the close of its socket, behind the frames sent before it.
ClientSeesClose(c) ==
  /\ IsWs(c) /\ client[c] = "on"
  /\ \/ ready[c] = "closing" /\ backlog[c] = <<>>
     \/ ready[c] \in {"terminated", "closed"}
  /\ client' = [client EXCEPT ![c] = "left"]
  /\ UNCHANGED <<connVars, roomLive, relay, ready, pollVars, flowVars, pauseVars,
                 beatVars, faultVars>>

\* What brings the close event of a socket: the page's close frame has been
\* read, the library gave up waiting for it, or the socket was destroyed.
CloseIsDue(c) ==
  \/ /\ ready[c] \in {"open", "closing"} /\ client[c] = "left"
     /\ handled[c] = sent[c] /\ ~paused[c]
  \/ ready[c] = "closing" /\ (paused[c] \/ client[c] = "gone")
  \/ ready[c] = "terminated"

\* Mutant: the peer is not told.
WsClosedQuietly(c) ==
  /\ IsWs(c) /\ CloseIsDue(c)
  /\ relayPings' = relayPings \ {c}
  /\ timer' = [timer EXCEPT ![c] = FALSE]
  /\ Teardown({}, {c}, {})
  /\ UNCHANGED <<connVars, roomLive, flowVars, paused, slack, isAlive, faultVars>>

\* The close event: the slot is freed, and whoever is in the other one falls.
WsClosed(c) ==
  /\ IsWs(c) /\ CloseIsDue(c)
  /\ relayPings' = relayPings \ {c}
  /\ timer' = [timer EXCEPT ![c] = FALSE]
  /\ Teardown(IF roomLive THEN PeerOf(c) ELSE {}, {c}, {})
  /\ UNCHANGED <<connVars, roomLive, flowVars, paused, slack, isAlive, faultVars>>

\* The idle timer of a long-poll slot: a page that is there polls in time.
LpIdle(c) ==
  /\ IsLp(c) /\ ready[c] = "open" /\ client[c] # "on"
  /\ Teardown({c} \cup PeerOf(c), {}, {})
  /\ UNCHANGED <<connVars, roomLive, flowVars, pauseVars, beatVars, faultVars>>

\* Mutant: every socket is taken to be alive.
HeartbeatTrusting ==
  /\ relayPings # {}
  /\ isAlive' = [c \in Conn |-> IF c \in relayPings THEN TRUE ELSE isAlive[c]]
  /\ UNCHANGED <<connVars, slotVars, pollVars, flowVars, pauseVars, relayPings,
                 faultVars>>

\* The heartbeat.  An interval is long enough for every pong to be read that
\* can be: only a page that is gone, or one whose socket is paused, misses it.
Heartbeat ==
  /\ relayPings # {}
  /\ \A c \in relayPings : ~isAlive[c] => client[c] = "gone" \/ paused[c]
                                          \/ ready[c] = "terminated"
  /\ LET dead == {c \in relayPings : ~isAlive[c]} IN
       /\ ready' = [c \in Conn |-> IF c \in dead THEN "terminated" ELSE ready[c]]
       /\ relayPings' = relayPings \ dead
  /\ isAlive' = [c \in Conn |-> IF c \in relayPings THEN FALSE ELSE isAlive[c]]
  /\ UNCHANGED <<connVars, roomLive, relay, client, pollVars, flowVars, pauseVars,
                 faultVars>>

Pong(c) ==
  /\ c \in relayPings /\ ~isAlive[c] /\ client[c] # "gone" /\ ~paused[c]
  /\ isAlive' = [isAlive EXCEPT ![c] = TRUE]
  /\ UNCHANGED <<connVars, slotVars, pollVars, flowVars, pauseVars, relayPings,
                 faultVars>>

\* cleanupRooms(): a room in which nothing moved for the time to live, which
\* is much longer than every timer of a connection.
Expire ==
  /\ MayExpire /\ roomLive /\ opened > 0
  /\ \A c \in Conn :
       \/ ready[c] \in {"none", "closed"}
       \/ /\ ready[c] = "open" /\ client[c] = "on"
          /\ handled[c] = sent[c] /\ backlog[c] = <<>>
  /\ roomLive' = FALSE
  /\ Teardown({relay[s] : s \in Slot} \ {0}, {}, {})
  /\ UNCHANGED <<connVars, flowVars, pauseVars, beatVars, faultVars>>
-----------------------------------------------------------------------------
ServerStep(c) ==
  \/ WsMessage(c) \/ ResumePoll(c) \/ WsClosed(c) \/ LpIdle(c) \/ PollSettles(c)

ClientStep(c) ==
  \/ WsTake(c) \/ LpPoll(c) \/ ClientSeesClose(c) \/ Pong(c)

Environment(c) ==
  \/ ClientSend(c) \/ LpUp(c) \/ Oversized(c) \/ ClientCloses(c) \/ Vanish(c)
  \/ PollLost(c)

Next ==
  \/ \E p \in Page : WsUpgrade(p) \/ LpHandshake(p)
  \/ \E c \in Conn : ServerStep(c) \/ ClientStep(c) \/ Environment(c)
  \/ Heartbeat
  \/ Expire

Spec == Init /\ [][Next]_vars

\* Timers fire, events are handled, and a page that is there reads and polls.
\* The heartbeat is relied on only while some page is gone: between pages that
\* are there, a pause has to end without it.  Nothing is assumed of what pages
\* send, of their leaving and of the network.
Fairness ==
  /\ \A c \in Conn :
       /\ WF_vars(WsMessage(c)) /\ WF_vars(ResumePoll(c))
       /\ WF_vars(WsClosed(c) \/ LpIdle(c)) /\ WF_vars(WsTake(c) \/ LpPoll(c))
       /\ WF_vars(ClientSeesClose(c)) /\ WF_vars(Pong(c))
  /\ WF_vars(Heartbeat /\ \E c \in Conn : client[c] = "gone")

FairSpec == Spec /\ Fairness
-----------------------------------------------------------------------------
(* What the relay keeps.                                                   *)

\* What server.js forwarded to d or holds for it, in order.
Stream(d) == handed[d] \o backlog[d]

\* A connection that is not over holds its slot.  One outside its slot would
\* have nobody to tear it down, and its close event (which frees the slot by
\* name, server.js:1771) would evict whoever took the slot meanwhile.
HoldsItsSlot ==
  roomLive =>
    \A c \in Conn :
      (ready[c] = "open" \/ (IsWs(c) /\ ready[c] \in {"closing", "terminated"}))
      => relay[place[c]] = c

\* What a connection is given is an unbroken run of the frames of one sender,
\* whatever paused, reconnected or left on the way: frames carry no numbers,
\* so that a hole or a change of sender would corrupt a file (server.js:1639).
\* An oversized control message on a long-poll slot is the exception, here
\* and below: it leaves the peer open for whoever takes the slot next.
StreamIsWhole ==
  ~oversized =>
    \A d \in Conn : \A i \in 1 .. (Len(Stream(d)) - 1) :
      /\ Stream(d)[i + 1].from = Stream(d)[i].from
      /\ Stream(d)[i + 1].seq = Stream(d)[i].seq + 1

\* Once one half is gone the connection is dead (server.js:1773): whoever was
\* given frames of a connection is not open any more when that one is over.
HalvesEndTogether ==
  ~oversized =>
    \A d \in Conn : ready[d] = "open" =>
      \A i \in DOMAIN Stream(d) : ready[Stream(d)[i].from] # "closed"

\* Backpressure works: what waits for a connection exceeds its bound by the
\* frames that were in the feeder's parser when its socket was paused, and by
\* no more, over any number of pauses, feeders and kinds (server.js:1643).
QueueBounded ==
  ~oversized =>
    \A d \in Conn :
      Len(backlog[d]) <= (IF IsLp(d) THEN QueueMax ELSE BufferMax + 1) + Sliver

\* The shared counter of waiting polls is exact: one decrement too few in any
\* of the ways a poll ends would in the end refuse every room's polls (503).
WaitersCounted ==
  totalWaiters = Answered("a", Conn) + Answered("b", Conn)

\* A feeder that is paused for a slow, dead or replaced peer while its own
\* socket is open does not stay paused (server.js:1598).
Starved(c) == paused[c] /\ ready[c] = "open"

PausedFeederResumes == (\E c \in Conn : Starved(c)) ~> ~(\E c \in Conn : Starved(c))

\* A page whose network died does not keep its slot: the heartbeat or the idle
\* timer frees it, so that the page can come back (server.js:1786).
Haunts(c) == client[c] = "gone" /\ ready[c] # "closed"

DeadSlotIsFreed == (\E c \in Conn : Haunts(c)) ~> ~(\E c \in Conn : Haunts(c))
-----------------------------------------------------------------------------
(* What comments and documentation say, and the code does not do.          *)

\* "410 -> slot closed by server (peer gone, etc)" (server.js:1381): the page
\* of a slot that the server closed learns of it and can open a new one.
ClosedSlotIsAnnounced ==
  \A c \in Conn : (IsLp(c) /\ ready[c] = "closed" /\ ~oversized) ~> client[c] # "on"

\* "the rejoin allocates a fresh slot.  The per-pairing session-byte cap
\* restarts at zero on the server" (ws-transport.js:122).
Carried(c) == handled[c] + (IF Peer(c) = 0 THEN 0 ELSE handled[Peer(c)])

CapIsPerPairing ==
  [][\A c \in Conn : (WsMessage(c) \/ LpUp(c)) /\ Carried(c) < SessionMax
                     => sessionBytes' <= SessionMax]_vars

\* "the pair is symmetric; once one half is gone the connection is dead"
\* (server.js:1773): a socket that was told to close has lost its partner, so
\* that its close event finds nobody who is still in use.
CloseHitsNobodyElse ==
  [][\A c \in Conn : WsClosed(c) /\ ready[c] = "closing" /\ ~oversized
                     => \A d \in PeerOf(c) : ready[d] # "open"]_vars

\* "a gone/closed peer reads as low so the feeder is resumed and the normal
\* teardown path runs" (server.js:1574).
LowPeerResumesFeeder ==
  [][\A c \in Conn : ResumePoll(c) => ~paused'[c]]_vars

\* "any client that fails to pong within one interval is treated as dead"
\* (server.js:1786): the heartbeat destroys no socket whose page is there.
OnlyGoneAreTerminated ==
  [][\A c \in Conn : Heartbeat /\ ready'[c] # ready[c] => client[c] = "gone"]_vars
=============================================================================
