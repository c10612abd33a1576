----------------------------- MODULE RoomServer -----------------------------
(***************************************************************************)
(* The signaling API of server.js and the two pages that use it through    *)
(* webrtc.js: a receiver makes a room, stores an offer and waits for the   *)
(* answer with long polls; a sender fetches the offer and stores an        *)
(* answer; both relay ICE candidates through the room.  Rooms expire, and  *)
(* a rate limiter stands before every call.                                *)
(*                                                                         *)
(* A description is the number of the peer connection that made it.  Times *)
(* are ages that grow with Tick up to the age that tells nothing more, so  *)
(* that no clock has to be bounded.                                        *)
(***************************************************************************)
EXTENDS Integers, Sequences, FiniteSets

CONSTANTS
  MaxRooms,     \* bound: rooms ever made
  MaxPcs,       \* bound: peer connections ever made by either page
  Trickling,    \* bound: pages whose browsers find candidates
  MaxCands,     \* bound: candidates of one peer connection
  MaxFlying,    \* bound: candidate polls of one page in flight
  Limited,      \* bound: the limiters that are followed, <<page, limit type>>;
                \* any other may refuse a call at will
  MaxRequests,  \* maxRequests of a limit type
  Window,       \* windowMs, in ticks
  MaxAge,       \* maxAge of cleanupRateLimiters()
  RoomTTL,      \* ROOM_TTL
  WaitersMax,   \* MAX_WAITERS_PER_ROOM
  TotalMax,     \* MAX_TOTAL_WAITERS
  IceMax,       \* MAX_ICE_CANDIDATES
  MaxFaults     \* bound: polls that fail for the page

Page == {"receiver", "sender"}

ASSUME RoomAssumption ==
  /\ Trickling \subseteq Page
  /\ Limited \subseteq Page \X {"roomCreation", "roomLookup", "general"}
  /\ {MaxRooms, MaxPcs, Window} \subseteq Nat \ {0}
  /\ MaxRequests \in [{"roomCreation", "roomLookup", "general"} -> Nat \ {0}]
  /\ {MaxCands, MaxFlying, RoomTTL, WaitersMax, TotalMax, IceMax, MaxFaults}
       \subseteq Nat
  /\ MaxAge \in Nat /\ Window <= MaxAge

Room == 1 .. MaxRooms
Pc   == 1 .. MaxPcs
Key  == Page \X {"roomCreation", "roomLookup", "general"}

None     == [to |-> 0, from |-> 0]
NoLimit  == -1                       \* blockedUntil is null
Fresh    == [ages |-> <<>>, block |-> NoLimit]

Other(p)  == IF p = "receiver" THEN "sender" ELSE "receiver"
Least(a, b) == IF a < b THEN a ELSE b

VARIABLES
  rooms,        \* rooms; age is that of created, or of lastActivity once a
                \* relay session moved data
  totalWaiters, \* _totalWaiters
  closure,      \* of a connection's GET /answer: "none", "waiting", or
                \* "settled" with its close event still to come
  limiters,     \* rateLimiters: ages of timestamps, time left of blockedUntil
  lru,          \* its keys, the least recently used first
  granted,      \* history: ages of the latest calls let through
  step,         \* where the page is in its signaling
  room,         \* roomId, 0 before there is one
  pc,           \* the page's peer connection, 0 before there is one
  remote,       \* its remote description, with the pc it was made for
  known,        \* _knownRemoteCandidateCount
  taken,        \* places of the candidates handed to pc.addIceCandidate()
  flying,       \* lengths of the candidate lists on their way to the page
  faults

apiVars   == <<limiters, lru, granted>>
pollVars  == <<totalWaiters, closure>>
iceVars   == <<known, taken, flying>>
pageVars  == <<step, room, pc, remote>>
vars == <<rooms, apiVars, pollVars, iceVars, pageVars, faults>>

Nothing == [state |-> "unborn", age |-> 0, offer |-> 0, answer |-> None,
            ice |-> [p \in Page |-> <<>>],
            waiters |-> {}]

Init ==
  /\ rooms = [r \in Room |-> Nothing]
  /\ totalWaiters = 0
  /\ closure = [c \in Pc |-> "none"]
  /\ limiters = [k \in {} |-> Fresh]
  /\ lru = <<>>
  /\ granted = [k \in Limited |-> <<>>]
  /\ step = [receiver |-> "start", sender |-> "idle"]
  /\ room = [p \in Page |-> 0]
  /\ pc = [p \in Page |-> 0]
  /\ remote = [p \in Page |-> None]
  /\ known = [p \in Page |-> 0]
  /\ taken = [p \in Page |-> {}]
  /\ flying = [p \in Page |-> {}]
  /\ faults = 0

-----------------------------------------------------------------------------
\* The rate limiter.

\* The timestamps inside the window: they are in the order of their calls, so
\* filter() keeps the last of them.
Recent(ages) ==
  LET old == {i \in 1 .. Len(ages) : ages[i] >= Window}
  IN SubSeq(ages, Cardinality(old) + 1, Len(ages))

\* The entry as checkRateLimit() finds it: made when missing, and cleared
\* with all its timestamps when its block has run out.
Entry(k) ==
  IF k \notin DOMAIN limiters \/ limiters[k].block = 0 THEN Fresh
  ELSE limiters[k]

Blocked(k) == Entry(k).block > 0
Passes(k)  == ~Blocked(k) /\ Len(Recent(Entry(k).ages)) < MaxRequests[k[2]]

\* Mutants: the block counts from now, or begins anew at every refusal.
CheckedFromNow(k) ==
  LET ages == Recent(Entry(k).ages) IN
  CASE Blocked(k) -> Entry(k)
    [] Passes(k)  -> [ages |-> Append(ages, 0), block |-> NoLimit]
    [] OTHER      -> [ages |-> ages, block |-> Window]
CheckedAnew(k) ==
  LET ages == Recent(Entry(k).ages) IN
  IF Passes(k) THEN [ages |-> Append(ages, 0), block |-> NoLimit]
  ELSE [ages |-> ages, block |-> Window]

\* What the check leaves of the entry.
Checked(k) ==
  LET ages == Recent(Entry(k).ages) IN
  CASE Blocked(k) -> Entry(k)
    [] Passes(k)  -> [ages |-> Append(ages, 0), block |-> NoLimit]
    [] OTHER      -> [ages |-> ages, block |-> Window - Head(ages)]

\* The latest calls, as many as fill a window.
Latest(ages, k) ==
  LET m == MaxRequests[k[2]] IN
  IF Len(ages) > m THEN SubSeq(ages, Len(ages) - m + 1, Len(ages)) ELSE ages

\* LruMap: set() of a new key, and get(), which makes it the newest.
Charge(p, type) ==
  LET k == <<p, type>> IN
  IF k \notin Limited THEN UNCHANGED apiVars
  ELSE
  /\ limiters' = [j \in DOMAIN limiters \cup {k} |->
                    IF j = k THEN Checked(k) ELSE limiters[j]]
  /\ lru' = Append(SelectSeq(lru, LAMBDA j : j # k), k)
  /\ granted' = IF Passes(k) THEN [granted EXCEPT ![k] = Latest(Append(@, 0), k)]
                ELSE granted

\* Keeps these entries only.
Keep(ks) ==
  /\ limiters' = [k \in ks |-> limiters[k]]
  /\ lru' = SelectSeq(lru, LAMBDA k : k \in ks)
  /\ UNCHANGED <<rooms, granted, pollVars, iceVars, pageVars, faults>>

\* A call from elsewhere evicts the entry used least recently.
Evict == lru # <<>> /\ Keep(DOMAIN limiters \ {Head(lru)})

\* cleanupRateLimiters()
Stale(k) == /\ \A i \in 1 .. Len(limiters[k].ages) : limiters[k].ages[i] >= MaxAge
            /\ limiters[k].block <= 0
CleanupRateLimiters ==
  LET kept == {k \in DOMAIN limiters : ~Stale(k)} IN
  kept # DOMAIN limiters /\ Keep(kept)

\* The call passes the limiter and validateRoomSecret().
Live(r) == r # 0 /\ rooms[r].state = "live"
Verdicts(p, type) ==
  IF <<p, type>> \in Limited THEN {Passes(<<p, type>>)} ELSE BOOLEAN
Oks(p, type) == {allowed /\ Live(room[p]) : allowed \in Verdicts(p, type)}

-----------------------------------------------------------------------------
\* The waiters of GET /answer.

\* Mutant: settle() without its flag.
SettlesAgain(c) == closure[c] # "none"

\* settle() of these requests: each counts once, whichever of its callers
\* comes first.
Settles(c) == closure[c] = "waiting"
SettleAll(cs, next) ==
  /\ closure' = [c \in Pc |-> IF c \in cs THEN next ELSE closure[c]]
  /\ totalWaiters' = totalWaiters - Cardinality({c \in cs : Settles(c)})

\* The page whose poll is among these, if it still listens.
Hears(cs) == step["receiver"] = "polling" /\ pc["receiver"] \in cs

\* The caps on waiting polls.
Full(r) ==
  Cardinality(rooms[r].waiters) >= WaitersMax \/ totalWaiters >= TotalMax

\* GET /api/rooms/:id/answer?wait=true, the loop of waitForAnswer().
PollAnswer ==
  LET c == pc["receiver"]
      r == room["receiver"]
      Next1(s) == step' = [step EXCEPT !["receiver"] = s]
  IN
  /\ step["receiver"] = "wait" /\ closure[c] = "none"
  /\ Charge("receiver", "general")
  /\ \E ok \in Oks("receiver", "general") :
     \/ /\ ok /\ rooms[r].answer # None
        /\ Next1("ice")
        /\ remote' = [remote EXCEPT !["receiver"] = rooms[r].answer]
        /\ UNCHANGED <<rooms, pollVars>>
     \/ /\ ok /\ rooms[r].answer = None /\ ~Full(r)
        /\ rooms' = [rooms EXCEPT ![r].waiters = @ \cup {c}]
        /\ closure' = [closure EXCEPT ![c] = "waiting"]
        /\ totalWaiters' = totalWaiters + 1
        /\ Next1("polling")
        /\ UNCHANGED remote
     \/ /\ ~ok \/ (rooms[r].answer = None /\ Full(r))
        /\ Next1("backoff")
        /\ UNCHANGED <<rooms, pollVars, remote>>
  /\ UNCHANGED <<iceVars, room, pc, faults>>

\* The 30 s timer of the waiter: 204, and the page asks again.
WaiterTimesOut(c) ==
  /\ closure[c] = "waiting"
  /\ SettleAll({c}, "settled")
  /\ rooms' = [r \in Room |-> [rooms[r] EXCEPT !.waiters = @ \ {c}]]
  /\ step' = [step EXCEPT !["receiver"] = IF Hears({c}) THEN "wait" ELSE @]
  /\ UNCHANGED <<apiVars, iceVars, room, pc, remote, faults>>

\* req.on('close'): after every answered poll, and when its page is gone.
ReqCloses(c) ==
  /\ \/ closure[c] = "settled"
     \/ closure[c] = "waiting" /\ ~Hears({c})
  /\ SettleAll({c}, "none")
  /\ rooms' = [r \in Room |-> [rooms[r] EXCEPT !.waiters = @ \ {c}]]
  /\ UNCHANGED <<apiVars, iceVars, pageVars, faults>>

\* The fetch fails for the page; the server learns it from the close event.
PollFails ==
  /\ step["receiver"] = "polling" /\ faults < MaxFaults
  /\ step' = [step EXCEPT !["receiver"] = "backoff"]
  /\ faults' = faults + 1
  /\ UNCHANGED <<rooms, apiVars, pollVars, iceVars, room, pc, remote>>

\* The 2 s after an unexpected status or a failed fetch.
BackoffEnds ==
  /\ step["receiver"] = "backoff"
  /\ step' = [step EXCEPT !["receiver"] = "wait"]
  /\ UNCHANGED <<rooms, apiVars, pollVars, iceVars, room, pc, remote, faults>>

-----------------------------------------------------------------------------
\* The receiver: createRoom(), createOfferAndStore(), and the same-room
\* reconnect.

\* Mutant: the count outlives the connection, as the list of the room does.
NewPcSameCount(p) ==
  /\ pc' = [pc EXCEPT ![p] = @ + 1]
  /\ taken' = [taken EXCEPT ![p] = {}]
  /\ flying' = [flying EXCEPT ![p] = {}]
  /\ UNCHANGED known

\* A new WebSendRTC and its peer connection.
NewPc(p) ==
  /\ pc' = [pc EXCEPT ![p] = @ + 1]
  /\ known' = [known EXCEPT ![p] = 0]
  /\ taken' = [taken EXCEPT ![p] = {}]
  /\ flying' = [flying EXCEPT ![p] = {}]

\* POST /api/rooms.  A refused page shows an error, and its user reloads it.
CreateRoom ==
  /\ step["receiver"] \in {"start", "failed"}
  /\ Charge("receiver", "roomCreation")
  /\ \E allowed \in Verdicts("receiver", "roomCreation") :
     \/ /\ allowed /\ pc["receiver"] < MaxPcs
        /\ \E r \in Room :
             /\ rooms[r].state = "unborn"
             /\ \A q \in 1 .. r - 1 : rooms[q].state # "unborn"
             /\ rooms' = [rooms EXCEPT ![r].state = "live"]
             /\ room' = [room EXCEPT !["receiver"] = r]
        /\ NewPc("receiver")
        /\ step' = [step EXCEPT !["receiver"] = "offer"]
        /\ remote' = [remote EXCEPT !["receiver"] = None]
     \/ /\ ~allowed
        /\ step' = [step EXCEPT !["receiver"] = "failed"]
        /\ UNCHANGED <<rooms, iceVars, room, pc, remote>>
  /\ UNCHANGED <<pollVars, faults>>

\* POST /offer replaces the offer and nothing else of the room.
StoreOffer ==
  /\ step["receiver"] = "offer"
  /\ Charge("receiver", "general")
  /\ \E ok \in Oks("receiver", "general") :
     /\ rooms' = IF ok
                 THEN [rooms EXCEPT ![room["receiver"]].offer = pc["receiver"]]
                 ELSE rooms
     /\ step' = [step EXCEPT !["receiver"] = IF ok THEN "wait" ELSE "failed"]
  /\ UNCHANGED <<pollVars, iceVars, room, pc, remote, faults>>

\* onDisconnected(), after a drop of any leg or the connection timeout:
\* close() aborts the poll, and a new connection offers in the same room.
Renew ==
  /\ step["receiver"] \in {"wait", "polling", "backoff", "ice", "up"}
  /\ pc["receiver"] < MaxPcs
  /\ NewPc("receiver")
  /\ step' = [step EXCEPT !["receiver"] = "offer"]
  /\ remote' = [remote EXCEPT !["receiver"] = None]
  /\ UNCHANGED <<rooms, apiVars, pollVars, room, faults>>

-----------------------------------------------------------------------------
\* The sender: joinRoom().

\* The user scans the receiver's QR code, or the page rejoins its own room.
Join ==
  /\ step["sender"] \in {"idle", "failed", "ice", "up"}
  /\ \E r \in {room["receiver"], room["sender"]} \ {0} :
       room' = [room EXCEPT !["sender"] = r]
  /\ step' = [step EXCEPT !["sender"] = "check"]
  /\ remote' = [remote EXCEPT !["sender"] = None]
  /\ flying' = [flying EXCEPT !["sender"] = {}]
  /\ UNCHANGED <<rooms, apiVars, pollVars, known, taken, pc, faults>>

\* GET /api/rooms/:id until the room has an offer, or the deadline passes.
CheckRoom ==
  /\ step["sender"] = "check"
  /\ Charge("sender", "roomLookup")
  /\ \E ok \in Oks("sender", "roomLookup") :
     LET ready == ok /\ rooms[room["sender"]].offer # 0 IN
     \/ ready /\ step' = [step EXCEPT !["sender"] = "getOffer"]
     \/ ~ready /\ step' = [step EXCEPT !["sender"] = "failed"]
     \/ ok /\ ~ready /\ UNCHANGED step
  /\ UNCHANGED <<rooms, pollVars, iceVars, room, pc, remote, faults>>

\* GET /offer, createPeerConnection() and setRemoteDescription().
GetOffer ==
  /\ step["sender"] = "getOffer" /\ pc["sender"] < MaxPcs
  /\ Charge("sender", "roomLookup")
  /\ \E ok \in Oks("sender", "roomLookup") :
     IF ok
     THEN /\ NewPc("sender")
          /\ remote' = [remote EXCEPT !["sender"] =
               [to |-> 0, from |-> rooms[room["sender"]].offer]]
          /\ step' = [step EXCEPT !["sender"] = "answer"]
     ELSE /\ step' = [step EXCEPT !["sender"] = "failed"]
          /\ UNCHANGED <<iceVars, pc, remote>>
  /\ UNCHANGED <<rooms, pollVars, room, faults>>

\* POST /answer wakes every waiter of the room with it.
PostAnswer ==
  LET r == room["sender"]
      answer == [to |-> remote["sender"].from, from |-> pc["sender"]]
      woken == rooms[r].waiters
  IN
  /\ step["sender"] = "answer"
  /\ Charge("sender", "general")
  /\ \E ok \in Oks("sender", "general") :
     IF ok
     THEN /\ rooms' = [rooms EXCEPT ![r].answer = answer, ![r].waiters = {}]
          /\ SettleAll(woken, "settled")
          /\ step' = [receiver |-> IF Hears(woken) THEN "ice"
                                   ELSE step["receiver"],
                      sender |-> "ice"]
          /\ remote' = [remote EXCEPT !["receiver"] =
                          IF Hears(woken) THEN answer ELSE @]
     ELSE /\ step' = [step EXCEPT !["sender"] = "failed"]
          /\ UNCHANGED <<rooms, pollVars, remote>>
  /\ UNCHANGED <<iceVars, room, pc, faults>>

-----------------------------------------------------------------------------
\* ICE candidates.

\* onicecandidate, POST /ice/offer or /ice/answer.  A refused one is lost, and
\* leaves room for another under the bound.
Candidate(p) ==
  LET r == room[p]
      mine == {i \in 1 .. Len(rooms[r].ice[p]) : rooms[r].ice[p][i] = pc[p]}
  IN
  /\ p \in Trickling /\ Live(r)
  /\ step[p] \in IF p = "receiver"
                 THEN {"offer", "wait", "polling", "backoff", "ice"}
                 ELSE {"answer", "ice"}
  /\ Cardinality(mine) < MaxCands
  /\ Charge(p, "general")
  /\ \E ok \in Oks(p, "general") :
       rooms' = IF ok /\ Len(rooms[r].ice[p]) < IceMax
                THEN [rooms EXCEPT ![r].ice[p] = Append(@, pc[p])]
                ELSE rooms
  /\ UNCHANGED <<pollVars, iceVars, pageVars, faults>>

\* GET /ice/... of the 1 Hz interval, which does not wait for the last one.
\* Polls that bring nothing new are left out.
FetchIce(p) ==
  /\ step[p] \in {"answer", "ice"} /\ Live(room[p])
  /\ LET n == Len(rooms[room[p]].ice[Other(p)]) IN
     /\ n > known[p] /\ n \notin flying[p]
     /\ Cardinality(flying[p]) < MaxFlying
     /\ \E ok \in Oks(p, "general") :
          flying' = IF ok THEN [flying EXCEPT ![p] = @ \cup {n}] ELSE flying
  /\ Charge(p, "general")
  /\ UNCHANGED <<rooms, pollVars, known, taken, pageVars, faults>>

\* The rest of fetchRemoteIceCandidates(), when its list arrives: the slice
\* from what is known on goes to the peer connection.
TakeIce(p) == \E n \in flying[p] :
  /\ flying' = [flying EXCEPT ![p] = @ \ {n}]
  /\ taken' = [taken EXCEPT ![p] = @ \cup (known[p] + 1 .. n)]
  /\ known' = [known EXCEPT ![p] = n]
  /\ UNCHANGED <<rooms, apiVars, pollVars, pageVars, faults>>

\* The browsers: the connection comes up when the descriptions are of each
\* other and one side has a candidate of the other.
Connect ==
  /\ step["receiver"] = "ice" /\ step["sender"] = "ice"
  /\ remote["receiver"] = [to |-> pc["receiver"], from |-> pc["sender"]]
  /\ remote["sender"].from = pc["receiver"]
  /\ room["receiver"] = room["sender"] /\ Live(room["sender"])
  /\ \E p \in Page, i \in 1 .. IceMax :
       i \in taken[p] /\ rooms[room[p]].ice[Other(p)][i] = pc[Other(p)]
  /\ step' = [p \in Page |-> "up"]
  /\ UNCHANGED <<rooms, apiVars, pollVars, iceVars, room, pc, remote, faults>>

-----------------------------------------------------------------------------
\* Time.

\* A relay session of the room moves data: from now on its silence counts,
\* not its age.
RelayMoves(r) ==
  /\ Live(r) /\ rooms[r].age > 0
  /\ rooms' = [rooms EXCEPT ![r].age = 0]
  /\ UNCHANGED <<apiVars, pollVars, iceVars, pageVars, faults>>

\* cleanupRooms(): waiters of an expired room are answered 404, and the page
\* that hears it starts a new pairing.
Expired(r) == Live(r) /\ rooms[r].age > RoomTTL
Drained == UNION {rooms[r].waiters : r \in {q \in Room : Expired(q)}}
CleanupRooms ==
  /\ \E r \in Room : Expired(r)
  /\ SettleAll(Drained, "settled")
  /\ rooms' = [r \in Room |-> IF Expired(r) THEN [Nothing EXCEPT !.state = "gone"]
                              ELSE rooms[r]]
  /\ step' = [step EXCEPT !["receiver"] = IF Hears(Drained) THEN "start" ELSE @]
  /\ UNCHANGED <<apiVars, iceVars, room, pc, remote, faults>>

Older(ages, cap) == [i \in 1 .. Len(ages) |-> Least(ages[i] + 1, cap)]
Tick ==
  /\ rooms' = [r \in Room |-> IF ~Live(r) THEN rooms[r] ELSE
       [rooms[r] EXCEPT !.age = Least(@ + 1, RoomTTL + 1)]]
  /\ limiters' = [k \in DOMAIN limiters |->
       [ages |-> Older(limiters[k].ages, MaxAge),
        block |-> IF limiters[k].block > 0 THEN limiters[k].block - 1
                  ELSE limiters[k].block]]
  /\ granted' = [k \in Limited |-> Recent(Older(granted[k], Window))]
  /\ UNCHANGED <<lru, pollVars, iceVars, pageVars, faults>>

Next ==
  \/ CreateRoom \/ StoreOffer \/ Renew
  \/ PollAnswer \/ PollFails \/ BackoffEnds
  \/ \E c \in Pc : WaiterTimesOut(c) \/ ReqCloses(c)
  \/ Join \/ CheckRoom \/ GetOffer \/ PostAnswer
  \/ \E p \in Page : Candidate(p) \/ FetchIce(p) \/ TakeIce(p)
  \/ Connect
  \/ \E r \in Room : RelayMoves(r)
  \/ CleanupRooms \/ CleanupRateLimiters \/ Evict \/ Tick

\* Fairness: time passes, and the poll of the page goes on, which its loop,
\* the server's timers and socket events move in turn.  Nothing is assumed
\* of the users, of the sender, or of cleanupRooms().
PollGoesOn ==
  \/ PollAnswer \/ BackoffEnds
  \/ \E c \in Pc : WaiterTimesOut(c) \/ ReqCloses(c)

Spec     == Init /\ [][Next]_vars
FairSpec == Spec /\ WF_vars(Tick) /\ WF_vars(PollGoesOn)
-----------------------------------------------------------------------------
\* The state is what the handlers and pages think it is, whatever the order
\* of their steps.
TypeOK ==
  /\ rooms \in [Room -> [state : {"unborn", "live", "gone"},
                         age : 0 .. RoomTTL + 1, offer : 0 .. MaxPcs,
                         answer : [to : 0 .. MaxPcs, from : 0 .. MaxPcs],
                         ice : [Page -> UNION {[1 .. n -> Pc] : n \in 0 .. IceMax}],
                         waiters : SUBSET Pc]]
  /\ totalWaiters \in Int
  /\ closure \in [Pc -> {"none", "waiting", "settled"}]
  /\ DOMAIN limiters \subseteq Limited
  /\ \A k \in DOMAIN limiters :
       /\ Len(limiters[k].ages) <= MaxRequests[k[2]]
       /\ \A i \in 1 .. Len(limiters[k].ages) : limiters[k].ages[i] \in 0 .. MaxAge
       /\ limiters[k].block \in NoLimit .. Window
  /\ {lru[i] : i \in 1 .. Len(lru)} = DOMAIN limiters
  /\ Len(lru) = Cardinality(DOMAIN limiters)
  /\ step \in [Page -> {"start", "failed", "offer", "wait", "polling", "backoff",
                        "ice", "up", "idle", "check", "getOffer", "answer"}]
  /\ room \in [Page -> 0 .. MaxRooms] /\ pc \in [Page -> 0 .. MaxPcs]
  /\ remote \in [Page -> [to : 0 .. MaxPcs, from : 0 .. MaxPcs]]
  /\ known \in [Page -> 0 .. IceMax]
  /\ taken \in [Page -> SUBSET (1 .. IceMax)] /\ flying \in [Page -> SUBSET (1 .. IceMax)]
  /\ faults \in 0 .. MaxFaults

\* settle() has four callers (POST /answer, the timer, the close event and
\* the expiry of the room), and two of them meet on every poll.  The global
\* counter is still the number of requests left open, every one of those is
\* a waiter of one live room that has no answer, and a page that polls is
\* one of them: nobody waits where nobody would wake him.
WaitersAccounted ==
  LET waiting == {c \in Pc : closure[c] = "waiting"} IN
  /\ totalWaiters = Cardinality(waiting)
  /\ \A c \in waiting : \E r \in Room : Live(r) /\ c \in rooms[r].waiters
  /\ \A r \in Room : /\ rooms[r].waiters \subseteq waiting
                     /\ rooms[r].answer # None => rooms[r].waiters = {}
  /\ step["receiver"] = "polling" => pc["receiver"] \in waiting

\* A page is turned away only while its last window holds as many calls as
\* it may make: the block ends when the oldest of them ages out, evictions
\* and clean-ups between its calls included ("Previously this was now +
\* windowMs, which inflated a momentary overshoot").
RefusedIsSpent ==
  \A k \in Limited : ~Passes(k) => Len(Recent(granted[k])) >= MaxRequests[k[2]]

\* The count a page slices its next candidate list with never runs ahead of
\* what it handed to its peer connection, although polls overlap and come
\* back in any order and the list outlives the connection.
NoCandidateSkipped ==
  \A p \in Page : 1 .. known[p] \subseteq taken[p]

\* A page that asks for an answer which is there gets it, or its room ends,
\* or it gives its connection up: caps, blocks, lost polls and timed out
\* waiters only delay it.
AnswerReaches ==
  \A r \in Room :
    (/\ room["receiver"] = r /\ step["receiver"] \in {"wait", "polling", "backoff"}
     /\ Live(r) /\ rooms[r].answer # None)
    ~> (\/ step["receiver"] \notin {"wait", "polling", "backoff"} \/ ~Live(r))
=============================================================================
