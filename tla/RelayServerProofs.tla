------------------------- MODULE RelayServerProofs -------------------------
(***************************************************************************)
(* What RelayServer guarantees for every number of connections, frames and *)
(* faults, and for every limit: each connection that is not over holds its *)
(* slot, and the counter of waiting polls is exact.                        *)
(***************************************************************************)
EXTENDS RelayServer, SequenceTheorems, TLAPS

Polls == Seq({"live", "dead"})
Ready == {"none", "open", "closing", "terminated", "closed"}

SlotTypes ==
  /\ opened \in 0 .. MaxConns
  /\ relay \in [Slot -> 0 .. MaxConns]
  /\ kind \in [Conn -> {"none", "ws", "lp"}]
  /\ place \in [Conn -> Slot]
  /\ ready \in [Conn -> Ready]
  /\ waiters \in [Conn -> Polls]
  /\ totalWaiters \in Int
  /\ relayPings \subseteq Conn
  /\ roomLive \in BOOLEAN

-----------------------------------------------------------------------------
(* The inductive invariant.  HoldsItsSlot says nothing of a slot that is   *)
(* taken by a connection of the other place, of the polls of a connection  *)
(* outside its slot, or of a socket that the heartbeat still watches after *)
(* its close event; each of these would undo it a step later.              *)

\* Whoever stands in a slot was opened, for that slot.
Placed == \A s \in Slot :
  relay[s] # 0 => relay[s] <= opened /\ place[relay[s]] = s

\* Polls wait only on a long-poll connection that is in its slot.
PollsHeld == \A c \in Conn :
  waiters[c] # <<>> => IsLp(c) /\ relay[place[c]] = c

\* The heartbeat watches sockets that have not had their close event.
PingsOpen == \A c \in relayPings :
  IsWs(c) /\ ready[c] \in {"open", "closing", "terminated"}

Unopened == \A c \in Conn : c > opened => ready[c] = "none"

SlotInv ==
  /\ SlotTypes /\ Placed /\ PollsHeld /\ PingsOpen /\ Unopened
  /\ HoldsItsSlot /\ WaitersCounted

LEMMA OtherSlot == \A s \in Slot : Other(s) \in Slot /\ Other(s) # s
BY DEF Slot, Other

LEMMA InitSlot == Init => SlotInv
<1> SUFFICES ASSUME Init PROVE SlotInv
  OBVIOUS
<1> USE RelayAssumption DEF Init, Slot, Conn
<1>1. SlotTypes
  <2>1. <<>> \in Polls
    BY DEF Polls
  <2> QED
    BY <2>1 DEF SlotTypes, Ready
<1>2. Placed /\ PollsHeld /\ PingsOpen /\ Unopened /\ HoldsItsSlot
  BY DEF Placed, PollsHeld, PingsOpen, Unopened, HoldsItsSlot, IsWs
<1>3. WaitersCounted
  BY DEF WaitersCounted, Answered
<1> QED
  BY <1>1, <1>2, <1>3 DEF SlotInv

\* Steps that touch neither slots nor polls.
LEMMA SlotsUntouched ==
  ASSUME SlotInv, UNCHANGED <<connVars, roomLive, relay, ready, pollVars, relayPings>>
  PROVE  SlotInv'
BY DEF SlotInv, connVars, pollVars, SlotTypes, Placed, PollsHeld, PingsOpen, Unopened,
   HoldsItsSlot, WaitersCounted, Answered, IsLp, IsWs

\* Steps that change the waiting polls of one long-poll connection that is
\* in its slot, and count what they add or take away.
LEMMA PollsChange ==
  ASSUME SlotInv, NEW c \in Conn, NEW w \in Polls,
         IsLp(c), relay[place[c]] = c,
         waiters' = [waiters EXCEPT ![c] = w],
         totalWaiters' = totalWaiters + Len(w) - Len(waiters[c]),
         UNCHANGED <<connVars, roomLive, relay, ready, relayPings>>
  PROVE  SlotInv'
<1> USE DEF SlotInv
<1>0. /\ Len(w) \in Nat
      /\ \A d \in Conn : waiters[d] \in Polls /\ Len(waiters[d]) \in Nat
  BY LenProperties DEF SlotTypes, Polls
<1>1. SlotTypes'
  BY <1>0 DEF SlotTypes, connVars
<1>2. Placed' /\ PingsOpen' /\ Unopened' /\ HoldsItsSlot'
  BY DEF Placed, PingsOpen, Unopened, HoldsItsSlot, IsWs, connVars
<1>3. PollsHeld'
  BY DEF PollsHeld, IsLp, connVars, SlotTypes
<1>4. WaitersCounted'
  <2>1. PICK p \in Slot : p = place[c]
    BY DEF SlotTypes
  <2>2. PICK t \in Slot : t # p
    BY DEF Slot
  <2>3. relay[t] # c
    BY <2>1, <2>2 DEF Placed, Conn
  <2>4. Answered(p, Conn)' = Len(w)
    BY <2>1 DEF Answered, SlotTypes, connVars
  <2>5. Answered(p, Conn) = Len(waiters[c])
    BY <2>1 DEF Answered
  <2>6. Answered(t, Conn)' = Answered(t, Conn)
    <3>1. relay[t] \in Conn => waiters'[relay[t]] = waiters[relay[t]]
      BY <2>3 DEF SlotTypes
    <3> QED
      BY <3>1 DEF Answered
  <2>7. Answered(t, Conn) \in Nat
    BY <1>0 DEF Answered
  <2>8. \/ p = "a" /\ t = "b"
        \/ p = "b" /\ t = "a"
    BY <2>2 DEF Slot
  <2>9. totalWaiters = Len(waiters[c]) + Answered(t, Conn)
    BY <1>0, <2>5, <2>7, <2>8 DEF WaitersCounted
  <2>10. totalWaiters' = Len(w) + Answered(t, Conn)
    BY <1>0, <2>7, <2>9
  <2> QED
    BY <1>0, <2>4, <2>6, <2>7, <2>8, <2>10 DEF WaitersCounted
<1> QED
  BY <1>1, <1>2, <1>3, <1>4

\* A teardown keeps the invariant: whoever gives up a slot is closed, and the
\* polls that it takes along are counted off.
LEMMA TeardownKeeps ==
  ASSUME SlotInv, NEW told \in SUBSET Conn, NEW ended \in SUBSET Conn, NEW off,
         \A c \in told \cup ended : c <= opened,
         \A c \in ended : IsWs(c),
         Teardown(told, ended, off),
         relayPings' = relayPings \ ended,
         UNCHANGED connVars, roomLive' \in {roomLive, FALSE}
  PROVE  SlotInv'
<1> DEFINE lps == {c \in told : IsLp(c)}
<1> USE DEF SlotInv
<1>0. /\ opened' = opened /\ kind' = kind /\ place' = place
      /\ lps \subseteq Conn /\ \A c \in lps : IsLp(c) /\ c \in told
      /\ \A c \in Conn : waiters[c] \in Polls /\ Len(waiters[c]) \in Nat
  BY LenProperties DEF connVars, SlotTypes, Polls
<1>1. /\ ready' = [c \in Conn |->
           IF c \in ended \cup lps THEN "closed"
           ELSE IF c \in told /\ ready[c] = "open" THEN "closing" ELSE ready[c]]
      /\ relay' = [s \in Slot |-> IF relay[s] \in lps \cup ended THEN 0 ELSE relay[s]]
      /\ waiters' = [c \in Conn |-> IF c \in lps THEN <<>> ELSE waiters[c]]
      /\ totalWaiters' = totalWaiters - Answered("a", lps) - Answered("b", lps)
  BY DEF Teardown
<1>2. \A s \in Slot : Answered(s, lps) \in Nat /\ Answered(s, Conn) \in Nat
  BY <1>0 DEF Answered
<1> HIDE DEF lps
<1>3. \A s \in Slot : Answered(s, Conn)' = Answered(s, Conn) - Answered(s, lps)
  <2> TAKE s \in Slot
  <2>1. CASE relay[s] \in lps
    <3>1. relay'[s] = 0 /\ 0 \notin Conn
      BY <1>1, <2>1 DEF Conn
    <3>2. Answered(s, Conn)' = 0
      BY <3>1 DEF Answered
    <3>3. Answered(s, Conn) = Answered(s, lps)
      BY <1>0, <2>1 DEF Answered
    <3> QED
      BY <1>2, <3>2, <3>3
  <2>2. CASE relay[s] \in ended \ lps
    <3>1. relay'[s] = 0 /\ 0 \notin Conn
      BY <1>1, <2>2 DEF Conn
    <3>2. waiters[relay[s]] = <<>>
      BY <2>2 DEF PollsHeld, IsWs, IsLp
    <3>3. Answered(s, Conn) = 0 /\ Answered(s, lps) = 0 /\ Answered(s, Conn)' = 0
      BY <2>2, <3>1, <3>2 DEF Answered
    <3> QED
      BY <3>3
  <2>3. CASE relay[s] \notin ended \cup lps
    <3>1. relay'[s] = relay[s] /\ (relay[s] \in Conn => waiters'[relay[s]] = waiters[relay[s]])
      BY <1>1, <2>3
    <3>2. Answered(s, lps) = 0
      BY <2>3 DEF Answered
    <3>3. Answered(s, Conn)' = Answered(s, Conn)
      BY <3>1 DEF Answered
    <3> QED
      BY <1>2, <3>2, <3>3
  <2> QED
    BY <2>1, <2>2, <2>3
<1>4. WaitersCounted'
  <2>1. "a" \in Slot /\ "b" \in Slot
    BY DEF Slot
  <2>2. totalWaiters = Answered("a", Conn) + Answered("b", Conn)
    BY DEF WaitersCounted
  <2>3. totalWaiters' = Answered("a", Conn)' + Answered("b", Conn)'
    BY <1>1, <1>2, <1>3, <2>1, <2>2
  <2> QED
    BY <2>3 DEF WaitersCounted
<1>5. SlotTypes'
  <2>1. <<>> \in Polls
    BY DEF Polls
  <2>2. /\ ready' \in [Conn -> Ready] /\ relay' \in [Slot -> 0 .. MaxConns]
        /\ waiters' \in [Conn -> Polls]
    BY RelayAssumption, <1>1, <2>1 DEF SlotTypes, Ready
  <2>3. totalWaiters' \in Int
    <3>1. Answered("a", lps) \in Nat /\ Answered("b", lps) \in Nat
      BY <1>2 DEF Slot
    <3>2. totalWaiters \in Int
      BY DEF SlotTypes
    <3> QED
      BY <1>1, <3>1, <3>2
  <2>4. roomLive' \in BOOLEAN /\ relayPings' \subseteq Conn
    BY DEF SlotTypes
  <2> QED
    BY <1>0, <2>2, <2>3, <2>4 DEF SlotTypes
<1>6. Placed'
  BY <1>0, <1>1 DEF Placed
<1>7. PollsHeld'
  BY <1>0, <1>1 DEF PollsHeld, IsLp, IsWs, SlotTypes
<1>8. PingsOpen'
  BY <1>0, <1>1 DEF PingsOpen, IsLp, IsWs, SlotTypes
<1>9. Unopened'
  BY <1>0, <1>1 DEF Unopened, SlotTypes, Conn
<1>10. HoldsItsSlot'
  BY <1>0, <1>1 DEF HoldsItsSlot, IsLp, IsWs, SlotTypes
<1> QED
  BY <1>4, <1>5, <1>6, <1>7, <1>8, <1>9, <1>10

-----------------------------------------------------------------------------
(* The actions.                                                            *)

\* Whoever has opened, and is not over, is one of the connections opened; so
\* is whoever stands in a slot.
LEMMA WhoIsOpened ==
  ASSUME SlotInv
  PROVE  /\ \A c \in Conn : ready[c] # "none" => c <= opened
         /\ \A s \in Slot : relay[s] # 0 => relay[s] \in Conn /\ relay[s] <= opened
         /\ \A c \in Conn : PeerOf(c) \subseteq Conn /\ \A d \in PeerOf(c) : d <= opened
<1> USE DEF SlotInv
<1>1. \A c \in Conn : ready[c] # "none" => c <= opened
  BY RelayAssumption DEF Unopened, SlotTypes, Conn
<1>2. \A s \in Slot : relay[s] # 0 => relay[s] \in Conn /\ relay[s] <= opened
  BY RelayAssumption DEF Placed, SlotTypes, Conn
<1>3. \A c \in Conn : Other(place[c]) \in Slot
  BY OtherSlot DEF SlotTypes
<1>4. ASSUME NEW c \in Conn, NEW d \in PeerOf(c)
      PROVE  d \in Conn /\ d <= opened
  BY <1>2, <1>3, <1>4 DEF PeerOf, Peer
<1> QED
  BY <1>1, <1>2, <1>4

\* A claim takes a free slot with a connection that nothing knows yet.
LEMMA ClaimKeeps ==
  ASSUME SlotInv, NEW p \in Page, NEW k \in {"ws", "lp"}, NEW s \in Slot,
         Claim(p, k, s),
         relayPings' = IF k = "ws" THEN relayPings \cup {opened'} ELSE relayPings
  PROVE  SlotInv'
<1> DEFINE c == opened + 1
<1> USE DEF SlotInv
<1>1. /\ c \in Conn /\ c \in 1 .. MaxConns /\ opened \in Nat /\ opened < c
  BY RelayAssumption DEF Claim, SlotTypes, Conn
<1>2. /\ roomLive /\ relay[s] = 0 /\ opened' = c
      /\ kind' = [kind EXCEPT ![c] = k] /\ place' = [place EXCEPT ![c] = s]
      /\ relay' = [relay EXCEPT ![s] = c] /\ ready' = [ready EXCEPT ![c] = "open"]
      /\ roomLive' = roomLive /\ waiters' = waiters /\ totalWaiters' = totalWaiters
  BY DEF Claim, pollVars
<1>3. /\ ready[c] = "none" /\ c \notin relayPings
      /\ \A t \in Slot : relay[t] # c
      /\ waiters[c] = <<>>
  BY <1>1 DEF Unopened, PingsOpen, Placed, PollsHeld, SlotTypes
<1> HIDE DEF c
<1>4. SlotTypes'
  BY <1>1, <1>2 DEF SlotTypes, Ready
<1>5. Placed'
  BY <1>1, <1>2 DEF Placed, SlotTypes
<1>6. PollsHeld'
  BY <1>1, <1>2, <1>3 DEF PollsHeld, SlotTypes, IsLp, Conn
<1>7. PingsOpen'
  BY <1>1, <1>2, <1>3 DEF PingsOpen, SlotTypes, IsWs
<1>8. Unopened'
  BY <1>1, <1>2 DEF Unopened, SlotTypes, Conn
<1>9. HoldsItsSlot'
  BY <1>1, <1>2, <1>3 DEF HoldsItsSlot, SlotTypes, IsWs, Conn
<1>10. WaitersCounted'
  <2>1. \A t \in Slot : Answered(t, Conn)' = Answered(t, Conn)
    <3> TAKE t \in Slot
    <3>1. CASE t = s
      <4>1. Answered(t, Conn)' = Len(<<>>)
        BY <1>1, <1>2, <1>3, <3>1 DEF Answered, SlotTypes
      <4>2. Answered(t, Conn) = 0
        BY <1>2, <3>1 DEF Answered, Conn
      <4> QED
        BY <4>1, <4>2
    <3>2. CASE t # s
      BY <1>2, <3>2 DEF Answered, SlotTypes
    <3> QED
      BY <3>1, <3>2
  <2> QED
    BY <1>2, <2>1 DEF WaitersCounted, Slot
<1> QED
  BY <1>4, <1>5, <1>6, <1>7, <1>8, <1>9, <1>10

\* The heartbeat ends sockets that keep their slot until their close event.
LEMMA HeartbeatKeeps == SlotInv /\ Heartbeat => SlotInv'
<1> SUFFICES ASSUME SlotInv, Heartbeat PROVE SlotInv'
  OBVIOUS
<1> USE DEF SlotInv
<1> DEFINE dead == {c \in relayPings : ~isAlive[c]}
<1>1. /\ ready' = [c \in Conn |-> IF c \in dead THEN "terminated" ELSE ready[c]]
      /\ relayPings' = relayPings \ dead
      /\ UNCHANGED <<connVars, roomLive, relay, pollVars>>
  BY DEF Heartbeat
<1>2. \A c \in dead : IsWs(c) /\ ready[c] \in {"open", "closing", "terminated"}
  BY DEF PingsOpen
<1> HIDE DEF dead
<1>3. SlotTypes'
  BY <1>1 DEF SlotTypes, connVars, pollVars, Ready
<1>4. Placed' /\ PollsHeld' /\ WaitersCounted'
  BY <1>1 DEF Placed, PollsHeld, WaitersCounted, Answered, IsLp, connVars, pollVars
<1>5. PingsOpen'
  BY <1>1 DEF PingsOpen, IsWs, connVars, SlotTypes
<1>6. Unopened'
  BY <1>1, <1>2 DEF Unopened, connVars, SlotTypes
<1>7. HoldsItsSlot'
  BY <1>1, <1>2 DEF HoldsItsSlot, IsWs, connVars, SlotTypes
<1> QED
  BY <1>3, <1>4, <1>5, <1>6, <1>7

\* A delivery touches no poll, or answers the first that waits.
LEMMA DeliverKeeps ==
  ASSUME SlotInv, NEW d \in Conn \cup {0}, NEW f, Deliver(d, f),
         UNCHANGED <<connVars, roomLive, relay, ready, relayPings>>
  PROVE  SlotInv'
<1>1. CASE UNCHANGED pollVars
  BY <1>1, SlotsUntouched
<1>2. CASE /\ d # 0 /\ IsLp(d) /\ waiters[d] # <<>>
           /\ waiters' = [waiters EXCEPT ![d] = Tail(@)]
           /\ totalWaiters' = totalWaiters - 1
  <2> DEFINE w == Tail(waiters[d])
  <2>1. d \in Conn /\ relay[place[d]] = d /\ waiters[d] \in Polls /\ totalWaiters \in Int
    BY <1>2 DEF SlotInv, PollsHeld, SlotTypes
  <2>2. w \in Polls /\ Len(w) = Len(waiters[d]) - 1 /\ Len(waiters[d]) \in Nat
    BY <1>2, <2>1, HeadTailProperties, LenProperties DEF Polls
  <2>3. waiters' = [waiters EXCEPT ![d] = w]
    BY <1>2
  <2> HIDE DEF w
  <2>4. totalWaiters' = totalWaiters + Len(w) - Len(waiters[d])
    BY <1>2, <2>1, <2>2
  <2> QED
    BY <1>2, <2>1, <2>2, <2>3, <2>4, PollsChange
<1> QED
  BY <1>1, <1>2 DEF Deliver

LEMMA PeerIsConn == SlotInv => \A c \in Conn : Peer(c) \in Conn \cup {0}
BY OtherSlot DEF SlotInv, SlotTypes, Peer, Conn

\* A frame is delivered, or it is the one over the cap that ends the pair.
LEMMA FrameKeeps ==
  ASSUME SlotInv, NEW c \in Conn, WsMessage(c) \/ LpUp(c)
  PROVE  SlotInv'
<1>1. UNCHANGED connVars /\ relayPings' = relayPings /\ roomLive' = roomLive
  BY DEF WsMessage, LpUp, beatVars, slotVars
<1>2. c <= opened /\ {c} \cup PeerOf(c) \in SUBSET Conn
      /\ \A d \in {c} \cup PeerOf(c) : d <= opened
  BY WhoIsOpened DEF WsMessage, LpUp
<1>3. CASE Teardown({c} \cup PeerOf(c), {}, {})
  BY <1>1, <1>2, <1>3, TeardownKeeps
<1>4. ASSUME NEW f, Deliver(Peer(c), f), UNCHANGED slotVars
      PROVE  SlotInv'
  BY <1>1, <1>4, PeerIsConn, DeliverKeeps DEF slotVars
<1> QED
  BY <1>3, <1>4 DEF WsMessage, LpUp

\* A poll is answered at once or joins those that wait.
LEMMA LpPollKeeps ==
  ASSUME SlotInv, NEW c \in Conn, LpPoll(c)
  PROVE  SlotInv'
<1>1. UNCHANGED <<connVars, roomLive, relay, ready, relayPings>>
  BY DEF LpPoll, slotVars, beatVars
<1>2. CASE UNCHANGED pollVars
  BY <1>1, <1>2, SlotsUntouched
<1>3. CASE /\ waiters' = [waiters EXCEPT ![c] = Append(@, "live")]
           /\ totalWaiters' = totalWaiters + 1
  <2> DEFINE w == Append(waiters[c], "live")
  <2>1. relay[place[c]] = c /\ waiters[c] \in Polls /\ totalWaiters \in Int
    BY DEF SlotInv, SlotTypes, HoldsItsSlot, LpPoll
  <2>2. w \in Polls /\ Len(w) = Len(waiters[c]) + 1 /\ Len(waiters[c]) \in Nat
    BY <2>1, AppendProperties, LenProperties DEF Polls
  <2>3. waiters' = [waiters EXCEPT ![c] = w]
    BY <1>3
  <2> HIDE DEF w
  <2>4. totalWaiters' = totalWaiters + Len(w) - Len(waiters[c])
    BY <1>3, <2>1, <2>2
  <2> QED
    BY <1>1, <2>1, <2>2, <2>3, <2>4, PollsChange DEF LpPoll
<1> QED
  BY <1>2, <1>3 DEF LpPoll

\* A poll that waits can only wait at a connection that is in its slot.
LEMMA WhoIsPolled ==
  ASSUME SlotInv, NEW c \in Conn, NEW i \in DOMAIN waiters[c]
  PROVE  /\ IsLp(c) /\ relay[place[c]] = c
         /\ waiters[c] \in Polls /\ Len(waiters[c]) \in Nat /\ i \in 1 .. Len(waiters[c])
         /\ totalWaiters \in Int
<1>1. waiters[c] \in Polls /\ totalWaiters \in Int
  BY DEF SlotInv, SlotTypes
<1>2. Len(waiters[c]) \in Nat /\ i \in 1 .. Len(waiters[c])
  BY <1>1, LenProperties DEF Polls
<1>3. waiters[c] # <<>>
  BY <1>2, EmptySeq
<1> QED
  BY <1>1, <1>2, <1>3 DEF SlotInv, PollsHeld

\* A poll that ends is the only one taken out.
LEMMA PollSettlesKeeps ==
  ASSUME SlotInv, NEW c \in Conn, PollSettles(c)
  PROVE  SlotInv'
<1>1. PICK i \in DOMAIN waiters[c] :
        waiters' = [waiters EXCEPT ![c] = SubSeq(@, 1, i - 1) \o SubSeq(@, i + 1, Len(@))]
  BY DEF PollSettles
<1> DEFINE v == waiters[c]
           w == SubSeq(v, 1, i - 1) \o SubSeq(v, i + 1, Len(v))
<1>2. /\ IsLp(c) /\ relay[place[c]] = c /\ totalWaiters \in Int
      /\ v \in Polls /\ Len(v) \in Nat /\ i \in 1 .. Len(v)
  BY WhoIsPolled
<1>3. waiters' = [waiters EXCEPT ![c] = w]
  BY <1>1
<1> HIDE DEF v
<1>4. \A j \in 1 .. Len(v) : v[j] \in {"live", "dead"}
  BY <1>2, ElementOfSeq DEF Polls
<1>5. /\ SubSeq(v, 1, i - 1) \in Polls
      /\ Len(SubSeq(v, 1, i - 1)) = i - 1
  BY <1>2, <1>4, SubSeqProperties DEF Polls
<1>6. /\ SubSeq(v, i + 1, Len(v)) \in Polls
      /\ Len(SubSeq(v, i + 1, Len(v))) = Len(v) - i
  BY <1>2, <1>4, SubSeqProperties DEF Polls
<1>7. w \in Polls /\ Len(w) = Len(v) - 1
  <2>1. PICK a \in Polls : a = SubSeq(v, 1, i - 1) /\ Len(a) = i - 1
    BY <1>5
  <2>2. PICK b \in Polls : b = SubSeq(v, i + 1, Len(v)) /\ Len(b) = Len(v) - i
    BY <1>6
  <2>3. a \o b \in Polls /\ Len(a \o b) = Len(a) + Len(b)
    BY ConcatProperties DEF Polls
  <2>4. w = a \o b
    BY <2>1, <2>2 DEF w
  <2> HIDE DEF w
  <2>5. i \in Int /\ Len(v) \in Int /\ Len(w) = (i - 1) + (Len(v) - i)
    BY <1>2, <2>1, <2>2, <2>3, <2>4
  <2>6. Len(w) = Len(v) - 1
    BY <2>5
  <2> QED
    BY <2>3, <2>4, <2>6
<1> HIDE DEF w
<1>8. totalWaiters' = totalWaiters + Len(w) - Len(v)
  BY <1>2, <1>7 DEF PollSettles
<1>9. UNCHANGED <<connVars, roomLive, relay, ready, relayPings>>
  BY DEF PollSettles, slotVars, beatVars
<1> QED
  BY <1>2, <1>3, <1>7, <1>8, <1>9, PollsChange DEF v

\* Polls that the page gave up still wait, and still count.
LEMMA PollLostKeeps ==
  ASSUME SlotInv, NEW c \in Conn, PollLost(c)
  PROVE  SlotInv'
<1>1. PICK i \in DOMAIN waiters[c] : waiters' = [waiters EXCEPT ![c][i] = "dead"]
  BY DEF PollLost
<1> DEFINE w == [waiters[c] EXCEPT ![i] = "dead"]
<1>2. /\ IsLp(c) /\ relay[place[c]] = c /\ totalWaiters \in Int
      /\ waiters[c] \in Polls /\ Len(waiters[c]) \in Nat /\ i \in 1 .. Len(waiters[c])
  BY WhoIsPolled
<1>3. waiters' = [waiters EXCEPT ![c] = w]
  BY <1>1
<1>4. w \in Polls /\ Len(w) = Len(waiters[c])
  BY <1>2, ExceptSeq DEF Polls
<1> HIDE DEF w
<1>5. totalWaiters' = totalWaiters + Len(w) - Len(waiters[c])
  BY <1>2, <1>4 DEF PollLost
<1>6. UNCHANGED <<connVars, roomLive, relay, ready, relayPings>>
  BY DEF PollLost, slotVars, beatVars
<1> QED
  BY <1>2, <1>3, <1>4, <1>5, <1>6, PollsChange

LEMMA VanishKeeps ==
  ASSUME SlotInv, NEW c \in Conn, Vanish(c)
  PROVE  SlotInv'
<1> DEFINE w == [i \in DOMAIN waiters[c] |-> "dead"]
<1>1. waiters[c] \in Polls /\ waiters \in [Conn -> Polls] /\ totalWaiters \in Int
  BY DEF SlotInv, SlotTypes
<1>2. Len(waiters[c]) \in Nat /\ DOMAIN waiters[c] = 1 .. Len(waiters[c])
  BY <1>1, LenProperties DEF Polls
<1>3. w \in [1 .. Len(waiters[c]) -> {"live", "dead"}]
  BY <1>2
<1>4. w \in Polls /\ Len(w) = Len(waiters[c])
  BY <1>2, <1>3 DEF Polls
<1>5. waiters' = [waiters EXCEPT ![c] = w]
  BY DEF Vanish
<1>6. /\ UNCHANGED <<connVars, roomLive, relay, ready, relayPings>>
      /\ totalWaiters' = totalWaiters
  BY DEF Vanish, beatVars
<1> HIDE DEF w
<1>7. CASE waiters[c] = <<>>
  <2>1. w = waiters[c]
    BY <1>4, <1>7, EmptySeq DEF Polls
  <2>2. waiters' = waiters
    BY <1>1, <1>5, <2>1
  <2> QED
    BY <1>6, <2>2, SlotsUntouched DEF pollVars
<1>8. CASE waiters[c] # <<>>
  <2>1. IsLp(c) /\ relay[place[c]] = c
    BY <1>8 DEF SlotInv, PollsHeld
  <2>2. totalWaiters' = totalWaiters + Len(w) - Len(waiters[c])
    BY <1>1, <1>2, <1>4, <1>6
  <2> QED
    BY <1>4, <1>5, <1>6, <2>1, <2>2, PollsChange
<1> QED
  BY <1>7, <1>8

\* Every end of a connection is a teardown, or a page that leaves silently.
LEMMA EndKeeps ==
  ASSUME SlotInv, NEW c \in Conn,
         Oversized(c) \/ ClientCloses(c) \/ WsClosed(c) \/ LpIdle(c)
  PROVE  SlotInv'
<1>1. UNCHANGED connVars /\ roomLive' = roomLive
  BY DEF Oversized, ClientCloses, WsClosed, LpIdle
<1>2. c <= opened /\ PeerOf(c) \subseteq Conn /\ \A d \in PeerOf(c) : d <= opened
  BY WhoIsOpened DEF Oversized, ClientCloses, WsClosed, LpIdle, CloseIsDue
<1>3. CASE Oversized(c)
  <2>1. Teardown({c}, {}, {}) /\ relayPings' = relayPings
    BY <1>3 DEF Oversized, beatVars
  <2> QED
    BY <1>1, <1>2, <2>1, TeardownKeeps
<1>4. CASE LpIdle(c)
  <2>1. Teardown({c} \cup PeerOf(c), {}, {}) /\ relayPings' = relayPings
    BY <1>4 DEF LpIdle, beatVars
  <2> QED
    BY <1>1, <1>2, <2>1, TeardownKeeps
<1>5. CASE WsClosed(c)
  <2> DEFINE told == IF roomLive THEN PeerOf(c) ELSE {}
  <2>1. Teardown(told, {c}, {}) /\ relayPings' = relayPings \ {c} /\ IsWs(c)
    BY <1>5 DEF WsClosed
  <2>2. told \in SUBSET Conn /\ \A d \in told : d <= opened
    BY <1>2
  <2> HIDE DEF told
  <2> QED
    BY <1>1, <1>2, <2>1, <2>2, TeardownKeeps
<1>6. CASE ClientCloses(c)
  <2>1. relayPings' = relayPings
    BY <1>6 DEF ClientCloses, beatVars
  <2>2. CASE UNCHANGED <<relay, ready, pollVars>>
    BY <1>1, <2>1, <2>2, SlotsUntouched
  <2>3. CASE Teardown({c} \cup PeerOf(c), {}, {c})
    BY <1>1, <1>2, <2>1, <2>3, TeardownKeeps
  <2> QED
    BY <1>6, <2>2, <2>3 DEF ClientCloses
<1> QED
  BY <1>3, <1>4, <1>5, <1>6

LEMMA ExpireKeeps == SlotInv /\ Expire => SlotInv'
<1> SUFFICES ASSUME SlotInv, Expire PROVE SlotInv'
  OBVIOUS
<1> DEFINE told == {relay[s] : s \in Slot} \ {0}
<1>1. told \in SUBSET Conn /\ \A d \in told : d <= opened
  BY WhoIsOpened
<1>2. /\ Teardown(told, {}, {}) /\ UNCHANGED connVars
      /\ relayPings' = relayPings \ {} /\ roomLive' \in {roomLive, FALSE}
  BY DEF Expire, beatVars
<1>3. {} \in SUBSET Conn /\ \A c \in {} : IsWs(c)
  OBVIOUS
<1> HIDE DEF told
<1> QED
  BY <1>1, <1>2, <1>3, TeardownKeeps

\* Steps of the frames in flight, of the pauses and of the pages.
LEMMA OtherStepsKeep ==
  ASSUME SlotInv, NEW c \in Conn,
         ClientSend(c) \/ WsTake(c) \/ ResumePoll(c) \/ ClientSeesClose(c) \/ Pong(c)
  PROVE  SlotInv'
<1>1. UNCHANGED <<connVars, roomLive, relay, ready, pollVars, relayPings>>
  BY DEF ClientSend, WsTake, ResumePoll, ClientSeesClose, Pong, slotVars, beatVars
<1> QED
  BY <1>1, SlotsUntouched

LEMMA StepSlot == SlotInv /\ [Next]_vars => SlotInv'
<1> SUFFICES ASSUME SlotInv, [Next]_vars PROVE SlotInv'
  OBVIOUS
<1>1. ASSUME NEW p \in Page, WsUpgrade(p)
      PROVE  SlotInv'
  <2>1. PICK s \in Slot : Claim(p, "ws", s)
    BY <1>1 DEF WsUpgrade
  <2>2. relayPings' = relayPings \cup {opened'}
    BY <1>1 DEF WsUpgrade
  <2> QED
    BY <2>1, <2>2, ClaimKeeps
<1>2. ASSUME NEW p \in Page, LpHandshake(p)
      PROVE  SlotInv'
  <2>1. PICK s \in Slot : Claim(p, "lp", s)
    BY <1>2 DEF LpHandshake
  <2>2. relayPings' = relayPings
    BY <1>2 DEF LpHandshake, beatVars
  <2> QED
    BY <2>1, <2>2, ClaimKeeps
<1>3. ASSUME NEW c \in Conn, ServerStep(c)
      PROVE  SlotInv'
  BY <1>3, FrameKeeps, OtherStepsKeep, EndKeeps, PollSettlesKeeps DEF ServerStep
<1>4. ASSUME NEW c \in Conn, ClientStep(c)
      PROVE  SlotInv'
  BY <1>4, LpPollKeeps, OtherStepsKeep DEF ClientStep
<1>5. ASSUME NEW c \in Conn, Environment(c)
      PROVE  SlotInv'
  BY <1>5, FrameKeeps, OtherStepsKeep, EndKeeps, VanishKeeps, PollLostKeeps DEF Environment
<1>6. CASE Heartbeat
  BY <1>6, HeartbeatKeeps
<1>7. CASE Expire
  BY <1>7, ExpireKeeps
<1>8. CASE UNCHANGED vars
  BY <1>8, SlotsUntouched DEF vars, slotVars, beatVars
<1> QED
  BY <1>1, <1>2, <1>3, <1>4, <1>5, <1>6, <1>7, <1>8 DEF Next

\* Every state of the relay has SlotInv: connections in slots of their own
\* place, and polls only at those that hold one.
THEOREM SlotInvHolds == Spec => []SlotInv
<1> QED
  BY InitSlot, StepSlot, PTL DEF Spec

\* Whatever pages open, close, lose or leave behind, over any number of
\* connections: as long as the room is live, a connection that is not over is
\* the one in its slot.  The close event of a socket, which frees the slot by
\* name (server.js:1771), therefore never evicts somebody else.
THEOREM SlotIsHeld == Spec => []HoldsItsSlot
<1>1. SlotInv => HoldsItsSlot
  BY DEF SlotInv
<1> QED
  BY <1>1, SlotInvHolds, PTL

\* For every limit and every way a poll ends (answered, timed out, cut, given
\* up, swept away with its slot), what the relay of a room adds to the counter
\* that all rooms share is the number of its polls that wait: no sequence of
\* ends leaves a count behind that would in time refuse every poll with 503
\* (server.js:1430, server.js:1441).
THEOREM PollsAreCounted == Spec => []WaitersCounted
<1>1. SlotInv => WaitersCounted
  BY DEF SlotInv
<1> QED
  BY <1>1, SlotInvHolds, PTL
=============================================================================
