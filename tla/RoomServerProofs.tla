-------------------------- MODULE RoomServerProofs --------------------------
(***************************************************************************)
(* What RoomServer guarantees for every number of rooms, connections and   *)
(* candidates, and for every limit: the answer polls are all accounted     *)
(* for, no ICE candidate is skipped, and the rate limiter refuses a page   *)
(* only what its window leaves it no room for.                             *)
(***************************************************************************)
EXTENDS RoomServer, FiniteSetTheorems, SequenceTheorems, TLAPS

-----------------------------------------------------------------------------
(* The types the two arguments need.                                       *)

Steps == {"start", "failed", "offer", "wait", "polling", "backoff", "ice",
          "up", "idle", "check", "getOffer", "answer"}
Description == [to : Nat, from : Nat]
RoomState == [state : {"unborn", "live", "gone"}, age : Nat, offer : Nat,
              answer : Description, ice : [Page -> Seq(Nat)],
              waiters : SUBSET Pc]

RoomTypes ==
  /\ rooms \in [Room -> RoomState]
  /\ room \in [Page -> 0 .. MaxRooms]
  /\ pc \in [Page -> 0 .. MaxPcs]
  /\ step \in [Page -> Steps]
  /\ remote \in [Page -> Description]

PollTypes ==
  /\ totalWaiters \in Int
  /\ closure \in [Pc -> {"none", "waiting", "settled"}]

\* A page that asks for its answer has a connection to ask for.
HasPc == step["receiver"] \in {"offer", "wait", "polling", "backoff"}
           => pc["receiver"] \in Pc

\* One poll waits in one room, so that a room that is settled leaves no
\* other room with a waiter that is not waiting.
OneRoomEach == \A r, q \in Room :
  r # q => rooms[r].waiters \cap rooms[q].waiters = {}

Types == RoomTypes /\ PollTypes /\ HasPc
WaitInv == Types /\ OneRoomEach /\ WaitersAccounted

Waiting == {c \in Pc : closure[c] = "waiting"}

LEMMA PageFacts ==
  /\ "receiver" \in Page /\ "sender" \in Page
  /\ \A p \in Page : Other(p) \in Page
  BY DEF Page, Other

LEMMA NothingTyped == Nothing \in RoomState /\ Nothing.waiters = {}
<1>1. [p \in Page |-> <<>>] \in [Page -> Seq(Nat)]
  OBVIOUS
<1> QED
  BY <1>1 DEF Nothing, RoomState, Description, None

LEMMA PcFinite == IsFiniteSet(Pc) /\ IsFiniteSet(Waiting) /\ Cardinality(Waiting) \in Nat
<1>1. IsFiniteSet(Pc)
  BY RoomAssumption, FS_Interval DEF Pc
<1>2. Waiting \in SUBSET Pc
  BY DEF Waiting
<1> QED
  BY <1>1, <1>2, FS_Subset, FS_CardinalityType

\* The parts of the invariant, with the requests that are open by name.
LEMMA Accounts ==
  WaitersAccounted <=>
    /\ totalWaiters = Cardinality(Waiting)
    /\ \A c \in Waiting : \E r \in Room : Live(r) /\ c \in rooms[r].waiters
    /\ \A r \in Room : /\ rooms[r].waiters \subseteq Waiting
                       /\ rooms[r].answer # None => rooms[r].waiters = {}
    /\ step["receiver"] = "polling" => pc["receiver"] \in Waiting
  BY DEF WaitersAccounted, Waiting

LEMMA InitWait == Init => WaitInv
<1> SUFFICES ASSUME Init PROVE WaitInv
  OBVIOUS
<1>1. RoomTypes
  <2>1. rooms \in [Room -> RoomState]
    BY NothingTyped DEF Init
  <2>2. step \in [Page -> Steps]
    BY DEF Init, Page, Steps
  <2> QED
    BY <2>1, <2>2, RoomAssumption DEF Init, RoomTypes, Description, None
<1>2. PollTypes
  BY DEF Init, PollTypes
<1>3. HasPc
  BY DEF Init, HasPc
<1>4. OneRoomEach
  BY NothingTyped DEF Init, OneRoomEach
<1>5. Waiting = {}
  BY DEF Init, Waiting
<1>6. WaitersAccounted
  BY <1>5, NothingTyped, Accounts, FS_EmptySet DEF Init
<1> QED
  BY <1>1, <1>2, <1>3, <1>4, <1>6 DEF WaitInv, Types

-----------------------------------------------------------------------------
(* What happens to the waiters.                                            *)

\* No poll is opened or settled.
LEMMA WaitersKept ==
  ASSUME WaitInv, Types', UNCHANGED pollVars,
         \A r \in Room : /\ rooms'[r].waiters = rooms[r].waiters
                         /\ rooms'[r].answer = rooms[r].answer
                         /\ rooms[r].state = "live" => rooms'[r].state = "live",
         step'["receiver"] = "polling" =>
           step["receiver"] = "polling" /\ pc'["receiver"] = pc["receiver"]
  PROVE  WaitInv'
<1>1. Waiting' = Waiting
  BY DEF pollVars, Waiting
<1>2. OneRoomEach'
  BY DEF WaitInv, OneRoomEach
<1>3. \A r \in Room : Live(r) => Live(r)'
  BY DEF Live
<1>4. WaitersAccounted'
  BY <1>1, <1>3, Accounts DEF WaitInv, pollVars, WaitersAccounted, Waiting
<1> QED
  BY <1>2, <1>4 DEF WaitInv

\* The polls of a set are settled, and leave their rooms.
LEMMA WaitersSettled ==
  ASSUME WaitInv, Types', NEW S \in SUBSET Pc, NEW next \in {"none", "settled"},
         SettleAll(S, next),
         \A r \in Room : /\ rooms'[r].waiters = rooms[r].waiters \ S
                         /\ rooms'[r].answer # None => rooms'[r].waiters = {}
                         /\ Live(r) /\ rooms'[r].waiters # {} => Live(r)',
         step'["receiver"] = "polling" =>
           /\ step["receiver"] = "polling" /\ pc'["receiver"] = pc["receiver"]
           /\ pc["receiver"] \notin S
  PROVE  WaitInv'
<1>1. Waiting' = Waiting \ S
  BY DEF SettleAll, Waiting
<1>2. totalWaiters' = Cardinality(Waiting')
  <2>1. {c \in S : Settles(c)} = Waiting \cap S
    BY DEF Settles, Waiting
  <2>2. totalWaiters' = Cardinality(Waiting) - Cardinality(Waiting \cap S)
    BY <2>1, Accounts DEF SettleAll, WaitInv
  <2> QED
    BY <1>1, <2>2, PcFinite, FS_Difference
<1>3. OneRoomEach'
  BY DEF WaitInv, OneRoomEach
<1>4. ASSUME NEW c \in Waiting' PROVE \E r \in Room : Live(r)' /\ c \in rooms'[r].waiters
  <2>1. c \in Waiting /\ c \notin S
    BY <1>1
  <2>2. PICK r \in Room : Live(r) /\ c \in rooms[r].waiters
    BY <2>1, Accounts DEF WaitInv
  <2> QED
    BY <2>1, <2>2
<1>5. \A r \in Room : rooms'[r].waiters \subseteq Waiting'
  BY <1>1, Accounts DEF WaitInv
<1>6. step'["receiver"] = "polling" => pc'["receiver"] \in Waiting'
  BY <1>1, Accounts DEF WaitInv
<1>7. WaitersAccounted'
  BY <1>2, <1>4, <1>5, <1>6 DEF WaitersAccounted, Waiting
<1> QED
  BY <1>3, <1>7 DEF WaitInv

-----------------------------------------------------------------------------
(* The types and HasPc are preserved by every action.                      *)

LEMMA NewPcTyped ==
  ASSUME RoomTypes, NEW p \in Page, pc[p] < MaxPcs, NewPc(p)
  PROVE  pc' \in [Page -> 0 .. MaxPcs] /\ pc'[p] \in Pc
<1>1. pc[p] + 1 \in 0 .. MaxPcs /\ pc[p] + 1 \in Pc
  BY RoomAssumption DEF RoomTypes, Pc
<1> QED
  BY <1>1 DEF NewPc, RoomTypes

LEMMA SettleTyped ==
  ASSUME PollTypes, NEW S \in SUBSET Pc, NEW next \in {"none", "settled"},
         SettleAll(S, next)
  PROVE  PollTypes'
<1>1. {c \in S : Settles(c)} \in SUBSET Pc
  OBVIOUS
<1>2. Cardinality({c \in S : Settles(c)}) \in Nat
  BY <1>1, PcFinite, FS_Subset, FS_CardinalityType
<1> QED
  BY <1>2 DEF SettleAll, PollTypes

LEMMA TypesKept ==
  ASSUME Types, UNCHANGED <<rooms, pollVars, pageVars>>
  PROVE  Types'
  BY DEF Types, RoomTypes, PollTypes, HasPc, pollVars, pageVars

\* The waiters of a room are set.
LEMMA WaitersSet ==
  ASSUME RoomTypes, NEW r \in Room, NEW w \in SUBSET Pc,
         rooms' = [rooms EXCEPT ![r].waiters = w]
  PROVE  rooms' \in [Room -> RoomState]
<1>1. rooms[r] \in RoomState
  BY DEF RoomTypes
<1>2. [rooms[r] EXCEPT !.waiters = w] \in RoomState
  BY <1>1 DEF RoomState
<1> QED
  BY <1>2 DEF RoomTypes

LEMMA ReceiverTyped ==
  ASSUME WaitInv,
         CreateRoom \/ StoreOffer \/ Renew \/ PollAnswer \/ PollFails \/ BackoffEnds
  PROVE  Types'
<1> USE PageFacts
<1>0. RoomTypes /\ PollTypes /\ HasPc
  BY DEF WaitInv, Types
<1>1. CASE CreateRoom
  <2>1. CASE /\ step' = [step EXCEPT !["receiver"] = "failed"]
             /\ UNCHANGED <<rooms, iceVars, room, pc, remote>>
    BY <1>0, <1>1, <2>1
    DEF CreateRoom, Types, RoomTypes, PollTypes, HasPc, pollVars, Steps
  <2>2. CASE /\ pc["receiver"] < MaxPcs
             /\ \E r \in Room : /\ rooms' = [rooms EXCEPT ![r].state = "live"]
                                /\ room' = [room EXCEPT !["receiver"] = r]
             /\ NewPc("receiver")
             /\ step' = [step EXCEPT !["receiver"] = "offer"]
             /\ remote' = [remote EXCEPT !["receiver"] = None]
    <3>1. PICK r \in Room : /\ rooms' = [rooms EXCEPT ![r].state = "live"]
                            /\ room' = [room EXCEPT !["receiver"] = r]
      BY <2>2
    <3>2. rooms' \in [Room -> RoomState]
      <4>1. PICK s : s = [rooms[r] EXCEPT !.state = "live"]
        OBVIOUS
      <4>2. rooms[r] \in RoomState
        BY <1>0 DEF RoomTypes
      <4>3. s \in RoomState
        BY <4>1, <4>2 DEF RoomState
      <4>4. rooms' = [rooms EXCEPT ![r] = s]
        BY <3>1, <4>1
      <4> QED
        BY <1>0, <4>3, <4>4 DEF RoomTypes
    <3>3. room' \in [Page -> 0 .. MaxRooms]
      BY <1>0, <3>1 DEF RoomTypes, Room
    <3>4. remote' \in [Page -> Description]
      BY <1>0, <2>2 DEF RoomTypes, Description, None
    <3>5. pc' \in [Page -> 0 .. MaxPcs] /\ pc'["receiver"] \in Pc
      BY <1>0, <2>2, NewPcTyped
    <3> QED
      BY <1>0, <1>1, <2>2, <3>2, <3>3, <3>4, <3>5
      DEF CreateRoom, Types, RoomTypes, PollTypes, HasPc, pollVars, Steps
  <2> QED
    BY <1>1, <2>1, <2>2 DEF CreateRoom
<1>2. CASE StoreOffer
  <2>1. rooms' \in [Room -> RoomState]
    <3>1. CASE rooms' = rooms
      BY <1>0, <3>1 DEF RoomTypes
    <3>2. CASE rooms' = [rooms EXCEPT ![room["receiver"]].offer = pc["receiver"]]
      <4>1. pc["receiver"] \in Nat
        BY <1>0, RoomAssumption DEF RoomTypes
      <4>2. PICK s : s = [rooms[room["receiver"]] EXCEPT !.offer = pc["receiver"]]
        OBVIOUS
      <4>3. rooms' = [rooms EXCEPT ![room["receiver"]] = s]
        BY <3>2, <4>2
      <4>4. room["receiver"] \in Room => s \in RoomState
        <5>1. room["receiver"] \in Room => rooms[room["receiver"]] \in RoomState
          BY <1>0 DEF RoomTypes
        <5> QED
          BY <4>1, <4>2, <5>1 DEF RoomState
      <4> QED
        BY <1>0, <4>3, <4>4 DEF RoomTypes
    <3> QED
      BY <1>2, <3>1, <3>2 DEF StoreOffer
  <2>2. step' \in [Page -> Steps] /\ HasPc'
    BY <1>0, <1>2 DEF StoreOffer, RoomTypes, HasPc, Steps
  <2> QED
    BY <1>0, <1>2, <2>1, <2>2 DEF StoreOffer, Types, RoomTypes, PollTypes, pollVars
<1>3. CASE Renew
  <2>1. pc' \in [Page -> 0 .. MaxPcs] /\ pc'["receiver"] \in Pc
    BY <1>0, <1>3, NewPcTyped DEF Renew
  <2>2. remote' \in [Page -> Description]
    BY <1>0, <1>3 DEF Renew, RoomTypes, Description, None
  <2> QED
    BY <1>0, <1>3, <2>1, <2>2
    DEF Renew, Types, RoomTypes, PollTypes, HasPc, pollVars, Steps
<1>4. CASE PollAnswer
  <2> PICK c, r : c = pc["receiver"] /\ r = room["receiver"]
    OBVIOUS
  <2>1. step["receiver"] = "wait" /\ c \in Pc
    BY <1>0, <1>4 DEF PollAnswer, HasPc
  <2>2. CASE /\ Live(r) /\ step' = [step EXCEPT !["receiver"] = "ice"]
             /\ remote' = [remote EXCEPT !["receiver"] = rooms[r].answer]
             /\ UNCHANGED <<rooms, pollVars, pc, room>>
    <3>1. r \in Room
      BY <1>0, <2>2 DEF Live, RoomTypes, Room
    <3>2. remote' \in [Page -> Description]
      BY <1>0, <2>2, <3>1 DEF RoomTypes, RoomState
    <3> QED
      BY <1>0, <2>2, <3>2 DEF Types, RoomTypes, PollTypes, HasPc, pollVars, Steps
  <2>3. CASE /\ Live(r) /\ rooms' = [rooms EXCEPT ![r].waiters = @ \cup {c}]
             /\ closure' = [closure EXCEPT ![c] = "waiting"]
             /\ totalWaiters' = totalWaiters + 1
             /\ step' = [step EXCEPT !["receiver"] = "polling"]
             /\ UNCHANGED <<remote, pc, room>>
    <3>0. r \in Room
      BY <1>0, <2>3 DEF Live, RoomTypes, Room
    <3>1. rooms' \in [Room -> RoomState]
      <4>1. rooms[r].waiters \cup {c} \in SUBSET Pc
        BY <1>0, <2>1, <3>0 DEF RoomTypes, RoomState
      <4> QED
        BY <1>0, <2>3, <3>0, <4>1, WaitersSet
    <3>2. PollTypes'
      BY <1>0, <2>1, <2>3 DEF PollTypes
    <3> QED
      BY <1>0, <2>1, <2>3, <3>1, <3>2 DEF Types, RoomTypes, HasPc, Steps
  <2>4. CASE /\ step' = [step EXCEPT !["receiver"] = "backoff"]
             /\ UNCHANGED <<rooms, pollVars, remote, pc, room>>
    BY <1>0, <2>1, <2>4 DEF Types, RoomTypes, PollTypes, HasPc, pollVars, Steps
  <2> QED
    BY <1>4, <2>2, <2>3, <2>4 DEF PollAnswer, Oks, Live, iceVars
<1>5. CASE PollFails \/ BackoffEnds
  BY <1>0, <1>5
  DEF PollFails, BackoffEnds, Types, RoomTypes, PollTypes, HasPc, pollVars, Steps
<1> QED
  BY <1>1, <1>2, <1>3, <1>4, <1>5

LEMMA SenderTyped ==
  ASSUME WaitInv, Join \/ CheckRoom \/ GetOffer \/ PostAnswer
  PROVE  Types'
<1> USE PageFacts
<1>0. RoomTypes /\ PollTypes /\ HasPc
  BY DEF WaitInv, Types
<1>1. CASE Join
  <2>1. PICK r \in {room["receiver"], room["sender"]} \ {0} :
          room' = [room EXCEPT !["sender"] = r]
    BY <1>1 DEF Join
  <2>2. room' \in [Page -> 0 .. MaxRooms]
    BY <1>0, <2>1 DEF RoomTypes
  <2>3. remote' \in [Page -> Description]
    BY <1>0, <1>1 DEF Join, RoomTypes, Description, None
  <2> QED
    BY <1>0, <1>1, <2>2, <2>3
    DEF Join, Types, RoomTypes, PollTypes, HasPc, pollVars, Steps
<1>2. CASE CheckRoom
  <2>1. \/ UNCHANGED step
        \/ \E s \in {"getOffer", "failed"} : step' = [step EXCEPT !["sender"] = s]
    BY <1>2 DEF CheckRoom
  <2> QED
    BY <1>0, <1>2, <2>1
    DEF CheckRoom, Types, RoomTypes, PollTypes, HasPc, pollVars, Steps
<1>3. CASE GetOffer
  <2>1. CASE /\ Live(room["sender"]) /\ NewPc("sender")
             /\ remote' = [remote EXCEPT !["sender"] =
                   [to |-> 0, from |-> rooms[room["sender"]].offer]]
             /\ step' = [step EXCEPT !["sender"] = "answer"]
    <3>1. rooms[room["sender"]] \in RoomState
      BY <1>0, <2>1 DEF Live, RoomTypes, Room
    <3>2. remote' \in [Page -> Description]
      BY <1>0, <2>1, <3>1 DEF RoomTypes, RoomState, Description
    <3>3. pc' \in [Page -> 0 .. MaxPcs] /\ pc'["receiver"] = pc["receiver"]
      BY <1>0, <1>3, <2>1, NewPcTyped DEF GetOffer, NewPc, RoomTypes
    <3> QED
      BY <1>0, <1>3, <2>1, <3>2, <3>3
      DEF GetOffer, Types, RoomTypes, PollTypes, HasPc, pollVars, Steps
  <2>2. CASE step' = [step EXCEPT !["sender"] = "failed"] /\ UNCHANGED <<pc, remote>>
    BY <1>0, <1>3, <2>2
    DEF GetOffer, Types, RoomTypes, PollTypes, HasPc, pollVars, Steps
  <2> QED
    BY <1>3, <2>1, <2>2 DEF GetOffer, Oks
<1>4. CASE PostAnswer
  <2> PICK r, answer : /\ r = room["sender"]
                       /\ answer = [to |-> remote["sender"].from, from |-> pc["sender"]]
    OBVIOUS
  <2>1. CASE /\ Live(r)
             /\ rooms' = [rooms EXCEPT ![r].answer = answer, ![r].waiters = {}]
             /\ SettleAll(rooms[r].waiters, "settled")
             /\ step' = [receiver |-> IF Hears(rooms[r].waiters) THEN "ice"
                                      ELSE step["receiver"],
                         sender |-> "ice"]
             /\ remote' = [remote EXCEPT !["receiver"] =
                             IF Hears(rooms[r].waiters) THEN answer ELSE @]
    <3>1. r \in Room /\ answer \in Description /\ rooms[r] \in RoomState
      <4>1. r \in Room
        BY <1>0, <2>1 DEF Live, RoomTypes, Room
      <4>2. remote["sender"].from \in Nat /\ pc["sender"] \in Nat
        BY <1>0, RoomAssumption DEF RoomTypes, Description
      <4> QED
        BY <1>0, <4>1, <4>2 DEF RoomTypes, Description
    <3>2. rooms' \in [Room -> RoomState]
      <4>1. [rooms[r] EXCEPT !.answer = answer, !.waiters = {}] \in RoomState
        BY <3>1 DEF RoomState
      <4> QED
        BY <1>0, <2>1, <4>1 DEF RoomTypes
    <3>3. remote' \in [Page -> Description]
      BY <1>0, <2>1, <3>1 DEF RoomTypes
    <3>4. step' \in [Page -> Steps] /\ step'["receiver"] \in {"ice", step["receiver"]}
      BY <1>0, <2>1 DEF RoomTypes, Page, Steps
    <3>5. PollTypes'
      BY <1>0, <2>1, <3>1, SettleTyped DEF RoomState
    <3> QED
      BY <1>0, <1>4, <3>2, <3>3, <3>4, <3>5
      DEF PostAnswer, Types, RoomTypes, HasPc
  <2>2. CASE step' = [step EXCEPT !["sender"] = "failed"]
             /\ UNCHANGED <<rooms, pollVars, remote>>
    BY <1>0, <1>4, <2>2
    DEF PostAnswer, Types, RoomTypes, PollTypes, HasPc, pollVars, Steps
  <2> QED
    BY <1>4, <2>1, <2>2 DEF PostAnswer, Oks
<1> QED
  BY <1>1, <1>2, <1>3, <1>4

LEMMA IceTyped ==
  ASSUME WaitInv, NEW p \in Page, Candidate(p) \/ FetchIce(p) \/ TakeIce(p) \/ Connect
  PROVE  Types'
<1> USE PageFacts
<1>0. RoomTypes /\ PollTypes /\ HasPc
  BY DEF WaitInv, Types
<1>1. CASE Candidate(p)
  <2>1. CASE UNCHANGED rooms
    BY <1>0, <1>1, <2>1, TypesKept DEF Candidate, Types
  <2>2. CASE rooms' = [rooms EXCEPT ![room[p]].ice[p] = Append(@, pc[p])]
    <3>1. room[p] \in Room
      BY <1>0, <1>1 DEF Candidate, Live, RoomTypes, Room
    <3>2. pc[p] \in Nat
      BY <1>0, RoomAssumption DEF RoomTypes
    <3>3. [rooms[room[p]] EXCEPT !.ice[p] = Append(@, pc[p])] \in RoomState
      <4>1. rooms[room[p]] \in RoomState
        BY <1>0, <3>1 DEF RoomTypes
      <4>2. Append(rooms[room[p]].ice[p], pc[p]) \in Seq(Nat)
        BY <3>2, <4>1 DEF RoomState
      <4> QED
        BY <4>1, <4>2 DEF RoomState
    <3>4. rooms' \in [Room -> RoomState]
      BY <1>0, <2>2, <3>1, <3>3 DEF RoomTypes
    <3> QED
      BY <1>0, <1>1, <3>4
      DEF Candidate, Types, RoomTypes, PollTypes, HasPc, pollVars, pageVars
  <2> QED
    BY <1>1, <2>1, <2>2 DEF Candidate
<1>2. CASE FetchIce(p) \/ TakeIce(p)
  BY <1>0, <1>2, TypesKept DEF FetchIce, TakeIce, Types
<1>3. CASE Connect
  BY <1>0, <1>3 DEF Connect, Types, RoomTypes, PollTypes, HasPc, pollVars, Page, Steps
<1> QED
  BY <1>1, <1>2, <1>3

LEMMA ServerTyped ==
  ASSUME WaitInv,
         \/ \E c \in Pc : WaiterTimesOut(c) \/ ReqCloses(c)
         \/ \E r \in Room : RelayMoves(r)
         \/ CleanupRooms \/ CleanupRateLimiters \/ Evict \/ Tick
  PROVE  Types'
<1> USE PageFacts
<1>0. RoomTypes /\ PollTypes /\ HasPc
  BY DEF WaitInv, Types
<1>1. ASSUME NEW c \in Pc, WaiterTimesOut(c) \/ ReqCloses(c) PROVE Types'
  <2>1. rooms' = [r \in Room |-> [rooms[r] EXCEPT !.waiters = @ \ {c}]]
    BY <1>1 DEF WaiterTimesOut, ReqCloses
  <2>2. ASSUME NEW r \in Room PROVE [rooms[r] EXCEPT !.waiters = @ \ {c}] \in RoomState
    <3>1. rooms[r] \in RoomState
      BY <1>0 DEF RoomTypes
    <3> QED
      BY <3>1 DEF RoomState
  <2>3. rooms' \in [Room -> RoomState]
    BY <2>1, <2>2
  <2>4. PollTypes'
    BY <1>0, <1>1, SettleTyped DEF WaiterTimesOut, ReqCloses
  <2>5. step' \in [Page -> Steps] /\ HasPc' /\ UNCHANGED <<room, pc, remote>>
    BY <1>0, <1>1 DEF WaiterTimesOut, ReqCloses, RoomTypes, HasPc, Steps, Hears, pageVars
  <2> QED
    BY <1>0, <2>3, <2>4, <2>5 DEF Types, RoomTypes
<1>2. ASSUME NEW r \in Room, RelayMoves(r) PROVE Types'
  <2>1. [rooms[r] EXCEPT !.age = 0] \in RoomState
    BY <1>0 DEF RoomTypes, RoomState
  <2>2. rooms' \in [Room -> RoomState]
    BY <1>0, <1>2, <2>1 DEF RelayMoves, RoomTypes
  <2> QED
    BY <1>0, <1>2, <2>2
    DEF RelayMoves, Types, RoomTypes, PollTypes, HasPc, pollVars, pageVars
<1>3. CASE CleanupRooms
  <2>1. [Nothing EXCEPT !.state = "gone"] \in RoomState
    BY NothingTyped DEF RoomState
  <2>2. rooms' \in [Room -> RoomState]
    BY <1>0, <1>3, <2>1 DEF CleanupRooms, RoomTypes
  <2>3. Drained \in SUBSET Pc
    BY <1>0 DEF Drained, RoomTypes, RoomState
  <2>4. PollTypes'
    BY <1>0, <1>3, <2>3, SettleTyped DEF CleanupRooms
  <2>5. step' \in [Page -> Steps] /\ HasPc'
    BY <1>0, <1>3 DEF CleanupRooms, RoomTypes, HasPc, Steps
  <2> QED
    BY <1>0, <1>3, <2>2, <2>4, <2>5 DEF CleanupRooms, Types, RoomTypes
<1>4. CASE CleanupRateLimiters \/ Evict
  BY <1>0, <1>4, TypesKept DEF CleanupRateLimiters, Evict, Keep, Types
<1>5. CASE Tick
  <2>1. ASSUME NEW r \in Room
        PROVE  [rooms[r] EXCEPT !.age = Least(@ + 1, RoomTTL + 1)] \in RoomState
    <3>1. rooms[r] \in RoomState
      BY <1>0 DEF RoomTypes
    <3>2. rooms[r].age \in Nat /\ RoomTTL \in Nat
      BY <3>1, RoomAssumption DEF RoomState
    <3>3. Least(rooms[r].age + 1, RoomTTL + 1) \in Nat
      BY <3>2 DEF Least
    <3> QED
      BY <3>1, <3>3 DEF RoomState
  <2>2. rooms' \in [Room -> RoomState]
    BY <1>0, <1>5, <2>1 DEF Tick, RoomTypes
  <2> QED
    BY <1>0, <1>5, <2>2 DEF Tick, Types, RoomTypes, PollTypes, HasPc, pollVars, pageVars
<1> QED
  BY <1>1, <1>2, <1>3, <1>4, <1>5

-----------------------------------------------------------------------------
(* The invariant is preserved.                                             *)

LEMMA NextTyped == ASSUME WaitInv, Next PROVE Types'
<1>1. ASSUME NEW p \in Page, Candidate(p) \/ FetchIce(p) \/ TakeIce(p) PROVE Types'
  BY <1>1, IceTyped
<1>2. Connect => Types'
  BY PageFacts, IceTyped
<1> QED
  BY <1>1, <1>2, ReceiverTyped, SenderTyped, ServerTyped DEF Next

\* The page puts a new poll into its room.
LEMMA PollWaits ==
  ASSUME WaitInv, Types', NEW c \in Pc, NEW r \in Room,
         c = pc["receiver"], pc' = pc,
         Live(r), rooms[r].answer = None, closure[c] = "none",
         rooms' = [rooms EXCEPT ![r].waiters = @ \cup {c}],
         closure' = [closure EXCEPT ![c] = "waiting"],
         totalWaiters' = totalWaiters + 1
  PROVE  WaitInv'
<1>1. /\ rooms \in [Room -> RoomState]
      /\ closure \in [Pc -> {"none", "waiting", "settled"}]
  BY DEF WaitInv, Types, RoomTypes, PollTypes
<1>2. Waiting' = Waiting \cup {c} /\ c \notin Waiting
  BY <1>1 DEF Waiting
<1>3. \A q \in Room : /\ rooms'[q].state = rooms[q].state
                      /\ rooms'[q].answer = rooms[q].answer
                      /\ rooms'[q].waiters = IF q = r THEN rooms[q].waiters \cup {c}
                                             ELSE rooms[q].waiters
  BY <1>1 DEF RoomState
<1>4. \A q \in Room : c \notin rooms[q].waiters
  BY <1>2, Accounts DEF WaitInv
<1>5. OneRoomEach'
  BY <1>3, <1>4 DEF WaitInv, OneRoomEach
<1>6. totalWaiters' = Cardinality(Waiting')
  BY <1>2, PcFinite, FS_AddElement, Accounts DEF WaitInv
<1>7. ASSUME NEW w \in Waiting' PROVE \E q \in Room : Live(q)' /\ w \in rooms'[q].waiters
  <2>1. CASE w = c
    <3>1. Live(r)' /\ c \in rooms'[r].waiters
      BY <1>3 DEF Live
    <3> QED
      BY <2>1, <3>1
  <2>2. CASE w \in Waiting
    <3>1. PICK q \in Room : Live(q) /\ w \in rooms[q].waiters
      BY <2>2, Accounts DEF WaitInv
    <3> QED
      BY <1>3, <3>1 DEF Live
  <2> QED
    BY <1>2, <2>1, <2>2
<1>8. ASSUME NEW q \in Room
      PROVE  /\ rooms'[q].waiters \subseteq Waiting'
             /\ rooms'[q].answer # None => rooms'[q].waiters = {}
  BY <1>2, <1>3, Accounts DEF WaitInv
<1>9. pc'["receiver"] \in Waiting'
  BY <1>2
<1>10. WaitersAccounted'
  BY <1>6, <1>7, <1>8, <1>9 DEF WaitersAccounted, Waiting
<1> QED
  BY <1>5, <1>10 DEF WaitInv

LEMMA StepWait == WaitInv /\ [Next]_vars => WaitInv'
<1> SUFFICES ASSUME WaitInv, [Next]_vars PROVE WaitInv'
  OBVIOUS
<1> USE PageFacts
<1>1. CASE UNCHANGED vars
  <2>1. Types'
    BY <1>1, TypesKept DEF WaitInv, vars
  <2> QED
    BY <1>1, <2>1, WaitersKept DEF vars, pageVars
<1> SUFFICES ASSUME Next PROVE WaitInv'
  BY <1>1
<1>0. /\ Types' /\ RoomTypes /\ PollTypes /\ HasPc
      /\ \A r \in Room : rooms[r] \in RoomState
  BY NextTyped DEF WaitInv, Types, RoomTypes
<1>2. CASE CreateRoom
  <2>1. \A r \in Room : /\ rooms'[r].waiters = rooms[r].waiters
                        /\ rooms'[r].answer = rooms[r].answer
                        /\ rooms[r].state = "live" => rooms'[r].state = "live"
    <3>1. CASE rooms' = rooms
      BY <3>1
    <3>2. CASE \E r \in Room : rooms' = [rooms EXCEPT ![r].state = "live"]
      <4>1. PICK r \in Room : rooms' = [rooms EXCEPT ![r].state = "live"]
        BY <3>2
      <4>2. \A q \in Room : \/ rooms'[q] = rooms[q]
                            \/ rooms'[q] = [rooms[q] EXCEPT !.state = "live"]
        BY <1>0, <4>1 DEF RoomTypes
      <4>3. ASSUME NEW q \in Room, rooms'[q] = [rooms[q] EXCEPT !.state = "live"]
            PROVE  /\ rooms'[q].waiters = rooms[q].waiters
                   /\ rooms'[q].answer = rooms[q].answer
                   /\ rooms'[q].state = "live"
        <5>1. rooms[q] \in RoomState
          BY <1>0
        <5> QED
          BY <4>3, <5>1 DEF RoomState
      <4> QED
        BY <4>2, <4>3
    <3> QED
      BY <1>2, <3>1, <3>2 DEF CreateRoom
  <2>2. step'["receiver"] # "polling" /\ UNCHANGED pollVars
    BY <1>0, <1>2 DEF CreateRoom, RoomTypes
  <2> QED
    BY <1>0, <2>1, <2>2, WaitersKept
<1>3. CASE StoreOffer
  <2>1. \A r \in Room : /\ rooms'[r].waiters = rooms[r].waiters
                        /\ rooms'[r].answer = rooms[r].answer
                        /\ rooms[r].state = "live" => rooms'[r].state = "live"
    BY <1>0, <1>3 DEF StoreOffer, RoomTypes, RoomState
  <2>2. step'["receiver"] # "polling" /\ UNCHANGED pollVars
    BY <1>0, <1>3 DEF StoreOffer, RoomTypes
  <2> QED
    BY <1>0, <2>1, <2>2, WaitersKept
<1>4. CASE \/ Renew \/ PollFails \/ BackoffEnds \/ CheckRoom \/ GetOffer \/ Connect
           \/ CleanupRateLimiters \/ Evict \/ Join
  <2>1. UNCHANGED <<rooms, pollVars>>
    BY <1>4 DEF Renew, PollFails, BackoffEnds, CheckRoom, GetOffer, Connect,
       CleanupRateLimiters, Evict, Join, Keep
  <2>2. \/ step'["receiver"] # "polling"
        \/ step'["receiver"] = step["receiver"] /\ pc'["receiver"] = pc["receiver"]
    BY <1>0, <1>4 DEF Renew, PollFails, BackoffEnds, CheckRoom, GetOffer, Connect,
       CleanupRateLimiters, Evict, Join, Keep, RoomTypes, NewPc, pageVars
  <2> QED
    BY <1>0, <2>1, <2>2, WaitersKept
<1>5. CASE PollAnswer
  <2> PICK c, r : c = pc["receiver"] /\ r = room["receiver"]
    OBVIOUS
  <2>1. CASE UNCHANGED <<rooms, pollVars>> /\ step'["receiver"] # "polling"
    BY <1>0, <2>1, WaitersKept
  <2>2. CASE /\ Live(r) /\ rooms[r].answer = None
             /\ rooms' = [rooms EXCEPT ![r].waiters = @ \cup {c}]
             /\ closure' = [closure EXCEPT ![c] = "waiting"]
             /\ totalWaiters' = totalWaiters + 1
    <3>1. /\ r \in Room /\ c \in Pc /\ closure[c] = "none" /\ pc' = pc
      BY <1>0, <1>5, <2>2 DEF PollAnswer, Live, RoomTypes, HasPc, Room
    <3> QED
      BY <1>0, <2>2, <3>1, PollWaits
  <2> QED
    BY <1>0, <1>5, <2>1, <2>2 DEF PollAnswer, Oks, Live, RoomTypes
<1>6. ASSUME NEW c \in Pc, WaiterTimesOut(c) \/ ReqCloses(c) PROVE WaitInv'
  <2>1. PICK next \in {"none", "settled"} : SettleAll({c}, next)
    BY <1>6 DEF WaiterTimesOut, ReqCloses
  <2>2. \A r \in Room : /\ rooms'[r].waiters = rooms[r].waiters \ {c}
                        /\ rooms'[r].answer = rooms[r].answer
                        /\ rooms'[r].state = rooms[r].state
    BY <1>0, <1>6 DEF WaiterTimesOut, ReqCloses, RoomState
  <2>3. \A r \in Room : /\ rooms'[r].answer # None => rooms'[r].waiters = {}
                        /\ Live(r) => Live(r)'
    BY <2>2, Accounts DEF WaitInv, Live
  <2>4. /\ step'["receiver"] = "polling" =>
             step["receiver"] = "polling" /\ pc["receiver"] # c
        /\ pc' = pc
    <3>1. CASE WaiterTimesOut(c)
      BY <1>0, <3>1 DEF WaiterTimesOut, RoomTypes, Hears
    <3>2. CASE ReqCloses(c)
      <4>1. UNCHANGED pageVars /\ (closure[c] = "settled" \/ ~Hears({c}))
        BY <3>2 DEF ReqCloses
      <4>2. step["receiver"] = "polling" => closure[pc["receiver"]] = "waiting"
        BY Accounts DEF WaitInv, Waiting
      <4> QED
        BY <4>1, <4>2 DEF pageVars, Hears
    <3> QED
      BY <1>6, <3>1, <3>2
  <2> QED
    BY <1>0, <2>1, <2>2, <2>3, <2>4, WaitersSettled
<1>7. CASE PostAnswer
  <2> PICK r, answer : /\ r = room["sender"]
                       /\ answer = [to |-> remote["sender"].from, from |-> pc["sender"]]
    OBVIOUS
  <2>1. CASE /\ Live(r)
             /\ rooms' = [rooms EXCEPT ![r].answer = answer, ![r].waiters = {}]
             /\ SettleAll(rooms[r].waiters, "settled")
             /\ step' = [receiver |-> IF Hears(rooms[r].waiters) THEN "ice"
                                      ELSE step["receiver"],
                         sender |-> "ice"]
    <3>1. r \in Room /\ rooms[r].waiters \in SUBSET Pc
      BY <1>0, <2>1 DEF Live, RoomTypes, Room, RoomState
    <3>2. \A q \in Room : /\ rooms'[q].state = rooms[q].state
                          /\ rooms'[q].waiters = IF q = r THEN {} ELSE rooms[q].waiters
                          /\ q # r => rooms'[q].answer = rooms[q].answer
      BY <1>0, <2>1 DEF RoomTypes, RoomState
    <3>3. \A q \in Room : rooms'[q].waiters = rooms[q].waiters \ rooms[r].waiters
      BY <3>1, <3>2 DEF WaitInv, OneRoomEach
    <3>4. \A q \in Room : /\ rooms'[q].answer # None => rooms'[q].waiters = {}
                          /\ Live(q) => Live(q)'
      BY <3>2, Accounts DEF WaitInv, Live
    <3>5. /\ step'["receiver"] = "polling" =>
               step["receiver"] = "polling" /\ pc["receiver"] \notin rooms[r].waiters
          /\ pc' = pc
      BY <1>7, <2>1 DEF PostAnswer, Hears
    <3> QED
      BY <1>0, <2>1, <3>1, <3>3, <3>4, <3>5, WaitersSettled
  <2>2. CASE step' = [step EXCEPT !["sender"] = "failed"] /\ UNCHANGED <<rooms, pollVars>>
    BY <1>0, <1>7, <2>2, WaitersKept DEF PostAnswer, RoomTypes
  <2> QED
    BY <1>7, <2>1, <2>2 DEF PostAnswer, Oks
<1>8. ASSUME NEW p \in Page, Candidate(p) \/ FetchIce(p) \/ TakeIce(p) PROVE WaitInv'
  <2>1. UNCHANGED <<pollVars, pageVars>>
    BY <1>8 DEF Candidate, FetchIce, TakeIce
  <2>2. UNCHANGED rooms \/ rooms' = [rooms EXCEPT ![room[p]].ice[p] = Append(@, pc[p])]
    BY <1>8 DEF Candidate, FetchIce, TakeIce
  <2>3. \A r \in Room : /\ rooms'[r].waiters = rooms[r].waiters
                        /\ rooms'[r].answer = rooms[r].answer
                        /\ rooms'[r].state = rooms[r].state
    <3>1. CASE rooms' = [rooms EXCEPT ![room[p]].ice[p] = Append(@, pc[p])]
      <4>1. \A r \in Room :
              \/ rooms'[r] = rooms[r]
              \/ rooms'[r] = [rooms[r] EXCEPT !.ice[p] = Append(@, pc[p])]
        BY <1>0, <3>1 DEF RoomTypes
      <4> QED
        BY <1>0, <4>1 DEF RoomState
    <3> QED
      BY <2>2, <3>1
  <2> QED
    BY <1>0, <2>1, <2>3, WaitersKept DEF pageVars
<1>9. ASSUME NEW q \in Room, RelayMoves(q) PROVE WaitInv'
  <2>1. \A r \in Room : /\ rooms'[r].waiters = rooms[r].waiters
                        /\ rooms'[r].answer = rooms[r].answer
                        /\ rooms'[r].state = rooms[r].state
    BY <1>0, <1>9 DEF RelayMoves, RoomTypes, RoomState
  <2> QED
    BY <1>0, <1>9, <2>1, WaitersKept DEF RelayMoves, pageVars
<1>10. CASE CleanupRooms
  <2>1. Drained \in SUBSET Pc
    BY <1>0 DEF Drained, RoomState
  <2>2. \A r \in Room :
          rooms'[r] = IF Expired(r) THEN [Nothing EXCEPT !.state = "gone"] ELSE rooms[r]
    BY <1>10 DEF CleanupRooms
  <2>3. [Nothing EXCEPT !.state = "gone"].waiters = {}
    BY DEF Nothing
  <2>4. \A r \in Room : rooms'[r].waiters = rooms[r].waiters \ Drained
    <3> SUFFICES ASSUME NEW r \in Room PROVE rooms'[r].waiters = rooms[r].waiters \ Drained
      OBVIOUS
    <3>1. CASE Expired(r)
      BY <2>2, <2>3, <3>1 DEF Drained
    <3>2. CASE ~Expired(r)
      <4>1. \A q \in Room : Expired(q) => rooms[r].waiters \cap rooms[q].waiters = {}
        BY <3>2 DEF WaitInv, OneRoomEach
      <4> QED
        BY <2>2, <3>2, <4>1 DEF Drained
    <3> QED
      BY <3>1, <3>2
  <2>5. \A r \in Room : /\ rooms'[r].answer # None => rooms'[r].waiters = {}
                        /\ Live(r) /\ rooms'[r].waiters # {} => Live(r)'
    BY <2>2, <2>3, Accounts DEF WaitInv, Live
  <2>6. /\ step'["receiver"] = "polling" =>
             step["receiver"] = "polling" /\ pc["receiver"] \notin Drained
        /\ pc' = pc
    BY <1>0, <1>10 DEF CleanupRooms, RoomTypes, Hears
  <2> QED
    BY <1>0, <1>10, <2>1, <2>4, <2>5, <2>6, WaitersSettled DEF CleanupRooms
<1>11. CASE Tick
  <2>1. \A r \in Room : /\ rooms'[r].waiters = rooms[r].waiters
                        /\ rooms'[r].answer = rooms[r].answer
                        /\ rooms'[r].state = rooms[r].state
    BY <1>0, <1>11 DEF Tick, RoomState
  <2> QED
    BY <1>0, <1>11, <2>1, WaitersKept DEF Tick, pageVars
<1> QED
  BY <1>2, <1>3, <1>4, <1>5, <1>6, <1>7, <1>8, <1>9, <1>10, <1>11 DEF Next

\* Whatever settles a poll, and in whatever order its timer, its answer, its
\* close event and the end of its room come, totalWaiters is the number of
\* polls that wait, each is in one live room without an answer, and a page
\* that polls is among them.
THEOREM WaitersAreAccounted == Spec => []WaitersAccounted
<1>1. Init => WaitInv
  BY InitWait
<1>2. WaitInv /\ [Next]_vars => WaitInv'
  BY StepWait
<1>3. WaitInv => WaitersAccounted
  BY DEF WaitInv
<1> QED
  BY <1>1, <1>2, <1>3, PTL DEF Spec

-----------------------------------------------------------------------------
(* ICE candidates.                                                         *)

IceInv ==
  /\ known \in [Page -> Nat]
  /\ taken \in [Page -> SUBSET Nat]
  /\ flying \in [Page -> SUBSET Nat]
  /\ NoCandidateSkipped

LEMMA InitIce == Init => IceInv
  BY DEF Init, IceInv, NoCandidateSkipped

\* A new peer connection starts without candidates.
LEMMA NewPcIce == ASSUME IceInv, NEW p \in Page, NewPc(p) PROVE IceInv'
  BY DEF IceInv, NewPc, NoCandidateSkipped

LEMMA StepIce == WaitInv /\ IceInv /\ [Next]_vars => IceInv'
<1> SUFFICES ASSUME WaitInv, IceInv, [Next]_vars PROVE IceInv'
  OBVIOUS
<1> USE PageFacts
<1>1. CASE UNCHANGED iceVars
  BY <1>1 DEF iceVars, IceInv, NoCandidateSkipped
<1>2. CASE CreateRoom \/ Renew
  BY <1>1, <1>2, NewPcIce DEF CreateRoom, Renew
<1>3. CASE GetOffer
  BY <1>1, <1>3, NewPcIce DEF GetOffer
<1>4. CASE Join
  BY <1>4 DEF Join, IceInv, NoCandidateSkipped
<1>5. ASSUME NEW p \in Page, FetchIce(p) PROVE IceInv'
  <2>1. PICK n : n = Len(rooms[room[p]].ice[Other(p)])
    OBVIOUS
  <2>2. n \in Nat
    <3>1. rooms[room[p]].ice[Other(p)] \in Seq(Nat)
      BY <1>5 DEF FetchIce, Live, WaitInv, Types, RoomTypes, Room, RoomState
    <3> QED
      BY <2>1, <3>1
  <2>3. /\ flying' = flying \/ flying' = [flying EXCEPT ![p] = @ \cup {n}]
        /\ UNCHANGED <<known, taken>>
    BY <1>5, <2>1 DEF FetchIce
  <2> QED
    BY <2>2, <2>3 DEF IceInv, NoCandidateSkipped
<1>6. ASSUME NEW p \in Page, TakeIce(p) PROVE IceInv'
  <2>1. PICK n \in flying[p] :
          /\ flying' = [flying EXCEPT ![p] = @ \ {n}]
          /\ taken' = [taken EXCEPT ![p] = @ \cup (known[p] + 1 .. n)]
          /\ known' = [known EXCEPT ![p] = n]
    BY <1>6 DEF TakeIce
  <2>2. n \in Nat /\ known[p] \in Nat
    BY <2>1 DEF IceInv
  <2>3. known' \in [Page -> Nat] /\ flying' \in [Page -> SUBSET Nat]
    BY <2>1, <2>2 DEF IceInv
  <2>4. taken' \in [Page -> SUBSET Nat]
    BY <2>1, <2>2 DEF IceInv
  <2>5. 1 .. n \subseteq taken[p] \cup (known[p] + 1 .. n)
    BY <2>2 DEF IceInv, NoCandidateSkipped
  <2>6. NoCandidateSkipped'
    BY <2>1, <2>5 DEF IceInv, NoCandidateSkipped
  <2> QED
    BY <2>3, <2>4, <2>6 DEF IceInv
<1>7. ASSUME NEW p \in Page, Candidate(p) PROVE IceInv'
  BY <1>1, <1>7 DEF Candidate
<1>8. ASSUME NEW c \in Pc, WaiterTimesOut(c) \/ ReqCloses(c) PROVE IceInv'
  BY <1>1, <1>8 DEF WaiterTimesOut, ReqCloses
<1>9. ASSUME NEW r \in Room, RelayMoves(r) PROVE IceInv'
  BY <1>1, <1>9 DEF RelayMoves
<1>10. CASE \/ StoreOffer \/ PollAnswer \/ PollFails \/ BackoffEnds \/ CheckRoom
            \/ PostAnswer \/ Connect \/ CleanupRooms
  BY <1>1, <1>10 DEF StoreOffer, PollAnswer, PollFails, BackoffEnds, CheckRoom,
     PostAnswer, Connect, CleanupRooms
<1>11. CASE CleanupRateLimiters \/ Evict \/ Tick
  BY <1>1, <1>11 DEF CleanupRateLimiters, Evict, Keep, Tick
<1> QED
  BY <1>1, <1>2, <1>3, <1>4, <1>5, <1>6, <1>7, <1>8, <1>9, <1>10, <1>11 DEF Next, vars

\* The polls for candidates overlap and come back in any order, a shorter
\* list after a longer one included, and a new peer connection begins anew:
\* what a page counts as known it has handed to its peer connection.
THEOREM NoneIsSkipped == Spec => []NoCandidateSkipped
<1>1. Init => WaitInv /\ IceInv
  BY InitWait, InitIce
<1>2. WaitInv /\ IceInv /\ [Next]_vars => WaitInv' /\ IceInv'
  BY StepWait, StepIce
<1>3. IceInv => NoCandidateSkipped
  BY DEF IceInv
<1> QED
  BY <1>1, <1>2, <1>3, PTL DEF Spec

-----------------------------------------------------------------------------
(* The rate limiter.                                                       *)

\* The ages of calls in their order: before every age t stand the calls of at
\* least that age, and after it the younger ones.
Stepped(e) == \A t \in Nat : \E c \in 0 .. Len(e) :
  \A i \in 1 .. Len(e) : e[i] >= t <=> i <= c

\* The latest calls let through: no more than a window may hold, all in it.
Grants(m, g) ==
  /\ g \in Seq(Nat) /\ Stepped(g) /\ Len(g) <= m
  /\ \A i \in 1 .. Len(g) : g[i] < Window

\* What a list has in the window ends as the calls let through end.
Follows(e, g) ==
  \A i \in 1 .. Len(e) : e[i] < Window =>
    /\ Len(e) - i < Len(g)
    /\ g[Len(g) - (Len(e) - i)] = e[i]

\* An entry that is not blocked knows some of the calls let through, and one
\* that is blocked stays so until the oldest of a full window leaves it.
Fits(m, g, entry) ==
  /\ entry.ages \in Seq(Nat) /\ Stepped(entry.ages)
  /\ entry.block \in Nat \cup {NoLimit}
  /\ entry.block = NoLimit => Follows(entry.ages, g)
  /\ entry.block > 0 => Len(g) = m /\ entry.block = Window - g[1]

LimInv ==
  /\ DOMAIN limiters \subseteq Limited
  /\ DOMAIN granted = Limited
  /\ \A k \in Limited :
       /\ Grants(MaxRequests[k[2]], granted[k])
       /\ k \in DOMAIN limiters => Fits(MaxRequests[k[2]], granted[k], limiters[k])

LEMMA WindowFacts ==
  Window \in Nat /\ Window > 0 /\ MaxAge \in Nat /\ Window <= MaxAge
  BY RoomAssumption

LEMMA LimitFacts ==
  /\ NoLimit \in Int /\ NoLimit < 0
  /\ \A k \in Limited : MaxRequests[k[2]] \in Nat /\ MaxRequests[k[2]] > 0
<1>1. \A k \in Limited : k[2] \in {"roomCreation", "roomLookup", "general"}
  BY RoomAssumption
<1> QED
  BY <1>1, RoomAssumption DEF NoLimit

\* r is s without its first d members.
Rest(r, s, d) ==
  /\ r \in Seq(Nat) /\ Len(r) = Len(s) - d
  /\ \A i \in 1 .. Len(r) : r[i] = s[d + i]

LEMMA RestIs ==
  ASSUME NEW s \in Seq(Nat), NEW d \in 0 .. Len(s),
         NEW r, r = SubSeq(s, d + 1, Len(s))
  PROVE  Rest(r, s, d)
<1>1. Len(s) \in Nat /\ d \in Nat /\ d <= Len(s)
  BY LenProperties
<1>2. \A i \in d + 1 .. Len(s) : s[i] \in Nat
  BY <1>1, ElementOfSeq
<1>3. d + 1 \in Int /\ Len(s) \in Int
  BY <1>1
<1>4. /\ r \in Seq(Nat)
      /\ Len(r) = IF d + 1 <= Len(s) THEN Len(s) - (d + 1) + 1 ELSE 0
      /\ \A i \in 1 .. Len(s) - (d + 1) + 1 : r[i] = s[d + 1 + i - 1]
  BY <1>2, <1>3, SubSeqProperties
<1>5. Len(r) = Len(s) - d
  BY <1>1, <1>4
<1>6. \A i \in 1 .. Len(r) : r[i] = s[d + i]
  BY <1>1, <1>4, <1>5
<1> QED
  BY <1>4, <1>5, <1>6 DEF Rest

LEMMA RestStepped ==
  ASSUME NEW s \in Seq(Nat), Stepped(s), NEW d \in 0 .. Len(s), NEW r, Rest(r, s, d)
  PROVE  Stepped(r)
<1>0. /\ Len(s) \in Nat /\ Len(r) \in Nat /\ d \in Nat /\ d <= Len(s)
      /\ Len(r) = Len(s) - d /\ \A i \in 1 .. Len(r) : r[i] = s[d + i]
  BY LenProperties DEF Rest
<1> SUFFICES ASSUME NEW t \in Nat
             PROVE  \E c \in 0 .. Len(r) : \A i \in 1 .. Len(r) : r[i] >= t <=> i <= c
  BY DEF Stepped
<1>1. PICK b \in 0 .. Len(s) : \A i \in 1 .. Len(s) : s[i] >= t <=> i <= b
  BY DEF Stepped
<1>2. PICK c : c = IF b < d THEN 0 ELSE b - d
  OBVIOUS
<1>3. c \in 0 .. Len(r)
  BY <1>0, <1>2
<1>4. ASSUME NEW i \in 1 .. Len(r) PROVE r[i] >= t <=> i <= c
  <2>1. d + i \in 1 .. Len(s)
    BY <1>0
  <2>2. s[d + i] >= t <=> d + i <= b
    BY <1>1, <2>1
  <2>3. d + i <= b <=> i <= c
    BY <1>0, <1>2
  <2> QED
    BY <1>0, <2>2, <2>3
<1> QED
  BY <1>3, <1>4

\* Recent() cuts a list where the calls that have left the window end.
LEMMA RecentIs ==
  ASSUME NEW e \in Seq(Nat), Stepped(e)
  PROVE  \E c \in 0 .. Len(e) :
           /\ \A i \in 1 .. Len(e) : e[i] >= Window <=> i <= c
           /\ Rest(Recent(e), e, c)
<1>1. PICK c \in 0 .. Len(e) : \A i \in 1 .. Len(e) : e[i] >= Window <=> i <= c
  BY WindowFacts DEF Stepped
<1>2. Len(e) \in Nat /\ c \in Nat /\ c <= Len(e)
  BY LenProperties
<1>3. {i \in 1 .. Len(e) : e[i] >= Window} = 1 .. c
  BY <1>1, <1>2
<1>4. Cardinality(1 .. c) = c
  BY <1>2, FS_Interval
<1>5. PICK r : r = Recent(e)
  OBVIOUS
<1>6. r = SubSeq(e, c + 1, Len(e))
  BY <1>3, <1>4, <1>5 DEF Recent
<1>7. Rest(r, e, c)
  BY <1>6, RestIs
<1> QED
  BY <1>1, <1>5, <1>7

LEMMA RecentStepped ==
  ASSUME NEW e \in Seq(Nat), Stepped(e)
  PROVE  /\ Recent(e) \in Seq(Nat) /\ Stepped(Recent(e)) /\ Len(Recent(e)) <= Len(e)
         /\ \A i \in 1 .. Len(Recent(e)) : Recent(e)[i] < Window
<1> PICK r : r = Recent(e)
  OBVIOUS
<1>1. PICK c \in 0 .. Len(e) :
        /\ \A i \in 1 .. Len(e) : e[i] >= Window <=> i <= c
        /\ Rest(r, e, c)
  BY RecentIs
<1>2. /\ Len(e) \in Nat /\ c \in Nat /\ c <= Len(e)
      /\ r \in Seq(Nat) /\ Len(r) = Len(e) - c
      /\ \A i \in 1 .. Len(r) : r[i] = e[c + i]
  BY <1>1, LenProperties DEF Rest
<1>3. ASSUME NEW i \in 1 .. Len(r) PROVE r[i] < Window
  <2>1. c + i \in 1 .. Len(e) /\ ~(c + i <= c)
    BY <1>1, <1>2
  <2>2. e[c + i] \in Nat
    BY <2>1, ElementOfSeq
  <2>3. ~(e[c + i] >= Window) /\ r[i] = e[c + i]
    BY <1>1, <1>2, <2>1
  <2> QED
    BY <2>2, <2>3, WindowFacts
<1>4. Stepped(r) /\ Len(r) <= Len(e)
  BY <1>1, <1>2, RestStepped
<1> QED
  BY <1>2, <1>3, <1>4

\* A list whose calls are all in the window is not cut.
LEMMA RecentOfGrants ==
  ASSUME NEW m, NEW g, Grants(m, g)
  PROVE  Len(Recent(g)) = Len(g)
<1>1. g \in Seq(Nat) /\ Stepped(g) /\ \A i \in 1 .. Len(g) : g[i] < Window
  BY DEF Grants
<1>2. PICK c \in 0 .. Len(g) :
        /\ \A i \in 1 .. Len(g) : g[i] >= Window <=> i <= c
        /\ Rest(Recent(g), g, c)
  BY <1>1, RecentIs
<1>3. Len(g) \in Nat /\ c \in Nat /\ c <= Len(g) /\ Len(Recent(g)) = Len(g) - c
  BY <1>1, <1>2, LenProperties DEF Rest
<1>4. CASE c > 0
  <2>1. c \in 1 .. Len(g)
    BY <1>3, <1>4
  <2>2. g[c] \in Nat /\ g[c] < Window /\ g[c] >= Window
    BY <1>1, <1>2, <1>3, <2>1, ElementOfSeq
  <2> QED
    BY <2>2, WindowFacts
<1> QED
  BY <1>2, <1>3, <1>4

\* What is recent of a list follows the calls let through as the list does,
\* and is not longer than they are.
LEMMA RecentFollows ==
  ASSUME NEW e \in Seq(Nat), Stepped(e), NEW g \in Seq(Nat), Follows(e, g)
  PROVE  Follows(Recent(e), g) /\ Len(Recent(e)) <= Len(g)
<1> PICK r : r = Recent(e)
  OBVIOUS
<1>1. PICK c \in 0 .. Len(e) :
        /\ \A i \in 1 .. Len(e) : e[i] >= Window <=> i <= c
        /\ Rest(r, e, c)
  BY RecentIs
<1>2. /\ Len(e) \in Nat /\ c \in Nat /\ c <= Len(e) /\ Len(g) \in Nat
      /\ r \in Seq(Nat) /\ Len(r) = Len(e) - c
      /\ \A i \in 1 .. Len(r) : r[i] = e[c + i]
  BY <1>1, LenProperties DEF Rest
<1>3. ASSUME NEW i \in 1 .. Len(r)
      PROVE  Len(r) - i < Len(g) /\ g[Len(g) - (Len(r) - i)] = r[i]
  <2>1. c + i \in 1 .. Len(e) /\ ~(c + i <= c) /\ Len(e) - (c + i) = Len(r) - i
    BY <1>1, <1>2
  <2>2. e[c + i] \in Nat
    BY <2>1, ElementOfSeq
  <2>3. e[c + i] < Window
    BY <1>1, <2>1, <2>2, WindowFacts
  <2>4. Len(e) - (c + i) < Len(g) /\ g[Len(g) - (Len(e) - (c + i))] = e[c + i]
    BY <2>1, <2>3 DEF Follows
  <2> QED
    BY <1>2, <2>1, <2>4
<1>4. Len(r) <= Len(g)
  <2>1. CASE Len(r) > 0
    <3>1. 1 \in 1 .. Len(r)
      BY <1>1, <1>2, <2>1
    <3>2. Len(r) - 1 < Len(g)
      BY <1>3, <3>1
    <3> QED
      BY <1>1, <1>2, <3>2
  <2> QED
    BY <1>1, <1>2, <2>1
<1>5. Follows(r, g)
  BY <1>3 DEF Follows
<1> QED
  BY <1>4, <1>5

-----------------------------------------------------------------------------
(* A call that passes, one that is refused, and time.                      *)

\* A call of now comes last.
LEMMA NowStepped ==
  ASSUME NEW s \in Seq(Nat), Stepped(s)
  PROVE  /\ Append(s, 0) \in Seq(Nat) /\ Stepped(Append(s, 0))
         /\ Len(Append(s, 0)) = Len(s) + 1
         /\ \A i \in 1 .. Len(s) : Append(s, 0)[i] = s[i]
         /\ Append(s, 0)[Len(s) + 1] = 0
<1>0. Len(s) \in Nat
  BY LenProperties
<1>1. /\ Append(s, 0) \in Seq(Nat) /\ Len(Append(s, 0)) = Len(s) + 1
      /\ \A i \in 1 .. Len(s) : Append(s, 0)[i] = s[i]
      /\ Append(s, 0)[Len(s) + 1] = 0
  BY AppendProperties
<1>2. PICK a : a = Append(s, 0)
  OBVIOUS
<1>3. ASSUME NEW t \in Nat
      PROVE  \E c \in 0 .. Len(a) : \A i \in 1 .. Len(a) : a[i] >= t <=> i <= c
  <2>1. PICK b \in 0 .. Len(s) : \A i \in 1 .. Len(s) : s[i] >= t <=> i <= b
    BY DEF Stepped
  <2>2. PICK c : c = IF t = 0 THEN Len(a) ELSE b
    OBVIOUS
  <2>3. c \in 0 .. Len(a)
    BY <1>0, <1>1, <1>2, <2>2
  <2>4. ASSUME NEW i \in 1 .. Len(a) PROVE a[i] >= t <=> i <= c
    <3>1. CASE i = Len(s) + 1
      BY <1>0, <1>1, <1>2, <2>2, <3>1
    <3>2. CASE i \in 1 .. Len(s)
      <4>1. s[i] \in Nat /\ a[i] = s[i]
        BY <1>1, <1>2, <3>2, ElementOfSeq
      <4>2. s[i] >= t <=> i <= b
        BY <2>1, <3>2
      <4>3. i <= Len(a)
        BY <1>0, <1>1, <1>2, <3>2
      <4> QED
        BY <2>2, <4>1, <4>2, <4>3
    <3> QED
      BY <1>0, <1>1, <1>2, <3>1, <3>2
  <2> QED
    BY <2>3, <2>4
<1>4. Stepped(a)
  BY <1>3 DEF Stepped
<1> QED
  BY <1>1, <1>2, <1>4

\* Latest() keeps an end of its list, the whole of it or as much as a window
\* may hold.
LEMMA LatestIs ==
  ASSUME NEW k \in Limited, NEW s \in Seq(Nat)
  PROVE  \E d \in 0 .. Len(s) :
           /\ Rest(Latest(s, k), s, d)
           /\ Len(s) - d = Least(Len(s), MaxRequests[k[2]])
<1> PICK m, l : m = MaxRequests[k[2]] /\ l = Latest(s, k)
  OBVIOUS
<1>1. Len(s) \in Nat /\ m \in Nat
  BY LenProperties, LimitFacts
<1>2. CASE Len(s) > m
  <2>1. PICK d : d = Len(s) - m
    OBVIOUS
  <2>2. d \in 0 .. Len(s) /\ Len(s) - d = m
    BY <1>1, <1>2, <2>1
  <2>3. l = SubSeq(s, d + 1, Len(s))
    BY <1>1, <1>2, <2>1 DEF Latest
  <2>4. Rest(l, s, d)
    BY <2>2, <2>3, RestIs
  <2>5. Least(Len(s), m) = m
    BY <1>1, <1>2 DEF Least
  <2> QED
    BY <2>2, <2>4, <2>5
<1>3. CASE ~(Len(s) > m)
  <2>1. l = s
    BY <1>3 DEF Latest
  <2>2. 0 \in 0 .. Len(s) /\ Len(s) - 0 = Len(s) /\ \A i \in 1 .. Len(s) : 0 + i = i
    BY <1>1
  <2>3. Rest(l, s, 0)
    BY <2>1, <2>2 DEF Rest
  <2>4. Least(Len(s), m) = Len(s)
    BY <1>1, <1>3 DEF Least
  <2> QED
    BY <2>2, <2>3, <2>4
<1> QED
  BY <1>2, <1>3

LEMMA PassedGrants ==
  ASSUME NEW k \in Limited, NEW m, m = MaxRequests[k[2]], NEW g, Grants(m, g)
  PROVE  Grants(m, Latest(Append(g, 0), k))
<1> PICK a, l : a = Append(g, 0) /\ l = Latest(a, k)
  OBVIOUS
<1>0. g \in Seq(Nat) /\ Stepped(g) /\ Len(g) <= m /\ \A i \in 1 .. Len(g) : g[i] < Window
  BY DEF Grants
<1>1. /\ a \in Seq(Nat) /\ Stepped(a) /\ Len(a) = Len(g) + 1
      /\ \A i \in 1 .. Len(g) : a[i] = g[i]
      /\ a[Len(g) + 1] = 0
  BY <1>0, NowStepped
<1>2. PICK d \in 0 .. Len(a) :
        /\ Rest(l, a, d)
        /\ Len(a) - d = Least(Len(a), m)
  BY <1>1, LatestIs
<1>3. /\ Len(g) \in Nat /\ m \in Nat /\ d \in Nat /\ d <= Len(a)
      /\ l \in Seq(Nat) /\ Len(l) = Len(a) - d
      /\ \A i \in 1 .. Len(l) : l[i] = a[d + i]
  BY <1>0, <1>1, <1>2, LenProperties, LimitFacts DEF Rest
<1>4. Stepped(l)
  BY <1>1, <1>2, RestStepped
<1>5. Len(l) <= m
  <2>1. Len(a) \in Nat /\ Len(l) = Least(Len(a), m)
    BY <1>1, <1>2, <1>3
  <2> QED
    BY <1>3, <2>1 DEF Least
<1>6. ASSUME NEW i \in 1 .. Len(l) PROVE l[i] < Window
  <2>0. Len(l) = Len(g) + 1 - d /\ Len(g) \in Nat /\ d \in Nat /\ d <= Len(g) + 1
    BY <1>1, <1>3
  <2>1. d + i \in 1 .. Len(g) \/ d + i = Len(g) + 1
    <3>1. i \in Nat /\ i >= 1 /\ i <= Len(g) + 1 - d
      BY <2>0
    <3> QED
      BY <2>0, <3>1
  <2>2. a[d + i] < Window
    BY <1>0, <1>1, <2>1, WindowFacts
  <2> QED
    BY <1>3, <2>2
<1> QED
  BY <1>3, <1>4, <1>5, <1>6 DEF Grants

\* The entry of a call that passes follows the calls let through, this one
\* included.
LEMMA PassedFollows ==
  ASSUME NEW k \in Limited, NEW m, m = MaxRequests[k[2]], NEW g \in Seq(Nat), Stepped(g),
         NEW e \in Seq(Nat), Stepped(e), Follows(e, g), Len(Recent(e)) < m
  PROVE  Follows(Append(Recent(e), 0), Latest(Append(g, 0), k))
<1> PICK r, b, a, l : /\ r = Recent(e) /\ b = Append(r, 0)
                      /\ a = Append(g, 0) /\ l = Latest(a, k)
  OBVIOUS
<1>1. r \in Seq(Nat) /\ Stepped(r) /\ Follows(r, g) /\ Len(r) <= Len(g)
  BY RecentStepped, RecentFollows
<1>2. /\ \A i \in 1 .. Len(r) : r[i] < Window
  BY RecentStepped
<1>3. /\ a \in Seq(Nat) /\ Len(a) = Len(g) + 1
      /\ \A i \in 1 .. Len(g) : a[i] = g[i]
      /\ a[Len(g) + 1] = 0
  BY NowStepped
<1>4. /\ Len(b) = Len(r) + 1
      /\ \A i \in 1 .. Len(r) : b[i] = r[i]
      /\ b[Len(r) + 1] = 0
  BY <1>1, NowStepped
<1>5. PICK d \in 0 .. Len(a) :
        /\ Rest(l, a, d)
        /\ Len(a) - d = Least(Len(a), m)
  BY <1>3, LatestIs
<1>6. /\ Len(l) \in Nat /\ Len(l) = Len(a) - d
      /\ \A i \in 1 .. Len(l) : l[i] = a[d + i]
  BY <1>5, LenProperties DEF Rest
<1>60. /\ Len(g) \in Nat /\ Len(r) \in Nat /\ m \in Nat /\ Len(r) < m
       /\ d \in Nat /\ d <= Len(a)
  BY <1>1, <1>3, LenProperties, LimitFacts
<1>7. Len(b) <= Len(l)
  BY <1>1, <1>3, <1>4, <1>5, <1>6, <1>60 DEF Least
<1>8. ASSUME NEW i \in 1 .. Len(b)
      PROVE  Len(b) - i < Len(l) /\ l[Len(l) - (Len(b) - i)] = b[i]
  <2>1. PICK j : j = Len(l) - (Len(b) - i)
    OBVIOUS
  <2>2. i \in Nat /\ i >= 1 /\ i <= Len(r) + 1 /\ Len(b) = Len(r) + 1
    BY <1>4, <1>60
  <2>3. j \in 1 .. Len(l) /\ Len(b) - i < Len(l)
    BY <1>6, <1>7, <1>60, <2>1, <2>2
  <2>4. l[j] = a[d + j]
    BY <1>6, <2>3
  <2>5. d + j = Len(g) + 1 - (Len(r) + 1 - i)
    BY <1>3, <1>6, <1>60, <2>1, <2>2
  <2>6. CASE i = Len(r) + 1
    <3>1. d + j = Len(g) + 1
      BY <1>60, <2>5, <2>6
    <3>2. l[j] = b[i]
      BY <1>3, <1>4, <2>4, <2>6, <3>1
    <3> QED
      BY <2>1, <2>3, <3>2
  <2>7. CASE i \in 1 .. Len(r)
    <3>1. Len(r) - i < Len(g) /\ g[Len(g) - (Len(r) - i)] = r[i]
      BY <1>1, <1>2, <2>7 DEF Follows
    <3>2. PICK p : p = Len(g) - (Len(r) - i)
      OBVIOUS
    <3>3. d + j = p /\ p \in 1 .. Len(g)
      BY <1>60, <2>2, <2>5, <2>7, <3>1, <3>2
    <3>4. l[j] = b[i]
      BY <1>3, <1>4, <2>4, <2>7, <3>1, <3>2, <3>3
    <3> QED
      BY <2>1, <2>3, <3>4
  <2>8. i = Len(r) + 1 \/ i \in 1 .. Len(r)
    BY <1>60, <2>2
  <2> QED
    BY <2>6, <2>7, <2>8
<1> QED
  BY <1>8 DEF Follows

\* The block of a refused call ends when the oldest of a full window leaves it.
LEMMA RefusedBlock ==
  ASSUME NEW m \in Nat, m > 0, NEW g, Grants(m, g),
         NEW e \in Seq(Nat), Stepped(e), Follows(e, g), ~(Len(Recent(e)) < m)
  PROVE  /\ Len(g) = m
         /\ Window - Head(Recent(e)) = Window - g[1]
         /\ Window - g[1] \in Nat /\ Window - g[1] > 0
<1> PICK r : r = Recent(e)
  OBVIOUS
<1>0. g \in Seq(Nat) /\ Len(g) <= m /\ \A i \in 1 .. Len(g) : g[i] < Window
  BY DEF Grants
<1>1. r \in Seq(Nat) /\ Follows(r, g) /\ Len(r) <= Len(g)
  BY <1>0, RecentStepped, RecentFollows
<1>2. \A i \in 1 .. Len(r) : r[i] < Window
  BY RecentStepped
<1>3. Len(r) = m /\ Len(g) = m
  BY <1>0, <1>1, LenProperties
<1>4. 1 \in 1 .. Len(r) /\ 1 \in 1 .. Len(g)
  BY <1>3
<1>5. g[Len(g) - (Len(r) - 1)] = r[1]
  BY <1>1, <1>2, <1>4 DEF Follows
<1>6. Len(g) - (Len(r) - 1) = 1
  BY <1>3
<1>7. r # <<>> /\ Head(r) = r[1]
  BY <1>1, <1>4, EmptySeq
<1>8. g[1] \in Nat /\ g[1] < Window
  BY <1>0, <1>4, ElementOfSeq
<1> QED
  BY <1>3, <1>5, <1>6, <1>7, <1>8, WindowFacts

LEMMA OlderStepped ==
  ASSUME NEW cap \in Nat, NEW s \in Seq(Nat), Stepped(s)
  PROVE  /\ Older(s, cap) \in Seq(Nat) /\ Stepped(Older(s, cap))
         /\ Len(Older(s, cap)) = Len(s)
         /\ \A i \in 1 .. Len(s) : Older(s, cap)[i] = Least(s[i] + 1, cap)
<1>0. Len(s) \in Nat
  BY LenProperties
<1> PICK o : o = Older(s, cap)
  OBVIOUS
<1>1. \A i \in 1 .. Len(s) : s[i] \in Nat /\ Least(s[i] + 1, cap) \in Nat
  BY ElementOfSeq DEF Least
<1>2. o = [i \in 1 .. Len(s) |-> Least(s[i] + 1, cap)]
  BY DEF Older
<1>3. o \in [1 .. Len(s) -> Nat]
  BY <1>1, <1>2
<1>4. o \in Seq(Nat)
  BY <1>0, <1>3, SeqDef
<1>5. Len(o) = Len(s)
  <2>1. DOMAIN o = 1 .. Len(s) /\ DOMAIN o = 1 .. Len(o) /\ Len(o) \in Nat
    BY <1>3, <1>4, LenProperties
  <2> QED
    BY <1>0, <2>1
<1>6. \A i \in 1 .. Len(s) : o[i] = Least(s[i] + 1, cap)
  BY <1>2
<1>7. ASSUME NEW t \in Nat
      PROVE  \E c \in 0 .. Len(o) : \A i \in 1 .. Len(o) : o[i] >= t <=> i <= c
  <2>1. CASE t = 0
    <3>1. \A i \in 1 .. Len(o) : o[i] \in Nat /\ i <= Len(o)
      BY <1>0, <1>1, <1>5, <1>6
    <3>2. \A i \in 1 .. Len(o) : o[i] >= t <=> i <= Len(o)
      BY <2>1, <3>1
    <3>3. Len(o) \in 0 .. Len(o)
      BY <1>0, <1>5
    <3> QED
      BY <3>2, <3>3
  <2>2. CASE t > cap
    <3>1. \A i \in 1 .. Len(o) : o[i] <= cap /\ o[i] \in Nat
      BY <1>1, <1>5, <1>6 DEF Least
    <3>2. \A i \in 1 .. Len(o) : o[i] >= t <=> i <= 0
      BY <2>2, <3>1
    <3> QED
      BY <1>0, <1>5, <3>2
  <2>3. CASE t > 0 /\ t <= cap
    <3>0. t - 1 \in Nat
      BY <2>3
    <3>1. PICK c \in 0 .. Len(s) : \A i \in 1 .. Len(s) : s[i] >= t - 1 <=> i <= c
      BY <3>0 DEF Stepped
    <3>2. ASSUME NEW i \in 1 .. Len(o) PROVE o[i] >= t <=> i <= c
      <4>1. i \in 1 .. Len(s) /\ s[i] \in Nat /\ o[i] = Least(s[i] + 1, cap)
        BY <1>1, <1>5, <1>6
      <4>2. o[i] >= t <=> s[i] >= t - 1
        BY <2>3, <4>1 DEF Least
      <4> QED
        BY <3>1, <4>1, <4>2
    <3> QED
      BY <1>5, <3>2
  <2> QED
    BY <2>1, <2>2, <2>3
<1>8. Stepped(o)
  BY <1>7 DEF Stepped
<1> QED
  BY <1>4, <1>5, <1>6, <1>8

LEMMA OlderGrants ==
  ASSUME NEW m \in Nat, NEW g, Grants(m, g)
  PROVE  Grants(m, Recent(Older(g, Window)))
<1> PICK o : o = Older(g, Window)
  OBVIOUS
<1>1. g \in Seq(Nat) /\ Stepped(g) /\ Len(g) <= m
  BY DEF Grants
<1>2. o \in Seq(Nat) /\ Stepped(o) /\ Len(o) = Len(g)
  BY <1>1, WindowFacts, OlderStepped
<1>3. /\ Recent(o) \in Seq(Nat) /\ Stepped(Recent(o)) /\ Len(Recent(o)) <= Len(o)
      /\ \A i \in 1 .. Len(Recent(o)) : Recent(o)[i] < Window
  BY <1>2, RecentStepped
<1>4. Len(Recent(o)) <= m
  BY <1>1, <1>2, <1>3, LenProperties
<1> QED
  BY <1>3, <1>4 DEF Grants

LEMMA OlderFollows ==
  ASSUME NEW e \in Seq(Nat), Stepped(e), NEW g \in Seq(Nat), Stepped(g), Follows(e, g)
  PROVE  Follows(Older(e, MaxAge), Recent(Older(g, Window)))
<1> PICK f, o, r : f = Older(e, MaxAge) /\ o = Older(g, Window) /\ r = Recent(o)
  OBVIOUS
<1>1. /\ o \in Seq(Nat) /\ Stepped(o) /\ Len(o) = Len(g)
      /\ \A i \in 1 .. Len(g) : o[i] = Least(g[i] + 1, Window)
  BY WindowFacts, OlderStepped
<1>2. /\ Len(f) = Len(e)
      /\ \A i \in 1 .. Len(e) : f[i] = Least(e[i] + 1, MaxAge)
  BY WindowFacts, OlderStepped
<1>3. PICK c \in 0 .. Len(o) :
        /\ \A i \in 1 .. Len(o) : o[i] >= Window <=> i <= c
        /\ Rest(r, o, c)
  BY <1>1, RecentIs
<1>4. /\ Len(e) \in Nat /\ Len(g) \in Nat /\ c \in Nat /\ c <= Len(g)
      /\ Len(r) = Len(g) - c /\ \A i \in 1 .. Len(r) : r[i] = o[c + i]
  BY <1>1, <1>3, LenProperties DEF Rest
<1>5. ASSUME NEW i \in 1 .. Len(f), f[i] < Window
      PROVE  Len(f) - i < Len(r) /\ r[Len(r) - (Len(f) - i)] = f[i]
  <2>1. i \in 1 .. Len(e) /\ e[i] \in Nat
    BY <1>2, ElementOfSeq
  <2>2. f[i] = e[i] + 1 /\ e[i] + 1 < Window
    <3>1. f[i] = Least(e[i] + 1, MaxAge) /\ f[i] < Window
      BY <1>2, <1>5, <2>1
    <3> QED
      BY <2>1, <3>1, WindowFacts DEF Least
  <2>3. e[i] < Window
    BY <2>1, <2>2, WindowFacts
  <2>4. Len(e) - i < Len(g) /\ g[Len(g) - (Len(e) - i)] = e[i]
    BY <2>1, <2>3 DEF Follows
  <2>5. PICK p : p = Len(g) - (Len(e) - i)
    OBVIOUS
  <2>6. p \in 1 .. Len(g)
    BY <1>4, <2>1, <2>4, <2>5
  <2>7. o[p] = e[i] + 1
    BY <1>1, <2>1, <2>2, <2>4, <2>5, <2>6, WindowFacts DEF Least
  <2>8. ~(p <= c)
    <3>1. p \in 1 .. Len(o)
      BY <1>1, <2>6
    <3>2. ~(e[i] + 1 >= Window)
      BY <2>1, <2>2, WindowFacts
    <3> QED
      BY <1>3, <2>7, <3>1, <3>2
  <2>9. PICK q : q = p - c
    OBVIOUS
  <2>10. q \in 1 .. Len(r) /\ c + q = p
    BY <1>4, <2>6, <2>8, <2>9
  <2>11. q = Len(r) - (Len(f) - i) /\ Len(f) - i < Len(r)
    <3>1. i \in Nat /\ q \in Nat /\ q >= 1
      BY <1>4, <2>1, <2>10
    <3> QED
      BY <1>2, <1>4, <2>5, <2>9, <3>1
  <2> QED
    BY <1>4, <2>2, <2>7, <2>10, <2>11
<1> QED
  BY <1>5 DEF Follows

\* A full window that still holds its oldest call after a tick is full then.
LEMMA OlderBlock ==
  ASSUME NEW m \in Nat, m > 0, NEW g, Grants(m, g), Len(g) = m, Window - g[1] > 1
  PROVE  LET r == Recent(Older(g, Window)) IN
         Len(r) = m /\ Window - r[1] = Window - g[1] - 1
<1> PICK o, r : o = Older(g, Window) /\ r = Recent(o)
  OBVIOUS
<1>0. g \in Seq(Nat) /\ Stepped(g)
  BY DEF Grants
<1>1. /\ o \in Seq(Nat) /\ Stepped(o) /\ Len(o) = m
      /\ \A i \in 1 .. m : o[i] = Least(g[i] + 1, Window)
  BY <1>0, WindowFacts, OlderStepped
<1>2. PICK c \in 0 .. Len(o) :
        /\ \A i \in 1 .. Len(o) : o[i] >= Window <=> i <= c
        /\ Rest(r, o, c)
  BY <1>1, RecentIs
<1>3. 1 \in 1 .. m /\ g[1] \in Nat
  BY <1>0, ElementOfSeq
<1>4. o[1] = g[1] + 1 /\ o[1] < Window
  BY <1>1, <1>3, WindowFacts DEF Least
<1>5. ~(1 <= c)
  BY <1>1, <1>2, <1>3, <1>4, WindowFacts
<1>6. c = 0 /\ Len(r) = m /\ \A i \in 1 .. Len(r) : r[i] = o[0 + i]
  BY <1>1, <1>2, <1>5 DEF Rest
<1>7. r[1] = o[1]
  BY <1>3, <1>6
<1> QED
  BY <1>3, <1>4, <1>6, <1>7, WindowFacts

-----------------------------------------------------------------------------
(* The invariant of the limiters.                                          *)

\* The entry as checkRateLimit() finds it, a fresh one included.
LEMMA EntryFits ==
  ASSUME LimInv, NEW k \in Limited, NEW m, m = MaxRequests[k[2]], NEW g, g = granted[k]
  PROVE  /\ Grants(m, g) /\ Fits(m, g, Entry(k))
         /\ Entry(k).block = NoLimit \/ Entry(k).block > 0
<1>1. Grants(m, g)
  BY DEF LimInv
<1>2. CASE Entry(k) = Fresh
  <2>1. Fresh.ages = <<>> /\ Fresh.block = NoLimit
    BY DEF Fresh
  <2>2. <<>> \in Seq(Nat) /\ Len(<<>>) = 0
    BY EmptySeq
  <2>3. Stepped(<<>>) /\ Follows(<<>>, g)
    BY <2>2 DEF Stepped, Follows
  <2>4. ~(NoLimit > 0)
    BY LimitFacts
  <2> QED
    BY <1>1, <1>2, <2>1, <2>2, <2>3, <2>4 DEF Fits
<1>3. CASE Entry(k) # Fresh
  <2>1. k \in DOMAIN limiters /\ limiters[k].block # 0 /\ Entry(k) = limiters[k]
    BY <1>3 DEF Entry
  <2>2. Fits(m, g, Entry(k))
    BY <2>1 DEF LimInv
  <2>3. Entry(k).block \in Nat \cup {NoLimit} /\ Entry(k).block # 0
    BY <2>1, <2>2 DEF Fits
  <2> QED
    BY <1>1, <2>2, <2>3
<1> QED
  BY <1>2, <1>3

\* An entry that is not blocked lets a call pass, or the window is full.
LEMMA PassedFits ==
  ASSUME LimInv, NEW k \in Limited, NEW m, m = MaxRequests[k[2]], NEW g, g = granted[k],
         Passes(k)
  PROVE  Fits(m, Latest(Append(g, 0), k), Checked(k))
<1> PICK e, r : e = Entry(k).ages /\ r = Append(Recent(e), 0)
  OBVIOUS
<1>1. /\ Grants(m, g) /\ Fits(m, g, Entry(k))
      /\ Entry(k).block = NoLimit \/ Entry(k).block > 0
  BY EntryFits
<1>2. ~(Entry(k).block > 0) /\ Len(Recent(e)) < m
  BY DEF Passes, Blocked
<1>3. Entry(k).block = NoLimit
  BY <1>1, <1>2
<1>4. e \in Seq(Nat) /\ Stepped(e) /\ Follows(e, g)
  BY <1>1, <1>3 DEF Fits
<1>5. Checked(k) = [ages |-> r, block |-> NoLimit]
  BY DEF Checked, Passes
<1>6. Recent(e) \in Seq(Nat) /\ Stepped(Recent(e))
  BY <1>4, RecentStepped
<1>7. r \in Seq(Nat) /\ Stepped(r)
  BY <1>6, NowStepped
<1>8. g \in Seq(Nat) /\ Stepped(g)
  BY <1>1 DEF Grants
<1>9. Follows(r, Latest(Append(g, 0), k))
  BY <1>2, <1>4, <1>8, PassedFollows
<1>10. ~(NoLimit > 0)
  BY LimitFacts
<1> QED
  BY <1>5, <1>7, <1>9, <1>10 DEF Fits

LEMMA RefusedFits ==
  ASSUME LimInv, NEW k \in Limited, NEW m, m = MaxRequests[k[2]], NEW g, g = granted[k],
         ~Passes(k)
  PROVE  Fits(m, g, Checked(k)) /\ Len(g) = m
<1> PICK e : e = Entry(k).ages
  OBVIOUS
<1>0. m \in Nat /\ m > 0
  BY LimitFacts
<1>1. /\ Grants(m, g) /\ Fits(m, g, Entry(k))
      /\ Entry(k).block = NoLimit \/ Entry(k).block > 0
  BY EntryFits
<1>2. CASE Blocked(k)
  <2>1. Entry(k).block > 0 /\ Checked(k) = Entry(k)
    BY <1>2 DEF Blocked, Checked
  <2> QED
    BY <1>1, <2>1 DEF Fits
<1>3. CASE ~Blocked(k)
  <2>1. Entry(k).block = NoLimit /\ ~(Len(Recent(e)) < m)
    BY <1>1, <1>3 DEF Blocked, Passes
  <2>2. e \in Seq(Nat) /\ Stepped(e) /\ Follows(e, g)
    BY <1>1, <2>1 DEF Fits
  <2>3. PICK b : b = Window - Head(Recent(e))
    OBVIOUS
  <2>4. Len(g) = m /\ b = Window - g[1] /\ b \in Nat /\ b > 0
    BY <1>0, <1>1, <2>1, <2>2, <2>3, RefusedBlock
  <2>5. Checked(k) = [ages |-> Recent(e), block |-> b]
    BY <1>3, <2>3 DEF Checked
  <2>6. Recent(e) \in Seq(Nat) /\ Stepped(Recent(e))
    BY <2>2, RecentStepped
  <2>7. b # NoLimit
    BY <2>4, LimitFacts
  <2> QED
    BY <2>4, <2>5, <2>6, <2>7 DEF Fits
<1> QED
  BY <1>2, <1>3

LEMMA InitLim == Init => LimInv
<1> SUFFICES ASSUME Init PROVE LimInv
  OBVIOUS
<1>1. DOMAIN limiters = {} /\ DOMAIN granted = Limited
  BY DEF Init
<1>2. <<>> \in Seq(Nat) /\ Len(<<>>) = 0
  BY EmptySeq
<1>3. Stepped(<<>>)
  BY <1>2 DEF Stepped
<1>4. \A k \in Limited : Grants(MaxRequests[k[2]], <<>>)
  BY <1>2, <1>3, LimitFacts DEF Grants
<1>5. \A k \in Limited : granted[k] = <<>>
  BY DEF Init
<1> QED
  BY <1>1, <1>4, <1>5 DEF LimInv

LEMMA ChargeLim ==
  ASSUME LimInv, NEW p, NEW type, Charge(p, type)
  PROVE  LimInv'
<1> PICK k : k = <<p, type>>
  OBVIOUS
<1>1. CASE k \notin Limited
  BY <1>1 DEF Charge, apiVars, LimInv
<1>2. CASE k \in Limited
  <2> PICK m, g, new : m = MaxRequests[k[2]] /\ g = granted[k] /\ new = Checked(k)
    OBVIOUS
  <2>1. /\ limiters' = [j \in DOMAIN limiters \cup {k} |->
                          IF j = k THEN new ELSE limiters[j]]
        /\ granted' = IF Passes(k) THEN [granted EXCEPT ![k] = Latest(Append(g, 0), k)]
                      ELSE granted
    BY <1>2 DEF Charge
  <2>2. Grants(m, g) /\ DOMAIN limiters \subseteq Limited /\ DOMAIN granted = Limited
    BY <1>2 DEF LimInv
  <2>3. DOMAIN limiters' \subseteq Limited /\ DOMAIN granted' = Limited
    BY <1>2, <2>1, <2>2
  <2>4. /\ limiters'[k] = new
        /\ \A j \in Limited \ {k} :
             /\ granted'[j] = granted[j]
             /\ j \in DOMAIN limiters' => j \in DOMAIN limiters /\ limiters'[j] = limiters[j]
    BY <1>2, <2>1, <2>2
  <2>5. Grants(m, granted'[k]) /\ Fits(m, granted'[k], new)
    <3>1. CASE Passes(k)
      <4>1. granted'[k] = Latest(Append(g, 0), k)
        BY <1>2, <2>1, <2>2, <3>1
      <4>2. Grants(m, Latest(Append(g, 0), k))
        BY <1>2, <2>2, PassedGrants
      <4>3. Fits(m, Latest(Append(g, 0), k), new)
        BY <1>2, <3>1, PassedFits
      <4> QED
        BY <4>1, <4>2, <4>3
    <3>2. CASE ~Passes(k)
      <4>1. granted'[k] = g
        BY <2>1, <3>2
      <4>2. Fits(m, g, new)
        BY <1>2, <3>2, RefusedFits
      <4> QED
        BY <2>2, <4>1, <4>2
    <3> QED
      BY <3>1, <3>2
  <2>6. ASSUME NEW j \in Limited
        PROVE  /\ Grants(MaxRequests[j[2]], granted'[j])
               /\ j \in DOMAIN limiters' => Fits(MaxRequests[j[2]], granted'[j], limiters'[j])
    <3>1. CASE j = k
      BY <2>4, <2>5, <3>1
    <3>2. CASE j # k
      BY <2>4, <3>2 DEF LimInv
    <3> QED
      BY <3>1, <3>2
  <2> QED
    BY <2>3, <2>6 DEF LimInv
<1> QED
  BY <1>1, <1>2

\* Entries evicted or cleaned up only forget.
LEMMA KeepLim ==
  ASSUME LimInv, NEW ks \in SUBSET DOMAIN limiters, Keep(ks)
  PROVE  LimInv'
<1>1. /\ DOMAIN limiters' = ks /\ granted' = granted
      /\ \A k \in ks : limiters'[k] = limiters[k]
  BY DEF Keep
<1> QED
  BY <1>1 DEF LimInv

LEMMA TickFits ==
  ASSUME NEW m \in Nat, m > 0, NEW g, Grants(m, g), NEW entry, Fits(m, g, entry),
         NEW new, new = [ages |-> Older(entry.ages, MaxAge),
                         block |-> IF entry.block > 0 THEN entry.block - 1 ELSE entry.block]
  PROVE  Fits(m, Recent(Older(g, Window)), new)
<1> PICK e, b, r : e = entry.ages /\ b = entry.block /\ r = Recent(Older(g, Window))
  OBVIOUS
<1>1. /\ e \in Seq(Nat) /\ Stepped(e) /\ b \in Nat \cup {NoLimit}
      /\ (b = NoLimit => Follows(e, g)) /\ (b > 0 => Len(g) = m /\ b = Window - g[1])
  BY DEF Fits
<1>2. new.ages = Older(e, MaxAge) /\ new.block = IF b > 0 THEN b - 1 ELSE b
  OBVIOUS
<1>3. new.ages \in Seq(Nat) /\ Stepped(new.ages)
  BY <1>1, <1>2, WindowFacts, OlderStepped
<1>4. g \in Seq(Nat) /\ Stepped(g)
  BY DEF Grants
<1>5. new.block \in Nat \cup {NoLimit} /\ (new.block = NoLimit => b = NoLimit)
  BY <1>1, <1>2, LimitFacts
<1>6. ASSUME new.block = NoLimit PROVE Follows(new.ages, r)
  BY <1>1, <1>2, <1>4, <1>5, <1>6, OlderFollows
<1>7. ASSUME new.block > 0 PROVE Len(r) = m /\ new.block = Window - r[1]
  <2>1. b > 1 /\ new.block = b - 1
    BY <1>1, <1>2, <1>7, LimitFacts
  <2>2. Len(g) = m /\ b = Window - g[1]
    BY <1>1, <2>1, LimitFacts
  <2>3. Len(r) = m /\ Window - r[1] = Window - g[1] - 1
    BY <2>1, <2>2, OlderBlock
  <2> QED
    BY <2>1, <2>2, <2>3
<1> QED
  BY <1>3, <1>5, <1>6, <1>7 DEF Fits

LEMMA TickLim == ASSUME LimInv, Tick PROVE LimInv'
<1>1. /\ granted' = [k \in Limited |-> Recent(Older(granted[k], Window))]
      /\ DOMAIN limiters' = DOMAIN limiters
      /\ \A k \in DOMAIN limiters : limiters'[k] =
           [ages |-> Older(limiters[k].ages, MaxAge),
            block |-> IF limiters[k].block > 0 THEN limiters[k].block - 1
                      ELSE limiters[k].block]
  BY DEF Tick
<1>2. ASSUME NEW k \in Limited
      PROVE  /\ Grants(MaxRequests[k[2]], granted'[k])
             /\ k \in DOMAIN limiters' => Fits(MaxRequests[k[2]], granted'[k], limiters'[k])
  <2> PICK m, g, new : m = MaxRequests[k[2]] /\ g = granted[k] /\ new = limiters'[k]
    OBVIOUS
  <2>1. m \in Nat /\ m > 0 /\ Grants(m, g) /\ granted'[k] = Recent(Older(g, Window))
    BY <1>1, LimitFacts DEF LimInv
  <2>2. ASSUME k \in DOMAIN limiters PROVE Fits(m, granted'[k], new)
    <3>1. Fits(m, g, limiters[k])
      BY <2>2 DEF LimInv
    <3> QED
      BY <1>1, <2>1, <2>2, <3>1, TickFits
  <2> QED
    BY <1>1, <2>1, <2>2, OlderGrants
<1> QED
  BY <1>1, <1>2 DEF LimInv

LEMMA StepLim == LimInv /\ [Next]_vars => LimInv'
<1> SUFFICES ASSUME LimInv, [Next]_vars PROVE LimInv'
  OBVIOUS
<1>1. CASE UNCHANGED apiVars
  BY <1>1 DEF apiVars, LimInv
<1>2. CASE CreateRoom \/ StoreOffer \/ PollAnswer \/ CheckRoom \/ GetOffer \/ PostAnswer
  BY <1>2, ChargeLim DEF CreateRoom, StoreOffer, PollAnswer, CheckRoom, GetOffer, PostAnswer
<1>3. ASSUME NEW p \in Page, Candidate(p) \/ FetchIce(p) \/ TakeIce(p) PROVE LimInv'
  BY <1>1, <1>3, ChargeLim DEF Candidate, FetchIce, TakeIce
<1>4. CASE Renew \/ PollFails \/ BackoffEnds \/ Join \/ Connect \/ CleanupRooms
  BY <1>1, <1>4 DEF Renew, PollFails, BackoffEnds, Join, Connect, CleanupRooms
<1>5. ASSUME NEW c \in Pc, WaiterTimesOut(c) \/ ReqCloses(c) PROVE LimInv'
  BY <1>1, <1>5 DEF WaiterTimesOut, ReqCloses
<1>6. ASSUME NEW r \in Room, RelayMoves(r) PROVE LimInv'
  BY <1>1, <1>6 DEF RelayMoves
<1>7. CASE CleanupRateLimiters
  BY <1>7, KeepLim DEF CleanupRateLimiters
<1>8. CASE Evict
  BY <1>8, KeepLim DEF Evict
<1>9. CASE Tick
  BY <1>9, TickLim
<1> QED
  BY <1>1, <1>2, <1>3, <1>4, <1>5, <1>6, <1>7, <1>8, <1>9 DEF Next, vars

\* checkRateLimit() turns a page away only while the last window holds as
\* many calls of it as maxRequests: age, eviction and cleanupRateLimiters() only make
\* an entry forget calls, and a block ends with the oldest call it counts.
THEOREM RefusalsAreSpent == Spec => []RefusedIsSpent
<1>1. Init => LimInv
  BY InitLim
<1>2. LimInv /\ [Next]_vars => LimInv'
  BY StepLim
<1>3. LimInv => RefusedIsSpent
  <2> SUFFICES ASSUME LimInv, NEW k \in Limited, ~Passes(k)
               PROVE  Len(Recent(granted[k])) >= MaxRequests[k[2]]
    BY DEF RefusedIsSpent
  <2> PICK m, g : m = MaxRequests[k[2]] /\ g = granted[k]
    OBVIOUS
  <2>1. Len(g) = m /\ Grants(m, g) /\ m \in Nat
    BY RefusedFits, LimitFacts DEF LimInv
  <2>2. Len(Recent(g)) = Len(g)
    BY <2>1, RecentOfGrants
  <2> QED
    BY <2>1, <2>2
<1> QED
  BY <1>1, <1>2, <1>3, PTL DEF Spec

=============================================================================
