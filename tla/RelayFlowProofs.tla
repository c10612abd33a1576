--------------------------- MODULE RelayFlowProofs ---------------------------
(***************************************************************************)
(* The frames that RelayServer hands to a connection, for every number of  *)
(* connections and frames and for every limit.  First the streams: they    *)
(* are an unbroken run of one sender's, and nobody who was given them is   *)
(* open once that sender is over.  Then the backpressure: what waits for a *)
(* connection stays within its bound and the sliver of one pause.  Rests   *)
(* on the slots of RelayServerProofs.                                      *)
(***************************************************************************)
EXTENDS RelayServerProofs

AnyFrame == [from : Conn, seq : Nat]

FlowTypes ==
  /\ handed \in [Conn -> Seq(AnyFrame)] /\ backlog \in [Conn -> Seq(AnyFrame)]
  /\ sent \in [Conn -> Nat] /\ handled \in [Conn -> Nat]
  /\ oversized \in BOOLEAN

-----------------------------------------------------------------------------
(* The inductive invariant.  That streams are whole is not inductive: the  *)
(* next frame of a connection must continue the last one its peer was      *)
(* given, which needs that both still face each other.                     *)

\* Nobody is open once the room is gone.
RoomOver == ~roomLive => \A c \in Conn : ready[c] # "open"

\* Nobody who is over stands in a slot.
SlotsAlive == \A s \in Slot : relay[s] # 0 => ready[relay[s]] # "closed"

\* A long-poll page's frame is handled when it is posted.
PostsHandled == \A c \in Conn : IsLp(c) => handled[c] = sent[c]

\* Nothing went either way on a connection that was not opened.
NothingYet == \A c \in Conn : c > opened =>
  handed[c] = <<>> /\ backlog[c] = <<>> /\ handled[c] = sent[c]

\* What an open connection was given came from the one it faces, and ends with
\* the last frame that was taken from there.
FromPeer ==
  ~oversized =>
    \A d \in Conn : ready[d] = "open" =>
      \A i \in 1 .. Len(Stream(d)) :
        /\ Stream(d)[i].from = Peer(d)
        /\ i = Len(Stream(d)) => Stream(d)[i].seq = handled[Peer(d)]

StreamInv ==
  /\ FlowTypes /\ RoomOver /\ SlotsAlive /\ PostsHandled /\ NothingYet
  /\ FromPeer /\ StreamIsWhole

-----------------------------------------------------------------------------
(* Streams as sequences.                                                   *)

LEMMA HeadMoves ==
  ASSUME NEW S, NEW h \in Seq(S), NEW q \in Seq(S), q # <<>>
  PROVE  /\ Append(h, Head(q)) \o Tail(q) = h \o q
         /\ Append(h, Head(q)) \in Seq(S) /\ Tail(q) \in Seq(S)
<1>1. Head(q) \in S /\ Tail(q) \in Seq(S) /\ q = <<Head(q)>> \o Tail(q)
  OBVIOUS
<1>2. Append(h, Head(q)) = h \o <<Head(q)>> /\ <<Head(q)>> \in Seq(S)
  BY <1>1, AppendIsConcat
<1>3. (h \o <<Head(q)>>) \o Tail(q) = h \o (<<Head(q)>> \o Tail(q))
  BY <1>1, <1>2, ConcatAssociative
<1> QED
  BY <1>1, <1>2, <1>3, AppendProperties

LEMMA TailGrows ==
  ASSUME NEW S, NEW h \in Seq(S), NEW b \in Seq(S), NEW f \in S
  PROVE  h \o Append(b, f) = Append(h \o b, f)
<1>1. Append(b, f) = b \o <<f>> /\ <<f>> \in Seq(S) /\ h \o b \in Seq(S)
  BY AppendIsConcat, ConcatProperties
<1>2. Append(h \o b, f) = (h \o b) \o <<f>>
  BY <1>1, AppendIsConcat
<1> QED
  BY <1>1, <1>2, ConcatAssociative

LEMMA StreamType ==
  ASSUME FlowTypes, NEW d \in Conn
  PROVE  /\ Stream(d) \in Seq(AnyFrame) /\ Len(Stream(d)) \in Nat
         /\ \A i \in 1 .. Len(Stream(d)) : Stream(d)[i] \in AnyFrame
         /\ handed[d] \in Seq(AnyFrame) /\ backlog[d] \in Seq(AnyFrame)
<1>1. handed[d] \in Seq(AnyFrame) /\ backlog[d] \in Seq(AnyFrame)
  BY DEF FlowTypes
<1>2. Stream(d) \in Seq(AnyFrame)
  BY <1>1, ConcatProperties DEF Stream
<1> QED
  BY <1>1, <1>2, LenProperties, ElementOfSeq

-----------------------------------------------------------------------------
LEMMA InitStream == Init => StreamInv
<1> SUFFICES ASSUME Init PROVE StreamInv
  OBVIOUS
<1>1. \A c \in Conn : handed[c] = <<>> /\ backlog[c] = <<>>
  BY DEF Init
<1>2. \A d \in Conn : Stream(d) = <<>>
  BY <1>1 DEF Stream
<1>3. FlowTypes
  <2>1. <<>> \in Seq(AnyFrame)
    OBVIOUS
  <2> QED
    BY <2>1 DEF Init, FlowTypes
<1>4. RoomOver /\ SlotsAlive /\ PostsHandled /\ NothingYet
  BY <1>1 DEF Init, RoomOver, SlotsAlive, PostsHandled, NothingYet
<1>5. FromPeer /\ StreamIsWhole
  BY <1>2 DEF FromPeer, StreamIsWhole
<1> QED
  BY <1>3, <1>4, <1>5 DEF StreamInv

\* With one connection of a live room in its slot, only it and its peer can be
\* open: everybody open holds a slot, and there are two.
LEMMA TwoAreOpen ==
  ASSUME SlotInv, StreamInv, NEW c \in Conn, roomLive => relay[place[c]] = c,
         NEW d \in Conn, ready[d] = "open"
  PROVE  /\ roomLive /\ relay[place[d]] = d
         /\ d # c => d = Peer(c) /\ c = Peer(d)
<1>1. roomLive /\ relay[place[d]] = d /\ relay[place[c]] = c
  BY DEF StreamInv, RoomOver, SlotInv, HoldsItsSlot
<1>2. d # c => place[d] = Other(place[c]) /\ place[c] = Other(place[d])
  BY <1>1 DEF SlotInv, SlotTypes, Slot, Other
<1> QED
  BY <1>1, <1>2 DEF Peer

\* Steps that leave slots, counts and what was given to whom alone; frames may
\* move from what waits for a connection to what it was handed.
LEMMA StreamsUntouched ==
  ASSUME SlotInv, StreamInv,
         UNCHANGED <<connVars, roomLive, relay, ready, handled, oversized>>,
         sent' \in [Conn -> Nat], \A c \in Conn : IsLp(c) \/ c > opened => sent'[c] = sent[c],
         handed' \in [Conn -> Seq(AnyFrame)], backlog' \in [Conn -> Seq(AnyFrame)],
         \A d \in Conn : Stream(d)' = Stream(d),
         \A d \in Conn : handed[d] = <<>> /\ backlog[d] = <<>>
                        => handed'[d] = <<>> /\ backlog'[d] = <<>>
  PROVE  StreamInv'
<1> USE DEF StreamInv
<1>1. FlowTypes' /\ RoomOver' /\ SlotsAlive' /\ PostsHandled' /\ NothingYet'
  BY DEF FlowTypes, RoomOver, SlotsAlive, PostsHandled, NothingYet, IsLp, connVars
<1>2. FromPeer'
  <2>1. \A d \in Conn : Peer(d)' = Peer(d)
    BY DEF Peer, connVars
  <2> QED
    BY <2>1 DEF FromPeer
<1>3. StreamIsWhole'
  BY DEF StreamIsWhole
<1> QED
  BY <1>1, <1>2, <1>3

\* A frame moves from the queue's head to the page.
LEMMA FrameMoves ==
  ASSUME SlotInv, StreamInv, NEW c \in Conn, backlog[c] # <<>>,
         handed' = [handed EXCEPT ![c] = Append(@, Head(backlog[c]))],
         backlog' = [backlog EXCEPT ![c] = Tail(@)],
         UNCHANGED <<connVars, roomLive, relay, ready, sent, handled, oversized>>
  PROVE  StreamInv'
<1>1. /\ handed \in [Conn -> Seq(AnyFrame)] /\ backlog \in [Conn -> Seq(AnyFrame)]
      /\ sent \in [Conn -> Nat]
  BY DEF StreamInv, FlowTypes
<1>2. /\ Append(handed[c], Head(backlog[c])) \o Tail(backlog[c]) = handed[c] \o backlog[c]
      /\ Append(handed[c], Head(backlog[c])) \in Seq(AnyFrame)
      /\ Tail(backlog[c]) \in Seq(AnyFrame)
  BY <1>1, HeadMoves
<1>3. handed' \in [Conn -> Seq(AnyFrame)] /\ backlog' \in [Conn -> Seq(AnyFrame)]
  BY <1>1, <1>2
<1>4. \A d \in Conn : Stream(d)' = Stream(d)
  BY <1>1, <1>2 DEF Stream
<1>5. \A d \in Conn : handed[d] = <<>> /\ backlog[d] = <<>>
                     => handed'[d] = <<>> /\ backlog'[d] = <<>>
  BY <1>1
<1> QED
  BY <1>1, <1>3, <1>4, <1>5, StreamsUntouched

\* A teardown after which nobody is open, or one for an oversized message.
LEMMA TeardownStreams ==
  ASSUME SlotInv, StreamInv, NEW told \in SUBSET Conn, NEW ended \in SUBSET Conn, NEW off,
         Teardown(told, ended, off),
         \A c \in told \cup ended : c <= opened,
         UNCHANGED <<connVars, handed, backlog>>,
         sent' \in [Conn -> Nat] /\ handled' \in [Conn -> Nat],
         \A c \in Conn : IsLp(c) \/ c > opened => handled'[c] = sent'[c],
         oversized' \in BOOLEAN, oversized => oversized',
         oversized' \/ \A d \in Conn : ready[d] = "open" => d \in told \cup ended,
         \/ roomLive' = roomLive
         \/ \A d \in Conn : ready[d] = "open" => d \in told \cup ended
  PROVE  StreamInv'
<1> USE DEF StreamInv
<1>1. /\ \A d \in Conn : ready'[d] = "open" => ready[d] = "open" /\ d \notin told \cup ended
      /\ \A s \in Slot : relay'[s] # 0 =>
           /\ relay'[s] = relay[s]
           /\ ready[relay[s]] # "closed" => ready'[relay[s]] # "closed"
  <2>1. \A d \in Conn : ready'[d] =
           IF d \in ended \/ (d \in told /\ IsLp(d)) THEN "closed"
           ELSE IF d \in told /\ ready[d] = "open" THEN "closing" ELSE ready[d]
    BY DEF Teardown
  <2>2. \A s \in Slot : relay'[s] =
           IF relay[s] \in ended \/ (relay[s] \in told /\ IsLp(relay[s])) THEN 0 ELSE relay[s]
    BY DEF Teardown
  <2>3. \A s \in Slot : relay[s] # 0 => relay[s] \in Conn
    BY WhoIsOpened
  <2> QED
    BY <2>1, <2>2, <2>3
<1>2. FlowTypes' /\ PostsHandled' /\ NothingYet'
  BY DEF FlowTypes, PostsHandled, NothingYet, IsLp, connVars
<1>3. RoomOver' /\ SlotsAlive'
  BY <1>1 DEF RoomOver, SlotsAlive
<1>4. FromPeer'
  BY <1>1 DEF FromPeer
<1>5. StreamIsWhole'
  BY DEF StreamIsWhole, Stream
<1> QED
  BY <1>2, <1>3, <1>4, <1>5

\* A claim gives a connection without a stream to a slot that nobody faced.
LEMMA ClaimStreams ==
  ASSUME SlotInv, StreamInv, NEW p \in Page, NEW k \in {"ws", "lp"}, NEW s \in Slot,
         Claim(p, k, s)
  PROVE  StreamInv'
<1> DEFINE c == opened + 1
<1> USE DEF StreamInv
<1>1. /\ c \in Conn /\ opened \in Nat /\ opened < c
  BY RelayAssumption DEF Claim, SlotInv, SlotTypes, Conn
<1>2. /\ roomLive /\ relay[s] = 0 /\ opened' = c
      /\ kind' = [kind EXCEPT ![c] = k] /\ place' = [place EXCEPT ![c] = s]
      /\ relay' = [relay EXCEPT ![s] = c] /\ ready' = [ready EXCEPT ![c] = "open"]
      /\ roomLive' = roomLive
      /\ UNCHANGED <<handed, backlog, sent, handled, oversized>>
  BY DEF Claim, flowVars, faultVars
<1>3. /\ handed[c] = <<>> /\ backlog[c] = <<>> /\ handled[c] = sent[c]
      /\ \A t \in Slot : relay[t] # c
  BY <1>1 DEF NothingYet, SlotInv, Placed
<1>4. Stream(c) = <<>> /\ \A d \in Conn : Stream(d)' = Stream(d)
  BY <1>2, <1>3 DEF Stream
<1> HIDE DEF c
<1>5. FlowTypes' /\ RoomOver'
  BY <1>1, <1>2 DEF FlowTypes, RoomOver
<1>6. SlotsAlive'
  BY <1>1, <1>2, <1>3 DEF SlotsAlive, SlotInv, SlotTypes
<1>8. NothingYet'
  BY <1>1, <1>2 DEF NothingYet, Conn
<1>9. StreamIsWhole'
  BY <1>2, <1>4 DEF StreamIsWhole
<1>10. FromPeer'
  <2> SUFFICES ASSUME ~oversized, NEW d \in Conn, ready'[d] = "open",
                      NEW i \in 1 .. Len(Stream(d))
               PROVE  /\ Stream(d)[i].from = Peer(d)'
                      /\ i = Len(Stream(d)) => Stream(d)[i].seq = handled[Peer(d)']
    BY <1>2, <1>4 DEF FromPeer
  <2>1. d # c
    BY <1>4
  <2>2. ready[d] = "open" /\ place'[d] = place[d] /\ Other(place[d]) \in Slot
    BY <1>2, <2>1, OtherSlot DEF SlotInv, SlotTypes
  <2>3. Stream(d)[i].from = Peer(d) /\ (i = Len(Stream(d)) => Stream(d)[i].seq = handled[Peer(d)])
    BY <1>2, <2>2 DEF FromPeer
  <2>4. Peer(d) \in Conn
    BY <2>3, StreamType DEF AnyFrame
  <2>5. Other(place[d]) # s
    BY <1>2, <2>4 DEF Peer, Conn
  <2>6. Peer(d)' = Peer(d)
    BY <1>2, <2>2, <2>5 DEF Peer, SlotInv, SlotTypes
  <2> QED
    BY <2>3, <2>6
<1>11. PostsHandled'
  BY <1>1, <1>2, <1>3 DEF PostsHandled, IsLp, SlotInv, SlotTypes
<1> QED
  BY <1>5, <1>6, <1>8, <1>9, <1>10, <1>11

\* What a delivery to somebody open does to the streams: one grows by f.
LEMMA DeliveryGrows ==
  ASSUME FlowTypes, NEW d \in Conn, NEW f \in AnyFrame, Deliver(d, f), ready[d] = "open"
  PROVE  /\ handed' \in [Conn -> Seq(AnyFrame)] /\ backlog' \in [Conn -> Seq(AnyFrame)]
         /\ \A e \in Conn : e # d => handed'[e] = handed[e] /\ backlog'[e] = backlog[e]
         /\ Stream(d)' = Append(Stream(d), f)
<1> DEFINE q == Append(backlog[d], f)
<1>0. /\ handed \in [Conn -> Seq(AnyFrame)] /\ backlog \in [Conn -> Seq(AnyFrame)]
      /\ handed[d] \in Seq(AnyFrame) /\ backlog[d] \in Seq(AnyFrame) /\ 0 \notin Conn
  BY DEF FlowTypes, Conn
<1>1. q \in Seq(AnyFrame) /\ q # <<>> /\ handed[d] \o q = Append(Stream(d), f)
  <2>1. q \in Seq(AnyFrame) /\ q # <<>>
    BY <1>0, AppendProperties
  <2>2. handed[d] \o q = Append(handed[d] \o backlog[d], f)
    BY <1>0, TailGrows
  <2> QED
    BY <2>1, <2>2 DEF Stream
<1>2. CASE backlog' = [backlog EXCEPT ![d] = q] /\ handed' = handed
  <2> HIDE DEF q
  <2> QED
    BY <1>0, <1>1, <1>2 DEF Stream
<1>3. CASE /\ handed' = [handed EXCEPT ![d] = Append(@, Head(q))]
           /\ backlog' = [backlog EXCEPT ![d] = Tail(q)]
  <2> HIDE DEF q
  <2>1. /\ Append(handed[d], Head(q)) \o Tail(q) = handed[d] \o q
        /\ Append(handed[d], Head(q)) \in Seq(AnyFrame) /\ Tail(q) \in Seq(AnyFrame)
    BY <1>0, <1>1, HeadMoves
  <2> QED
    BY <1>0, <1>1, <1>3, <2>1 DEF Stream
<1> QED
  BY <1>0, <1>2, <1>3 DEF Deliver

\* A frame of c is taken, and forwarded if c faces somebody open: it continues
\* the stream of that one, and nobody else who is open faces c.
LEMMA FrameStreams ==
  ASSUME SlotInv, StreamInv, NEW c \in Conn, c <= opened, roomLive => relay[place[c]] = c,
         Deliver(Peer(c), [from |-> c, seq |-> handled[c] + 1]),
         handled' = [handled EXCEPT ![c] = @ + 1],
         sent' \in [Conn -> Nat],
         \A e \in Conn : IsLp(e) \/ e > opened => handled'[e] = sent'[e],
         UNCHANGED <<connVars, roomLive, relay, ready, oversized>>
  PROVE  StreamInv'
<1> USE DEF StreamInv
<1>a. handled \in [Conn -> Nat] /\ handled' \in [Conn -> Nat] /\ oversized' \in BOOLEAN
  BY DEF FlowTypes
<1>b. PICK d \in Conn \cup {0} : d = Peer(c)
  BY PeerIsConn
<1>c. PICK f \in AnyFrame : f = [from |-> c, seq |-> handled[c] + 1]
  BY <1>a DEF AnyFrame
<1>1. Deliver(d, f)
  BY <1>b, <1>c
<1>2. RoomOver' /\ SlotsAlive' /\ PostsHandled'
  BY DEF RoomOver, SlotsAlive, PostsHandled, IsLp, connVars
<1>3. \A e \in Conn : Peer(e)' = Peer(e)
  BY DEF Peer, connVars
<1>4. \A e \in Conn : ready[e] = "open" /\ Peer(e) = c => e = d
  <2> SUFFICES ASSUME NEW e \in Conn, ready[e] = "open", Peer(e) = c PROVE e = d
    OBVIOUS
  <2>1. e # c
    BY OtherSlot DEF Peer, SlotInv, Placed, SlotTypes, Conn
  <2> QED
    BY <1>b, <2>1, TwoAreOpen
<1>5. CASE ~(d # 0 /\ ready[d] = "open")
  <2>1. UNCHANGED <<handed, backlog>>
    BY <1>1, <1>5 DEF Deliver
  <2>2. FlowTypes' /\ NothingYet'
    BY <1>a, <2>1 DEF FlowTypes, NothingYet, connVars
  <2>3. \A e \in Conn : Stream(e)' = Stream(e)
    BY <2>1 DEF Stream
  <2>4. StreamIsWhole'
    BY <2>3 DEF StreamIsWhole
  <2>5. \A e \in Conn : ready[e] = "open" => handled'[Peer(e)] = handled[Peer(e)]
    <3> SUFFICES ASSUME NEW e \in Conn, ready[e] = "open"
                 PROVE  handled'[Peer(e)] = handled[Peer(e)]
      OBVIOUS
    <3>1. Peer(e) # c
      BY <1>4, <1>5 DEF Conn
    <3> QED
      BY <1>a, <3>1
  <2>6. FromPeer'
    BY <1>3, <2>3, <2>5 DEF FromPeer
  <2> QED
    BY <1>2, <2>2, <2>4, <2>6
<1>6. CASE d # 0 /\ ready[d] = "open"
  <2>1. d \in Conn
    BY <1>6
  <2>2. d <= opened
    BY <1>6, <2>1, WhoIsOpened
  <2>3. d # c
    BY <1>b, <2>1, OtherSlot DEF Peer, SlotInv, Placed, SlotTypes, Conn
  <2>4. Peer(d) = c
    BY <1>6, <2>1, <2>3, TwoAreOpen
  <2>5. /\ handed' \in [Conn -> Seq(AnyFrame)] /\ backlog' \in [Conn -> Seq(AnyFrame)]
        /\ \A e \in Conn : e # d => handed'[e] = handed[e] /\ backlog'[e] = backlog[e]
        /\ Stream(d)' = Append(Stream(d), f)
    BY <1>1, <1>6, <2>1, DeliveryGrows
  <2>6. FlowTypes'
    BY <1>a, <2>5 DEF FlowTypes
  <2>7. NothingYet'
    <3>1. opened' = opened
      BY DEF connVars
    <3> SUFFICES ASSUME NEW e \in Conn, e > opened
                 PROVE  handed'[e] = <<>> /\ backlog'[e] = <<>> /\ handled'[e] = sent'[e]
      BY <3>1 DEF NothingYet
    <3>2. e # d
      BY <2>1, <2>2, RelayAssumption DEF SlotInv, SlotTypes, Conn
    <3> QED
      BY <2>5, <3>2 DEF NothingYet
  <2>8. \A e \in Conn : e # d => Stream(e)' = Stream(e)
    BY <2>5 DEF Stream
  <2>9. /\ Stream(d) \in Seq(AnyFrame) /\ Len(Stream(d)) \in Nat
        /\ Len(Stream(d)') = Len(Stream(d)) + 1
        /\ \A i \in 1 .. Len(Stream(d)) : Stream(d)'[i] = Stream(d)[i]
        /\ Stream(d)'[Len(Stream(d)) + 1] = f
    BY <2>1, <2>5, StreamType, AppendProperties
  <2>10. ~oversized => \A i \in 1 .. Len(Stream(d)) :
           Stream(d)[i].from = c /\ (i = Len(Stream(d)) => Stream(d)[i].seq = handled[c])
    BY <1>6, <2>1, <2>4 DEF FromPeer
  <2>11. f.from = c /\ f.seq = handled[c] + 1 /\ f.seq = handled'[c]
    BY <1>a, <1>c
  <2>12. FromPeer'
    <3> SUFFICES ASSUME ~oversized, NEW e \in Conn, ready[e] = "open",
                        NEW i \in 1 .. Len(Stream(e)')
                 PROVE  /\ Stream(e)'[i].from = Peer(e)
                        /\ i = Len(Stream(e)') => Stream(e)'[i].seq = handled'[Peer(e)]
      BY <1>3 DEF FromPeer
    <3>1. CASE e = d
      <4>1. CASE i = Len(Stream(d)) + 1
        BY <2>4, <2>9, <2>11, <3>1, <4>1
      <4>2. CASE i # Len(Stream(d)) + 1
        <5>1. i \in 1 .. Len(Stream(d)) /\ i # Len(Stream(d)')
          BY <2>9, <3>1, <4>2
        <5> QED
          BY <2>4, <2>9, <2>10, <3>1, <5>1
      <4> QED
        BY <4>1, <4>2
    <3>2. CASE e # d
      <4>1. handled'[Peer(e)] = handled[Peer(e)]
        BY <1>a, <1>4, <3>2
      <4> QED
        BY <2>8, <3>2, <4>1 DEF FromPeer
    <3> QED
      BY <3>1, <3>2
  <2>13. StreamIsWhole'
    <3> SUFFICES ASSUME ~oversized, NEW e \in Conn, NEW i \in 1 .. (Len(Stream(e)') - 1)
                 PROVE  /\ Stream(e)'[i + 1].from = Stream(e)'[i].from
                        /\ Stream(e)'[i + 1].seq = Stream(e)'[i].seq + 1
      BY DEF StreamIsWhole
    <3>1. CASE e = d
      <4>1. i \in 1 .. Len(Stream(d))
        BY <2>9, <3>1
      <4>2. CASE i = Len(Stream(d))
        BY <2>9, <2>10, <2>11, <3>1, <4>1, <4>2
      <4>3. CASE i # Len(Stream(d))
        <5>1. i \in 1 .. (Len(Stream(d)) - 1) /\ i + 1 \in 1 .. Len(Stream(d))
          BY <2>9, <4>1, <4>3
        <5>2. /\ Stream(d)[i + 1].from = Stream(d)[i].from
              /\ Stream(d)[i + 1].seq = Stream(d)[i].seq + 1
          BY <2>1, <5>1 DEF StreamIsWhole
        <5> QED
          BY <2>9, <3>1, <4>1, <5>1, <5>2
      <4> QED
        BY <4>2, <4>3
    <3>2. CASE e # d
      BY <2>8, <3>2 DEF StreamIsWhole
    <3> QED
      BY <3>1, <3>2
  <2> QED
    BY <1>2, <2>6, <2>7, <2>12, <2>13
<1> QED
  BY <1>5, <1>6

-----------------------------------------------------------------------------
(* The actions.                                                            *)

LEMMA FrameTaken ==
  ASSUME SlotInv, StreamInv, NEW c \in Conn, WsMessage(c) \/ LpUp(c)
  PROVE  StreamInv'
<1>1. /\ handled \in [Conn -> Nat] /\ sent \in [Conn -> Nat] /\ oversized \in BOOLEAN
  BY DEF StreamInv, FlowTypes
<1>2. /\ handled' = [handled EXCEPT ![c] = @ + 1]
      /\ sent' \in [Conn -> Nat] /\ handled' \in [Conn -> Nat]
      /\ UNCHANGED <<connVars, oversized>> /\ roomLive' = roomLive
  <2>1. CASE WsMessage(c)
    <3>1. handled' = [handled EXCEPT ![c] = @ + 1] /\ sent' = sent
      BY <2>1 DEF WsMessage
    <3>2. UNCHANGED <<connVars, oversized>> /\ roomLive' = roomLive
      BY <2>1 DEF WsMessage, faultVars, slotVars
    <3> QED
      BY <1>1, <3>1, <3>2
  <2>2. CASE LpUp(c)
    <3>1. /\ sent' = [sent EXCEPT ![c] = @ + 1] /\ handled' = [handled EXCEPT ![c] = sent'[c]]
          /\ handled[c] = sent[c]
      BY <2>2 DEF LpUp, StreamInv, PostsHandled
    <3>2. UNCHANGED <<connVars, oversized>> /\ roomLive' = roomLive
      BY <2>2 DEF LpUp, faultVars, slotVars
    <3> QED
      BY <1>1, <3>1, <3>2
  <2> QED
    BY <2>1, <2>2
<1>3. c <= opened /\ {c} \cup PeerOf(c) \in SUBSET Conn
      /\ \A d \in {c} \cup PeerOf(c) : d <= opened
  BY WhoIsOpened DEF WsMessage, LpUp
<1>4. \A e \in Conn : IsLp(e) \/ e > opened => handled'[e] = sent'[e]
  <2>1. \A e \in Conn : IsLp(e) \/ e > opened => handled[e] = sent[e]
    BY DEF StreamInv, PostsHandled, NothingYet
  <2>2. CASE WsMessage(c)
    <3>1. sent' = sent /\ ~IsLp(c)
      BY <2>2 DEF WsMessage, IsWs, IsLp
    <3>2. ~(c > opened)
      BY <1>3, RelayAssumption DEF SlotInv, SlotTypes, Conn
    <3> QED
      BY <1>1, <1>2, <2>1, <3>1, <3>2
  <2>3. CASE LpUp(c)
    BY <1>1, <2>1, <2>3 DEF LpUp
  <2> QED
    BY <2>2, <2>3
<1>5. roomLive => relay[place[c]] = c
  BY DEF WsMessage, LpUp, SlotInv, HoldsItsSlot
<1>6. CASE /\ Teardown({c} \cup PeerOf(c), {}, {})
           /\ UNCHANGED <<handed, backlog>>
  <2>1. \A d \in Conn : ready[d] = "open" => d \in {c} \cup PeerOf(c)
    BY <1>5, TwoAreOpen DEF PeerOf, Conn
  <2> DEFINE told == {c} \cup PeerOf(c)
  <2>2. told \in SUBSET Conn /\ {} \in SUBSET Conn /\ \A e \in told \cup {} : e <= opened
    BY <1>3
  <2>3. \A d \in Conn : ready[d] = "open" => d \in told \cup {}
    BY <2>1
  <2>4. Teardown(told, {}, {})
    BY <1>6
  <2> HIDE DEF told
  <2> QED
    BY <1>1, <1>2, <1>4, <1>6, <2>2, <2>3, <2>4, TeardownStreams
<1>7. CASE /\ Deliver(Peer(c), [from |-> c, seq |-> handled[c] + 1])
           /\ UNCHANGED slotVars
  BY <1>2, <1>3, <1>4, <1>5, <1>7, FrameStreams DEF slotVars
<1>8. handled'[c] = handled[c] + 1
  BY <1>1, <1>2
<1>9. LpUp(c) => sent'[c] = handled[c] + 1
  BY <1>1, <1>8 DEF LpUp
<1> QED
  BY <1>6, <1>7, <1>8, <1>9 DEF WsMessage, LpUp

LEMMA FrameHanded ==
  ASSUME SlotInv, StreamInv, NEW c \in Conn, WsTake(c) \/ LpPoll(c)
  PROVE  StreamInv'
<1>1. UNCHANGED <<connVars, roomLive, relay, ready, sent, handled, oversized>>
  BY DEF WsTake, LpPoll, slotVars, faultVars
<1>2. CASE UNCHANGED <<handed, backlog>>
  BY <1>1, <1>2, StreamsUntouched DEF StreamInv, FlowTypes, Stream
<1>3. CASE /\ backlog[c] # <<>>
           /\ handed' = [handed EXCEPT ![c] = Append(@, Head(backlog[c]))]
           /\ backlog' = [backlog EXCEPT ![c] = Tail(@)]
  BY <1>1, <1>3, FrameMoves
<1> QED
  BY <1>2, <1>3 DEF WsTake, LpPoll

\* Every end of a connection but an oversized message takes all that are open.
LEMMA EndStreams ==
  ASSUME SlotInv, StreamInv, NEW c \in Conn,
         Oversized(c) \/ ClientCloses(c) \/ WsClosed(c) \/ LpIdle(c)
  PROVE  StreamInv'
<1>1. /\ UNCHANGED <<connVars, handed, backlog, sent, handled>> /\ roomLive' = roomLive
  BY DEF Oversized, ClientCloses, WsClosed, LpIdle, flowVars
<1>2. c <= opened /\ PeerOf(c) \subseteq Conn /\ \A d \in PeerOf(c) : d <= opened
  BY WhoIsOpened DEF Oversized, ClientCloses, WsClosed, LpIdle, CloseIsDue
<1>3. sent' \in [Conn -> Nat] /\ handled' \in [Conn -> Nat] /\ oversized \in BOOLEAN
      /\ \A e \in Conn : IsLp(e) \/ e > opened => handled'[e] = sent'[e]
  BY <1>1 DEF StreamInv, FlowTypes, PostsHandled, NothingYet
<1> DEFINE both == {c} \cup PeerOf(c)
<1>4. ClientCloses(c) \/ WsClosed(c) \/ LpIdle(c)
        => \A d \in Conn : ready[d] = "open" => roomLive /\ d \in both
  <2> SUFFICES ASSUME ClientCloses(c) \/ WsClosed(c) \/ LpIdle(c)
               PROVE  \A d \in Conn : ready[d] = "open" => roomLive /\ d \in both
    OBVIOUS
  <2>1. roomLive => relay[place[c]] = c
    BY DEF ClientCloses, WsClosed, LpIdle, CloseIsDue, SlotInv, HoldsItsSlot
  <2> QED
    BY <2>1, TwoAreOpen DEF PeerOf, Conn
<1>5. both \in SUBSET Conn /\ {c} \in SUBSET Conn /\ {} \in SUBSET Conn
      /\ PeerOf(c) \in SUBSET Conn
  BY <1>2
<1>6. CASE Oversized(c)
  <2>1. Teardown({c}, {}, {}) /\ oversized' = TRUE
    BY <1>6 DEF Oversized
  <2> QED
    BY <1>1, <1>2, <1>3, <1>5, <2>1, TeardownStreams
<1>7. ASSUME NEW off, Teardown(both, {}, off), oversized' = oversized,
             ClientCloses(c) \/ LpIdle(c)
      PROVE  StreamInv'
  <2>1. \A d \in Conn : ready[d] = "open" => d \in both \cup {}
    BY <1>4, <1>7
  <2>2. \A d \in both \cup {} : d <= opened
    BY <1>2
  <2> HIDE DEF both
  <2> QED
    BY <1>1, <1>3, <1>5, <1>7, <2>1, <2>2, TeardownStreams
<1>8. CASE WsClosed(c)
  <2> DEFINE told == IF roomLive THEN PeerOf(c) ELSE {}
  <2>1. Teardown(told, {c}, {}) /\ oversized' = oversized
    BY <1>8 DEF WsClosed, faultVars
  <2>2. /\ told \in SUBSET Conn /\ \A d \in told \cup {c} : d <= opened
        /\ \A d \in Conn : ready[d] = "open" => d \in told \cup {c}
    BY <1>2, <1>4, <1>8
  <2> HIDE DEF told
  <2> QED
    BY <1>1, <1>3, <1>5, <2>1, <2>2, TeardownStreams
<1>9. CASE ClientCloses(c)
  <2>1. oversized' = oversized
    BY <1>9 DEF ClientCloses
  <2>2. CASE UNCHANGED <<relay, ready>>
    BY <1>1, <2>1, <2>2, StreamsUntouched DEF StreamInv, FlowTypes, Stream
  <2>3. CASE Teardown(both, {}, {c})
    BY <1>7, <1>9, <2>1, <2>3
  <2> QED
    BY <1>9, <2>2, <2>3 DEF ClientCloses
<1>10. CASE LpIdle(c)
  BY <1>7, <1>10 DEF LpIdle, faultVars
<1> QED
  BY <1>6, <1>8, <1>9, <1>10

LEMMA ExpireStreams ==
  ASSUME SlotInv, StreamInv, Expire
  PROVE  StreamInv'
<1> DEFINE told == {relay[s] : s \in Slot} \ {0}
<1>1. told \in SUBSET Conn /\ {} \in SUBSET Conn /\ \A d \in told \cup {} : d <= opened
  BY WhoIsOpened
<1>2. Teardown(told, {}, {})
      /\ UNCHANGED <<connVars, handed, backlog, sent, handled, oversized>>
  BY DEF Expire, flowVars, faultVars
<1>3. \A d \in Conn : ready[d] = "open" => d \in told \cup {}
  BY DEF Expire, SlotInv, HoldsItsSlot, SlotTypes, Conn
<1>4. sent' \in [Conn -> Nat] /\ handled' \in [Conn -> Nat] /\ oversized' \in BOOLEAN
      /\ \A e \in Conn : IsLp(e) \/ e > opened => handled'[e] = sent'[e]
  BY <1>2 DEF StreamInv, FlowTypes, PostsHandled, NothingYet
<1> HIDE DEF told
<1> QED
  BY <1>1, <1>2, <1>3, <1>4, TeardownStreams

LEMMA HeartbeatStreams ==
  ASSUME SlotInv, StreamInv, Heartbeat
  PROVE  StreamInv'
<1> USE DEF StreamInv
<1>1. /\ UNCHANGED <<connVars, roomLive, relay, flowVars, oversized>>
      /\ \A c \in Conn : ready'[c] \in {ready[c], "terminated"}
  BY DEF Heartbeat, faultVars
<1>2. FlowTypes' /\ PostsHandled' /\ NothingYet'
  BY <1>1 DEF FlowTypes, PostsHandled, NothingYet, IsLp, connVars, flowVars
<1>3. RoomOver'
  BY <1>1 DEF RoomOver
<1>4. SlotsAlive'
  BY <1>1, WhoIsOpened DEF SlotsAlive
<1>5. \A d \in Conn : Stream(d)' = Stream(d) /\ Peer(d)' = Peer(d)
  BY <1>1 DEF Stream, Peer, connVars, flowVars
<1>6. StreamIsWhole'
  BY <1>1, <1>5 DEF StreamIsWhole
<1>7. FromPeer'
  BY <1>1, <1>5 DEF FromPeer, flowVars
<1> QED
  BY <1>2, <1>3, <1>4, <1>6, <1>7

LEMMA OtherStreams ==
  ASSUME SlotInv, StreamInv, NEW c \in Conn,
         \/ ResumePoll(c) \/ ClientSeesClose(c) \/ Pong(c) \/ PollSettles(c)
         \/ PollLost(c) \/ Vanish(c)
  PROVE  StreamInv'
<1>1. UNCHANGED <<connVars, roomLive, relay, ready, flowVars, oversized>>
  BY DEF ResumePoll, ClientSeesClose, Pong, PollSettles, PollLost, Vanish, slotVars, faultVars
<1> QED
  BY <1>1, StreamsUntouched DEF flowVars, StreamInv, FlowTypes, Stream

LEMMA SendStreams ==
  ASSUME SlotInv, StreamInv, NEW c \in Conn, ClientSend(c)
  PROVE  StreamInv'
<1>1. /\ UNCHANGED <<connVars, roomLive, relay, ready, handled, handed, backlog, oversized>>
      /\ sent' = [sent EXCEPT ![c] = @ + 1] /\ IsWs(c) /\ ready[c] # "none"
  BY DEF ClientSend, slotVars, faultVars
<1>2. sent \in [Conn -> Nat] /\ ~IsLp(c) /\ ~(c > opened)
  <2>1. c <= opened /\ opened \in Int /\ c \in Int
    BY <1>1, WhoIsOpened, RelayAssumption DEF SlotInv, SlotTypes, Conn
  <2> QED
    BY <1>1, <2>1 DEF StreamInv, FlowTypes, IsWs, IsLp
<1>3. sent' \in [Conn -> Nat] /\ \A e \in Conn : IsLp(e) \/ e > opened => sent'[e] = sent[e]
  BY <1>1, <1>2
<1> QED
  BY <1>1, <1>3, StreamsUntouched DEF StreamInv, FlowTypes, Stream

LEMMA StepStream == SlotInv /\ StreamInv /\ [Next]_vars => StreamInv'
<1> SUFFICES ASSUME SlotInv, StreamInv, [Next]_vars PROVE StreamInv'
  OBVIOUS
<1>1. ASSUME NEW p \in Page, WsUpgrade(p) \/ LpHandshake(p)
      PROVE  StreamInv'
  <2>1. PICK k \in {"ws", "lp"}, s \in Slot : Claim(p, k, s)
    BY <1>1 DEF WsUpgrade, LpHandshake
  <2> QED
    BY <2>1, ClaimStreams
<1>2. ASSUME NEW c \in Conn, ServerStep(c)
      PROVE  StreamInv'
  BY <1>2, FrameTaken, OtherStreams, EndStreams DEF ServerStep
<1>3. ASSUME NEW c \in Conn, ClientStep(c)
      PROVE  StreamInv'
  BY <1>3, FrameHanded, OtherStreams DEF ClientStep
<1>4. ASSUME NEW c \in Conn, Environment(c)
      PROVE  StreamInv'
  BY <1>4, SendStreams, FrameTaken, EndStreams, OtherStreams DEF Environment
<1>5. CASE Heartbeat
  BY <1>5, HeartbeatStreams
<1>6. CASE Expire
  BY <1>6, ExpireStreams
<1>7. CASE UNCHANGED vars
  BY <1>7, StreamsUntouched
     DEF vars, slotVars, flowVars, faultVars, StreamInv, FlowTypes, Stream
<1> QED
  BY <1>1, <1>2, <1>3, <1>4, <1>5, <1>6, <1>7 DEF Next

LEMMA HalvesEnd == SlotInv /\ StreamInv => HalvesEndTogether
<1> SUFFICES ASSUME SlotInv, StreamInv, ~oversized, NEW d \in Conn, ready[d] = "open",
                    NEW i \in DOMAIN Stream(d)
             PROVE  ready[Stream(d)[i].from] # "closed"
  BY DEF HalvesEndTogether
<1>1. i \in 1 .. Len(Stream(d)) /\ Stream(d)[i] \in AnyFrame
  BY StreamType, LenProperties DEF StreamInv
<1>2. Stream(d)[i].from = Peer(d) /\ Peer(d) \in Conn
  BY <1>1 DEF StreamInv, FromPeer, AnyFrame
<1>3. Other(place[d]) \in Slot
  BY OtherSlot DEF SlotInv, SlotTypes
<1> QED
  BY <1>2, <1>3 DEF StreamInv, SlotsAlive, Peer, Conn

\* Every state of the relay has StreamInv: what an open connection was given
\* came from the one it faces, up to the last frame taken from there.
THEOREM StreamInvHolds == Spec => []StreamInv
<1> QED
  BY SlotInvHolds, InitStream, StepStream, PTL DEF Spec

\* Frames carry no numbers (server.js:1639).  Whatever kinds of connections
\* meet, whoever pauses, reconnects, expires or is swept away, what the server
\* hands to a connection is a run of one sender's frames, each once, in order
\* and without a hole; only an oversized control message ends the promise.
THEOREM StreamsAreWhole == Spec => []StreamIsWhole
<1>1. StreamInv => StreamIsWhole
  BY DEF StreamInv
<1> QED
  BY <1>1, StreamInvHolds, PTL

\* "Once one half is gone the connection is dead" (server.js:1773): nobody
\* stays open who was given frames of a connection that is over.
THEOREM HalvesFallTogether == Spec => []HalvesEndTogether
<1> QED
  BY HalvesEnd, SlotInvHolds, StreamInvHolds, PTL

-----------------------------------------------------------------------------
(* Backpressure. *)

Limit(d) == IF IsLp(d) THEN QueueMax ELSE BufferMax + 1

PauseTypes ==
  /\ paused \in [Conn -> BOOLEAN] /\ timer \in [Conn -> BOOLEAN]
  /\ slack \in [Conn -> 0 .. Sliver]

-----------------------------------------------------------------------------
(* The inductive invariant.  The bound itself allows a feeder that is not  *)
(* paused in front of a full queue; the next frame would break it.         *)

KindKnown == \A d \in Conn : ready[d] = "open" => IsWs(d) \/ IsLp(d)

\* The interval runs only for a paused socket.
TimerPauses == \A c \in Conn : timer[c] => paused[c]

\* In front of an open connection, a paused socket has room for what its
\* parser still holds, and one that is not paused has room for a frame.
RoomAhead ==
  ~oversized =>
    \A d \in Conn : ready[d] = "open" /\ Peer(d) # 0 =>
      /\ paused[Peer(d)] => Len(backlog[d]) + slack[Peer(d)] <= Limit(d) + Sliver
      /\ IsWs(Peer(d)) /\ ~paused[Peer(d)] => Len(backlog[d]) < Limit(d)

QueueInv == PauseTypes /\ KindKnown /\ TimerPauses /\ RoomAhead /\ QueueBounded

LEMMA InitQueue == Init => QueueInv
<1> SUFFICES ASSUME Init PROVE QueueInv
  OBVIOUS
<1>1. PauseTypes
  BY RelayAssumption DEF Init, PauseTypes
<1>2. KindKnown /\ TimerPauses /\ RoomAhead
  BY DEF Init, KindKnown, TimerPauses, RoomAhead
<1>3. QueueBounded
  BY RelayAssumption DEF Init, QueueBounded
<1> QED
  BY <1>1, <1>2, <1>3 DEF QueueInv

LEMMA LimitType ==
  ASSUME FlowTypes, NEW d \in Conn
  PROVE  Limit(d) \in Nat /\ Limit(d) > 0 /\ Sliver \in Nat /\ Len(backlog[d]) \in Nat
<1>1. Len(backlog[d]) \in Nat
  BY LenProperties DEF FlowTypes
<1> QED
  BY <1>1, RelayAssumption DEF Limit

\* Whoever is open and faces c is the one c faces, if c is in its slot.
LEMMA FacesBack ==
  ASSUME SlotInv, StreamInv, NEW c \in Conn, roomLive => relay[place[c]] = c,
         NEW d \in Conn, ready[d] = "open", Peer(d) = c
  PROVE  d = Peer(c) /\ roomLive
<1>1. d # c
  BY OtherSlot DEF Peer, SlotInv, Placed, SlotTypes, Conn
<1> QED
  BY <1>1, TwoAreOpen

\* Steps after which fewer are open, with fewer frames waiting, and that leave
\* the pauses alone.
LEMMA PausesUntouched ==
  ASSUME SlotInv, StreamInv, QueueInv,
         UNCHANGED <<connVars, roomLive, relay, oversized, paused, timer, slack>>,
         \A d \in Conn : ready'[d] = "open" => ready[d] = "open",
         \A d \in Conn : Len(backlog'[d]) \in Nat /\ Len(backlog'[d]) <= Len(backlog[d])
  PROVE  QueueInv'
<1> USE DEF QueueInv
<1>0. \A d \in Conn : /\ Limit(d)' = Limit(d) /\ Peer(d)' = Peer(d) /\ IsWs(d)' = IsWs(d)
                      /\ IsLp(d)' = IsLp(d) /\ Limit(d) \in Nat /\ Sliver \in Nat
                      /\ Len(backlog[d]) \in Nat
  BY LimitType DEF Limit, Peer, IsWs, IsLp, connVars, StreamInv
<1>1. PauseTypes' /\ TimerPauses' /\ KindKnown'
  BY <1>0 DEF PauseTypes, TimerPauses, KindKnown
<1>2. QueueBounded'
  <2> SUFFICES ASSUME ~oversized, NEW d \in Conn
               PROVE  Len(backlog'[d]) <= Limit(d) + Sliver
    BY <1>0 DEF QueueBounded, Limit
  <2>1. Len(backlog[d]) <= Limit(d) + Sliver
    BY DEF QueueBounded, Limit
  <2> QED
    BY <1>0, <2>1
<1>3. RoomAhead'
  <2> SUFFICES ASSUME ~oversized, NEW d \in Conn, ready[d] = "open", Peer(d) # 0
               PROVE  /\ paused[Peer(d)] =>
                           Len(backlog'[d]) + slack[Peer(d)] <= Limit(d) + Sliver
                      /\ IsWs(Peer(d)) /\ ~paused[Peer(d)] => Len(backlog'[d]) < Limit(d)
    BY <1>0 DEF RoomAhead, IsWs, connVars
  <2>1. Peer(d) \in Conn
    BY PeerIsConn
  <2>2. slack[Peer(d)] \in Nat
    BY <2>1, RelayAssumption DEF PauseTypes
  <2>3. /\ paused[Peer(d)] => Len(backlog[d]) + slack[Peer(d)] <= Limit(d) + Sliver
        /\ IsWs(Peer(d)) /\ ~paused[Peer(d)] => Len(backlog[d]) < Limit(d)
    BY DEF RoomAhead
  <2> QED
    BY <1>0, <2>2, <2>3
<1> QED
  BY <1>1, <1>2, <1>3

\* Steps after which nobody is open, or that follow an oversized message.
LEMMA NobodyAhead ==
  ASSUME StreamInv, QueueInv, UNCHANGED <<connVars, backlog>>, PauseTypes', TimerPauses',
         oversized => oversized',
         \A d \in Conn : ready'[d] = "open" => ready[d] = "open",
         oversized' \/ \A d \in Conn : ready'[d] # "open"
  PROVE  QueueInv'
<1>1. KindKnown' /\ RoomAhead' /\ QueueBounded'
  BY DEF QueueInv, KindKnown, RoomAhead, QueueBounded, IsWs, IsLp, connVars
<1> QED
  BY <1>1 DEF QueueInv

LEMMA FallTogether ==
  ASSUME SlotInv, StreamInv, NEW c \in Conn, roomLive => relay[place[c]] = c,
         NEW told \in SUBSET Conn, NEW ended \in SUBSET Conn, NEW off,
         Teardown(told, ended, off),
         roomLive => {c} \cup PeerOf(c) \subseteq told \cup ended
  PROVE  \A d \in Conn : ready'[d] # "open"
<1> TAKE d \in Conn
<1>1. d \in told \cup ended => ready'[d] # "open"
  BY DEF Teardown
<1>2. d \notin told \cup ended => ready'[d] = ready[d]
  BY DEF Teardown
<1>3. ready[d] = "open" => d \in told \cup ended
  BY TwoAreOpen DEF PeerOf, Conn
<1> QED
  BY <1>1, <1>2, <1>3

-----------------------------------------------------------------------------
(* The actions.                                                            *)

LEMMA ClaimQueue ==
  ASSUME SlotInv, StreamInv, QueueInv, NEW p \in Page, NEW k \in {"ws", "lp"},
         NEW s \in Slot, Claim(p, k, s)
  PROVE  QueueInv'
<1> USE DEF QueueInv
<1>0. PICK c \in Conn : c = opened + 1
  BY RelayAssumption DEF Claim, SlotInv, SlotTypes, Conn
<1>1. opened \in Nat /\ opened < c
  BY <1>0 DEF SlotInv, SlotTypes
<1>2. /\ kind' = [kind EXCEPT ![c] = k] /\ place' = [place EXCEPT ![c] = s]
      /\ relay' = [relay EXCEPT ![s] = c] /\ ready' = [ready EXCEPT ![c] = "open"]
      /\ relay[s] = 0
      /\ UNCHANGED <<backlog, paused, timer, slack, oversized>>
  BY <1>0 DEF Claim, flowVars, pauseVars, faultVars
<1>3. backlog[c] = <<>>
  BY <1>1 DEF StreamInv, NothingYet
<1>4. \A d \in Conn : d # c => /\ IsLp(d)' = IsLp(d) /\ IsWs(d)' = IsWs(d)
                              /\ Limit(d)' = Limit(d) /\ ready'[d] = ready[d]
  BY <1>2 DEF IsLp, IsWs, Limit
<1>5. PauseTypes' /\ TimerPauses'
  BY <1>2 DEF PauseTypes, TimerPauses
<1>6. KindKnown'
  BY <1>1, <1>2, <1>4 DEF KindKnown, IsWs, IsLp, SlotInv, SlotTypes
<1>7. Len(backlog[c]) = 0 /\ Limit(c)' \in Nat /\ Limit(c)' > 0
  BY <1>3, RelayAssumption DEF Limit
<1>8. QueueBounded'
  <2> SUFFICES ASSUME ~oversized, NEW d \in Conn
               PROVE  Len(backlog[d]) <= Limit(d)' + Sliver
    BY <1>2 DEF QueueBounded, Limit
  <2>1. CASE d = c
    BY <1>7, <2>1, RelayAssumption
  <2>2. CASE d # c
    BY <1>4, <2>2 DEF QueueBounded, Limit
  <2> QED
    BY <2>1, <2>2
<1>9. RoomAhead'
  <2> SUFFICES ASSUME ~oversized, NEW d \in Conn, ready'[d] = "open",
                      NEW f \in Conn, f = Peer(d)'
               PROVE  /\ paused[f] => Len(backlog[d]) + slack[f] <= Limit(d)' + Sliver
                      /\ IsWs(f)' /\ ~paused[f] => Len(backlog[d]) < Limit(d)'
    <3>1. \A d \in Conn : Peer(d)' # 0 => Peer(d)' \in Conn
      BY <1>1, <1>2, OtherSlot DEF Peer, SlotInv, SlotTypes, Conn
    <3> QED
      BY <1>2, <3>1 DEF RoomAhead
  <2>0. slack[f] \in 0 .. Sliver /\ Sliver \in Nat
    BY RelayAssumption DEF PauseTypes
  <2>1. CASE d = c
    BY <1>7, <2>0, <2>1
  <2>2. CASE d # c /\ Peer(d) = 0
    <3>1. Stream(d) = <<>>
      <4>1. \A i \in 1 .. Len(Stream(d)) : Stream(d)[i].from = 0 /\ Stream(d)[i].from \in Conn
        <5>1. \A i \in 1 .. Len(Stream(d)) : Stream(d)[i].from = Peer(d)
          BY <1>4, <2>2 DEF StreamInv, FromPeer
        <5>2. \A i \in 1 .. Len(Stream(d)) : Stream(d)[i].from \in Conn
          BY StreamType DEF StreamInv, AnyFrame
        <5> QED
          BY <2>2, <5>1, <5>2
      <4> QED
        BY <4>1, StreamType, EmptySeq DEF StreamInv, Conn
    <3>2. backlog[d] = <<>>
      BY <3>1, StreamType, ConcatEqualIffEmpty DEF StreamInv, Stream
    <3>3. Len(backlog[d]) = 0 /\ Limit(d)' \in Nat /\ Limit(d)' > 0
      BY <1>4, <2>2, <3>2, RelayAssumption DEF Limit
    <3> QED
      BY <2>0, <3>3
  <2>3. CASE d # c /\ Peer(d) # 0
    <3>1. /\ ready[d] = "open" /\ place'[d] = place[d] /\ Other(place[d]) \in Slot
      BY <1>2, <2>3, OtherSlot DEF SlotInv, SlotTypes
    <3>2. f = Peer(d) /\ f # c
      <4>1. Other(place[d]) # s
        BY <1>2, <2>3 DEF Peer
      <4>2. f = Peer(d)
        BY <1>2, <3>1, <4>1 DEF Peer, SlotInv, SlotTypes
      <4> QED
        BY <1>1, <3>1, <4>2 DEF Peer, SlotInv, Placed, Conn
    <3> QED
      BY <1>4, <2>3, <3>1, <3>2 DEF RoomAhead
  <2> QED
    BY <2>1, <2>2, <2>3
<1> QED
  BY <1>5, <1>6, <1>8, <1>9

\* What a delivery adds, and what the pause that follows it leaves.
LEMMA DeliveryLength ==
  ASSUME FlowTypes, NEW d \in Conn, NEW f \in AnyFrame, Deliver(d, f)
  PROVE  /\ \A e \in Conn : Len(backlog'[e]) \in Nat /\ (e # d => backlog'[e] = backlog[e])
         /\ Len(backlog'[d]) <= Len(backlog[d]) + 1
         /\ ready[d] # "open" => backlog'[d] = backlog[d]
<1>0. /\ backlog \in [Conn -> Seq(AnyFrame)] /\ 0 \notin Conn
      /\ \A e \in Conn : Len(backlog[e]) \in Nat
  BY LenProperties DEF FlowTypes, Conn
<1> DEFINE q == Append(backlog[d], f)
<1>1. q \in Seq(AnyFrame) /\ q # <<>> /\ Len(q) = Len(backlog[d]) + 1
  BY <1>0, AppendProperties
<1>2. CASE backlog' = backlog
  BY <1>0, <1>2
<1>3. CASE backlog' = [backlog EXCEPT ![d] = q] /\ ready[d] = "open"
  <2> HIDE DEF q
  <2> QED
    BY <1>0, <1>1, <1>3
<1>4. CASE backlog' = [backlog EXCEPT ![d] = Tail(q)] /\ ready[d] = "open"
  <2> HIDE DEF q
  <2>1. Len(Tail(q)) = Len(backlog[d])
    BY <1>0, <1>1, HeadTailProperties
  <2> QED
    BY <1>0, <1>4, <2>1
<1> QED
  BY <1>0, <1>2, <1>3, <1>4 DEF Deliver

\* A frame is delivered in front of an open connection that has room for it.
LEMMA DeliveredWithin ==
  ASSUME SlotInv, StreamInv, QueueInv, NEW c \in Conn, roomLive => relay[place[c]] = c,
         NEW f \in AnyFrame, Deliver(Peer(c), f),
         UNCHANGED <<connVars, roomLive, relay, ready, oversized>>,
         PauseTypes', TimerPauses',
         \A e \in Conn : e # c => paused'[e] = paused[e] /\ slack'[e] = slack[e],
         \* where the frame goes, it fits
         \A d \in Conn : ~oversized /\ ready[d] = "open" /\ d = Peer(c) =>
           /\ Len(backlog'[d]) <= Limit(d) + Sliver
           /\ paused'[c] => Len(backlog'[d]) + slack'[c] <= Limit(d) + Sliver
           /\ IsWs(c) /\ ~paused'[c] => Len(backlog'[d]) < Limit(d)
  PROVE  QueueInv'
<1> USE DEF QueueInv
<1>0. \A d \in Conn : /\ Limit(d)' = Limit(d) /\ Peer(d)' = Peer(d) /\ IsWs(d)' = IsWs(d)
                      /\ IsLp(d)' = IsLp(d)
  BY DEF Limit, Peer, IsWs, IsLp, connVars
<1>1. KindKnown'
  BY <1>0 DEF KindKnown
<1>2. PICK d \in Conn \cup {0} : d = Peer(c)
  BY PeerIsConn
<1>3. \A e \in Conn : e # d \/ ready[e] # "open" => backlog'[e] = backlog[e]
  <2>1. CASE d = 0
    BY <1>2, <2>1 DEF Deliver, Conn
  <2>2. CASE d \in Conn
    BY <1>2, <2>2, DeliveryLength DEF StreamInv
  <2> QED
    BY <2>1, <2>2
<1>4. QueueBounded'
  <2> SUFFICES ASSUME ~oversized, NEW e \in Conn
               PROVE  Len(backlog'[e]) <= Limit(e) + Sliver
    BY <1>0 DEF QueueBounded, Limit
  <2>1. CASE e = d /\ ready[e] = "open"
    BY <1>2, <2>1
  <2>2. CASE ~(e = d /\ ready[e] = "open")
    BY <1>3, <2>2 DEF QueueBounded, Limit
  <2> QED
    BY <2>1, <2>2
<1>5. RoomAhead'
  <2> SUFFICES ASSUME ~oversized, NEW e \in Conn, ready[e] = "open",
                      NEW g \in Conn, g = Peer(e)
               PROVE  /\ paused'[g] => Len(backlog'[e]) + slack'[g] <= Limit(e) + Sliver
                      /\ IsWs(g) /\ ~paused'[g] => Len(backlog'[e]) < Limit(e)
    BY <1>0, PeerIsConn DEF RoomAhead
  <2>1. CASE g = c
    <3>1. e = Peer(c)
      BY <2>1, FacesBack
    <3> QED
      BY <2>1, <3>1
  <2>2. CASE g # c
    <3>1. e # d
      <4>1. SUFFICES ASSUME e = d PROVE FALSE
        OBVIOUS
      <4>2. e # c
        BY <1>2, <4>1, OtherSlot DEF Peer, SlotInv, Placed, SlotTypes, Conn
      <4> QED
        BY <2>2, <4>2, TwoAreOpen
    <3> QED
      BY <1>3, <2>2, <3>1 DEF RoomAhead, Conn
  <2> QED
    BY <2>1, <2>2
<1> QED
  BY <1>1, <1>4, <1>5

LEMMA FullIsLimit ==
  ASSUME QueueInv, NEW d \in Conn, ready[d] = "open", NEW n \in Nat
  PROVE  BacklogFull(d, n) <=> n >= Limit(d)
<1>1. (IsWs(d) /\ ~IsLp(d)) \/ (IsLp(d) /\ ~IsWs(d))
  BY DEF QueueInv, KindKnown, IsWs, IsLp
<1> QED
  BY <1>1, RelayAssumption DEF BacklogFull, Limit, Conn

\* The message event of a socket.
LEMMA MessageQueue ==
  ASSUME SlotInv, StreamInv, QueueInv, NEW c \in Conn, WsMessage(c)
  PROVE  QueueInv'
<1> USE DEF QueueInv
<1>1. roomLive => relay[place[c]] = c
  BY DEF WsMessage, SlotInv, HoldsItsSlot
<1>2. /\ IsWs(c) /\ (paused[c] => slack[c] > 0)
      /\ UNCHANGED <<connVars, oversized>> /\ roomLive' = roomLive
      /\ handled' = [handled EXCEPT ![c] = @ + 1]
  BY DEF WsMessage, slotVars, faultVars
<1>3. slack[c] \in 0 .. Sliver /\ Sliver \in Nat /\ c \in DOMAIN slack
  BY RelayAssumption DEF PauseTypes
<1>4. ASSUME Teardown({c} \cup PeerOf(c), {}, {}), UNCHANGED <<backlog, paused, timer>>,
             slack' = [slack EXCEPT ![c] = IF paused[c] THEN @ - 1 ELSE @]
      PROVE  QueueInv'
  <2>1. PauseTypes' /\ TimerPauses'
    BY <1>2, <1>3, <1>4 DEF PauseTypes, TimerPauses
  <2> DEFINE told == {c} \cup PeerOf(c)
  <2>2. told \in SUBSET Conn /\ {} \in SUBSET Conn
    BY WhoIsOpened
  <2>3. Teardown(told, {}, {}) /\ {c} \cup PeerOf(c) \subseteq told \cup {}
    BY <1>4
  <2> HIDE DEF told
  <2>4. \A d \in Conn : ready'[d] # "open"
    BY <1>1, <2>2, <2>3, FallTogether
  <2> QED
    BY <1>2, <1>4, <2>1, <2>4, NobodyAhead
<1>5. ASSUME Deliver(Peer(c), [from |-> c, seq |-> handled'[c]]), MaybePause(c),
             UNCHANGED slotVars
      PROVE  QueueInv'
  <2>1. PICK f \in AnyFrame : f = [from |-> c, seq |-> handled'[c]]
    <3>1. handled'[c] \in Nat
      BY <1>2 DEF StreamInv, FlowTypes
    <3> QED
      BY <3>1 DEF AnyFrame
  <2>2. PICK d \in Conn \cup {0} : d = Peer(c)
    BY PeerIsConn
  <2> DEFINE pause == /\ ~timer[c] /\ roomLive
                      /\ d # 0 /\ BacklogFull(d, Len(backlog'[d]))
  <2>3. /\ timer' = [timer EXCEPT ![c] = @ \/ pause]
        /\ paused' = [paused EXCEPT ![c] = @ \/ pause]
        /\ slack' = [slack EXCEPT ![c] = IF paused[c] THEN @ - 1
                                         ELSE IF pause THEN Sliver ELSE @]
    BY <1>5, <2>2 DEF MaybePause
  <2>4. /\ (paused'[c] <=> paused[c] \/ pause) /\ (timer'[c] <=> timer[c] \/ pause)
        /\ slack'[c] = IF paused[c] THEN slack[c] - 1 ELSE IF pause THEN Sliver ELSE slack[c]
        /\ paused' \in [Conn -> BOOLEAN] /\ timer' \in [Conn -> BOOLEAN]
        /\ \A e \in Conn : e # c => /\ paused'[e] = paused[e] /\ slack'[e] = slack[e]
                                     /\ timer'[e] = timer[e]
    <3>1. pause \in BOOLEAN /\ paused[c] \in BOOLEAN /\ timer[c] \in BOOLEAN
      BY DEF PauseTypes
    <3> HIDE DEF pause
    <3> QED
      BY <2>3, <3>1 DEF PauseTypes
  <2>5. PauseTypes'
    <3> HIDE DEF pause
    <3>1. slack' \in [Conn -> 0 .. Sliver]
      BY <1>2, <1>3, <2>3 DEF PauseTypes
    <3> QED
      BY <2>4, <3>1 DEF PauseTypes
  <2>6. TimerPauses'
    <3> HIDE DEF pause
    <3> QED
      BY <2>4 DEF TimerPauses
  <2>7. UNCHANGED <<relay, ready>>
    BY <1>5 DEF slotVars
  <2>8. Deliver(Peer(c), f)
    BY <1>5, <2>1
  <2>9. ASSUME d \in Conn, ~oversized, ready[d] = "open"
        PROVE  /\ Len(backlog'[d]) <= Limit(d) + Sliver
               /\ paused'[c] => Len(backlog'[d]) + slack'[c] <= Limit(d) + Sliver
               /\ IsWs(c) /\ ~paused'[c] => Len(backlog'[d]) < Limit(d)
    <3>1. /\ Len(backlog'[d]) \in Nat /\ Len(backlog[d]) \in Nat /\ Limit(d) \in Nat
          /\ Len(backlog'[d]) <= Len(backlog[d]) + 1
      BY <2>2, <2>8, <2>9, DeliveryLength, LimitType DEF StreamInv
    <3>2. d # c
      BY <2>2, <2>9, OtherSlot DEF Peer, SlotInv, Placed, SlotTypes, Conn
    <3>3. roomLive /\ Peer(d) = c /\ Peer(d) # 0
      BY <1>1, <2>2, <2>9, <3>2, TwoAreOpen DEF Conn
    <3>4. /\ paused[c] => Len(backlog[d]) + slack[c] <= Limit(d) + Sliver
          /\ ~paused[c] => Len(backlog[d]) < Limit(d)
      BY <1>2, <2>9, <3>3 DEF RoomAhead
    <3>5. CASE paused[c]
      BY <1>2, <1>3, <2>4, <3>1, <3>4, <3>5
    <3>6. CASE ~paused[c]
      <4>1. pause <=> Len(backlog'[d]) >= Limit(d)
        BY <2>9, <3>1, <3>3, <3>6, FullIsLimit DEF TimerPauses, Conn
      <4> HIDE DEF pause
      <4> QED
        BY <1>2, <1>3, <2>4, <3>1, <3>4, <3>6, <4>1
    <3> QED
      BY <3>5, <3>6
  <2> HIDE DEF pause
  <2> QED
    BY <1>1, <1>2, <2>2, <2>4, <2>5, <2>6, <2>7, <2>8, <2>9, DeliveredWithin
<1> QED
  BY <1>4, <1>5 DEF WsMessage

\* A post is refused in front of a full queue.
LEMMA PostQueue ==
  ASSUME SlotInv, StreamInv, QueueInv, NEW c \in Conn, LpUp(c)
  PROVE  QueueInv'
<1> USE DEF QueueInv
<1>1. roomLive => relay[place[c]] = c
  BY DEF LpUp, SlotInv, HoldsItsSlot
<1>2. /\ ~IsWs(c) /\ UNCHANGED <<connVars, oversized, paused, timer, slack>>
      /\ roomLive' = roomLive
  BY DEF LpUp, IsWs, IsLp, slotVars, faultVars, pauseVars
<1>3. PauseTypes' /\ TimerPauses'
  BY <1>2 DEF PauseTypes, TimerPauses
<1>4. ASSUME Teardown({c} \cup PeerOf(c), {}, {}), UNCHANGED backlog
      PROVE  QueueInv'
  <2> DEFINE told == {c} \cup PeerOf(c)
  <2>2. told \in SUBSET Conn /\ {} \in SUBSET Conn
    BY WhoIsOpened
  <2>3. Teardown(told, {}, {}) /\ {c} \cup PeerOf(c) \subseteq told \cup {}
    BY <1>4
  <2> HIDE DEF told
  <2>4. \A d \in Conn : ready'[d] # "open"
    BY <1>1, <2>2, <2>3, FallTogether
  <2> QED
    BY <1>2, <1>3, <1>4, <2>4, NobodyAhead
<1>5. ASSUME Deliver(Peer(c), [from |-> c, seq |-> sent'[c]]), UNCHANGED slotVars
      PROVE  QueueInv'
  <2>1. PICK f \in AnyFrame : f = [from |-> c, seq |-> sent'[c]]
    <3>1. sent'[c] \in Nat
      BY DEF LpUp, StreamInv, FlowTypes
    <3> QED
      BY <3>1 DEF AnyFrame
  <2>2. Deliver(Peer(c), f) /\ UNCHANGED <<relay, ready>>
    BY <1>5, <2>1 DEF slotVars
  <2>3. ASSUME NEW d \in Conn, ready[d] = "open", d = Peer(c)
        PROVE  /\ Len(backlog'[d]) <= Limit(d) + Sliver
               /\ paused'[c] => Len(backlog'[d]) + slack'[c] <= Limit(d) + Sliver
    <3>1. /\ Len(backlog'[d]) \in Nat /\ Len(backlog[d]) \in Nat /\ Limit(d) \in Nat
          /\ Len(backlog'[d]) <= Len(backlog[d]) + 1
      BY <2>2, <2>3, DeliveryLength, LimitType DEF StreamInv
    <3>2. Len(backlog[d]) < Limit(d)
      BY <2>3, <3>1, FullIsLimit DEF LpUp, Conn
    <3>3. slack'[c] \in 0 .. Sliver /\ Sliver \in Nat
      BY <1>2, RelayAssumption DEF PauseTypes
    <3> QED
      BY <3>1, <3>2, <3>3
  <2> QED
    BY <1>1, <1>2, <1>3, <2>2, <2>3, DeliveredWithin
<1> QED
  BY <1>4, <1>5 DEF LpUp

\* The interval resumes a socket only when its peer has half drained.
LEMMA ResumeQueue ==
  ASSUME SlotInv, StreamInv, QueueInv, NEW c \in Conn, ResumePoll(c)
  PROVE  QueueInv'
<1> USE DEF QueueInv
<1>1. /\ UNCHANGED <<connVars, roomLive, relay, ready, backlog, oversized>>
      /\ timer' = [timer EXCEPT ![c] = FALSE]
      /\ paused' = [paused EXCEPT ![c] = @ /\ ready[c] # "open"]
      /\ slack' = [slack EXCEPT ![c] = IF ready[c] = "open" THEN 0 ELSE @]
  BY DEF ResumePoll, slotVars, flowVars, faultVars
<1>2. PauseTypes' /\ (ready[c] # "open" => UNCHANGED <<paused, slack>>)
  <2>1. paused[c] \in BOOLEAN /\ (paused[c] /\ ready[c] # "open") \in BOOLEAN
    BY DEF PauseTypes
  <2>2. slack' \in [Conn -> 0 .. Sliver] /\ (ready[c] # "open" => slack' = slack)
    BY <1>1, RelayAssumption DEF PauseTypes
  <2>3. paused' \in [Conn -> BOOLEAN] /\ timer' \in [Conn -> BOOLEAN]
    BY <1>1, <2>1 DEF PauseTypes
  <2>4. ready[c] # "open" => paused' = paused
    BY <1>1, <2>1 DEF PauseTypes
  <2> QED
    BY <2>2, <2>3, <2>4 DEF PauseTypes
<1>3. \A e \in Conn : e # c => paused'[e] = paused[e] /\ slack'[e] = slack[e] /\ timer'[e] = timer[e]
  BY <1>1 DEF PauseTypes
<1>4. TimerPauses'
  <2>1. ~timer'[c]
    BY <1>1 DEF PauseTypes
  <2> QED
    BY <1>3, <2>1 DEF TimerPauses
<1>5. \A d \in Conn : /\ Limit(d)' = Limit(d) /\ Peer(d)' = Peer(d) /\ IsWs(d)' = IsWs(d)
                      /\ IsLp(d)' = IsLp(d)
  BY <1>1 DEF Limit, Peer, IsWs, IsLp, connVars
<1>6. KindKnown' /\ QueueBounded'
  BY <1>1, <1>5 DEF KindKnown, QueueBounded
<1>7. RoomAhead'
  <2> SUFFICES ASSUME ~oversized, NEW e \in Conn, ready[e] = "open",
                      NEW g \in Conn, g = Peer(e)
               PROVE  /\ paused'[g] => Len(backlog[e]) + slack'[g] <= Limit(e) + Sliver
                      /\ IsWs(g) /\ ~paused'[g] => Len(backlog[e]) < Limit(e)
    BY <1>1, <1>5, PeerIsConn DEF RoomAhead
  <2>1. CASE g # c \/ ready[c] # "open"
    BY <1>2, <1>3, <2>1 DEF RoomAhead, Conn
  <2>2. CASE g = c /\ ready[c] = "open"
    <3>1. ~paused'[c]
      BY <1>1, <2>2 DEF PauseTypes
    <3>2. e = Peer(c) /\ roomLive
      BY <2>2, FacesBack DEF SlotInv, HoldsItsSlot
    <3>3. BacklogLow(e, Len(backlog[e]))
      BY <2>2, <3>2 DEF ResumePoll, Conn
    <3>4. Len(backlog[e]) < Limit(e)
      BY <3>3, LimitType, RelayAssumption DEF BacklogLow, Limit, StreamInv, Conn
    <3> QED
      BY <2>2, <3>1, <3>4
  <2> QED
    BY <2>1, <2>2
<1> QED
  BY <1>2, <1>4, <1>6, <1>7

\* Steps that hand a frame to the page, or leave frames and pauses alone.
LEMMA OtherQueue ==
  ASSUME SlotInv, StreamInv, QueueInv, NEW c \in Conn,
         \/ WsTake(c) \/ LpPoll(c) \/ ClientSend(c) \/ ClientSeesClose(c) \/ Pong(c)
         \/ PollSettles(c) \/ PollLost(c) \/ Vanish(c)
  PROVE  QueueInv'
<1>0. \A d \in Conn : backlog[d] \in Seq(AnyFrame) /\ Len(backlog[d]) \in Nat
  BY LenProperties DEF StreamInv, FlowTypes
<1>1. UNCHANGED <<connVars, roomLive, relay, ready, oversized, paused, timer, slack>>
  BY DEF WsTake, LpPoll, ClientSend, ClientSeesClose, Pong, PollSettles, PollLost, Vanish,
     slotVars, faultVars, pauseVars
<1>2. \/ backlog' = backlog
      \/ backlog[c] # <<>> /\ backlog' = [backlog EXCEPT ![c] = Tail(@)]
  BY DEF WsTake, LpPoll, ClientSend, ClientSeesClose, Pong, PollSettles, PollLost, Vanish,
     flowVars
<1>3. \A d \in Conn : Len(backlog'[d]) \in Nat /\ Len(backlog'[d]) <= Len(backlog[d])
  <2>1. CASE backlog' = backlog
    BY <1>0, <2>1
  <2>2. CASE backlog[c] # <<>> /\ backlog' = [backlog EXCEPT ![c] = Tail(@)]
    <3>1. Len(Tail(backlog[c])) = Len(backlog[c]) - 1 /\ Len(backlog[c]) # 0
      BY <1>0, <2>2, HeadTailProperties, EmptySeq
    <3> QED
      BY <1>0, <2>2, <3>1 DEF StreamInv, FlowTypes
  <2> QED
    BY <1>2, <2>1, <2>2
<1> QED
  BY <1>1, <1>3, PausesUntouched

LEMMA EndQueue ==
  ASSUME SlotInv, StreamInv, QueueInv, NEW c \in Conn,
         Oversized(c) \/ ClientCloses(c) \/ WsClosed(c) \/ LpIdle(c)
  PROVE  QueueInv'
<1>1. /\ UNCHANGED <<connVars, backlog, paused, slack>> /\ roomLive' = roomLive
      /\ timer' = timer \/ timer' = [timer EXCEPT ![c] = FALSE]
  BY DEF Oversized, ClientCloses, WsClosed, LpIdle, flowVars, pauseVars
<1>2. PauseTypes' /\ TimerPauses'
  BY <1>1 DEF QueueInv, PauseTypes, TimerPauses
<1>3. /\ PeerOf(c) \in SUBSET Conn /\ {c} \in SUBSET Conn /\ {} \in SUBSET Conn
      /\ {c} \cup PeerOf(c) \in SUBSET Conn
  BY WhoIsOpened
<1>4. oversized \in BOOLEAN
  BY DEF StreamInv, FlowTypes
<1>5. CASE Oversized(c)
  <2>1. oversized' = TRUE /\ Teardown({c}, {}, {})
    BY <1>5 DEF Oversized
  <2>2. \A d \in Conn : ready'[d] = "open" => ready[d] = "open"
    BY <2>1 DEF Teardown
  <2> QED
    BY <1>1, <1>2, <2>1, <2>2, NobodyAhead
<1>6. ASSUME NEW told \in SUBSET Conn, NEW ended \in SUBSET Conn, NEW off,
             Teardown(told, ended, off), oversized' = oversized,
             roomLive => {c} \cup PeerOf(c) \subseteq told \cup ended,
             roomLive => relay[place[c]] = c
      PROVE  QueueInv'
  <2>1. \A d \in Conn : ready'[d] # "open"
    BY <1>6, FallTogether
  <2> QED
    BY <1>1, <1>2, <1>6, <2>1, NobodyAhead
<1>7. CASE WsClosed(c)
  <2> DEFINE told == IF roomLive THEN PeerOf(c) ELSE {}
  <2>1. Teardown(told, {c}, {}) /\ oversized' = oversized
    BY <1>7 DEF WsClosed, faultVars
  <2>2. roomLive => relay[place[c]] = c
    BY <1>7 DEF WsClosed, CloseIsDue, SlotInv, HoldsItsSlot
  <2>3. told \in SUBSET Conn /\ (roomLive => {c} \cup PeerOf(c) \subseteq told \cup {c})
    BY <1>3
  <2> HIDE DEF told
  <2> QED
    BY <1>3, <1>6, <2>1, <2>2, <2>3
<1>8. CASE LpIdle(c)
  <2>1. Teardown({c} \cup PeerOf(c), {}, {}) /\ oversized' = oversized
    BY <1>8 DEF LpIdle, faultVars
  <2>2. roomLive => relay[place[c]] = c
    BY <1>8 DEF LpIdle, SlotInv, HoldsItsSlot
  <2> QED
    BY <1>3, <1>6, <2>1, <2>2
<1>9. CASE ClientCloses(c)
  <2>1. oversized' = oversized /\ timer' = timer
    BY <1>9 DEF ClientCloses, pauseVars
  <2>2. roomLive => relay[place[c]] = c
    BY <1>9 DEF ClientCloses, SlotInv, HoldsItsSlot
  <2>3. CASE UNCHANGED <<relay, ready>>
    BY <1>1, <2>1, <2>3, LimitType, PausesUntouched DEF StreamInv
  <2>4. CASE Teardown({c} \cup PeerOf(c), {}, {c})
    BY <1>3, <1>6, <2>1, <2>2, <2>4
  <2> QED
    BY <1>9, <2>3, <2>4 DEF ClientCloses
<1> QED
  BY <1>5, <1>7, <1>8, <1>9

LEMMA ExpireQueue ==
  ASSUME SlotInv, StreamInv, QueueInv, Expire
  PROVE  QueueInv'
<1> DEFINE told == {relay[s] : s \in Slot} \ {0}
<1>1. UNCHANGED <<connVars, backlog, paused, timer, slack, oversized>> /\ Teardown(told, {}, {})
  BY DEF Expire, flowVars, pauseVars, faultVars
<1>2. \A d \in Conn : ready[d] = "open" => d \in told
  BY DEF Expire, SlotInv, HoldsItsSlot, SlotTypes, Conn
<1> HIDE DEF told
<1>3. \A d \in Conn : ready'[d] # "open"
  BY <1>1, <1>2 DEF Teardown
<1>4. PauseTypes' /\ TimerPauses'
  BY <1>1 DEF QueueInv, PauseTypes, TimerPauses
<1> QED
  BY <1>1, <1>3, <1>4, NobodyAhead

LEMMA StepQueue == SlotInv /\ StreamInv /\ QueueInv /\ [Next]_vars => QueueInv'
<1> SUFFICES ASSUME SlotInv, StreamInv, QueueInv, [Next]_vars PROVE QueueInv'
  OBVIOUS
<1>1. ASSUME NEW p \in Page, WsUpgrade(p) \/ LpHandshake(p)
      PROVE  QueueInv'
  <2>1. PICK k \in {"ws", "lp"}, s \in Slot : Claim(p, k, s)
    BY <1>1 DEF WsUpgrade, LpHandshake
  <2> QED
    BY <2>1, ClaimQueue
<1>2. ASSUME NEW c \in Conn, ServerStep(c)
      PROVE  QueueInv'
  BY <1>2, MessageQueue, ResumeQueue, OtherQueue, EndQueue DEF ServerStep
<1>3. ASSUME NEW c \in Conn, ClientStep(c)
      PROVE  QueueInv'
  BY <1>3, OtherQueue DEF ClientStep
<1>4. ASSUME NEW c \in Conn, Environment(c)
      PROVE  QueueInv'
  BY <1>4, PostQueue, EndQueue, OtherQueue DEF Environment
<1>5. CASE Heartbeat
  <2>1. /\ UNCHANGED <<connVars, roomLive, relay, backlog, oversized, paused, timer, slack>>
        /\ \A d \in Conn : ready'[d] = "open" => ready[d] = "open"
    BY <1>5 DEF Heartbeat, flowVars, pauseVars, faultVars
  <2> QED
    BY <2>1, LimitType, PausesUntouched DEF StreamInv
<1>6. CASE Expire
  BY <1>6, ExpireQueue
<1>7. CASE UNCHANGED vars
  <2>1. UNCHANGED <<connVars, roomLive, relay, ready, backlog, oversized, paused, timer, slack>>
    BY <1>7 DEF vars, slotVars, flowVars, pauseVars, faultVars
  <2> QED
    BY <2>1, LimitType, PausesUntouched DEF StreamInv
<1> QED
  BY <1>1, <1>2, <1>3, <1>4, <1>5, <1>6, <1>7 DEF Next

\* Backpressure bounds the server's memory (server.js:1643): for every bound,
\* over any number of pauses, resumes, reconnects and mixtures of sockets and
\* long polls, at most the bound and one sliver wait for a connection.
THEOREM QueuesStayBounded == Spec => []QueueBounded
<1>1. QueueInv => QueueBounded
  BY DEF QueueInv
<1> QED
  BY <1>1, InitQueue, StepQueue, SlotInvHolds, StreamInvHolds, PTL DEF Spec
=============================================================================
