------------------------ MODULE RacingTransportProofs ------------------------
(***************************************************************************)
(* What RacingTransport guarantees for every number of messages, faults    *)
(* and replaced transports: a page holds no relay slot beside its winner's,*)
(* and hears its winner from the first message on.                         *)
(***************************************************************************)
EXTENDS RacingTransport, FiniteSetTheorems, SequenceTheorems, TLAPS

-----------------------------------------------------------------------------
(* What a transport is, before and after any of its callbacks.             *)

TransportState ==
  [winner : Inners \cup {"none"}, timer : Relays \cup {"none"}, known : BOOLEAN,
   reconnecting : BOOLEAN, app : {"waiting", "connected", "lost"}, rtc : RtcStates,
   limit : {"off", "armed", "past"}, grace : {"none", "armed", "deferred"},
   recheck : BOOLEAN, ws : InnerStates, lp : InnerStates,
   pending : [Inners -> Seq(Nat)], arrived : [Inners -> Seq(Nat)],
   heard : Seq(Nat)]

\* Long polling begins only after the socket has failed, and the lock closes
\* every inner but the winner.  Only a relay is reconnected.
OneRelay(r) ==
  /\ r.winner = "none" /\ r.lp \notin {"off", "closed"} => r.ws \in {"gone", "closed"}
  /\ r.winner \in {"ws", "rtc"} => r.lp \in {"off", "closed"}
  /\ r.winner \in {"lp", "rtc"} => r.ws = "closed"
  /\ r.reconnecting => r.winner \in Relays

\* What the page was given of an inner is all that came in on it, unless more
\* came than may be pending.
Whole(given, came) == given = came \/ Len(came) > MaxPending

Hears(r) ==
  IF r.winner = "none" THEN \A k \in Inners : Whole(r.pending[k], r.arrived[k])
  ELSE Whole(r.heard, r.arrived[r.winner])

Sound(r) == r \in TransportState /\ OneRelay(r) /\ Hears(r)

LEMMA PageFacts ==
  /\ "receiver" \in Pages /\ "sender" \in Pages
  /\ \A p \in Pages : Other(p) \in Pages /\ Other(p) # p
  /\ \A p, q \in Pages : q # p => q = Other(p)
  BY DEF Pages, Other

LEMMA TransportSound ==
  ASSUME NEW p \in Pages, NEW known \in BOOLEAN, NEW m
  PROVE  /\ Sound(Transport(p, known, m))
         /\ Transport(p, known, m).arrived = [k \in Inners |-> <<>>]
         /\ Transport(p, known, m).winner = "none"
<1>1. [k \in Inners |-> <<>>] \in [Inners -> Seq(Nat)]
  OBVIOUS
<1>2. Transport(p, known, m) \in TransportState
  BY <1>1 DEF Transport, TransportState, InnerStates, RtcStates
<1>3. OneRelay(Transport(p, known, m)) /\ Hears(Transport(p, known, m))
  BY DEF Transport, OneRelay, Hears, Whole
<1> QED
  BY <1>2, <1>3 DEF Sound, Transport

LEMMA LockSound ==
  ASSUME NEW r, Sound(r), r.winner = "none", NEW k \in Inners
  PROVE  /\ Sound(Lock(r, k))
         /\ Lock(r, k).arrived = r.arrived
<1>1. r \in TransportState /\ Whole(r.pending[k], r.arrived[k])
  BY DEF Sound, Hears
<1>2. PICK L : L = Lock(r, k)
  OBVIOUS
<1>3. /\ CloseInner(r, "rtc").rtc \in RtcStates
      /\ CloseInner(r, "ws").ws = "closed"
      /\ CloseInner(r, "lp").lp \in {"off", "closed"}
  BY <1>1 DEF CloseInner, TransportState, RtcStates
<1>4. /\ L.winner = k /\ L.heard = r.pending[k] /\ L.arrived = r.arrived
      /\ L.ws = IF k = "ws" THEN r.ws ELSE "closed"
      /\ k # "lp" => L.lp \in {"off", "closed"}
      /\ L.reconnecting = r.reconnecting
  BY <1>1, <1>2, <1>3 DEF Lock, TransportState, Inners, Relays
<1>5. L \in TransportState
  <2>1. PICK rtc : rtc = IF k = "rtc" THEN r.rtc ELSE CloseInner(r, "rtc").rtc
    OBVIOUS
  <2>2. PICK ws : ws = IF k = "ws" THEN r.ws ELSE CloseInner(r, "ws").ws
    OBVIOUS
  <2>3. PICK lp : lp = IF k = "lp" THEN r.lp ELSE CloseInner(r, "lp").lp
    OBVIOUS
  <2>4. PICK limit : limit = IF k # "rtc" /\ r.rtc # "none" THEN "off" ELSE r.limit
    OBVIOUS
  <2>5. PICK grace : grace = IF k # "rtc" /\ r.rtc # "none" THEN "none" ELSE r.grace
    OBVIOUS
  <2>6. PICK nothing : nothing = [j \in Inners |-> <<>>]
    OBVIOUS
  <2>7. L = [r EXCEPT !.winner = k, !.timer = "none", !.app = "connected",
                      !.rtc = rtc, !.ws = ws, !.lp = lp,
                      !.limit = limit, !.grace = grace,
                      !.heard = r.pending[k], !.pending = nothing]
    BY <1>2, <2>1, <2>2, <2>3, <2>4, <2>5, <2>6 DEF Lock, Inners, Relays
  <2>8. /\ rtc \in RtcStates /\ ws \in InnerStates /\ lp \in InnerStates
        /\ limit \in {"off", "armed", "past"} /\ grace \in {"none", "armed", "deferred"}
    BY <1>1, <1>3, <2>1, <2>2, <2>3, <2>4, <2>5 DEF InnerStates, TransportState
  <2>9. nothing \in [Inners -> Seq(Nat)] /\ r.pending[k] \in Seq(Nat)
    BY <1>1, <2>6 DEF TransportState
  <2> QED
    BY <1>1, <2>7, <2>8, <2>9 DEF TransportState
<1> QED
  BY <1>1, <1>2, <1>4, <1>5 DEF Sound, OneRelay, Hears, Inners, Relays

-----------------------------------------------------------------------------
(* The callbacks of an inner keep a transport sound.  They lose nothing that
   arrived. *)

LEMMA ConnectedSound ==
  ASSUME NEW r, Sound(r), NEW k \in Inners
  PROVE  /\ Sound(InnerConnected(r, k))
         /\ InnerConnected(r, k).arrived = r.arrived
<1>1. CASE r.winner = "none" /\ k = "rtc" /\ mode = "race"
  BY <1>1, LockSound DEF InnerConnected
<1>2. CASE ~(r.winner = "none" /\ k = "rtc" /\ mode = "race")
  <2>1. PICK c : c = InnerConnected(r, k)
    OBVIOUS
  <2>2. \/ c = r
        \/ c = [r EXCEPT !.reconnecting = FALSE, !.app = "connected"]
        \/ k \in Relays /\ c = [r EXCEPT !.timer = k]
    BY <1>2, <2>1 DEF InnerConnected, Inners, Relays
  <2>a. r \in TransportState
    BY DEF Sound
  <2>3. c \in TransportState
    <3>1. CASE c = [r EXCEPT !.reconnecting = FALSE, !.app = "connected"]
      BY <2>a, <3>1 DEF TransportState
    <3>2. CASE k \in Relays /\ c = [r EXCEPT !.timer = k]
      BY <2>a, <3>2 DEF TransportState
    <3> QED
      BY <2>2, <2>a, <3>1, <3>2
  <2>4. /\ c.winner = r.winner /\ c.ws = r.ws /\ c.lp = r.lp
        /\ c.pending = r.pending /\ c.arrived = r.arrived /\ c.heard = r.heard
        /\ c.reconnecting => r.reconnecting
    BY <2>2, <2>a DEF TransportState
  <2> QED
    BY <2>1, <2>3, <2>4 DEF Sound, OneRelay, Hears
<1> QED
  BY <1>1, <1>2

LEMMA TransientSound ==
  ASSUME NEW r, Sound(r), NEW k \in Relays
  PROVE  /\ Sound(InnerTransient(r, k))
         /\ InnerTransient(r, k).arrived = r.arrived
<1>1. PICK c : c = InnerTransient(r, k)
  OBVIOUS
<1>2. c = r \/ c = [r EXCEPT !.reconnecting = TRUE]
  BY <1>1 DEF InnerTransient
<1>a. r \in TransportState
  BY DEF Sound
<1>3. c \in TransportState
  <2>1. CASE c = [r EXCEPT !.reconnecting = TRUE]
    BY <1>a, <2>1 DEF TransportState
  <2> QED
    BY <1>2, <1>a, <2>1
<1>4. /\ c.winner = r.winner /\ c.ws = r.ws /\ c.lp = r.lp
      /\ c.pending = r.pending /\ c.arrived = r.arrived /\ c.heard = r.heard
      /\ c.reconnecting => r.reconnecting \/ r.winner \in Relays
  BY <1>1, <1>2, <1>a DEF TransportState, InnerTransient
<1> QED
  BY <1>1, <1>3, <1>4 DEF Sound, OneRelay, Hears

\* The socket is given up before long polling is tried.
LEMMA DisconnectedSound ==
  ASSUME NEW r, Sound(r), NEW k \in Inners, k = "ws" => r.ws = "gone"
  PROVE  /\ Sound(InnerDisconnected(r, k))
         /\ InnerDisconnected(r, k).arrived = r.arrived
<1>1. CASE r.winner = "none" /\ k = "rtc"
  BY <1>1, LockSound DEF InnerDisconnected, Inners, Relays
<1>2. CASE ~(r.winner = "none" /\ k = "rtc")
  <2>1. PICK c : c = InnerDisconnected(r, k)
    OBVIOUS
  <2>2. \/ c = r
        \/ c = [r EXCEPT !.app = "lost"]
        \/ r.winner = "none" /\ k = "ws" /\ c = [r EXCEPT !.lp = "spawned"]
    BY <1>2, <2>1 DEF InnerDisconnected, SpawnLp, Inners, Relays
  <2>a. "spawned" \in InnerStates
    BY DEF InnerStates
  <2>b. r \in TransportState
    BY DEF Sound
  <2>3. c \in TransportState
    <3>1. CASE c = [r EXCEPT !.app = "lost"]
      BY <2>b, <3>1 DEF TransportState
    <3>2. CASE c = [r EXCEPT !.lp = "spawned"]
      BY <2>a, <2>b, <3>2 DEF TransportState
    <3> QED
      BY <2>2, <2>b, <3>1, <3>2
  <2>4. /\ c.winner = r.winner /\ c.ws = r.ws
        /\ c.lp = r.lp \/ (r.winner = "none" /\ r.ws = "gone")
        /\ c.pending = r.pending /\ c.arrived = r.arrived /\ c.heard = r.heard
        /\ c.reconnecting => r.reconnecting
    BY <2>2, <2>b DEF TransportState
  <2> QED
    BY <2>1, <2>3, <2>4 DEF Sound, OneRelay, Hears
<1> QED
  BY <1>1, <1>2

LEMMA MessageSound ==
  ASSUME NEW r, Sound(r), NEW k \in Inners, NEW msg \in Nat
  PROVE  /\ Sound(InnerMessage(r, k, msg))
         /\ InnerMessage(r, k, msg).arrived
              = [r.arrived EXCEPT ![k] = Append(r.arrived[k], msg)]
         /\ InnerMessage(r, k, msg).ws = r.ws /\ InnerMessage(r, k, msg).lp = r.lp
<1>0. /\ r \in TransportState /\ r.winner \in Inners \cup {"none"} /\ "none" \notin Inners
      /\ r.arrived \in [Inners -> Seq(Nat)]
      /\ r.pending \in [Inners -> Seq(Nat)] /\ r.heard \in Seq(Nat)
  BY DEF Sound, TransportState, Inners, Relays
<1>1. PICK came : came = [r.arrived EXCEPT ![k] = Append(r.arrived[k], msg)]
  OBVIOUS
<1>2. PICK in : in = [r EXCEPT !.arrived = came]
  OBVIOUS
<1>3. in = [r EXCEPT !.arrived[k] = Append(@, msg)]
  BY <1>0, <1>1, <1>2 DEF TransportState
<1>4. /\ came \in [Inners -> Seq(Nat)]
      /\ Len(came[k]) = Len(r.arrived[k]) + 1 /\ Len(r.arrived[k]) \in Nat
      /\ \A j \in Inners : j # k => came[j] = r.arrived[j]
  BY <1>0, <1>1, AppendProperties, LenProperties
<1>5. in \in TransportState /\ in.winner = r.winner /\ in.ws = r.ws /\ in.lp = r.lp
      /\ in.arrived = came /\ in.pending = r.pending /\ in.heard = r.heard
      /\ in.reconnecting = r.reconnecting
  BY <1>0, <1>2, <1>4 DEF TransportState
<1>6. MaxPending \in Nat
  BY RaceAssumption
<1>7. CASE r.winner = k
  <2>1. PICK heard : heard = Append(r.heard, msg)
    OBVIOUS
  <2>2. PICK c : c = [in EXCEPT !.heard = heard]
    OBVIOUS
  <2>3. c = InnerMessage(r, k, msg)
    BY <1>0, <1>3, <1>5, <1>7, <2>1, <2>2 DEF InnerMessage, TransportState
  <2>4. heard \in Seq(Nat)
    BY <1>0, <2>1, AppendProperties
  <2>5. c \in TransportState /\ c.winner = k /\ c.ws = r.ws /\ c.lp = r.lp
        /\ c.arrived = came /\ c.heard = heard /\ c.reconnecting = r.reconnecting
    BY <1>5, <1>7, <2>2, <2>4 DEF TransportState
  <2>6. Whole(r.heard, r.arrived[k]) /\ k # "none" /\ OneRelay(r)
    BY <1>0, <1>7 DEF Sound, Hears
  <2>7. Whole(heard, came[k])
    BY <1>0, <1>1, <1>4, <1>6, <2>1, <2>6 DEF Whole
  <2> QED
    BY <1>1, <1>7, <2>3, <2>5, <2>6, <2>7 DEF Sound, OneRelay, Hears
<1>8. CASE r.winner = "none" /\ Len(r.pending[k]) < MaxPending
  <2>1. PICK pending : pending = [r.pending EXCEPT ![k] = Append(r.pending[k], msg)]
    OBVIOUS
  <2>2. PICK c : c = [in EXCEPT !.pending = pending]
    OBVIOUS
  <2>3. c = InnerMessage(r, k, msg)
    BY <1>0, <1>3, <1>5, <1>8, <2>1, <2>2 DEF InnerMessage, TransportState
  <2>4. pending \in [Inners -> Seq(Nat)]
    BY <1>0, <2>1, AppendProperties
  <2>5. c \in TransportState /\ c.winner = "none" /\ c.ws = r.ws /\ c.lp = r.lp
        /\ c.arrived = came /\ c.pending = pending /\ c.reconnecting = r.reconnecting
    BY <1>5, <1>8, <2>2, <2>4 DEF TransportState
  <2>6. OneRelay(r) /\ \A j \in Inners : Whole(r.pending[j], r.arrived[j])
    BY <1>8 DEF Sound, Hears
  <2>7. \A j \in Inners : Whole(pending[j], came[j])
    BY <1>0, <1>1, <1>4, <1>6, <2>1, <2>6 DEF Whole
  <2> QED
    BY <1>1, <1>8, <2>3, <2>5, <2>6, <2>7 DEF Sound, OneRelay, Hears
<1>9. CASE r.winner # k /\ ~(r.winner = "none" /\ Len(r.pending[k]) < MaxPending)
  <2>1. in = InnerMessage(r, k, msg)
    BY <1>3, <1>5, <1>9 DEF InnerMessage
  <2>2. r.winner = "none" => \A j \in Inners : Whole(r.pending[j], came[j])
    <3> SUFFICES ASSUME r.winner = "none", NEW j \in Inners
                 PROVE  Whole(r.pending[j], came[j])
      OBVIOUS
    <3>1. Whole(r.pending[j], r.arrived[j]) /\ ~(Len(r.pending[k]) < MaxPending)
      BY <1>9 DEF Sound, Hears
    <3>2. Len(r.pending[k]) \in Nat
      BY <1>0, LenProperties
    <3> QED
      BY <1>4, <1>6, <3>1, <3>2 DEF Whole
  <2>3. r.winner # "none" => Whole(r.heard, came[r.winner])
    BY <1>0, <1>4, <1>9 DEF Sound, Hears
  <2>4. OneRelay(r)
    BY DEF Sound
  <2> QED
    BY <1>1, <1>5, <2>1, <2>2, <2>3, <2>4 DEF Sound, OneRelay, Hears
<1> QED
  BY <1>7, <1>8, <1>9

-----------------------------------------------------------------------------
(* The inductive invariant: types of the state around the pages, sound pages,
   and slots that the transports of their pages hold.                      *)

Surroundings ==
  /\ slots \subseteq Ends
  /\ wire \in [Ends -> Seq(Nat)] /\ channel \in [Pages -> Seq(Nat)]
  /\ said \in [Pages -> Nat]

PagesSound == \A p \in Pages : Sound(page[p])

SlotsHeld == \A p \in Pages, k \in Relays : <<p, k>> \in slots => Holds(page[p], k)

RaceInv ==
  /\ page = [p \in Pages |-> page[p]]
  /\ Surroundings /\ PagesSound /\ SlotsHeld

LEMMA InvGives == RaceInv => OneSlotPerPage
<1> SUFFICES ASSUME RaceInv, NEW e \in slots, e[2] \in Relays
             PROVE  /\ page[e[1]].winner \in {"none", e[2]}
                    /\ \A f \in slots : f[1] = e[1] /\ f[2] \in Relays => f = e
  BY DEF OneSlotPerPage
<1>1. e \in Ends /\ e = <<e[1], e[2]>> /\ e[1] \in Pages
  BY DEF RaceInv, Surroundings, Ends
<1>2. /\ Holds(page[e[1]], e[2]) /\ OneRelay(page[e[1]])
      /\ page[e[1]].winner \in Inners \cup {"none"}
  BY <1>1 DEF RaceInv, SlotsHeld, PagesSound, Sound, TransportState
<1>3. page[e[1]].winner \in {"none", e[2]}
  BY <1>2 DEF Holds, OneRelay, Inners, Relays
<1>4. ASSUME NEW f \in slots, f[1] = e[1], f[2] \in Relays PROVE f = e
  <2>1. f \in Ends /\ f = <<f[1], f[2]>>
    BY DEF RaceInv, Surroundings, Ends
  <2>2. Holds(page[e[1]], f[2])
    BY <1>1, <1>4, <2>1 DEF RaceInv, SlotsHeld
  <2>3. f[2] = e[2]
    BY <1>2, <1>3, <1>4, <2>2 DEF Holds, OneRelay, Relays
  <2> QED
    BY <1>1, <1>4, <2>1, <2>3
<1> QED
  BY <1>3, <1>4

LEMMA DrainedType ==
  ASSUME wire \in [Ends -> Seq(Nat)], NEW f
  PROVE  Drained(f) \in [Ends -> Seq(Nat)]
  BY DEF Drained

LEMMA FrameToType ==
  ASSUME NEW w \in [Ends -> Seq(Nat)], NEW ends, NEW frame \in Nat
  PROVE  FrameTo(ends, w, frame) \in [Ends -> Seq(Nat)]
  BY AppendProperties DEF FrameTo

\* One page changes, the slots stay: the slots it holds it goes on holding.
LEMMA PageChanges ==
  ASSUME RaceInv, NEW p \in Pages, NEW r, Sound(r),
         page' = [page EXCEPT ![p] = r], slots' = slots,
         \A k \in Relays : Holds(page[p], k) => Holds(r, k)
  PROVE  page' = [q \in Pages |-> page'[q]] /\ PagesSound' /\ SlotsHeld'
<1>1. page = [q \in Pages |-> page[q]] /\ PagesSound /\ SlotsHeld
  BY DEF RaceInv
<1>2. /\ page' = [q \in Pages |-> page'[q]]
      /\ page'[p] = r /\ \A q \in Pages : q # p => page'[q] = page[q]
  BY <1>1
<1> QED
  BY <1>1, <1>2 DEF PagesSound, SlotsHeld

\* One page changes and the slots it gave up are torn down.
LEMMA BecameSound ==
  ASSUME RaceInv, NEW p \in Pages, NEW r, Sound(r), Became(p, r), said' \in [Pages -> Nat],
         channel' = channel
  PROVE  RaceInv'
<1>1. page = [q \in Pages |-> page[q]] /\ PagesSound /\ SlotsHeld /\ Surroundings
  BY DEF RaceInv
<1>2. page' = [page EXCEPT ![p] = r]
  BY DEF Became
<1>3. /\ page' = [q \in Pages |-> page'[q]]
      /\ page'[p] = r /\ \A q \in Pages : q # p => page'[q] = page[q]
  BY <1>1, <1>2
<1>4. PagesSound'
  BY <1>1, <1>3 DEF PagesSound
<1>5. SlotsHeld'
  <2> SUFFICES ASSUME NEW q \in Pages, NEW k \in Relays, <<q, k>> \in slots'
               PROVE  Holds(page'[q], k)
    BY DEF SlotsHeld
  <2>1. <<q, k>> \in slots /\ ~ \E e \in slots : e[1] = p /\ e[2] \in Relays /\ ~Holds(r, e[2])
    BY DEF Became
  <2> QED
    BY <1>1, <1>3, <2>1 DEF SlotsHeld
<1>6. Surroundings'
  <2>1. slots' \subseteq Ends
    BY <1>1 DEF Became, Surroundings
  <2>2. wire' \in [Ends -> Seq(Nat)]
    BY <1>1, DrainedType DEF Became, Surroundings
  <2> QED
    BY <1>1, <2>1, <2>2 DEF Surroundings
<1> QED
  BY <1>3, <1>4, <1>5, <1>6 DEF RaceInv

\* A change of the other fields of a transport.
LEMMA SoundSame ==
  ASSUME NEW r, Sound(r), NEW s \in TransportState,
         s.winner = r.winner, s.ws = r.ws, s.lp = r.lp,
         s.pending = r.pending, s.arrived = r.arrived, s.heard = r.heard,
         s.reconnecting => r.reconnecting
  PROVE  Sound(s)
  BY DEF Sound, OneRelay, Hears

\* The state of one relay transport changes, in an order the race allows.
LEMMA SoundRelay ==
  ASSUME NEW r, Sound(r), NEW k \in Relays, NEW v \in InnerStates,
         r[k] # "closed",
         k = "lp" => r.lp # "off",
         k = "ws" => v = "gone" \/ r.ws # "gone" \/ r.winner # "none"
  PROVE  /\ Sound([r EXCEPT ![k] = v])
         /\ [r EXCEPT ![k] = v].arrived = r.arrived
         /\ [r EXCEPT ![k] = v][k] = v
         /\ \A j \in Relays : j # k => [r EXCEPT ![k] = v][j] = r[j]
<1>1. r \in TransportState
  BY DEF Sound
<1>2. CASE k = "ws"
  <2>1. PICK s : s = [r EXCEPT !.ws = v]
    OBVIOUS
  <2>2. s = [r EXCEPT ![k] = v]
    BY <1>2, <2>1
  <2>3. s \in TransportState
    BY <1>1, <2>1 DEF TransportState
  <2>4. /\ s.winner = r.winner /\ s.ws = v /\ s.lp = r.lp
        /\ s.pending = r.pending /\ s.arrived = r.arrived /\ s.heard = r.heard
        /\ s.reconnecting = r.reconnecting
    BY <1>1, <2>1 DEF TransportState
  <2>5. OneRelay(r) /\ Hears(r)
    BY DEF Sound
  <2> QED
    BY <1>2, <2>2, <2>3, <2>4, <2>5 DEF Sound, OneRelay, Hears, Relays
<1>3. CASE k = "lp"
  <2>1. PICK s : s = [r EXCEPT !.lp = v]
    OBVIOUS
  <2>2. s = [r EXCEPT ![k] = v]
    BY <1>3, <2>1
  <2>3. s \in TransportState
    BY <1>1, <2>1 DEF TransportState
  <2>4. /\ s.winner = r.winner /\ s.ws = r.ws /\ s.lp = v
        /\ s.pending = r.pending /\ s.arrived = r.arrived /\ s.heard = r.heard
        /\ s.reconnecting = r.reconnecting
    BY <1>1, <2>1 DEF TransportState
  <2>5. OneRelay(r) /\ Hears(r)
    BY DEF Sound
  <2> QED
    BY <1>3, <2>2, <2>3, <2>4, <2>5 DEF Sound, OneRelay, Hears, Relays
<1> QED
  BY <1>2, <1>3 DEF Relays

-----------------------------------------------------------------------------
(* One lemma for each group of actions: the invariant is kept, and no action
   but the arrival of a frame and the replacement of a transport changes what
   has arrived. *)

SameArrived == \A q \in Pages : page'[q].arrived = page[q].arrived

LEMMA PageSound ==
  ASSUME RaceInv, NEW p \in Pages
  PROVE  Sound(page[p]) /\ page[p] \in TransportState
  BY DEF RaceInv, PagesSound, Sound

LEMMA BecameSame ==
  ASSUME RaceInv, NEW p \in Pages, NEW r, r.arrived = page[p].arrived,
         page' = [page EXCEPT ![p] = r]
  PROVE  SameArrived
<1>1. page = [q \in Pages |-> page[q]]
  BY DEF RaceInv
<1> QED
  BY <1>1 DEF SameArrived

LEMMA LpStartsSound ==
  ASSUME RaceInv, NEW p \in Pages, LpStarts(p)
  PROVE  RaceInv' /\ SameArrived
<1>1. PICK r : r = [page[p] EXCEPT !["lp"] = "opening"]
  OBVIOUS
<1>2. page' = [page EXCEPT ![p] = r] /\ page[p]["lp"] = "spawned"
  BY <1>1 DEF LpStarts
<1>3. Sound(r) /\ r.arrived = page[p].arrived /\ r["ws"] = page[p]["ws"]
  <2>1. Sound(page[p]) /\ "lp" \in Relays /\ "ws" \in Relays /\ "opening" \in InnerStates
    BY PageSound DEF Relays, InnerStates
  <2>2. page[p]["lp"] # "closed" /\ page[p].lp # "off" /\ "lp" # "ws"
    BY <1>2
  <2> QED
    BY <1>1, <2>1, <2>2, SoundRelay
<1>4. \A k \in Relays : Holds(page[p], k) => Holds(r, k)
  BY <1>2, <1>3 DEF Holds, Relays
<1>5. slots' = slots /\ wire' = wire /\ channel' = channel /\ said' = said
  BY DEF LpStarts, Calm
<1> QED
  BY <1>2, <1>3, <1>4, <1>5, PageChanges, BecameSame DEF RaceInv, Surroundings

LEMMA RelayOpensSound ==
  ASSUME RaceInv, NEW p \in Pages, NEW k \in Relays, RelayOpens(p, k)
  PROVE  RaceInv' /\ SameArrived
<1>1. PICK r : r = [page[p] EXCEPT ![k] = "open"]
  OBVIOUS
<1>2. page' = [page EXCEPT ![p] = r] /\ page[p][k] = "opening"
  BY <1>1 DEF RelayOpens
<1>a. page[p][k] # "closed" /\ (k = "lp" => page[p].lp # "off") /\ (k = "ws" => page[p].ws # "gone")
  BY <1>2
<1>b. "open" \in InnerStates
  BY DEF InnerStates
<1>3. /\ Sound(r) /\ r.arrived = page[p].arrived /\ r[k] = "open"
      /\ \A j \in Relays : j # k => r[j] = page[p][j]
  BY <1>1, <1>a, <1>b, PageSound, SoundRelay
<1>4. page = [q \in Pages |-> page[q]] /\ PagesSound /\ SlotsHeld /\ Surroundings
  BY DEF RaceInv
<1>5. /\ page' = [q \in Pages |-> page'[q]]
      /\ page'[p] = r /\ \A q \in Pages : q # p => page'[q] = page[q]
  BY <1>2, <1>4
<1>6. PagesSound'
  BY <1>3, <1>4, <1>5 DEF PagesSound
<1>7. slots' = slots \cup {<<p, k>>}
  BY DEF RelayOpens
<1>8. SlotsHeld'
  BY <1>3, <1>4, <1>5, <1>7 DEF SlotsHeld, Holds
<1>9. Surroundings'
  <2>1. Drained({<<p, k>>}) \in [Ends -> Seq(Nat)]
    BY <1>4, DrainedType DEF Surroundings
  <2>2. wire' \in [Ends -> Seq(Nat)]
    BY <2>1, FrameToType DEF RelayOpens, Hello
  <2> QED
    BY <1>4, <1>7, <2>2 DEF Surroundings, RelayOpens, Calm, Ends
<1> QED
  BY <1>2, <1>3, <1>5, <1>6, <1>8, <1>9, BecameSame DEF RaceInv

LEMMA OpenFailsSound ==
  ASSUME RaceInv, NEW p \in Pages, NEW k \in Relays, OpenFails(p, k)
  PROVE  RaceInv' /\ SameArrived
<1>1. PICK r : r = [page[p] EXCEPT ![k] = "gone"]
  OBVIOUS
<1>2. page[p][k] = "opening"
  BY DEF OpenFails
<1>a. page[p][k] # "closed" /\ (k = "lp" => page[p].lp # "off") /\ (k = "ws" => page[p].ws # "gone")
  BY <1>2
<1>b. "gone" \in InnerStates
  BY DEF InnerStates
<1>3. Sound(r) /\ r.arrived = page[p].arrived /\ r[k] = "gone"
  BY <1>1, <1>a, <1>b, PageSound, SoundRelay
<1>4. PICK c : c = InnerDisconnected(r, k)
  OBVIOUS
<1>5. Sound(c) /\ c.arrived = page[p].arrived
  BY <1>3, <1>4, DisconnectedSound DEF Inners
<1>6. Became(p, c) /\ said' = said /\ channel' = channel
  BY <1>1, <1>4 DEF OpenFails
<1>7. said' \in [Pages -> Nat]
  BY <1>6 DEF RaceInv, Surroundings
<1>8. page' = [page EXCEPT ![p] = c]
  BY <1>6 DEF Became
<1> QED
  BY <1>5, <1>6, <1>7, <1>8, BecameSound, BecameSame

LEMMA NoticesSound ==
  ASSUME RaceInv, NEW p \in Pages, NEW k \in Relays, Notices(p, k)
  PROVE  RaceInv' /\ SameArrived
<1>1. PICK r : r = [page[p] EXCEPT ![k] = "gone"]
  OBVIOUS
<1>2. page[p][k] \in {"open", "live"}
  BY DEF Notices, Holds
<1>a. page[p][k] # "closed" /\ (k = "lp" => page[p].lp # "off") /\ (k = "ws" => page[p].ws # "gone")
  BY <1>2
<1>b. "gone" \in InnerStates
  BY DEF InnerStates
<1>3. Sound(r) /\ r.arrived = page[p].arrived /\ r[k] = "gone"
  BY <1>1, <1>a, <1>b, PageSound, SoundRelay
<1>4. PICK c : c = IF page[p][k] = "live" THEN InnerTransient(r, k)
                   ELSE InnerDisconnected(r, k)
  OBVIOUS
<1>5. Sound(c) /\ c.arrived = page[p].arrived
  BY <1>3, <1>4, DisconnectedSound, TransientSound DEF Inners
<1>6. Became(p, c) /\ said' = said /\ channel' = channel
  BY <1>1, <1>4 DEF Notices, Calm
<1>7. said' \in [Pages -> Nat]
  BY <1>6 DEF RaceInv, Surroundings
<1>8. page' = [page EXCEPT ![p] = c]
  BY <1>6 DEF Became
<1> QED
  BY <1>5, <1>6, <1>7, <1>8, BecameSound, BecameSame

LEMMA ReopensSound ==
  ASSUME RaceInv, NEW p \in Pages, Reopens(p)
  PROVE  RaceInv' /\ SameArrived
<1>1. PICK k : k = page[p].winner
  OBVIOUS
<1>2. PICK r : r = [page[p] EXCEPT ![k] = "opening"]
  OBVIOUS
<1>3. /\ page' = [page EXCEPT ![p] = r] /\ page[p][k] = "gone"
      /\ slots' = slots /\ wire' = wire /\ channel' = channel /\ said' = said
  BY <1>1, <1>2 DEF Reopens, Calm
<1>4. CASE k \in Relays
  <2>a. /\ page[p][k] # "closed" /\ (k = "lp" => page[p].lp # "off")
        /\ page[p].winner # "none" /\ "opening" \in InnerStates
    BY <1>1, <1>3, <1>4 DEF Relays, InnerStates
  <2>1. /\ Sound(r) /\ r.arrived = page[p].arrived
        /\ \A j \in Relays : j # k => r[j] = page[p][j]
    BY <1>2, <1>4, <2>a, PageSound, SoundRelay
  <2>2. \A j \in Relays : Holds(page[p], j) => Holds(r, j)
    BY <1>3, <2>1 DEF Holds
  <2> QED
    BY <1>3, <2>1, <2>2, PageChanges, BecameSame DEF RaceInv, Surroundings
<1>5. k \in Relays
  BY <1>1, PageSound DEF Reopens, Sound, OneRelay
<1> QED
  BY <1>4, <1>5

LEMMA ConnectedKeeps ==
  ASSUME NEW r \in TransportState, NEW k \in Relays
  PROVE  InnerConnected(r, k).ws = r.ws /\ InnerConnected(r, k).lp = r.lp
<1>1. PICK c : c = InnerConnected(r, k)
  OBVIOUS
<1>2. \/ c = r
      \/ c = [r EXCEPT !.reconnecting = FALSE, !.app = "connected"]
      \/ c = [r EXCEPT !.timer = k]
  BY <1>1 DEF InnerConnected, Relays
<1>3. c.ws = r.ws /\ c.lp = r.lp
  BY <1>2 DEF TransportState
<1> QED
  BY <1>1, <1>3

LEMMA FrameSound ==
  ASSUME RaceInv, NEW p \in Pages, NEW k \in Relays, RelayFrame(p, k)
  PROVE  RaceInv' /\ (Head(wire[<<p, k>>]) = Hello => SameArrived)
<1>0. <<p, k>> \in slots /\ Holds(page[p], k) /\ <<p, k>> \in Ends
  BY DEF RelayFrame, RaceInv, SlotsHeld, Ends
<1>1. PICK frame : frame = Head(wire[<<p, k>>])
  OBVIOUS
<1>2. PICK rest : rest = [wire EXCEPT ![<<p, k>>] = Tail(wire[<<p, k>>])]
  OBVIOUS
<1>3. wire \in [Ends -> Seq(Nat)] /\ wire[<<p, k>>] # <<>> /\ Surroundings
  BY DEF RelayFrame, RaceInv, Surroundings
<1>4. frame \in Nat /\ Tail(wire[<<p, k>>]) \in Seq(Nat)
  BY <1>0, <1>1, <1>3, HeadTailProperties
<1>5. rest \in [Ends -> Seq(Nat)]
  BY <1>2, <1>3, <1>4
<1>6. slots' = slots /\ said' = said /\ channel' = channel
  BY DEF RelayFrame, Calm
<1>7. wire' \in [Ends -> Seq(Nat)]
  <2>1. wire' = rest \/ wire' = FrameTo(Partner(<<p, k>>), rest, Hello)
    BY <1>2 DEF RelayFrame
  <2> QED
    BY <1>5, <2>1, FrameToType DEF Hello
<1>8. Surroundings'
  BY <1>3, <1>6, <1>7 DEF Surroundings
<1>9. CASE frame = Hello /\ page[p][k] = "open"
  <2>1. PICK r : r = [page[p] EXCEPT ![k] = "live"]
    OBVIOUS
  <2>2. page[p][k] # "closed" /\ (k = "lp" => page[p].lp # "off") /\ (k = "ws" => page[p].ws # "gone")
    BY <1>9
  <2>3. "live" \in InnerStates
    BY DEF InnerStates
  <2>4. /\ Sound(r) /\ r.arrived = page[p].arrived /\ r[k] = "live"
        /\ \A j \in Relays : j # k => r[j] = page[p][j]
    BY <2>1, <2>2, <2>3, PageSound, SoundRelay
  <2>5. PICK met : met = InnerConnected(r, k)
    OBVIOUS
  <2>6. Sound(met) /\ met.arrived = page[p].arrived
    BY <2>4, <2>5, ConnectedSound DEF Inners
  <2>7. met.ws = r.ws /\ met.lp = r.lp
    BY <2>4, <2>5, ConnectedKeeps DEF Sound
  <2>8. \A j \in Relays : Holds(page[p], j) => Holds(met, j)
    BY <2>4, <2>7 DEF Holds, Relays
  <2>9. page' = [page EXCEPT ![p] = met]
    BY <1>1, <1>9, <2>1, <2>5 DEF RelayFrame, Hello
  <2> QED
    BY <1>1, <1>6, <1>8, <2>6, <2>8, <2>9, PageChanges, BecameSame DEF RaceInv
<1>10. CASE frame = Hello /\ page[p][k] # "open"
  <2>1. page' = page
    BY <1>1, <1>10 DEF RelayFrame
  <2> QED
    BY <1>6, <1>8, <2>1 DEF RaceInv, PagesSound, SlotsHeld, SameArrived
<1>11. CASE frame # Hello
  <2>1. PICK r : r = InnerMessage(page[p], k, frame)
    OBVIOUS
  <2>2. page' = [page EXCEPT ![p] = r]
    BY <1>1, <1>11, <2>1 DEF RelayFrame
  <2>a. Sound(page[p]) /\ k \in Inners
    BY PageSound DEF Inners
  <2>3. Sound(r) /\ r.ws = page[p].ws /\ r.lp = page[p].lp
    BY Zenon, <1>4, <2>1, <2>a, MessageSound
  <2>4. \A j \in Relays : Holds(page[p], j) => Holds(r, j)
    BY <2>3 DEF Holds, Relays
  <2> QED
    BY <1>1, <1>6, <1>8, <1>11, <2>2, <2>3, <2>4, PageChanges DEF RaceInv
<1> QED
  BY <1>9, <1>10, <1>11

LEMMA ChannelFrameSound ==
  ASSUME RaceInv, NEW p \in Pages, ChannelFrame(p)
  PROVE  RaceInv'
<1>1. channel \in [Pages -> Seq(Nat)] /\ channel[p] # <<>> /\ Surroundings
  BY DEF ChannelFrame, RaceInv, Surroundings
<1>2. Head(channel[p]) \in Nat /\ Tail(channel[p]) \in Seq(Nat)
  BY <1>1, HeadTailProperties
<1>3. PICK r : r = InnerMessage(page[p], "rtc", Head(channel[p]))
  OBVIOUS
<1>4. page' = [page EXCEPT ![p] = r] /\ slots' = slots /\ wire' = wire /\ said' = said
      /\ channel' = [channel EXCEPT ![p] = Tail(channel[p])]
  BY <1>3 DEF ChannelFrame, Calm
<1>a. Sound(page[p]) /\ "rtc" \in Inners
  BY PageSound DEF Inners
<1>5. Sound(r) /\ r.ws = page[p].ws /\ r.lp = page[p].lp
  BY <1>2, <1>3, <1>a, MessageSound
<1>6. \A j \in Relays : Holds(page[p], j) => Holds(r, j)
  BY <1>5 DEF Holds, Relays
<1>7. Surroundings'
  BY <1>1, <1>2, <1>4 DEF Surroundings
<1> QED
  BY <1>4, <1>5, <1>6, <1>7, PageChanges DEF RaceInv

\* Nothing but slots that go away and frames that are lost.
LEMMA TornDown ==
  ASSUME RaceInv, page' = page, slots' \subseteq slots,
         wire' \in [Ends -> Seq(Nat)], channel' = channel, said' = said
  PROVE  RaceInv' /\ SameArrived
  BY DEF RaceInv, Surroundings, PagesSound, SlotsHeld, SameArrived

LEMMA RelaySound ==
  ASSUME RaceInv, RelayDrops \/ \E p \in Pages : StrayExpires(p) \/ Hide(p)
  PROVE  RaceInv' /\ SameArrived
<1>1. wire \in [Ends -> Seq(Nat)] /\ Drained(Ends) \in [Ends -> Seq(Nat)]
  BY DrainedType DEF RaceInv, Surroundings
<1>2. /\ page' = page /\ slots' \subseteq slots
      /\ wire' \in {wire, Drained(Ends)} /\ channel' = channel /\ said' = said
  BY DEF RelayDrops, StrayExpires, Hide, Calm
<1> QED
  BY <1>1, <1>2, TornDown

LEMMA StrayClaimsSound ==
  ASSUME RaceInv, NEW p \in Pages, StrayClaims(p)
  PROVE  RaceInv' /\ SameArrived
<1>1. /\ page' = page /\ slots' = slots \cup {<<p, "stray">>}
      /\ wire' = wire /\ channel' = channel /\ said' = said
  BY DEF StrayClaims, Calm
<1>2. Surroundings'
  BY <1>1 DEF RaceInv, Surroundings, Ends
<1>3. \A q \in Pages, k \in Relays : <<q, k>> \in slots' => <<q, k>> \in slots
  BY <1>1 DEF Relays
<1> QED
  BY <1>1, <1>2, <1>3 DEF RaceInv, PagesSound, SlotsHeld, SameArrived

LEMMA TimerFiresSound ==
  ASSUME RaceInv, NEW p \in Pages, TimerFires(p)
  PROVE  RaceInv' /\ SameArrived
<1>1. PICK c : c = Lock(page[p], page[p].timer)
  OBVIOUS
<1>2. page[p].timer \in Inners /\ page[p].winner = "none"
  BY PageSound DEF TimerFires, TransportState, Inners
<1>3. Sound(c) /\ c.arrived = page[p].arrived
  BY <1>1, <1>2, PageSound, LockSound
<1>4. Became(p, c) /\ said' = said /\ channel' = channel
  BY <1>1 DEF TimerFires, Calm
<1>5. said' \in [Pages -> Nat] /\ page' = [page EXCEPT ![p] = c]
  BY <1>4 DEF RaceInv, Surroundings, Became
<1> QED
  BY <1>3, <1>4, <1>5, BecameSound, BecameSame

\* A change of a transport that has no part in its relays and messages.
SameRelays(r, s) ==
  /\ s.winner = r.winner /\ s.ws = r.ws /\ s.lp = r.lp
  /\ s.pending = r.pending /\ s.arrived = r.arrived /\ s.heard = r.heard
  /\ s.reconnecting = r.reconnecting

\* The callbacks of the data channel; s is the transport they are called on.
LEMMA RtcCallback ==
  ASSUME RaceInv, NEW p \in Pages, NEW s, Sound(s), s.arrived = page[p].arrived,
         Became(p, InnerConnected(s, "rtc")) \/ Became(p, InnerDisconnected(s, "rtc")),
         said' = said, channel' = channel
  PROVE  RaceInv' /\ SameArrived
<1>1. PICK c : /\ c \in {InnerConnected(s, "rtc"), InnerDisconnected(s, "rtc")}
               /\ Became(p, c)
  OBVIOUS
<1>2. "rtc" \in Inners
  BY DEF Inners
<1>3. Sound(c) /\ c.arrived = page[p].arrived
  BY <1>1, <1>2, ConnectedSound, DisconnectedSound
<1>4. said' \in [Pages -> Nat] /\ page' = [page EXCEPT ![p] = c]
  BY <1>1 DEF RaceInv, Surroundings, Became
<1> QED
  BY <1>1, <1>3, <1>4, BecameSound, BecameSame

LEMMA RtcSound ==
  ASSUME RaceInv, NEW p \in Pages,
         RtcConnects(p) \/ RtcFails(p) \/ ConnectionTimeout(p) \/ GraceExpires(p)
  PROVE  RaceInv' /\ SameArrived
<1>1. Sound(page[p]) /\ page[p] \in TransportState
  BY PageSound
<1>2. CASE RtcConnects(p)
  <2>1. PICK s : s = [page[p] EXCEPT !.rtc = "connected", !.limit = "past", !.grace = "none"]
    OBVIOUS
  <2>2. s \in TransportState
    BY <1>1, <2>1 DEF TransportState, RtcStates
  <2>3. SameRelays(page[p], s)
    BY <1>1, <2>1 DEF TransportState, SameRelays
  <2>4. Sound(s) /\ s.arrived = page[p].arrived
    BY <1>1, <2>2, <2>3, SoundSame DEF SameRelays
  <2> QED
    BY <1>2, <2>1, <2>4, RtcCallback DEF RtcConnects, Calm
<1>3. CASE RtcFails(p)
  <2>1. PICK s : s = [page[p] EXCEPT !.rtc = "failed", !.limit = "past", !.grace = "none"]
    OBVIOUS
  <2>2. s \in TransportState
    BY <1>1, <2>1 DEF TransportState, RtcStates
  <2>3. SameRelays(page[p], s)
    BY <1>1, <2>1 DEF TransportState, SameRelays
  <2>4. Sound(s) /\ s.arrived = page[p].arrived
    BY <1>1, <2>2, <2>3, SoundSame DEF SameRelays
  <2> QED
    BY <1>3, <2>1, <2>4, RtcCallback DEF RtcFails, Calm
<1>4. CASE ConnectionTimeout(p)
  <2>1. PICK s : s = [page[p] EXCEPT !.limit = "past"]
    OBVIOUS
  <2>2. s \in TransportState
    BY <1>1, <2>1 DEF TransportState
  <2>3. SameRelays(page[p], s)
    BY <1>1, <2>1 DEF TransportState, SameRelays
  <2>4. Sound(s) /\ s.arrived = page[p].arrived
    BY <1>1, <2>2, <2>3, SoundSame DEF SameRelays
  <2> QED
    BY <1>4, <2>1, <2>4, RtcCallback DEF ConnectionTimeout, Calm
<1>5. CASE GraceExpires(p)
  <2>1. PICK s : s = [page[p] EXCEPT !.grace = "none"]
    OBVIOUS
  <2>2. s \in TransportState
    BY <1>1, <2>1 DEF TransportState
  <2>3. SameRelays(page[p], s)
    BY <1>1, <2>1 DEF TransportState, SameRelays
  <2>4. Sound(s) /\ s.arrived = page[p].arrived
    BY <1>1, <2>2, <2>3, SoundSame DEF SameRelays
  <2> QED
    BY <1>5, <2>1, <2>4, RtcCallback DEF GraceExpires, Calm
<1> QED
  BY <1>2, <1>3, <1>4, <1>5

\* Changes of a page that its relay transports have no part in.
LEMMA ElsewhereSound ==
  ASSUME RaceInv, NEW p \in Pages, NEW s \in TransportState,
         SameRelays(page[p], s), page' = [page EXCEPT ![p] = s],
         slots' = slots, wire' = wire, channel' = channel, said' = said
  PROVE  RaceInv' /\ SameArrived
<1>1. Sound(s)
  BY PageSound, SoundSame DEF SameRelays
<1>2. \A k \in Relays : Holds(page[p], k) => Holds(s, k)
  BY DEF Holds, Relays, SameRelays
<1> QED
  BY <1>1, <1>2, PageChanges, BecameSame DEF RaceInv, Surroundings, SameRelays

LEMMA GraceSound ==
  ASSUME RaceInv, NEW p \in Pages, RtcDisconnects(p) \/ Show(p)
  PROVE  RaceInv' /\ SameArrived
<1>1. page[p] \in TransportState
  BY PageSound
<1>2. slots' = slots /\ wire' = wire /\ channel' = channel /\ said' = said
  BY DEF RtcDisconnects, Show, Calm
<1>3. CASE RtcDisconnects(p)
  <2>1. PICK s : s = ScheduleGrace([page[p] EXCEPT !.rtc = "disconnected"], hidden[p])
    OBVIOUS
  <2>2. page' = [page EXCEPT ![p] = s]
    BY <1>3, <2>1 DEF RtcDisconnects
  <2>3. PICK g : g = IF hidden[p] THEN "deferred" ELSE "armed"
    OBVIOUS
  <2>4. s = [page[p] EXCEPT !.rtc = "disconnected", !.grace = g]
    BY <1>1, <2>1, <2>3 DEF ScheduleGrace, TransportState
  <2>5. g \in {"none", "armed", "deferred"} /\ "disconnected" \in RtcStates
    BY <2>3 DEF RtcStates
  <2>6. s \in TransportState
    BY <1>1, <2>4, <2>5 DEF TransportState
  <2>7. SameRelays(page[p], s)
    BY <1>1, <2>4 DEF TransportState, SameRelays
  <2> QED
    BY <1>2, <2>2, <2>6, <2>7, ElsewhereSound
<1>4. CASE Show(p)
  <2>1. PICK b : b = (page[p].rtc \in {"failed", "disconnected"})
    OBVIOUS
  <2>2. PICK r : r = [page[p] EXCEPT !.recheck = b]
    OBVIOUS
  <2>a. b \in BOOLEAN
    BY <2>1
  <2>3. r \in TransportState
    BY <1>1, <2>2, <2>a DEF TransportState
  <2>4. PICK s : s = IF r.grace = "deferred" THEN ScheduleGrace(r, FALSE) ELSE r
    OBVIOUS
  <2>5. page' = [page EXCEPT ![p] = s]
    BY <1>4, <2>1, <2>2, <2>4 DEF Show
  <2>6. s = r \/ s = [r EXCEPT !.grace = "armed"]
    BY <2>4 DEF ScheduleGrace
  <2>7. s \in TransportState
    <3>1. CASE s = [r EXCEPT !.grace = "armed"]
      BY <2>3, <3>1 DEF TransportState
    <3> QED
      BY <2>3, <2>6, <3>1
  <2>8. SameRelays(page[p], s)
    <3>1. SameRelays(page[p], r)
      BY <1>1, <2>2 DEF TransportState, SameRelays
    <3>2. SameRelays(r, s)
      BY <2>3, <2>6 DEF TransportState, SameRelays
    <3> QED
      BY <3>1, <3>2 DEF SameRelays
  <2> QED
    BY <1>2, <2>5, <2>7, <2>8, ElsewhereSound
<1> QED
  BY <1>3, <1>4

LEMMA RtcJoinsSound ==
  ASSUME RaceInv, RtcJoins
  PROVE  RaceInv' /\ SameArrived
<1>1. PICK rtc : rtc = [p \in Pages |-> IF p = "sender" THEN "checking" ELSE page[p].rtc]
  OBVIOUS
<1>2. PICK limit : limit = [p \in Pages |-> IF p = "sender" \/ page[p].rtc # "closed"
                                            THEN "armed" ELSE page[p].limit]
  OBVIOUS
<1>3. ASSUME NEW p \in Pages
      PROVE  page'[p] = [page[p] EXCEPT !.rtc = rtc[p], !.limit = limit[p]]
  <2>1. page[p] \in TransportState
    BY PageSound
  <2> QED
    BY <1>1, <1>2, <2>1 DEF RtcJoins, TransportState, Pages
<1>4. ASSUME NEW p \in Pages
      PROVE  Sound(page'[p]) /\ page'[p].arrived = page[p].arrived
             /\ page'[p].ws = page[p].ws /\ page'[p].lp = page[p].lp
  <2>1. page[p] \in TransportState /\ Sound(page[p])
    BY PageSound
  <2>2. PICK s : s = [page[p] EXCEPT !.rtc = rtc[p], !.limit = limit[p]]
    OBVIOUS
  <2>3. rtc[p] \in RtcStates /\ limit[p] \in {"off", "armed", "past"}
    BY <1>1, <1>2, <2>1 DEF TransportState, RtcStates
  <2>4. s \in TransportState
    BY <2>1, <2>2, <2>3 DEF TransportState
  <2>5. /\ s.winner = page[p].winner /\ s.ws = page[p].ws /\ s.lp = page[p].lp
        /\ s.pending = page[p].pending /\ s.arrived = page[p].arrived /\ s.heard = page[p].heard
        /\ s.reconnecting = page[p].reconnecting
    BY <2>1, <2>2 DEF TransportState
  <2> QED
    BY <1>3, <2>1, <2>2, <2>4, <2>5, SoundSame
<1>5. page' = [q \in Pages |-> page'[q]]
  <2> DEFINE Joined(p) ==
        CASE p = "sender" -> [page[p] EXCEPT !.rtc = "checking", !.limit = "armed"]
          [] p = "receiver" -> IF page[p].rtc = "closed" THEN page[p]
                               ELSE [page[p] EXCEPT !.limit = "armed"]
  <2>1. page' = [p \in Pages |-> Joined(p)]
    BY DEF RtcJoins
  <2> HIDE DEF Joined
  <2> QED
    BY <2>1
<1>6. slots' = slots /\ wire' = wire /\ channel' = channel /\ said' = said
  BY DEF RtcJoins, Calm
<1>7. SlotsHeld'
  BY <1>4, <1>6 DEF RaceInv, SlotsHeld, Holds, Relays
<1> QED
  BY <1>4, <1>5, <1>6, <1>7 DEF RaceInv, Surroundings, PagesSound, SameArrived

LEMMA SaySound ==
  ASSUME RaceInv, NEW p \in Pages, Say(p)
  PROVE  RaceInv' /\ SameArrived
<1>1. PICK msg : msg = said[p] + 1
  OBVIOUS
<1>2. Surroundings /\ msg \in Nat
  BY <1>1 DEF RaceInv, Surroundings
<1>3. page' = page /\ slots' = slots /\ said' = [said EXCEPT ![p] = msg]
  BY <1>1 DEF Say
<1>4. wire' \in [Ends -> Seq(Nat)] /\ channel' \in [Pages -> Seq(Nat)]
  <2>1. CASE SayOnChannel(p, msg)
    <3>1. channel' = [channel EXCEPT ![Other(p)] = Append(channel[Other(p)], msg)] /\ wire' = wire
      BY <2>1 DEF SayOnChannel
    <3>2. Append(channel[Other(p)], msg) \in Seq(Nat)
      BY <1>2, PageFacts, AppendProperties DEF Surroundings
    <3> QED
      BY <1>2, <3>1, <3>2 DEF Surroundings
  <2>2. CASE \E k \in Relays : SayOnRelay(p, k, msg)
    <3>1. PICK k \in Relays : SayOnRelay(p, k, msg)
      BY <2>2
    <3>2. channel' = channel /\ wire' \in {wire, FrameTo(Partner(<<p, k>>), wire, msg)}
      BY <3>1 DEF SayOnRelay
    <3>3. wire \in [Ends -> Seq(Nat)] /\ channel \in [Pages -> Seq(Nat)]
      BY <1>2 DEF Surroundings
    <3>4. FrameTo(Partner(<<p, k>>), wire, msg) \in [Ends -> Seq(Nat)]
      BY <1>2, <3>3, FrameToType
    <3> QED
      BY <3>2, <3>3, <3>4
  <2> QED
    BY <1>1, <2>1, <2>2 DEF Say, SayOnWs, SayOnLp, Relays
<1> QED
  BY <1>2, <1>3, <1>4 DEF RaceInv, Surroundings, PagesSound, SlotsHeld, SameArrived

LEMMA ReplacesSound ==
  ASSUME RaceInv, NEW p \in Pages, Replaces(p)
  PROVE  /\ RaceInv'
         /\ page'[p].arrived = [k \in Inners |-> <<>>]
         /\ \A q \in Pages : q # p => page'[q] = page[q]
<1>1. PICK r : r = Transport(p, p = "sender", mode)
  OBVIOUS
<1>2. Sound(r) /\ r.arrived = [k \in Inners |-> <<>>]
  BY <1>1, TransportSound
<1>3. page' = [page EXCEPT ![p] = r] /\ channel' = [q \in Pages |-> <<>>] /\ said' = said
  BY <1>1 DEF Replaces
<1>4. page = [q \in Pages |-> page[q]] /\ PagesSound /\ SlotsHeld /\ Surroundings
  BY DEF RaceInv
<1>5. /\ page' = [q \in Pages |-> page'[q]]
      /\ page'[p] = r /\ \A q \in Pages : q # p => page'[q] = page[q]
  BY <1>3, <1>4
<1>6. \/ slots' = {}
      \/ slots' = slots /\ ~ \E e \in slots : e[1] = p /\ e[2] \in Relays
  BY DEF Replaces
<1>7. SlotsHeld'
  BY <1>4, <1>5, <1>6 DEF SlotsHeld
<1>8. Surroundings'
  <2>1. wire' \in [Ends -> Seq(Nat)]
    BY <1>4, DrainedType DEF Replaces, Surroundings
  <2>2. channel' \in [Pages -> Seq(Nat)] /\ slots' \subseteq Ends
    BY <1>3, <1>4, <1>6 DEF Surroundings
  <2> QED
    BY <1>3, <1>4, <2>1, <2>2 DEF Surroundings
<1> QED
  BY <1>2, <1>4, <1>5, <1>7, <1>8 DEF RaceInv, PagesSound

\* The steps at which something arrives.
Arrivals ==
  \E p \in Pages : \/ \E k \in Relays : RelayFrame(p, k)
                   \/ ChannelFrame(p) \/ Replaces(p)

LEMMA RaceStep ==
  ASSUME RaceInv, [Next]_vars
  PROVE  RaceInv' /\ (~Arrivals => SameArrived)
<1>1. CASE Next
  <2>1. CASE RtcJoins \/ RelayDrops
    BY <2>1, RtcJoinsSound, RelaySound
  <2>2. ASSUME NEW p \in Pages,
               \/ LpStarts(p) \/ Reopens(p) \/ TimerFires(p) \/ StrayClaims(p) \/ StrayExpires(p)
               \/ WsOpens(p) \/ LpOpens(p) \/ WsCloses(p) \/ LpCloses(p)
               \/ WsRefused(p) \/ LpRefused(p) \/ Hide(p) \/ Say(p)
        PROVE  RaceInv' /\ SameArrived
    <3>1. CASE LpStarts(p) \/ Reopens(p) \/ TimerFires(p) \/ StrayClaims(p) \/ StrayExpires(p)
      BY <3>1, LpStartsSound, ReopensSound, TimerFiresSound, StrayClaimsSound, RelaySound
    <3>2. CASE WsOpens(p) \/ LpOpens(p) \/ WsCloses(p) \/ LpCloses(p) \/ WsRefused(p) \/ LpRefused(p)
      BY <3>2, RelayOpensSound, NoticesSound, OpenFailsSound
         DEF WsOpens, LpOpens, WsCloses, LpCloses, WsRefused, LpRefused, Relays
    <3>3. CASE Hide(p) \/ Say(p)
      BY <3>3, RelaySound, SaySound
    <3> QED
      BY <2>2, <3>1, <3>2, <3>3
  <2>3. ASSUME NEW p \in Pages,
               \/ RtcConnects(p) \/ RtcFails(p) \/ ConnectionTimeout(p) \/ GraceExpires(p)
               \/ RtcDisconnects(p) \/ Show(p)
        PROVE  RaceInv' /\ SameArrived
    BY <2>3, RtcSound, GraceSound
  <2>4. ASSUME NEW p \in Pages,
               WsHears(p) \/ LpHears(p) \/ ChannelFrame(p) \/ Replaces(p)
        PROVE  RaceInv' /\ Arrivals
    BY <2>4, FrameSound, ChannelFrameSound, ReplacesSound
       DEF WsHears, LpHears, Relays, Arrivals
  <2> QED
    BY <1>1, <2>1, <2>2, <2>3, <2>4 DEF Next, Works
<1>2. CASE UNCHANGED vars
  BY <1>2 DEF vars, RaceInv, Surroundings, PagesSound, SlotsHeld, SameArrived
<1> QED
  BY <1>1, <1>2

LEMMA RaceInit == Init => RaceInv
<1> SUFFICES ASSUME Init PROVE RaceInv
  OBVIOUS
<1>1. page = [p \in Pages |-> Transport(p, TRUE, mode)]
  BY DEF Init
<1>2. PagesSound
  BY <1>1, TransportSound DEF PagesSound
<1>3. Surroundings /\ SlotsHeld
  BY DEF Init, Surroundings, SlotsHeld
<1> QED
  BY <1>1, <1>2, <1>3 DEF RaceInv

(* A page holds one slot of the relay at most, its winner's once there is one:
   it is never paired with itself and never keeps its peer out with a second
   slot, whatever connects, breaks and is replaced in whatever order
   (_lockWinner, _spawnLp, InnerDisconnected in transport.js). *)
THEOREM OneSlotEach == Spec => []OneSlotPerPage
<1>1. Init => RaceInv
  BY RaceInit
<1>2. RaceInv /\ [Next]_vars => RaceInv'
  BY RaceStep
<1>3. RaceInv => OneSlotPerPage
  BY InvGives
<1> QED
  BY <1>1, <1>2, <1>3, PTL DEF Spec

-----------------------------------------------------------------------------
(* Frames arrive in the order in which they were sent.                     *)

\* The messages of w are increasing, newer than n messages that came before
\* them, and sent already; hellos may be anywhere.
Ordered(w, n, top) ==
  \A i \in 1 .. Len(w) : w[i] # Hello =>
    /\ n < w[i] /\ w[i] <= top
    /\ \A j \in 1 .. i - 1 : w[j] < w[i]

LEMMA OrderedNone == \A n, top : Ordered(<<>>, n, top)
  BY DEF Ordered

LEMMA OrderedLess ==
  ASSUME NEW w \in Seq(Nat), NEW n \in Nat, NEW top \in Nat, Ordered(w, n, top),
         NEW m \in Nat, m <= n, NEW newTop \in Nat, top <= newTop
  PROVE  Ordered(w, m, newTop)
<1>1. \A i \in 1 .. Len(w) : w[i] \in Nat
  OBVIOUS
<1> QED
  BY <1>1 DEF Ordered

LEMMA OrderedHello ==
  ASSUME NEW w \in Seq(Nat), NEW n \in Nat, NEW top \in Nat, Ordered(w, n, top)
  PROVE  Ordered(Append(w, Hello), n, top)
<1>1. /\ Len(Append(w, Hello)) = Len(w) + 1 /\ Len(w) \in Nat
      /\ Append(w, Hello)[Len(w) + 1] = Hello
      /\ \A i \in 1 .. Len(w) : Append(w, Hello)[i] = w[i]
  BY AppendProperties, LenProperties DEF Hello
<1> QED
  BY <1>1 DEF Ordered

LEMMA OrderedNext ==
  ASSUME NEW w \in Seq(Nat), NEW n \in Nat, NEW top \in Nat, Ordered(w, n, top), n <= top
  PROVE  Ordered(Append(w, top + 1), n, top + 1)
<1>1. PICK v : v = Append(w, top + 1)
  OBVIOUS
<1>2. /\ Len(v) = Len(w) + 1 /\ Len(w) \in Nat
      /\ v[Len(w) + 1] = top + 1
      /\ \A i \in 1 .. Len(w) : v[i] = w[i] /\ w[i] \in Nat
  BY <1>1, AppendProperties, LenProperties
<1>3. \A i \in 1 .. Len(w) : w[i] <= top
  BY <1>2 DEF Ordered, Hello
<1>4. ASSUME NEW i \in 1 .. Len(v), v[i] # Hello
      PROVE  n < v[i] /\ v[i] <= top + 1 /\ \A j \in 1 .. i - 1 : v[j] < v[i]
  <2>1. CASE i = Len(w) + 1
    BY <1>2, <1>3, <2>1
  <2>2. CASE i # Len(w) + 1
    <3>1. i \in 1 .. Len(w)
      BY <1>2, <2>2
    <3>2. v[i] = w[i] /\ n < w[i] /\ w[i] <= top /\ \A j \in 1 .. i - 1 : w[j] < w[i]
      BY <1>2, <1>4, <3>1 DEF Ordered
    <3>3. \A j \in 1 .. i - 1 : j \in 1 .. Len(w) /\ v[j] = w[j]
      BY <1>2, <3>1
    <3> QED
      BY <1>2, <3>1, <3>2, <3>3
  <2> QED
    BY <2>1, <2>2
<1> QED
  BY <1>1, <1>4 DEF Ordered

LEMMA OrderedTail ==
  ASSUME NEW w \in Seq(Nat), w # <<>>, NEW n \in Nat, NEW top \in Nat, Ordered(w, n, top)
  PROVE  /\ Ordered(Tail(w), n, top)
         /\ Head(w) # Hello => n + 1 <= top /\ Ordered(Tail(w), n + 1, top)
<1>1. PICK v : v = Tail(w)
  OBVIOUS
<1>2. /\ v \in Seq(Nat) /\ Len(v) = Len(w) - 1 /\ Len(w) \in Nat \ {0} /\ Head(w) = w[1]
      /\ \A i \in 1 .. Len(v) : v[i] = w[i + 1] /\ v[i] \in Nat
      /\ w[1] \in Nat
  BY <1>1, HeadTailProperties, LenProperties
<1>3. ASSUME NEW i \in 1 .. Len(v), v[i] # Hello
      PROVE  /\ n < v[i] /\ v[i] <= top /\ w[1] < v[i]
             /\ \A j \in 1 .. i - 1 : v[j] < v[i]
  <2>1. i + 1 \in 1 .. Len(w) /\ w[i + 1] = v[i] /\ 1 \in 1 .. (i + 1) - 1
    BY <1>2
  <2>2. n < v[i] /\ v[i] <= top /\ \A j \in 1 .. (i + 1) - 1 : w[j] < v[i]
    BY <1>3, <2>1 DEF Ordered
  <2>3. ASSUME NEW j \in 1 .. i - 1 PROVE v[j] < v[i]
    <3>1. j \in 1 .. Len(v) /\ j + 1 \in 1 .. (i + 1) - 1
      BY <1>2
    <3> QED
      BY <1>2, <2>2, <3>1
  <2> QED
    BY <2>1, <2>2, <2>3
<1>4. Head(w) # Hello => n < w[1] /\ w[1] <= top
  BY <1>2 DEF Ordered
<1> QED
  BY <1>1, <1>2, <1>3, <1>4 DEF Ordered

Came(p, k) == Len(page[p].arrived[k])

InOrder ==
  \A p \in Pages :
    /\ \A k \in Relays : Ordered(wire[<<p, k>>], Came(p, k), said[Other(p)])
    /\ Ordered(channel[p], Came(p, "rtc"), said[Other(p)])
    /\ \A i \in 1 .. Len(channel[p]) : channel[p][i] # Hello
    /\ \A k \in Inners : Came(p, k) <= said[Other(p)]
    /\ said[p] <= MaxSaid

LEMMA Counted ==
  ASSUME RaceInv, NEW p \in Pages
  PROVE  /\ \A k \in Inners : Came(p, k) \in Nat /\ page[p].arrived[k] \in Seq(Nat)
         /\ \A k \in Relays : <<p, k>> \in Ends /\ wire[<<p, k>>] \in Seq(Nat)
         /\ channel[p] \in Seq(Nat)
         /\ said[p] \in Nat /\ said[Other(p)] \in Nat
<1>1. page[p].arrived \in [Inners -> Seq(Nat)]
  BY PageSound DEF TransportState
<1>2. \A k \in Inners : Came(p, k) \in Nat /\ page[p].arrived[k] \in Seq(Nat)
  BY <1>1, LenProperties DEF Came
<1> QED
  BY <1>2, PageFacts DEF RaceInv, Surroundings, Ends

LEMMA SameCame ==
  ASSUME SameArrived, NEW p \in Pages
  PROVE  \A k \in Inners : Came(p, k)' = Came(p, k)
  BY DEF SameArrived, Came

\* What can happen to the frames on a way at which nothing arrives.
Extended(v, w) == v \in {w, <<>>, Append(w, Hello), Append(<<>>, Hello)}

LEMMA ExtendedOrdered ==
  ASSUME NEW w \in Seq(Nat), NEW v, Extended(v, w), NEW n \in Nat, NEW top \in Nat,
         Ordered(w, n, top)
  PROVE  Ordered(v, n, top)
<1>1. Ordered(<<>>, n, top) /\ <<>> \in Seq(Nat)
  BY OrderedNone
<1>2. Ordered(Append(<<>>, Hello), n, top) /\ Ordered(Append(w, Hello), n, top)
  BY <1>1, OrderedHello
<1> QED
  BY <1>1, <1>2 DEF Extended

LEMMA QuietInOrder ==
  ASSUME RaceInv, InOrder, SameArrived, said' = said, channel' = channel,
         \A e \in Ends : Extended(wire'[e], wire[e])
  PROVE  InOrder'
<1> SUFFICES ASSUME NEW p \in Pages
             PROVE  /\ \A k \in Relays : Ordered(wire'[<<p, k>>], Came(p, k)', said'[Other(p)])
                    /\ Ordered(channel'[p], Came(p, "rtc")', said'[Other(p)])
                    /\ \A i \in 1 .. Len(channel'[p]) : channel'[p][i] # Hello
                    /\ \A k \in Inners : Came(p, k)' <= said'[Other(p)]
                    /\ said'[p] <= MaxSaid
  BY DEF InOrder
<1>1. \A k \in Inners : Came(p, k)' = Came(p, k)
  BY SameCame
<1>2. \A k \in Relays : Ordered(wire'[<<p, k>>], Came(p, k), said[Other(p)])
  BY Counted, ExtendedOrdered DEF InOrder, Inners
<1> QED
  BY <1>1, <1>2 DEF InOrder, Inners

LEMMA DrainedExtends ==
  ASSUME NEW f, NEW e \in Ends
  PROVE  Drained(f)[e] \in {wire[e], <<>>}
  BY DEF Drained

LEMMA QuietSteps ==
  ASSUME RaceInv, [Next]_vars, ~Arrivals, ~ \E p \in Pages : Say(p)
  PROVE  /\ said' = said /\ channel' = channel
         /\ \A e \in Ends : Extended(wire'[e], wire[e])
<1>1. ASSUME wire' \in {wire, Drained(Ends)}
      PROVE  \A e \in Ends : Extended(wire'[e], wire[e])
  BY <1>1, DrainedExtends DEF Extended
<1>2. ASSUME NEW p \in Pages, NEW r, Became(p, r)
      PROVE  wire' \in {wire, Drained(Ends)}
  BY <1>2 DEF Became
<1>3. CASE RtcJoins \/ RelayDrops \/ UNCHANGED vars
  BY <1>1, <1>3 DEF RtcJoins, RelayDrops, Calm, vars
<1>4. ASSUME NEW p \in Pages, LpStarts(p) \/ Reopens(p) \/ StrayClaims(p) \/ StrayExpires(p)
                              \/ RtcDisconnects(p) \/ Show(p) \/ Hide(p)
      PROVE  said' = said /\ channel' = channel /\ wire' \in {wire, Drained(Ends)}
  BY <1>4 DEF LpStarts, Reopens, StrayClaims, StrayExpires, RtcDisconnects, Show, Hide, Calm
<1>5. ASSUME NEW p \in Pages, TimerFires(p) \/ RtcConnects(p) \/ RtcFails(p)
                              \/ ConnectionTimeout(p) \/ GraceExpires(p)
      PROVE  said' = said /\ channel' = channel /\ wire' \in {wire, Drained(Ends)}
  BY <1>2, <1>5 DEF TimerFires, RtcConnects, RtcFails, ConnectionTimeout, GraceExpires, Calm
<1>6. ASSUME NEW p \in Pages, WsCloses(p) \/ LpCloses(p) \/ WsRefused(p) \/ LpRefused(p)
      PROVE  said' = said /\ channel' = channel /\ wire' \in {wire, Drained(Ends)}
  BY <1>2, <1>6 DEF WsCloses, LpCloses, WsRefused, LpRefused, Notices, OpenFails, Calm
<1>7. ASSUME NEW p \in Pages, NEW k \in Relays, RelayOpens(p, k)
      PROVE  /\ said' = said /\ channel' = channel
             /\ \A e \in Ends : Extended(wire'[e], wire[e])
  <2>1. PICK w : w = Drained({<<p, k>>})
    OBVIOUS
  <2>2. wire' = [e \in Ends |-> IF e \in slots THEN Append(w[e], Hello) ELSE w[e]]
    BY <1>7, <2>1 DEF RelayOpens, FrameTo
  <2>3. \A e \in Ends : w[e] \in {wire[e], <<>>}
    BY <2>1, DrainedExtends
  <2>4. \A e \in Ends : wire'[e] \in {w[e], Append(w[e], Hello)}
    BY <2>2
  <2>5. \A e \in Ends : Extended(wire'[e], wire[e])
    BY <2>3, <2>4 DEF Extended
  <2> QED
    BY <1>7, <2>5 DEF RelayOpens, Calm
<1>8. \/ RtcJoins \/ RelayDrops \/ UNCHANGED vars
      \/ \E p \in Pages :
           \/ LpStarts(p) \/ Reopens(p) \/ StrayClaims(p) \/ StrayExpires(p)
           \/ RtcDisconnects(p) \/ Show(p) \/ Hide(p)
           \/ TimerFires(p) \/ RtcConnects(p) \/ RtcFails(p)
           \/ ConnectionTimeout(p) \/ GraceExpires(p)
           \/ WsCloses(p) \/ LpCloses(p) \/ WsRefused(p) \/ LpRefused(p)
           \/ \E k \in Relays : RelayOpens(p, k)
  <2>1. "ws" \in Relays /\ "lp" \in Relays
    BY DEF Relays
  <2>2. \A p \in Pages : ~(WsHears(p) \/ LpHears(p) \/ ChannelFrame(p) \/ Replaces(p) \/ Say(p))
    BY <2>1 DEF Arrivals, WsHears, LpHears
  <2>3. \A p \in Pages : WsOpens(p) \/ LpOpens(p) => \E k \in Relays : RelayOpens(p, k)
    BY <2>1 DEF WsOpens, LpOpens
  <2> QED
    BY <2>2, <2>3 DEF Next, Works
<1> QED
  BY <1>1, <1>3, <1>4, <1>5, <1>6, <1>7, <1>8

\* A message comes in on one inner of one page.
LEMMA MessageCame ==
  ASSUME RaceInv, NEW p \in Pages, NEW k \in Inners, NEW msg \in Nat,
         page' = [page EXCEPT ![p] = InnerMessage(page[p], k, msg)]
  PROVE  /\ Came(p, k)' = Came(p, k) + 1
         /\ \A q \in Pages, j \in Inners : <<q, j>> # <<p, k>> => Came(q, j)' = Came(q, j)
<1>1. Sound(page[p]) /\ page = [q \in Pages |-> page[q]]
  BY PageSound DEF RaceInv
<1>2. PICK r : r = InnerMessage(page[p], k, msg)
  OBVIOUS
<1>3. r.arrived = [page[p].arrived EXCEPT ![k] = Append(page[p].arrived[k], msg)]
  BY <1>1, <1>2, MessageSound
<1>4. page'[p] = r /\ \A q \in Pages : q # p => page'[q] = page[q]
  BY <1>1, <1>2
<1>5. page[p].arrived \in [Inners -> Seq(Nat)]
  BY PageSound DEF TransportState
<1>6. /\ r.arrived[k] = Append(page[p].arrived[k], msg)
      /\ \A j \in Inners : j # k => r.arrived[j] = page[p].arrived[j]
  BY <1>3, <1>5
<1>7. Len(Append(page[p].arrived[k], msg)) = Len(page[p].arrived[k]) + 1
  BY <1>5, AppendProperties
<1> QED
  BY <1>4, <1>6, <1>7 DEF Came

LEMMA FrameInOrder ==
  ASSUME RaceInv, InOrder, NEW p \in Pages, NEW k \in Relays, RelayFrame(p, k)
  PROVE  InOrder'
<1>0. k \in Inners /\ <<p, k>> \in Ends /\ wire \in [Ends -> Seq(Nat)]
  BY Counted DEF Inners, RaceInv, Surroundings
<1>1. PICK w : w = wire[<<p, k>>]
  OBVIOUS
<1>2. w \in Seq(Nat) /\ w # <<>> /\ Head(w) \in Nat
  BY <1>0, <1>1, HeadTailProperties DEF RelayFrame
<1>3. said' = said /\ channel' = channel
  BY DEF RelayFrame, Calm
<1>4. PICK rest : rest = [wire EXCEPT ![<<p, k>>] = Tail(w)]
  OBVIOUS
<1>5. wire' = rest \/ wire' = FrameTo(Partner(<<p, k>>), rest, Hello)
  BY <1>1, <1>4 DEF RelayFrame
<1>6. /\ wire'[<<p, k>>] = Tail(w)
      /\ \A e \in Ends : e # <<p, k>> => Extended(wire'[e], wire[e])
  <2>1. rest[<<p, k>>] = Tail(w) /\ \A e \in Ends : e # <<p, k>> => rest[e] = wire[e]
    BY <1>0, <1>4
  <2>2. CASE wire' = rest
    BY <2>1, <2>2 DEF Extended
  <2>3. CASE wire' = FrameTo(Partner(<<p, k>>), rest, Hello)
    <3>1. \A e \in Ends : wire'[e] = IF e \in Partner(<<p, k>>) THEN Append(rest[e], Hello)
                                     ELSE rest[e]
      BY <2>3 DEF FrameTo
    <3>2. <<p, k>> \notin Partner(<<p, k>>)
      BY DEF Partner
    <3> QED
      BY <1>0, <2>1, <3>1, <3>2 DEF Extended
  <2> QED
    BY <1>5, <2>2, <2>3
<1>7. /\ Came(p, k)' = IF Head(w) = Hello THEN Came(p, k) ELSE Came(p, k) + 1
      /\ \A q \in Pages, j \in Inners : <<q, j>> # <<p, k>> => Came(q, j)' = Came(q, j)
  <2>1. CASE Head(w) = Hello
    BY <1>0, <1>1, <2>1, FrameSound, SameCame
  <2>2. CASE Head(w) # Hello
    <3>1. page' = [page EXCEPT ![p] = InnerMessage(page[p], k, Head(w))]
      BY <1>1, <2>2 DEF RelayFrame
    <3> QED
      BY <1>0, <1>2, <2>2, <3>1, MessageCame
  <2> QED
    BY <2>1, <2>2
<1>8. /\ Ordered(Tail(w), Came(p, k), said[Other(p)])
      /\ Head(w) # Hello => /\ Came(p, k) + 1 <= said[Other(p)]
                            /\ Ordered(Tail(w), Came(p, k) + 1, said[Other(p)])
  <2>1. Ordered(w, Came(p, k), said[Other(p)]) /\ Came(p, k) \in Nat /\ said[Other(p)] \in Nat
    BY <1>0, <1>1, Counted DEF InOrder
  <2> QED
    BY <1>2, <2>1, OrderedTail
<1>9. ASSUME NEW q \in Pages
      PROVE  /\ \A j \in Relays : Ordered(wire'[<<q, j>>], Came(q, j)', said'[Other(q)])
             /\ Ordered(channel'[q], Came(q, "rtc")', said'[Other(q)])
             /\ \A i \in 1 .. Len(channel'[q]) : channel'[q][i] # Hello
             /\ \A j \in Inners : Came(q, j)' <= said'[Other(q)]
             /\ said'[q] <= MaxSaid
  <2>1. ASSUME NEW j \in Relays
        PROVE  Ordered(wire'[<<q, j>>], Came(q, j)', said'[Other(q)])
    <3>1. CASE <<q, j>> = <<p, k>>
      BY <1>3, <1>6, <1>7, <1>8, <3>1
    <3>2. CASE <<q, j>> # <<p, k>>
      <4>1. <<q, j>> \in Ends /\ j \in Inners
        BY DEF Ends, Inners
      <4>2. Extended(wire'[<<q, j>>], wire[<<q, j>>]) /\ Came(q, j)' = Came(q, j)
        BY <1>6, <1>7, <3>2, <4>1
      <4>3. /\ wire[<<q, j>>] \in Seq(Nat) /\ Came(q, j) \in Nat /\ said[Other(q)] \in Nat
            /\ Ordered(wire[<<q, j>>], Came(q, j), said[Other(q)])
        BY <4>1, Counted DEF InOrder
      <4> QED
        BY <1>3, <4>2, <4>3, ExtendedOrdered
    <3> QED
      BY <3>1, <3>2
  <2>2. Came(q, "rtc")' = Came(q, "rtc")
    BY <1>7 DEF Relays, Inners
  <2>3. \A j \in Inners : Came(q, j)' <= said[Other(q)]
    BY <1>0, <1>7, <1>8 DEF InOrder
  <2> QED
    BY <1>3, <2>1, <2>2, <2>3 DEF InOrder
<1> QED
  BY <1>9 DEF InOrder

LEMMA ChannelInOrder ==
  ASSUME RaceInv, InOrder, NEW p \in Pages, ChannelFrame(p)
  PROVE  InOrder'
<1>1. PICK w : w = channel[p]
  OBVIOUS
<1>2. w \in Seq(Nat) /\ w # <<>> /\ Head(w) \in Nat /\ Tail(w) \in Seq(Nat)
      /\ channel \in [Pages -> Seq(Nat)]
  BY <1>1, Counted, HeadTailProperties DEF ChannelFrame, RaceInv, Surroundings
<1>3. said' = said /\ wire' = wire /\ channel' = [channel EXCEPT ![p] = Tail(w)]
  BY <1>1 DEF ChannelFrame, Calm
<1>4. "rtc" \in Inners /\ "rtc" \notin Relays
  BY DEF Inners, Relays
<1>5. page' = [page EXCEPT ![p] = InnerMessage(page[p], "rtc", Head(w))]
  BY <1>1 DEF ChannelFrame
<1>6. /\ Came(p, "rtc")' = Came(p, "rtc") + 1
      /\ \A q \in Pages, j \in Inners : <<q, j>> # <<p, "rtc">> => Came(q, j)' = Came(q, j)
  BY <1>2, <1>4, <1>5, MessageCame
<1>7. \A i \in 1 .. Len(w) : w[i] # Hello
  BY <1>1 DEF InOrder
<1>8. /\ Len(Tail(w)) = Len(w) - 1 /\ Len(w) \in Nat \ {0}
      /\ \A i \in 1 .. Len(Tail(w)) : Tail(w)[i] = w[i + 1]
      /\ Head(w) = w[1]
  BY <1>2, HeadTailProperties, LenProperties
<1>9. Head(w) # Hello /\ \A i \in 1 .. Len(Tail(w)) : Tail(w)[i] # Hello
  BY <1>7, <1>8
<1>10. /\ Came(p, "rtc") + 1 <= said[Other(p)]
       /\ Ordered(Tail(w), Came(p, "rtc") + 1, said[Other(p)])
  <2>1. Ordered(w, Came(p, "rtc"), said[Other(p)]) /\ Came(p, "rtc") \in Nat
        /\ said[Other(p)] \in Nat
    BY <1>1, <1>4, Counted DEF InOrder
  <2> QED
    BY <1>2, <1>9, <2>1, OrderedTail
<1>11. ASSUME NEW q \in Pages
       PROVE  /\ \A j \in Relays : Ordered(wire'[<<q, j>>], Came(q, j)', said'[Other(q)])
              /\ Ordered(channel'[q], Came(q, "rtc")', said'[Other(q)])
              /\ \A i \in 1 .. Len(channel'[q]) : channel'[q][i] # Hello
              /\ \A j \in Inners : Came(q, j)' <= said'[Other(q)]
              /\ said'[q] <= MaxSaid
  <2>1. \A j \in Relays : j \in Inners /\ Came(q, j)' = Came(q, j)
    BY <1>4, <1>6 DEF Inners
  <2>2. \A j \in Inners : Came(q, j)' <= said[Other(q)]
    BY <1>4, <1>6, <1>10 DEF InOrder
  <2>3. Ordered(channel'[q], Came(q, "rtc")', said[Other(q)])
    BY <1>2, <1>3, <1>4, <1>6, <1>10 DEF InOrder
  <2>4. \A i \in 1 .. Len(channel'[q]) : channel'[q][i] # Hello
    BY <1>2, <1>3, <1>9 DEF InOrder
  <2> QED
    BY <1>3, <2>1, <2>2, <2>3, <2>4 DEF InOrder
<1> QED
  BY <1>11 DEF InOrder

\* A message goes to the other page only: the partner of a page's slot is not
\* a slot of the page itself.
LEMMA SayInOrder ==
  ASSUME RaceInv, InOrder, NEW p \in Pages, Say(p)
  PROVE  InOrder'
<1>1. PICK msg : msg = said[p] + 1
  OBVIOUS
<1>2. /\ said \in [Pages -> Nat] /\ said[p] < MaxSaid /\ MaxSaid \in Nat
      /\ said' = [said EXCEPT ![p] = msg]
      /\ wire \in [Ends -> Seq(Nat)] /\ channel \in [Pages -> Seq(Nat)]
  BY <1>1, RaceAssumption DEF Say, RaceInv, Surroundings
<1>3. \A q \in Pages, j \in Inners : Came(q, j)' = Came(q, j)
  BY SaySound, SameCame
<1>4. Other(p) \in Pages /\ Other(p) # p /\ Other(Other(p)) = p
      /\ \A q \in Pages : q = p \/ q = Other(p)
  BY PageFacts
<1>5. \A q \in Pages : said[q] \in Nat /\ said'[q] \in Nat /\ said[q] <= said'[q]
                       /\ said'[q] <= MaxSaid
  BY <1>1, <1>2 DEF InOrder
<1>6. \/ /\ wire' = wire
         /\ channel' = [channel EXCEPT ![Other(p)] = Append(channel[Other(p)], msg)]
      \/ /\ channel' = channel
         /\ \A k \in Relays : wire'[<<p, k>>] = wire[<<p, k>>]
         /\ \A k \in Relays : wire'[<<Other(p), k>>]
              \in {wire[<<Other(p), k>>], Append(wire[<<Other(p), k>>], msg)}
  <2>1. CASE SayOnChannel(p, msg)
    BY <2>1 DEF SayOnChannel
  <2>2. CASE \E k \in Relays : SayOnRelay(p, k, msg)
    <3>1. PICK k \in Relays : SayOnRelay(p, k, msg)
      BY <2>2
    <3>2. CASE <<p, k>> \notin slots
      BY <3>1, <3>2 DEF SayOnRelay
    <3>3. CASE <<p, k>> \in slots
      <4>1. channel' = channel /\ wire' = FrameTo(Partner(<<p, k>>), wire, msg)
        BY <3>1, <3>3 DEF SayOnRelay
      <4>2. \A e \in Ends : wire'[e] = IF e \in Partner(<<p, k>>) THEN Append(wire[e], msg)
                                       ELSE wire[e]
        BY <4>1 DEF FrameTo
      <4>3. \A j \in Relays : <<p, j>> \notin Partner(<<p, k>>)
        <5> SUFFICES ASSUME NEW j \in Relays, <<p, j>> \in slots PROVE j = k
          BY DEF Partner
        <5>1. OneSlotPerPage
          BY InvGives
        <5> QED
          BY <3>3, <5>1 DEF OneSlotPerPage
      <4>4. \A q \in Pages, j \in Relays : <<q, j>> \in Ends
        BY DEF Ends
      <4> QED
        BY <1>4, <4>1, <4>2, <4>3, <4>4
    <3> QED
      BY <3>2, <3>3
  <2> QED
    BY <1>1, <2>1, <2>2 DEF Say, SayOnWs, SayOnLp, Relays
<1>7. ASSUME NEW n \in Nat, n <= said[p], NEW w \in Seq(Nat), Ordered(w, n, said[p]),
             NEW v \in {w, Append(w, msg)}
      PROVE  Ordered(v, n, said'[p])
  <2>1. said'[p] = said[p] + 1 /\ msg = said[p] + 1
    BY <1>1, <1>2
  <2>2. said[p] \in Nat /\ said'[p] \in Nat /\ n <= n /\ said[p] <= said'[p]
    BY <1>5
  <2>3. Ordered(w, n, said'[p])
    BY <1>7, <2>2, OrderedLess
  <2>4. Ordered(Append(w, said[p] + 1), n, said[p] + 1)
    BY <1>7, <2>2, OrderedNext
  <2> QED
    BY <1>7, <2>1, <2>3, <2>4
<1>8. ASSUME NEW q \in Pages
      PROVE  /\ \A j \in Relays : Ordered(wire'[<<q, j>>], Came(q, j)', said'[Other(q)])
             /\ Ordered(channel'[q], Came(q, "rtc")', said'[Other(q)])
             /\ \A i \in 1 .. Len(channel'[q]) : channel'[q][i] # Hello
             /\ \A j \in Inners : Came(q, j)' <= said'[Other(q)]
             /\ said'[q] <= MaxSaid
  <2>1. \A j \in Inners : Came(q, j)' <= said'[Other(q)]
    <3>1. \A j \in Inners : Came(q, j) <= said[Other(q)] /\ Came(q, j) \in Nat
      BY Counted DEF InOrder
    <3> QED
      BY <1>3, <1>4, <1>5, <3>1
  <2>2. ASSUME NEW j \in Relays
        PROVE  Ordered(wire'[<<q, j>>], Came(q, j)', said'[Other(q)])
    <3>1. /\ wire[<<q, j>>] \in Seq(Nat) /\ Came(q, j) \in Nat /\ j \in Inners
          /\ Ordered(wire[<<q, j>>], Came(q, j), said[Other(q)])
          /\ Came(q, j) <= said[Other(q)]
      BY Counted DEF InOrder, Inners
    <3>2. CASE q = p
      BY <1>2, <1>3, <1>4, <1>5, <1>6, <3>1, <3>2, OrderedLess
    <3>3. CASE q = Other(p)
      <4>1. wire'[<<q, j>>] \in {wire[<<q, j>>], Append(wire[<<q, j>>], msg)}
        BY <1>6, <3>3
      <4>2. Other(q) = p
        BY <1>4, <3>3
      <4> QED
        BY <1>3, <1>7, <3>1, <4>1, <4>2
    <3> QED
      BY <1>4, <3>2, <3>3
  <2>3. Ordered(channel'[q], Came(q, "rtc")', said'[Other(q)])
    <3>1. /\ channel[q] \in Seq(Nat) /\ Came(q, "rtc") \in Nat /\ "rtc" \in Inners
          /\ Ordered(channel[q], Came(q, "rtc"), said[Other(q)])
          /\ Came(q, "rtc") <= said[Other(q)]
      BY Counted DEF InOrder, Inners
    <3>2. CASE q = p
      <4>1. channel'[q] = channel[q] /\ Other(q) = Other(p)
        BY <1>2, <1>4, <1>6, <3>2
      <4> QED
        BY <1>3, <1>4, <1>5, <3>1, <4>1, OrderedLess
    <3>3. CASE q = Other(p)
      <4>1. channel'[q] \in {channel[q], Append(channel[q], msg)}
        BY <1>2, <1>4, <1>6, <3>3
      <4>2. Other(q) = p
        BY <1>4, <3>3
      <4> QED
        BY <1>3, <1>7, <3>1, <4>1, <4>2
    <3> QED
      BY <1>4, <3>2, <3>3
  <2>4. \A i \in 1 .. Len(channel'[q]) : channel'[q][i] # Hello
    <3>1. channel'[q] \in {channel[q], Append(channel[q], msg)} /\ channel[q] \in Seq(Nat)
      BY <1>2, <1>4, <1>6
    <3>2. msg \in Nat /\ msg # Hello
      BY <1>1, <1>2 DEF Hello
    <3>3. \A i \in 1 .. Len(channel[q]) : channel[q][i] # Hello
      BY DEF InOrder
    <3>4. \A i \in 1 .. Len(Append(channel[q], msg)) : Append(channel[q], msg)[i] # Hello
      BY <3>1, <3>2, <3>3, AppendProperties, LenProperties
    <3> QED
      BY <3>1, <3>3, <3>4
  <2> QED
    BY <1>5, <2>1, <2>2, <2>3, <2>4
<1> QED
  BY <1>8 DEF InOrder

LEMMA ReplacesInOrder ==
  ASSUME RaceInv, InOrder, NEW p \in Pages, Replaces(p)
  PROVE  InOrder'
<1>1. said' = said /\ channel' = [q \in Pages |-> <<>>]
      /\ wire' \in {wire, Drained(Ends)}
  BY DEF Replaces
<1>2. \A q \in Pages, k \in Inners : Came(q, k)' \in {Came(q, k), 0}
  <2>1. page'[p].arrived = [k \in Inners |-> <<>>] /\ \A q \in Pages : q # p => page'[q] = page[q]
    BY ReplacesSound
  <2>2. \A k \in Inners : Came(p, k)' = 0
    BY <2>1 DEF Came
  <2>3. \A q \in Pages, k \in Inners : q # p => Came(q, k)' = Came(q, k)
    BY <2>1 DEF Came
  <2> QED
    BY <2>2, <2>3
<1>3. ASSUME NEW q \in Pages
      PROVE  /\ \A j \in Relays : Ordered(wire'[<<q, j>>], Came(q, j)', said'[Other(q)])
             /\ Ordered(channel'[q], Came(q, "rtc")', said'[Other(q)])
             /\ \A i \in 1 .. Len(channel'[q]) : channel'[q][i] # Hello
             /\ \A j \in Inners : Came(q, j)' <= said'[Other(q)]
             /\ said'[q] <= MaxSaid
  <2>1. \A j \in Inners : Came(q, j) \in Nat /\ Came(q, j)' \in Nat /\ Came(q, j)' <= Came(q, j)
    BY <1>2, Counted
  <2>2. ASSUME NEW j \in Relays
        PROVE  Ordered(wire'[<<q, j>>], Came(q, j)', said[Other(q)])
    <3>1. /\ wire[<<q, j>>] \in Seq(Nat) /\ <<q, j>> \in Ends /\ j \in Inners
          /\ said[Other(q)] \in Nat /\ said[Other(q)] <= said[Other(q)]
          /\ Ordered(wire[<<q, j>>], Came(q, j), said[Other(q)])
      BY Counted DEF InOrder, Inners
    <3>2. Ordered(wire[<<q, j>>], Came(q, j)', said[Other(q)])
      BY <2>1, <3>1, OrderedLess
    <3>3. wire'[<<q, j>>] \in {wire[<<q, j>>], <<>>}
      BY <1>1, <3>1, DrainedExtends
    <3> QED
      BY <3>2, <3>3, OrderedNone
  <2>3. Ordered(channel'[q], Came(q, "rtc")', said[Other(q)]) /\ Len(channel'[q]) = 0
    BY <1>1, OrderedNone
  <2>4. \A j \in Inners : Came(q, j)' <= said[Other(q)]
    BY <2>1, Counted DEF InOrder
  <2> QED
    BY <1>1, <2>2, <2>3, <2>4 DEF InOrder
<1> QED
  BY <1>3 DEF InOrder

LEMMA StepInOrder ==
  ASSUME RaceInv, InOrder, [Next]_vars
  PROVE  InOrder'
<1>1. CASE Arrivals
  BY <1>1, FrameInOrder, ChannelInOrder, ReplacesInOrder DEF Arrivals
<1>2. CASE \E p \in Pages : Say(p)
  BY <1>2, SayInOrder
<1>3. CASE ~Arrivals /\ ~ \E p \in Pages : Say(p)
  BY <1>3, RaceStep, QuietSteps, QuietInOrder
<1> QED
  BY <1>1, <1>2, <1>3

LEMMA InitInOrder == Init => InOrder
<1> SUFFICES ASSUME Init, NEW p \in Pages
             PROVE  /\ \A k \in Relays : Ordered(wire[<<p, k>>], Came(p, k), said[Other(p)])
                    /\ Ordered(channel[p], Came(p, "rtc"), said[Other(p)])
                    /\ \A i \in 1 .. Len(channel[p]) : channel[p][i] # Hello
                    /\ \A k \in Inners : Came(p, k) <= said[Other(p)]
                    /\ said[p] <= MaxSaid
  BY DEF InOrder
<1>1. /\ channel[p] = <<>> /\ \A k \in Relays : wire[<<p, k>>] = <<>>
      /\ said[Other(p)] = 0 /\ said[p] <= MaxSaid
  BY PageFacts, RaceAssumption DEF Init, Ends
<1>2. page[p] = Transport(p, TRUE, mode)
  BY DEF Init
<1>3. \A k \in Inners : Came(p, k) = 0
  <2>1. page[p].arrived = [k \in Inners |-> <<>>]
    BY <1>2 DEF Transport
  <2> QED
    BY <2>1 DEF Came
<1> QED
  BY <1>1, <1>3, OrderedNone

\* As long as the other page has sent no more than may be pending, a page that
\* has locked its winner has heard everything that came in on it.
HeardAll ==
  \A p \in Pages :
    page[p].winner # "none" /\ said[Other(p)] <= MaxPending
      => page[p].heard = page[p].arrived[page[p].winner]

LEMMA InvHears == RaceInv /\ InOrder => HeardAll
<1> SUFFICES ASSUME RaceInv, InOrder, NEW p \in Pages,
                    page[p].winner # "none", said[Other(p)] <= MaxPending
             PROVE  page[p].heard = page[p].arrived[page[p].winner]
  BY DEF HeardAll
<1>1. PICK k \in Inners : k = page[p].winner
  BY PageSound DEF TransportState
<1>2. Whole(page[p].heard, page[p].arrived[k])
  BY <1>1, PageSound DEF Sound, Hears
<1>3. Came(p, k) <= said[Other(p)] /\ Came(p, k) \in Nat /\ said[Other(p)] \in Nat
  BY Counted DEF InOrder
<1>4. ~(Len(page[p].arrived[k]) > MaxPending)
  BY <1>3, RaceAssumption DEF Came
<1> QED
  BY <1>1, <1>2, <1>4 DEF Whole

LEMMA RaceAlways == Spec => [](RaceInv /\ InOrder)
<1>1. Init => RaceInv /\ InOrder
  BY RaceInit, InitInOrder
<1>2. RaceInv /\ InOrder /\ [Next]_vars => RaceInv' /\ InOrder'
  BY RaceStep, StepInOrder
<1> QED
  BY <1>1, <1>2, PTL DEF Spec

(* What a page has heard is all that came in on its winner, in order and from
   the first message on, however many connections were lost and transports
   replaced, while the other page has sent no more messages than
   MAX_PENDING_MSGS: the queue of an inner cannot have been full before the
   lock (_handleInnerMessage and the replay of _lockWinner in transport.js). *)
THEOREM NothingIsMissed == Spec => []HeardAll
  BY RaceAlways, InvHears, PTL

(* The property of the run follows for every instance whose pages send no more
   than that. *)
THEOREM HeardFromTheStart ==
  ASSUME MaxSaid <= MaxPending
  PROVE  Spec => []HeardFromTheFirst
<1>1. RaceInv /\ InOrder => HeardFromTheFirst
  <2> SUFFICES ASSUME RaceInv, InOrder, NEW p \in Pages, page[p].winner # "none"
               PROVE  page[p].heard = page[p].arrived[page[p].winner]
    BY DEF HeardFromTheFirst
  <2>1. said[Other(p)] <= MaxSaid /\ said[Other(p)] \in Nat
    BY PageFacts, Counted DEF InOrder
  <2>2. said[Other(p)] <= MaxPending
    BY <2>1, RaceAssumption
  <2> QED
    BY <2>2, InvHears DEF HeardAll
<1> QED
  BY <1>1, RaceAlways, PTL
=============================================================================
