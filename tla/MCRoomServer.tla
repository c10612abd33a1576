---------------------------- MODULE MCRoomServer ----------------------------
(* Instances of RoomServer for TLC: the limiters that can fill, and when.  *)
EXTENDS RoomServer

ThePoller == {<<"receiver", "general">>}

FewRequests == [roomCreation |-> 1, roomLookup |-> 2, general |-> 2]

\* On timestamps in the order of their calls, Recent is the filter() of
\* checkRateLimit().
InOrder ==
  {ages \in UNION {[1 .. n -> 0 .. MaxAge] : n \in 0 .. 5} :
     \A i, j \in DOMAIN ages : i <= j => ages[i] >= ages[j]}
ASSUME RecentIsFilter ==
  \A ages \in InOrder : Recent(ages) = SelectSeq(ages, LAMBDA a : a < Window)
=============================================================================
