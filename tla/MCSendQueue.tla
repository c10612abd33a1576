---------------------------- MODULE MCSendQueue ----------------------------
(* Instances of SendQueue for TLC: the user's file picks.                  *)
EXTENDS SendQueue

NoPicks   == <<>>
OneFile   == <<1>>
TwoFiles  == <<2>>
TwoPicks  == <<2, 1>>
=============================================================================
