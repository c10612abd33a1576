------------------------- MODULE MCSegmentTransfer -------------------------
(* Instances of SegmentTransfer for TLC: the segment counts of the files.  *)
EXTENDS SegmentTransfer

OneSegmentEach == [f \in File |-> 1]
OneThenTwo     == [f \in File |-> f]

\* Leaves out that the pairing breaks and comes back while the sender page
\* does anything short: only a blob read or the wait for a verdict lasts
\* as long as a reconnect.
OnlyLongWaitsSpanDrops == phase \in {"idle", "read", "wait"} \/ up
=============================================================================
