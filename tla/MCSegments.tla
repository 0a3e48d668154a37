----------------------------- MODULE MCSegments -----------------------------
(***************************************************************************)
(* Segments for TLC.  Every process has small segments, so that rotations  *)
(* happen, or one setting that is zero, negative or of its own; and one of *)
(* the two default masks.                                                  *)
(***************************************************************************)
EXTENDS Segments

Small == [f \in {"MaxSegmentSize"} |-> 4]
Smaller == [f \in {"MaxSegmentSize"} |-> 3]
SmallEmptyMask ==
  [f \in {"MaxSegmentSize", "MaskName"} |-> IF f = "MaskName" THEN "" ELSE 4]
Odd == {[f \in {name} |-> n] : name \in DOMAIN Preset, n \in {-1, 0}}

MCFiles == {Small, Smaller, SmallEmptyMask} \cup Odd
MCMasks == <<"segment_", "wal_">>

=============================================================================
