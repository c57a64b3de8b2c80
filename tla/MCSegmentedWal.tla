--------------------------- MODULE MCSegmentedWal ---------------------------
(* A small instance of SegmentedWal for TLC. *)
EXTENDS SegmentedWal, TLC

CONSTANTS r1, r2, r3, r4

FourRecords == {r1, r2, r3, r4}

Alike == Permutations(Record)
=============================================================================
