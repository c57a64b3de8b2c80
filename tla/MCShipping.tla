----------------------------- MODULE MCShipping -----------------------------
(* Small instances of Shipping for TLC. *)
EXTENDS Shipping, TLC

CONSTANTS r1, r2, r3

TwoRecords   == {r1, r2}
ThreeRecords == {r1, r2, r3}
Poison1      == {r1}
Poison3      == {r3}

\* Records are interchangeable as long as the poison stays the poison.
Alike == Permutations(Record \ Rejected)
=============================================================================
