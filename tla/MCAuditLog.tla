----------------------------- MODULE MCAuditLog -----------------------------
(* A small instance of AuditLog for TLC. *)
EXTENDS AuditLog, TLC

CONSTANTS w1, w2, r1, r2, r3

TwoWorkers   == {w1, w2}
ThreeRecords == {r1, r2, r3}
NoneOfThem   == {}
TwoPolicies  == {"batch", "always"}

Alike == Permutations(Worker) \cup Permutations(Record)
=============================================================================
