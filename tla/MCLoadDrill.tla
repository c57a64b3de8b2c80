---------------------------- MODULE MCLoadDrill -----------------------------
(* A small instance of LoadDrill for TLC. *)
EXTENDS LoadDrill, TLC

CONSTANTS w1, w2, r1, r2, r3, r4

TwoWorkers  == {w1, w2}
FourRecords == {r1, r2, r3, r4}
NoneOfThem  == {}
TwoPolicies == {"batch", "always"}
BothDrivers == {"service", "drill"}

Alike == Permutations(Worker) \cup Permutations(Record)
=============================================================================
