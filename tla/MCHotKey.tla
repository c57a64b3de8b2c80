------------------------------ MODULE MCHotKey ------------------------------
(* A small instance of HotKey for TLC. *)
EXTENDS HotKey, TLC

CONSTANTS t1, t2, i1

Both        == {"local", "redis"}
AllSubjects == {"exact", "unsafe", "naive"}
TwoThreads  == {t1, t2}
OneInstance == {i1}
AnyThread   == Permutations(TwoThreads)
=============================================================================
