----------------------------- MODULE MCVelocity -----------------------------
(* A small instance of Velocity for TLC. *)
EXTENDS Velocity

CONSTANTS t1, t2, i1, i2

OnlyRedis    == {"redis"}
TwoThreads   == {t1, t2}
TwoInstances == {i1, i2}
=============================================================================
