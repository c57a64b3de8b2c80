----------------------------- MODULE MCOpenLoop -----------------------------
(* A small instance of OpenLoop for TLC. *)
EXTENDS OpenLoop, TLC

CONSTANTS w1, w2, health

TwoWorkers == {w1, w2}
OneProber  == {health}
=============================================================================
