---------------------------- MODULE MCAlertDrill ----------------------------
(* A small instance of AlertDrill for TLC. *)
EXTENDS AlertDrill, TLC

CONSTANTS w1, w2, prometheus, curl

TwoWorkers  == {w1, w2}
TwoScrapers == {prometheus, curl}
=============================================================================
