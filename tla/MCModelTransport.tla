-------------------------- MODULE MCModelTransport --------------------------
(* A small instance of ModelTransport for TLC. *)
EXTENDS ModelTransport, TLC

CONSTANTS c1, c2

TwoCallers == {c1, c2}
BinaryAndGrpc == (c1 :> "binary") @@ (c2 :> "grpc")
=============================================================================
