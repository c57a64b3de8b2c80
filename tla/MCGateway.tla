----------------------------- MODULE MCGateway -----------------------------
(* Small instances of Gateway for TLC. *)
EXTENDS Gateway, TLC

CONSTANTS w1, w2, health, small, middle, large

TwoWorkers    == {w1, w2}
OneProber     == {health}
ThreeRequests == {small, middle, large}
TwoRequests   == {middle, large}
Amounts3      == (small :> "low") @@ (middle :> "mid") @@ (large :> "high")
Amounts2      == (middle :> "mid") @@ (large :> "high")

ThreeScores   == {5800, 6200, 7200}

\* Two cards without a tenure: one with the other features fresh, one whose
\* device history is stale.
Newcomer == [velocity_24h |-> 20, device_history |-> 20,
             card_tenure_days |-> Never, merchant_risk |-> 20]
Cards == {Newcomer, [Newcomer EXCEPT !.device_history = 2000]}
FreshOrStale == {Evidence(Assembled(age, Len(Wanted))) : age \in Cards}

Alike == Permutations(Worker)
=============================================================================
