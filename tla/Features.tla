------------------------------ MODULE Features ------------------------------
(***************************************************************************)
(* gateway/features.py: what the cache knows of a card, by the age of each *)
(* feature, the bundle assemble makes of it, and what Gateway.decide makes *)
(* of the bundle: whether the model may be asked, and at what threshold a  *)
(* score declines.  Scores are in ten-thousandths, as the threshold 0.75   *)
(* and its discounts are.                                                  *)
(***************************************************************************)
EXTENDS Integers, Sequences, FiniteSets

\* The keys of FEATURE_POLICY in its order, which is the order of the reads.
Wanted == <<"velocity_24h", "device_history", "card_tenure_days", "merchant_risk">>

Freshness == [velocity_24h |-> "hard", device_history |-> "soft",
              card_tenure_days |-> "soft", merchant_risk |-> "static"]

Ttl == [velocity_24h |-> 30, device_history |-> 300,
        card_tenure_days |-> 3600, merchant_risk |-> 0]

\* No entry in the cache.
Never == -1

Stale(f, age) == Ttl[f] > 0 /\ age > Ttl[f]

\* The bundle of a card, when the first n reads find the cache available.  A
\* missing soft feature is in none of its lists: only values lacks it.
Assembled(age, n) ==
    LET read == {Wanted[i] : i \in 1 .. n}
    IN  [values |-> {f \in read : age[f] # Never /\
                                  ~ (Freshness[f] = "hard" /\ Stale(f, age[f]))},
         missing_hard |-> {f \in read : Freshness[f] = "hard" /\
                                        (age[f] = Never \/ Stale(f, age[f]))},
         stale_soft   |-> {f \in read : Freshness[f] = "soft" /\ Stale(f, age[f])},
         cache_down   |-> n < Len(Wanted)]

Usable(bundle) == bundle.missing_hard = {} /\ ~bundle.cache_down

\* What a payment is judged on: the features there were, those of them that are
\* stale, and complete as decide sees it.
Evidence(bundle) ==
    [values   |-> bundle.values,
     stale    |-> bundle.stale_soft,
     complete |-> bundle.missing_hard \cup bundle.stale_soft = {} /\ ~bundle.cache_down]

\* Without a cache there are none, and all are taken to be at hand, or a part.
WithoutCache(up) == [values |-> {}, stale |-> {}, complete |-> up]

\* Ages on both sides of every TTL.
Ages == {Never, 20, 200, 2000, 20000}

Bundles == {Assembled(age, n) : age \in [DOMAIN Ttl -> Ages], n \in 0 .. Len(Wanted)}

\* What the model may be asked on.
Sound == {Evidence(b) : b \in {c \in Bundles : Usable(c)}} \cup
         {WithoutCache(up) : up \in BOOLEAN}

-----------------------------------------------------------------------------
ModelThreshold == 7500

\* confidence_discount, in hundredths: 5 for each stale soft feature.
Discount(e) == 5 * Cardinality(e.stale)

\* Mutant: the discount raises the threshold.
DeclineThresholdRaised(e) ==
    IF Discount(e) > 0 THEN ModelThreshold + (Discount(e) * ModelThreshold) \div 100
    ELSE IF e.complete THEN ModelThreshold ELSE (ModelThreshold * 8) \div 10

\* A discount lowers the threshold; without one partial features do, by a fifth.
DeclineThreshold(e) ==
    IF Discount(e) > 0 THEN ModelThreshold - (Discount(e) * ModelThreshold) \div 100
    ELSE IF e.complete THEN ModelThreshold ELSE (ModelThreshold * 8) \div 10

\* The decision policy: approve below the review floor, decline from the
\* threshold on.
Judge(score, e) ==
    CASE score >= DeclineThreshold(e) -> "decline"
      [] score < DeclineThreshold(e) /\ 10 * score >= 8 * DeclineThreshold(e) -> "review"
      [] OTHER -> "approve"

Strictness == [approve |-> 0, review |-> 1, decline |-> 2]
=============================================================================
