--------------------------- MODULE CircuitBreaker ---------------------------
(***************************************************************************)
(* The circuit breaker of gateway/pipeline.py as the threads that share it *)
(* see it.  It has no lock.  CPython may switch threads where a call       *)
(* returns, so each method is split at its call of time.monotonic: is_open *)
(* between the test of opened_at and the second read of it, record_failure *)
(* between the test and the assignment of opened_at.                       *)
(*                                                                         *)
(* Time is what the cooldown makes of it: a time stamp is "fresh" until    *)
(* the cooldown has passed and "expired" from then on.                     *)
(***************************************************************************)
EXTENDS Integers, FiniteSets

CONSTANTS
    Worker,      \* threads that call the model behind the breaker (decide)
    Prober,      \* threads that only look at it (health)
    Threshold    \* threshold

ASSUME BreakerAssumption ==
    /\ IsFiniteSet(Worker)
    /\ Worker \cap Prober = {}
    /\ Threshold \in Nat \ {0}

Thread == Worker \cup Prober

VARIABLES
    failures,   \* failures
    opened,     \* opened_at: "None", or the age of the time stamp in it
    at,         \* where a thread is in its use of the breaker
    stamp,      \* the time a thread has read and not yet stored
    outcome,    \* what the thread has learnt: "score", "failed" or "open"
    modelUp     \* the model service answers

breakerVars == <<failures, opened, at, stamp, outcome, modelUp>>

-----------------------------------------------------------------------------
BreakerInit ==
    /\ failures = 0
    /\ opened = "None"
    /\ at = [t \in Thread |-> "idle"]
    /\ stamp = [t \in Thread |-> "fresh"]
    /\ outcome = [t \in Thread |-> "none"]
    /\ modelUp = TRUE

\* A closed breaker lets a worker through to the model; a prober has its
\* answer.
Admit(t) ==
    IF t \in Worker
    THEN at' = [at EXCEPT ![t] = "calling"] /\ UNCHANGED outcome
    ELSE at' = [at EXCEPT ![t] = "done"]
         /\ outcome' = [outcome EXCEPT ![t] = "closed"]

\* is_open, opened_at is None.
AskClosed(t) ==
    /\ at[t] = "idle"
    /\ opened = "None"
    /\ Admit(t)
    /\ UNCHANGED <<failures, opened, stamp, modelUp>>

\* is_open, opened_at is set: the time is read, and what it makes of every
\* stamp there is, of the stored one and of those about to be stored, is settled.
AskOpened(t) ==
    /\ at[t] = "idle"
    /\ opened # "None"
    /\ LET late == "expired" \in {opened} \cup {stamp[u] : u \in Thread}
       IN  at' = [at EXCEPT ![t] = IF late THEN "reading_late" ELSE "reading"]
    /\ UNCHANGED <<failures, opened, stamp, outcome, modelUp>>

\* Mutant: an expired breaker never half-opens.
HalfOpenNever(t) == FALSE

\* The second read of opened_at: the cooldown has passed, half-open.
HalfOpen(t) ==
    /\ at[t] = "reading_late"
    /\ opened = "expired"
    /\ opened' = "None"
    /\ failures' = 0
    /\ Admit(t)
    /\ UNCHANGED <<stamp, modelUp>>

\* The second read of opened_at: still open.
StillOpen(t) ==
    /\ at[t] \in {"reading", "reading_late"}
    /\ opened # "None"
    /\ ~ (at[t] = "reading_late" /\ opened = "expired")
    /\ at' = [at EXCEPT ![t] = "done"]
    /\ outcome' = [outcome EXCEPT ![t] = "open"]
    /\ UNCHANGED <<failures, opened, stamp, modelUp>>

\* The second read of opened_at finds None: the subtraction raises TypeError.
Raise(t) ==
    /\ at[t] \in {"reading", "reading_late"}
    /\ opened = "None"
    /\ at' = [at EXCEPT ![t] = "raised"]
    /\ UNCHANGED <<failures, opened, stamp, outcome, modelUp>>

\* model.score finds the service up or down and takes its time to say so.
CallModel(t) ==
    /\ at[t] = "calling"
    /\ at' = [at EXCEPT ![t] = IF modelUp THEN "succeeding" ELSE "failing"]
    /\ UNCHANGED <<failures, opened, stamp, outcome, modelUp>>

\* record_success
RecordSuccess(t) ==
    /\ at[t] = "succeeding"
    /\ failures' = 0
    /\ opened' = "None"
    /\ at' = [at EXCEPT ![t] = "done"]
    /\ outcome' = [outcome EXCEPT ![t] = "score"]
    /\ UNCHANGED <<stamp, modelUp>>

\* Mutant: the threshold is passed unnoticed.
RecordFailureUnnoticed(t) ==
    /\ at[t] = "failing"
    /\ failures' = failures + 1
    /\ IF failures' >= Threshold + Cardinality(Worker) /\ opened = "None"
       THEN at' = [at EXCEPT ![t] = "opening"]
       ELSE at' = [at EXCEPT ![t] = "done"]
    /\ stamp' = [stamp EXCEPT ![t] = "fresh"]
    /\ outcome' = [outcome EXCEPT ![t] = "failed"]
    /\ UNCHANGED <<opened, modelUp>>

\* record_failure, up to the reading of the time.
RecordFailure(t) ==
    /\ at[t] = "failing"
    /\ failures' = failures + 1
    /\ IF failures' >= Threshold /\ opened = "None"
       THEN at' = [at EXCEPT ![t] = "opening"]
       ELSE at' = [at EXCEPT ![t] = "done"]
    /\ stamp' = [stamp EXCEPT ![t] = "fresh"]
    /\ outcome' = [outcome EXCEPT ![t] = "failed"]
    /\ UNCHANGED <<opened, modelUp>>

\* record_failure, the assignment: whatever happened since, it opens.
SetOpened(t) ==
    /\ at[t] = "opening"
    /\ opened' = stamp[t]
    /\ at' = [at EXCEPT ![t] = "done"]
    /\ stamp' = [stamp EXCEPT ![t] = "fresh"]
    /\ UNCHANGED <<failures, outcome, modelUp>>

\* The thread leaves the breaker, with an answer or with an exception.
Leave(t) ==
    /\ at[t] \in {"done", "raised"}
    /\ at' = [at EXCEPT ![t] = "idle"]
    /\ outcome' = [outcome EXCEPT ![t] = "none"]
    /\ UNCHANGED <<failures, opened, stamp, modelUp>>

\* The cooldown of the stored stamp, or of one about to be stored, passes.
CooldownPasses ==
    /\ opened = "fresh"
    /\ opened' = "expired"
    /\ UNCHANGED <<failures, at, stamp, outcome, modelUp>>

StampAges(t) ==
    /\ at[t] = "opening" /\ stamp[t] = "fresh"
    /\ stamp' = [stamp EXCEPT ![t] = "expired"]
    /\ UNCHANGED <<failures, opened, at, outcome, modelUp>>

\* The model service dies or comes back (ModelService.up).
ModelFlips ==
    /\ modelUp' = ~modelUp
    /\ UNCHANGED <<failures, opened, at, stamp, outcome>>

-----------------------------------------------------------------------------
\* A thread's passage through the breaker, up to its outcome.
Pass(t) ==
    \/ AskClosed(t) \/ AskOpened(t)
    \/ HalfOpen(t) \/ StillOpen(t) \/ Raise(t)
    \/ CallModel(t)
    \/ RecordSuccess(t) \/ RecordFailure(t) \/ SetOpened(t)

Surroundings == CooldownPasses \/ ModelFlips \/ \E t \in Thread : StampAges(t)

BreakerNext == Surroundings \/ \E t \in Thread : Pass(t) \/ Leave(t)

BreakerSpec == BreakerInit /\ [][BreakerNext]_breakerVars

-----------------------------------------------------------------------------
\* The values the breaker's variables range over.
BreakerTypeOK ==
    /\ failures \in Nat
    /\ opened \in {"None", "fresh", "expired"}
    /\ at \in [Thread -> {"idle", "reading", "reading_late", "calling",
                          "succeeding", "failing", "opening", "done", "raised"}]
    /\ stamp \in [Thread -> {"fresh", "expired"}]
    /\ outcome \in [Thread -> {"none", "score", "failed", "open", "closed"}]
    /\ modelUp \in BOOLEAN

\* A dead model is called at most Threshold times before the breaker opens,
\* plus once for every other worker that was already on its way: the races
\* of the unlocked methods never let a thread slip past an open breaker.
FailuresBounded == failures <= Threshold + Cardinality(Worker) - 1

=============================================================================
