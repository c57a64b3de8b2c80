---------------------------- MODULE VelocityGate ----------------------------
(***************************************************************************)
(* VelocityGate of gateway/velocity_policy.py in front of the counters of  *)
(* Velocity.  A thread calls the counter; when it has returned or raised,  *)
(* the thread knows what to decide, and bumps a statistic for it later and *)
(* without a lock.  Each bump is one increment, in which the CPython 3.12  *)
(* of the Dockerfile does not switch threads: it does so at calls and at   *)
(* jumps back.                                                             *)
(***************************************************************************)
EXTENDS Velocity

CONSTANT Limit   \* threshold

ASSUME GateAssumption == Limit \in Nat

VARIABLES
    seen, blindApprovals, blindDeclines, overBudget,  \* the statistics
    available,  \* SafeCounter.available, RedisVelocity.available
    waits,      \* the script whose reply a thread waits for, if it does: {} or {s}
    outcome,    \* what a thread has read and not yet counted, or "none"
    last        \* the last decision by a count, [approved, n, at, now]: n events
                \* were recorded and it was at o'clock

statVars == <<seen, blindApprovals, blindDeclines, overBudget>>
threadVars == <<waits, outcome>>
gateVars == <<statVars, available, threadVars, last>>

GateInit ==
    /\ Init
    /\ seen = 0 /\ blindApprovals = 0 /\ blindDeclines = 0 /\ overBudget = 0
    /\ available = TRUE
    /\ waits = [t \in Thread |-> {}]
    /\ outcome = [t \in Thread |-> "none"]
    /\ last = [approved |-> TRUE, n |-> 0, at |-> 0, now |-> 0]

-----------------------------------------------------------------------------
\* A thread has no request in hand.
Free(t) == at[t] = "idle" /\ waits[t] = {} /\ outcome[t] = "none"

\* VelocityOutcome, of a counter that returned or raised.
Outcome(t, what) == outcome' = [outcome EXCEPT ![t] = what]

\* Mutant: the event after the threshold is let through.
DecideOneMore(t) ==
    /\ Outcome(t, "seen")
    /\ last' = [approved |-> got'.count <= Limit + 1,
                n |-> Len(log'), at |-> clock, now |-> got'.now]

\* The counter returned, in time or over the budget: its count decides.
DecideByCount(t) ==
    /\ Outcome(t, "seen")
    /\ last' = [approved |-> got'.count <= Limit,
                n |-> Len(log'), at |-> clock, now |-> got'.now]

\* decide or count calls a SafeCounter; count does not look whether it is there.
CallSafe(t) ==
    /\ Free(t)
    /\ CallLocal(t)
    /\ available \/ ~call'[t].adds
    /\ UNCHANGED gateVars

\* incr_and_count of a SafeCounter returns; count goes past the gate.
ReturnSafe(t) ==
    /\ ReturnLocal(t)
    /\ IF call[t].adds
       THEN DecideByCount(t) /\ UNCHANGED <<statVars, available, waits>>
       ELSE UNCHANGED gateVars

\* decide calls a RedisVelocity.
CallRedis(t) ==
    /\ Free(t) /\ available
    /\ \E i \in Instance, now \in RequestTimes :
          SendScript(i, now) /\ waits' = [waits EXCEPT ![t] = {Script(i, now)}]
    /\ UNCHANGED <<statVars, available, outcome, last>>

\* The script runs, and its reply arrives.
Reply(t) ==
    /\ \E s \in wire : s \in waits[t] /\ RunScript(s)
    /\ waits' = [waits EXCEPT ![t] = {}]
    /\ DecideByCount(t)
    /\ UNCHANGED <<statVars, available>>

\* The script runs, and the connection breaks before the reply arrives.
LoseReply(t) ==
    /\ \E s \in wire : s \in waits[t] /\ RunScript(s)
    /\ waits' = [waits EXCEPT ![t] = {}]
    /\ Outcome(t, "blind")
    /\ UNCHANGED <<statVars, available, last>>

\* socket_timeout, or no connection at all.  The script may still be on its way.
GiveUp(t) ==
    /\ waits[t] # {}
    /\ waits' = [waits EXCEPT ![t] = {}]
    /\ Outcome(t, "blind")
    /\ UNCHANGED <<vars, statVars, available, last>>

\* A script nobody waits for runs, or never does.
Orphan(s) == \A t \in Thread : s \notin waits[t]

Late ==
    /\ \E s \in wire : Orphan(s) /\ (RunScript(s) \/ LoseScript(s))
    /\ UNCHANGED gateVars

\* decide while the drills have the counter switched off.
CallOff(t) ==
    /\ Free(t) /\ ~available /\ calls < MaxCalls
    /\ calls' = calls + 1
    /\ Outcome(t, "blind")
    /\ UNCHANGED <<backend, lead, clock, log, got, localVars, redisVars>>
    /\ UNCHANGED <<statVars, available, waits, last>>

-----------------------------------------------------------------------------
\* The thread is done.  over_budget is bumped before the others, and nothing is
\* said of it but how far it goes.
Finished(t, late) ==
    /\ outcome' = [outcome EXCEPT ![t] = "none"]
    /\ overBudget' \in {overBudget, overBudget + late}
    /\ UNCHANGED <<vars, available, waits, last>>

\* Mutant: a late count is over the budget twice, for read and for decide.
SeeLateTwice(t) ==
    /\ outcome[t] = "seen"
    /\ seen' = seen + 1
    /\ Finished(t, 2) /\ UNCHANGED <<blindApprovals, blindDeclines>>

\* self.seen += 1
See(t) ==
    /\ outcome[t] = "seen"
    /\ seen' = seen + 1
    /\ Finished(t, 1) /\ UNCHANGED <<blindApprovals, blindDeclines>>

\* Mutant: a payment that is declined unseen is no statistic.
GoBlindUncounted(t) ==
    /\ outcome[t] = "blind"
    /\ blindApprovals' \in {blindApprovals, blindApprovals + 1}
    /\ Finished(t, 1) /\ UNCHANGED <<seen, blindDeclines>>

\* The counter raised: the amount decides, against the ceiling.
GoBlind(t) ==
    /\ outcome[t] = "blind"
    /\ \/ blindApprovals' = blindApprovals + 1 /\ UNCHANGED blindDeclines
       \/ blindDeclines' = blindDeclines + 1 /\ UNCHANGED blindApprovals
    /\ Finished(t, 1) /\ UNCHANGED seen

-----------------------------------------------------------------------------
\* The drills switch the counter.
Flip ==
    /\ available' = ~available
    /\ UNCHANGED <<vars, statVars, threadVars, last>>

Within ==
    /\ \/ Tick \/ RunCountOnly
       \/ \E t \in Thread : TakeLock(t) \/ LookAtHead(t) \/ PopHead(t)
    /\ UNCHANGED gateVars

Decide(t) ==
    \/ CallSafe(t) \/ ReturnSafe(t)
    \/ CallRedis(t) \/ Reply(t) \/ LoseReply(t) \/ GiveUp(t)
    \/ CallOff(t)
    \/ See(t) \/ GoBlind(t)

GateNext == Flip \/ Within \/ Late \/ \E t \in Thread : Decide(t)

\* stats: a decision that was not made blind was made on a count.
Stats == [seen |-> seen, decisions |-> seen + blindApprovals + blindDeclines]

GateSpec == GateInit /\ [][GateNext]_<<vars, gateVars>>

-----------------------------------------------------------------------------
\* The values the gate's variables range over.
GateTypeOK ==
    /\ TypeOK
    /\ {seen, blindApprovals, blindDeclines, overBudget} \subseteq 0 .. MaxCalls
    /\ available \in BOOLEAN
    /\ \A t \in Thread : waits[t] = {} \/ \E s \in wire : waits[t] = {s}
    /\ outcome \in [Thread -> {"none", "seen", "blind"}]
    /\ last \in [approved : BOOLEAN, n : Nat, at : Nat, now : Nat]

\* A payment that was approved on a count is one of at most Limit that were made
\* in the window then, and one that was declined on a count is one of more than
\* Limit made in the window of its own time: late, reordered and lost scripts and
\* racing threads neither let a burst through nor turn a quiet card down.  Of a
\* SafeCounter the second is true when its requests came in the order of their
\* times.  It trims the head of the deque only (velocity.py:64), and what is over
\* behind a younger head is counted: with a threshold of 2, a window of 2 and
\* requests of 3, 2 and 4, the last is declined though two are in its window.
DecidesByWindow ==
    LET since(time) == {i \in 1 .. last.n : log[i].now > time - Window}
        inOrder == \A i, j \in 1 .. last.n : i < j => log[i].now <= log[j].now
    IN  IF last.approved
        THEN Cardinality(since(last.at + lead)) <= Limit
        ELSE backend = "redis" \/ inOrder => Cardinality(since(last.now)) > Limit

\* An event is in the statistics although its reply was lost: what the counter
\* holds is covered by the decisions and by those about to be counted, and
\* blind_rate cannot stay zero while an event is counted that nobody saw.
BlindIsCounted ==
    LET pending == {t \in Thread : outcome[t] # "none"}
    IN  /\ Stats.seen <= Len(log)
        /\ Len(log) <= Stats.decisions + Cardinality(pending)
=============================================================================
