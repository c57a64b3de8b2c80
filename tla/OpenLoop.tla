------------------------------ MODULE OpenLoop ------------------------------
(***************************************************************************)
(* OpenLoopDriver of run_soak.py on a gateway: one thread offers requests  *)
(* on a schedule of its own, through a bounded queue, to worker threads    *)
(* that call decide; what the queue does not take is shed.  Runs of one    *)
(* driver follow each other: a warm-up and a measured run, or the segments *)
(* of the soak.  Of decide the passage through the circuit breaker is      *)
(* modelled, the only step that can raise.                                 *)
(*                                                                         *)
(* latencies and errors belong to the driver and grow from run to run.  A  *)
(* report cuts the latencies to the window of its run; its errors are all  *)
(* those since the driver was made.                                        *)
(***************************************************************************)
EXTENDS CircuitBreaker

CONSTANTS
    MaxQueue,    \* max_queue
    MaxOffered,  \* bound of what a run offers in its duration
    MaxRuns      \* the runs of one driver

ASSUME OpenLoopAssumption ==
    MaxQueue \in Nat \ {0} /\ MaxOffered \in Nat /\ MaxRuns \in Nat

VARIABLES
    phase,       \* the thread of run: "idle", "sending" or "joining"
    queue,       \* requests in the queue
    unfinished,  \* the queue's count of tasks that are not done
    job,         \* what a worker has in hand
    sent, dropped,      \* what the run has offered and shed
    latencies, errors,  \* what the workers have counted, len(latencies) and errors
    before,      \* len(latencies) when the run began
    earlier,     \* history: errors when the run began
    report,      \* what the latest run returned
    runs,        \* how many runs there were
    stop         \* shutdown was called

runVars == <<before, earlier, report, runs>>
driverVars == <<phase, sent, dropped, stop, runVars>>
countVars == <<latencies, errors>>
loopVars == <<driverVars, queue, unfinished, job, countVars>>
vars == <<breakerVars, loopVars>>

Init ==
    /\ BreakerInit
    /\ phase = "idle" /\ stop = FALSE
    /\ queue = 0 /\ unfinished = 0
    /\ job = [w \in Worker |-> "none"]
    /\ sent = 0 /\ dropped = 0 /\ latencies = 0 /\ errors = 0
    /\ before = 0 /\ earlier = 0 /\ runs = 0
    /\ report = [offered |-> 0, completed |-> 0, shed |-> 0, errors |-> 0]

-----------------------------------------------------------------------------
StartRun ==
    /\ phase = "idle" /\ ~stop /\ runs < MaxRuns
    /\ phase' = "sending" /\ runs' = runs + 1
    /\ sent' = 0 /\ dropped' = 0
    /\ before' = latencies /\ earlier' = errors
    /\ UNCHANGED <<breakerVars, queue, unfinished, job, countVars, report, stop>>

\* A request is due: put_nowait takes it or raises Full.
Offer ==
    /\ phase = "sending" /\ sent < MaxOffered
    /\ sent' = sent + 1
    /\ IF queue < MaxQueue
       THEN queue' = queue + 1 /\ unfinished' = unfinished + 1 /\ UNCHANGED dropped
       ELSE dropped' = dropped + 1 /\ UNCHANGED <<queue, unfinished>>
    /\ UNCHANGED <<breakerVars, phase, job, countVars, runVars, stop>>

\* The duration is over.
EndSending ==
    /\ phase = "sending"
    /\ phase' = "joining"
    /\ UNCHANGED <<breakerVars, sent, dropped, stop, runVars,
                   queue, unfinished, job, countVars>>

\* run returns.
Return ==
    /\ phase' = "idle"
    /\ report' = [offered |-> sent, completed |-> latencies - before,
                  shed |-> dropped, errors |-> errors]
    /\ UNCHANGED <<breakerVars, sent, dropped, stop, before, earlier, runs,
                   queue, unfinished, job, countVars>>

\* Mutant: the run ends when the queue is empty.
JoinEmpty == phase = "joining" /\ queue = 0 /\ Return

\* join returns, and run with it.
Join == phase = "joining" /\ unfinished = 0 /\ Return

\* After the warm-up main clears the latencies, and only these.
ClearLatencies ==
    /\ phase = "idle" /\ latencies > 0
    /\ latencies' = 0
    /\ UNCHANGED <<breakerVars, driverVars, queue, unfinished, job, errors>>

Shutdown ==
    /\ phase = "idle" /\ ~stop
    /\ stop' = TRUE
    /\ UNCHANGED <<breakerVars, phase, sent, dropped, runVars,
                   queue, unfinished, job, countVars>>

-----------------------------------------------------------------------------
Has(w, from, to) ==
    /\ job[w] = from
    /\ job' = [job EXCEPT ![w] = to]

\* get: a request that will need the model, or one that decide settles before,
\* its features missing or its card over the velocity limit.
Take(w, need) ==
    /\ Has(w, "none", need)
    /\ queue > 0
    /\ queue' = queue - 1
    /\ UNCHANGED <<breakerVars, driverVars, unfinished, countVars>>

AskModel(w) ==
    /\ job[w] = "model"
    /\ Pass(w)
    /\ UNCHANGED loopVars

\* decide returns and the latency is appended under the lock.
Complete(w) ==
    /\ \/ Has(w, "model", "counted") /\ at[w] = "done" /\ Leave(w)
       \/ Has(w, "early", "counted") /\ UNCHANGED breakerVars
    /\ latencies' = latencies + 1
    /\ UNCHANGED <<driverVars, queue, unfinished, errors>>

\* decide raises, and the error is counted under the lock.
Catch(w) ==
    /\ Has(w, "model", "counted") /\ at[w] = "raised" /\ Leave(w)
    /\ errors' = errors + 1
    /\ UNCHANGED <<driverVars, queue, unfinished, latencies>>

\* Mutant: not in a finally clause.
TaskDoneUnlessRaised(w) ==
    /\ Has(w, "counted", "none")
    /\ unfinished' = IF errors = 0 THEN unfinished - 1 ELSE unfinished
    /\ UNCHANGED <<breakerVars, driverVars, queue, countVars>>

\* task_done, in the finally clause.
TaskDone(w) ==
    /\ Has(w, "counted", "none")
    /\ unfinished' = unfinished - 1
    /\ UNCHANGED <<breakerVars, driverVars, queue, countVars>>

\* The worker sees the stop and ends.
Exit(w) ==
    /\ stop
    /\ Has(w, "none", "left")
    /\ UNCHANGED <<breakerVars, driverVars, queue, unfinished, countVars>>

-----------------------------------------------------------------------------
Run == StartRun \/ Offer \/ EndSending \/ Join

Settle(w) ==
    \/ Take(w, "model") \/ Take(w, "early")
    \/ AskModel(w) \/ Complete(w) \/ Catch(w) \/ TaskDone(w)

\* GET /health of serve.py looks at the breaker.
Probe(p) == (Pass(p) \/ Leave(p)) /\ UNCHANGED loopVars

World == Surroundings /\ UNCHANGED loopVars

Next ==
    \/ Run \/ ClearLatencies \/ Shutdown
    \/ \E w \in Worker : Settle(w) \/ Exit(w)
    \/ \E p \in Prober : Probe(p)
    \/ World

Spec == Init /\ [][Next]_vars

\* Fairness: neither the driver's thread nor a worker is starved.
FairSpec == Spec /\ WF_vars(Run) /\ \A w \in Worker : WF_vars(Settle(w))

-----------------------------------------------------------------------------
\* The values the variables range over.
TypeOK ==
    /\ BreakerTypeOK
    /\ phase \in {"idle", "sending", "joining"} /\ stop \in BOOLEAN
    /\ queue \in 0 .. MaxQueue /\ unfinished \in Nat
    /\ job \in [Worker -> {"none", "model", "early", "counted", "left"}]
    /\ sent \in 0 .. MaxOffered
    /\ dropped \in Nat /\ latencies \in Nat /\ errors \in Nat
    /\ before \in Nat /\ earlier \in Nat /\ runs \in 0 .. MaxRuns
    /\ report \in [offered : Nat, completed : Nat, shed : Nat, errors : Nat]

\* What a run returns adds up, in every run of the driver: what it offered it
\* completed or shed or an error ended it, none of it still in a worker's hand.
\* Of the errors it returns, those that the driver had counted before the run
\* began have to be taken off: errors is never reset.
ReportAddsUp ==
    phase = "idle" =>
        report.offered = report.completed + report.shed + (report.errors - earlier)

\* run returns: nothing decide raises keeps join from returning.
RunReturns == phase = "joining" ~> phase = "idle"
=============================================================================
