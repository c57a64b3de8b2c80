------------------------------ MODULE Gateway ------------------------------
(***************************************************************************)
(* Gateway.decide of gateway/pipeline.py, run by several request threads,  *)
(* and the endpoint of serve.py around it: validation, hot rules, the      *)
(* velocity count, the features, the model behind the circuit breaker, the *)
(* policy or the degradation tiers, the audit record, the metrics and the  *)
(* answer.  Composes CircuitBreaker and Features.                          *)
(*                                                                         *)
(* Amounts, counts and scores are what the code's comparisons make of      *)
(* them: a tier of DEGRADATION_TIERS, a band of the velocity limits 6 and  *)
(* 12.                                                                     *)
(***************************************************************************)
EXTENDS CircuitBreaker, Features

CONSTANTS
    Request,    \* the requests, each served once
    Tier,       \* the degradation tier of each request's amount
    Quality,    \* what the features of a request may be worth
    Score,      \* scores the model gives, in ten-thousandths
    NoRequest   \* the thread serves nothing

ASSUME GatewayAssumption ==
    /\ Tier \in [Request -> {"low", "mid", "high"}]
    /\ NoRequest \notin Request
    /\ Quality \subseteq Sound
    /\ Score \subseteq 0 .. 9990

VARIABLES
    stage,         \* where a worker is in decide
    req,           \* the request it serves
    velocity,      \* the band of v_card, or "down", until the verdict
    evidence,      \* what its features are worth, until the verdict
    verdict,       \* the decision, its source and what a score was judged on
    velocityUp,    \* the counter store answers
    audit,         \* records handed to the audit log
    answers,       \* decisions returned to callers
    dropped        \* requests whose thread ended in an exception

decideVars == <<stage, req, velocity, evidence, verdict>>
resultVars == <<audit, answers, dropped>>
vars == <<breakerVars, decideVars, velocityUp, resultVars>>

NoEvidence == WithoutCache(TRUE)
NoScore == -1

Verdict(d, s) == [decision |-> d, source |-> s, score |-> NoScore, on |-> NoEvidence]

NoVerdict == Verdict("none", "none")

Verdicts == [decision : {"none", "approve", "review", "decline"},
             source : {"none", "hot_rule", "rules", "model", "degraded_fail_open",
                       "degraded_rules_only", "degraded_fail_closed"},
             score : Score \cup {NoScore},
             on : Quality \cup {NoEvidence}]

Init ==
    /\ BreakerInit
    /\ stage = [w \in Worker |-> "idle"]
    /\ req = [w \in Worker |-> NoRequest]
    /\ velocity = [w \in Worker |-> "none"]
    /\ evidence = [w \in Worker |-> NoEvidence]
    /\ verdict = [w \in Worker |-> NoVerdict]
    /\ velocityUp = TRUE
    /\ audit = {} /\ answers = {} /\ dropped = {}

-----------------------------------------------------------------------------
\* A worker moves from one stage to another.
GoTo(w, from, to) ==
    /\ stage[w] = from
    /\ stage' = [stage EXCEPT ![w] = to]

\* A worker has its verdict: what is left is _finish, which looks at nothing
\* else.
Decide(w, v) ==
    /\ verdict' = [verdict EXCEPT ![w] = v]
    /\ velocity' = [velocity EXCEPT ![w] = "none"]
    /\ evidence' = [evidence EXCEPT ![w] = NoEvidence]

Served == {req[w] : w \in Worker} \cup {a.req : a \in answers} \cup dropped

\* A request arrives; validation and the blocklist let it pass or refuse it.
Receive(w) ==
    /\ \E r \in Request \ Served : req' = [req EXCEPT ![w] = r]
    /\ \/ GoTo(w, "idle", "velocity") /\ UNCHANGED <<velocity, evidence, verdict>>
       \/ GoTo(w, "idle", "log") /\ Decide(w, Verdict("decline", "hot_rule"))
    /\ UNCHANGED <<breakerVars, velocityUp, resultVars>>

\* Mutant: the rules' refusal is not handed to _finish.
CountVelocityUndecided(w) ==
    /\ velocityUp
    /\ \/ /\ GoTo(w, "velocity", "features")
          /\ \E band \in {"calm", "busy"} :
                velocity' = [velocity EXCEPT ![w] = band]
       \/ GoTo(w, "velocity", "log") /\ UNCHANGED velocity
    /\ UNCHANGED <<breakerVars, req, evidence, verdict, velocityUp, resultVars>>

\* incr_and_count returns a count; above 12 the rules decline at once.
CountVelocity(w) ==
    /\ velocityUp
    /\ \/ /\ GoTo(w, "velocity", "features")
          /\ \E band \in {"calm", "busy"} :
                velocity' = [velocity EXCEPT ![w] = band]
          /\ UNCHANGED <<evidence, verdict>>
       \/ /\ GoTo(w, "velocity", "log")
          /\ Decide(w, Verdict("decline", "rules"))
    /\ UNCHANGED <<breakerVars, req, velocityUp, resultVars>>

\* incr_and_count raises Unavailable: the request goes on without a count.
LoseVelocity(w) ==
    /\ ~velocityUp
    /\ GoTo(w, "velocity", "features")
    /\ velocity' = [velocity EXCEPT ![w] = "down"]
    /\ UNCHANGED <<breakerVars, req, evidence, verdict, velocityUp, resultVars>>

\* Mutant: the tiers are compared the wrong way round.
DegradeUpsideDown(r, band) ==
    CASE Tier[r] = "high" -> Verdict("approve", "degraded_fail_open")
      [] Tier[r] = "mid"  -> Verdict(IF band = "busy" THEN "decline" ELSE "approve",
                                     "degraded_rules_only")
      [] Tier[r] = "low"  -> Verdict("review", "degraded_fail_closed")

\* _degrade: fail open, let the velocity count decide, or fail closed.
Degrade(r, band) ==
    CASE Tier[r] = "low"  -> Verdict("approve", "degraded_fail_open")
      [] Tier[r] = "mid"  -> Verdict(IF band = "busy" THEN "decline" ELSE "approve",
                                     "degraded_rules_only")
      [] Tier[r] = "high" -> Verdict("review", "degraded_fail_closed")

\* assemble: with a hard feature missing or stale, or the cache down before the
\* last read, the model is not asked.
Assemble(w) ==
    /\ \/ /\ GoTo(w, "features", "model")
          /\ \E e \in Quality : evidence' = [evidence EXCEPT ![w] = e]
          /\ UNCHANGED <<velocity, verdict>>
       \/ /\ GoTo(w, "features", "log")
          /\ Decide(w, Degrade(req[w], velocity[w]))
    /\ UNCHANGED <<breakerVars, req, velocityUp, resultVars>>

\* The model stage, which is a passage through the breaker.
AskModel(w) ==
    /\ stage[w] = "model"
    /\ Pass(w)
    /\ UNCHANGED <<decideVars, velocityUp, resultVars>>

Judged(score, e) ==
    [decision |-> Judge(score, e), source |-> "model", score |-> score, on |-> e]

\* Mutant: without a score there is no verdict to log.
DecideOnlyScored(w) ==
    /\ at[w] = "done" /\ outcome[w] = "score"
    /\ GoTo(w, "model", "log")
    /\ \E s \in Score : Decide(w, Judged(s, evidence[w]))
    /\ Leave(w)
    /\ UNCHANGED <<req, velocityUp, resultVars>>

\* With a score its side of the thresholds decides, without one the tiers do.
ApplyPolicy(w) ==
    /\ at[w] = "done"
    /\ GoTo(w, "model", "log")
    /\ IF outcome[w] = "score"
       THEN \E s \in Score : Decide(w, Judged(s, evidence[w]))
       ELSE Decide(w, Degrade(req[w], velocity[w]))
    /\ Leave(w)
    /\ UNCHANGED <<req, velocityUp, resultVars>>

\* is_open raised: nothing in decide or the endpoint catches it.
Propagate(w) ==
    /\ at[w] = "raised"
    /\ GoTo(w, "model", "idle")
    /\ dropped' = dropped \cup {req[w]}
    /\ req' = [req EXCEPT ![w] = NoRequest]
    /\ velocity' = [velocity EXCEPT ![w] = "none"]
    /\ evidence' = [evidence EXCEPT ![w] = NoEvidence]
    /\ Leave(w)
    /\ UNCHANGED <<verdict, velocityUp, audit, answers>>

\* What a worker says of its request.
Entry(w) == [req |-> req[w], verdict |-> verdict[w]]

\* Mutant: only decisions of the model are audited.
WriteAuditOfModel(w) ==
    /\ GoTo(w, "log", "answer")
    /\ audit' = IF verdict[w].source = "model" THEN audit \cup {Entry(w)} ELSE audit
    /\ UNCHANGED <<breakerVars, req, velocity, evidence, verdict, velocityUp, answers,
                   dropped>>

\* _finish writes the audit record before anything is returned.
WriteAudit(w) ==
    /\ GoTo(w, "log", "answer")
    /\ audit' = audit \cup {Entry(w)}
    /\ UNCHANGED <<breakerVars, req, velocity, evidence, verdict, velocityUp, answers,
                   dropped>>

\* The endpoint counts and returns the decision.
Answer(w) ==
    /\ GoTo(w, "answer", "idle")
    /\ answers' = answers \cup {Entry(w)}
    /\ req' = [req EXCEPT ![w] = NoRequest]
    /\ Decide(w, NoVerdict)
    /\ UNCHANGED <<breakerVars, velocityUp, audit, dropped>>

\* GET /health reads is_open, and half-opens an expired breaker doing so.
Health(p) == (Pass(p) \/ Leave(p)) /\ UNCHANGED <<decideVars, velocityUp, resultVars>>

\* The counter store dies or comes back.
VelocityFlips ==
    /\ velocityUp' = ~velocityUp
    /\ UNCHANGED <<breakerVars, decideVars, resultVars>>

\* Time passes and the model service comes and goes.
World == Surroundings /\ UNCHANGED <<decideVars, velocityUp, resultVars>>

Serve(w) ==
    \/ CountVelocity(w) \/ LoseVelocity(w) \/ Assemble(w)
    \/ AskModel(w) \/ ApplyPolicy(w) \/ Propagate(w)
    \/ WriteAudit(w) \/ Answer(w)

Next ==
    \/ \E w \in Worker : Receive(w) \/ Serve(w)
    \/ \E p \in Prober : Health(p)
    \/ VelocityFlips
    \/ World

Spec == Init /\ [][Next]_vars

(***************************************************************************)
(* Fairness: a thread that serves a request is not starved, time passes,   *)
(* and /health is asked again and again: the HEALTHCHECK of the Dockerfile *)
(* does so every 30 s.  Nothing is assumed of the requests that arrive.    *)
(***************************************************************************)
FairSpec ==
    /\ Spec
    /\ \A w \in Worker : WF_vars(Serve(w))
    /\ \A p \in Prober : WF_vars(Health(p))
    /\ WF_vars(CooldownPasses /\ UNCHANGED <<decideVars, velocityUp, resultVars>>)

-----------------------------------------------------------------------------
\* The values the gateway's variables range over; what leaves the gateway is a
\* decision on a request.
TypeOK ==
    /\ BreakerTypeOK
    /\ stage \in [Worker -> {"idle", "velocity", "features", "model", "log",
                             "answer"}]
    /\ req \in [Worker -> Request \cup {NoRequest}]
    /\ velocity \in [Worker -> {"none", "calm", "busy", "down"}]
    /\ evidence \in [Worker -> Quality \cup {NoEvidence}]
    /\ verdict \in [Worker -> Verdicts]
    /\ velocityUp \in BOOLEAN
    /\ \A e \in audit \cup answers :
          e.req \in Request /\ e.verdict.decision \in {"approve", "review", "decline"}
    /\ dropped \subseteq Request

\* No caller holds a decision the audit log does not have, and the log has at
\* most one decision for a request: the record comes before the answer on
\* every one of decide's five ways out.
AnswerIsAudited ==
    /\ answers \subseteq audit
    /\ \A a, b \in audit : a.req = b.req => a = b

\* A large payment is never approved but by a score of the model, whatever the
\* breaker, the counter store and the feature cache did meanwhile; and a score
\* is never used that another request or a thread's earlier call obtained.
LargeNeedsModel ==
    /\ \A a \in answers :
          Tier[a.req] = "high" /\ a.verdict.decision = "approve" => a.verdict.source = "model"
    /\ \A w \in Worker : stage[w] # "model" => outcome[w] = "none"

\* e and f are the same features, and what is stale in f is so in e; without a
\* cache f is not partial unless e is.
NoFresher(e, f) ==
    e.values = f.values /\ f.stale \subseteq e.stale /\ (e.complete => f.complete)

\* Of two payments with the same score and the same features, the one whose
\* features are staler never gets the milder decision: discount and fifth do not
\* cross.  It says nothing of a soft feature that is missing: decide judges its
\* payment like one that has the feature fresh.
StalenessTightens ==
    \A a, b \in answers :
        /\ a.verdict.source = "model" /\ b.verdict.source = "model"
        /\ a.verdict.score = b.verdict.score
        /\ NoFresher(a.verdict.on, b.verdict.on)
        => Strictness[a.verdict.decision] >= Strictness[b.verdict.decision]

\* A request that was taken is answered or ends in an exception: neither a
\* dead model nor a dead counter store nor an open breaker holds it up.
RequestEnds ==
    \A r \in Request :
        r \in {req[w] : w \in Worker} ~>
            r \in {a.req : a \in answers} \cup dropped

\* When the model is back for good the breaker closes for good, whatever late
\* stamp or late failure of the outage is still on its way, and although no
\* request need reach the model any more: the probes of /health half-open it.
ClosesWhenProbed == <>[]modelUp => <>[](opened = "None")

\* README "The gateway must still answer every request", with the model, the
\* counter store or both down.
EveryRequestAnswered == dropped = {}
=============================================================================
