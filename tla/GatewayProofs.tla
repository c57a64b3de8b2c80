--------------------------- MODULE GatewayProofs ----------------------------
(***************************************************************************)
(* Proofs about Gateway, for any number of request threads, probes and     *)
(* requests, any threshold, and any features and scores: the types, that   *)
(* an answer was audited first and once, that a large payment needs a      *)
(* score, that no decision is milder for features that are the same but    *)
(* staler, that the gateway implements the breaker's specification, and    *)
(* which requests end without an answer.                                   *)
(***************************************************************************)
EXTENDS Gateway, FiniteSetTheorems, TLAPS

Decisions == {"approve", "review", "decline"}

\* A decision decide may make of a request: no approval of a large payment but
\* by the model, and what the model decides is the policy's.
Proper(r, v) ==
    /\ v.decision \in Decisions
    /\ Tier[r] = "high" /\ v.decision = "approve" => v.source = "model"
    /\ v.source = "model" =>
          /\ v.score \in Score /\ v.on \in Sound
          /\ v.decision = Judge(v.score, v.on)

\* A worker has a request from Receive to its end, no two the same, and from
\* the verdict on a proper decision; off the model it has nothing of the
\* breaker's.
WorkerInv ==
    /\ \A w \in Worker :
          /\ stage[w] = "idle" <=> req[w] = NoRequest
          /\ stage[w] \in {"log", "answer"} => Proper(req[w], verdict[w])
          /\ stage[w] # "model" => at[w] = "idle" /\ outcome[w] = "none"
    /\ \A w, x \in Worker : w # x /\ req[w] = req[x] => req[w] = NoRequest

\* The audit log has one proper record for each answer, and one for each worker
\* about to answer.
LedgerInv ==
    /\ AnswerIsAudited
    /\ \A a \in audit :
          /\ Proper(a.req, a.verdict)
          /\ a \in answers \/ \E w \in Worker : stage[w] = "answer" /\ a = Entry(w)
    /\ \A w \in Worker :
          /\ stage[w] = "answer" => Entry(w) \in audit
          /\ \A a \in answers : a.req # req[w]

-----------------------------------------------------------------------------
\* What a model may be asked on: what is stale is a part of the features there
\* are, and makes them incomplete; without any, a cache there was not.
LEMMA SoundEvidence ==
    ASSUME NEW e \in Sound
    PROVE  /\ IsFiniteSet(e.stale) /\ Cardinality(e.stale) \in Nat
           /\ e.complete \in BOOLEAN /\ (e.complete => e.stale = {})
           /\ e.values = {} => e.stale = {}
           /\ e.values # {} => e.complete \/ e.stale # {}
<1>1. CASE \E up \in BOOLEAN : e = WithoutCache(up)
  <2>1. /\ e.stale = {} /\ e.values = {} /\ e.complete \in BOOLEAN
    BY <1>1 DEF WithoutCache
  <2> QED  BY <2>1, FS_EmptySet
<1>2. ASSUME NEW age, NEW n \in 0 .. Len(Wanted), Usable(Assembled(age, n)),
             e = Evidence(Assembled(age, n))
      PROVE  /\ IsFiniteSet(e.stale) /\ Cardinality(e.stale) \in Nat
             /\ e.complete \in BOOLEAN /\ (e.complete => e.stale = {})
             /\ e.values = {} => e.stale = {}
             /\ e.values # {} => e.complete \/ e.stale # {}
  <2> DEFINE b == Assembled(age, n)
             soft == {"device_history", "card_tenure_days"}
  <2>1. b.stale_soft \in SUBSET soft
    BY DEF Assembled, Wanted, Freshness
  <2>2. IsFiniteSet(soft)
    <3>1. soft = ({} \cup {"device_history"}) \cup {"card_tenure_days"}  OBVIOUS
    <3>2. IsFiniteSet({} \cup {"device_history"})  BY FS_EmptySet, FS_AddElement
    <3>3. IsFiniteSet(({} \cup {"device_history"}) \cup {"card_tenure_days"})
      BY <3>2, FS_AddElement, Zenon
    <3> QED  BY <3>1, <3>3, Zenon
  <2>3. IsFiniteSet(b.stale_soft) /\ Cardinality(b.stale_soft) \in Nat
    BY <2>1, <2>2, FS_Subset, FS_CardinalityType
  <2>4. b.missing_hard = {} /\ ~b.cache_down
    BY <1>2 DEF Usable
  <2>5. b.stale_soft \subseteq b.values
    <3>1. \A f \in {Wanted[i] : i \in 1 .. n} : Freshness[f] = "soft" /\ Stale(f, age[f]) =>
            age[f] # Never /\ Freshness[f] # "hard"
      <4> SUFFICES ASSUME NEW i \in 1 .. n, Freshness[Wanted[i]] = "soft",
                          Stale(Wanted[i], age[Wanted[i]])
                   PROVE  age[Wanted[i]] # Never
        OBVIOUS
      <4>1. Ttl[Wanted[i]] > 0 /\ age[Wanted[i]] > Ttl[Wanted[i]]
        BY DEF Stale
      <4>2. Ttl[Wanted[i]] \in Int
        BY DEF Ttl, Wanted
      <4> QED  BY <4>1, <4>2 DEF Never
    <3> QED  BY <3>1 DEF Assembled
  <2>6. /\ e.stale = b.stale_soft /\ e.values = b.values
        /\ e.complete = (b.missing_hard \cup b.stale_soft = {} /\ ~b.cache_down)
    BY <1>2 DEF Evidence
  <2> HIDE DEF b
  <2> QED  BY <2>3, <2>4, <2>5, <2>6
<1>3. ASSUME NEW b \in Bundles, Usable(b), e = Evidence(b)
      PROVE  \E age : \E n \in 0 .. Len(Wanted) :
                Usable(Assembled(age, n)) /\ e = Evidence(Assembled(age, n))
  <2>1. PICK age \in [DOMAIN Ttl -> Ages], n \in 0 .. Len(Wanted) : b = Assembled(age, n)
    BY DEF Bundles
  <2> QED  BY <1>3, <2>1
<1>4. \/ \E up \in BOOLEAN : e = WithoutCache(up)
      \/ \E b \in Bundles : Usable(b) /\ e = Evidence(b)
  BY DEF Sound
<1> QED  BY <1>1, <1>2, <1>3, <1>4

\* On the same features, staler ones lower the threshold from which a score
\* declines.
LEMMA StalerIsLower ==
    ASSUME NEW e \in Sound, NEW f \in Sound, NoFresher(e, f)
    PROVE  /\ DeclineThreshold(e) \in Int /\ DeclineThreshold(f) \in Int
           /\ DeclineThreshold(e) <= DeclineThreshold(f)
<1> DEFINE m == Cardinality(e.stale)  k == Cardinality(f.stale)
<1>1. /\ m \in Nat /\ k \in Nat /\ k <= m
  BY SoundEvidence, FS_Subset DEF NoFresher
<1>2. /\ m = 0 <=> e.stale = {}
      /\ k = 0 <=> f.stale = {}
  BY SoundEvidence, FS_EmptySet
<1>3. /\ e.complete \in BOOLEAN /\ f.complete \in BOOLEAN
      /\ e.complete => m = 0 /\ f.complete
      /\ f.complete => k = 0
      /\ m # 0 => f.complete \/ k # 0
  BY <1>2, SoundEvidence DEF NoFresher
<1>4. /\ \A n \in Nat : ((5 * n) * 7500) \div 100 = 375 * n
      /\ (7500 * 8) \div 10 = 6000
  OBVIOUS
<1>5. /\ DeclineThreshold(e) = IF 5 * m > 0 THEN 7500 - ((5 * m) * 7500) \div 100
                                 ELSE IF e.complete THEN 7500 ELSE (7500 * 8) \div 10
      /\ DeclineThreshold(f) = IF 5 * k > 0 THEN 7500 - ((5 * k) * 7500) \div 100
                                 ELSE IF f.complete THEN 7500 ELSE (7500 * 8) \div 10
  BY DEF DeclineThreshold, Discount, ModelThreshold
<1> HIDE DEF m, k
<1>6. /\ DeclineThreshold(e) = IF m > 0 THEN 7500 - 375 * m
                                 ELSE IF e.complete THEN 7500 ELSE 6000
      /\ DeclineThreshold(f) = IF k > 0 THEN 7500 - 375 * k
                                 ELSE IF f.complete THEN 7500 ELSE 6000
  BY <1>1, <1>4, <1>5
<1> QED  BY <1>1, <1>3, <1>6

\* A lower threshold never makes the policy milder.
LEMMA LowerIsStricter ==
    ASSUME NEW e, NEW f, NEW s \in Int,
           DeclineThreshold(e) \in Int, DeclineThreshold(f) \in Int,
           DeclineThreshold(e) <= DeclineThreshold(f)
    PROVE  Strictness[Judge(s, e)] >= Strictness[Judge(s, f)]
<1>1. /\ Strictness["approve"] = 0 /\ Strictness["review"] = 1
      /\ Strictness["decline"] = 2
  BY DEF Strictness
<1> DEFINE t == DeclineThreshold(e)  u == DeclineThreshold(f)
<1>2. /\ s >= t => Judge(s, e) = "decline"
      /\ s < t /\ 10 * s >= 8 * t => Judge(s, e) = "review"
      /\ s < t /\ 10 * s < 8 * t => Judge(s, e) = "approve"
  BY DEF Judge
<1>3. /\ s >= u => Judge(s, f) = "decline"
      /\ s < u /\ 10 * s >= 8 * u => Judge(s, f) = "review"
      /\ s < u /\ 10 * s < 8 * u => Judge(s, f) = "approve"
  BY DEF Judge
<1> HIDE DEF t, u
<1>4. t \in Int /\ u \in Int /\ t <= u  BY DEF t, u
<1> QED  BY <1>1, <1>2, <1>3, <1>4


\* The policy makes one of the three decisions.
LEMMA JudgeType == ASSUME NEW s, NEW e PROVE Judge(s, e) \in Decisions
BY DEF Judge, Decisions

\* A lost or late model leaves a proper decision too.
LEMMA DegradeIsProper ==
    ASSUME NEW r \in Request, NEW band
    PROVE  Proper(r, Degrade(r, band))
<1>1. Tier[r] \in {"low", "mid", "high"}  BY GatewayAssumption
<1> QED  BY <1>1 DEF Proper, Degrade, Verdict, Decisions

\* So does a score.
LEMMA JudgedIsProper ==
    ASSUME NEW r \in Request, NEW s \in Score, NEW e \in Sound
    PROVE  Proper(r, Judged(s, e))
BY JudgeType DEF Proper, Judged

\* What a worker holds before the features are read is possible evidence too.
LEMMA NoEvidenceIsSound == NoEvidence \in Sound
BY DEF NoEvidence, Sound

-----------------------------------------------------------------------------
\* Every step is one of the breaker's or leaves the breaker alone.
LEMMA BreakerPart == [Next]_vars => [BreakerNext]_breakerVars
BY DEF Next, vars, Receive, Serve, CountVelocity, LoseVelocity, Assemble, AskModel,
       ApplyPolicy, Propagate, WriteAudit, Answer, Health, VelocityFlips, World,
       BreakerNext, Thread

\* The breaker keeps its types.
LEMMA BreakerType ==
    ASSUME BreakerTypeOK, [BreakerNext]_breakerVars
    PROVE  BreakerTypeOK'
<1> USE DEF BreakerTypeOK
<1>1. ASSUME NEW t \in Thread, Pass(t)  PROVE BreakerTypeOK'
  <2>1. CASE AskClosed(t) \/ HalfOpen(t)
    BY <2>1 DEF AskClosed, HalfOpen, Admit
  <2>2. CASE AskOpened(t) \/ StillOpen(t) \/ Raise(t)
    BY <2>2 DEF AskOpened, StillOpen, Raise
  <2>3. CASE CallModel(t) \/ RecordSuccess(t)
    BY <2>3 DEF CallModel, RecordSuccess
  <2>4. CASE RecordFailure(t) \/ SetOpened(t)
    BY <2>4 DEF RecordFailure, SetOpened
  <2> QED  BY <1>1, <2>1, <2>2, <2>3, <2>4 DEF Pass
<1>2. ASSUME NEW t \in Thread, Leave(t)  PROVE BreakerTypeOK'
  BY <1>2 DEF Leave
<1>3. CASE Surroundings \/ UNCHANGED breakerVars
  BY <1>3 DEF Surroundings, CooldownPasses, ModelFlips, StampAges, breakerVars
<1> QED  BY <1>1, <1>2, <1>3 DEF BreakerNext

\* A thread in the breaker moves nobody but itself.
LEMMA OthersStay ==
    ASSUME BreakerTypeOK, NEW t \in Thread, Pass(t) \/ Leave(t)
    PROVE  \A u \in Thread \ {t} : at'[u] = at[u] /\ outcome'[u] = outcome[u]
<1>1. /\ \E place : at' = [at EXCEPT ![t] = place]
      /\ outcome' = outcome \/ \E known : outcome' = [outcome EXCEPT ![t] = known]
  BY DEF Pass, Leave, AskClosed, AskOpened, HalfOpen, StillOpen, Raise,
         CallModel, RecordSuccess, RecordFailure, SetOpened, Admit
<1> QED  BY <1>1 DEF BreakerTypeOK

-----------------------------------------------------------------------------
\* What decide may say is a verdict.
LEMMA VerdictTypes ==
    /\ NoVerdict \in Verdicts
    /\ Verdict("decline", "hot_rule") \in Verdicts
    /\ Verdict("decline", "rules") \in Verdicts
    /\ \A band : \A r \in Request : Degrade(r, band) \in Verdicts
    /\ \A s \in Score, e \in Quality \cup {NoEvidence} : Judged(s, e) \in Verdicts
<1>1. \A r \in Request : Tier[r] \in {"low", "mid", "high"}  BY GatewayAssumption
<1>2. \A band : \A r \in Request : Degrade(r, band) \in Verdicts
  BY <1>1 DEF Degrade, Verdict, Verdicts
<1>3. \A s \in Score, e \in Quality \cup {NoEvidence} : Judged(s, e) \in Verdicts
  BY JudgeType DEF Judged, Verdicts, Decisions
<1> QED  BY <1>2, <1>3 DEF NoVerdict, Verdict, Verdicts

\* Handing an answer over keeps the types.
LEMMA AnswerType ==
    ASSUME TypeOK, NEW w \in Worker, Answer(w), BreakerTypeOK',
           req[w] \in Request, verdict[w].decision \in Decisions
    PROVE  TypeOK'
<1>1. /\ UNCHANGED <<velocityUp, audit, dropped>>
      /\ answers' = answers \cup {Entry(w)}
      /\ stage' = [stage EXCEPT ![w] = "idle"]
      /\ req' = [req EXCEPT ![w] = NoRequest]
      /\ verdict' = [verdict EXCEPT ![w] = NoVerdict]
      /\ velocity' = [velocity EXCEPT ![w] = "none"]
      /\ evidence' = [evidence EXCEPT ![w] = NoEvidence]
  BY DEF Answer, GoTo, Decide
<1>2. \A e \in audit' \cup answers' :
        e.req \in Request /\ e.verdict.decision \in Decisions
  <2>1. \A e \in audit \cup answers :
          e.req \in Request /\ e.verdict.decision \in Decisions
    BY DEF TypeOK, Decisions
  <2>2. Entry(w).req \in Request /\ Entry(w).verdict.decision \in Decisions
    BY DEF Entry
  <2> QED  BY <1>1, <2>1, <2>2
<1>3. stage' \in [Worker -> {"idle", "velocity", "features", "model", "log", "answer"}]
  BY <1>1 DEF TypeOK
<1>4. req' \in [Worker -> Request \cup {NoRequest}]
  BY <1>1 DEF TypeOK
<1>5. velocity' \in [Worker -> {"none", "calm", "busy", "down"}]
  BY <1>1 DEF TypeOK
<1>6. evidence' \in [Worker -> Quality \cup {NoEvidence}]
  BY <1>1 DEF TypeOK
<1>7. verdict' \in [Worker -> Verdicts]
  BY <1>1, VerdictTypes DEF TypeOK
<1>8. velocityUp' \in BOOLEAN /\ dropped' \subseteq Request
  BY <1>1 DEF TypeOK
<1> QED
  BY <1>2, <1>3, <1>4, <1>5, <1>6, <1>7, <1>8 DEF TypeOK, Decisions

\* So does an exception that leaves decide.
LEMMA PropagateType ==
    ASSUME TypeOK, NEW w \in Worker, Propagate(w), BreakerTypeOK', req[w] \in Request
    PROVE  TypeOK'
<1>1. /\ UNCHANGED <<verdict, velocityUp, audit, answers>>
      /\ dropped' = dropped \cup {req[w]}
      /\ stage' = [stage EXCEPT ![w] = "idle"]
      /\ req' = [req EXCEPT ![w] = NoRequest]
      /\ velocity' = [velocity EXCEPT ![w] = "none"]
      /\ evidence' = [evidence EXCEPT ![w] = NoEvidence]
  BY DEF Propagate, GoTo
<1>2. stage' \in [Worker -> {"idle", "velocity", "features", "model", "log", "answer"}]
  BY <1>1 DEF TypeOK
<1>3. req' \in [Worker -> Request \cup {NoRequest}]
  BY <1>1 DEF TypeOK
<1>4. velocity' \in [Worker -> {"none", "calm", "busy", "down"}]
  BY <1>1 DEF TypeOK
<1>5. evidence' \in [Worker -> Quality \cup {NoEvidence}]
  BY <1>1 DEF TypeOK
<1>6. /\ UNCHANGED <<verdict, velocityUp, audit, answers>>
      /\ dropped' \subseteq Request
  BY <1>1 DEF TypeOK
<1> QED  BY <1>2, <1>3, <1>4, <1>5, <1>6 DEF TypeOK

\* What leaves the gateway is a decision on a request: the type invariant.
LEMMA TypeStep ==
    ASSUME TypeOK, WorkerInv, [Next]_vars
    PROVE  TypeOK'
<1> USE VerdictTypes, GatewayAssumption
    DEF TypeOK, GoTo, Decide, resultVars, decideVars, Entry
<1>1. BreakerTypeOK'
  BY BreakerPart, BreakerType
<1>2. ASSUME NEW w \in Worker, Receive(w)  PROVE TypeOK'
  BY <1>1, <1>2 DEF Receive
<1>3. ASSUME NEW w \in Worker, Serve(w)  PROVE TypeOK'
  <2>0. stage[w] # "idle" => req[w] \in Request  BY DEF WorkerInv
  <2>1. CASE CountVelocity(w) \/ LoseVelocity(w)
    BY <1>1, <2>1 DEF CountVelocity, LoseVelocity
  <2>2. CASE Assemble(w)  BY <1>1, <2>0, <2>2 DEF Assemble
  <2>3. CASE AskModel(w)  BY <1>1, <2>3 DEF AskModel
  <2>4. CASE ApplyPolicy(w)  BY <1>1, <2>0, <2>4 DEF ApplyPolicy
  <2>5. CASE Propagate(w)
    <3> HIDE DEF TypeOK, Decide, Entry, decideVars, resultVars
    <3>1. stage[w] = "model"  BY <2>5 DEF Propagate
    <3>2. req[w] \in Request  BY <2>0, <3>1
    <3> QED  BY <1>1, <2>5, <3>2, PropagateType
  <2>6. CASE WriteAudit(w) \/ Answer(w)
    <3>1. stage[w] \in {"log", "answer"}  BY <2>6 DEF WriteAudit, Answer
    <3>2. verdict[w].decision \in Decisions
      BY <3>1 DEF WorkerInv, Proper
    <3>3. CASE WriteAudit(w)  BY <1>1, <2>0, <3>2, <3>3 DEF WriteAudit, Decisions
    <3>4. CASE Answer(w)
      <4> HIDE DEF TypeOK, Decide, Entry, decideVars, resultVars
      <4>1. stage[w] = "answer"  BY <3>4 DEF Answer
      <4>2. req[w] \in Request  BY <2>0, <4>1
      <4> QED  BY <1>1, <3>2, <3>4, <4>2, AnswerType
    <3> QED  BY <2>6, <3>3, <3>4
  <2> QED  BY <1>3, <2>1, <2>2, <2>3, <2>4, <2>5, <2>6 DEF Serve
<1>4. CASE VelocityFlips
  BY <1>1, <1>4 DEF VelocityFlips
<1>5. CASE (\E p \in Prober : Health(p)) \/ World \/ UNCHANGED vars
  BY <1>1, <1>5 DEF Health, World, vars
<1> QED  BY <1>2, <1>3, <1>4, <1>5 DEF Next

\* What a worker has in hand.
LEMMA WorkerStep ==
    ASSUME TypeOK, WorkerInv, [Next]_vars
    PROVE  WorkerInv'
<1> DEFINE Holds(w) ==
       /\ stage[w] = "idle" <=> req[w] = NoRequest
       /\ stage[w] \in {"log", "answer"} => Proper(req[w], verdict[w])
       /\ stage[w] # "model" => at[w] = "idle" /\ outcome[w] = "none"
<1>1. /\ \A w \in Worker : Holds(w)
      /\ \A w, x \in Worker : w # x /\ req[w] = req[x] => req[w] = NoRequest
  BY DEF WorkerInv
<1>2. /\ stage \in [Worker -> {"idle", "velocity", "features", "model", "log", "answer"}]
      /\ req \in [Worker -> Request \cup {NoRequest}]
      /\ DOMAIN verdict = Worker
      /\ evidence \in [Worker -> Quality \cup {NoEvidence}]
      /\ at \in [Thread -> {"idle", "reading", "reading_late", "calling", "succeeding",
                            "failing", "opening", "done", "raised"}]
      /\ outcome \in [Thread -> {"none", "score", "failed", "open", "closed"}]
      /\ Worker \subseteq Thread
  BY DEF TypeOK, BreakerTypeOK, Thread
<1> SUFFICES /\ \A w \in Worker : Holds(w)'
             /\ \A w, x \in Worker : w # x /\ req'[w] = req'[x] => req'[w] = NoRequest
  BY DEF WorkerInv
<1>3. ASSUME NEW w \in Worker, Receive(w)
      PROVE  /\ \A x \in Worker : Holds(x)'
             /\ \A x, y \in Worker : x # y /\ req'[x] = req'[y] => req'[x] = NoRequest
  <2>1. PICK r \in Request \ Served : req' = [req EXCEPT ![w] = r]
    BY <1>3 DEF Receive
  <2>2. \A x \in Worker : req[x] # r  BY <2>1 DEF Served
  <2>3. Proper(r, Verdict("decline", "hot_rule"))
    BY DEF Proper, Verdict, Decisions
  <2>4. \A x \in Worker \ {w} : Holds(x)'
    BY <1>1, <1>2, <1>3, <2>1 DEF Receive, GoTo, Decide, breakerVars
  <2>6. /\ stage[w] = "idle" /\ req'[w] = r /\ r # NoRequest
        /\ at' = at /\ outcome' = outcome
        /\ \/ stage' = [stage EXCEPT ![w] = "velocity"]
           \/ /\ stage' = [stage EXCEPT ![w] = "log"]
              /\ verdict' = [verdict EXCEPT ![w] = Verdict("decline", "hot_rule")]
    <3>1. req'[w] = r /\ r # NoRequest  BY <1>2, <2>1, GatewayAssumption
    <3>2. stage[w] = "idle" /\ at' = at /\ outcome' = outcome
      BY <1>3 DEF Receive, GoTo, breakerVars
    <3>3. \/ stage' = [stage EXCEPT ![w] = "velocity"]
          \/ /\ stage' = [stage EXCEPT ![w] = "log"]
             /\ verdict' = [verdict EXCEPT ![w] = Verdict("decline", "hot_rule")]
      BY <1>3, Zenon DEF Receive, GoTo, Decide
    <3> QED  BY <3>1, <3>2, <3>3
  <2>5. Holds(w)'
    <3>1. at'[w] = "idle" /\ outcome'[w] = "none"  BY <1>1, <2>6
    <3>2. CASE stage' = [stage EXCEPT ![w] = "velocity"]
      <4>1. stage'[w] = "velocity"  BY <1>2, <3>2
      <4> QED  BY <2>6, <3>1, <4>1
    <3>3. CASE /\ stage' = [stage EXCEPT ![w] = "log"]
               /\ verdict' = [verdict EXCEPT ![w] = Verdict("decline", "hot_rule")]
      <4>1. stage'[w] = "log" /\ verdict'[w] = Verdict("decline", "hot_rule")
        BY <1>2, <3>3
      <4> QED  BY <2>3, <2>6, <3>1, <4>1
    <3> QED  BY <2>6, <3>2, <3>3
  <2> QED  BY <1>1, <1>2, <2>1, <2>2, <2>4, <2>5
<1>4. ASSUME NEW w \in Worker, Serve(w)
      PROVE  /\ \A x \in Worker : Holds(x)'
             /\ \A x, y \in Worker : x # y /\ req'[x] = req'[y] => req'[x] = NoRequest
  <2>1. (Pass(w) \/ Leave(w)) \/ UNCHANGED breakerVars
    BY <1>4 DEF Serve, CountVelocity, LoseVelocity, Assemble, AskModel, ApplyPolicy,
                Propagate, WriteAudit, Answer
  <2>2. \A x \in Worker \ {w} : at'[x] = at[x] /\ outcome'[x] = outcome[x]
    BY <1>2, <2>1, OthersStay DEF breakerVars, TypeOK
  <2>3. \A x \in Worker \ {w} :
           stage'[x] = stage[x] /\ req'[x] = req[x] /\ verdict'[x] = verdict[x]
    BY <1>2, <1>4 DEF Serve, CountVelocity, LoseVelocity, Assemble, AskModel,
         ApplyPolicy, Propagate, WriteAudit, Answer, GoTo, Decide, decideVars
  <2>4. \A x \in Worker \ {w} : Holds(x)'
    BY <1>1, <2>2, <2>3
  <2>5. req' = req \/ req' = [req EXCEPT ![w] = NoRequest]
    BY <1>4 DEF Serve, CountVelocity, LoseVelocity, Assemble, AskModel, ApplyPolicy,
                Propagate, WriteAudit, Answer, decideVars
  <2>6. \A x, y \in Worker : x # y /\ req'[x] = req'[y] => req'[x] = NoRequest
    BY <1>1, <1>2, <2>5
  <2>7. stage[w] # "idle" => req[w] \in Request  BY <1>1, <1>2
  <2> USE <1>1, <1>2 DEF GoTo, breakerVars
  <2>11. CASE CountVelocity(w)
    <3>1. Proper(req[w], Verdict("decline", "rules"))
      BY DEF Proper, Verdict, Decisions
    <3> QED  BY <2>4, <2>6, <2>11, <3>1 DEF CountVelocity, Decide
  <2>12. CASE LoseVelocity(w)  BY <2>4, <2>6, <2>12 DEF LoseVelocity
  <2>13. CASE Assemble(w)
    <3>1. Proper(req[w], Degrade(req[w], velocity[w]))
      BY <2>7, <2>13, DegradeIsProper DEF Assemble
    <3> QED  BY <2>4, <2>6, <2>13, <3>1 DEF Assemble, Decide
  <2>14. CASE AskModel(w)
    BY <2>4, <2>6, <2>14 DEF AskModel, decideVars
  <2>15. CASE ApplyPolicy(w)
    <3>1. Proper(req[w], verdict'[w])
      <4>1. Proper(req[w], Degrade(req[w], velocity[w]))
        BY <2>7, <2>15, DegradeIsProper DEF ApplyPolicy
      <4>2. \A s \in Score : Proper(req[w], Judged(s, evidence[w]))
        <5>1. evidence[w] \in Sound
          BY NoEvidenceIsSound, GatewayAssumption
        <5> QED  BY <2>7, <2>15, <5>1, JudgedIsProper DEF ApplyPolicy
      <4> QED  BY <2>15, <4>1, <4>2 DEF ApplyPolicy, Decide
    <3> QED  BY <2>4, <2>6, <2>15, <3>1 DEF ApplyPolicy, Leave
  <2>16. CASE Propagate(w)  BY <2>4, <2>6, <2>16 DEF Propagate, Leave
  <2>17. CASE WriteAudit(w)  BY <2>4, <2>6, <2>17 DEF WriteAudit
  <2>18. CASE Answer(w)  BY <2>4, <2>6, <2>18 DEF Answer
  <2> QED  BY <1>4, <2>11, <2>12, <2>13, <2>14, <2>15, <2>16, <2>17, <2>18 DEF Serve
<1>5. CASE (\E p \in Prober : Health(p)) \/ VelocityFlips \/ World \/ UNCHANGED vars
  <2>1. UNCHANGED <<stage, req, verdict>>
    BY <1>5 DEF Health, VelocityFlips, World, vars, decideVars
  <2>2. \A x \in Worker : at'[x] = at[x] /\ outcome'[x] = outcome[x]
    <3>1. ASSUME NEW p \in Prober, Health(p)
          PROVE  \A x \in Worker : at'[x] = at[x] /\ outcome'[x] = outcome[x]
      BY <3>1, OthersStay, BreakerAssumption DEF Health, Thread, TypeOK
    <3>2. CASE VelocityFlips \/ World \/ UNCHANGED vars
      BY <3>2 DEF VelocityFlips, World, Surroundings, CooldownPasses, ModelFlips,
                  StampAges, vars, breakerVars
    <3> QED  BY <1>5, <3>1, <3>2
  <2> QED  BY <1>1, <2>1, <2>2
<1> QED  BY <1>3, <1>4, <1>5 DEF Next

-----------------------------------------------------------------------------
\* A worker that serves a request has none that was answered, and its record is
\* in the log exactly when it is about to answer.
LEMMA LedgerStep ==
    ASSUME TypeOK, WorkerInv, LedgerInv, [Next]_vars
    PROVE  LedgerInv'
<1> USE DEF LedgerInv, AnswerIsAudited
<1>1. /\ stage \in [Worker -> {"idle", "velocity", "features", "model", "log", "answer"}]
      /\ req \in [Worker -> Request \cup {NoRequest}]
      /\ DOMAIN verdict = Worker
      /\ \A a \in audit : a.req \in Request
      /\ NoRequest \notin Request
  BY GatewayAssumption DEF TypeOK
<1>2. /\ \A w \in Worker :
            /\ stage[w] = "idle" <=> req[w] = NoRequest
            /\ stage[w] \in {"log", "answer"} => Proper(req[w], verdict[w])
      /\ \A w, x \in Worker : w # x /\ req[w] = req[x] => req[w] = NoRequest
  BY DEF WorkerInv
<1>3. ASSUME UNCHANGED <<stage, req, verdict, audit, answers>>
      PROVE  LedgerInv'
  BY <1>3 DEF Entry
<1>4. ASSUME NEW w \in Worker, UNCHANGED <<audit, answers>>,
             stage[w] # "answer", stage'[w] # "answer",
             \A x \in Worker \ {w} :
                stage'[x] = stage[x] /\ req'[x] = req[x] /\ verdict'[x] = verdict[x],
             \A a \in answers : a.req # req'[w]
      PROVE  LedgerInv'
  BY <1>4 DEF Entry
<1>5. ASSUME NEW w \in Worker, Receive(w)  PROVE LedgerInv'
  <2>1. PICK r \in Request \ Served : req' = [req EXCEPT ![w] = r]
    BY <1>5 DEF Receive
  <2>2. \A a \in answers : a.req # req'[w]
    BY <1>1, <2>1 DEF Served
  <2> QED  BY <1>1, <1>4, <1>5, <2>1, <2>2 DEF Receive, GoTo, Decide, resultVars
<1>6. ASSUME NEW w \in Worker,
             CountVelocity(w) \/ LoseVelocity(w) \/ Assemble(w) \/ AskModel(w)
             \/ ApplyPolicy(w) \/ Propagate(w)
      PROVE  LedgerInv'
  <2>1. UNCHANGED <<audit, answers>>
    BY <1>6 DEF CountVelocity, LoseVelocity, Assemble, AskModel, ApplyPolicy,
                Propagate, resultVars
  <2>2. stage[w] # "answer" /\ stage'[w] # "answer"
    BY <1>1, <1>6 DEF CountVelocity, LoseVelocity, Assemble, AskModel, ApplyPolicy,
                Propagate, GoTo, decideVars
  <2>3. \A x \in Worker \ {w} :
           stage'[x] = stage[x] /\ req'[x] = req[x] /\ verdict'[x] = verdict[x]
    BY <1>1, <1>6 DEF CountVelocity, LoseVelocity, Assemble, AskModel, ApplyPolicy,
                Propagate, GoTo, Decide, decideVars
  <2>4. req'[w] \in {req[w], NoRequest}
    BY <1>1, <1>6 DEF CountVelocity, LoseVelocity, Assemble, AskModel, ApplyPolicy,
                Propagate, decideVars
  <2> QED  BY <1>1, <1>4, <2>1, <2>2, <2>3, <2>4
<1>7. ASSUME NEW w \in Worker, WriteAudit(w)  PROVE LedgerInv'
  <2> USE <1>1, <1>7 DEF WriteAudit, GoTo
  <2>1. audit' = audit \cup {Entry(w)} /\ answers' = answers
    OBVIOUS
  <2>2. /\ stage[w] = "log" /\ stage'[w] = "answer"
        /\ \A x \in Worker \ {w} : stage'[x] = stage[x]
        /\ req' = req /\ verdict' = verdict
    OBVIOUS
  <2>3. \A x \in Worker : Entry(x)' = Entry(x)
    BY <2>2 DEF Entry
  <2>4. Entry(w).req = req[w] /\ Entry(w).verdict = verdict[w] /\ req[w] # NoRequest
    BY <1>2, <2>2 DEF Entry
  <2>5. \A a \in audit : a.req # req[w]
    <3>1. \A x \in Worker : stage[x] = "answer" => Entry(x).req # req[w]
      BY <1>2, <2>2 DEF Entry
    <3> QED  BY <3>1
  <2>6. \A a, b \in audit' : a.req = b.req => a = b
    BY <2>1, <2>4, <2>5
  <2>7. \A a \in audit' :
          /\ Proper(a.req, a.verdict)
          /\ a \in answers' \/ \E x \in Worker : stage'[x] = "answer" /\ a = Entry(x)'
    BY <1>2, <2>1, <2>2, <2>3, <2>4
  <2>8. \A x \in Worker : stage'[x] = "answer" => Entry(x)' \in audit'
    BY <2>1, <2>2, <2>3
  <2> QED  BY <2>1, <2>2, <2>6, <2>7, <2>8
<1>8. ASSUME NEW w \in Worker, Answer(w)  PROVE LedgerInv'
  <2> USE <1>1, <1>8 DEF Answer, GoTo, Decide
  <2>1. answers' = answers \cup {Entry(w)} /\ audit' = audit
    OBVIOUS
  <2>2. /\ stage[w] = "answer" /\ stage'[w] = "idle" /\ req'[w] = NoRequest
        /\ \A x \in Worker \ {w} :
              stage'[x] = stage[x] /\ req'[x] = req[x] /\ verdict'[x] = verdict[x]
    OBVIOUS
  <2>3. \A x \in Worker \ {w} : Entry(x)' = Entry(x)
    BY <2>2 DEF Entry
  <2>4. Entry(w) \in audit /\ Entry(w).req = req[w] /\ req[w] # NoRequest
    BY <1>2, <2>2 DEF Entry
  <2>5. \A a \in audit' :
          a \in answers' \/ \E x \in Worker : stage'[x] = "answer" /\ a = Entry(x)'
    BY <2>1, <2>2, <2>3
  <2>6. \A x \in Worker, a \in answers' : a.req # req'[x]
    BY <1>2, <2>1, <2>2, <2>4
  <2>7. \A x \in Worker : stage'[x] = "answer" => Entry(x)' \in audit'
    BY <2>1, <2>2, <2>3
  <2> QED  BY <2>1, <2>4, <2>5, <2>6, <2>7
<1>9. CASE (\E p \in Prober : Health(p)) \/ VelocityFlips \/ World \/ UNCHANGED vars
  BY <1>3, <1>9 DEF Health, VelocityFlips, World, vars, decideVars, resultVars
<1> QED  BY <1>5, <1>6, <1>7, <1>8, <1>9 DEF Next, Serve

-----------------------------------------------------------------------------
\* The gateway keeps its types, and the workers and the log what they say of
\* each other.
THEOREM GatewayIsSound == Spec => [](TypeOK /\ WorkerInv /\ LedgerInv)
<1>1. Init => TypeOK /\ WorkerInv /\ LedgerInv
  <2> SUFFICES ASSUME Init PROVE TypeOK /\ WorkerInv /\ LedgerInv
    OBVIOUS
  <2>1. BreakerTypeOK  BY DEF Init, BreakerInit, BreakerTypeOK
  <2>2. TypeOK  BY <2>1, VerdictTypes DEF Init, TypeOK
  <2>3. WorkerInv
    BY DEF Init, BreakerInit, WorkerInv, Thread
  <2>4. LedgerInv  BY DEF Init, LedgerInv, AnswerIsAudited
  <2> QED  BY <2>2, <2>3, <2>4
<1>2. TypeOK /\ WorkerInv /\ LedgerInv /\ [Next]_vars
        => (TypeOK /\ WorkerInv /\ LedgerInv)'
  BY TypeStep, WorkerStep, LedgerStep
<1> QED  BY <1>1, <1>2, PTL DEF Spec

\* The gateway's variables keep their types, and what is audited or answered is a
\* decision on a request.
THEOREM GatewayTypes == Spec => []TypeOK
BY GatewayIsSound, PTL

\* The audit record comes before the answer, one for a request.
THEOREM AuditComesFirst == Spec => []AnswerIsAudited
<1>1. LedgerInv => AnswerIsAudited  BY DEF LedgerInv
<1> QED  BY <1>1, GatewayIsSound, PTL

\* No large payment is approved without a score, and no score is carried from
\* one call to the next.
THEOREM LargeNeedsScore == Spec => []LargeNeedsModel
<1>1. WorkerInv /\ LedgerInv => LargeNeedsModel
  BY DEF WorkerInv, LedgerInv, LargeNeedsModel, AnswerIsAudited, Proper
<1> QED  BY <1>1, GatewayIsSound, PTL

\* Whatever the scores and the features, on the same features the staler ones
\* never get the milder decision.
THEOREM StalerIsStricter == Spec => []StalenessTightens
<1>1. LedgerInv => StalenessTightens
  <2> SUFFICES ASSUME LedgerInv, NEW a \in answers, NEW b \in answers,
                      a.verdict.source = "model", b.verdict.source = "model",
                      a.verdict.score = b.verdict.score,
                      NoFresher(a.verdict.on, b.verdict.on)
               PROVE  Strictness[a.verdict.decision] >= Strictness[b.verdict.decision]
    BY DEF StalenessTightens
  <2>1. /\ a.verdict.on \in Sound /\ b.verdict.on \in Sound
        /\ a.verdict.score \in Score
        /\ a.verdict.decision = Judge(a.verdict.score, a.verdict.on)
        /\ b.verdict.decision = Judge(a.verdict.score, b.verdict.on)
    BY DEF LedgerInv, AnswerIsAudited, Proper
  <2>2. a.verdict.score \in Int
    <3>1. \A s \in Score : s \in Int  BY GatewayAssumption
    <3> QED  BY <2>1, <3>1
  <2> QED  BY <2>1, <2>2, StalerIsLower, LowerIsStricter
<1> QED  BY <1>1, GatewayIsSound, PTL

-----------------------------------------------------------------------------
\* All the breaker of the gateway goes through is what CircuitBreaker allows the
\* threads that share it: what holds of it under any load holds here.
THEOREM GatewayUsesBreaker == Spec => BreakerSpec
<1>1. Init => BreakerInit  BY DEF Init
<1> QED  BY <1>1, BreakerPart, PTL DEF Spec, BreakerSpec

\* A request whose thread ended in an exception is in nobody's hand, and nothing
\* was decided on it.
DropInv ==
    \A r \in dropped :
        /\ \A w \in Worker : req[w] # r
        /\ \A a \in audit : a.req # r

LEMMA DropStep ==
    ASSUME TypeOK, WorkerInv, LedgerInv, DropInv, [Next]_vars
    PROVE  DropInv'
<1> USE DEF GoTo
<1>1. /\ req \in [Worker -> Request \cup {NoRequest}]
      /\ dropped \subseteq Request /\ NoRequest \notin Request
  BY GatewayAssumption DEF TypeOK
<1>2. ASSUME NEW w \in Worker, Receive(w)  PROVE DropInv'
  <2>1. /\ \E r \in Request \ Served : req' = [req EXCEPT ![w] = r]
        /\ UNCHANGED <<audit, dropped>>
    BY <1>2 DEF Receive, resultVars
  <2>2. \A x \in Worker : req'[x] = req[x] \/ req'[x] \notin dropped
    BY <1>1, <2>1 DEF Served
  <2> QED  BY <2>1, <2>2 DEF DropInv
<1>3. ASSUME NEW w \in Worker, Propagate(w)  PROVE DropInv'
  <2>1. /\ stage[w] = "model" /\ UNCHANGED audit
        /\ dropped' = dropped \cup {req[w]}
        /\ req' = [req EXCEPT ![w] = NoRequest]
    BY <1>3 DEF Propagate
  <2>2. req[w] \in Request  BY <1>1, <2>1 DEF WorkerInv
  <2>3. \A a \in audit : a.req # req[w]
    <3> SUFFICES ASSUME NEW a \in audit, a.req = req[w]  PROVE FALSE
      OBVIOUS
    <3>1. a \notin answers  BY DEF LedgerInv
    <3>2. PICK x \in Worker : stage[x] = "answer" /\ a = Entry(x)
      BY <3>1 DEF LedgerInv
    <3>3. x # w /\ req[x] = req[w]  BY <2>1, <3>2 DEF Entry
    <3> QED  BY <1>1, <2>2, <3>3 DEF WorkerInv
  <2>4. \A x \in Worker : req'[x] # req[w]
    BY <1>1, <2>1, <2>2 DEF WorkerInv
  <2>5. \A x \in Worker : req'[x] \in {req[x], NoRequest}
    BY <1>1, <2>1
  <2> QED  BY <1>1, <2>1, <2>3, <2>4, <2>5 DEF DropInv
<1>4. ASSUME NEW w \in Worker, WriteAudit(w)  PROVE DropInv'
  <2>1. /\ audit' = audit \cup {Entry(w)} /\ Entry(w).req = req[w]
        /\ UNCHANGED <<req, dropped>>
    BY <1>4 DEF WriteAudit, Entry
  <2> QED  BY <2>1 DEF DropInv
<1>5. ASSUME NEW w \in Worker, Answer(w)  PROVE DropInv'
  <2>1. /\ req' = [req EXCEPT ![w] = NoRequest] /\ UNCHANGED <<audit, dropped>>
    BY <1>5 DEF Answer
  <2>2. \A x \in Worker : req'[x] \in {req[x], NoRequest}
    BY <1>1, <2>1
  <2> QED  BY <1>1, <2>1, <2>2 DEF DropInv
<1>6. CASE UNCHANGED <<req, audit, dropped>>
  BY <1>6 DEF DropInv
<1>7. ASSUME NEW w \in Worker,
             CountVelocity(w) \/ LoseVelocity(w) \/ Assemble(w) \/ AskModel(w) \/ ApplyPolicy(w)
      PROVE  UNCHANGED <<req, audit, dropped>>
  BY <1>7 DEF CountVelocity, LoseVelocity, Assemble, AskModel, ApplyPolicy, decideVars,
              resultVars
<1>8. (\E p \in Prober : Health(p)) \/ VelocityFlips \/ World \/ UNCHANGED vars
        => UNCHANGED <<req, audit, dropped>>
  BY DEF Health, VelocityFlips, World, vars, decideVars, resultVars
<1> QED  BY <1>2, <1>3, <1>4, <1>5, <1>6, <1>7, <1>8 DEF Next, Serve

\* The double read of opened_at costs a request its answer and nothing else: of
\* one that ended in the TypeError no decision was logged or returned.
THEOREM DroppedWasNotDecided ==
    Spec => [](\A a \in audit \cup answers : a.req \notin dropped)
<1>1. Init => DropInv  BY DEF Init, DropInv
<1>2. TypeOK /\ WorkerInv /\ LedgerInv /\ DropInv /\ [Next]_vars => DropInv'
  BY DropStep
<1>3. LedgerInv /\ DropInv => \A a \in audit \cup answers : a.req \notin dropped
  BY DEF LedgerInv, AnswerIsAudited, DropInv
<1> QED  BY <1>1, <1>2, <1>3, GatewayIsSound, PTL DEF Spec

\* A thread that is alone with the breaker reads the stamp it saw.
Alone == \A t, u \in Thread : t = u

AloneInv ==
    /\ \A t \in Thread :
          at[t] # "raised" /\ (at[t] \in {"reading", "reading_late"} => opened # "None")
    /\ dropped = {}

LEMMA AloneStep ==
    ASSUME Alone, BreakerTypeOK, AloneInv, [Next]_vars
    PROVE  AloneInv'
<1>1. ASSUME NEW t \in Thread, Pass(t) \/ Leave(t)
      PROVE  /\ at'[t] # "raised"
             /\ at'[t] \in {"reading", "reading_late"} => opened' # "None"
  <2> USE DEF AloneInv, BreakerTypeOK
  <2>1. CASE AskClosed(t) \/ HalfOpen(t)  BY <2>1 DEF AskClosed, HalfOpen, Admit
  <2>2. CASE AskOpened(t)  BY <2>2 DEF AskOpened
  <2>3. CASE StillOpen(t) \/ Raise(t)  BY <2>3 DEF StillOpen, Raise
  <2>4. CASE CallModel(t) \/ RecordSuccess(t)  BY <2>4 DEF CallModel, RecordSuccess
  <2>5. CASE RecordFailure(t)  BY <2>5 DEF RecordFailure
  <2>6. CASE SetOpened(t) \/ Leave(t)  BY <2>6 DEF SetOpened, Leave
  <2> QED  BY <1>1, <2>1, <2>2, <2>3, <2>4, <2>5, <2>6 DEF Pass
<1>2. \A t \in Thread :
         /\ at'[t] # "raised"
         /\ at'[t] \in {"reading", "reading_late"} => opened' # "None"
  <2>1. CASE \E t \in Thread : Pass(t) \/ Leave(t)
    BY <1>1, <2>1 DEF Alone
  <2>2. CASE Surroundings \/ UNCHANGED breakerVars
    <3>1. at' = at /\ (opened # "None" => opened' # "None")
      BY <2>2 DEF Surroundings, CooldownPasses, ModelFlips, StampAges, breakerVars
    <3> QED  BY <3>1 DEF AloneInv
  <2> QED  BY <2>1, <2>2, BreakerPart DEF BreakerNext
<1>3. dropped' = {}
  <2>1. \A w \in Worker : ~ Propagate(w)
    BY DEF AloneInv, Propagate, Thread
  <2>2. dropped' = dropped
    BY <2>1 DEF Next, Receive, Serve, CountVelocity, LoseVelocity, Assemble, AskModel,
                ApplyPolicy, WriteAudit, Answer, Health, VelocityFlips, World, vars,
                resultVars
  <2> QED  BY <2>2 DEF AloneInv
<1> QED  BY <1>2, <1>3 DEF AloneInv

\* What the README promises, an answer to every request, holds as long
\* as one thread uses the breaker: it takes a second one, or a probe of /health,
\* to drop a request, which is why no test of one thread sees it.
THEOREM AloneEveryRequestIsAnswered == Spec => [](Alone => EveryRequestAnswered)
<1>1. CASE Alone
  <2>1. Init => AloneInv
    BY DEF Init, BreakerInit, AloneInv
  <2>2. TypeOK /\ AloneInv /\ [Next]_vars => AloneInv'
    BY <1>1, AloneStep DEF TypeOK
  <2>3. AloneInv => (Alone => EveryRequestAnswered)
    BY DEF AloneInv, EveryRequestAnswered
  <2> QED  BY <2>1, <2>2, <2>3, GatewayTypes, PTL DEF Spec
<1>2. CASE ~Alone
  <2>1. Alone => EveryRequestAnswered  BY <1>2
  <2> QED  BY <2>1, PTL
<1> QED  BY <1>1, <1>2
=============================================================================
