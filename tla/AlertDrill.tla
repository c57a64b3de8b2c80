----------------------------- MODULE AlertDrill -----------------------------
(***************************************************************************)
(* The service's metrics under Prometheus: the scrapes of ops/             *)
(* prometheus.yml, the rule PreauthNoTraffic of ops/alerts.yml, and        *)
(* run_prometheus_drill.py, which starts a Prometheus on an empty store,   *)
(* stops the traffic and waits for the rule to fire.  Prometheus is        *)
(* modelled as the drill uses it.  Time is counted in scrape intervals;    *)
(* the group of the rule is evaluated once in several of them.             *)
(***************************************************************************)
EXTENDS MetricsExport, Sequences

CONSTANTS
    Prometheus,   \* the scraper whose pages are stored
    EvalEvery,    \* scrapes from one evaluation to the next
    RateWindow,   \* the [5m] of the rule, in scrapes
    For,          \* the rule's for, in scrapes
    Deadline,     \* how long the drill waits, in scrapes
    MaxRestarts   \* bound of the restarts of the service

ASSUME DrillAssumption ==
    /\ Prometheus \in Scraper
    /\ EvalEvery \in Nat \ {0}
    /\ RateWindow \in Nat \ {0, 1} /\ For \in Nat \ {0}
    /\ Deadline \in Nat /\ Deadline > For
    /\ MaxRestarts \in Nat

VARIABLES
    up,        \* the service answers
    restarts,  \* restarts of it so far
    series,    \* the last values of gateway_decisions_total, Absent for none
    age,       \* scrapes since the last evaluation
    held,      \* scrapes since the evaluation that first found it true, or Inactive
    drill,     \* where the drill is
    waited     \* intervals it has waited

promVars == <<series, age, held>>
drillVars == <<drill, waited>>
vars == <<metricsVars, up, restarts, promVars, drillVars>>

Inactive == -1

Init ==
    /\ MetricsInit
    /\ up = TRUE /\ restarts = 0
    /\ series = <<>> /\ age = 0 /\ held = Inactive
    /\ drill = "off" /\ waited = 0

-----------------------------------------------------------------------------
\* Traffic, which the drill stops before it waits.
Traffic(w) ==
    /\ up
    /\ Authorize(w)
    /\ drill = "off"
    /\ UNCHANGED <<up, restarts, promVars, drillVars>>

due == age >= EvalEvery

\* One scrape after the other; an evaluation that is due comes in between.
Read(s) ==
    /\ up /\ ~due
    /\ Scrape(s)
    /\ UNCHANGED <<up, restarts, promVars, drillVars>>

\* A scrape interval has passed, at the end of which a value was stored.
Stored(value) ==
    /\ series' = IF Len(series) < RateWindow THEN Append(series, value)
                 ELSE Tail(Append(series, value))
    /\ age' = age + 1
    /\ waited' = IF drill = "poll" /\ waited < Deadline THEN waited + 1 ELSE waited

\* A page is stored, or was read by somebody else and is gone.
Receive(s) ==
    /\ scrape[s] = "sent" /\ ~due
    /\ scrape' = [scrape EXCEPT ![s] = "idle"]
    /\ IF s = Prometheus THEN Stored(page[s].counter)
                         ELSE UNCHANGED <<series, age, waited>>
    /\ known' = [known EXCEPT ![s] = 0] /\ page' = [page EXCEPT ![s] = NoPage]
    /\ UNCHANGED <<authorizeVars, total, bucket, todo, historyVars, up, restarts, held, drill>>

\* The target does not answer.
Miss ==
    /\ ~up /\ ~due
    /\ Stored(Absent)
    /\ UNCHANGED <<metricsVars, up, restarts, held, drill>>

Values == {i \in DOMAIN series : series[i] # Absent}

\* Mutant: the rule asks whether there is a series.
NothingExported == Values = {}

\* sum(rate(gateway_decisions_total[5m])) == 0: there are two values to take a
\* rate of, and none differs from another.
NoIncrease ==
    /\ Cardinality(Values) >= 2
    /\ \A i, j \in Values : series[i] = series[j]

Firing == held >= For

\* The first evaluation that finds the expression true makes the alert pending;
\* one that still finds it true when For has passed makes it fire.
Evaluate ==
    /\ due
    /\ age' = 0
    /\ held' = IF ~NoIncrease THEN Inactive
               ELSE IF held = Inactive THEN 0
               ELSE IF Firing THEN held ELSE held + EvalEvery
    /\ UNCHANGED <<metricsVars, up, restarts, series, drillVars>>

-----------------------------------------------------------------------------
\* The drill has stopped the traffic; no scrape of a Prometheus is under way.
Quiet ==
    /\ drill = "off" /\ up /\ counter # Absent
    /\ \A w \in Worker : at[w] = "idle"
    /\ scrape[Prometheus] = "idle"

\* Mutant: the drill's Prometheus finds the store of the last.
StartDrillOnOldStore ==
    /\ Quiet
    /\ drill' = "start" /\ held' = Inactive /\ age' \in 0 .. EvalEvery - 1
    /\ UNCHANGED <<metricsVars, up, restarts, series, waited>>

\* Prometheus is started on an empty store; the first evaluation may come at
\* any moment of its interval.
StartDrill ==
    /\ Quiet
    /\ drill' = "start" /\ held' = Inactive /\ age' \in 0 .. EvalEvery - 1
    /\ series' = <<>>
    /\ UNCHANGED <<metricsVars, up, restarts, waited>>

\* The first scrape has landed.
SeeScrape ==
    /\ drill = "start" /\ Values # {}
    /\ drill' = "poll"
    /\ UNCHANGED <<metricsVars, up, restarts, promVars, waited>>

\* The rule fires, or the deadline passes.
EndDrill ==
    /\ drill = "poll"
    /\ \/ Firing /\ drill' = "fired"
       \/ ~Firing /\ waited >= Deadline /\ drill' = "quiet"
    /\ UNCHANGED <<metricsVars, up, restarts, promVars, waited>>

\* The service dies, and begins again with an empty registry.
Die ==
    /\ up /\ restarts < MaxRestarts /\ drill = "off"
    /\ up' = FALSE /\ restarts' = restarts + 1
    /\ UNCHANGED <<metricsVars, promVars, drillVars>>

Restart ==
    /\ ~up
    /\ up' = TRUE
    /\ samples' = 0 /\ counter' = Absent /\ counted' = 0
    /\ at' = [w \in Worker |-> "idle"]
    /\ total' = 0 /\ bucket' = 0
    /\ scrape' = [s \in Scraper |-> "idle"]
    /\ todo' = [s \in Scraper |-> 0] /\ known' = [s \in Scraper |-> 0]
    /\ seen' = [w \in Worker |-> 0] /\ page' = [s \in Scraper |-> NoPage]
    /\ exported' = {} /\ overlapped' = FALSE
    /\ UNCHANGED <<requests, restarts, promVars, drillVars>>

-----------------------------------------------------------------------------
Monitor == (\E s \in Scraper : Read(s) \/ Receive(s)) \/ Miss \/ Evaluate

Drill == StartDrill \/ SeeScrape \/ EndDrill

Next == (\E w \in Worker : Traffic(w)) \/ Monitor \/ Drill \/ Die \/ Restart

Spec == Init /\ [][Next]_vars

(***************************************************************************)
(* Fairness: requests that began are answered, Prometheus scrapes and      *)
(* evaluates for ever, and a drill that has begun goes on.                 *)
(***************************************************************************)
FairSpec ==
    /\ Spec
    /\ \A w \in Worker : WF_vars(Traffic(w) /\ at[w] # "idle")
    /\ WF_vars(Read(Prometheus) \/ Receive(Prometheus) \/ Miss \/ Evaluate)
    /\ WF_vars(SeeScrape \/ EndDrill)

-----------------------------------------------------------------------------
\* The values the variables range over.
TypeOK ==
    /\ MetricsTypeOK
    /\ up \in BOOLEAN /\ restarts \in 0 .. MaxRestarts
    /\ series \in Seq(Nat \cup {Absent}) /\ Len(series) <= RateWindow
    /\ age \in 0 .. EvalEvery
    /\ held \in Nat \cup {Inactive} /\ held < For + EvalEvery
    /\ drill \in {"off", "start", "poll", "fired", "quiet"}
    /\ waited \in 0 .. Deadline

\* When the decisions stop for good, in a service that has made one since it
\* was started, the rule fires and keeps firing.
SilenceFires ==
    <>[](up /\ counter # Absent /\ \A w \in Worker : at[w] = "idle") => <>[]Firing

\* A drill that has begun ends, and with the rule seen firing: on an empty store
\* the rate window need not run empty of traffic first, so that the deadline
\* has only For and two evaluation intervals to outlast.
DrillFires == drill = "start" ~> drill = "fired"
=============================================================================
