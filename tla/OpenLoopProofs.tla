--------------------------- MODULE OpenLoopProofs ---------------------------
(***************************************************************************)
(* Proofs about OpenLoop and the circuit breaker in it, for any number of  *)
(* threads, any threshold and any queue: the types, how often a dead model *)
(* is called, that the load driver implements the breaker's specification, *)
(* and that what each of its runs returns adds up.                         *)
(***************************************************************************)
EXTENDS OpenLoop, FiniteSetTheorems, TLAPS

-----------------------------------------------------------------------------
(* How many threads are at certain places when one of them moves. *)

\* The members of S that f maps into V.
Within(S, f, V) == {y \in S : f[y] \in V}

One(condition) == IF condition THEN 1 ELSE 0

\* Of a finite set only so many can be counted.
LEMMA CountType ==
    ASSUME NEW S, IsFiniteSet(S), NEW f, NEW V
    PROVE  /\ IsFiniteSet(Within(S, f, V))
           /\ Cardinality(Within(S, f, V)) \in Nat
           /\ Cardinality(Within(S, f, V)) <= Cardinality(S)
<1>1. Within(S, f, V) \in SUBSET S  BY DEF Within
<1> QED  BY <1>1, FS_Subset, FS_CardinalityType

\* When f and g differ at x only, the counts differ by what x contributes.
LEMMA CountMove ==
    ASSUME NEW S, IsFiniteSet(S), NEW f, NEW g, NEW V, NEW x \in S,
           \A y \in S \ {x} : g[y] = f[y]
    PROVE  Cardinality(Within(S, g, V)) =
             Cardinality(Within(S, f, V)) + One(g[x] \in V) - One(f[x] \in V)
<1> DEFINE rest == Within(S, f, V) \ {x}
<1>1. /\ IsFiniteSet(rest)
      /\ Cardinality(rest) = Cardinality(Within(S, f, V)) - One(f[x] \in V)
  <2>1. x \in Within(S, f, V) <=> f[x] \in V  BY DEF Within
  <2> QED  BY <2>1, CountType, FS_RemoveElement DEF One
<1>2. /\ IsFiniteSet(rest \cup {x})
      /\ Cardinality(rest \cup {x}) = Cardinality(rest) + 1
  BY <1>1, FS_AddElement
<1>3. Within(S, g, V) = IF g[x] \in V THEN rest \cup {x} ELSE rest
  BY DEF Within
<1>4. Cardinality(Within(S, f, V)) \in Nat /\ Cardinality(rest) \in Nat
  BY <1>1, CountType, FS_CardinalityType
<1> QED  BY <1>1, <1>2, <1>3, <1>4 DEF One

\* None is counted where nobody is.
LEMMA CountNone ==
    ASSUME NEW S, IsFiniteSet(S), NEW f, NEW V
    PROVE  Cardinality(Within(S, f, V)) = 0 <=> \A y \in S : f[y] \notin V
<1>1. Cardinality(Within(S, f, V)) = 0 <=> Within(S, f, V) = {}
  BY CountType, FS_EmptySet
<1> QED  BY <1>1 DEF Within

\* Two counts that have nobody in common count at most everybody.
LEMMA CountDisjoint ==
    ASSUME NEW S, IsFiniteSet(S), NEW f, NEW V, NEW W, V \cap W = {}
    PROVE  Cardinality(Within(S, f, V)) + Cardinality(Within(S, f, W))
             <= Cardinality(S)
<1> DEFINE A == Within(S, f, V)  B == Within(S, f, W)
<1>1. A \cap B = {} /\ A \cup B \in SUBSET S  BY DEF Within
<1>2. Cardinality(A \cup B) = Cardinality(A) + Cardinality(B) - Cardinality({})
  BY <1>1, CountType, FS_Union
<1>3. Cardinality(A \cup B) <= Cardinality(S)  BY <1>1, FS_Subset
<1> QED  BY <1>2, <1>3, CountType, FS_EmptySet

-----------------------------------------------------------------------------
Of(f, V) == Cardinality(Within(Worker, f, V))

\* Where a worker is from the call of the model to the count of the failure,
\* and from there to the assignment of opened_at.
Asking == {"calling", "succeeding", "failing"}
Opening == {"opening"}

\* Only workers call the model.  While the breaker is closed, whoever counted
\* the threshold is on its way to open it; once it is open, only those that
\* passed it before can still count.
BreakerInv ==
    /\ \A t \in Thread : at[t] \in Asking \cup Opening => t \in Worker
    /\ opened = "None" => failures <= Threshold - 1 + Of(at, Opening)
    /\ opened # "None" =>
          failures + Of(at, Asking) <= Threshold - 1 + Cardinality(Worker)

\* What the queue calls unfinished is in the queue or in a worker's hand, and
\* what the run has offered is there or was counted since it began.
LoopInv ==
    /\ unfinished = queue + Of(job, {"model", "early", "counted"})
    /\ phase # "idle" =>
          /\ before <= latencies
          /\ sent = (latencies - before) + (errors - earlier) + dropped
                      + queue + Of(job, {"model", "early"})
    /\ phase = "idle" => unfinished = 0 /\ ReportAddsUp

-----------------------------------------------------------------------------
LEMMA OfType ==
    ASSUME NEW f, NEW V
    PROVE  Of(f, V) \in Nat /\ Of(f, V) <= Cardinality(Worker)
BY CountType, BreakerAssumption DEF Of

LEMMA WorkerCount == Cardinality(Worker) \in Nat
BY FS_CardinalityType, BreakerAssumption

LEMMA OfMove ==
    ASSUME NEW f, NEW g, NEW V, NEW w \in Worker,
           \A y \in Worker \ {w} : g[y] = f[y]
    PROVE  Of(g, V) = Of(f, V) + One(g[w] \in V) - One(f[w] \in V)
BY CountMove, BreakerAssumption DEF Of

\* A prober is not counted.
LEMMA OfSame ==
    ASSUME NEW f, NEW g, NEW V, \A y \in Worker : g[y] = f[y]
    PROVE  Of(g, V) = Of(f, V)
<1>1. Within(Worker, g, V) = Within(Worker, f, V)  BY DEF Within
<1> QED  BY <1>1 DEF Of

LEMMA OfPrime ==
    ASSUME NEW V
    PROVE  Of(at, V)' = Of(at', V') /\ Of(job, V)' = Of(job', V')
BY DEF Of, Within

-----------------------------------------------------------------------------
\* The types of the breaker are kept by each of its steps.
LEMMA BreakerType ==
    ASSUME BreakerTypeOK, [BreakerNext]_breakerVars
    PROVE  BreakerTypeOK'
<1> USE DEF BreakerTypeOK
<1>1. ASSUME NEW t \in Thread, Pass(t)  PROVE BreakerTypeOK'
  <2>1. CASE AskClosed(t)  BY <2>1 DEF AskClosed, Admit
  <2>2. CASE AskOpened(t)  BY <2>2 DEF AskOpened
  <2>3. CASE HalfOpen(t)  BY <2>3 DEF HalfOpen, Admit
  <2>4. CASE StillOpen(t)  BY <2>4 DEF StillOpen
  <2>5. CASE Raise(t)  BY <2>5 DEF Raise
  <2>6. CASE CallModel(t)  BY <2>6 DEF CallModel
  <2>7. CASE RecordSuccess(t)  BY <2>7 DEF RecordSuccess
  <2>8. CASE RecordFailure(t)  BY <2>8 DEF RecordFailure
  <2>9. CASE SetOpened(t)  BY <2>9 DEF SetOpened
  <2> QED
    BY <1>1, <2>1, <2>2, <2>3, <2>4, <2>5, <2>6, <2>7, <2>8, <2>9 DEF Pass
<1>2. ASSUME NEW t \in Thread, Leave(t)  PROVE BreakerTypeOK'
  BY <1>2 DEF Leave
<1>3. CASE Surroundings
  BY <1>3 DEF Surroundings, CooldownPasses, ModelFlips, StampAges
<1>4. CASE UNCHANGED breakerVars
  BY <1>4 DEF breakerVars
<1> QED  BY <1>1, <1>2, <1>3, <1>4 DEF BreakerNext

\* A thread that does not move between the counted places, and a breaker that
\* stays as it is or is reset, keep the bound.
LEMMA BreakerInvStep ==
    ASSUME BreakerTypeOK, BreakerInv, [BreakerNext]_breakerVars
    PROVE  BreakerInv'
<1> USE DEF BreakerTypeOK
<1>0. Threshold \in Nat \ {0}  BY BreakerAssumption
<1>1. ASSUME NEW t \in Thread, Pass(t) \/ Leave(t)  PROVE BreakerInv'
  <2> DEFINE a == Of(at, Asking)  o == Of(at, Opening)
             b == Of(at', Asking)  q == Of(at', Opening)
  <2>1. /\ a \in Nat /\ o \in Nat /\ b \in Nat /\ q \in Nat
        /\ q <= Cardinality(Worker)
    BY OfType
  <2>2. \A y \in Thread \ {t} : at'[y] = at[y]
    <3>1. \E place : at' = [at EXCEPT ![t] = place]
      BY <1>1 DEF Pass, Leave, AskClosed, AskOpened, HalfOpen, StillOpen, Raise,
                  CallModel, RecordSuccess, RecordFailure, SetOpened, Admit
    <3> QED  BY <3>1
  <2>3. ASSUME t \in Worker
        PROVE  /\ b = a + One(at'[t] \in Asking) - One(at[t] \in Asking)
               /\ q = o + One(at'[t] \in Opening) - One(at[t] \in Opening)
    <3>0. t \in Worker  BY <2>3
    <3>1. \A y \in Worker \ {t} : at'[y] = at[y]  BY <2>2 DEF Thread
    <3> HIDE DEF BreakerTypeOK
    <3>2. b = a + One(at'[t] \in Asking) - One(at[t] \in Asking)
      BY <3>0, <3>1, OfMove, Zenon
    <3>3. q = o + One(at'[t] \in Opening) - One(at[t] \in Opening)
      BY <3>0, <3>1, OfMove, Zenon
    <3> QED  BY <3>2, <3>3, Zenon
  <2>4. ASSUME t \notin Worker PROVE b = a /\ q = o
    BY <2>2, <2>4, OfSame DEF Thread
  <2>5. Of(at, Asking)' = b /\ Of(at, Opening)' = q
    BY OfPrime DEF Asking, Opening
  <2>6. a + o <= Cardinality(Worker)
    <3>1. Asking \cap Opening = {}  BY DEF Asking, Opening
    <3> QED  BY <3>1, CountDisjoint, BreakerAssumption DEF Of
  <2>7. /\ \A y \in Thread : at[y] \in Asking \cup Opening => y \in Worker
        /\ opened = "None" => failures <= Threshold - 1 + o
        /\ opened # "None" => failures + a <= Threshold - 1 + Cardinality(Worker)
    BY DEF BreakerInv
  <2> SUFFICES
        /\ \A y \in Thread : at'[y] \in Asking \cup Opening => y \in Worker
        /\ opened' = "None" => failures' <= Threshold - 1 + q
        /\ opened' # "None" => failures' + b <= Threshold - 1 + Cardinality(Worker)
    BY <2>5 DEF BreakerInv, Asking, Opening
  <2> HIDE DEF a, o, b, q
  <2> USE <1>0, <2>1, <2>2, <2>3, <2>4, <2>6, <2>7, WorkerCount
  <2> USE DEF One, Asking, Opening
  <2>11. CASE AskClosed(t)  BY <2>11 DEF AskClosed, Admit
  <2>12. CASE AskOpened(t)  BY <2>12 DEF AskOpened
  <2>13. CASE HalfOpen(t)  BY <2>13 DEF HalfOpen, Admit
  <2>14. CASE StillOpen(t)  BY <2>14 DEF StillOpen
  <2>15. CASE Raise(t)  BY <2>15 DEF Raise
  <2>16. CASE CallModel(t)  BY <2>16 DEF CallModel
  <2>17. CASE RecordSuccess(t)  BY <2>17 DEF RecordSuccess
  <2>18. CASE RecordFailure(t)  BY <2>18 DEF RecordFailure
  <2>19. CASE SetOpened(t)  BY <2>19 DEF SetOpened
  <2>20. CASE Leave(t)  BY <2>20 DEF Leave
  <2> QED
    BY <1>1, <2>11, <2>12, <2>13, <2>14, <2>15, <2>16, <2>17, <2>18, <2>19, <2>20
    DEF Pass
<1>2. CASE Surroundings \/ UNCHANGED breakerVars
  <2>1. failures' = failures /\ at' = at /\ (opened' = "None" <=> opened = "None")
    BY <1>2 DEF Surroundings, CooldownPasses, ModelFlips, StampAges, breakerVars
  <2>2. Of(at, Asking)' = Of(at, Asking) /\ Of(at, Opening)' = Of(at, Opening)
    BY <2>1, OfPrime DEF Asking, Opening
  <2> QED  BY <2>1, <2>2 DEF BreakerInv, Asking, Opening
<1> QED  BY <1>1, <1>2 DEF BreakerNext

-----------------------------------------------------------------------------
\* Whatever the threads are that share it, the breaker has its types and its
\* bound.
THEOREM BreakerIsSound == BreakerSpec => [](BreakerTypeOK /\ BreakerInv)
<1>1. BreakerInit => BreakerTypeOK /\ BreakerInv
  <2> SUFFICES ASSUME BreakerInit PROVE BreakerTypeOK /\ BreakerInv
    OBVIOUS
  <2>1. BreakerTypeOK  BY DEF BreakerInit, BreakerTypeOK
  <2>2. \A t \in Thread : at[t] \notin Asking \cup Opening
    BY DEF BreakerInit, Asking, Opening
  <2>3. failures <= Threshold - 1 + Of(at, Opening) /\ opened = "None"
    BY OfType, BreakerAssumption DEF BreakerInit
  <2> QED  BY <2>1, <2>2, <2>3 DEF BreakerInv
<1>2. BreakerTypeOK /\ BreakerInv /\ [BreakerNext]_breakerVars
        => (BreakerTypeOK /\ BreakerInv)'
  BY BreakerType, BreakerInvStep
<1> QED  BY <1>1, <1>2, PTL DEF BreakerSpec

\* Whoever shares the breaker, a dead model is called at most Threshold times
\* before it opens, and once for every other worker on its way.
THEOREM BreakerShedsInTime == BreakerSpec => []FailuresBounded
<1>1. BreakerTypeOK /\ BreakerInv => FailuresBounded
  <2> SUFFICES ASSUME BreakerTypeOK, BreakerInv PROVE FailuresBounded
    OBVIOUS
  <2>1. /\ Of(at, Opening) \in Nat /\ Of(at, Opening) <= Cardinality(Worker)
        /\ Of(at, Asking) \in Nat
    BY OfType
  <2> QED
    BY <2>1, WorkerCount, BreakerAssumption DEF FailuresBounded, BreakerInv, BreakerTypeOK
<1> QED  BY <1>1, BreakerIsSound, PTL

\* Every step of the load is a step of the breaker or leaves it alone.
LEMMA BreakerPart == [Next]_vars => [BreakerNext]_breakerVars
BY DEF Next, vars, Run, StartRun, Offer, EndSending, Join, Return, ClearLatencies,
       Shutdown, Settle, Take, AskModel, Complete, Catch, TaskDone, Exit, Probe, World, BreakerNext, Thread

\* The driver's workers and the probes use the breaker as it may be used.
THEOREM LoadUsesBreaker == Spec => BreakerSpec
<1>1. Init => BreakerInit  BY DEF Init
<1> QED  BY <1>1, BreakerPart, PTL DEF Spec, BreakerSpec

\* So a dead model is spared under load.
THEOREM DeadModelIsSpared == Spec => []FailuresBounded
BY LoadUsesBreaker, BreakerShedsInTime, PTL

-----------------------------------------------------------------------------
\* What the steps of the load do to the counts of requests.
LEMMA LoopInvStep ==
    ASSUME TypeOK, LoopInv, [Next]_vars
    PROVE  LoopInv'
<1> DEFINE three == {"model", "early", "counted"}  two == {"model", "early"}
<1> DEFINE u == Of(job, three)  h == Of(job, two)
           v == Of(job', three)  k == Of(job', two)
<1>1. u \in Nat /\ h \in Nat /\ v \in Nat /\ k \in Nat
  BY OfType
<1>2. Of(job, three)' = v /\ Of(job, two)' = k
  BY OfPrime
<1>3. ASSUME NEW w \in Worker, NEW from, NEW to, Has(w, from, to)
      PROVE  /\ v = u + One(to \in three) - One(from \in three)
             /\ k = h + One(to \in two) - One(from \in two)
  <2>1. /\ \A y \in Worker \ {w} : job'[y] = job[y]
        /\ job'[w] = to /\ job[w] = from
    BY <1>3 DEF Has, TypeOK
  <2>2. /\ v = u + One(job'[w] \in three) - One(job[w] \in three)
        /\ k = h + One(job'[w] \in two) - One(job[w] \in two)
    BY <2>1, OfMove
  <2> QED  BY <2>1, <2>2
<1>4. UNCHANGED job => v = u /\ k = h
  OBVIOUS
<1> DEFINE Good(q, l, e, unf, k1, k2, ph, b, ea, rep, se, dr) ==
             /\ unf = q + k1
             /\ ph # "idle" => /\ b <= l
                               /\ se = (l - b) + (e - ea) + dr + q + k2
             /\ ph = "idle" =>
                  /\ unf = 0
                  /\ rep.offered = rep.completed + rep.shed + (rep.errors - ea)
<1>5. Good(queue, latencies, errors, unfinished, u, h, phase, before, earlier,
           report, sent, dropped)
  BY DEF LoopInv, ReportAddsUp
<1>6. u = 0 => h = 0
  <2>1. u = 0 => \A y \in Worker : job[y] \notin three
    BY CountNone, BreakerAssumption DEF Of
  <2>2. (\A y \in Worker : job[y] \notin two) => h = 0
    BY CountNone, BreakerAssumption DEF Of
  <2> QED  BY <2>1, <2>2
<1>7. /\ queue \in Nat /\ unfinished \in Nat /\ sent \in Nat /\ dropped \in Nat
      /\ latencies \in Nat /\ errors \in Nat /\ before \in Nat /\ earlier \in Nat
  BY OpenLoopAssumption DEF TypeOK
<1> SUFFICES Good(queue', latencies', errors', unfinished', v, k, phase', before',
                  earlier', report', sent', dropped')
  BY <1>2 DEF LoopInv, ReportAddsUp
<1> HIDE DEF u, h, v, k
<1> USE <1>1, <1>4, <1>5, <1>6, <1>7
<1> USE DEF driverVars, countVars, runVars, One
<1>11. CASE StartRun  BY <1>11 DEF StartRun
<1>12. CASE Offer  BY <1>12 DEF Offer
<1>13. CASE EndSending \/ Join \/ ClearLatencies \/ Shutdown
  <2>1. CASE EndSending  BY <2>1 DEF EndSending
  <2>2. CASE Join
    <3>1. /\ queue = 0 /\ u = 0 /\ h = 0
          /\ sent = (latencies - before) + (errors - earlier) + dropped
      BY <2>2 DEF Join
    <3> QED  BY <2>2, <3>1 DEF Join, Return
  <2>3. CASE ClearLatencies  BY <2>3 DEF ClearLatencies
  <2>4. CASE Shutdown  BY <2>4 DEF Shutdown
  <2> QED  BY <1>13, <2>1, <2>2, <2>3, <2>4
<1>14. ASSUME NEW w \in Worker, Settle(w) \/ Exit(w)
       PROVE  Good(queue', latencies', errors', unfinished', v, k, phase', before',
                   earlier', report', sent', dropped')
  <2>0. phase = "idle" => \A y \in Worker : job[y] \notin {"model", "early", "counted"}
    <3>1. phase = "idle" => u = 0 /\ queue = 0  OBVIOUS
    <3>2. u = 0 => \A y \in Worker : job[y] \notin {"model", "early", "counted"}
      BY CountNone, BreakerAssumption DEF Of, u
    <3> QED  BY <3>1, <3>2
  <2>1. CASE Take(w, "model")
    <3>1. v = u + 1 /\ k = h + 1  BY <2>1, <1>3 DEF Take
    <3>2. phase # "idle"  BY <2>1 DEF Take
    <3> QED  BY <2>1, <3>1, <3>2 DEF Take
  <2>2. CASE Take(w, "early")
    <3>1. v = u + 1 /\ k = h + 1  BY <2>2, <1>3 DEF Take
    <3>2. phase # "idle"  BY <2>2 DEF Take
    <3> QED  BY <2>2, <3>1, <3>2 DEF Take
  <2>3. CASE AskModel(w)  BY <2>3 DEF AskModel, loopVars
  <2>4. CASE Complete(w)
    <3>1. v = u /\ k = h - 1  BY <2>4, <1>3 DEF Complete
    <3>2. phase # "idle"  BY <2>0, <2>4 DEF Complete, Has
    <3> QED  BY <2>4, <3>1, <3>2 DEF Complete
  <2>5. CASE Catch(w)
    <3>1. v = u /\ k = h - 1  BY <2>5, <1>3 DEF Catch
    <3>2. phase # "idle"  BY <2>0, <2>5 DEF Catch, Has
    <3> QED  BY <2>5, <3>1, <3>2 DEF Catch
  <2>6. CASE TaskDone(w)
    <3>1. v = u - 1 /\ k = h  BY <2>6, <1>3 DEF TaskDone
    <3>2. phase # "idle"  BY <2>0, <2>6 DEF TaskDone, Has
    <3> QED  BY <2>6, <3>1, <3>2 DEF TaskDone
  <2>7. CASE Exit(w)
    <3>1. v = u /\ k = h  BY <2>7, <1>3 DEF Exit
    <3> QED  BY <2>7, <3>1 DEF Exit
  <2> QED  BY <1>14, <2>1, <2>2, <2>3, <2>4, <2>5, <2>6, <2>7 DEF Settle
<1>15. CASE (\E p \in Prober : Probe(p)) \/ World \/ UNCHANGED vars
  BY <1>15 DEF Probe, World, vars, loopVars
<1> QED  BY <1>11, <1>12, <1>13, <1>14, <1>15 DEF Next, Run

\* The types, of which that of unfinished rests on what it counts.
LEMMA LoopTypeStep ==
    ASSUME TypeOK, LoopInv, LoopInv', [Next]_vars
    PROVE  TypeOK'
<1> USE OpenLoopAssumption DEF TypeOK, driverVars, countVars, runVars, loopVars
<1>1. BreakerTypeOK'
  BY BreakerPart, BreakerType
<1>2. queue' \in 0 .. MaxQueue
  BY DEF Next, vars, Run, StartRun, Offer, EndSending, Join, Return, ClearLatencies,
         Shutdown, Settle, Take, AskModel, Complete, Catch, TaskDone, Exit, Probe, World
<1>3. unfinished' \in Nat
  <2>1. Of(job, {"model", "early", "counted"})' \in Nat
    BY OfType, OfPrime
  <2> QED  BY <2>1, <1>2 DEF LoopInv
<1>4. CASE Run \/ ClearLatencies \/ Shutdown
  <2>1. CASE StartRun  BY <1>1, <1>2, <1>3, <2>1 DEF StartRun
  <2>2. CASE Offer  BY <1>1, <1>2, <1>3, <2>2 DEF Offer
  <2>3. CASE EndSending  BY <1>1, <1>2, <1>3, <2>3 DEF EndSending
  <2>4. CASE ClearLatencies  BY <1>1, <1>2, <1>3, <2>4 DEF ClearLatencies
  <2>5. CASE Shutdown  BY <1>1, <1>2, <1>3, <2>5 DEF Shutdown
  <2>6. CASE Join
    <3>1. latencies - before \in Nat  BY <2>6 DEF Join, LoopInv
    <3> QED  BY <1>1, <1>2, <1>3, <2>6, <3>1 DEF Join, Return
  <2> QED  BY <1>4, <2>1, <2>2, <2>3, <2>4, <2>5, <2>6 DEF Run
<1>5. ASSUME NEW w \in Worker, Settle(w) \/ Exit(w)  PROVE TypeOK'
  BY <1>1, <1>2, <1>3, <1>5 DEF Settle, Exit, Take, AskModel, Complete, Catch, TaskDone, Has
<1>6. CASE (\E p \in Prober : Probe(p)) \/ World \/ UNCHANGED vars
  BY <1>1, <1>2, <1>3, <1>6 DEF Probe, World, vars
<1> QED  BY <1>4, <1>5, <1>6 DEF Next

\* The driver and its workers keep their types, and in every run of the driver
\* no request is counted twice or forgotten on its way.
THEOREM LoopIsSound == Spec => [](TypeOK /\ LoopInv)
<1>1. Init => TypeOK /\ LoopInv
  <2> SUFFICES ASSUME Init PROVE TypeOK /\ LoopInv
    OBVIOUS
  <2>1. BreakerTypeOK  BY DEF Init, BreakerInit, BreakerTypeOK
  <2>2. \A w \in Worker : job[w] = "none"  BY DEF Init
  <2>3. /\ Of(job, {"model", "early", "counted"}) = 0
        /\ Of(job, {"model", "early"}) = 0
    BY <2>2, CountNone, BreakerAssumption DEF Of
  <2>4. queue \in 0 .. MaxQueue /\ sent \in 0 .. MaxOffered /\ runs \in 0 .. MaxRuns
    BY OpenLoopAssumption DEF Init
  <2>5. TypeOK  BY <2>1, <2>4 DEF Init, TypeOK
  <2> QED  BY <2>3, <2>5 DEF Init, LoopInv, ReportAddsUp
<1>2. TypeOK /\ LoopInv /\ [Next]_vars => (TypeOK /\ LoopInv)'
  BY LoopInvStep, LoopTypeStep
<1> QED  BY <1>1, <1>2, PTL DEF Spec

\* What each run of the driver returns adds up, once the errors that it had
\* counted before the run began are taken off those it returns.
THEOREM NumbersAddUp == Spec => []ReportAddsUp
<1>1. LoopInv => ReportAddsUp
  BY DEF LoopInv, ReportAddsUp
<1> QED  BY <1>1, LoopIsSound, PTL
=============================================================================
