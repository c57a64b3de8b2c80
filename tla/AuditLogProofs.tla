--------------------------- MODULE AuditLogProofs ---------------------------
(***************************************************************************)
(* Proofs about AuditLog and LoadDrill, for any number of request threads  *)
(* and records: the types and the lock, that the line comes before the     *)
(* buffer, what the fsync policies promise, how much a torn line damages,  *)
(* what recover tells apart, that the log makes up for what a crash or the *)
(* drain takes out of the buffer, and that the load drill loses nothing.   *)
(***************************************************************************)
EXTENDS LoadDrill, FiniteSetTheorems, TLAPS

Logged == {"written", "synced", "buffer", "gauge"}

\* Two threads never write the same record, and it is new until its line is in
\* the file: so the buffer can only get what has its line.
LoggedInv ==
    /\ \A w \in Worker : at[w] # "idle" => rec[w] \in Record
    /\ \A w, x \in Worker :
          w # x /\ at[w] # "idle" /\ at[x] # "idle" => rec[w] # rec[x]
    /\ \A w \in Worker : at[w] = "append" => rec[w] \notin file \cup wiped
    /\ \A w \in Worker : at[w] \in Logged => rec[w] \in file \cup wiped
    /\ BufferedIsLogged

\* A thread that is past the fsync has its record on the disk.
DurableInv ==
    /\ AnsweredIsDurable
    /\ \A w \in Worker : at[w] = "written" => rec[w] \notin wiped
    /\ fsync = "always" =>
          \A w \in Worker :
             at[w] \in {"synced", "buffer", "gauge"} => rec[w] \notin unsynced \cup wiped

\* The count is at least what waits for an fsync, and below the batch whenever
\* the lock is free.
BatchInv ==
    /\ \A w \in Worker : at[w] = "synced" => unsynced = {}
    /\ IsFiniteSet(unsynced \ inherited)
    /\ fsync = "batch" /\ up =>
          /\ Cardinality(unsynced \ inherited) <= sinceSync
          /\ lock = Nobody => sinceSync < BatchSize

AuditInv == TypeOK /\ LoggedInv /\ DurableInv /\ BatchInv

-----------------------------------------------------------------------------
\* The steps of a request thread, of the drain and of the world.
Writes(w) == Begin(w) \/ WriteLine(w) \/ Sync(w) \/ SkipSync(w) \/ EndSync(w)

Returns(w) == Buffer(w) \/ Answer(w)

Drains == DrainExtend \/ DrainClear \/ SinkFlips \/ TimePasses

Stops == Close \/ ProcessCrash \/ MachineCrash

LEMMA TypeStep ==
    ASSUME TypeOK, LoggedInv, [Next]_vars
    PROVE  TypeOK'
<1> USE AuditAssumption
<1> USE DEF TypeOK, fileVars, walVars, logVars, workVars, worldVars
<1>1. ASSUME NEW w \in Worker, Writes(w)  PROVE TypeOK'
  <2>1. CASE Begin(w)  BY <2>1 DEF Begin, GoTo, Fresh
  <2>2. CASE WriteLine(w)
    <3>1. rec[w] \in Record  BY <2>2 DEF WriteLine, GoTo, LoggedInv
    <3>2. \A x \in Worker : at'[x] \in {"written", "synced"} <=> lock' = x
      <4>1. \A x \in Worker : at[x] \notin {"written", "synced"}
        BY <2>2 DEF WriteLine
      <4> QED  BY <2>2, <4>1 DEF WriteLine, GoTo
    <3>3. /\ file' \subseteq Record /\ glued' \subseteq Record
          /\ unsynced' \subseteq Record
      BY <2>2, <3>1 DEF WriteLine
    <3>4. sinceSync' \in Nat  BY <2>2 DEF WriteLine
    <3>5. torn' \in BOOLEAN  BY <2>2, Zenon DEF WriteLine
    <3>6. at' \in [Worker -> {"idle", "append", "written", "synced", "buffer", "gauge"}]
      BY <2>2 DEF WriteLine, GoTo
    <3> QED  BY <2>2, <3>2, <3>3, <3>4, <3>5, <3>6 DEF WriteLine
  <2>3. CASE Sync(w)  BY <2>3 DEF Sync, GoTo
  <2>4. CASE SkipSync(w)  BY <2>4 DEF SkipSync, GoTo
  <2>5. CASE EndSync(w)  BY <2>5 DEF EndSync, GoTo
  <2> QED  BY <1>1, <2>1, <2>2, <2>3, <2>4, <2>5 DEF Writes
<1>2. ASSUME NEW w \in Worker, Returns(w)  PROVE TypeOK'
  <2>1. rec[w] \in Record  BY <1>2 DEF Returns, Buffer, Answer, GoTo, LoggedInv
  <2>2. CASE Buffer(w)  BY <2>1, <2>2 DEF Buffer, GoTo
  <2>3. CASE Answer(w)  BY <2>1, <2>3 DEF Answer, GoTo
  <2> QED  BY <1>2, <2>2, <2>3 DEF Returns
<1>3. CASE Drains
  BY <1>3 DEF Drains, DrainExtend, DrainClear, SinkFlips, TimePasses
<1>4. CASE Stops
  <2>1. Forget  BY <1>4 DEF Stops, Close, ProcessCrash, MachineCrash
  <2>2. \A x \in Worker : at'[x] \in {"written", "synced"} <=> lock' = x
    BY <2>1 DEF Forget
  <2>3. up' \in BOOLEAN /\ draining' \in BOOLEAN  BY <2>1, Zenon DEF Forget
  <2>4. stops' \in 0 .. MaxStops  BY <2>1 DEF Forget
  <2>5. /\ at' \in [Worker -> {"idle", "append", "written", "synced", "buffer", "gauge"}]
        /\ rec' \in [Worker -> Record \cup {NoRecord}]
    BY <2>1 DEF Forget
  <2>6. /\ file' \subseteq Record /\ glued' \subseteq Record
        /\ unsynced' \subseteq Record /\ wiped' \subseteq Record /\ torn' \in BOOLEAN
    BY <1>4 DEF Stops, Close, ProcessCrash, MachineCrash
  <2> QED  BY <2>1, <2>2, <2>3, <2>4, <2>5, <2>6 DEF Forget
<1>5. CASE Restart  BY <1>5 DEF Restart
<1>6. CASE UNCHANGED vars  BY <1>6 DEF vars
<1> QED
  BY <1>1, <1>2, <1>3, <1>4, <1>5, <1>6 DEF Next, Work, Writes, Returns, Drains, Stops

LEMMA LoggedStep ==
    ASSUME TypeOK, LoggedInv, [Next]_vars
    PROVE  LoggedInv'
<1> USE AuditAssumption
<1> USE DEF LoggedInv, BufferedIsLogged, Logged, fileVars, walVars, logVars, workVars,
            worldVars
<1>0. at \in [Worker -> {"idle", "append", "written", "synced", "buffer", "gauge"}]
      /\ rec \in [Worker -> Record \cup {NoRecord}]
  BY DEF TypeOK
<1>1. ASSUME NEW w \in Worker, Writes(w)  PROVE LoggedInv'
  <2>1. CASE Begin(w)
    <3>1. /\ rec'[w] \in Record \ (file \cup wiped)
          /\ \A x \in Worker : rec'[w] # rec[x]
          /\ \A x \in Worker \ {w} : rec'[x] = rec[x] /\ at'[x] = at[x]
          /\ at'[w] = "append"
      BY <1>0, <2>1 DEF Begin, GoTo, Fresh
    <3> QED  BY <2>1, <3>1 DEF Begin
  <2>2. CASE WriteLine(w)  BY <1>0, <2>2 DEF WriteLine, GoTo
  <2>3. CASE Sync(w)  BY <1>0, <2>3 DEF Sync, GoTo
  <2>4. CASE SkipSync(w)  BY <1>0, <2>4 DEF SkipSync, GoTo
  <2>5. CASE EndSync(w)  BY <1>0, <2>5 DEF EndSync, GoTo
  <2> QED  BY <1>1, <2>1, <2>2, <2>3, <2>4, <2>5 DEF Writes
<1>2. ASSUME NEW w \in Worker, Returns(w)  PROVE LoggedInv'
  <2>2. CASE Buffer(w)  BY <1>0, <2>2 DEF Buffer, GoTo
  <2>3. CASE Answer(w)  BY <1>0, <2>3 DEF Answer, GoTo
  <2> QED  BY <1>2, <2>2, <2>3 DEF Returns
<1>3. CASE Drains
  BY <1>3 DEF Drains, DrainExtend, DrainClear, SinkFlips, TimePasses
<1>4. CASE Stops
  <2>1. \A w \in Worker : at'[w] = "idle"
    BY <1>4 DEF Stops, Close, ProcessCrash, MachineCrash, Forget
  <2>2. /\ file \cup wiped \subseteq file' \cup wiped'
        /\ buffer' = {} /\ shipped' = shipped /\ answered' = answered
    BY <1>4 DEF Stops, Close, ProcessCrash, MachineCrash, Forget
  <2> QED  BY <2>1, <2>2
<1>5. CASE Restart  BY <1>5 DEF Restart
<1>6. CASE UNCHANGED vars  BY <1>6 DEF vars
<1> QED
  BY <1>1, <1>2, <1>3, <1>4, <1>5, <1>6 DEF Next, Work, Writes, Returns, Drains, Stops

LEMMA DurableStep ==
    ASSUME TypeOK, LoggedInv, DurableInv, [Next]_vars
    PROVE  DurableInv'
<1> USE AuditAssumption
<1> USE DEF DurableInv, AnsweredIsDurable, fileVars, walVars, logVars, workVars, worldVars
<1>0. /\ at \in [Worker -> {"idle", "append", "written", "synced", "buffer", "gauge"}]
      /\ rec \in [Worker -> Record \cup {NoRecord}]
      /\ \A w \in Worker : at[w] \in {"written", "synced", "buffer", "gauge"} =>
            rec[w] \in file \cup wiped
      /\ \A w \in Worker : at[w] = "append" => rec[w] \notin file \cup wiped
      /\ buffer \cup shipped \cup answered \subseteq file \cup wiped
  BY DEF TypeOK, LoggedInv, Logged, BufferedIsLogged
<1>1. ASSUME NEW w \in Worker, Writes(w)  PROVE DurableInv'
  <2>1. CASE Begin(w)  BY <1>0, <2>1 DEF Begin, GoTo
  <2>2. CASE WriteLine(w)
    <3>1. /\ \A x \in Worker : at'[x] \in {"synced", "buffer", "gauge"} =>
                x # w /\ at[x] = at'[x] /\ rec[x] # rec[w]
          /\ rec[w] \notin buffer \cup shipped \cup answered \cup wiped
      BY <1>0, <2>2 DEF WriteLine, GoTo
    <3>2. \A x \in Worker : at'[x] = "written" => x = w \/ at[x] = "written"
      BY <1>0, <2>2 DEF WriteLine, GoTo
    <3> QED  BY <1>0, <2>2, <3>1, <3>2 DEF WriteLine
  <2>3. CASE Sync(w)  BY <1>0, <2>3 DEF Sync, GoTo
  <2>4. CASE SkipSync(w)  BY <1>0, <2>4 DEF SkipSync, GoTo, SyncDue
  <2>5. CASE EndSync(w)  BY <1>0, <2>5 DEF EndSync, GoTo
  <2> QED  BY <1>1, <2>1, <2>2, <2>3, <2>4, <2>5 DEF Writes
<1>2. ASSUME NEW w \in Worker, Returns(w)  PROVE DurableInv'
  <2>2. CASE Buffer(w)  BY <1>0, <2>2 DEF Buffer, GoTo
  <2>3. CASE Answer(w)  BY <1>0, <2>3 DEF Answer, GoTo
  <2> QED  BY <1>2, <2>2, <2>3 DEF Returns
<1>3. CASE Drains
  BY <1>3 DEF Drains, DrainExtend, DrainClear, SinkFlips, TimePasses
<1>4. CASE Stops
  <2>1. \A w \in Worker : at'[w] = "idle"
    BY <1>4 DEF Stops, Close, ProcessCrash, MachineCrash, Forget
  <2>2. /\ unsynced' \cup wiped' \subseteq unsynced \cup wiped /\ fsync' = fsync
        /\ buffer' = {} /\ shipped' = shipped /\ answered' = answered
    BY <1>4 DEF Stops, Close, ProcessCrash, MachineCrash, Forget
  <2> QED  BY <2>1, <2>2
<1>5. CASE Restart  BY <1>5 DEF Restart
<1>6. CASE UNCHANGED vars  BY <1>6 DEF vars
<1> QED
  BY <1>1, <1>2, <1>3, <1>4, <1>5, <1>6 DEF Next, Work, Writes, Returns, Drains, Stops

LEMMA BatchStep ==
    ASSUME TypeOK, BatchInv, [Next]_vars
    PROVE  BatchInv'
<1> USE AuditAssumption
<1> USE DEF BatchInv, fileVars, walVars, logVars, workVars, worldVars
<1>0. /\ at \in [Worker -> {"idle", "append", "written", "synced", "buffer", "gauge"}]
      /\ \A w \in Worker : at[w] \in {"written", "synced"} <=> lock = w
      /\ sinceSync \in Nat
  BY DEF TypeOK
<1>1. IsFiniteSet({}) /\ Cardinality({}) = 0
  BY FS_EmptySet
<1>2. Cardinality(unsynced \ inherited) \in Nat
  BY FS_CardinalityType
<1>3. ASSUME NEW w \in Worker, Writes(w)  PROVE BatchInv'
  <2>1. CASE Begin(w)  BY <1>0, <2>1 DEF Begin, GoTo
  <2>2. CASE WriteLine(w)
    <3> DEFINE old == unsynced \ inherited  new == unsynced' \ inherited'
    <3>1. /\ IsFiniteSet(old \cup {rec[w]})
          /\ Cardinality(old \cup {rec[w]}) <= Cardinality(old) + 1
      <4>1. IsFiniteSet(old) /\ Cardinality(old) \in Nat  BY <1>2
      <4> DEFINE r == rec[w]
      <4> HIDE DEF old, r
      <4>2. /\ IsFiniteSet(old \cup {r})
            /\ Cardinality(old \cup {r}) = IF r \in old THEN Cardinality(old)
                                            ELSE Cardinality(old) + 1
        BY <4>1, FS_AddElement, Zenon
      <4>3. IsFiniteSet(old \cup {r}) /\ Cardinality(old \cup {r}) <= Cardinality(old) + 1
        BY <4>1, <4>2
      <4> QED  BY <4>3 DEF r
    <3>2. new \subseteq old \cup {rec[w]}  BY <2>2 DEF WriteLine
    <3>3. IsFiniteSet(new) /\ Cardinality(new) <= Cardinality(old) + 1 /\ Cardinality(new) \in Nat
      BY <1>2, <3>1, <3>2, FS_Subset, FS_CardinalityType
    <3>4. \A x \in Worker : at'[x] # "synced"  BY <1>0, <2>2 DEF WriteLine, GoTo
    <3>5. lock' # Nobody /\ sinceSync' = sinceSync + 1 /\ fsync' = fsync /\ up' = up
      BY <2>2 DEF WriteLine
    <3> QED  BY <1>0, <1>2, <3>3, <3>4, <3>5
  <2>3. CASE Sync(w)
    <3>1. unsynced' \ inherited' = {}  BY <2>3 DEF Sync
    <3> QED  BY <1>0, <1>1, <2>3, <3>1 DEF Sync, GoTo
  <2>4. CASE SkipSync(w)
    <3>1. fsync = "batch" => sinceSync < BatchSize
      BY <1>0, <2>4 DEF SkipSync, SyncDue
    <3> QED  BY <1>0, <2>4, <3>1 DEF SkipSync, GoTo
  <2>5. CASE EndSync(w)
    <3>1. unsynced' \ inherited' = {}  BY <2>5 DEF EndSync, GoTo
    <3> QED  BY <1>0, <1>1, <2>5, <3>1 DEF EndSync, GoTo
  <2> QED  BY <1>3, <2>1, <2>2, <2>3, <2>4, <2>5 DEF Writes
<1>4. ASSUME NEW w \in Worker, Returns(w)  PROVE BatchInv'
  BY <1>0, <1>4 DEF Returns, Buffer, Answer, GoTo
<1>5. CASE Drains
  BY <1>5 DEF Drains, DrainExtend, DrainClear, SinkFlips, TimePasses
<1>6. CASE Stops
  <2>1. /\ up' = FALSE /\ unsynced' \in {unsynced, {}} /\ inherited' = inherited
        /\ \A w \in Worker : at'[w] = "idle"
    BY <1>6 DEF Stops, Close, ProcessCrash, MachineCrash, Forget
  <2>2. unsynced' \ inherited' = unsynced \ inherited \/ unsynced' \ inherited' = {}
    BY <2>1
  <2> QED  BY <1>1, <2>1, <2>2
<1>7. CASE Restart
  <2>1. unsynced' \ inherited' = {}  BY <1>7 DEF Restart
  <2> QED  BY <1>1, <1>7, <2>1 DEF Restart
<1>8. CASE UNCHANGED vars  BY <1>8 DEF vars
<1> QED
  BY <1>3, <1>4, <1>5, <1>6, <1>7, <1>8 DEF Next, Work, Writes, Returns, Drains, Stops

-----------------------------------------------------------------------------
\* The audit trail, driven by anybody, has its types, and what its threads hold
\* fits what is in the file, on the disk and counted.
THEOREM AuditIsSound == Spec => []AuditInv
<1>1. Init => AuditInv
  <2> SUFFICES ASSUME Init PROVE AuditInv
    OBVIOUS
  <2>1. TypeOK
    <3>1. \A w \in Worker : at[w] \in {"written", "synced"} <=> lock = w
      BY AuditAssumption DEF Init
    <3>2. /\ up \in BOOLEAN /\ torn \in BOOLEAN /\ sinkUp \in BOOLEAN
          /\ draining \in BOOLEAN
      BY Zenon DEF Init
    <3>3. sinceSync \in Nat /\ stops \in 0 .. MaxStops
      BY AuditAssumption DEF Init
    <3> QED  BY <3>1, <3>2, <3>3 DEF Init, TypeOK
  <2>2. LoggedInv  BY DEF Init, LoggedInv, Logged, BufferedIsLogged
  <2>3. DurableInv  BY DEF Init, DurableInv, AnsweredIsDurable
  <2>4. BatchInv
    <3>1. unsynced \ inherited = {} /\ sinceSync = 0 /\ \A w \in Worker : at[w] = "idle"
      BY DEF Init
    <3> QED  BY <3>1, FS_EmptySet, AuditAssumption DEF BatchInv
  <2> QED  BY <2>1, <2>2, <2>3, <2>4 DEF AuditInv
<1>2. AuditInv /\ [Next]_vars => AuditInv'
  BY TypeStep, LoggedStep, DurableStep, BatchStep DEF AuditInv
<1> QED  BY <1>1, <1>2, PTL DEF Spec

\* The lock is held by the thread inside append, and every variable has its type.
THEOREM AuditTypes == Spec => []TypeOK
<1>1. AuditInv => TypeOK  BY DEF AuditInv
<1> QED  BY <1>1, AuditIsSound, PTL

\* The line comes before the buffer, the sink and the answer.
THEOREM LineComesFirst == Spec => []BufferedIsLogged
<1>1. AuditInv => BufferedIsLogged  BY DEF AuditInv, LoggedInv
<1> QED  BY <1>1, AuditIsSound, PTL

\* Under "always" a decision that was returned is on the disk for good.
THEOREM AnswersAreDurable == Spec => []AnsweredIsDurable
<1>1. AuditInv => AnsweredIsDurable  BY DEF AuditInv, DurableInv
<1> QED  BY <1>1, AuditIsSound, PTL

\* Under "batch" fewer than one batch of this life's records wait for an fsync.
THEOREM BatchIsBounded == Spec => []UnsyncedBounded
<1>1. AuditInv => UnsyncedBounded
  <2> SUFFICES ASSUME AuditInv, fsync = "batch", up, lock = Nobody
               PROVE  Cardinality(unsynced \ inherited) < BatchSize
    BY DEF UnsyncedBounded
  <2>1. /\ IsFiniteSet(unsynced \ inherited) /\ sinceSync \in Nat
        /\ Cardinality(unsynced \ inherited) <= sinceSync /\ sinceSync < BatchSize
    BY DEF AuditInv, BatchInv, TypeOK
  <2>2. Cardinality(unsynced \ inherited) \in Nat
    BY <2>1, FS_CardinalityType
  <2> QED  BY <2>1, <2>2, AuditAssumption
<1> QED  BY <1>1, AuditIsSound, PTL

-----------------------------------------------------------------------------
\* What holds in place of every line being readable: a stop leaves at most one line
\* torn, and a torn line damages at most the one that is written after it.
DamageInv ==
    /\ IsFiniteSet(glued)
    /\ Cardinality(glued) + (IF torn THEN 1 ELSE 0) <= stops

LEMMA DamageStep ==
    ASSUME TypeOK, DamageInv, [Next]_vars
    PROVE  DamageInv'
<1> DEFINE n == Cardinality(glued)
<1>1. /\ IsFiniteSet(glued) /\ n \in Nat /\ stops \in Nat /\ torn \in BOOLEAN
      /\ torn => n + 1 <= stops
      /\ n <= stops
  <2>1. IsFiniteSet(glued) /\ n \in Nat  BY FS_CardinalityType DEF DamageInv
  <2>2. stops \in Nat /\ torn \in BOOLEAN  BY AuditAssumption DEF TypeOK
  <2>3. n + (IF torn THEN 1 ELSE 0) <= stops  BY DEF DamageInv
  <2> HIDE DEF n
  <2> QED  BY <2>1, <2>2, <2>3
<1>2. ASSUME NEW w \in Worker, WriteLine(w)  PROVE DamageInv'
  <2> DEFINE r == rec[w]
  <2>1. /\ stops' = stops /\ torn' = FALSE
        /\ glued' = IF torn THEN glued \cup {r} ELSE glued
    BY <1>2 DEF WriteLine, GoTo, worldVars
  <2>2. CASE ~torn
    <3>1. glued' = glued /\ Cardinality(glued') = n  BY <2>1, <2>2
    <3> HIDE DEF n, r
    <3> QED  BY <1>1, <2>1, <3>1 DEF DamageInv
  <2>3. CASE torn
    <3> HIDE DEF r
    <3>1. /\ IsFiniteSet(glued \cup {r})
          /\ Cardinality(glued \cup {r}) = IF r \in glued THEN n ELSE n + 1
      BY <1>1, FS_AddElement, Zenon
    <3>2. glued' = glued \cup {r}  BY <2>1, <2>3
    <3>3. IsFiniteSet(glued') /\ Cardinality(glued') \in {n, n + 1}
      BY <3>1, <3>2
    <3> HIDE DEF n
    <3> QED  BY <1>1, <2>1, <2>3, <3>3 DEF DamageInv
  <2> QED  BY <1>1, <2>2, <2>3
<1>3. CASE glued' = glued /\ stops' = stops + 1 /\ torn' \in BOOLEAN
  <2>1. Cardinality(glued') = n  BY <1>3
  <2> HIDE DEF n
  <2> QED  BY <1>1, <1>3, <2>1 DEF DamageInv
<1>4. CASE glued' = glued /\ stops' = stops /\ torn' = torn
  <2>1. Cardinality(glued') = n  BY <1>4
  <2> HIDE DEF n
  <2> QED  BY <1>1, <1>4, <2>1 DEF DamageInv
<1>5. CASE Close \/ ProcessCrash \/ MachineCrash
  <2>1. glued' = glued /\ stops' = stops + 1
    BY <1>5 DEF Close, ProcessCrash, MachineCrash, Forget
  <2>2. torn' \in BOOLEAN
    BY <1>1, <1>5 DEF Close, ProcessCrash, MachineCrash
  <2> QED  BY <1>3, <2>1, <2>2
<1>6. ASSUME NEW w \in Worker, Begin(w) \/ Sync(w) \/ SkipSync(w) \/ EndSync(w) \/ Returns(w)
      PROVE  glued' = glued /\ stops' = stops /\ torn' = torn
  BY <1>6 DEF Begin, Sync, SkipSync, EndSync, Returns, Buffer, Answer, fileVars, worldVars
<1>7. Drains \/ Restart \/ UNCHANGED vars
        => glued' = glued /\ stops' = stops /\ torn' = torn
  BY DEF Drains, DrainExtend, DrainClear, SinkFlips, TimePasses, Restart, vars, fileVars,
         worldVars
<1> QED  BY <1>2, <1>4, <1>5, <1>6, <1>7 DEF Next, Work, Drains, Returns

\* The audit log has at most one unreadable line for every time the service
\* stopped or its machine failed: so many decisions at most are neither in the
\* buffer nor given back, other than those a machine failure took.
THEOREM DamageIsBounded == Spec => [](IsFiniteSet(glued) /\ Cardinality(glued) <= stops)
<1>1. Init => DamageInv
  BY FS_EmptySet DEF Init, DamageInv
<1>2. TypeOK /\ DamageInv /\ [Next]_vars => DamageInv'
  BY DamageStep
<1>3. TypeOK /\ DamageInv => IsFiniteSet(glued) /\ Cardinality(glued) <= stops
  <2> SUFFICES ASSUME TypeOK, DamageInv
               PROVE  IsFiniteSet(glued) /\ Cardinality(glued) <= stops
    OBVIOUS
  <2>1. /\ IsFiniteSet(glued) /\ Cardinality(glued) \in Nat /\ stops \in Nat
        /\ Cardinality(glued) + (IF torn THEN 1 ELSE 0) <= stops
    BY FS_CardinalityType, AuditAssumption DEF DamageInv, TypeOK
  <2> QED  BY <2>1
<1> QED  BY <1>1, <1>2, <1>3, AuditTypes, PTL DEF Spec

\* What the shipped list tells apart: of the records that carry a decision_id
\* recover gives exactly those that were not shipped, and where all of them do,
\* of all; the service's carry none.
THEOREM RecoverByIdentity ==
    Spec => []( /\ Recover \cap Identified = (Records \ shipped) \cap Identified
                /\ Identified = Record => RecoverIsExact )
<1>1. TypeOK => /\ Recover \cap Identified = (Records \ shipped) \cap Identified
                /\ Identified = Record => RecoverIsExact
  BY DEF TypeOK, Recover, Records, RecoverIsExact
<1> QED  BY <1>1, AuditTypes, PTL


-----------------------------------------------------------------------------
\* Every step of the service or of the drill of run_load.py is a step of the
\* audit trail, so that what holds of it holds under either driver.
LEMMA DrillPart == [DrillNext]_allVars => [Next]_vars
BY DEF DrillNext, allVars, Decide, Log, ReadCount, StoreCount, Return, ServiceSink,
       DrillSink, SinkDown, SinkBack, Extend, Clear, Crash, Recovery, Next, Work

THEOREM DrillIsAudited == DrillSpec => Spec
<1>1. DrillInit => Init  BY DEF DrillInit
<1> QED  BY <1>1, DrillPart, PTL DEF DrillSpec, Spec

\* A record leaves the buffer for the sink or for good, and a record that has
\* left it never comes back: until then no other thread has it.
LossInv ==
    /\ shipped \subseteq sent
    /\ sent \cup lost \subseteq file \cup wiped
    /\ lost \cap (sent \cup buffer) = {}
    /\ \A w \in Worker :
          at[w] \in {"written", "synced", "buffer"} => rec[w] \notin buffer \cup sent \cup lost

LEMMA LossStep ==
    ASSUME AuditInv, LossInv, [DrillNext]_allVars
    PROVE  LossInv'
<1> USE AuditAssumption
<1> USE DEF LossInv, fileVars, walVars, logVars, workVars, worldVars
<1>0. /\ at \in [Worker -> {"idle", "append", "written", "synced", "buffer", "gauge"}]
      /\ rec \in [Worker -> Record \cup {NoRecord}]
      /\ \A w, x \in Worker :
            w # x /\ at[w] # "idle" /\ at[x] # "idle" => rec[w] # rec[x]
      /\ \A w \in Worker : at[w] = "append" => rec[w] \notin file \cup wiped
      /\ \A w \in Worker : at[w] \in {"written", "synced", "buffer", "gauge"} =>
            rec[w] \in file \cup wiped
      /\ buffer \cup shipped \subseteq file \cup wiped
  BY DEF AuditInv, TypeOK, LoggedInv, Logged, BufferedIsLogged
<1>1. ASSUME NEW w \in Worker, Begin(w), UNCHANGED drillVars  PROVE LossInv'
  BY <1>0, <1>1 DEF Begin, GoTo, drillVars
<1>2. ASSUME NEW w \in Worker, Log(w)  PROVE LossInv'
  <2>1. CASE WriteLine(w)
    <3>1. rec[w] \notin buffer \cup sent \cup lost
      BY <1>0, <2>1 DEF WriteLine, GoTo
    <3> QED  BY <1>0, <1>2, <2>1, <3>1 DEF WriteLine, GoTo, Log, drillVars
  <2>2. CASE Sync(w) \/ SkipSync(w) \/ EndSync(w)
    BY <1>0, <1>2, <2>2 DEF Sync, SkipSync, EndSync, GoTo, Log, drillVars
  <2>3. CASE Buffer(w)
    BY <1>0, <1>2, <2>3 DEF Buffer, GoTo, Log, drillVars
  <2> QED  BY <1>2, <2>1, <2>2, <2>3 DEF Log
<1>3. ASSUME NEW w \in Worker, Return(w)  PROVE LossInv'
  BY <1>0, <1>3 DEF Return, Answer, GoTo
<1>4. ASSUME NEW w \in Worker, ReadCount(w) \/ StoreCount(w)  PROVE LossInv'
  BY <1>4 DEF ReadCount, StoreCount, vars
<1>5. CASE Extend
  BY <1>0, <1>5 DEF Extend, DrainExtend
<1>6. CASE Clear
  BY <1>0, <1>6 DEF Clear, DrainClear
<1>7. CASE SinkFlips /\ UNCHANGED <<sent, lost>>
  BY <1>7 DEF SinkFlips
<1>8. CASE Crash
  <2>1. /\ file \cup wiped \subseteq file' \cup wiped'
        /\ buffer' = {} /\ shipped' = shipped /\ sent' = sent
        /\ lost' = lost \cup (buffer \ sent)
        /\ \A w \in Worker : at'[w] = "idle"
    BY <1>8 DEF Crash, Close, ProcessCrash, MachineCrash, Forget
  <2> QED  BY <1>0, <2>1
<1>9. CASE Recovery
  BY <1>9 DEF Recovery, Restart, TimePasses, drillVars
<1>10. CASE UNCHANGED allVars
  BY <1>10 DEF allVars, vars, drillVars
<1> QED
  BY <1>1, <1>2, <1>3, <1>4, <1>5, <1>6, <1>7, <1>8, <1>9, <1>10
  DEF DrillNext, Decide, ServiceSink, DrillSink, SinkDown, SinkBack

\* Whatever the drain and the crashes lose of the buffer, the file keeps, with or
\* without a decision_id, and recover gives it back as long as nothing without one
\* was shipped in this life of the process.
THEOREM NothingIsUnaccounted == DrillSpec => []NothingUnaccounted
<1>1. DrillInit => LossInv
  BY DEF DrillInit, Init, LossInv
<1>2. AuditInv /\ LossInv /\ [DrillNext]_allVars => LossInv'
  BY LossStep
<1>3. AuditInv /\ LossInv => NothingUnaccounted
  <2> SUFFICES ASSUME AuditInv, LossInv
               PROVE  NothingUnaccounted
    OBVIOUS
  <2>1. (answered \cup lost) \ (glued \cup wiped) \subseteq Records
    BY DEF AuditInv, LoggedInv, LossInv, BufferedIsLogged, Records
  <2>2. shipped \ Identified = {} => Records \subseteq shipped \cup Recover
    BY DEF Recover
  <2> QED  BY <2>1, <2>2 DEF NothingUnaccounted
<1> QED  BY <1>1, <1>2, <1>3, DrillIsAudited, AuditIsSound, PTL DEF DrillSpec

-----------------------------------------------------------------------------
\* The records whose decision was counted and not forgotten by the process.
Counted == answered \cup {rec[w] : w \in {x \in Worker : tally[x] = Stored}}

\* Whatever the threads overwrite, neither the count nor what a thread has read
\* of it is more than the decisions that were counted, and the decision of a
\* thread that has yet to store is none of these.
CountInv ==
    /\ tally \in [Worker -> Nat \cup {Unread, Stored}]
    /\ \A w \in Worker : tally[w] # Unread => at[w] = "gauge"
    /\ \A w \in Worker : at[w] # "idle" => rec[w] \notin answered
    /\ driver \in Drivers
    /\ phase \in {"steady", "sink down", "restored", "drained"}
    /\ IsFiniteSet(Counted)
    /\ counts \in Nat /\ counts <= Cardinality(Counted)
    /\ \A w \in Worker : tally[w] \in Nat => tally[w] <= Cardinality(Counted)

\* Until the process stops, the drill drains only what is in the buffer for
\* good: its threads have been joined, and who has one to come has none.
PhaseInv ==
    driver = "drill" /\ stops = 0 =>
       /\ phase \in {"steady", "sink down"} => sent = {} /\ ~draining
       /\ phase \in {"restored", "drained"} => Joined
       /\ answered \cup {rec[w] : w \in {x \in Worker : at[x] = "gauge"}}
             = buffer \cup sent
       /\ lost = {}
       /\ draining => buffer \subseteq sent
       /\ phase = "drained" => buffer = {}

\* Two threads store the same count: it stays, or it is one more than a count
\* that was read, and then there is one more decision.
LEMMA CountMoves ==
    ASSUME NEW S, NEW T, NEW k \in Nat, NEW c, IsFiniteSet(S), k <= Cardinality(S),
           \/ T = S /\ c = k
           \/ \E r : r \notin S /\ T = S \cup {r} /\ c \in {k, k + 1}
    PROVE  IsFiniteSet(T) /\ c \in Nat /\ c <= Cardinality(T)
<1>1. CASE T = S /\ c = k  BY <1>1
<1>2. ASSUME NEW r, r \notin S, T = S \cup {r}, c \in {k, k + 1}
      PROVE  IsFiniteSet(T) /\ c \in Nat /\ c <= Cardinality(T)
  <2>1. IsFiniteSet(T) /\ Cardinality(T) = Cardinality(S) + 1
    BY <1>2, FS_AddElement, Zenon
  <2>2. Cardinality(S) \in Nat  BY FS_CardinalityType
  <2> QED  BY <1>2, <2>1, <2>2
<1> QED  BY <1>1, <1>2

LEMMA CountStep ==
    ASSUME AuditInv, CountInv, [DrillNext]_allVars
    PROVE  CountInv'
<1> USE DEF fileVars, walVars, logVars, workVars, worldVars, drillVars
<1>0. /\ at \in [Worker -> {"idle", "append", "written", "synced", "buffer", "gauge"}]
      /\ rec \in [Worker -> Record \cup {NoRecord}]
      /\ \A w, x \in Worker :
            w # x /\ at[w] # "idle" /\ at[x] # "idle" => rec[w] # rec[x]
      /\ answered \subseteq file \cup wiped
      /\ Unread \notin Nat /\ Stored \notin Nat /\ Unread # Stored
  BY DEF AuditInv, TypeOK, LoggedInv, BufferedIsLogged, Unread, Stored
<1> HIDE DEF Unread, Stored
<1>1. ASSUME NEW w \in Worker, Begin(w), UNCHANGED drillVars  PROVE CountInv'
  <2>1. /\ at[w] = "idle" /\ at' = [at EXCEPT ![w] = "append"] /\ UNCHANGED answered
        /\ rec'[w] \notin file \cup wiped
        /\ \A x \in Worker \ {w} : rec'[x] = rec[x]
    BY <1>0, <1>1 DEF Begin, GoTo, Fresh
  <2>2. Counted' = Counted
    <3>1. tally[w] # Stored  BY <1>0, <2>1 DEF CountInv
    <3> QED  BY <1>1, <2>1, <3>1 DEF Counted
  <2> QED  BY <1>0, <1>1, <2>1, <2>2 DEF CountInv
<1>2. ASSUME NEW w \in Worker, Log(w)  PROVE CountInv'
  <2>1. /\ at[w] \notin {"idle", "gauge"} /\ UNCHANGED <<answered, rec, drillVars>>
        /\ \E to : to # "idle" /\ at' = [at EXCEPT ![w] = to]
    BY <1>2 DEF Log, WriteLine, Sync, SkipSync, EndSync, Buffer, GoTo
  <2>2. Counted' = Counted  BY <2>1 DEF Counted
  <2> QED  BY <1>0, <2>1, <2>2 DEF CountInv
<1>3. ASSUME NEW w \in Worker, ReadCount(w)  PROVE CountInv'
  <2>1. /\ at[w] = "gauge" /\ tally[w] = Unread /\ tally' = [tally EXCEPT ![w] = counts]
        /\ UNCHANGED <<vars, driver, phase, counts>>
    BY <1>3 DEF ReadCount
  <2>2. Counted' = Counted
    BY <1>0, <2>1 DEF CountInv, Counted, vars
  <2> QED  BY <1>0, <2>1, <2>2 DEF CountInv, vars
<1>4. ASSUME NEW w \in Worker, StoreCount(w)  PROVE CountInv'
  <2>1. /\ tally[w] \in Nat /\ counts' = tally[w] + 1
        /\ tally' = [tally EXCEPT ![w] = Stored]
        /\ UNCHANGED <<at, rec, answered, driver, phase>>
    BY <1>4 DEF StoreCount, vars
  <2>2. at[w] = "gauge" /\ rec[w] \notin Counted
    BY <1>0, <2>1 DEF CountInv, Counted
  <2>3. Counted' = Counted \cup {rec[w]}
    BY <1>0, <2>1 DEF CountInv, Counted
  <2>4. ASSUME NEW k \in Nat, k <= Cardinality(Counted), NEW c \in {k, k + 1}
        PROVE  IsFiniteSet(Counted') /\ c \in Nat /\ c <= Cardinality(Counted')
    <3> DEFINE S == Counted  T == Counted'  r == rec[w]
    <3>1. IsFiniteSet(S) /\ r \notin S /\ T = S \cup {r} /\ k <= Cardinality(S)
      BY <2>2, <2>3, <2>4 DEF CountInv
    <3> HIDE DEF S, T, r
    <3>2. \E q : q \notin S /\ T = S \cup {q} /\ c \in {k, k + 1}  BY <2>4, <3>1
    <3>3. IsFiniteSet(T) /\ c \in Nat /\ c <= Cardinality(T)
      BY <2>4, <3>1, <3>2, CountMoves
    <3> QED  BY <3>3 DEF T
  <2>5. tally[w] <= Cardinality(Counted)  BY <2>1 DEF CountInv
  <2>6. IsFiniteSet(Counted') /\ counts' \in Nat /\ counts' <= Cardinality(Counted')
    BY <2>1, <2>4, <2>5
  <2>7. \A x \in Worker : tally'[x] \in Nat => tally'[x] <= Cardinality(Counted')
    <3> SUFFICES ASSUME NEW x \in Worker, tally'[x] \in Nat
                 PROVE  tally'[x] <= Cardinality(Counted')
      OBVIOUS
    <3>1. tally'[x] = tally[x]  BY <1>0, <2>1 DEF CountInv
    <3>2. tally[x] \in Nat /\ tally[x] <= Cardinality(Counted)  BY <3>1 DEF CountInv
    <3> QED  BY <2>4, <3>1, <3>2
  <2>8. /\ tally' \in [Worker -> Nat \cup {Unread, Stored}]
        /\ \A x \in Worker : tally'[x] # Unread => at'[x] = "gauge"
    BY <2>1, <2>2 DEF CountInv
  <2> QED  BY <2>1, <2>6, <2>7, <2>8 DEF CountInv
<1>5. ASSUME NEW w \in Worker, Return(w)  PROVE CountInv'
  <2>1. /\ at[w] = "gauge" /\ at' = [at EXCEPT ![w] = "idle"]
        /\ tally[w] = Stored /\ tally' = [tally EXCEPT ![w] = Unread]
        /\ answered' = answered \cup {rec[w]}
        /\ rec' = [rec EXCEPT ![w] = NoRecord]
        /\ UNCHANGED <<driver, phase, counts>>
    BY <1>5 DEF Return, Answer, GoTo
  <2>2. Counted' = Counted
    BY <1>0, <2>1 DEF CountInv, Counted
  <2>3. \A x \in Worker : at'[x] # "idle" => rec'[x] \notin answered'
    BY <1>0, <2>1 DEF CountInv
  <2>4. /\ tally' \in [Worker -> Nat \cup {Unread, Stored}]
        /\ \A x \in Worker : tally'[x] # Unread => tally'[x] = tally[x] /\ at'[x] = "gauge"
    BY <1>0, <2>1 DEF CountInv
  <2> QED  BY <1>0, <2>1, <2>2, <2>3, <2>4 DEF CountInv
<1>6. CASE Crash
  <2>1. /\ counts' = 0 /\ tally' = [w \in Worker |-> Unread]
        /\ \A w \in Worker : at'[w] = "idle"
        /\ UNCHANGED <<answered, driver, phase>>
    BY <1>6 DEF Crash, Close, ProcessCrash, MachineCrash, Forget
  <2>2. Counted' = answered /\ answered \subseteq Counted
    BY <1>0, <2>1 DEF Counted
  <2>3. IsFiniteSet(Counted') /\ Cardinality(Counted') \in Nat
    BY <2>2, FS_Subset, FS_CardinalityType DEF CountInv
  <2>4. \A w \in Worker : tally'[w] = Unread  BY <2>1
  <2>5. tally' \in [Worker -> Nat \cup {Unread, Stored}]  BY <2>1
  <2>6. /\ counts' \in Nat /\ counts' <= Cardinality(Counted')
        /\ \A w \in Worker : tally'[w] \notin Nat
    BY <1>0, <2>1, <2>3, <2>4
  <2> QED  BY <2>1, <2>3, <2>4, <2>5, <2>6 DEF CountInv
<1>7. CASE /\ UNCHANGED <<at, rec, answered, counts, tally, driver>>
           /\ phase' \in {phase, "sink down", "restored", "drained"}
  <2>1. Counted' = Counted  BY <1>7 DEF Counted
  <2> QED  BY <1>7, <2>1 DEF CountInv
<1>8. Extend \/ Clear \/ (SinkFlips /\ UNCHANGED <<driver, counts, tally>>) =>
         UNCHANGED <<at, rec, answered, counts, tally, driver>>
  BY DEF Extend, Clear, DrainExtend, DrainClear, SinkFlips
<1>9. ServiceSink \/ DrillSink =>
         /\ UNCHANGED <<at, rec, answered, counts, tally, driver>>
         /\ phase' \in {phase, "sink down", "restored", "drained"}
  BY <1>8 DEF ServiceSink, DrillSink, SinkDown, SinkBack
<1>10. Recovery \/ UNCHANGED allVars =>
         UNCHANGED <<at, rec, answered, counts, tally, driver, phase>>
  BY DEF Recovery, Restart, TimePasses, allVars, vars
<1> QED
  BY <1>1, <1>2, <1>3, <1>4, <1>5, <1>6, <1>7, <1>9, <1>10 DEF DrillNext, Decide

LEMMA PhaseStep ==
    ASSUME AuditInv, CountInv, PhaseInv, [DrillNext]_allVars
    PROVE  PhaseInv'
<1> USE DEF fileVars, walVars, logVars, workVars, worldVars, drillVars
<1> SUFFICES ASSUME driver' = "drill", stops' = 0
             PROVE  /\ phase' \in {"steady", "sink down"} => sent' = {} /\ ~draining'
                    /\ phase' \in {"restored", "drained"} => Joined'
                    /\ answered' \cup {rec'[w] : w \in {x \in Worker : at'[x] = "gauge"}}
                          = buffer' \cup sent'
                    /\ lost' = {}
                    /\ draining' => buffer' \subseteq sent'
                    /\ phase' = "drained" => buffer' = {}
  BY DEF PhaseInv
<1> DEFINE Goal ==
      /\ phase' \in {"steady", "sink down"} => sent' = {} /\ ~draining'
      /\ phase' \in {"restored", "drained"} => Joined'
      /\ answered' \cup {rec'[w] : w \in {x \in Worker : at'[x] = "gauge"}}
            = buffer' \cup sent'
      /\ lost' = {}
      /\ draining' => buffer' \subseteq sent'
      /\ phase' = "drained" => buffer' = {}
<1>0. /\ at \in [Worker -> {"idle", "append", "written", "synced", "buffer", "gauge"}]
      /\ rec \in [Worker -> Record \cup {NoRecord}]
      /\ stops \in 0 .. MaxStops
      /\ phase \in {"steady", "sink down", "restored", "drained"}
  BY DEF AuditInv, TypeOK, CountInv
<1>1. ~Crash
  <2>1. stops + 1 # 0
    <3>1. MaxStops \in Nat /\ stops \in 0 .. MaxStops
      BY AuditAssumption DEF AuditInv, TypeOK
    <3> QED  BY <3>1
  <2>2. Crash => stops' = stops + 1
    BY DEF Crash, Close, ProcessCrash, MachineCrash, Forget
  <2> QED  BY <2>1, <2>2
<1>2. /\ driver = "drill" /\ stops = 0
      /\ phase \in {"steady", "sink down"} => sent = {} /\ ~draining
      /\ phase \in {"restored", "drained"} => Joined
      /\ answered \cup {rec[w] : w \in {x \in Worker : at[x] = "gauge"}} = buffer \cup sent
      /\ lost = {}
      /\ draining => buffer \subseteq sent
      /\ phase = "drained" => buffer = {}
  <2>1. driver' = driver /\ stops' = stops
    BY <1>1 DEF DrillNext, Decide, Begin, Log, WriteLine, Sync, SkipSync, EndSync, Buffer,
       ReadCount, StoreCount, Return, Answer, ServiceSink, DrillSink, SinkDown, SinkBack,
       Extend, Clear, DrainExtend, DrainClear, SinkFlips, Recovery, Restart, TimePasses,
       allVars, vars
  <2> QED  BY <2>1 DEF PhaseInv
<1>3. ASSUME NEW w \in Worker, Decide(w)  PROVE Goal
  <2>1. /\ phase \in {"steady", "sink down"} /\ at[w] = "idle"
        /\ at' = [at EXCEPT ![w] = "append"]
        /\ \A x \in Worker \ {w} : rec'[x] = rec[x]
        /\ UNCHANGED <<answered, buffer, draining, drillVars>>
    BY <1>0, <1>2, <1>3 DEF Decide, Begin, GoTo
  <2>2. {rec'[v] : v \in {x \in Worker : at'[x] = "gauge"}}
           = {rec[v] : v \in {x \in Worker : at[x] = "gauge"}}
    BY <1>0, <2>1
  <2> QED  BY <1>2, <2>1, <2>2
<1>4. ASSUME NEW w \in Worker, Log(w)  PROVE Goal
  <2>1. phase \in {"steady", "sink down"}
    BY <1>0, <1>2, <1>4 DEF Log, WriteLine, Sync, SkipSync, EndSync, Buffer, GoTo, Joined
  <2>2. CASE Buffer(w)
    <3>1. /\ at' = [at EXCEPT ![w] = "gauge"] /\ buffer' = buffer \cup {rec[w]}
          /\ UNCHANGED <<rec, answered, draining, drillVars>>
      BY <1>4, <2>2 DEF Log, Buffer, GoTo
    <3>2. {rec'[v] : v \in {x \in Worker : at'[x] = "gauge"}}
             = {rec[v] : v \in {x \in Worker : at[x] = "gauge"}} \cup {rec[w]}
      BY <1>0, <3>1
    <3> QED  BY <1>2, <2>1, <3>1, <3>2
  <2>3. CASE WriteLine(w) \/ Sync(w) \/ SkipSync(w) \/ EndSync(w)
    <3>1. /\ at[w] # "gauge" /\ \E to : to # "gauge" /\ at' = [at EXCEPT ![w] = to]
          /\ UNCHANGED <<rec, answered, buffer, draining, drillVars>>
      BY <1>4, <2>3 DEF Log, WriteLine, Sync, SkipSync, EndSync, GoTo
    <3>2. \A x \in Worker : at'[x] = "gauge" <=> at[x] = "gauge"
      BY <1>0, <3>1
    <3>3. {rec'[v] : v \in {x \in Worker : at'[x] = "gauge"}}
             = {rec[v] : v \in {x \in Worker : at[x] = "gauge"}}
      BY <3>1, <3>2
    <3> QED  BY <1>2, <2>1, <3>1, <3>3
  <2> QED  BY <1>4, <2>2, <2>3 DEF Log
<1>5. ASSUME NEW w \in Worker, ReadCount(w) \/ StoreCount(w)  PROVE Goal
  <2>1. UNCHANGED <<at, rec, answered, buffer, draining, phase, sent, lost>>
    BY <1>5 DEF ReadCount, StoreCount, vars
  <2> QED  BY <1>2, <2>1 DEF Joined
<1>6. ASSUME NEW w \in Worker, Return(w)  PROVE Goal
  <2>1. /\ at[w] = "gauge" /\ at' = [at EXCEPT ![w] = "idle"]
        /\ answered' = answered \cup {rec[w]}
        /\ rec' = [rec EXCEPT ![w] = NoRecord]
        /\ UNCHANGED <<driver, phase, sent, lost, buffer, draining>>
    BY <1>6 DEF Return, Answer, GoTo
  <2>2. phase \in {"steady", "sink down"}
    BY <1>0, <1>2, <2>1 DEF Joined
  <2>3. answered' \cup {rec'[v] : v \in {x \in Worker : at'[x] = "gauge"}}
           = answered \cup {rec[v] : v \in {x \in Worker : at[x] = "gauge"}}
    BY <1>0, <2>1
  <2> QED  BY <1>2, <2>1, <2>2, <2>3
<1>7. CASE ServiceSink \/ DrillSink
  <2>1. UNCHANGED <<at, rec, answered>>
    BY <1>7 DEF ServiceSink, DrillSink, SinkDown, SinkBack, Extend, Clear, DrainExtend,
                DrainClear, SinkFlips
  <2>2. CASE SinkDown /\ UNCHANGED <<sent, lost>>
    BY <1>2, <2>1, <2>2 DEF SinkDown, SinkFlips
  <2>3. CASE SinkBack /\ UNCHANGED <<sent, lost>>
    BY <1>2, <2>1, <2>3 DEF SinkBack, SinkFlips, Joined
  <2>4. CASE phase = "restored" /\ Extend /\ UNCHANGED phase
    BY <1>2, <2>1, <2>4 DEF Extend, DrainExtend, Joined
  <2>5. CASE phase = "restored" /\ Clear /\ phase' = "drained"
    BY <1>2, <2>1, <2>5 DEF Clear, DrainClear, Joined
  <2> QED  BY <1>2, <1>7, <2>2, <2>3, <2>4, <2>5 DEF ServiceSink, DrillSink
<1>8. CASE Recovery \/ UNCHANGED allVars
  <2>1. UNCHANGED <<at, rec, answered, buffer, draining, phase, sent, lost>>
    BY <1>8 DEF Recovery, Restart, TimePasses, allVars, vars
  <2> QED  BY <1>2, <2>1 DEF Joined
<1> QED  BY <1>1, <1>3, <1>4, <1>5, <1>6, <1>7, <1>8 DEF DrillNext

LEMMA DrillIsCounted == DrillSpec => [](AuditInv /\ CountInv /\ PhaseInv)
<1>1. DrillInit => CountInv /\ PhaseInv
  <2> SUFFICES ASSUME DrillInit PROVE CountInv /\ PhaseInv
    OBVIOUS
  <2>1. Counted = {}  BY DEF DrillInit, Init, Counted, Unread, Stored
  <2>2. CountInv
    BY <2>1, FS_EmptySet DEF DrillInit, Init, CountInv, Unread
  <2>3. PhaseInv  BY DEF DrillInit, Init, PhaseInv
  <2> QED  BY <2>2, <2>3
<1>2. AuditInv /\ CountInv /\ PhaseInv /\ [DrillNext]_allVars => CountInv' /\ PhaseInv'
  BY CountStep, PhaseStep
<1> QED  BY <1>1, <1>2, DrillIsAudited, AuditIsSound, PTL DEF DrillSpec

\* The drill's variables have their types, and the total it reads is never more
\* than the decisions there are; of infinitely many there is no number.
THEOREM DrillTypes == DrillSpec => [](IsFiniteSet(Record) => DrillTypeOK)
<1>1. DrillInit => LossInv  BY DEF DrillInit, Init, LossInv
<1>2. AuditInv /\ LossInv /\ [DrillNext]_allVars => LossInv'  BY LossStep
<1>3. AuditInv /\ CountInv /\ LossInv => (IsFiniteSet(Record) => DrillTypeOK)
  <2> SUFFICES ASSUME AuditInv, CountInv, LossInv, IsFiniteSet(Record)
               PROVE  DrillTypeOK
    OBVIOUS
  <2>1. /\ answered \cup file \cup wiped \subseteq Record
        /\ \A w \in Worker : at[w] # "idle" => rec[w] \in Record
    BY DEF AuditInv, TypeOK, LoggedInv
  <2>2. Counted \subseteq Record
    <3>1. \A w \in Worker : tally[w] = Stored => at[w] # "idle"
      <4>1. Stored # Unread  BY DEF Stored, Unread
      <4>2. \A w \in Worker : tally[w] # Unread => at[w] = "gauge"  BY DEF CountInv
      <4> QED  BY <4>1, <4>2
    <3> QED  BY <2>1, <3>1 DEF Counted
  <2>3. /\ Cardinality(Counted) <= Cardinality(Record)
        /\ Cardinality(Counted) \in Nat /\ Cardinality(Record) \in Nat
    BY <2>2, FS_Subset, FS_CardinalityType DEF CountInv
  <2>4. counts \in Nat /\ counts <= Cardinality(Counted)  BY DEF CountInv
  <2> HIDE DEF Counted
  <2>6. counts \in 0 .. Cardinality(Record)  BY <2>3, <2>4
  <2>5. sent \cup lost \subseteq Record  BY <2>1 DEF LossInv
  <2> QED  BY <2>5, <2>6 DEF AuditInv, CountInv, DrillTypeOK
<1> QED  BY <1>1, <1>2, <1>3, DrillIsAudited, DrillIsCounted, AuditIsSound, PTL DEF DrillSpec

\* The drill of run_load.py joins its threads before it drains: nothing is lost
\* to the drain, all it was given is at the sink, and the total is not too high.
THEOREM DrillIsComplete == DrillSpec => []DrillComplete
<1>1. AuditInv /\ CountInv /\ PhaseInv => DrillComplete
  <2> SUFFICES ASSUME AuditInv, CountInv, PhaseInv,
                      driver = "drill", phase = "drained", stops = 0
               PROVE  lost = {} /\ answered = sent /\ counts <= Cardinality(sent)
    BY DEF DrillComplete
  <2>1. /\ lost = {} /\ buffer = {} /\ \A w \in Worker : at[w] = "idle"
        /\ answered \cup {rec[w] : w \in {x \in Worker : at[x] = "gauge"}}
              = buffer \cup sent
    BY DEF PhaseInv, Joined
  <2>2. answered = sent  BY <2>1
  <2>3. Counted = answered
    BY <2>1 DEF CountInv, Counted, Unread, Stored
  <2> QED  BY <2>1, <2>2, <2>3 DEF CountInv
<1> QED  BY <1>1, DrillIsCounted, PTL
=============================================================================
