--------------------------- MODULE VelocityProofs ---------------------------
(***************************************************************************)
(* Proofs about the velocity counters, the gate in front of them and the   *)
(* hammer: the types, the hammer's with the bounds of its counts; that the *)
(* TTL of the sorted set takes an event early by no more than its sender's *)
(* lead; that a count is the count of the window, for both counters, and   *)
(* what the gate decides by it; that the decisions cover what a counter    *)
(* holds; and that only a race makes a racy counter lose.                  *)
(***************************************************************************)
EXTENDS HotKey, FiniteSetTheorems, SequenceTheorems, TLAPS

\* A payment is decided without a call of the counter.
Off ==
    /\ calls' = calls + 1
    /\ UNCHANGED <<backend, lead, clock, log, got, localVars, redisVars>>

\* A script carries a time its sender can have, the sorted set is finite, and the
\* TTL reaches past the window of each member but for the sender's lead.
KeyInv ==
    /\ TypeOK
    /\ IsFiniteSet(zset)
    /\ \A s \in wire : s.now <= clock + lead
    /\ KeyOutlivesWindow

\* Trimming leaves a finite part of the sorted set, and adding one member to
\* it a finite set.
LEMMA TrimmedFinite ==
    ASSUME NEW now, NEW m, IsFiniteSet(zset)
    PROVE  /\ Trimmed(now) \subseteq zset
           /\ IsFiniteSet(Trimmed(now))
           /\ Cardinality(Trimmed(now)) \in Nat
           /\ IsFiniteSet(Trimmed(now) \cup {m})
           /\ Cardinality(Trimmed(now) \cup {m}) \in Nat
<1>1. Trimmed(now) \subseteq zset  BY DEF Trimmed
<1>2. IsFiniteSet(Trimmed(now))  BY <1>1, FS_Subset
<1>3. IsFiniteSet(Trimmed(now) \cup {m})  BY <1>2, FS_AddElement
<1> QED  BY <1>1, <1>2, <1>3, FS_CardinalityType

\* The initial states: nothing is counted, nothing is on its way.
LEMMA InitKeyInv == Init => KeyInv
<1> SUFFICES ASSUME Init PROVE KeyInv  OBVIOUS
<1> USE VelocityAssumption
<1>1. TypeOK  BY DEF Init, TypeOK, NoCall
<1>2. IsFiniteSet(zset)  BY FS_EmptySet DEF Init
<1> QED  BY <1>1, <1>2 DEF Init, KeyInv, KeyOutlivesWindow

\* Every step of a SafeCounter, of Redis and of the clock keeps KeyInv.
LEMMA StepKeyInv == KeyInv /\ [Next \/ Off]_vars => KeyInv'
<1> SUFFICES ASSUME KeyInv, [Next \/ Off]_vars PROVE KeyInv'  OBVIOUS
<1> USE VelocityAssumption DEF KeyInv
<1> DEFINE Key == <<wire, zset, expires>>
<1>1. CASE Tick
  <2>1. TypeOK'  BY <1>1 DEF Tick, TypeOK, localVars, redisVars
  <2>2. clock \in Nat /\ lead \in Nat /\ clock' = clock + 1 /\ UNCHANGED <<lead, Key>>
    BY <1>1 DEF Tick, TypeOK, redisVars
  <2>3. \A n \in Nat : n <= clock + lead => n <= clock' + lead'
    BY <2>2
  <2>4. KeyOutlivesWindow'
    BY <2>2 DEF KeyOutlivesWindow
  <2> QED  BY <2>1, <2>2, <2>3, <2>4 DEF TypeOK
<1>2. ASSUME NEW t \in Thread, Local(t) PROVE KeyInv'
  <2>1. UNCHANGED <<clock, lead, Key>>
    BY <1>2 DEF Local, CallLocal, TakeLock, LookAtHead, PopHead, ReturnLocal,
                redisVars
  <2>2. TypeOK'
    <3>1. CASE CallLocal(t)
      BY <3>1 DEF CallLocal, RequestTimes, TypeOK, redisVars
    <3>2. CASE TakeLock(t)  BY <3>2 DEF TakeLock, TypeOK, redisVars
    <3>3. CASE LookAtHead(t)  BY <3>3 DEF LookAtHead, TypeOK, redisVars
    <3>4. CASE PopHead(t)
      <4>1. deque' \in Seq(Nat)  BY <3>4 DEF PopHead, TypeOK
      <4> QED  BY <4>1, <3>4 DEF PopHead, TypeOK, redisVars
    <3>5. CASE ReturnLocal(t)
      <4>1. deque' \in Seq(Nat) /\ log' \in Seq([now : Nat, at : Nat])
        <5> DEFINE event == [now |-> call[t].now, at |-> clock]
        <5>1. event \in [now : Nat, at : Nat]  BY DEF TypeOK
        <5>2. CASE call[t].adds
          <6>1. deque' = Append(deque, event.now) /\ log' = Append(log, event)
            BY <3>5, <5>2 DEF ReturnLocal
          <6>2. deque \in Seq(Nat) /\ log \in Seq([now : Nat, at : Nat])
            BY DEF TypeOK
          <6> HIDE DEF event
          <6> QED  BY <5>1, <6>1, <6>2
        <5>3. CASE ~call[t].adds
          BY <3>5, <5>3 DEF ReturnLocal, TypeOK
        <5> QED  BY <5>2, <5>3
      <4>2. got' \in [count : Nat, now : Nat, clock : Nat]
        <5>1. Len(deque') \in Nat  BY <4>1
        <5> QED  BY <5>1, <3>5 DEF ReturnLocal, Return, TypeOK
      <4> QED  BY <4>1, <4>2, <3>5 DEF ReturnLocal, NoCall, TypeOK, redisVars
    <3> QED  BY <1>2, <3>1, <3>2, <3>3, <3>4, <3>5 DEF Local
  <2> QED  BY <2>1, <2>2 DEF KeyOutlivesWindow
<1>3. ASSUME NEW i \in Instance, NEW now \in RequestTimes, SendScript(i, now) PROVE KeyInv'
  <2>1. TypeOK'  BY <1>3 DEF SendScript, Script, RequestTimes, TypeOK, localVars
  <2>2. \A s \in wire' : s.now <= clock' + lead'
    BY <1>3 DEF SendScript, Script, RequestTimes, TypeOK
  <2> QED  BY <2>1, <2>2, <1>3 DEF SendScript, KeyOutlivesWindow
<1>4. ASSUME NEW s \in wire, RunScript(s) PROVE KeyInv'
  <2>1. s.now \in Nat /\ s.n \in Nat /\ lead \in Nat /\ s.now <= clock + lead
    BY DEF TypeOK
  <2>2. zset' = Trimmed(s.now) \cup {<<s.now, s.n>>} /\ expires' = clock + Window
    BY <1>4 DEF RunScript
  <2>3. /\ Trimmed(s.now) \subseteq zset
        /\ IsFiniteSet(zset')
        /\ Cardinality(zset') \in Nat
    BY <2>2, TrimmedFinite
  <2>4. TypeOK'
    <3>1. log' \in Seq([now : Nat, at : Nat])  BY <1>4, <2>1 DEF RunScript, TypeOK
    <3>2. got' \in [count : Nat, now : Nat, clock : Nat]
      BY <1>4, <2>1, <2>3 DEF RunScript, Return, TypeOK
    <3>3. zset' \subseteq Nat \X Nat  BY <2>1, <2>2, <2>3 DEF TypeOK
    <3>4. expires' \in 0 .. clock' + Window  BY <1>4 DEF RunScript, TypeOK
    <3> QED  BY <1>4, <3>1, <3>2, <3>3, <3>4 DEF RunScript, TypeOK, localVars
  <2>5. KeyOutlivesWindow'
    <3> SUFFICES ASSUME NEW m \in zset' PROVE m[1] + Window <= expires' + lead
      BY <1>4 DEF KeyOutlivesWindow, RunScript
    <3>1. CASE m = <<s.now, s.n>>  BY <3>1, <2>1, <2>2 DEF TypeOK
    <3>2. CASE m \in Trimmed(s.now)
      <4>1. m \in Nat \X Nat /\ m[1] + Window <= expires + lead
        BY <3>2, <2>3 DEF TypeOK, KeyOutlivesWindow
      <4>2. expires <= clock + Window /\ expires \in Nat /\ clock \in Nat  BY DEF TypeOK
      <4> QED  BY <4>1, <4>2, <2>1, <2>2
    <3> QED  BY <3>1, <3>2, <2>2
  <2> QED  BY <2>3, <2>4, <2>5, <1>4 DEF RunScript
<1>5. ASSUME NEW s \in wire, LoseScript(s) PROVE KeyInv'
  <2>1. TypeOK'  BY <1>5 DEF LoseScript, TypeOK, localVars
  <2> QED  BY <2>1, <1>5 DEF LoseScript, KeyOutlivesWindow
<1>6. CASE RunCountOnly
  <2>1. PICK now \in RequestTimes :
            zset' = Trimmed(now) /\ Return(Cardinality(zset'), now)
    BY <1>6 DEF RunCountOnly
  <2>2. zset' \subseteq zset /\ IsFiniteSet(zset') /\ Cardinality(zset') \in Nat
    BY <2>1, TrimmedFinite
  <2>3. TypeOK'
    <3>1. got' \in [count : Nat, now : Nat, clock : Nat]
      BY <2>1, <2>2 DEF Return, RequestTimes, TypeOK
    <3> QED  BY <3>1, <2>2, <1>6 DEF RunCountOnly, TypeOK, localVars
  <2> QED  BY <2>2, <2>3, <1>6 DEF RunCountOnly, KeyOutlivesWindow
<1>7. CASE UNCHANGED vars
  BY <1>7 DEF vars, localVars, redisVars, TypeOK, KeyOutlivesWindow
<1>8. CASE Off
  BY <1>8 DEF Off, localVars, redisVars, TypeOK, KeyOutlivesWindow
<1> QED  BY <1>1, <1>2, <1>3, <1>4, <1>5, <1>6, <1>7, <1>8 DEF Next, Redis

\* KeyInv holds in every reachable state.
LEMMA KeyInvariant == Spec => []KeyInv
<1> QED  BY InitKeyInv, StepKeyInv, PTL DEF Spec

\* The variables of both counters keep their types, whatever the window, the
\* delays, the threads and the instances.
THEOREM VelocityTypes == Spec => []TypeOK
<1>1. KeyInv => TypeOK  BY DEF KeyInv
<1> QED  BY <1>1, KeyInvariant, PTL

\* The TTL that SLIDING_WINDOW_LUA sets takes a member away before its window is
\* over only if the clock of its sender was ahead, and by no more than that,
\* whatever the delays and the order the scripts run in.
THEOREM TtlIsShortByTheLead == Spec => []KeyOutlivesWindow
<1>1. KeyInv => KeyOutlivesWindow  BY DEF KeyInv
<1> QED  BY <1>1, KeyInvariant, PTL

-----------------------------------------------------------------------------
\* Times and their order: a request is made before it is recorded, by the clock
\* furthest ahead, and what is recorded later is later in the log.
PastInv ==
    /\ lead \in Nat
    /\ \A i \in DOMAIN log : log[i].now <= log[i].at + lead /\ log[i].at <= clock
    /\ \A i, j \in DOMAIN log : i < j => log[i].at <= log[j].at
    /\ \A t \in Thread : call[t].now <= clock + lead

\* The events that have left the deque.
Gone == Len(log) - Len(deque)

\* The deque is the end of the log, and what has left it is over.  A thread past
\* the lock holds it, and knows what it saw at the head.
DequeInv ==
    backend = "local" =>
       /\ wire = {}
       /\ Len(deque) <= Len(log)
       /\ \A j \in DOMAIN deque : deque[j] = log[Gone + j].now
       /\ \A i \in 1 .. Gone : log[i].now + Window <= clock + lead
       /\ \A t \in Thread :
             /\ at[t] \in {"trim", "pop", "add"} => lock = t
             /\ at[t] = "pop" => deque # <<>> /\ ~InWindow(deque[1], call[t].now)
             /\ at[t] = "add" => deque = <<>> \/ InWindow(deque[1], call[t].now)

\* f finds for each member an event of its own that was made when it says.
Finds(f) ==
    /\ f \in [zset -> DOMAIN log]
    /\ \A m, o \in zset : f[m] = f[o] => m = o
    /\ \A m \in zset : log[f[m]].now = m[1]

\* Whoever makes the members, the sorted set has no more of them than there are
\* events.
MemberInv ==
    backend = "redis" =>
       /\ \A t \in Thread : at[t] = "idle"
       /\ \E f : Finds(f)

\* f numbers the events as their scripts were numbered, and each event that is
\* not over is a member.
Numbers(f) ==
    /\ f \in [DOMAIN log -> Nat]
    /\ \A i, j \in DOMAIN log : f[i] = f[j] => i = j
    /\ \A i \in DOMAIN log :
          /\ \A k \in Instance : f[i] < seq[k]
          /\ \A s \in wire : s.n # f[i]
          /\ log[i].now + Window > clock + lead => <<log[i].now, f[i]>> \in zset

\* With a single instance no two scripts have the same number.
SetInv ==
    backend = "redis" =>
       /\ \A s \in wire : \A k \in Instance : s.n < seq[k]
       /\ \A s, u \in wire : s.n = u.n => s = u
       /\ \E f : Numbers(f)

\* At most one instance counts on the Redis.
Single == \A i, j \in Instance : i = j

\* Where no two instances make members side by side, a count is exact.
Exact == Single \/ backend = "local"

\* What a count holds was made in the window of its request, on a Redis, and in
\* process when the requests were recorded in the order of their times.
InOrder(n) == \A i, j \in 1 .. n : i < j => log[i].now <= log[j].now

MadeInWindow ==
    backend = "redis" \/ InOrder(Len(log)) =>
        got.count <= Cardinality({i \in 1 .. Len(log) : log[i].now > got.now - Window})

\* The counters are what the log says, and so was the last count.
CountInv ==
    /\ KeyInv /\ PastInv /\ DequeInv /\ MemberInv /\ NothingOldCounted /\ MadeInWindow
    /\ Exact => SetInv /\ RecentCounted

-----------------------------------------------------------------------------
\* An event of a log of the right type has its two times.
LEMMA EventsTyped ==
    ASSUME NEW L \in Seq([now : Nat, at : Nat]), NEW D \in Seq(Nat)
    PROVE  /\ Len(L) \in Nat /\ DOMAIN L = 1 .. Len(L)
           /\ Len(D) \in Nat /\ DOMAIN D = 1 .. Len(D)
           /\ \A i \in DOMAIN L : L[i].now \in Nat /\ L[i].at \in Nat
<1>1. \A i \in 1 .. Len(L) : L[i] \in [now : Nat, at : Nat]
  BY ElementOfSeq
<1>2. DOMAIN L = 1 .. Len(L)  OBVIOUS
<1>3. \A i \in DOMAIN L : L[i].now \in Nat /\ L[i].at \in Nat
  BY <1>1, <1>2
<1> QED  BY <1>2, <1>3

\* What the types say of the events, the deque and the calls.
LEMMA EventTypes ==
    ASSUME TypeOK
    PROVE  /\ clock \in Nat /\ Window \in Nat
           /\ Len(log) \in Nat /\ DOMAIN log = 1 .. Len(log)
           /\ Len(deque) \in Nat /\ DOMAIN deque = 1 .. Len(deque)
           /\ \A i \in DOMAIN log : log[i].now \in Nat /\ log[i].at \in Nat
           /\ \A t \in Thread : call[t].now \in Nat
<1>1. log \in Seq([now : Nat, at : Nat]) /\ deque \in Seq(Nat)
  BY DEF TypeOK
<1>2. \A t \in Thread : call[t].now \in Nat  BY DEF TypeOK
<1> QED  BY <1>1, <1>2, EventsTyped, VelocityAssumption DEF TypeOK

\* Times and their order.
LEMMA PastStep ==
    ASSUME KeyInv, PastInv, [Next \/ Off]_vars
    PROVE  PastInv'
<1> USE VelocityAssumption DEF PastInv
<1>1. /\ clock \in Nat /\ clock' \in Nat /\ clock <= clock'
      /\ lead \in Nat /\ lead' = lead
      /\ log \in Seq([now : Nat, at : Nat])
      /\ call \in [Thread -> [now : Nat, adds : BOOLEAN]]
  <2>1. clock' \in {clock, clock + 1} /\ lead' = lead
    BY DEF Next, Off, vars, Tick, Local, CallLocal, TakeLock, LookAtHead, PopHead,
           ReturnLocal, Redis, SendScript, RunScript, LoseScript, RunCountOnly
  <2> QED  BY <2>1 DEF KeyInv, TypeOK
<1>2. ASSUME NEW e \in [now : Nat, at : Nat], log' = Append(log, e),
             e.now <= clock + lead, e.at = clock, clock' = clock,
             \A t \in Thread : call'[t].now \in {0, call[t].now}
      PROVE  PastInv'
  <2>1. /\ DOMAIN log = 1 .. Len(log) /\ DOMAIN log' = 1 .. Len(log) + 1
        /\ \A i \in DOMAIN log : log'[i] = log[i]
        /\ log'[Len(log) + 1] = e
        /\ Len(log) \in Nat
    BY <1>1, <1>2
  <2>2. \A i \in DOMAIN log : log[i].at \in Nat /\ log[i].now \in Nat
    BY EventTypes DEF KeyInv
  <2>3. \A t \in Thread : call[t].now \in Nat  BY EventTypes DEF KeyInv
  <2>4. \A t \in Thread : call'[t].now <= clock' + lead'
    BY <1>1, <1>2, <2>3
  <2>5. \A i \in DOMAIN log' : log'[i].now <= log'[i].at + lead' /\ log'[i].at <= clock'
    <3> SUFFICES ASSUME NEW i \in 1 .. Len(log) + 1
                 PROVE  log'[i].now <= log'[i].at + lead /\ log'[i].at <= clock
      BY <1>1, <1>2, <2>1
    <3>1. CASE i \in DOMAIN log  BY <2>1, <3>1
    <3>2. CASE i = Len(log) + 1  BY <1>2, <2>1, <3>2
    <3> QED  BY <2>1, <3>1, <3>2
  <2>6. \A i, j \in DOMAIN log' : i < j => log'[i].at <= log'[j].at
    BY <1>1, <1>2, <2>1, <2>2
  <2> QED  BY <1>1, <2>4, <2>5, <2>6
<1>3. ASSUME UNCHANGED log,
             \A t \in Thread : \/ call'[t].now = call[t].now
                               \/ call'[t].now \in Nat /\ call'[t].now <= clock + lead
      PROVE  PastInv'
  <2>1. \A i \in DOMAIN log : log[i].at \in Nat /\ log[i].now \in Nat
    BY EventTypes DEF KeyInv
  <2>2. \A t \in Thread : call[t].now \in Nat /\ call[t].now <= clock + lead
    BY EventTypes DEF KeyInv
  <2>3. \A i \in DOMAIN log : log[i].at <= clock'
    BY <1>1, <2>1
  <2>4. \A t \in Thread : call'[t].now <= clock' + lead
    BY <1>1, <1>3, <2>2
  <2> QED  BY <1>1, <1>3, <2>3, <2>4
<1>4. ASSUME NEW t \in Thread, Local(t)  PROVE PastInv'
  <2>1. CASE CallLocal(t)
    <3>1. \A u \in Thread : \/ call'[u].now = call[u].now
                            \/ call'[u].now \in Nat /\ call'[u].now <= clock + lead
      BY <1>1, <2>1 DEF CallLocal, RequestTimes
    <3> QED  BY <1>3, <2>1, <3>1 DEF CallLocal
  <2>2. CASE TakeLock(t) \/ LookAtHead(t) \/ PopHead(t)
    BY <1>3, <2>2 DEF TakeLock, LookAtHead, PopHead
  <2>0. ReturnLocal(t) => \A u \in Thread : call'[u].now \in {0, call[u].now}
    BY <1>1 DEF ReturnLocal, NoCall
  <2>3. CASE ReturnLocal(t) /\ ~call[t].adds
    <3>1. \A u \in Thread : \/ call'[u].now = call[u].now
                            \/ call'[u].now \in Nat /\ call'[u].now <= clock + lead
      BY <1>1, <2>0, <2>3
    <3> QED  BY <1>3, <2>3, <3>1 DEF ReturnLocal
  <2>4. CASE ReturnLocal(t) /\ call[t].adds
    <3> DEFINE e == [now |-> call[t].now, at |-> clock]
    <3>1. /\ e \in [now : Nat, at : Nat] /\ e.now <= clock + lead /\ e.at = clock
          /\ log' = Append(log, e) /\ clock' = clock
      BY <1>1, <2>4 DEF ReturnLocal
    <3> HIDE DEF e
    <3> QED  BY <1>2, <2>0, <2>4, <3>1
  <2> QED  BY <1>4, <2>1, <2>2, <2>3, <2>4 DEF Local
<1>5. ASSUME NEW s \in wire, RunScript(s)  PROVE PastInv'
  <2> DEFINE e == [now |-> s.now, at |-> clock]
  <2>1. /\ e \in [now : Nat, at : Nat] /\ e.now <= clock + lead /\ e.at = clock
        /\ log' = Append(log, e) /\ clock' = clock /\ call' = call
    BY <1>1, <1>5 DEF RunScript, KeyInv, TypeOK, localVars
  <2> HIDE DEF e
  <2> QED  BY <1>2, <2>1
<1>6. CASE \/ Tick \/ Off \/ RunCountOnly \/ UNCHANGED vars
           \/ \E i \in Instance, now \in RequestTimes : SendScript(i, now)
           \/ \E s \in wire : LoseScript(s)
  <2>1. UNCHANGED log /\ call' = call
    BY <1>6 DEF Tick, Off, RunCountOnly, SendScript, LoseScript, vars, localVars
  <2> QED  BY <1>3, <2>1
<1> QED  BY <1>4, <1>5, <1>6 DEF Next, Redis

-----------------------------------------------------------------------------
\* The deque stays the end of the log.
LEMMA DequeStep ==
    ASSUME KeyInv, PastInv, DequeInv, [Next \/ Off]_vars
    PROVE  DequeInv'
<1> SUFFICES ASSUME backend' = "local"  PROVE DequeInv'
  BY DEF DequeInv
<1>0. backend = "local"
  BY DEF Next, Off, vars, Tick, Local, CallLocal, TakeLock, LookAtHead, PopHead,
         ReturnLocal, Redis, SendScript, RunScript, LoseScript, RunCountOnly
<1>1. /\ clock \in Nat /\ Window \in Nat
      /\ log \in Seq([now : Nat, at : Nat]) /\ deque \in Seq(Nat)
      /\ call \in [Thread -> [now : Nat, adds : BOOLEAN]]
      /\ at \in [Thread -> {"idle", "lock", "trim", "pop", "add"}]
      /\ Len(log) \in Nat /\ Len(deque) \in Nat
      /\ DOMAIN log = 1 .. Len(log) /\ DOMAIN deque = 1 .. Len(deque)
      /\ \A i \in DOMAIN log : log[i].now \in Nat
      /\ lead \in Nat /\ \A t \in Thread : call[t].now \in Nat /\ call[t].now <= clock + lead
      /\ Nobody \notin Thread
  BY EventTypes, VelocityAssumption DEF KeyInv, TypeOK, PastInv
<1>2. /\ wire = {} /\ Len(deque) <= Len(log)
      /\ \A j \in DOMAIN deque : deque[j] = log[Gone + j].now
      /\ \A i \in 1 .. Gone : log[i].now + Window <= clock + lead
      /\ \A t \in Thread :
            /\ at[t] \in {"trim", "pop", "add"} => lock = t
            /\ at[t] = "pop" => deque # <<>> /\ ~InWindow(deque[1], call[t].now)
            /\ at[t] = "add" => deque = <<>> \/ InWindow(deque[1], call[t].now)
  BY <1>0 DEF DequeInv
<1>3. /\ Gone \in Nat /\ Gone + Len(deque) = Len(log)
      /\ \A i \in 1 .. Gone : i \in DOMAIN log /\ log[i].now \in Nat
      /\ \A j \in DOMAIN deque : Gone + j \in DOMAIN log
  <2>1. /\ Len(log) \in Nat /\ Len(deque) \in Nat /\ Len(deque) <= Len(log)
        /\ DOMAIN log = 1 .. Len(log) /\ DOMAIN deque = 1 .. Len(deque)
    BY <1>1, <1>2
  <2>2. Gone \in Nat /\ Gone + Len(deque) = Len(log)  BY <2>1 DEF Gone
  <2>3. \A i \in 1 .. Gone : i \in 1 .. Len(log)  BY <2>1, <2>2
  <2>4. \A j \in 1 .. Len(deque) : Gone + j \in 1 .. Len(log)  BY <2>1, <2>2
  <2>5. \A i \in DOMAIN log : log[i].now \in Nat  BY <1>1
  <2> QED  BY <2>1, <2>2, <2>3, <2>4, <2>5
<1> USE <1>0, <1>1, <1>2 DEF DequeInv
<1>4. ASSUME UNCHANGED <<backend, lead, log, deque, lock, wire, at, call>>,
             clock' \in {clock, clock + 1}
      PROVE  DequeInv'
  <2>1. \A i \in 1 .. Gone : log[i].now + Window <= clock + lead
    OBVIOUS
  <2>2. \A i \in 1 .. Gone : log[i].now + Window <= clock' + lead
    <3> SUFFICES ASSUME NEW i \in 1 .. Gone PROVE log[i].now + Window <= clock' + lead
      OBVIOUS
    <3>1. log[i].now \in Nat /\ log[i].now + Window <= clock + lead  BY <1>3, <2>1
    <3>2. clock \in Nat /\ lead \in Nat /\ Window \in Nat /\ (clock' = clock \/ clock' = clock + 1)
      BY <1>1, <1>4
    <3> HIDE DEF DequeInv
    <3> QED  BY <3>1, <3>2
  <2> QED  BY <1>4, <2>2 DEF Gone, InWindow
<1>5. ASSUME NEW t \in Thread, Local(t)  PROVE DequeInv'
  <2>1. CASE CallLocal(t)
    BY <2>1 DEF CallLocal, Gone, InWindow, redisVars
  <2>2. CASE TakeLock(t)
    BY <2>2 DEF TakeLock, Gone, InWindow, redisVars
  <2>3. CASE LookAtHead(t)
    <3>1. deque # <<>> => Head(deque) = deque[1]  OBVIOUS
    <3> QED  BY <2>3, <3>1 DEF LookAtHead, Gone, InWindow, redisVars
  <2>4. CASE PopHead(t)
    <3>1. /\ at[t] = "pop" /\ lock = t /\ deque # <<>>
          /\ ~InWindow(deque[1], call[t].now)
      BY <2>4 DEF PopHead
    <3>2. \A u \in Thread \ {t} : at[u] \notin {"trim", "pop", "add"}
      BY <3>1
    <3>3. /\ Len(deque) >= 1 /\ deque' = SubSeq(deque, 2, Len(deque))
          /\ Len(deque') = Len(deque) - 1 /\ DOMAIN deque' = 1 .. Len(deque) - 1
          /\ \A j \in 1 .. Len(deque) - 1 : deque'[j] = deque[j + 1]
      BY <2>4, <3>1 DEF PopHead
    <3>4. Gone' = Gone + 1
      <4>1. log' = log  BY <2>4 DEF PopHead
      <4>2. Gone' = Len(log') - Len(deque') /\ Gone = Len(log) - Len(deque)
        BY DEF Gone
      <4> QED  BY <3>3, <4>1, <4>2
    <3>5. \A j \in DOMAIN deque' : deque'[j] = log[Gone' + j].now
      <4> SUFFICES ASSUME NEW j \in 1 .. Len(deque) - 1
                   PROVE  deque'[j] = log[Gone' + j].now
        BY <3>3
      <4>1. j + 1 \in DOMAIN deque /\ Gone + (j + 1) = Gone' + j
        BY <1>3, <3>3, <3>4
      <4> QED  BY <3>3, <4>1
    <3>6. log[Gone + 1].now + Window <= clock + lead
      <4>1. deque[1] = log[Gone + 1].now /\ Gone + 1 \in DOMAIN log
        <5>1. 1 \in DOMAIN deque  BY <3>3
        <5> QED  BY <1>3, <5>1
      <4>2. ~ (deque[1] > call[t].now - Window)
        BY <3>1 DEF InWindow
      <4> QED  BY <4>1, <4>2
    <3>7. \A i \in 1 .. Gone' : log[i].now + Window <= clock + lead
      <4>1. \A i \in 1 .. Gone' : i \in 1 .. Gone \/ i = Gone + 1
        BY <1>3, <3>4
      <4> QED  BY <3>6, <4>1
    <3>8. /\ at' = [at EXCEPT ![t] = "trim"]
          /\ UNCHANGED <<clock, lead, backend, log, call, lock, wire>>
      BY <2>4 DEF PopHead, redisVars
    <3>9. \A u \in Thread : /\ at'[u] \in {"trim", "pop", "add"} => lock' = u
                            /\ at'[u] # "pop" /\ at'[u] # "add"
      <4> SUFFICES ASSUME NEW u \in Thread
                   PROVE  /\ at'[u] \in {"trim", "pop", "add"} => lock' = u
                          /\ at'[u] # "pop" /\ at'[u] # "add"
        OBVIOUS
      <4>1. CASE u = t  BY <3>1, <3>8, <4>1
      <4>2. CASE u # t  BY <3>2, <3>8, <4>2
      <4> QED  BY <4>1, <4>2
    <3>10. wire' = {} /\ Len(deque') <= Len(log')
      BY <1>3, <3>3, <3>8
    <3> QED  BY <3>5, <3>7, <3>8, <3>9, <3>10
  <2>5. CASE ReturnLocal(t)
    <3>1. at[t] = "add" /\ lock = t  BY <2>5 DEF ReturnLocal
    <3>2. \A u \in Thread \ {t} : at[u] \notin {"trim", "pop", "add"}
      BY <3>1
    <3>3. \A u \in Thread : at'[u] \notin {"trim", "pop", "add"}
      BY <2>5, <3>2 DEF ReturnLocal
    <3>4. CASE ~call[t].adds
      BY <2>5, <3>3, <3>4 DEF ReturnLocal, Gone, redisVars
    <3>5. CASE call[t].adds
      <4> DEFINE e == [now |-> call[t].now, at |-> clock]
      <4>1. /\ deque' = Append(deque, e.now) /\ log' = Append(log, e)
            /\ e \in [now : Nat, at : Nat] /\ e.now \in Nat
        BY <2>5, <3>5 DEF ReturnLocal
      <4> HIDE DEF e
      <4>2. /\ Len(deque') = Len(deque) + 1 /\ Len(log') = Len(log) + 1
            /\ DOMAIN deque' = 1 .. Len(deque) + 1
            /\ \A j \in DOMAIN deque : deque'[j] = deque[j]
            /\ \A i \in DOMAIN log : log'[i] = log[i]
            /\ deque'[Len(deque) + 1] = e.now /\ log'[Len(log) + 1] = e
        BY <4>1
      <4>3. Gone' = Gone /\ Gone \in Nat /\ Gone + Len(deque) = Len(log)
        BY <4>2 DEF Gone
      <4>4. \A j \in DOMAIN deque' : deque'[j] = log'[Gone' + j].now
        <5> SUFFICES ASSUME NEW j \in 1 .. Len(deque) + 1
                     PROVE  deque'[j] = log'[Gone + j].now
          BY <4>2, <4>3
        <5>1. CASE j \in DOMAIN deque
          <6>1. Gone + j \in DOMAIN log  BY <1>3, <5>1
          <6> QED  BY <4>2, <5>1, <6>1
        <5>2. CASE j = Len(deque) + 1
          <6>1. Gone + j = Len(log) + 1
            <7>1. Len(deque) \in Nat /\ Len(log) \in Nat  BY <1>1
            <7> HIDE <1>1, <1>2 DEF DequeInv
            <7> QED  BY <4>3, <5>2, <7>1
          <6> QED  BY <4>2, <5>2, <6>1
        <5> QED  BY <5>1, <5>2
      <4>5. \A i \in 1 .. Gone' : log'[i].now + Window <= clock + lead
        BY <1>3, <4>2, <4>3
      <4>6. UNCHANGED <<wire, clock, lead>>  BY <2>5 DEF ReturnLocal, redisVars
      <4> QED  BY <3>3, <4>2, <4>4, <4>5, <4>6
    <3> QED  BY <3>4, <3>5
  <2> QED  BY <1>5, <2>1, <2>2, <2>3, <2>4, <2>5 DEF Local
<1>6. CASE Tick \/ Off \/ UNCHANGED vars
  BY <1>4, <1>6 DEF Tick, Off, vars, localVars, redisVars
<1>7. ~Redis
  BY <1>0, <1>2 DEF Redis, SendScript, RunCountOnly
<1> QED  BY <1>5, <1>6, <1>7 DEF Next

-----------------------------------------------------------------------------
\* A script that runs adds an event for the member it adds; an event whose member
\* was there already adds none.
LEMMA MemberStep ==
    ASSUME KeyInv, MemberInv, [Next \/ Off]_vars
    PROVE  MemberInv'
<1> SUFFICES ASSUME backend' = "redis"  PROVE MemberInv'
  BY DEF MemberInv
<1>0. backend = "redis"
  BY DEF Next, Off, vars, Tick, Local, CallLocal, TakeLock, LookAtHead, PopHead,
         ReturnLocal, Redis, SendScript, RunScript, LoseScript, RunCountOnly
<1>1. /\ log \in Seq([now : Nat, at : Nat])
      /\ Len(log) \in Nat /\ DOMAIN log = 1 .. Len(log)
      /\ wire \subseteq [now : Nat, n : Nat, by : Instance]
      /\ clock \in Nat
  BY EventTypes DEF KeyInv, TypeOK
<1>2. \A t \in Thread : at[t] = "idle"
  BY <1>0 DEF MemberInv
<1>3. PICK f : Finds(f)
  BY <1>0 DEF MemberInv
<1>4. /\ \A m \in zset : f[m] \in DOMAIN log /\ log[f[m]].now = m[1]
      /\ \A m, o \in zset : f[m] = f[o] => m = o
  BY <1>3 DEF Finds
<1>5. ASSUME UNCHANGED at, zset' \subseteq zset, DOMAIN log \subseteq DOMAIN log',
             \A i \in DOMAIN log : log'[i] = log[i]
      PROVE  MemberInv'
  <2> DEFINE g == [m \in zset' |-> f[m]]
  <2>1. g \in [zset' -> DOMAIN log']  BY <1>4, <1>5
  <2>2. \A m \in zset' : m \in zset /\ g[m] = f[m]  BY <1>5
  <2> HIDE DEF g
  <2>3. \A m, o \in zset' : g[m] = g[o] => m = o  BY <1>4, <2>2
  <2>4. \A m \in zset' : log'[g[m]].now = m[1]  BY <1>4, <1>5, <2>2
  <2>5. PICK h : h = g  OBVIOUS
  <2>6. Finds(h)'  BY <2>1, <2>3, <2>4, <2>5 DEF Finds
  <2> QED  BY <1>2, <1>5, <2>6 DEF MemberInv
<1>6. ASSUME NEW s \in wire, RunScript(s)  PROVE MemberInv'
  <2> DEFINE e == [now |-> s.now, at |-> clock]
             n == Len(log) + 1
             o == <<s.now, s.n>>
             g == [m \in zset' |-> IF m = o THEN n ELSE f[m]]
  <2>1. /\ log' = Append(log, e) /\ e \in [now : Nat, at : Nat]
        /\ zset' = Trimmed(s.now) \cup {o} /\ UNCHANGED at
    BY <1>1, <1>6 DEF RunScript, localVars
  <2>2. /\ DOMAIN log' = 1 .. n /\ log'[n] = e
        /\ \A i \in DOMAIN log : log'[i] = log[i] /\ i \in 1 .. n /\ i # n
        /\ n \in 1 .. n
    <3> HIDE DEF e
    <3> QED  BY <1>1, <2>1
  <2>3. e.now = s.now /\ o[1] = s.now  OBVIOUS
  <2>4. \A m \in zset' : m = o \/ m \in zset  BY <2>1 DEF Trimmed
  <2> HIDE DEF e, n, o
  <2>5. CASE o \in zset
    <3>1. zset' \subseteq zset  BY <2>4, <2>5
    <3> QED  BY <1>5, <2>1, <2>2, <3>1
  <2>6. CASE o \notin zset
    <3>1. \A m \in zset' : /\ m = o => g[m] = n
                           /\ m # o => g[m] = f[m] /\ m \in zset
      BY <2>4
    <3>2. g \in [zset' -> DOMAIN log']
      BY <1>4, <2>2, <2>4
    <3> HIDE DEF g
    <3>3. \A m, q \in zset' : g[m] = g[q] => m = q
      BY <1>4, <2>2, <3>1
    <3>4. \A m \in zset' : log'[g[m]].now = m[1]
      BY <1>4, <2>2, <2>3, <3>1
    <3>5. PICK h : h = g  OBVIOUS
    <3>6. Finds(h)'  BY <3>2, <3>3, <3>4, <3>5 DEF Finds
    <3> QED  BY <1>2, <2>1, <3>6 DEF MemberInv
  <2> QED  BY <2>5, <2>6
<1>7. ASSUME NEW t \in Thread, Local(t)  PROVE FALSE
  BY <1>0, <1>2, <1>7 DEF Local, CallLocal, TakeLock, LookAtHead, PopHead, ReturnLocal
<1>8. CASE RunCountOnly
  <2>1. zset' \subseteq zset /\ UNCHANGED <<at, log>>
    BY <1>8 DEF RunCountOnly, Trimmed, localVars
  <2> QED  BY <1>5, <2>1
<1>9. ASSUME \/ Tick \/ Off \/ UNCHANGED vars
             \/ \E i \in Instance, now \in RequestTimes : SendScript(i, now)
             \/ \E s \in wire : LoseScript(s)
      PROVE  MemberInv'
  <2>1. UNCHANGED <<at, log, zset>>
    BY <1>9 DEF Tick, Off, vars, SendScript, LoseScript, localVars, redisVars
  <2> QED  BY <1>5, <2>1
<1> QED  BY <1>6, <1>7, <1>8, <1>9 DEF Next, Redis

-----------------------------------------------------------------------------
\* The numbering of the events is continued by each script that runs.
LEMMA SetStep ==
    ASSUME KeyInv, MemberInv, SetInv, Single, [Next \/ Off]_vars
    PROVE  SetInv'
<1> SUFFICES ASSUME backend' = "redis"  PROVE SetInv'
  BY DEF SetInv
<1>0. backend = "redis"
  BY DEF Next, Off, vars, Tick, Local, CallLocal, TakeLock, LookAtHead, PopHead,
         ReturnLocal, Redis, SendScript, RunScript, LoseScript, RunCountOnly
<1>1. /\ clock \in Nat /\ Window \in Nat
      /\ log \in Seq([now : Nat, at : Nat])
      /\ Len(log) \in Nat /\ DOMAIN log = 1 .. Len(log)
      /\ \A i \in DOMAIN log : log[i].now \in Nat
      /\ seq \in [Instance -> Nat]
      /\ wire \subseteq [now : Nat, n : Nat, by : Instance]
      /\ lead \in Nat /\ \A s \in wire : s.now <= clock + lead
  BY EventTypes DEF KeyInv, TypeOK
<1>2. /\ \A t \in Thread : at[t] = "idle"
      /\ \A s \in wire : \A k \in Instance : s.n < seq[k]
      /\ \A s, u \in wire : s.n = u.n => s = u
  BY <1>0 DEF SetInv, MemberInv
<1>3. PICK f : Numbers(f)  BY <1>0 DEF SetInv
<1>4. /\ f \in [DOMAIN log -> Nat]
      /\ \A i, j \in DOMAIN log : f[i] = f[j] => i = j
      /\ \A i \in DOMAIN log :
            /\ \A k \in Instance : f[i] < seq[k]
            /\ \A s \in wire : s.n # f[i]
            /\ log[i].now + Window > clock + lead => <<log[i].now, f[i]>> \in zset
  BY <1>3 DEF Numbers
<1>5. SUFFICES /\ \A s \in wire' : \A k \in Instance : s.n < seq'[k]
               /\ \A s, u \in wire' : s.n = u.n => s = u
               /\ \E g : Numbers(g)'
  BY DEF SetInv
\* What is in the window of the clock furthest ahead is not trimmed.
<1>6. ASSUME NEW now \in Nat, now <= clock + lead,
             NEW i \in DOMAIN log, log[i].now + Window > clock + lead
      PROVE  <<log[i].now, f[i]>> \in Trimmed(now)
  <2>1. <<log[i].now, f[i]>> \in zset  BY <1>4, <1>6
  <2>2. log[i].now + Window <= expires + lead /\ expires \in Nat
    <3>1. \A m \in zset : m[1] + Window <= expires + lead
      BY DEF KeyInv, KeyOutlivesWindow
    <3>2. expires \in Nat  BY <1>1 DEF KeyInv, TypeOK
    <3> QED  BY <2>1, <3>1, <3>2
  <2>3. clock < expires /\ log[i].now > now - Window
    <3>1. /\ log[i].now \in Nat /\ clock \in Nat /\ lead \in Nat /\ Window \in Nat
      BY <1>1, <1>6
    <3> QED  BY <1>6, <2>2, <3>1
  <2> QED  BY <2>1, <2>3 DEF Trimmed, InWindow
<1>7. CASE Tick \/ Off \/ UNCHANGED vars
  <2>1. /\ UNCHANGED <<lead, log, at, seq, wire, zset>>
        /\ clock' \in {clock, clock + 1}
    BY <1>7 DEF Tick, Off, vars, localVars, redisVars
  <2>2. \A i \in DOMAIN log : log[i].now + Window > clock' + lead
                                => log[i].now + Window > clock + lead
    BY <1>1, <2>1
  <2>3. Numbers(f)'  BY <1>4, <2>1, <2>2 DEF Numbers
  <2> QED  BY <1>2, <2>1, <2>3
<1>8. ASSUME NEW t \in Thread, Local(t)  PROVE FALSE
  BY <1>0, <1>2, <1>8 DEF Local, CallLocal, TakeLock, LookAtHead, PopHead, ReturnLocal
<1>9. ASSUME NEW k \in Instance, NEW now \in RequestTimes, SendScript(k, now)
      PROVE  /\ \A s \in wire' : \A l \in Instance : s.n < seq'[l]
             /\ \A s, u \in wire' : s.n = u.n => s = u
             /\ \E g : Numbers(g)'
  <2>1. wire' = wire \cup {[now |-> now, n |-> seq[k], by |-> k]}
    BY <1>9 DEF SendScript, Script
  <2>2. /\ UNCHANGED <<lead, log, at, clock, zset>>
        /\ \A l \in Instance : seq'[l] = seq[k] + 1 /\ seq[l] = seq[k]
        /\ seq[k] \in Nat
    BY <1>1, <1>9 DEF SendScript, Single, localVars
  <2>3. \A s \in wire' : \A l \in Instance : s.n < seq'[l]
    <3>1. \A s \in wire : s.n \in Nat /\ s.n < seq[k]  BY <1>1, <1>2
    <3> QED  BY <2>1, <2>2, <3>1
  <2>4. \A s, u \in wire' : s.n = u.n => s = u
    <3>1. \A s \in wire : s.n \in Nat /\ s.n # seq[k]
      <4>1. \A s \in wire : s.n \in Nat /\ s.n < seq[k]  BY <1>1, <1>2
      <4> QED  BY <2>2, <4>1
    <3> QED  BY <1>2, <2>1, <3>1
  <2>5. Numbers(f)'
    <3>1. \A i \in DOMAIN log : f[i] \in Nat /\ f[i] < seq[k]  BY <1>4
    <3>2. \A i \in DOMAIN log : \A l \in Instance : f[i] < seq'[l]
      BY <2>2, <3>1
    <3>3. \A i \in DOMAIN log : \A s \in wire' : s.n # f[i]
      <4>1. \A i \in DOMAIN log : f[i] # seq[k]  BY <2>2, <3>1
      <4>2. \A s \in wire' : s \in wire \/ s.n = seq[k]  BY <2>1
      <4> QED  BY <1>4, <4>1, <4>2
    <3> QED  BY <1>4, <2>2, <3>2, <3>3 DEF Numbers
  <2> QED  BY <1>2, <2>2, <2>3, <2>4, <2>5
<1>10. ASSUME NEW s \in wire, RunScript(s)
       PROVE  /\ \A r \in wire' : \A l \in Instance : r.n < seq'[l]
              /\ \A r, u \in wire' : r.n = u.n => r = u
              /\ \E g : Numbers(g)'
  <2> DEFINE e == [now |-> s.now, at |-> clock]
             n == Len(log) + 1
             g == [i \in 1 .. n |-> IF i = n THEN s.n ELSE f[i]]
  <2>1. /\ log' = Append(log, e) /\ wire' = wire \ {s}
        /\ zset' = Trimmed(s.now) \cup {<<s.now, s.n>>}
        /\ UNCHANGED <<lead, at, clock, seq>>
        /\ s.now \in Nat /\ s.n \in Nat /\ s.now <= clock + lead
    BY <1>1, <1>10 DEF RunScript, localVars
  <2>2. /\ DOMAIN log' = 1 .. n /\ log'[n].now = s.now
        /\ \A i \in DOMAIN log : log'[i] = log[i]
    <3>1. e \in [now : Nat, at : Nat] /\ e.now = s.now  BY <1>1, <2>1
    <3> HIDE DEF e
    <3> QED  BY <1>1, <2>1, <3>1
  <2>3. /\ g[n] = s.n /\ \A i \in DOMAIN log : g[i] = f[i]
        /\ \A i \in 1 .. n : i = n \/ i \in DOMAIN log
        /\ g \in [1 .. n -> Nat]
    <3>1. \A i \in 1 .. n : i = n \/ i \in DOMAIN log  BY <1>1
    <3>2. \A i \in DOMAIN log : i # n /\ i \in 1 .. n  BY <1>1
    <3>3. n \in 1 .. n  BY <1>1
    <3>4. \A i \in 1 .. n : g[i] \in Nat  BY <1>4, <2>1, <3>1
    <3> QED  BY <3>1, <3>2, <3>3, <3>4
  <2> HIDE DEF e, n, g
  <2>4. \A i, j \in 1 .. n : g[i] = g[j] => i = j
    BY <1>4, <2>3
  <2>5. \A i \in 1 .. n : \A l \in Instance : g[i] < seq'[l]
    <3>1. \A l \in Instance : s.n < seq[l]  BY <1>2
    <3>2. \A i \in DOMAIN log : \A l \in Instance : f[i] < seq[l]  BY <1>4
    <3> QED  BY <2>1, <2>3, <3>1, <3>2
  <2>6. \A i \in 1 .. n : \A r \in wire' : r.n # g[i]
    BY <1>2, <1>4, <2>1, <2>3
  <2>7. \A i \in 1 .. n : log'[i].now + Window > clock' + lead'
                             => <<log'[i].now, g[i]>> \in zset'
    BY <1>6, <2>1, <2>2, <2>3
  <2>9. PICK h : h = g
    OBVIOUS
  <2>10. Numbers(h)'
    <3>1. DOMAIN log' = 1 .. n  BY <2>2
    <3> USE <3>1
    <3>2. g \in [DOMAIN log' -> Nat] /\ \A i, j \in DOMAIN log' : g[i] = g[j] => i = j
      BY <2>3, <2>4
    <3>3. \A i \in DOMAIN log' :
             /\ \A l \in Instance : g[i] < seq'[l]
             /\ \A r \in wire' : r.n # g[i]
      BY <2>5, <2>6
    <3>4. \A i \in DOMAIN log' :
             log'[i].now + Window > clock' + lead' => <<log'[i].now, g[i]>> \in zset'
      BY <2>7
    <3> QED  BY <2>9, <3>2, <3>3, <3>4 DEF Numbers
  <2> QED  BY <1>2, <2>1, <2>10
<1>11. ASSUME NEW s \in wire, LoseScript(s)
       PROVE  /\ \A r \in wire' : \A l \in Instance : r.n < seq'[l]
              /\ \A r, u \in wire' : r.n = u.n => r = u
              /\ \E g : Numbers(g)'
  <2>1. wire' = wire \ {s} /\ UNCHANGED <<lead, log, at, clock, seq, zset>>
    BY <1>11 DEF LoseScript, localVars
  <2>2. Numbers(f)'  BY <1>4, <2>1 DEF Numbers
  <2> QED  BY <1>2, <2>1, <2>2
<1>12. CASE RunCountOnly
  <2>1. PICK now \in Nat : now <= clock + lead /\ zset' = Trimmed(now)
    BY <1>1, <1>12 DEF RunCountOnly, RequestTimes
  <2>2. UNCHANGED <<lead, log, at, clock, seq, wire>>
    BY <1>12 DEF RunCountOnly, localVars
  <2>3. \A m \in Trimmed(now) : m \in zset  BY DEF Trimmed
  <2>4. Numbers(f)'  BY <1>4, <1>6, <2>1, <2>2, <2>3 DEF Numbers
  <2> QED  BY <1>2, <2>2, <2>4
<1> QED  BY <1>7, <1>8, <1>9, <1>10, <1>11, <1>12 DEF Next, Redis

-----------------------------------------------------------------------------
\* Where each of R has one of Z to itself, R has no more than Z.
LEMMA InjectionBounds ==
    ASSUME NEW R, NEW Z, IsFiniteSet(Z), NEW key,
           \A i, j \in R : key[i] = key[j] => i = j,
           \A i \in R : key[i] \in Z
    PROVE  Cardinality(R) <= Cardinality(Z)
<1> DEFINE f == [i \in R |-> key[i]]
<1>1. f \in Injection(R, Z)
  BY DEF Injection, IsInjective
<1> HIDE DEF f
<1> QED  BY <1>1, FS_Injection

\* A deque that is the end of the log: what is recent is in it, and all of it was
\* recorded after its first event was made.
LEMMA EndOfTheLog ==
    ASSUME NEW n \in Nat, NEW k \in 0 .. n,
           NEW R \in SUBSET (k + 1 .. n),
           NEW H, IsFiniteSet(H), k + 1 .. n \subseteq H
    PROVE  Cardinality(R) <= n - k /\ n - k <= Cardinality(H)
<1>1. IsFiniteSet(k + 1 .. n) /\ Cardinality(k + 1 .. n) = n - k
  <2>1. k + 1 \in Int /\ n \in Int  OBVIOUS
  <2>2. /\ IsFiniteSet(k + 1 .. n)
        /\ Cardinality(k + 1 .. n) = IF k + 1 > n THEN 0 ELSE n - (k + 1) + 1
    BY <2>1, FS_Interval
  <2> QED  BY <2>2
<1>2. Cardinality(R) <= Cardinality(k + 1 .. n)
  BY <1>1, FS_Subset
<1>3. Cardinality(k + 1 .. n) <= Cardinality(H)
  BY FS_Subset
<1> QED  BY <1>1, <1>2, <1>3

\* What a SafeCounter returns is the count of the window.
LEMMA LocalCounts ==
    ASSUME KeyInv, PastInv, DequeInv, MemberInv, KeyInv', PastInv', DequeInv',
           NEW t \in Thread, ReturnLocal(t)
    PROVE  RecentCounted' /\ NothingOldCounted' /\ MadeInWindow'
<1>1. /\ at[t] = "add" /\ backend = "local" /\ backend' = "local"
      /\ clock' = clock /\ lead' = lead
      /\ got' = [count |-> Len(deque'), now |-> call[t].now, clock |-> clock]
  BY VelocityAssumption DEF KeyInv, TypeOK, MemberInv, ReturnLocal, Return
<1>2. /\ clock \in Nat /\ Window \in Nat \ {0}
      /\ lead \in Nat /\ call[t].now \in Nat /\ call[t].now <= clock + lead
  BY EventTypes, VelocityAssumption DEF KeyInv, PastInv
<1>3. log' \in Seq([now : Nat, at : Nat]) /\ deque' \in Seq(Nat)
  BY DEF KeyInv, TypeOK
<1>4. /\ Len(log') \in Nat /\ DOMAIN log' = 1 .. Len(log')
      /\ Len(deque') \in Nat /\ DOMAIN deque' = 1 .. Len(deque')
      /\ \A i \in DOMAIN log' : log'[i].now \in Nat /\ log'[i].at \in Nat
  BY <1>3, EventsTyped
<1> DEFINE n == Len(log')
           k == Len(log') - Len(deque')
           R == {i \in DOMAIN log' : log'[i].now > got'.clock + lead' - Window}
           H == {i \in DOMAIN log' : log'[i].at + lead' > got'.now - Window}
           M == {i \in 1 .. Len(log') : log'[i].now > got'.now - Window}
<1>5. /\ Len(deque') <= n
      /\ \A j \in DOMAIN deque' : deque'[j] = log'[k + j].now
      /\ \A i \in 1 .. k : log'[i].now + Window <= clock + lead
  BY <1>1 DEF DequeInv, Gone
<1>6. /\ \A i \in DOMAIN log' : log'[i].now <= log'[i].at + lead
      /\ \A i, j \in DOMAIN log' : i < j => log'[i].at <= log'[j].at
  BY <1>1 DEF PastInv
<1>7. deque' # <<>> => deque'[1] > call[t].now - Window
  <2>1. deque = <<>> \/ deque[1] > call[t].now - Window
    BY <1>1 DEF DequeInv, InWindow
  <2>2. CASE ~call[t].adds
    BY <2>1, <2>2 DEF ReturnLocal
  <2>3. CASE call[t].adds
    <3>1. deque \in Seq(Nat) /\ deque' = Append(deque, call[t].now)
      BY <2>3 DEF ReturnLocal, KeyInv, TypeOK
    <3>2. CASE deque = <<>>
      <4>1. deque'[1] = call[t].now  BY <3>1, <3>2, <1>2
      <4> QED  BY <4>1, <1>2
    <3>3. CASE deque # <<>>
      <4>1. deque'[1] = deque[1]  BY <3>1, <3>3, <1>2
      <4> QED  BY <4>1, <2>1, <3>3
    <3> QED  BY <3>2, <3>3
  <2> QED  BY <2>2, <2>3
<1>8. k \in 0 .. n /\ n \in Nat /\ n - k = Len(deque')
  BY <1>4, <1>5
<1> HIDE DEF n, k
<1>9. R \in SUBSET (k + 1 .. n)
  <2> SUFFICES ASSUME NEW i \in DOMAIN log', log'[i].now > clock + lead - Window
               PROVE  i \in k + 1 .. n
    BY <1>1
  <2>1. i \in 1 .. n /\ log'[i].now \in Nat  BY <1>4 DEF n
  <2>2. i \notin 1 .. k
    BY <1>2, <1>5, <2>1
  <2> QED  BY <1>8, <2>1, <2>2
<1>10. ASSUME NEW i \in k + 1 .. n
       PROVE  /\ i \in DOMAIN log' /\ i \in 1 .. Len(log')
              /\ log'[i].at + lead > call[t].now - Window
              /\ InOrder(Len(log))' => log'[i].now > call[t].now - Window
  <2>1. i \in DOMAIN log' /\ k + 1 \in DOMAIN log' /\ (i = k + 1 \/ k + 1 < i)
    BY <1>4, <1>8 DEF n
  <2>2. 1 \in DOMAIN deque' /\ deque' # <<>>
    <3>1. Len(deque') >= 1  BY <1>8
    <3>2. Len(<<>>) = 0  OBVIOUS
    <3> QED  BY <1>4, <3>1, <3>2
  <2>3. log'[k + 1].now > call[t].now - Window
    BY <1>5, <1>7, <2>2
  <2>4. log'[k + 1].now <= log'[k + 1].at + lead /\ log'[k + 1].at <= log'[i].at
    BY <1>4, <1>6, <2>1
  <2>5. InOrder(Len(log))' => log'[k + 1].now <= log'[i].now
    BY <1>4, <2>1 DEF InOrder
  <2>6. /\ log'[k + 1].now \in Nat /\ log'[k + 1].at \in Nat
        /\ log'[i].now \in Nat /\ log'[i].at \in Nat
    BY <1>4, <2>1
  <2>7. log'[i].at + lead > call[t].now - Window
    BY <1>2, <2>3, <2>4, <2>6
  <2>8. InOrder(Len(log))' => log'[i].now > call[t].now - Window
    BY <1>2, <2>3, <2>5, <2>6
  <2> QED  BY <1>4, <2>1, <2>7, <2>8
<1>11. IsFiniteSet(H) /\ IsFiniteSet(M)
  <2>1. IsFiniteSet(1 .. n)  BY <1>8, FS_Interval
  <2>2. H \in SUBSET (1 .. n) /\ M \in SUBSET (1 .. n)  BY <1>4 DEF n
  <2> QED  BY <2>1, <2>2, FS_Subset
<1>12. k + 1 .. n \subseteq H
  BY <1>1, <1>10
<1>13. Cardinality(R) <= Len(deque') /\ Len(deque') <= Cardinality(H)
  <2> HIDE DEF R, H
  <2> QED  BY <1>8, <1>9, <1>11, <1>12, EndOfTheLog
<1>14. InOrder(Len(log))' => Len(deque') <= Cardinality(M)
  <2> SUFFICES ASSUME InOrder(Len(log))' PROVE Len(deque') <= Cardinality(M)
    OBVIOUS
  <2>1. k + 1 .. n \subseteq M  BY <1>1, <1>10
  <2> HIDE DEF R, H, M
  <2> QED  BY <1>8, <1>9, <1>11, <2>1, EndOfTheLog
<1>15. RecentCounted' /\ NothingOldCounted'
  BY <1>1, <1>13 DEF RecentCounted, NothingOldCounted
<1>16. MadeInWindow'
  BY <1>1, <1>14 DEF MadeInWindow, InOrder
<1> QED  BY <1>15, <1>16

\* What Redis returns has every recent event, if its members are numbered by one.
LEMMA RedisMissesNone ==
    ASSUME KeyInv', SetInv', backend' = "redis", NEW now \in Nat,
           got' = [count |-> Cardinality(zset'), now |-> now, clock |-> clock']
    PROVE  RecentCounted'
<1>1. PICK f : Numbers(f)'
  BY DEF SetInv
<1>2. /\ log' \in Seq([now : Nat, at : Nat]) /\ clock' \in Nat /\ lead' \in Nat
      /\ Window \in Nat /\ IsFiniteSet(zset')
  BY VelocityAssumption DEF KeyInv, TypeOK
<1>3. \A i \in DOMAIN log' : log'[i].now \in Nat
  <2>1. <<>> \in Seq(Nat)  OBVIOUS
  <2> QED  BY <1>2, <2>1, EventsTyped
<1> DEFINE key == [i \in DOMAIN log' |-> <<log'[i].now, f[i]>>]
           R == {i \in DOMAIN log' : log'[i].now > got'.clock + lead' - Window}
<1>4. /\ \A i, j \in R : key[i] = key[j] => i = j
      /\ \A i \in DOMAIN log' : log'[i].now + Window > clock' + lead' => key[i] \in zset'
  BY <1>1 DEF Numbers
<1>5. \A i \in R : key[i] \in zset'
  <2> SUFFICES ASSUME NEW i \in DOMAIN log', log'[i].now > clock' + lead' - Window
               PROVE  key[i] \in zset'
    OBVIOUS
  <2>1. log'[i].now + Window > clock' + lead'  BY <1>2, <1>3
  <2> QED  BY <1>4, <2>1
<1>6. Cardinality(R) <= Cardinality(zset')
  <2> HIDE DEF key, R
  <2> QED  BY <1>2, <1>4, <1>5, InjectionBounds
<1> QED  BY <1>6 DEF RecentCounted

\* What Redis returns has nothing that is over, whoever numbers its members.
LEMMA RedisKeepsNone ==
    ASSUME KeyInv', MemberInv', backend' = "redis", NEW now \in Nat,
           got' = [count |-> Cardinality(zset'), now |-> now, clock |-> clock'],
           \A m \in zset' : InWindow(m[1], now)
    PROVE  NothingOldCounted' /\ MadeInWindow'
<1>1. PICK f : Finds(f)'
  BY DEF MemberInv
<1> DEFINE H == {i \in DOMAIN log' : log'[i].now > got'.now - Window}
<1>2. IsFiniteSet(H) /\ H = {i \in 1 .. Len(log') : log'[i].now > got'.now - Window}
  <2>1. log' \in Seq([now : Nat, at : Nat])  BY DEF KeyInv, TypeOK
  <2>2. DOMAIN log' = 1 .. Len(log') /\ Len(log') \in Nat  BY <2>1
  <2>3. IsFiniteSet(1 .. Len(log'))  BY <2>2, FS_Interval
  <2>4. H \in SUBSET (1 .. Len(log'))  BY <2>2
  <2> QED  BY <2>3, <2>4, FS_Subset
<1>3. /\ \A m, o \in zset' : f[m] = f[o] => m = o
      /\ \A m \in zset' : f[m] \in H
  BY <1>1 DEF Finds, InWindow
<1>4. Cardinality(zset') <= Cardinality(H)
  <2> HIDE DEF H
  <2> QED  BY <1>2, <1>3, InjectionBounds
<1> QED  BY <1>2, <1>4 DEF NothingOldCounted, MadeInWindow

\* Every count that is returned holds what it may, and what it must where one
\* counts.
LEMMA CountStep == CountInv /\ [Next \/ Off]_vars => CountInv'
<1> SUFFICES ASSUME CountInv, [Next \/ Off]_vars PROVE CountInv'
  OBVIOUS
<1>0. backend' = backend /\ lead' = lead /\ (Exact' <=> Exact)
  BY DEF Next, Off, vars, Tick, Local, CallLocal, TakeLock, LookAtHead, PopHead,
         ReturnLocal, Redis, SendScript, RunScript, LoseScript, RunCountOnly, Exact, Single
<1>1. KeyInv' /\ PastInv' /\ DequeInv' /\ MemberInv'
  BY StepKeyInv, PastStep, DequeStep, MemberStep DEF CountInv
<1>2. Exact => SetInv'
  <2>1. CASE Single  BY <2>1, SetStep DEF CountInv, Exact
  <2>2. CASE backend = "local"  BY <1>0, <2>2 DEF SetInv
  <2> QED  BY <2>1, <2>2 DEF Exact
<1>3. ASSUME UNCHANGED <<log, got, backend>>
      PROVE  (Exact => RecentCounted') /\ NothingOldCounted' /\ MadeInWindow'
  BY <1>0, <1>3 DEF CountInv, RecentCounted, NothingOldCounted, MadeInWindow, InOrder
<1>4. ASSUME NEW t \in Thread, Local(t)
      PROVE  (Exact => RecentCounted') /\ NothingOldCounted' /\ MadeInWindow'
  <2>1. CASE ReturnLocal(t)
    BY <1>1, <2>1, LocalCounts DEF CountInv
  <2>2. CASE CallLocal(t) \/ TakeLock(t) \/ LookAtHead(t) \/ PopHead(t)
    BY <1>3, <2>2 DEF CallLocal, TakeLock, LookAtHead, PopHead
  <2> QED  BY <1>4, <2>1, <2>2 DEF Local
<1>5. ASSUME NEW s \in wire, RunScript(s)
      PROVE  (Exact => RecentCounted') /\ NothingOldCounted' /\ MadeInWindow'
  <2>1. /\ s.now \in Nat /\ backend \in {"local", "redis"} /\ Window \in Nat \ {0}
    BY VelocityAssumption DEF CountInv, KeyInv, TypeOK
  <2>2. backend = "redis"
    BY <2>1 DEF CountInv, DequeInv
  <2>3. /\ backend' = "redis" /\ zset' = Trimmed(s.now) \cup {<<s.now, s.n>>}
        /\ got' = [count |-> Cardinality(zset'), now |-> s.now, clock |-> clock']
    BY <1>5, <2>2 DEF RunScript, Return
  <2>4. \A m \in zset' : InWindow(m[1], s.now)
    <3>1. s.now > s.now - Window  BY <2>1
    <3> QED  BY <2>3, <3>1 DEF Trimmed, InWindow
  <2> QED  BY <1>1, <1>2, <2>1, <2>3, <2>4, RedisMissesNone, RedisKeepsNone
<1>6. ASSUME RunCountOnly
      PROVE  (Exact => RecentCounted') /\ NothingOldCounted' /\ MadeInWindow'
  <2>1. PICK now \in Nat : zset' = Trimmed(now) /\ Return(Cardinality(zset'), now)
    BY <1>6 DEF RunCountOnly, RequestTimes, CountInv, KeyInv, TypeOK
  <2>2. /\ backend' = "redis"
        /\ got' = [count |-> Cardinality(zset'), now |-> now, clock |-> clock']
    BY <1>6, <2>1 DEF RunCountOnly, Return
  <2>3. \A m \in zset' : InWindow(m[1], now)
    BY <2>1 DEF Trimmed
  <2> QED  BY <1>1, <1>2, <2>2, <2>3, RedisMissesNone, RedisKeepsNone
<1>7. ASSUME \/ Tick \/ Off \/ UNCHANGED vars
             \/ \E i \in Instance, now \in RequestTimes : SendScript(i, now)
             \/ \E s \in wire : LoseScript(s)
      PROVE  (Exact => RecentCounted') /\ NothingOldCounted' /\ MadeInWindow'
  BY <1>3, <1>7 DEF Tick, Off, SendScript, LoseScript, vars
<1>8. (Exact => RecentCounted') /\ NothingOldCounted' /\ MadeInWindow'
  BY <1>4, <1>5, <1>6, <1>7 DEF Next, Redis
<1> QED  BY <1>0, <1>1, <1>2, <1>8 DEF CountInv

\* At first nothing is counted.
LEMMA CountInit == Init => CountInv
<1> SUFFICES ASSUME Init PROVE CountInv  OBVIOUS
<1>1. KeyInv  BY InitKeyInv
<1>2. /\ log = <<>> /\ deque = <<>> /\ wire = {} /\ zset = {}
      /\ clock = 1 /\ lead \in Nat /\ got = [count |-> 0, now |-> 0, clock |-> 0]
      /\ at = [t \in Thread |-> "idle"]
      /\ \A t \in Thread : call[t].now = 0
      /\ DOMAIN log = {} /\ Len(log) = 0 /\ DOMAIN deque = {} /\ Len(deque) = 0
  BY VelocityAssumption DEF Init, NoCall
<1>3. PastInv  BY <1>2 DEF PastInv
<1>4. DequeInv  BY <1>2 DEF DequeInv, Gone
<1>5. Numbers(<<>>)  BY <1>2 DEF Numbers
<1>6. SetInv  BY <1>2, <1>5 DEF SetInv
<1>9. MemberInv
  <2>1. Finds(<<>>)  BY <1>2 DEF Finds
  <2> QED  BY <1>2, <2>1 DEF MemberInv
<1>7. RecentCounted
  <2>1. {i \in DOMAIN log : log[i].now > got.clock + lead - Window} = {}  BY <1>2
  <2> QED  BY <1>2, <2>1, FS_EmptySet DEF RecentCounted
<1>8. NothingOldCounted
  <2>2. Cardinality({}) = 0  BY FS_EmptySet
  <2> QED  BY <1>2, <2>2 DEF NothingOldCounted
<1>10. MadeInWindow
  <2>1. Cardinality({}) = 0 /\ 1 .. Len(log) = {}  BY <1>2, FS_EmptySet
  <2> QED  BY <1>2, <2>1 DEF MadeInWindow
<1> QED  BY <1>1, <1>3, <1>4, <1>6, <1>7, <1>8, <1>9, <1>10 DEF CountInv

-----------------------------------------------------------------------------
\* A payment that was declined on a count is one of more than Limit made in the
\* window of its time, where the requests came in order or on a Redis.
DeclinesAreDue ==
    ~last.approved /\ (backend = "redis" \/ InOrder(last.n)) =>
        Cardinality({i \in 1 .. last.n : log[i].now > last.now - Window}) > Limit

\* The last decision was made on events of the log.
LastInv ==
    /\ last.n \in 0 .. Len(log)
    /\ DeclinesAreDue
    /\ Exact => DecidesByWindow

\* The hammer does nothing to the counter that Velocity does not allow, but to
\* decide while it is off.
LEMMA HammerIsVelocity == [Hammer]_hotVars => [Next \/ Off]_vars
<1> SUFFICES ASSUME [Hammer]_hotVars PROVE [Next \/ Off]_vars
  OBVIOUS
<1>1. CASE UNCHANGED vars
  BY <1>1
<1>2. CASE Flip \/ Within \/ Late
  BY <1>2 DEF Flip, Within, Late, Next, Local, Redis
<1>3. ASSUME NEW t \in Thread, Decide(t)  PROVE [Next \/ Off]_vars
  <2>1. CASE CallSafe(t) \/ ReturnSafe(t)
    BY <2>1 DEF CallSafe, ReturnSafe, Next, Local
  <2>2. CASE CallRedis(t) \/ Reply(t) \/ LoseReply(t)
    BY <2>2 DEF CallRedis, Reply, LoseReply, Next, Redis
  <2>3. CASE GiveUp(t) \/ See(t) \/ GoBlind(t)
    BY <2>3 DEF GiveUp, See, GoBlind, Finished
  <2>4. CASE CallOff(t)
    BY <2>4 DEF CallOff, Off
  <2> QED  BY <1>3, <2>1, <2>2, <2>3, <2>4 DEF Decide
<1> QED  BY <1>1, <1>2, <1>3 DEF Hammer, hotVars, GateNext

\* What an event in process and what a script records.
LEMMA Recorded ==
    ASSUME KeyInv
    PROVE  /\ \A t \in Thread : ReturnLocal(t) /\ call[t].adds =>
                 \E e \in [now : Nat, at : Nat] :
                    log' = Append(log, e) /\ got'.clock = clock /\ UNCHANGED <<backend, lead>>
           /\ \A s \in wire : RunScript(s) =>
                 \E e \in [now : Nat, at : Nat] :
                    log' = Append(log, e) /\ got'.clock = clock /\ UNCHANGED <<backend, lead>>
<1>1. ASSUME NEW t \in Thread, ReturnLocal(t), call[t].adds
      PROVE  /\ [now |-> call[t].now, at |-> clock] \in [now : Nat, at : Nat]
             /\ log' = Append(log, [now |-> call[t].now, at |-> clock])
             /\ got'.clock = clock /\ UNCHANGED <<backend, lead>>
  BY <1>1 DEF ReturnLocal, Return, KeyInv, TypeOK
<1>2. ASSUME NEW s \in wire, RunScript(s)
      PROVE  /\ [now |-> s.now, at |-> clock] \in [now : Nat, at : Nat]
             /\ log' = Append(log, [now |-> s.now, at |-> clock])
             /\ got'.clock = clock /\ UNCHANGED <<backend, lead>>
  BY <1>2 DEF RunScript, Return, KeyInv, TypeOK
<1> QED  BY <1>1, <1>2

\* The decision by the count that was just returned.
ByCount ==
    last' = [approved |-> got'.count <= Limit, n |-> Len(log'), at |-> clock, now |-> got'.now]

\* A step of the hammer records nothing and decides nothing, or records an event,
\* and may decide by the count it is given.
LEMMA HammerDecides ==
    ASSUME KeyInv, [Hammer]_hotVars
    PROVE  \/ UNCHANGED <<log, backend, lead, last>>
           \/ \E e \in [now : Nat, at : Nat] :
                 /\ log' = Append(log, e) /\ got'.clock = clock /\ UNCHANGED <<backend, lead>>
                 /\ ByCount \/ UNCHANGED last
<1>1. CASE UNCHANGED <<vars, gateVars>>
  BY <1>1 DEF vars, gateVars
<1>2. CASE Flip
  BY <1>2 DEF Flip, vars
<1>3. CASE Within
  BY <1>3 DEF Within, gateVars, Tick, RunCountOnly, TakeLock, LookAtHead, PopHead
<1>4. CASE Late
  <2>1. PICK s \in wire : RunScript(s) \/ LoseScript(s)  BY <1>4 DEF Late
  <2>2. UNCHANGED last  BY <1>4 DEF Late, gateVars
  <2>3. CASE LoseScript(s)  BY <2>2, <2>3 DEF LoseScript
  <2>4. CASE RunScript(s)  BY <2>2, <2>4, Recorded
  <2> QED  BY <2>1, <2>3, <2>4
<1>5. ASSUME NEW t \in Thread, Decide(t)
      PROVE  \/ UNCHANGED <<log, backend, lead, last>>
             \/ \E e \in [now : Nat, at : Nat] :
                   /\ log' = Append(log, e) /\ got'.clock = clock /\ UNCHANGED <<backend, lead>>
                   /\ ByCount \/ UNCHANGED last
  <2>1. CASE CallSafe(t)
    BY <2>1 DEF CallSafe, CallLocal, gateVars
  <2>2. CASE CallRedis(t)
    BY <2>2 DEF CallRedis, SendScript
  <2>3. CASE GiveUp(t) \/ See(t) \/ GoBlind(t)
    BY <2>3 DEF GiveUp, See, GoBlind, Finished, vars
  <2>4. CASE CallOff(t)
    BY <2>4 DEF CallOff
  <2>5. CASE ReturnSafe(t) /\ call[t].adds
    <3>1. ReturnLocal(t) /\ ByCount
      BY <2>5 DEF ReturnSafe, DecideByCount, ByCount
    <3> QED  BY <2>5, <3>1, Recorded
  <2>6. CASE ReturnSafe(t) /\ ~call[t].adds
    BY <2>6 DEF ReturnSafe, ReturnLocal, gateVars
  <2>7. CASE Reply(t) \/ LoseReply(t)
    <3>1. PICK s \in wire : RunScript(s)  BY <2>7 DEF Reply, LoseReply
    <3>2. ByCount \/ UNCHANGED last
      BY <2>7 DEF Reply, LoseReply, DecideByCount, ByCount
    <3> QED  BY <3>1, <3>2, Recorded
  <2> QED
    BY <1>5, <2>1, <2>2, <2>3, <2>4, <2>5, <2>6, <2>7 DEF Decide
<1> QED  BY <1>1, <1>2, <1>3, <1>4, <1>5 DEF Hammer, hotVars, GateNext

\* The last decision.
LEMMA LastStep ==
    ASSUME CountInv, CountInv', LastInv, [Hammer]_hotVars
    PROVE  LastInv'
<1> DEFINE Since(time) == {i \in 1 .. last.n : log[i].now > time - Window}
<1>1. /\ Len(log) \in Nat /\ log \in Seq([now : Nat, at : Nat])
      /\ Len(log') \in Nat /\ log' \in Seq([now : Nat, at : Nat])
      /\ DOMAIN log' = 1 .. Len(log')
  <2>1. /\ log \in Seq([now : Nat, at : Nat])
        /\ log' \in Seq([now : Nat, at : Nat])
    BY DEF CountInv, KeyInv, TypeOK
  <2> QED  BY <2>1
<1>2. last.n \in 0 .. Len(log)  BY DEF LastInv
<1>3. ASSUME UNCHANGED <<backend, lead, last>>, last.n <= Len(log'),
             \A i \in 1 .. last.n : log'[i] = log[i]
      PROVE  LastInv'
  <2>1. \A time : Since(time)' = Since(time)  BY <1>3
  <2>2. InOrder(last.n)' <=> InOrder(last.n)  BY <1>3 DEF InOrder
  <2>3. DeclinesAreDue'
    <3>1. {i \in 1 .. last'.n : log'[i].now > last'.now - Window}
             = {i \in 1 .. last.n : log[i].now > last.now - Window}
      BY <1>3
    <3> QED  BY <1>3, <2>2, <3>1 DEF LastInv, DeclinesAreDue
  <2>4. Exact' => DecidesByWindow'
    <3>1. /\ {i \in 1 .. last'.n : log'[i].now > last'.now - Window}
                = {i \in 1 .. last.n : log[i].now > last.now - Window}
          /\ {i \in 1 .. last'.n : log'[i].now > last'.at + lead' - Window}
                = {i \in 1 .. last.n : log[i].now > last.at + lead - Window}
      BY <1>3
    <3>2. (\A i, j \in 1 .. last'.n : i < j => log'[i].now <= log'[j].now)
             <=> \A i, j \in 1 .. last.n : i < j => log[i].now <= log[j].now
      BY <1>3
    <3> QED  BY <1>3, <3>1, <3>2 DEF LastInv, DecidesByWindow, Exact, Single
  <2> QED  BY <1>1, <1>2, <1>3, <2>3, <2>4 DEF LastInv
<1>4. ASSUME ByCount, got'.clock = clock, UNCHANGED <<backend, lead>>
      PROVE  LastInv'
  <2>1. last' = [approved |-> got'.count <= Limit, n |-> Len(log'), at |-> clock,
                 now |-> got'.now]
    BY <1>4 DEF ByCount
  <2> DEFINE A == {i \in 1 .. Len(log') : log'[i].now > clock + lead - Window}
             D == {i \in 1 .. Len(log') : log'[i].now > got'.now - Window}
  <2>2. /\ Exact' => Cardinality(A) <= got'.count
        /\ backend = "redis" \/ InOrder(Len(log))' => got'.count <= Cardinality(D)
    BY <1>1, <1>4 DEF CountInv, RecentCounted, MadeInWindow
  <2>3. /\ got'.count \in Nat /\ Limit \in Nat
        /\ Cardinality(A) \in Nat /\ Cardinality(D) \in Nat
    <3>1. A \in SUBSET (1 .. Len(log')) /\ D \in SUBSET (1 .. Len(log'))
      OBVIOUS
    <3>2. IsFiniteSet(1 .. Len(log'))  BY <1>1, FS_Interval
    <3>3. IsFiniteSet(A) /\ IsFiniteSet(D)
      BY <3>1, <3>2, FS_Subset
    <3>4. got'.count \in Nat  BY DEF CountInv, KeyInv, TypeOK
    <3> QED  BY <3>3, <3>4, FS_CardinalityType, GateAssumption
  <2>10. A = {i \in 1 .. Len(log') : log'[i].now > (clock + lead) - Window}
    <3>1. clock \in Nat /\ lead \in Nat /\ Window \in Nat
      BY VelocityAssumption DEF CountInv, KeyInv, PastInv, TypeOK
    <3>2. (clock + lead) - Window = clock + lead - Window  BY <3>1
    <3> QED  BY <3>2
  <2>4. /\ {i \in 1 .. last'.n : log'[i].now > last'.now - Window} = D
        /\ {i \in 1 .. last'.n : log'[i].now > (last'.at + lead') - Window} = A
        /\ last'.n = Len(log')
        /\ InOrder(last.n)' <=> InOrder(Len(log))'
    BY <1>4, <2>1, <2>10 DEF InOrder
  <2>5. last'.approved <=> got'.count <= Limit  BY <2>1
  <2> HIDE DEF A, D
  <2>6. ~last'.approved /\ (backend = "redis" \/ InOrder(Len(log))') => Cardinality(D) > Limit
    BY <2>2, <2>3, <2>5
  <2>7. Exact' /\ last'.approved => Cardinality(A) <= Limit
    BY <2>2, <2>3, <2>5
  <2>8. DeclinesAreDue'
    BY <1>4, <2>4, <2>6 DEF DeclinesAreDue
  <2>9. Exact' => DecidesByWindow'
    <3>1. CASE last'.approved
      <4> SUFFICES ASSUME Exact'
                   PROVE  Cardinality({i \in 1 .. last'.n :
                              log'[i].now > (last'.at + lead') - Window}) <= Limit
        BY <3>1 DEF DecidesByWindow
      <4>1. {i \in 1 .. last'.n : log'[i].now > (last'.at + lead') - Window} = A
        BY <2>4
      <4>2. Cardinality(A) <= Limit  BY <2>7, <3>1
      <4> QED  BY <4>1, <4>2, Zenon
    <3>2. CASE ~last'.approved
      <4>1. InOrder(Len(log))' <=>
               \A i, j \in 1 .. last'.n : i < j => log'[i].now <= log'[j].now
        BY <2>4 DEF InOrder
      <4> QED  BY <1>4, <2>4, <2>6, <3>2, <4>1 DEF DecidesByWindow
    <3> QED  BY <3>1, <3>2
  <2> QED  BY <1>1, <2>4, <2>8, <2>9 DEF LastInv
<1>5. CASE UNCHANGED <<log, backend, lead, last>>
  BY <1>1, <1>2, <1>3, <1>5
<1>6. ASSUME NEW e \in [now : Nat, at : Nat], log' = Append(log, e),
             UNCHANGED <<backend, lead, last>>
      PROVE  LastInv'
  <2>1. Len(log') = Len(log) + 1 /\ \A i \in 1 .. Len(log) : log'[i] = log[i]
    BY <1>1, <1>6
  <2>2. last.n <= Len(log') /\ \A i \in 1 .. last.n : i \in 1 .. Len(log)
    BY <1>1, <1>2, <2>1
  <2> QED  BY <1>3, <1>6, <2>1, <2>2
<1> QED  BY <1>4, <1>5, <1>6, HammerDecides DEF CountInv

-----------------------------------------------------------------------------
\* At first nothing is recorded and nothing decided.
LEMMA HotStart == HotInit => CountInv /\ LastInv
<1> SUFFICES ASSUME HotInit PROVE CountInv /\ LastInv
  OBVIOUS
<1>1. Init /\ last.approved = TRUE /\ last.n = 0 /\ Len(log) = 0
  BY DEF HotInit, GateInit, Init
<1>2. CountInv  BY <1>1, CountInit
<1>3. DecidesByWindow
  <2>1. {i \in 1 .. last.n : log[i].now > last.at + lead - Window} = {}
    BY <1>1
  <2> QED  BY <1>1, <2>1, FS_EmptySet, GateAssumption DEF DecidesByWindow
<1>4. LastInv  BY <1>1, <1>3 DEF LastInv, DeclinesAreDue
<1> QED  BY <1>2, <1>4

\* The counts are what the invariant says, and the gate decides by them.
LEMMA CountsAreSound == HotSpec => [](CountInv /\ LastInv)
<1>1. CountInv /\ LastInv /\ [Hammer]_hotVars => CountInv' /\ LastInv'
  <2> SUFFICES ASSUME CountInv, LastInv, [Hammer]_hotVars
               PROVE  CountInv' /\ LastInv'
    OBVIOUS
  <2>1. CountInv'  BY CountStep, HammerIsVelocity
  <2> QED  BY <2>1, LastStep
<1>2. HotInit => CountInv /\ LastInv  BY HotStart
<1> QED  BY <1>1, <1>2, PTL DEF HotSpec

\* A count misses no event any request could still have to count, in a process
\* with a SafeCounter, and where the members are numbered by one instance.
THEOREM NothingIsMissed == HotSpec => [](Exact => RecentCounted)
<1>1. CountInv => (Exact => RecentCounted)  BY DEF CountInv
<1> QED  BY <1>1, CountsAreSound, PTL

\* A count has no event that is over, for any number of instances: members that
\* two of them share make it too low, never too high.
THEOREM NothingIsStale == HotSpec => []NothingOldCounted
<1>1. CountInv => NothingOldCounted  BY DEF CountInv
<1> QED  BY <1>1, CountsAreSound, PTL

\* So no instance that joins turns a quiet card down, nor does a SafeCounter whose
\* requests come in order.
THEOREM DeclinesAreWarranted == HotSpec => []DeclinesAreDue
<1>1. LastInv => DeclinesAreDue  BY DEF LastInv
<1> QED  BY <1>1, CountsAreSound, PTL

\* What the gate approves on a count is within the limit, too, where a count
\* misses nothing.
THEOREM GateDecides == HotSpec => [](Exact => DecidesByWindow)
<1>1. LastInv => (Exact => DecidesByWindow)  BY DEF LastInv
<1> QED  BY <1>1, CountsAreSound, PTL

-----------------------------------------------------------------------------
\* The threads in a racy call.
Active == {t \in Thread : step[t] # "idle"}

\* Each call begun has returned or is active, and a key never holds more than was
\* returned.  As long as no two calls overlapped nothing is lost.
RaceInv ==
    /\ items \in Nat /\ number \in Nat /\ hits \in Nat /\ raced \in BOOLEAN
    /\ IsFiniteSet(members) /\ members \subseteq Nat
    /\ step \in [Thread -> {"idle", "store", "number", "add"}]
    /\ view \in [Thread -> Nat] /\ told \in Seq(Nat)
    /\ IsFiniteSet(Active) /\ Len(told) + Cardinality(Active) = hits
    /\ Final <= Len(told)
    /\ \A i \in 1 .. Len(told) : told[i] <= i
    /\ \A t \in Thread :
          /\ step[t] = "store" => subject = "unsafe"
          /\ step[t] \in {"number", "add"} => subject = "naive"
          /\ step[t] # "idle" => view[t] <= Len(told)
    /\ ~raced =>
          /\ \A t, u \in Active : t = u
          /\ Final = Len(told)
          /\ \A i \in 1 .. Len(told) : told[i] = i
          /\ \A t \in Active : view[t] = Len(told)
          /\ \A m \in members : m <= Len(told)
          /\ subject = "naive" =>
                /\ \A t \in Thread : step[t] = "add" => number = Len(told) + 1
                /\ (\A t \in Thread : step[t] # "add") => number = Len(told)

\* A racy call begins.
LEMMA BeginStep ==
    ASSUME RaceInv, NEW t \in Thread, UnsafeRead(t) \/ NaiveRead(t), UNCHANGED subject
    PROVE  RaceInv'
<1> USE DEF RaceInv
<1>1. /\ step[t] = "idle" /\ UNCHANGED <<items, members, number, told>>
      /\ view' = [view EXCEPT ![t] = Final] /\ hits' = hits + 1
      /\ raced' = (raced \/ \E u \in Thread \ {t} : step[u] # "idle")
      /\ \E next \in {"store", "number"} :
            /\ step' = [step EXCEPT ![t] = next]
            /\ next = "store" => subject = "unsafe"
            /\ next = "number" => subject = "naive"
  BY DEF UnsafeRead, NaiveRead, Begin, Final
<1>2. Final \in Nat /\ Final' = Final /\ Len(told) \in Nat
  <2>1. Cardinality(members) \in Nat  BY FS_CardinalityType
  <2> QED  BY <1>1, <2>1 DEF Final
<1>3. /\ \A u \in Thread \ {t} : step'[u] = step[u] /\ view'[u] = view[u]
      /\ step'[t] \in {"store", "number"} /\ view'[t] = Final
      /\ step'[t] = "store" => subject = "unsafe"
      /\ step'[t] = "number" => subject = "naive"
      /\ step' \in [Thread -> {"idle", "store", "number", "add"}]
      /\ view' \in [Thread -> Nat]
  BY <1>1, <1>2
<1>4. Active' = Active \cup {t} /\ t \notin Active
  BY <1>1, <1>3 DEF Active
<1>5. IsFiniteSet(Active') /\ Cardinality(Active') = Cardinality(Active) + 1
  BY <1>4, FS_AddElement
<1>6. Cardinality(Active) \in Nat  BY FS_CardinalityType
<1>7. Len(told') + Cardinality(Active') = hits' /\ hits' \in Nat
  BY <1>1, <1>2, <1>5, <1>6
<1>8. raced' \in BOOLEAN  BY <1>1
<1>9. ASSUME ~raced'
      PROVE  /\ \A u, x \in Active' : u = x
             /\ \A u \in Active' : view'[u] = Len(told')
             /\ \A u \in Thread : step'[u] # "add"
             /\ \A u \in Thread : step[u] # "add"
  <2>1. ~raced /\ Active = {}  BY <1>1, <1>9 DEF Active
  <2>2. Active' = {t}  BY <1>4, <2>1
  <2>3. \A u \in Thread : step[u] = "idle"  BY <2>1 DEF Active
  <2> QED  BY <1>1, <1>3, <2>1, <2>2, <2>3
<1>10. ~raced' => ~raced  BY <1>1
<1>11. \A u \in Thread : step'[u] # "idle" => view'[u] <= Len(told')
  BY <1>1, <1>2, <1>3
<1>12. \A u \in Thread :
          /\ step'[u] = "store" => subject' = "unsafe"
          /\ step'[u] \in {"number", "add"} => subject' = "naive"
  BY <1>3
<1> QED  BY <1>1, <1>2, <1>3, <1>5, <1>7, <1>8, <1>9, <1>10, <1>11, <1>12

\* The number of a naive call is taken.
LEMMA NumberStep ==
    ASSUME RaceInv, NEW t \in Thread, NaiveNumber(t), UNCHANGED subject
    PROVE  RaceInv'
<1> USE DEF RaceInv
<1>1. /\ step[t] = "number" /\ step' = [step EXCEPT ![t] = "add"] /\ number' = number + 1
      /\ UNCHANGED <<items, members, view, told, hits, raced>>
  BY DEF NaiveNumber
<1>2. /\ \A u \in Thread \ {t} : step'[u] = step[u]
      /\ step'[t] = "add"
      /\ step' \in [Thread -> {"idle", "store", "number", "add"}]
  BY <1>1
<1>3. Active' = Active /\ t \in Active  BY <1>1, <1>2 DEF Active
<1>4. Final' = Final  BY <1>1 DEF Final
<1>5. ~raced => \A u \in Thread : step[u] # "add"
  BY <1>1, <1>3 DEF Active
<1>6. subject = "naive"  BY <1>1
<1>7. ~raced => number' = Len(told) + 1
  BY <1>1, <1>5, <1>6
<1> QED  BY <1>1, <1>2, <1>3, <1>4, <1>6, <1>7

\* A racy call returns.
LEMMA FinishStep ==
    ASSUME RaceInv, NEW t \in Thread, UnsafeStore(t) \/ NaiveAdd(t), UNCHANGED subject
    PROVE  RaceInv'
<1> USE DEF RaceInv
<1>1. /\ step[t] # "idle" /\ step' = [step EXCEPT ![t] = "idle"]
      /\ told' = Append(told, view[t] + 1)
      /\ UNCHANGED <<view, hits, raced, number>>
  BY DEF UnsafeStore, NaiveAdd, Finish
<1>2. /\ \A u \in Thread \ {t} : step'[u] = step[u]
      /\ step'[t] = "idle"
      /\ step' \in [Thread -> {"idle", "store", "number", "add"}]
  BY <1>1
<1>3. /\ Len(told) \in Nat /\ Len(told') = Len(told) + 1
      /\ told' \in Seq(Nat) /\ view[t] \in Nat /\ view[t] <= Len(told)
      /\ \A i \in 1 .. Len(told) : told'[i] = told[i]
      /\ told'[Len(told) + 1] = view[t] + 1
      /\ \A i \in 1 .. Len(told') : i \in 1 .. Len(told) \/ i = Len(told) + 1
  BY <1>1
<1>4. Active' = Active \ {t} /\ t \in Active
  BY <1>1, <1>2 DEF Active
<1>5. IsFiniteSet(Active') /\ Cardinality(Active') = Cardinality(Active) - 1
  BY <1>4, FS_RemoveElement
<1>6. Cardinality(Active) \in Nat  BY FS_CardinalityType
<1>7. Len(told') + Cardinality(Active') = hits' /\ hits' \in Nat
  BY <1>1, <1>3, <1>5, <1>6
<1>8. \A i \in 1 .. Len(told') : told'[i] <= i
  <2>1. \A i \in 1 .. Len(told) : told'[i] <= i  BY <1>3
  <2>2. told'[Len(told) + 1] <= Len(told) + 1  BY <1>3
  <2> QED  BY <1>3, <2>1, <2>2
<1>9. \A u \in Thread : step'[u] # "idle" => step[u] # "idle" /\ view[u] <= Len(told')
  BY <1>2, <1>3
<1>10. ~raced => /\ view[t] = Len(told) /\ Active' = {}
                 /\ \A u \in Thread : step'[u] = "idle"
  BY <1>2, <1>4 DEF Active
<1>11. ~raced => \A i \in 1 .. Len(told') : told'[i] = i
  BY <1>3, <1>10
<1>12. CASE UnsafeStore(t)
  <2>1. items' = view[t] + 1 /\ members' = members /\ subject = "unsafe"
    BY <1>12 DEF UnsafeStore, Finish
  <2>2. Final' = view[t] + 1 /\ items' \in Nat /\ Final' <= Len(told')
    BY <1>3, <2>1 DEF Final
  <2>3. ~raced => Final' = Len(told') /\ \A m \in members' : m <= Len(told')
    BY <1>3, <1>10, <2>1, <2>2
  <2> QED  BY <1>1, <1>2, <1>3, <1>5, <1>7, <1>8, <1>9, <1>10, <1>11, <2>1, <2>2, <2>3
<1>13. CASE NaiveAdd(t)
  <2>1. items' = items /\ members' = members \cup {number} /\ step[t] = "add"
    BY <1>13 DEF NaiveAdd, Finish
  <2>2. subject = "naive"  BY <2>1
  <2>3. /\ IsFiniteSet(members') /\ members' \subseteq Nat
        /\ Cardinality(members') =
              IF number \in members THEN Cardinality(members) ELSE Cardinality(members) + 1
        /\ Cardinality(members) \in Nat
    BY <2>1, FS_AddElement, FS_CardinalityType
  <2>4. Final = Cardinality(members) /\ Final' = Cardinality(members')
    BY <2>2 DEF Final
  <2>5. Final' <= Len(told')
    BY <1>3, <2>3, <2>4
  <2>6. ~raced => number = Len(told) + 1
    BY <2>1, <2>2
  <2>7. ~raced => number \notin members
    BY <1>3, <2>6
  <2>8. ~raced => /\ Final' = Len(told')
                  /\ \A m \in members' : m <= Len(told')
                  /\ number' = Len(told')
    BY <1>1, <1>3, <2>1, <2>3, <2>4, <2>6, <2>7
  <2> QED
    BY <1>1, <1>2, <1>3, <1>5, <1>7, <1>8, <1>9, <1>10, <1>11, <2>1, <2>2, <2>3, <2>5, <2>8
<1> QED  BY <1>12, <1>13

\* At first nothing has raced, and the hammer keeps the count of the calls.
LEMMA RaceStart == HotInit => RaceInv
<1> SUFFICES ASSUME HotInit PROVE RaceInv
  OBVIOUS
<1>1. /\ items = 0 /\ members = {} /\ number = 0 /\ told = <<>> /\ hits = 0
      /\ raced = FALSE /\ step = [t \in Thread |-> "idle"]
      /\ view = [t \in Thread |-> 0] /\ Len(told) = 0
  BY DEF HotInit
<1>2. Active = {}  BY <1>1 DEF Active
<1>3. IsFiniteSet({}) /\ Cardinality({}) = 0  BY FS_EmptySet
<1>4. Final = 0  BY <1>1, <1>3 DEF Final
<1>5. /\ told \in Seq(Nat) /\ 1 .. Len(told) = {}
      /\ step \in [Thread -> {"idle", "store", "number", "add"}]
      /\ view \in [Thread -> Nat]
      /\ \A t \in Thread : step[t] = "idle"
  BY <1>1
<1>6. IsFiniteSet(members) /\ IsFiniteSet(Active) /\ Cardinality(Active) = 0
  BY <1>1, <1>2, <1>3
<1>7. number = Len(told) /\ Len(told) + 0 = hits /\ Final <= Len(told)
  BY <1>1, <1>4
<1>8. /\ \A i \in 1 .. Len(told) : told[i] <= i /\ told[i] = i
      /\ \A t \in Active : view[t] = Len(told)
      /\ \A t, u \in Active : t = u
      /\ \A m \in members : m <= Len(told)
  BY <1>1, <1>2, <1>5
<1>9. /\ items \in Nat /\ number \in Nat /\ hits \in Nat /\ raced \in BOOLEAN
      /\ members \subseteq Nat /\ Final = Len(told)
  BY <1>1, <1>4
<1>10. Len(told) + Cardinality(Active) = hits  BY <1>1, <1>6
<1>11. \A t \in Thread : step[t] \notin {"store", "number", "add"} /\ ~(step[t] # "idle")
  BY <1>5
<1> QED  BY <1>5, <1>6, <1>7, <1>8, <1>9, <1>10, <1>11 DEF RaceInv

LEMMA RaceStep == RaceInv /\ [Hammer]_hotVars => RaceInv'
<1> SUFFICES ASSUME RaceInv, [Hammer]_hotVars PROVE RaceInv'
  OBVIOUS
<1>1. CASE UNCHANGED <<subject, racyVars>>
  BY <1>1 DEF RaceInv, racyVars, Final, Active
<1>2. ASSUME NEW t \in Thread, Racy(t), UNCHANGED subject  PROVE RaceInv'
  BY <1>2, BeginStep, NumberStep, FinishStep DEF Racy
<1> QED  BY <1>1, <1>2 DEF Hammer, hotVars

\* Neither racy counter holds or returns more than was sent, and what it loses it
\* loses to calls that overlap.
THEOREM OnlyRacesLose == HotSpec => []LossIsARace
<1>1. HotInit => RaceInv
  BY RaceStart
<1>2. RaceInv /\ [Hammer]_hotVars => RaceInv'
  BY RaceStep
<1>3. RaceInv => LossIsARace
  <2> SUFFICES ASSUME RaceInv PROVE LossIsARace
    OBVIOUS
  <2>1. /\ Len(told) \in Nat /\ hits \in Nat /\ DOMAIN told = 1 .. Len(told)
        /\ \A i \in 1 .. Len(told) : told[i] \in Nat
        /\ Cardinality(Active) \in Nat /\ Len(told) + Cardinality(Active) = hits
        /\ Final <= Len(told) /\ \A i \in 1 .. Len(told) : told[i] <= i
        /\ IsFiniteSet(Active)
    BY FS_CardinalityType, ElementOfSeq DEF RaceInv
  <2>2. Final \in Nat
    BY FS_CardinalityType DEF Final, RaceInv
  <2>3. Len(told) <= hits  BY <2>1
  <2>4. Final <= hits  BY <2>1, <2>2, <2>3
  <2>5. \A i \in DOMAIN told : told[i] <= hits
    BY <2>1, <2>3
  <2>6. raced \/ \A i \in DOMAIN told : told[i] = i
    BY <2>1 DEF RaceInv
  <2>7. Active = {} => Len(told) = hits
    <3>1. ASSUME Active = {}  PROVE Len(told) = hits
      <4>1. Cardinality(Active) = 0  BY <2>1, <3>1, FS_EmptySet
      <4>2. Len(told) + Cardinality(Active) = hits /\ Len(told) \in Nat  BY <2>1
      <4> HIDE <3>1
      <4> QED  BY <4>1, <4>2
    <3> QED  BY <3>1
  <2>8. raced \/ Final = hits \/ \E t \in Thread : step[t] # "idle"
    BY <2>7 DEF RaceInv, Active
  <2> QED  BY <2>4, <2>5, <2>6, <2>8 DEF LossIsARace
<1> QED  BY <1>1, <1>2, <1>3, PTL DEF HotSpec

-----------------------------------------------------------------------------
\* The books of the gate: each decision is of one call, and a call is in a thread
\* until it is counted; each event is decided, about to be, or still to come from a
\* script that nobody waits for.
Busy == {t \in Thread : ~Free(t)}

Pending == {t \in Thread : outcome[t] # "none"}

Seers == {t \in Thread : outcome[t] = "seen"}

Orphans == {s \in wire : Orphan(s)}

Books ==
    /\ {seen, blindApprovals, blindDeclines, overBudget} \subseteq Nat
    /\ overBudget <= Stats.decisions
    /\ IsFiniteSet(Busy) /\ IsFiniteSet(Orphans)
    /\ Stats.decisions + Cardinality(Busy) <= calls /\ calls <= MaxCalls
    /\ seen + Cardinality(Seers) <= Len(log)
    /\ Len(log) + Cardinality(Orphans) <= Stats.decisions + Cardinality(Pending)

\* A thread is in one place, and waits for a script of its own.
WaitInv ==
    /\ waits \in [Thread -> SUBSET wire]
    /\ outcome \in [Thread -> {"none", "seen", "blind"}]
    /\ \A t \in Thread : waits[t] = {} \/ \E s \in wire : waits[t] = {s}
    /\ \A t, u \in Thread : \A s \in waits[t] : s \in waits[u] => t = u
    /\ \A t \in Thread : at[t] # "idle" \/ waits[t] # {} => outcome[t] = "none"
    /\ \A t \in Thread : at[t] # "idle" => waits[t] = {}
    /\ \A s \in wire : s.n < seq[s.by]

LastOK == last \in [approved : BOOLEAN, n : Nat, at : Nat, now : Nat]

Mark(t, S) == IF t \in S THEN 1 ELSE 0

\* A set that changes by at most t.
LEMMA SizeStep ==
    ASSUME NEW S, NEW R, NEW t, IsFiniteSet(S), R \ {t} = S \ {t}
    PROVE  /\ IsFiniteSet(R) /\ Cardinality(R) \in Nat /\ Cardinality(S) \in Nat
           /\ Cardinality(R) + Mark(t, S) = Cardinality(S) + Mark(t, R)
<1>1. CASE (t \in R) = (t \in S)
  <2>1. R = S  BY <1>1
  <2> QED  BY <2>1, FS_CardinalityType
<1>2. CASE t \in R /\ t \notin S
  <2>1. R = S \cup {t}  BY <1>2
  <2>2. IsFiniteSet(R) /\ Cardinality(R) = Cardinality(S) + 1
    BY <1>2, <2>1, FS_AddElement
  <2> QED  BY <1>2, <2>2, FS_CardinalityType DEF Mark
<1>3. CASE t \notin R /\ t \in S
  <2>1. R = S \ {t}  BY <1>3
  <2>2. IsFiniteSet(R) /\ Cardinality(R) = Cardinality(S) - 1
    BY <1>3, <2>1, FS_RemoveElement
  <2> QED  BY <1>3, <2>2, FS_CardinalityType DEF Mark
<1> QED  BY <1>1, <1>2, <1>3

\* The thread t goes on, and nobody else.
Alone(t) ==
    \A u \in Thread \ {t} :
        at'[u] = at[u] /\ waits'[u] = waits[u] /\ outcome'[u] = outcome[u]

\* The books balance after a step of t that takes c calls, records e events, leaves
\* o scripts behind and counts f decisions, g of them by a count.
LEMMA Balance ==
    ASSUME KeyInv, Books, NEW t \in Thread, Alone(t),
           NEW c \in {0, 1}, NEW e \in {0, 1}, NEW o \in {0, 1},
           NEW f \in {0, 1}, NEW g \in {0, 1}, NEW r,
           calls' = calls + c, calls' <= MaxCalls,
           Len(log') = Len(log) + e,
           Orphans' \subseteq Orphans \cup (IF o = 1 THEN {r} ELSE {}),
           {seen', blindApprovals', blindDeclines', overBudget'} \subseteq Nat,
           Stats'.decisions = Stats.decisions + f, seen' = seen + g,
           overBudget' <= overBudget + f,
           f + Mark(t, Busy') <= c + Mark(t, Busy),
           g + Mark(t, Seers') <= e + Mark(t, Seers),
           e + o + Mark(t, Pending) <= f + Mark(t, Pending')
    PROVE  Books'
<1>1. /\ Busy' \ {t} = Busy \ {t}
      /\ Pending' \ {t} = Pending \ {t}
      /\ Seers' \ {t} = Seers \ {t}
  BY DEF Alone, Busy, Free, Pending, Seers
<1>2. IsFiniteSet(Busy) /\ IsFiniteSet(Pending) /\ IsFiniteSet(Seers) /\ IsFiniteSet(Orphans)
  <2>1. Pending \subseteq Busy /\ Seers \subseteq Busy
    BY DEF Busy, Free, Pending, Seers
  <2> QED  BY <2>1, FS_Subset DEF Books
<1> DEFINE b == Cardinality(Busy)  p == Cardinality(Pending)  q == Cardinality(Seers)
           w == Cardinality(Orphans)
           bb == Cardinality(Busy')  pp == Cardinality(Pending')  qq == Cardinality(Seers')
           ww == Cardinality(Orphans')
           d == Stats.decisions  dd == Stats'.decisions  l == Len(log)  ll == Len(log')
<1>3. /\ IsFiniteSet(Busy') /\ b \in Nat /\ bb \in Nat
      /\ bb + Mark(t, Busy) = b + Mark(t, Busy')
  BY <1>1, <1>2, SizeStep
<1>4. p \in Nat /\ pp \in Nat /\ pp + Mark(t, Pending) = p + Mark(t, Pending')
  BY <1>1, <1>2, SizeStep
<1>5. q \in Nat /\ qq \in Nat /\ qq + Mark(t, Seers) = q + Mark(t, Seers')
  BY <1>1, <1>2, SizeStep
<1>6. IsFiniteSet(Orphans') /\ w \in Nat /\ ww \in Nat /\ ww <= w + o
  <2>1. CASE o = 0
    BY <1>2, <2>1, FS_Subset, FS_CardinalityType
  <2>2. CASE o = 1
    <3>1. /\ IsFiniteSet(Orphans \cup {r})
          /\ Cardinality(Orphans \cup {r}) <= w + 1
      <4>1. IsFiniteSet(Orphans \cup {r})  BY <1>2, FS_AddElement
      <4>2. /\ Cardinality(Orphans \cup {r}) \in Nat /\ w \in Nat
            /\ Cardinality(Orphans \cup {r}) + Mark(r, Orphans) = w + Mark(r, Orphans \cup {r})
        <5>1. (Orphans \cup {r}) \ {r} = Orphans \ {r}  OBVIOUS
        <5> QED  BY <1>2, <5>1, SizeStep
      <4>3. Mark(r, Orphans) \in {0, 1} /\ Mark(r, Orphans \cup {r}) = 1  BY DEF Mark
      <4> HIDE DEF w
      <4> QED  BY <4>1, <4>2, <4>3
    <3>2. Orphans' \subseteq Orphans \cup {r}  BY <2>2
    <3>3. IsFiniteSet(Orphans') /\ ww <= Cardinality(Orphans \cup {r})
      BY <3>1, <3>2, FS_Subset
    <3>4. w \in Nat /\ ww \in Nat /\ Cardinality(Orphans \cup {r}) \in Nat
      BY <1>2, <3>1, <3>3, FS_CardinalityType
    <3> HIDE DEF w, ww
    <3> QED  BY <2>2, <3>1, <3>3, <3>4
  <2> QED  BY <2>1, <2>2
<1>7. \A S : Mark(t, S) \in {0, 1}  BY DEF Mark
<1>8. /\ Mark(t, Busy) \in {0, 1} /\ Mark(t, Busy') \in {0, 1}
      /\ Mark(t, Pending) \in {0, 1} /\ Mark(t, Pending') \in {0, 1}
      /\ Mark(t, Seers) \in {0, 1} /\ Mark(t, Seers') \in {0, 1}
  BY <1>7
<1>9. /\ d \in Nat /\ l \in Nat /\ calls \in Nat /\ MaxCalls \in Nat /\ seen \in Nat
      /\ overBudget \in Nat /\ overBudget' \in Nat /\ overBudget <= d
      /\ d + b <= calls /\ seen + q <= l /\ l + w <= d + p
  <2>1. l \in Nat  BY EventTypes DEF KeyInv
  <2>2. calls \in Nat  BY DEF KeyInv, TypeOK
  <2>3. /\ {seen, blindApprovals, blindDeclines, overBudget, overBudget'} \subseteq Nat
        /\ overBudget <= d /\ d + b <= calls /\ seen + q <= l /\ l + w <= d + p
    BY DEF Books
  <2>4. d \in Nat
    <3>1. seen \in Nat /\ blindApprovals \in Nat /\ blindDeclines \in Nat  BY <2>3
    <3>2. d = seen + blindApprovals + blindDeclines  BY DEF Stats
    <3> HIDE DEF d
    <3> QED  BY <3>1, <3>2
  <2> HIDE DEF d, b, q, l, w, p
  <2> QED  BY <2>1, <2>2, <2>3, <2>4, VelocityAssumption
<1>10. dd = d + f /\ ll = l + e
  OBVIOUS
<1> DEFINE b0 == Mark(t, Busy)  b1 == Mark(t, Busy')  p0 == Mark(t, Pending)
           p1 == Mark(t, Pending')  q0 == Mark(t, Seers)  q1 == Mark(t, Seers')
<1> HIDE DEF b, p, q, w, bb, pp, qq, ww, d, dd, l, ll
<1>15. /\ b0 \in Int /\ b1 \in Int /\ p0 \in Int /\ p1 \in Int /\ q0 \in Int /\ q1 \in Int
  BY <1>8
<1>16. /\ bb + b0 = b + b1 /\ pp + p0 = p + p1 /\ qq + q0 = q + q1
  BY <1>3, <1>4, <1>5
<1>17. f + b1 <= c + b0 /\ g + q1 <= e + q0 /\ e + o + p0 <= f + p1
  OBVIOUS
<1>18. /\ b \in Int /\ bb \in Int /\ p \in Int /\ pp \in Int /\ q \in Int /\ qq \in Int
       /\ w \in Int /\ ww \in Int /\ d \in Int /\ l \in Int /\ calls \in Int /\ seen \in Int
  BY <1>3, <1>4, <1>5, <1>6, <1>9
<1> HIDE DEF b0, b1, p0, p1, q0, q1
<1>11. dd + bb <= calls'
  <2>1. (d + f) + bb <= calls + c  BY <1>9, <1>15, <1>16, <1>17, <1>18
  <2> QED  BY <1>10, <2>1
<1>12. seen' + qq <= ll
  <2>1. (seen + g) + qq <= l + e  BY <1>9, <1>15, <1>16, <1>17, <1>18
  <2> QED  BY <1>10, <2>1
<1>13. ll + ww <= dd + pp
  <2>1. (l + e) + ww <= (d + f) + pp  BY <1>6, <1>9, <1>15, <1>16, <1>17, <1>18
  <2> QED  BY <1>10, <2>1
<1>14. overBudget' <= dd  BY <1>9, <1>10
<1> QED
  BY <1>3, <1>6, <1>11, <1>12, <1>13, <1>14 DEF Books, bb, pp, qq, ww, dd, ll

\* An event makes the log longer by one.
LEMMA LongerLog ==
    ASSUME KeyInv, NEW e \in [now : Nat, at : Nat], log' = Append(log, e)
    PROVE  Len(log') = Len(log) + 1
<1>1. log \in Seq([now : Nat, at : Nat])  BY DEF KeyInv, TypeOK
<1> QED  BY <1>1

\* What a step changes where it changes nothing else.
LEMMA SameStats ==
    ASSUME Books, UNCHANGED statVars
    PROVE  /\ {seen', blindApprovals', blindDeclines', overBudget'} \subseteq Nat
           /\ Stats' = Stats /\ seen' = seen /\ overBudget' = overBudget
           /\ Stats.decisions \in Nat /\ seen \in Nat /\ overBudget \in Nat
<1>1. {seen, blindApprovals, blindDeclines, overBudget} \subseteq Nat
  BY DEF Books
<1>2. /\ seen' = seen /\ blindApprovals' = blindApprovals
      /\ blindDeclines' = blindDeclines /\ overBudget' = overBudget
  BY DEF statVars
<1>3. Stats' = Stats /\ Stats.decisions \in Nat
  BY <1>1, <1>2 DEF Stats
<1> QED  BY <1>1, <1>2, <1>3

\* A call begins, on its way through the counter or around it.
LEMMA CallStep ==
    ASSUME KeyInv, WaitInv, Books, NEW t \in Thread,
           CallSafe(t) \/ CallRedis(t) \/ CallOff(t)
    PROVE  WaitInv' /\ Books'
<1>1. /\ at \in [Thread -> {"idle", "lock", "trim", "pop", "add"}]
      /\ waits \in [Thread -> SUBSET wire]
      /\ outcome \in [Thread -> {"none", "seen", "blind"}]
      /\ seq \in [Instance -> Nat] /\ wire \subseteq [now : Nat, n : Nat, by : Instance]
      /\ calls \in Nat /\ MaxCalls \in Nat /\ Len(log) \in Nat
  <2>1. Len(log) \in Nat  BY EventTypes DEF KeyInv
  <2> QED  BY <2>1, VelocityAssumption DEF KeyInv, TypeOK, WaitInv
<1>2. /\ at[t] = "idle" /\ waits[t] = {} /\ outcome[t] = "none"
      /\ calls' = calls + 1 /\ calls' <= MaxCalls /\ Len(log') = Len(log)
      /\ UNCHANGED statVars
  <2>1. Free(t) /\ calls < MaxCalls /\ calls' = calls + 1 /\ log' = log /\ UNCHANGED statVars
    BY DEF CallSafe, CallLocal, CallRedis, SendScript, CallOff, gateVars
  <2> QED  BY <1>1, <2>1 DEF Free
<1>3. Mark(t, Busy) = 0 /\ Mark(t, Pending) = 0 /\ Mark(t, Seers) = 0
  BY <1>2 DEF Mark, Busy, Free, Pending, Seers
<1>4. CASE CallSafe(t)
  <2>1. /\ at' = [at EXCEPT ![t] = "lock"] /\ UNCHANGED <<waits, outcome, wire, seq>>
    BY <1>4 DEF CallSafe, CallLocal, gateVars, threadVars, redisVars
  <2>2. Alone(t) /\ at'[t] # "idle" /\ outcome'[t] = "none"
    BY <1>1, <1>2, <2>1 DEF Alone
  <2>3. WaitInv'
    <3>1. \A u \in Thread : at'[u] # "idle" => waits'[u] = {} /\ outcome'[u] = "none"
      BY <1>2, <2>1, <2>2 DEF WaitInv, Alone
    <3> QED  BY <2>1, <3>1 DEF WaitInv
  <2>4. Orphans' \subseteq Orphans  BY <2>1 DEF Orphans, Orphan
  <2>5. Mark(t, Busy') = 1 /\ Mark(t, Pending') = 0 /\ Mark(t, Seers') = 0
    BY <2>2 DEF Mark, Busy, Free, Pending, Seers
  <2>6. Books'
    BY <1>1, <1>2, <1>3, <2>2, <2>4, <2>5, SameStats, Balance
  <2> QED  BY <2>3, <2>6
<1>5. CASE CallRedis(t)
  <2>1. PICK i \in Instance, now \in RequestTimes :
            SendScript(i, now) /\ waits' = [waits EXCEPT ![t] = {Script(i, now)}]
    BY <1>5 DEF CallRedis
  <2> DEFINE s == Script(i, now)
  <2>2. /\ wire' = wire \cup {s} /\ seq' = [seq EXCEPT ![i] = @ + 1]
        /\ UNCHANGED <<at, outcome>>
    BY <1>5, <2>1 DEF CallRedis, SendScript, localVars
  <2>3. s.n = seq[i] /\ s.by = i  BY DEF Script
  <2> HIDE DEF s
  <2>4. s \notin wire
    <3>1. seq[i] \in Nat /\ (s \in wire => s.n < seq[s.by])  BY <1>1 DEF WaitInv
    <3> QED  BY <2>3, <3>1
  <2>5. /\ waits'[t] = {s} /\ \A u \in Thread \ {t} : waits'[u] = waits[u] /\ s \notin waits[u]
        /\ waits' \in [Thread -> SUBSET wire']
    BY <1>1, <2>1, <2>2, <2>4 DEF s
  <2>6. Alone(t) /\ outcome'[t] = "none" /\ at'[t] = "idle"
    BY <1>2, <2>2, <2>5 DEF Alone
  <2>7. WaitInv'
    <3>1. \A u \in Thread : waits'[u] = {} \/ \E r \in wire' : waits'[u] = {r}
      BY <2>2, <2>5 DEF WaitInv
    <3>2. \A u, v \in Thread : \A r \in waits'[u] : r \in waits'[v] => u = v
      BY <2>5 DEF WaitInv
    <3>3. \A u \in Thread : at'[u] # "idle" \/ waits'[u] # {} => outcome'[u] = "none"
      BY <1>2, <2>2, <2>5 DEF WaitInv
    <3>4. \A u \in Thread : at'[u] # "idle" => waits'[u] = {}
      BY <1>2, <2>2, <2>5 DEF WaitInv
    <3>5. \A r \in wire' : r.n < seq'[r.by]
      <4> SUFFICES ASSUME NEW r \in wire' PROVE r.n < seq'[r.by]  OBVIOUS
      <4>1. seq[i] \in Nat /\ seq'[i] = seq[i] + 1 /\ \A j \in Instance \ {i} : seq'[j] = seq[j]
        BY <1>1, <2>2
      <4>2. CASE r = s  BY <2>3, <4>1, <4>2
      <4>3. CASE r \in wire
        <5>1. r.n < seq[r.by] /\ r.by \in Instance /\ r.n \in Nat
          BY <1>1, <4>3 DEF WaitInv
        <5>2. CASE r.by = i  BY <4>1, <5>1, <5>2
        <5>3. CASE r.by # i  BY <4>1, <5>1, <5>3
        <5> QED  BY <5>2, <5>3
      <4> QED  BY <2>2, <4>2, <4>3
    <3>6. outcome' \in [Thread -> {"none", "seen", "blind"}]  BY <1>1, <2>2
    <3> QED  BY <2>5, <3>1, <3>2, <3>3, <3>4, <3>5, <3>6 DEF WaitInv
  <2>8. Orphans' \subseteq Orphans
    <3> SUFFICES ASSUME NEW r \in wire', \A u \in Thread : r \notin waits'[u]
                 PROVE  r \in wire /\ \A u \in Thread : r \notin waits[u]
      BY DEF Orphans, Orphan
    <3>1. r # s  BY <2>5
    <3> QED  BY <1>2, <2>2, <2>5, <3>1
  <2>9. Mark(t, Busy') = 1 /\ Mark(t, Pending') = 0 /\ Mark(t, Seers') = 0
    BY <2>5, <2>6 DEF Mark, Busy, Free, Pending, Seers
  <2>10. Books'
    BY <1>1, <1>2, <1>3, <2>6, <2>8, <2>9, SameStats, Balance
  <2> QED  BY <2>7, <2>10
<1>6. CASE CallOff(t)
  <2>1. /\ outcome' = [outcome EXCEPT ![t] = "blind"] /\ UNCHANGED <<at, waits, wire, seq>>
    BY <1>6 DEF CallOff, Outcome, localVars, redisVars
  <2>2. Alone(t) /\ outcome'[t] = "blind"
    BY <1>1, <2>1 DEF Alone
  <2>3. WaitInv'
    <3>1. \A u \in Thread : at'[u] # "idle" \/ waits'[u] # {} => outcome'[u] = "none"
      BY <1>2, <2>1, <2>2 DEF WaitInv, Alone
    <3>2. outcome' \in [Thread -> {"none", "seen", "blind"}]  BY <1>1, <2>1
    <3> QED  BY <2>1, <3>1, <3>2 DEF WaitInv
  <2>4. Orphans' \subseteq Orphans  BY <2>1 DEF Orphans, Orphan
  <2>5. Mark(t, Busy') = 1 /\ Mark(t, Pending') = 1 /\ Mark(t, Seers') = 0
    BY <2>2 DEF Mark, Busy, Free, Pending, Seers
  <2>6. Books'
    BY <1>1, <1>2, <1>3, <2>2, <2>4, <2>5, SameStats, Balance
  <2> QED  BY <2>3, <2>6
<1> QED  BY <1>4, <1>5, <1>6

\* What a thread waits for comes, or it does not: it knows its outcome.
LEMMA OutcomeStep ==
    ASSUME KeyInv, WaitInv, Books, NEW t \in Thread,
           ReturnSafe(t) \/ Reply(t) \/ LoseReply(t) \/ GiveUp(t)
    PROVE  WaitInv' /\ Books'
<1>1. /\ at \in [Thread -> {"idle", "lock", "trim", "pop", "add"}]
      /\ waits \in [Thread -> SUBSET wire]
      /\ outcome \in [Thread -> {"none", "seen", "blind"}]
      /\ calls \in Nat /\ MaxCalls \in Nat /\ calls <= MaxCalls /\ Len(log) \in Nat
  <2>1. Len(log) \in Nat  BY EventTypes DEF KeyInv
  <2> QED  BY <2>1, VelocityAssumption DEF KeyInv, TypeOK, WaitInv, Books
<1>2. UNCHANGED <<calls, statVars, seq>>
  BY DEF ReturnSafe, ReturnLocal, Reply, LoseReply, GiveUp, RunScript, gateVars, vars,
         redisVars
<1>3. at[t] = "add" \/ waits[t] # {}
  BY DEF ReturnSafe, ReturnLocal, Reply, LoseReply, GiveUp
<1>4. outcome[t] = "none" /\ (at[t] = "idle" \/ waits[t] = {})
  BY <1>3 DEF WaitInv
<1>5. Mark(t, Busy) = 1 /\ Mark(t, Pending) = 0 /\ Mark(t, Seers) = 0
  BY <1>3, <1>4 DEF Mark, Busy, Free, Pending, Seers
<1>6. CASE ReturnSafe(t)
  <2>1. /\ at' = [at EXCEPT ![t] = "idle"] /\ UNCHANGED <<waits, wire>>
        /\ outcome' = IF call[t].adds THEN [outcome EXCEPT ![t] = "seen"] ELSE outcome
    BY <1>6 DEF ReturnSafe, ReturnLocal, DecideByCount, Outcome, gateVars, threadVars, redisVars
  <2>2. /\ Alone(t) /\ at'[t] = "idle" /\ waits'[t] = {}
        /\ outcome'[t] = IF call[t].adds THEN "seen" ELSE "none"
    <3>1. at[t] = "add"  BY <1>6 DEF ReturnSafe, ReturnLocal
    <3>2. waits[t] = {}  BY <3>1 DEF WaitInv
    <3> QED  BY <1>1, <1>4, <2>1, <3>2 DEF Alone
  <2>3. WaitInv'
    <3>1. \A u \in Thread : at'[u] # "idle" \/ waits'[u] # {} => outcome'[u] = "none"
      BY <2>1, <2>2 DEF WaitInv, Alone
    <3>2. \A u \in Thread : at'[u] # "idle" => waits'[u] = {}
      BY <2>1, <2>2 DEF WaitInv, Alone
    <3>3. outcome' \in [Thread -> {"none", "seen", "blind"}]  BY <1>1, <2>1
    <3> QED  BY <1>2, <2>1, <3>1, <3>2, <3>3 DEF WaitInv
  <2>4. Orphans' \subseteq Orphans  BY <2>1 DEF Orphans, Orphan
  <2>5. CASE call[t].adds
    <3>1. Mark(t, Busy') = 1 /\ Mark(t, Pending') = 1 /\ Mark(t, Seers') = 1
      BY <2>2, <2>5 DEF Mark, Busy, Free, Pending, Seers
    <3>2. Len(log') = Len(log) + 1
      BY <1>6, <2>5, Recorded, LongerLog DEF ReturnSafe
    <3>3. Books'
      BY <1>1, <1>2, <1>5, <2>2, <2>4, <3>1, <3>2, SameStats, Balance
    <3> QED  BY <2>3, <3>3
  <2>6. CASE ~call[t].adds
    <3>1. Mark(t, Busy') = 0 /\ Mark(t, Pending') = 0 /\ Mark(t, Seers') = 0
      BY <2>2, <2>6 DEF Mark, Busy, Free, Pending, Seers
    <3>2. Len(log') = Len(log)
      BY <1>6, <2>6 DEF ReturnSafe, ReturnLocal
    <3>3. Books'
      BY <1>1, <1>2, <1>5, <2>2, <2>4, <3>1, <3>2, SameStats, Balance
    <3> QED  BY <2>3, <3>3
  <2> QED  BY <2>5, <2>6
<1>7. ASSUME NEW s \in wire, s \in waits[t], RunScript(s),
             waits' = [waits EXCEPT ![t] = {}],
             NEW what \in {"seen", "blind"}, Outcome(t, what)
      PROVE  WaitInv' /\ Books'
  <2>1. /\ wire' = wire \ {s} /\ UNCHANGED <<at, seq>>
        /\ outcome' = [outcome EXCEPT ![t] = what]
    BY <1>7 DEF RunScript, Outcome, localVars
  <2>2. /\ Alone(t) /\ at'[t] = "idle" /\ waits'[t] = {} /\ outcome'[t] = what
        /\ waits[t] = {s} /\ \A u \in Thread \ {t} : s \notin waits[u] /\ waits'[u] = waits[u]
    BY <1>1, <1>4, <1>7, <2>1 DEF Alone, WaitInv
  <2>3. WaitInv'
    <3>1. waits' \in [Thread -> SUBSET wire']
      <4>1. \A u \in Thread : waits'[u] \subseteq wire'  BY <1>1, <2>1, <2>2
      <4> QED  BY <1>1, <1>7, <4>1
    <3>2. \A u \in Thread : waits'[u] = {} \/ \E r \in wire' : waits'[u] = {r}
      BY <2>1, <2>2 DEF WaitInv
    <3>3. \A u, v \in Thread : \A r \in waits'[u] : r \in waits'[v] => u = v
      BY <2>2 DEF WaitInv
    <3>4. \A u \in Thread : at'[u] # "idle" \/ waits'[u] # {} => outcome'[u] = "none"
      BY <2>1, <2>2 DEF WaitInv, Alone
    <3>5. \A u \in Thread : at'[u] # "idle" => waits'[u] = {}
      BY <2>1, <2>2 DEF WaitInv, Alone
    <3>6. outcome' \in [Thread -> {"none", "seen", "blind"}]  BY <1>1, <2>1
    <3>7. \A r \in wire' : r.n < seq'[r.by]  BY <2>1 DEF WaitInv
    <3> QED  BY <3>1, <3>2, <3>3, <3>4, <3>5, <3>6, <3>7 DEF WaitInv
  <2>4. Orphans' \subseteq Orphans
    <3> SUFFICES ASSUME NEW r \in wire', \A u \in Thread : r \notin waits'[u]
                 PROVE  r \in wire /\ \A u \in Thread : r \notin waits[u]
      BY DEF Orphans, Orphan
    <3> QED  BY <2>1, <2>2
  <2>5. /\ Mark(t, Busy') = 1 /\ Mark(t, Pending') = 1 /\ Mark(t, Seers') \in {0, 1}
    BY <2>2 DEF Mark, Busy, Free, Pending, Seers
  <2>6. Len(log') = Len(log) + 1  BY <1>7, Recorded, LongerLog
  <2>7. 0 + Mark(t, Seers') <= 1 + Mark(t, Seers)  BY <1>5, <2>5
  <2>8. Books'
    BY <1>1, <1>2, <1>5, <2>2, <2>4, <2>5, <2>6, <2>7, SameStats, Balance
  <2> QED  BY <2>3, <2>8
<1>8. CASE Reply(t)
  BY <1>7, <1>8 DEF Reply, DecideByCount
<1>9. CASE LoseReply(t)
  BY <1>7, <1>9 DEF LoseReply
<1>10. CASE GiveUp(t)
  <2>1. /\ UNCHANGED <<at, wire, log>> /\ waits[t] # {}
        /\ waits' = [waits EXCEPT ![t] = {}] /\ outcome' = [outcome EXCEPT ![t] = "blind"]
    BY <1>10 DEF GiveUp, Outcome, vars, localVars, redisVars
  <2>2. PICK s \in wire : waits[t] = {s}  BY <2>1 DEF WaitInv
  <2>3. Alone(t) /\ waits'[t] = {} /\ outcome'[t] = "blind" /\ at'[t] = "idle"
    BY <1>1, <1>4, <2>1 DEF Alone
  <2>4. WaitInv'
    <3>1. waits' \in [Thread -> SUBSET wire']  BY <1>1, <2>1
    <3>2. \A u, v \in Thread : \A r \in waits'[u] : r \in waits'[v] => u = v
      BY <2>3 DEF WaitInv, Alone
    <3>3. \A u \in Thread : waits'[u] = {} \/ \E r \in wire' : waits'[u] = {r}
      BY <2>1, <2>3 DEF WaitInv, Alone
    <3>4. \A u \in Thread : at'[u] # "idle" \/ waits'[u] # {} => outcome'[u] = "none"
      BY <2>1, <2>3 DEF WaitInv, Alone
    <3>5. \A u \in Thread : at'[u] # "idle" => waits'[u] = {}
      BY <2>1, <2>3 DEF WaitInv, Alone
    <3>6. outcome' \in [Thread -> {"none", "seen", "blind"}]  BY <1>1, <2>1
    <3> QED  BY <1>2, <2>1, <3>1, <3>2, <3>3, <3>4, <3>5, <3>6 DEF WaitInv
  <2>5. Orphans' \subseteq Orphans \cup {s}
    <3> SUFFICES ASSUME NEW r \in wire', r # s, \A u \in Thread : r \notin waits'[u]
                 PROVE  r \in wire /\ \A u \in Thread : r \notin waits[u]
      BY DEF Orphans, Orphan
    <3> QED  BY <2>1, <2>2, <2>3 DEF Alone
  <2>6. Mark(t, Busy') = 1 /\ Mark(t, Pending') = 1 /\ Mark(t, Seers') = 0
    BY <2>3 DEF Mark, Busy, Free, Pending, Seers
  <2>7. Orphans' \subseteq Orphans \cup (IF 1 = 1 THEN {s} ELSE {})
    BY <2>5
  <2>8. /\ calls' = calls + 0 /\ calls' <= MaxCalls /\ Len(log') = Len(log) + 0
    BY <1>1, <1>2, <2>1
  <2>9. /\ {seen', blindApprovals', blindDeclines', overBudget'} \subseteq Nat
        /\ Stats'.decisions = Stats.decisions + 0 /\ seen' = seen + 0
        /\ overBudget' <= overBudget + 0
    <3>1. UNCHANGED statVars  BY <1>2
    <3> QED  BY <3>1, SameStats
  <2>10. /\ 0 + Mark(t, Busy') <= 0 + Mark(t, Busy)
         /\ 0 + Mark(t, Seers') <= 0 + Mark(t, Seers)
         /\ 0 + 1 + Mark(t, Pending) <= 0 + Mark(t, Pending')
    BY <1>5, <2>6
  <2>11. Books'
    BY <2>3, <2>7, <2>8, <2>9, <2>10, Balance
  <2> QED  BY <2>4, <2>11
<1> QED  BY <1>6, <1>8, <1>9, <1>10

\* An outcome is counted.
LEMMA CountedStep ==
    ASSUME KeyInv, WaitInv, Books, NEW t \in Thread, See(t) \/ GoBlind(t)
    PROVE  WaitInv' /\ Books'
<1>1. /\ waits \in [Thread -> SUBSET wire]
      /\ outcome \in [Thread -> {"none", "seen", "blind"}]
      /\ calls \in Nat /\ calls <= MaxCalls /\ Len(log) \in Nat
      /\ seen \in Nat /\ blindApprovals \in Nat /\ blindDeclines \in Nat /\ overBudget \in Nat
  <2>1. Len(log) \in Nat  BY EventTypes DEF KeyInv
  <2> QED  BY <2>1 DEF KeyInv, TypeOK, WaitInv, Books
<1>2. /\ outcome[t] # "none" /\ outcome' = [outcome EXCEPT ![t] = "none"]
      /\ overBudget' \in {overBudget, overBudget + 1}
      /\ UNCHANGED <<calls, log, at, wire, seq, waits>>
  BY DEF See, GoBlind, Finished, vars, localVars, redisVars
<1>3. at[t] = "idle" /\ waits[t] = {}
  BY <1>2 DEF WaitInv
<1>4. Alone(t) /\ outcome'[t] = "none" /\ at'[t] = "idle" /\ waits'[t] = {}
  BY <1>1, <1>2, <1>3 DEF Alone
<1>5. WaitInv'
  <2>1. \A u \in Thread : at'[u] # "idle" \/ waits'[u] # {} => outcome'[u] = "none"
    BY <1>2, <1>4 DEF WaitInv, Alone
  <2>2. outcome' \in [Thread -> {"none", "seen", "blind"}]  BY <1>1, <1>2
  <2> QED  BY <1>2, <2>1, <2>2 DEF WaitInv
<1>6. Orphans' \subseteq Orphans  BY <1>2 DEF Orphans, Orphan
<1>7. /\ Mark(t, Busy) = 1 /\ Mark(t, Pending) = 1
      /\ Mark(t, Busy') = 0 /\ Mark(t, Pending') = 0 /\ Mark(t, Seers') = 0
      /\ Mark(t, Seers) = IF outcome[t] = "seen" THEN 1 ELSE 0
  BY <1>2, <1>4 DEF Mark, Busy, Free, Pending, Seers
<1>8. ASSUME NEW g \in {0, 1}, g <= Mark(t, Seers),
             seen' = seen + g, Stats'.decisions = Stats.decisions + 1,
             blindApprovals' \in Nat, blindDeclines' \in Nat
      PROVE  Books'
  <2>1. /\ {seen', blindApprovals', blindDeclines', overBudget'} \subseteq Nat
        /\ overBudget' <= overBudget + 1
    BY <1>1, <1>2, <1>8
  <2>2. calls' = calls + 0 /\ calls' <= MaxCalls /\ Len(log') = Len(log) + 0
    BY <1>1, <1>2
  <2>3. /\ 1 + Mark(t, Busy') <= 0 + Mark(t, Busy)
        /\ g + Mark(t, Seers') <= 0 + Mark(t, Seers)
        /\ 0 + 0 + Mark(t, Pending) <= 1 + Mark(t, Pending')
    BY <1>7, <1>8
  <2> QED  BY <1>4, <1>6, <1>8, <2>1, <2>2, <2>3, Balance
<1>9. CASE See(t)
  <2>1. /\ outcome[t] = "seen" /\ seen' = seen + 1
        /\ blindApprovals' = blindApprovals /\ blindDeclines' = blindDeclines
    BY <1>9 DEF See
  <2>2. Stats'.decisions = Stats.decisions + 1  BY <1>1, <2>1 DEF Stats
  <2>3. Mark(t, Seers) = 1  BY <1>7, <2>1
  <2>4. Books'  BY <1>1, <1>8, <2>1, <2>2, <2>3
  <2> QED  BY <1>5, <2>4
<1>10. CASE GoBlind(t)
  <2>1. /\ seen' = seen
        /\ \/ blindApprovals' = blindApprovals + 1 /\ blindDeclines' = blindDeclines
           \/ blindDeclines' = blindDeclines + 1 /\ blindApprovals' = blindApprovals
    BY <1>10 DEF GoBlind
  <2>2. Stats'.decisions = Stats.decisions + 1  BY <1>1, <2>1 DEF Stats
  <2>3. blindApprovals' \in Nat /\ blindDeclines' \in Nat /\ seen' = seen + 0
    BY <1>1, <2>1
  <2>4. 0 <= Mark(t, Seers)  BY DEF Mark
  <2>5. Books'  BY <1>8, <2>2, <2>3, <2>4
  <2> QED  BY <1>5, <2>5
<1> QED  BY <1>9, <1>10

\* A script runs or is lost after its thread has given up.
LEMMA LateStep ==
    ASSUME KeyInv, WaitInv, Books, Late
    PROVE  WaitInv' /\ Books'
<1>1. PICK s \in wire : Orphan(s) /\ (RunScript(s) \/ LoseScript(s))
  BY DEF Late
<1>2. /\ wire' = wire \ {s} /\ UNCHANGED <<at, seq, waits, outcome, calls, statVars>>
  BY <1>1 DEF Late, RunScript, LoseScript, localVars, gateVars, threadVars
<1>3. Len(log') \in {Len(log), Len(log) + 1} /\ Len(log) \in Nat
  <2>1. CASE RunScript(s)
    BY <2>1, Recorded, LongerLog, EventTypes DEF KeyInv
  <2>2. CASE LoseScript(s)
    BY <2>2, EventTypes DEF LoseScript, KeyInv
  <2> QED  BY <1>1, <2>1, <2>2
<1>4. WaitInv'
  <2>1. \A u \in Thread : waits[u] \subseteq wire'  BY <1>1, <1>2 DEF Orphan, WaitInv
  <2>2. waits' \in [Thread -> SUBSET wire']  BY <1>2, <2>1 DEF WaitInv
  <2>3. \A u \in Thread : waits'[u] = {} \/ \E r \in wire' : waits'[u] = {r}
    BY <1>1, <1>2 DEF WaitInv, Orphan
  <2> QED  BY <1>2, <2>2, <2>3 DEF WaitInv
<1>5. Orphans' = Orphans \ {s} /\ s \in Orphans
  BY <1>1, <1>2 DEF Orphans, Orphan
<1>6. IsFiniteSet(Orphans') /\ Cardinality(Orphans') = Cardinality(Orphans) - 1
  BY <1>5, FS_RemoveElement DEF Books
<1>7. /\ Busy' = Busy /\ Pending' = Pending /\ Seers' = Seers
  BY <1>2 DEF Busy, Free, Pending, Seers
<1>8. /\ Cardinality(Orphans) \in Nat /\ Cardinality(Pending) \in Nat
      /\ Cardinality(Seers) \in Nat
  <2>1. Pending \subseteq Busy /\ Seers \subseteq Busy
    BY DEF Busy, Free, Pending, Seers
  <2>2. IsFiniteSet(Pending) /\ IsFiniteSet(Seers)
    BY <2>1, FS_Subset DEF Books
  <2> QED  BY <2>2, FS_CardinalityType DEF Books
<1>9. /\ {seen', blindApprovals', blindDeclines', overBudget'} \subseteq Nat
      /\ Stats' = Stats /\ seen' = seen /\ overBudget' = overBudget
      /\ Stats.decisions \in Nat /\ seen \in Nat
  BY <1>2, SameStats
<1> DEFINE w == Cardinality(Orphans)  p == Cardinality(Pending)  q == Cardinality(Seers)
           d == Stats.decisions  l == Len(log)  ll == Len(log')
<1>10. seen + q <= l /\ l + w <= d + p
  BY DEF Books
<1>11. seen + q <= ll /\ ll + (w - 1) <= d + p
  <2>1. w \in Nat /\ p \in Nat /\ q \in Nat /\ d \in Nat /\ l \in Nat /\ ll \in {l, l + 1}
    BY <1>3, <1>8, <1>9
  <2> HIDE DEF w, p, q, d, l, ll
  <2> QED  BY <1>9, <1>10, <2>1
<1>12. Books'
  BY <1>2, <1>6, <1>7, <1>9, <1>11 DEF Books
<1> QED  BY <1>4, <1>12

\* The books balance, whatever the gate does.
LEMMA GateStep ==
    ASSUME KeyInv, WaitInv, Books, GateNext
    PROVE  WaitInv' /\ Books'
<1>1. ASSUME UNCHANGED <<log, calls, statVars, waits, outcome, wire, seq>>,
             \A t \in Thread : (at'[t] = "idle") = (at[t] = "idle")
      PROVE  WaitInv' /\ Books'
  <2>1. Busy' = Busy /\ Pending' = Pending /\ Seers' = Seers /\ Orphans' = Orphans
    BY <1>1 DEF Busy, Free, Pending, Seers, Orphans, Orphan
  <2>2. WaitInv'  BY <1>1 DEF WaitInv
  <2>3. Books'  BY <1>1, <2>1, SameStats DEF Books
  <2> QED  BY <2>2, <2>3
<1>2. CASE Flip
  BY <1>1, <1>2 DEF Flip, vars, localVars, redisVars, threadVars
<1>3. CASE Within
  <2>1. at \in [Thread -> {"idle", "lock", "trim", "pop", "add"}]  BY DEF KeyInv, TypeOK
  <2>2. UNCHANGED <<statVars, waits, outcome>>
    BY <1>3 DEF Within, gateVars, threadVars
  <2>3. CASE Tick \/ RunCountOnly
    BY <1>1, <2>2, <2>3 DEF Tick, RunCountOnly, localVars, redisVars
  <2>4. ASSUME NEW t \in Thread, TakeLock(t) \/ LookAtHead(t) \/ PopHead(t)
        PROVE  WaitInv' /\ Books'
    <3>1. /\ at[t] # "idle" /\ UNCHANGED <<log, calls, wire, seq>>
          /\ \E next \in {"trim", "pop", "add"} : at' = [at EXCEPT ![t] = next]
      BY <2>4 DEF TakeLock, LookAtHead, PopHead, redisVars
    <3>2. \A u \in Thread : (at'[u] = "idle") = (at[u] = "idle")
      BY <2>1, <3>1
    <3> QED  BY <1>1, <2>2, <3>1, <3>2
  <2> QED  BY <1>3, <2>3, <2>4 DEF Within
<1>4. CASE Late
  BY <1>4, LateStep
<1>5. ASSUME NEW t \in Thread, Decide(t)  PROVE WaitInv' /\ Books'
  BY <1>5, CallStep, OutcomeStep, CountedStep DEF Decide
<1> QED  BY <1>2, <1>3, <1>4, <1>5 DEF GateNext

\* The other variables of the gate keep their types.
LEMMA LastTyped ==
    ASSUME KeyInv, KeyInv', LastOK, available \in BOOLEAN, [Hammer]_hotVars
    PROVE  LastOK' /\ available' \in BOOLEAN
<1>1. ByCount => LastOK'
  <2>1. /\ clock \in Nat /\ got' \in [count : Nat, now : Nat, clock : Nat]
        /\ log' \in Seq([now : Nat, at : Nat])
    BY DEF KeyInv, TypeOK
  <2>2. Len(log') \in Nat  BY <2>1
  <2>3. (got'.count <= Limit) \in BOOLEAN /\ got'.now \in Nat  BY <2>1
  <2> QED  BY <2>1, <2>2, <2>3 DEF ByCount, LastOK
<1>2. LastOK'
  BY <1>1, HammerDecides DEF LastOK
<1>3. available' \in {available, ~available}
  <2>1. CASE UNCHANGED gateVars  BY <2>1 DEF gateVars
  <2>2. CASE Flip \/ Within \/ Late
    BY <2>2 DEF Flip, Within, Late, gateVars
  <2>3. ASSUME NEW t \in Thread, Decide(t)  PROVE available' = available
    BY <2>3 DEF Decide, CallSafe, ReturnSafe, CallRedis, Reply, LoseReply, GiveUp, CallOff,
                See, GoBlind, Finished, gateVars
  <2> QED  BY <2>1, <2>2, <2>3 DEF Hammer, hotVars, GateNext
<1> QED  BY <1>2, <1>3

\* The bounds of the racy counters: a number is taken by a call that has begun,
\* and what a thread has read had returned by then.
Numbering == {t \in Thread : step[t] = "number"}

RaceBounds ==
    /\ hits <= MaxCalls /\ subject \in Subjects
    /\ IsFiniteSet(Numbering) /\ number + Cardinality(Numbering) <= hits
    /\ subject # "unsafe" => items = 0
    /\ members \subseteq 0 .. number
    /\ \A t \in Thread : view[t] <= Len(told)
    /\ \A i \in 1 .. Len(told) : 1 <= told[i]

LEMMA RaceBoundsStep ==
    ASSUME RaceInv, RaceBounds, NEW t \in Thread, Racy(t), UNCHANGED subject
    PROVE  RaceBounds'
<1> DEFINE m == Cardinality(Numbering)
<1>1. /\ items \in Nat /\ number \in Nat /\ hits \in Nat /\ MaxCalls \in Nat /\ m \in Nat
      /\ hits <= MaxCalls /\ number + m <= hits /\ IsFiniteSet(Numbering)
      /\ step \in [Thread -> {"idle", "store", "number", "add"}]
      /\ view \in [Thread -> Nat] /\ told \in Seq(Nat) /\ Len(told) \in Nat
      /\ members \subseteq 0 .. number /\ \A u \in Thread : view[u] <= Len(told)
      /\ \A i \in 1 .. Len(told) : told[i] \in Nat /\ 1 <= told[i]
  BY VelocityAssumption, FS_CardinalityType, ElementOfSeq DEF RaceInv, RaceBounds
<1>2. CASE UnsafeRead(t) \/ NaiveRead(t)
  <2>1. /\ step[t] = "idle" /\ UNCHANGED <<items, members, number, told>>
        /\ view' = [view EXCEPT ![t] = Final] /\ hits' = hits + 1 /\ hits < MaxCalls
        /\ step' = [step EXCEPT ![t] = "store"] \/ step' = [step EXCEPT ![t] = "number"]
    BY <1>2 DEF UnsafeRead, NaiveRead, Begin, Final
  <2>2. Final \in Nat /\ Final <= Len(told)
    <3>1. Cardinality(members) \in Nat  BY FS_CardinalityType DEF RaceInv
    <3> QED  BY <1>1, <3>1 DEF Final, RaceInv
  <2>3. IsFiniteSet(Numbering') /\ Cardinality(Numbering') \in {m, m + 1}
    <3>1. CASE step' = [step EXCEPT ![t] = "store"]
      <4>1. Numbering' = Numbering  BY <1>1, <2>1, <3>1 DEF Numbering
      <4> QED  BY <1>1, <4>1
    <3>2. CASE step' = [step EXCEPT ![t] = "number"]
      <4>1. Numbering' = Numbering \cup {t} /\ t \notin Numbering
        BY <1>1, <2>1, <3>2 DEF Numbering
      <4> QED  BY <1>1, <4>1, FS_AddElement
    <3> QED  BY <2>1, <3>1, <3>2
  <2>4. \A u \in Thread : view'[u] <= Len(told')  BY <1>1, <2>1, <2>2
  <2> HIDE DEF m
  <2>5. number' + Cardinality(Numbering') <= hits' /\ hits' <= MaxCalls
    BY <1>1, <2>1, <2>3
  <2> QED  BY <1>1, <2>1, <2>3, <2>4, <2>5 DEF RaceBounds
<1>3. CASE NaiveNumber(t)
  <2>1. /\ step[t] = "number" /\ step' = [step EXCEPT ![t] = "add"] /\ number' = number + 1
        /\ UNCHANGED <<items, members, view, told, hits>>
    BY <1>3 DEF NaiveNumber
  <2>2. Numbering' = Numbering \ {t} /\ t \in Numbering
    BY <1>1, <2>1 DEF Numbering
  <2>3. IsFiniteSet(Numbering') /\ Cardinality(Numbering') = m - 1
    BY <1>1, <2>2, FS_RemoveElement
  <2>4. members' \subseteq 0 .. number'  BY <1>1, <2>1
  <2> HIDE DEF m
  <2>5. number' + Cardinality(Numbering') <= hits'  BY <1>1, <2>1, <2>3
  <2> QED  BY <1>1, <2>1, <2>3, <2>4, <2>5 DEF RaceBounds
<1>4. CASE UnsafeStore(t) \/ NaiveAdd(t)
  <2>1. /\ step[t] \in {"store", "add"} /\ step' = [step EXCEPT ![t] = "idle"]
        /\ told' = Append(told, view[t] + 1) /\ UNCHANGED <<view, hits, number>>
        /\ members' \subseteq members \cup {number}
        /\ items' = items \/ step[t] = "store"
    BY <1>4 DEF UnsafeStore, NaiveAdd, Finish
  <2>2. Numbering' = Numbering  BY <1>1, <2>1 DEF Numbering
  <2>3. /\ Len(told') = Len(told) + 1 /\ view[t] \in Nat
        /\ \A i \in 1 .. Len(told) : told'[i] = told[i]
        /\ told'[Len(told) + 1] = view[t] + 1
        /\ \A i \in 1 .. Len(told') : i \in 1 .. Len(told) \/ i = Len(told) + 1
    BY <1>1, <2>1
  <2>4. \A i \in 1 .. Len(told') : 1 <= told'[i]
    <3> SUFFICES ASSUME NEW i \in 1 .. Len(told') PROVE 1 <= told'[i]  OBVIOUS
    <3>1. CASE i \in 1 .. Len(told)  BY <1>1, <2>3, <3>1
    <3>2. CASE i = Len(told) + 1  BY <2>3, <3>2
    <3> QED  BY <2>3, <3>1, <3>2
  <2>5. \A u \in Thread : view'[u] <= Len(told')  BY <1>1, <2>1, <2>3
  <2>6. subject' # "unsafe" => items' = 0  BY <2>1 DEF RaceInv, RaceBounds
  <2>7. members' \subseteq 0 .. number'  BY <1>1, <2>1
  <2> QED  BY <1>1, <2>1, <2>2, <2>4, <2>5, <2>6, <2>7 DEF RaceBounds
<1> QED  BY <1>2, <1>3, <1>4 DEF Racy

\* The hammer takes no more requests than it is to, and no count, number or
\* statistic goes beyond them.
HotInv ==
    /\ KeyInv /\ WaitInv /\ Books /\ LastOK /\ available \in BOOLEAN
    /\ RaceInv /\ RaceBounds

LEMMA HotInvStart == HotInit => HotInv
<1> SUFFICES ASSUME HotInit PROVE HotInv  OBVIOUS
<1>1. /\ Init /\ seen = 0 /\ blindApprovals = 0 /\ blindDeclines = 0 /\ overBudget = 0
      /\ calls = 0 /\ wire = {} /\ log = <<>> /\ \A t \in Thread : at[t] = "idle"
      /\ available = TRUE
      /\ waits = [t \in Thread |-> {}] /\ outcome = [t \in Thread |-> "none"]
      /\ last = [approved |-> TRUE, n |-> 0, at |-> 0, now |-> 0]
  BY DEF HotInit, GateInit, Init
<1>2. KeyInv /\ RaceInv  BY <1>1, InitKeyInv, RaceStart
<1>3. RaceBounds
  <2>1. /\ hits = 0 /\ number = 0 /\ items = 0 /\ members = {} /\ Len(told) = 0
        /\ told = <<>> /\ subject \in Subjects
        /\ \A t \in Thread : view[t] = 0 /\ step[t] = "idle"
    BY DEF HotInit
  <2>2. Numbering = {}  BY <2>1 DEF Numbering
  <2>3. IsFiniteSet(Numbering) /\ Cardinality(Numbering) = 0  BY <2>2, FS_EmptySet
  <2> QED  BY <2>1, <2>3, VelocityAssumption DEF RaceBounds
<1>4. WaitInv
  BY <1>1 DEF WaitInv
<1>5. Books
  <2>1. Busy = {} /\ Pending = {} /\ Seers = {} /\ Orphans = {}
    BY <1>1 DEF Busy, Free, Pending, Seers, Orphans
  <2>2. IsFiniteSet({}) /\ Cardinality({}) = 0  BY FS_EmptySet
  <2>3. Stats.decisions = 0 /\ Len(log) = 0  BY <1>1 DEF Stats
  <2> QED  BY <1>1, <2>1, <2>2, <2>3, VelocityAssumption DEF Books
<1>6. LastOK  BY <1>1 DEF LastOK
<1> QED  BY <1>1, <1>2, <1>3, <1>4, <1>5, <1>6 DEF HotInv

LEMMA HotInvStep == HotInv /\ [Hammer]_hotVars => HotInv'
<1> SUFFICES ASSUME HotInv, [Hammer]_hotVars PROVE HotInv'  OBVIOUS
<1>1. /\ KeyInv /\ WaitInv /\ Books /\ LastOK /\ available \in BOOLEAN
      /\ RaceInv /\ RaceBounds
  BY DEF HotInv
<1>2. KeyInv' /\ RaceInv'
  BY <1>1, StepKeyInv, HammerIsVelocity, RaceStep
<1>3. RaceBounds'
  <2>1. CASE UNCHANGED <<subject, racyVars>>
    BY <1>1, <2>1 DEF RaceBounds, Numbering, racyVars
  <2>2. ASSUME NEW t \in Thread, Racy(t), UNCHANGED subject  PROVE RaceBounds'
    BY <1>1, <2>2, RaceBoundsStep
  <2> QED  BY <2>1, <2>2 DEF Hammer, hotVars
<1>4. LastOK' /\ available' \in BOOLEAN
  BY <1>1, <1>2, LastTyped
<1>5. WaitInv' /\ Books'
  <2>1. CASE GateNext
    BY <1>1, <2>1, GateStep
  <2>2. CASE UNCHANGED <<vars, gateVars>>
    <3>1. UNCHANGED <<log, calls, statVars, waits, outcome, at, wire, seq>>
      BY <2>2 DEF vars, localVars, redisVars, gateVars, threadVars
    <3>2. Busy' = Busy /\ Pending' = Pending /\ Seers' = Seers /\ Orphans' = Orphans
      BY <3>1 DEF Busy, Free, Pending, Seers, Orphans, Orphan
    <3>3. WaitInv'  BY <1>1, <3>1 DEF WaitInv
    <3>4. Books'  BY <1>1, <3>1, <3>2, SameStats DEF Books
    <3> QED  BY <3>3, <3>4
  <2> QED  BY <2>1, <2>2 DEF Hammer, hotVars
<1> QED  BY <1>2, <1>3, <1>4, <1>5 DEF HotInv

\* Under the hammer of threads on one key every variable has its type, and the
\* statistics it prints add up: no decision is counted twice or left out.
THEOREM HammerTypes == HotSpec => []HotTypeOK
<1>1. HotInv => HotTypeOK
  <2> SUFFICES ASSUME HotInv PROVE HotTypeOK  OBVIOUS
  <2>1. MaxCalls \in Nat  BY VelocityAssumption
  <2>2. GateTypeOK
    <3>1. /\ seen \in Nat /\ blindApprovals \in Nat /\ blindDeclines \in Nat
          /\ overBudget \in Nat /\ overBudget <= seen + blindApprovals + blindDeclines
      BY DEF HotInv, Books, Stats
    <3>2. seen + blindApprovals + blindDeclines <= MaxCalls
      <4>1. /\ Cardinality(Busy) \in Nat /\ calls \in Nat /\ calls <= MaxCalls
            /\ (seen + blindApprovals + blindDeclines) + Cardinality(Busy) <= calls
        BY FS_CardinalityType DEF HotInv, Books, Stats, KeyInv, TypeOK
      <4> QED  BY <2>1, <3>1, <4>1
    <3>3. {seen, blindApprovals, blindDeclines, overBudget} \subseteq 0 .. MaxCalls
      BY <2>1, <3>1, <3>2
    <3> QED  BY <3>3 DEF HotInv, KeyInv, WaitInv, LastOK, GateTypeOK
  <2>3. /\ items \in Nat /\ number \in Nat /\ hits \in Nat /\ hits <= MaxCalls
        /\ number <= hits /\ Len(told) \in Nat /\ Len(told) <= hits
        /\ told \in Seq(Nat) /\ view \in [Thread -> Nat]
    <3>1. Cardinality(Numbering) \in Nat /\ Cardinality(Active) \in Nat
      BY FS_CardinalityType DEF HotInv, RaceInv, RaceBounds
    <3> QED  BY <3>1 DEF HotInv, RaceInv, RaceBounds
  <2>4. items \in 0 .. MaxCalls
    <3>1. CASE subject = "unsafe"  BY <2>1, <2>3, <3>1 DEF HotInv, RaceInv, Final
    <3>2. CASE subject # "unsafe"  BY <2>1, <3>2 DEF HotInv, RaceBounds
    <3> QED  BY <3>1, <3>2
  <2>5. {items, number, hits} \subseteq 0 .. MaxCalls  BY <2>1, <2>3, <2>4
  <2>6. members \subseteq 0 .. MaxCalls
    <3>1. members \subseteq 0 .. number  BY DEF HotInv, RaceBounds
    <3> QED  BY <2>1, <2>3, <3>1
  <2>7. view \in [Thread -> 0 .. MaxCalls]
    <3>1. \A t \in Thread : view[t] \in Nat /\ view[t] <= Len(told)
      BY <2>3 DEF HotInv, RaceBounds
    <3>2. \A t \in Thread : view[t] \in 0 .. MaxCalls  BY <2>1, <2>3, <3>1
    <3> QED  BY <2>3, <3>2
  <2>8. told \in Seq(1 .. MaxCalls)
    <3>1. \A i \in 1 .. Len(told) : told[i] \in 1 .. MaxCalls
      <4> SUFFICES ASSUME NEW i \in 1 .. Len(told) PROVE told[i] \in 1 .. MaxCalls
        OBVIOUS
      <4>1. told[i] \in Nat /\ told[i] <= i /\ 1 <= told[i]
        BY <2>3, ElementOfSeq DEF HotInv, RaceInv, RaceBounds
      <4> QED  BY <2>1, <2>3, <4>1
    <3> DEFINE S == 1 .. MaxCalls
    <3>2. \A i \in 1 .. Len(told) : told[i] \in S  BY <3>1
    <3> HIDE DEF S
    <3>3. told \in [1 .. Len(told) -> S]  BY <2>3, <3>2
    <3>4. told \in Seq(S)  BY <2>3, <3>3
    <3> QED  BY <3>4 DEF S
  <2> QED
    BY <2>2, <2>5, <2>6, <2>7, <2>8 DEF HotInv, RaceInv, RaceBounds, HotTypeOK
<1> QED  BY <1>1, HotInvStart, HotInvStep, PTL DEF HotSpec

\* An event that the counter holds although its reply was lost is in the statistics,
\* or about to be: it is a decision made blind, and nobody reads a rate of zero.
THEOREM BlindCovers == HotSpec => []BlindIsCounted
<1>1. HotInv => BlindIsCounted
  <2> SUFFICES ASSUME HotInv PROVE BlindIsCounted  OBVIOUS
  <2>1. Seers \subseteq Busy /\ Pending \subseteq Busy
    BY DEF Seers, Pending, Busy, Free
  <2>2. /\ Cardinality(Seers) \in Nat /\ Cardinality(Pending) \in Nat
        /\ Cardinality(Orphans) \in Nat
    BY <2>1, FS_Subset, FS_CardinalityType DEF HotInv, Books
  <2>3. /\ seen \in Nat /\ blindApprovals \in Nat /\ blindDeclines \in Nat
        /\ seen + Cardinality(Seers) <= Len(log)
        /\ Len(log) + Cardinality(Orphans) <= Stats.decisions + Cardinality(Pending)
    BY DEF HotInv, Books
  <2>4. Len(log) \in Nat  BY EventTypes DEF HotInv, KeyInv
  <2>5. Stats.decisions \in Nat /\ Stats.seen = seen  BY <2>3 DEF Stats
  <2>6. Stats.seen <= Len(log)  BY <2>2, <2>3, <2>4, <2>5
  <2>7. Len(log) <= Stats.decisions + Cardinality(Pending)
    BY <2>2, <2>3, <2>4, <2>5
  <2> QED  BY <2>6, <2>7 DEF BlindIsCounted, Pending
<1> QED  BY <1>1, HotInvStart, HotInvStep, PTL DEF HotSpec
=============================================================================
