------------------------------ MODULE Velocity ------------------------------
(***************************************************************************)
(* The sliding windows behind the velocity rules, for one key: SafeCounter *)
(* of gateway/velocity.py, a deque under a lock shared by the threads of a *)
(* process, and RedisVelocity of gateway/redis_velocity.py, a sorted set   *)
(* that several processes update with scripts.  serve.py decides once      *)
(* which of the two it uses.                                               *)
(*                                                                         *)
(* A request carries the time it was made at, by the clock of its sender.  *)
(* serve.py takes any.  The clocks of the senders may run ahead of ours by *)
(* `lead', and a request may be up to MaxDelay behind the one furthest     *)
(* ahead when it is counted, so that later requests may be counted first.  *)
(***************************************************************************)
EXTENDS Integers, Sequences, FiniteSets

CONSTANTS
    Backends,  \* the counters serve.py chooses from: "local", "redis"
    Thread,    \* request threads that share a SafeCounter
    Instance,  \* gateway processes that share a Redis
    Window,    \* window_ms
    MaxDelay,  \* how far a request's time may be behind the clock furthest ahead
    MaxAhead,  \* how far the clock of a sender may be ahead
    MaxClock,  \* bound of the clock
    MaxCalls,  \* bound of the requests counted
    Nobody     \* the lock is free

ASSUME VelocityAssumption ==
    /\ Backends \subseteq {"local", "redis"}
    /\ Window \in Nat \ {0} /\ MaxDelay \in Nat /\ MaxAhead \in Nat
    /\ MaxClock \in Nat /\ MaxCalls \in Nat
    /\ Nobody \notin Thread

VARIABLES
    backend,  \* the counter in use
    lead,     \* how far the clocks of the senders are ahead
    clock,    \* time, for everybody
    calls,    \* requests made
    log,      \* history: the events recorded, [now, at]: made at, recorded at
    got,      \* history: the last count, [count, now, clock]
    lock,     \* SafeCounter._lock
    deque,    \* SafeCounter._data[key]
    at,       \* where a thread is in incr_and_count or count
    call,     \* what it was called for, [now, adds]
    seq,      \* RedisVelocity._seq of each instance
    wire,     \* scripts sent and not run, [now, n]
    zset,     \* members of the sorted set, <<score, n>>
    expires   \* when the key's TTL runs out

localVars == <<lock, deque, at, call>>
redisVars == <<seq, wire, zset, expires>>
vars == <<backend, lead, clock, calls, log, got, localVars, redisVars>>

NoCall == [now |-> 0, adds |-> FALSE]

Init ==
    /\ backend \in Backends /\ lead \in 0 .. MaxAhead
    /\ clock = 1 /\ calls = 0
    /\ log = <<>> /\ got = [count |-> 0, now |-> 0, clock |-> 0]
    /\ lock = Nobody /\ deque = <<>>
    /\ at = [t \in Thread |-> "idle"]
    /\ call = [t \in Thread |-> NoCall]
    /\ seq = [i \in Instance |-> 1]
    /\ wire = {} /\ zset = {} /\ expires = 0

-----------------------------------------------------------------------------
\* The time a request was made at, when it comes to the counter.
RequestTimes == {now \in 1 .. clock + lead : now + MaxDelay >= clock + lead}

\* Mutant: the event a whole window ago is still counted.
InWindowInclusive(time, now) == time >= now - Window

\* What the trim of an event made at now leaves.
InWindow(time, now) == time > now - Window

\* A count was returned.
Return(n, now) == got' = [count |-> n, now |-> now, clock |-> clock]

Tick ==
    /\ clock < MaxClock
    /\ clock' = clock + 1
    /\ UNCHANGED <<backend, lead, calls, log, got, localVars, redisVars>>

-----------------------------------------------------------------------------
\* incr_and_count or count is called in a process with a SafeCounter.
CallLocal(t) ==
    /\ backend = "local" /\ calls < MaxCalls
    /\ at[t] = "idle"
    /\ at' = [at EXCEPT ![t] = "lock"]
    /\ \E now \in RequestTimes, adds \in BOOLEAN :
          call' = [call EXCEPT ![t] = [now |-> now, adds |-> adds]]
    /\ calls' = calls + 1
    /\ UNCHANGED <<backend, lead, clock, log, got, lock, deque, redisVars>>

\* with self._lock
TakeLock(t) ==
    /\ at[t] = "lock" /\ lock = Nobody
    /\ lock' = t
    /\ at' = [at EXCEPT ![t] = "trim"]
    /\ UNCHANGED <<backend, lead, clock, calls, log, got, deque, call, redisVars>>

\* The head of the deque, and nothing behind it, is compared with the cutoff.
LookAtHead(t) ==
    /\ at[t] = "trim"
    /\ LET old == deque # <<>> /\ ~InWindow(Head(deque), call[t].now)
       IN  at' = [at EXCEPT ![t] = IF old THEN "pop" ELSE "add"]
    /\ UNCHANGED <<backend, lead, clock, calls, log, got, lock, deque, call, redisVars>>

PopHead(t) ==
    /\ at[t] = "pop"
    /\ deque' = SubSeq(deque, 2, Len(deque))
    /\ at' = [at EXCEPT ![t] = "trim"]
    /\ UNCHANGED <<backend, lead, clock, calls, log, got, lock, call, redisVars>>

\* The event is recorded, or only looked for, and the length is the count.
ReturnLocal(t) ==
    /\ at[t] = "add"
    /\ LET event == [now |-> call[t].now, at |-> clock]
       IN  IF call[t].adds
           THEN deque' = Append(deque, event.now) /\ log' = Append(log, event)
           ELSE UNCHANGED <<deque, log>>
    /\ Return(Len(deque'), call[t].now)
    /\ lock' = Nobody
    /\ at' = [at EXCEPT ![t] = "idle"]
    /\ call' = [call EXCEPT ![t] = NoCall]
    /\ UNCHANGED <<backend, lead, clock, calls, redisVars>>

-----------------------------------------------------------------------------
\* A thread of i makes the member and sends SLIDING_WINDOW_LUA.
Script(i, now) == [now |-> now, n |-> seq[i], by |-> i]

SendScript(i, now) ==
    /\ backend = "redis" /\ calls < MaxCalls
    /\ wire' = wire \cup {Script(i, now)}
    /\ seq' = [seq EXCEPT ![i] = @ + 1]
    /\ calls' = calls + 1
    /\ UNCHANGED <<backend, lead, clock, log, got, localVars, zset, expires>>

\* The members of a key whose TTL has not run out, less those the trim removes.
Trimmed(now) ==
    {m \in zset : clock < expires /\ InWindow(m[1], now)}

\* Mutant: the TTL is a step shorter than the window.
RunScriptShortTtl(s) ==
    /\ wire' = wire \ {s}
    /\ zset' = Trimmed(s.now) \cup {<<s.now, s.n>>}
    /\ expires' = clock + Window - 1
    /\ log' = Append(log, [now |-> s.now, at |-> clock])
    /\ Return(Cardinality(zset'), s.now)
    /\ UNCHANGED <<backend, lead, clock, calls, localVars, seq>>

\* Redis runs the script, in one step: trim, add, count, TTL.  The caller may
\* have timed out meanwhile.
RunScript(s) ==
    /\ wire' = wire \ {s}
    /\ zset' = Trimmed(s.now) \cup {<<s.now, s.n>>}
    /\ expires' = clock + Window
    /\ log' = Append(log, [now |-> s.now, at |-> clock])
    /\ Return(Cardinality(zset'), s.now)
    /\ UNCHANGED <<backend, lead, clock, calls, localVars, seq>>

\* The connection is refused or breaks: the script never runs.
LoseScript(s) ==
    /\ wire' = wire \ {s}
    /\ UNCHANGED <<backend, lead, clock, calls, log, got, localVars, seq, zset, expires>>

\* COUNT_ONLY_LUA: trim and count, no event and no TTL.  It was sent while the
\* counter was available, and may run when it no longer is.
RunCountOnly ==
    /\ backend = "redis"
    /\ \E now \in RequestTimes :
          zset' = Trimmed(now) /\ Return(Cardinality(zset'), now)
    /\ UNCHANGED <<backend, lead, clock, calls, log, localVars, seq, wire, expires>>

-----------------------------------------------------------------------------
Local(t) ==
    \/ CallLocal(t) \/ TakeLock(t)
    \/ LookAtHead(t) \/ PopHead(t) \/ ReturnLocal(t)

Redis ==
    \/ \E i \in Instance, now \in RequestTimes : SendScript(i, now)
    \/ \E s \in wire : RunScript(s) \/ LoseScript(s)
    \/ RunCountOnly

Next == Tick \/ (\E t \in Thread : Local(t)) \/ Redis

Spec == Init /\ [][Next]_vars

-----------------------------------------------------------------------------
\* The values the counters' variables range over.
TypeOK ==
    /\ backend \in Backends /\ lead \in 0 .. MaxAhead
    /\ clock \in Nat /\ calls \in Nat
    /\ log \in Seq([now : Nat, at : Nat])
    /\ got \in [count : Nat, now : Nat, clock : Nat]
    /\ lock \in Thread \cup {Nobody}
    /\ deque \in Seq(Nat)
    /\ at \in [Thread -> {"idle", "lock", "trim", "pop", "add"}]
    /\ call \in [Thread -> [now : Nat, adds : BOOLEAN]]
    /\ seq \in [Instance -> Nat]
    /\ wire \subseteq [now : Nat, n : Nat, by : Instance]
    /\ zset \subseteq Nat \X Nat
    /\ expires \in 0 .. clock + Window

\* A count never misses an event of the last window: neither a trim nor the
\* TTL, nor two threads trimming the same deque, nor scripts that run late or
\* in another order, take an event that any request could still have to count.
\* A sender whose clock is ahead trims, and is kept, by as much less.
RecentCounted ==
    Cardinality({i \in DOMAIN log : log[i].now > got.clock + lead - Window}) <= got.count

\* A count includes no event that is over.  The sorted set holds what was made
\* in the window of the request.  The deque is trimmed at the head only, so an
\* event made earlier may wait behind a younger one; but none is counted that
\* was recorded before the window began, by the clock furthest ahead.
NothingOldCounted ==
    LET time(e) == IF backend = "redis" THEN e.now ELSE e.at + lead
    IN  got.count <= Cardinality({i \in DOMAIN log : time(log[i]) > got.now - Window})

\* The TTL takes the key of an idle card away, and not before the last of its
\* events has left the window, but for as much as its sender's clock was ahead:
\* PEXPIRE counts from the server's time, the window from the sender's.
KeyOutlivesWindow == \A m \in zset : m[1] + Window <= expires + lead
=============================================================================
