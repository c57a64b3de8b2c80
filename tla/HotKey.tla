------------------------------- MODULE HotKey -------------------------------
(***************************************************************************)
(* Threads hammer one key, as run_redis_real.py and the exactness tests    *)
(* do, all of it inside one window: either an exact counter, behind the    *)
(* gate of VelocityGate, or one of the two racy counters kept as their     *)
(* negative control, UnsafeCounter of gateway/velocity.py and              *)
(* NaiveRedisVelocity of gateway/redis_velocity.py.                        *)
(***************************************************************************)
EXTENDS VelocityGate

CONSTANT Subjects   \* what may be hammered: "exact", "unsafe", "naive"

ASSUME HotKeyAssumption == Subjects \subseteq {"exact", "unsafe", "naive"}

VARIABLES
    subject,    \* the counter that is hammered
    items,      \* UnsafeCounter._data[key], how many
    members,    \* the sorted set of the naive counter, by _seq
    number,     \* NaiveRedisVelocity._seq
    step,       \* where a thread is in the racy incr_and_count
    view,       \* the count it has read
    told,       \* history: the counts returned
    hits,       \* history: racy calls begun
    raced       \* history: two racy calls have overlapped

racyVars == <<items, members, number, step, view, told, hits, raced>>
hotVars == <<vars, gateVars, subject, racyVars>>

HotInit ==
    /\ GateInit
    /\ subject \in Subjects
    /\ items = 0 /\ members = {} /\ number = 0
    /\ step = [t \in Thread |-> "idle"]
    /\ view = [t \in Thread |-> 0]
    /\ told = <<>> /\ hits = 0 /\ raced = FALSE

-----------------------------------------------------------------------------
\* A call begins, and the count is read.
Begin(t, count, next) ==
    /\ step[t] = "idle" /\ hits < MaxCalls
    /\ step' = [step EXCEPT ![t] = next]
    /\ view' = [view EXCEPT ![t] = count]
    /\ hits' = hits + 1
    /\ raced' = (raced \/ \E u \in Thread \ {t} : step[u] # "idle")

\* A call ends and returns one more than was read.
Finish(t, from) ==
    /\ step[t] = from
    /\ step' = [step EXCEPT ![t] = "idle"]
    /\ told' = Append(told, view[t] + 1)
    /\ UNCHANGED <<view, hits, raced>>

\* UnsafeCounter: the list of the deque ...
UnsafeRead(t) ==
    /\ subject = "unsafe"
    /\ Begin(t, items, "store")
    /\ UNCHANGED <<items, members, number, told>>

\* ... and the deque made of it and of the new event, which takes the place of
\* whatever was stored meanwhile.
UnsafeStore(t) ==
    /\ Finish(t, "store")
    /\ items' = view[t] + 1
    /\ UNCHANGED <<members, number>>

\* NaiveRedisVelocity: zcard ...
NaiveRead(t) ==
    /\ subject = "naive"
    /\ Begin(t, Cardinality(members), "number")
    /\ UNCHANGED <<items, members, number, told>>

\* ... the next number, and the gap in which on_race is called ...
NaiveNumber(t) ==
    /\ step[t] = "number"
    /\ step' = [step EXCEPT ![t] = "add"]
    /\ number' = number + 1
    /\ UNCHANGED <<items, members, view, told, hits, raced>>

\* Mutant: the member is the time and nothing else.
NaiveAddTime(t) ==
    /\ Finish(t, "add")
    /\ members' = members \cup {0}
    /\ UNCHANGED <<items, number>>

\* ... and zadd of a member that has the number there is by then.
NaiveAdd(t) ==
    /\ Finish(t, "add")
    /\ members' = members \cup {number}
    /\ UNCHANGED <<items, number>>

Racy(t) ==
    \/ UnsafeRead(t) \/ UnsafeStore(t)
    \/ NaiveRead(t) \/ NaiveNumber(t) \/ NaiveAdd(t)

\* The threads of the hammer.
Hammer ==
    \/ subject = "exact" /\ GateNext /\ UNCHANGED <<subject, racyVars>>
    \/ \E t \in Thread : Racy(t) /\ UNCHANGED <<vars, gateVars, subject>>

HotSpec == HotInit /\ [][Hammer]_hotVars

-----------------------------------------------------------------------------
\* What the key holds in the end, where `expected' is looked for.
Final == IF subject = "unsafe" THEN items ELSE Cardinality(members)

\* The values the variables range over.
HotTypeOK ==
    /\ GateTypeOK
    /\ subject \in Subjects
    /\ {items, number, hits} \subseteq 0 .. MaxCalls
    /\ members \subseteq 0 .. MaxCalls
    /\ step \in [Thread -> {"idle", "store", "number", "add"}]
    /\ view \in [Thread -> 0 .. MaxCalls]
    /\ told \in Seq(1 .. MaxCalls)
    /\ raced \in BOOLEAN

\* A racy counter "is merely low, never wrong-looking" (velocity.py:5): it
\* neither holds nor returns more than was sent, and what it loses it loses to a
\* race: "repeated values are the fingerprint of the lost update, and cannot
\* appear without" (tests/test_redis_velocity.py:84-85), so that nothing but
\* overlapping calls tells it from an exact counter.
LossIsARace ==
    /\ Final <= hits
    /\ \A i \in DOMAIN told : told[i] <= hits
    /\ raced \/ \A i \in DOMAIN told : told[i] = i
    /\ raced \/ Final = hits \/ \E t \in Thread : step[t] # "idle"
=============================================================================
