------------------------------ MODULE AuditLog ------------------------------
(***************************************************************************)
(* The audit trail the service runs with: AuditWal and DurableAuditLog of  *)
(* gateway/wal.py, written to by the request threads of serve.py, read by  *)
(* the gauge each of them sets before it answers, and drained in the       *)
(* background as pipeline.py:130 has it.                                   *)
(*                                                                         *)
(* The lock guards the file handle and the counters and nothing else: the  *)
(* buffer, the drain and the readers of the file run beside it.  A record  *)
(* is a model value; `Identified' are those that carry a decision_id, as   *)
(* the records of run_wal.py do and none that the gateway writes.          *)
(***************************************************************************)
EXTENDS Integers, FiniteSets

CONSTANTS
    Record,       \* the decisions that may be audited
    Identified,   \* those whose record has the key decision_id
    Worker,       \* the request threads
    Nobody,       \* holder of a free lock
    NoRecord,     \* what an idle worker writes
    Policies,     \* the fsync policies a deployment may choose from
    BatchSize,    \* batch_size
    MaxStops      \* bound: how often the process stops or the machine fails

ASSUME AuditAssumption ==
    /\ Identified \subseteq Record
    /\ Nobody \notin Worker /\ NoRecord \notin Record
    /\ Policies \subseteq {"never", "batch", "always"}
    /\ BatchSize \in Nat \ {0}
    /\ MaxStops \in Nat

VARIABLES
    fsync,       \* the policy, fixed when the service is deployed
    file,        \* records whose line is in the file
    glued,       \* those whose line continues a torn one: json.loads fails
    torn,        \* the file ends in the middle of a line
    unsynced,    \* records in the page cache only
    up,          \* the process is running
    lock,        \* who holds _lock
    sinceSync,   \* _since_sync
    lastSync,    \* _last_sync: batch_ms ago or longer ("old"), or not
    buffer,      \* DurableAuditLog.buffer
    shipped,     \* DurableAuditLog.shipped
    sinkUp,      \* sink_up
    at,          \* where a worker is in write and what follows it
    rec,         \* the record it writes
    draining,    \* drain has extended shipped and not yet cleared the buffer
    answered,    \* history: records whose decision was returned
    inherited,   \* history: records unsynced when the file was reopened
    wiped,       \* history: records a machine crash took
    stops        \* counts process stops and machine failures

fileVars == <<file, glued, torn, unsynced>>
walVars == <<fsync, lock, sinceSync, lastSync>>
logVars == <<buffer, shipped, sinkUp, draining>>
workVars == <<at, rec>>
worldVars == <<up, answered, inherited, wiped, stops>>
vars == <<fileVars, walVars, logVars, workVars, worldVars>>

-----------------------------------------------------------------------------
\* records: the lines that parse.
Records == file \ glued

\* recover: a record without decision_id has the id None, and None is a
\* shipped id as soon as one such record was shipped.
Recover ==
    LET noneShipped == shipped \ Identified # {}
    IN  {r \in Records : IF r \in Identified THEN r \notin shipped
                                             ELSE ~noneShipped}

Init ==
    /\ fsync \in Policies
    /\ file = {} /\ glued = {} /\ torn = FALSE /\ unsynced = {}
    /\ up = TRUE
    /\ lock = Nobody
    /\ sinceSync = 0 /\ lastSync = "recent"
    /\ buffer = {} /\ shipped = {} /\ sinkUp = TRUE /\ draining = FALSE
    /\ at = [w \in Worker |-> "idle"]
    /\ rec = [w \in Worker |-> NoRecord]
    /\ answered = {} /\ inherited = {} /\ wiped = {}
    /\ stops = 0

-----------------------------------------------------------------------------
(* A request thread: write, then the gauge, then the answer. *)

GoTo(w, from, to) ==
    /\ up
    /\ at[w] = from
    /\ at' = [at EXCEPT ![w] = to]

Fresh == Record \ (file \cup wiped \cup {rec[w] : w \in Worker})

\* Mutant: the buffer first, the log second.
BeginBuffered(w) ==
    /\ GoTo(w, "idle", "append")
    /\ \E r \in Fresh :
          /\ rec' = [rec EXCEPT ![w] = r]
          /\ buffer' = buffer \cup {r}
    /\ UNCHANGED <<fileVars, walVars, shipped, sinkUp, draining, worldVars>>

\* A thread has a decision to log.
Begin(w) ==
    /\ GoTo(w, "idle", "append")
    /\ \E r \in Fresh : rec' = [rec EXCEPT ![w] = r]
    /\ UNCHANGED <<fileVars, walVars, logVars, worldVars>>

\* Mutant: the lock is not waited for.
WriteLineUnlocked(w) ==
    /\ GoTo(w, "append", "written")
    /\ lock' = w
    /\ file' = file \cup {rec[w]}
    /\ glued' = IF torn THEN glued \cup {rec[w]} ELSE glued
    /\ torn' = FALSE
    /\ unsynced' = unsynced \cup {rec[w]}
    /\ sinceSync' = sinceSync + 1
    /\ UNCHANGED <<fsync, lastSync, logVars, rec, worldVars>>

\* append, with the lock: the line goes to the OS and is counted.
WriteLine(w) ==
    /\ GoTo(w, "append", "written")
    /\ lock = Nobody
    /\ lock' = w
    /\ file' = file \cup {rec[w]}
    /\ glued' = IF torn THEN glued \cup {rec[w]} ELSE glued
    /\ torn' = FALSE
    /\ unsynced' = unsynced \cup {rec[w]}
    /\ sinceSync' = sinceSync + 1
    /\ UNCHANGED <<fsync, lastSync, logVars, rec, worldVars>>

\* Mutant: "always" is not told from "never".
SyncDueNotAlways ==
    fsync = "batch" /\ (sinceSync >= BatchSize \/ lastSync = "old")

\* _should_fsync
SyncDue ==
    \/ fsync = "always"
    \/ fsync = "batch" /\ (sinceSync >= BatchSize \/ lastSync = "old")

\* append, os.fsync
Sync(w) ==
    /\ GoTo(w, "written", "synced")
    /\ SyncDue
    /\ unsynced' = {}
    /\ UNCHANGED <<file, glued, torn, walVars, logVars, rec, worldVars>>

\* append without a sync: the lock is released.
SkipSync(w) ==
    /\ GoTo(w, "written", "buffer")
    /\ ~SyncDue
    /\ lock' = Nobody
    /\ UNCHANGED <<fileVars, fsync, sinceSync, lastSync, logVars, rec, worldVars>>

\* append, after the sync: the counters start again, the lock is released.
EndSync(w) ==
    /\ GoTo(w, "synced", "buffer")
    /\ sinceSync' = 0
    /\ lastSync' = "recent"
    /\ lock' = Nobody
    /\ UNCHANGED <<fileVars, fsync, logVars, rec, worldVars>>

\* DurableAuditLog.write, the async path.
Buffer(w) ==
    /\ GoTo(w, "buffer", "gauge")
    /\ buffer' = buffer \cup {rec[w]}
    /\ UNCHANGED <<fileVars, walVars, shipped, sinkUp, draining, rec, worldVars>>

\* authorize: the gauges are set, which changes nothing here, and the decision
\* is returned.
Answer(w) ==
    /\ GoTo(w, "gauge", "idle")
    /\ answered' = answered \cup {rec[w]}
    /\ rec' = [rec EXCEPT ![w] = NoRecord]
    /\ UNCHANGED <<fileVars, walVars, logVars, up, inherited, wiped, stops>>

-----------------------------------------------------------------------------
(* drain: extend and clear are two calls. *)

DrainExtend ==
    /\ up /\ sinkUp /\ ~draining
    /\ shipped' = shipped \cup buffer
    /\ draining' = TRUE
    /\ UNCHANGED <<fileVars, walVars, buffer, sinkUp, workVars, worldVars>>

DrainClear ==
    /\ up /\ draining
    /\ buffer' = {}
    /\ draining' = FALSE
    /\ UNCHANGED <<fileVars, walVars, shipped, sinkUp, workVars, worldVars>>

SinkFlips ==
    /\ up
    /\ sinkUp' = ~sinkUp
    /\ UNCHANGED <<fileVars, walVars, buffer, shipped, draining, workVars,
                   worldVars>>

-----------------------------------------------------------------------------
(* The world: time, stops and restarts. *)

TimePasses ==
    /\ up /\ lastSync = "recent"
    /\ lastSync' = "old"
    /\ UNCHANGED <<fileVars, fsync, lock, sinceSync, logVars, workVars,
                   worldVars>>

\* What was in memory goes with the process; `shipped' stands for the sink,
\* which outlives it.
Forget ==
    /\ up' = FALSE
    /\ stops < MaxStops
    /\ stops' = stops + 1
    /\ lock' = Nobody
    /\ buffer' = {} /\ draining' = FALSE
    /\ at' = [w \in Worker |-> "idle"]
    /\ rec' = [w \in Worker |-> NoRecord]
    /\ UNCHANGED <<fsync, sinceSync, lastSync, shipped, sinkUp, answered,
                   inherited>>

\* lifespan's end: the service has finished its requests and closes the log.
Close ==
    /\ up
    /\ \A w \in Worker : at[w] = "idle"
    /\ Forget
    /\ unsynced' = {}
    /\ UNCHANGED <<file, glued, torn, wiped>>

\* Some thread may be in the middle of its write.
Writing == lock = Nobody /\ \E w \in Worker : at[w] = "append"

\* The process is killed; a thread that writes may leave part of its line.
ProcessCrash ==
    /\ up
    /\ Forget
    /\ torn' \in IF Writing THEN {torn, TRUE} ELSE {torn}
    /\ UNCHANGED <<file, glued, unsynced, wiped>>

\* The machine fails: any unsynced line may be gone, or be there in part.
MachineCrash ==
    /\ Forget
    /\ \E lost \in SUBSET unsynced :
          /\ file' = file \ lost
          /\ wiped' = wiped \cup lost
          /\ torn' \in IF torn \/ Writing \/ lost # {} THEN BOOLEAN ELSE {FALSE}
    /\ unsynced' = {}
    /\ UNCHANGED glued

\* Mutant: the file is opened for writing instead of appending.
RestartTruncates ==
    /\ ~up
    /\ up' = TRUE
    /\ sinceSync' = 0 /\ lastSync' = "recent"
    /\ sinkUp' = TRUE
    /\ shipped' \in {{}, shipped}
    /\ inherited' = unsynced
    /\ file' = {} /\ torn' = FALSE
    /\ UNCHANGED <<glued, unsynced, fsync, lock, buffer, draining, workVars,
                   answered, wiped, stops>>

\* A new AuditWal on the old file, a new DurableAuditLog.  Whoever restarts it
\* may give it the list of what the sink has (tests/test_wal.py:48).
Restart ==
    /\ ~up
    /\ up' = TRUE
    /\ sinceSync' = 0 /\ lastSync' = "recent"
    /\ sinkUp' = TRUE
    /\ shipped' \in {{}, shipped}
    /\ inherited' = unsynced
    /\ UNCHANGED <<fileVars, fsync, lock, buffer, draining, workVars,
                   answered, wiped, stops>>

Work(w) ==
    \/ WriteLine(w) \/ Sync(w) \/ SkipSync(w) \/ EndSync(w)
    \/ Buffer(w) \/ Answer(w)

Next ==
    \/ \E w \in Worker : Begin(w) \/ Work(w)
    \/ DrainExtend \/ DrainClear \/ SinkFlips
    \/ TimePasses
    \/ Close \/ ProcessCrash \/ MachineCrash \/ Restart

Spec == Init /\ [][Next]_vars

-----------------------------------------------------------------------------
\* The values the audit trail's variables range over; the lock is held by the
\* thread that is inside append and by nobody else.
TypeOK ==
    /\ fsync \in Policies
    /\ file \subseteq Record /\ glued \subseteq Record /\ unsynced \subseteq Record
    /\ torn \in BOOLEAN /\ up \in BOOLEAN /\ sinkUp \in BOOLEAN
    /\ draining \in BOOLEAN
    /\ \A w \in Worker : at[w] \in {"written", "synced"} <=> lock = w
    /\ sinceSync \in Nat /\ lastSync \in {"recent", "old"}
    /\ buffer \cup shipped \cup answered \cup inherited \cup wiped \subseteq Record
    /\ at \in [Worker -> {"idle", "append", "written", "synced", "buffer", "gauge"}]
    /\ rec \in [Worker -> Record \cup {NoRecord}]
    /\ stops \in 0..MaxStops

\* "durable FIRST, then the async path" (wal.py:160-161): nothing is in the
\* buffer, at the sink or with a caller that has not had its line in the file.
BufferedIsLogged == buffer \cup shipped \cup answered \subseteq file \cup wiped

\* fsync=batch: whatever the threads do at once, fewer than one batch of the
\* records of this life wait for an fsync when no append is in progress; the
\* count of them is exact because the lock covers the fsync and the reset.
UnsyncedBounded ==
    fsync = "batch" /\ up /\ lock = Nobody =>
        Cardinality(unsynced \ inherited) < BatchSize

\* fsync=always: what a caller was told, and what the sink was sent, is on the
\* disk for good (wal.py:30 "survives a machine crash").
AnsweredIsDurable ==
    fsync = "always" =>
        (buffer \cup shipped \cup answered) \cap (unsynced \cup wiped) = {}

\* wal.py:140 of recover's query, "Records on disk that the remote sink has
\* not acknowledged".
RecoverIsExact == Recover = Records \ shipped
=============================================================================
