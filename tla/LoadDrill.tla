----------------------------- MODULE LoadDrill ------------------------------
(***************************************************************************)
(* The audit trail under load: the service's threads and its background    *)
(* drain at any time, or the drill of run_load.py, whose main thread joins *)
(* the workers of a phase, switches the sink off and on and drains.  Each  *)
(* decision ends with the unlocked count of its source in _finish.         *)
(*                                                                         *)
(* DurableAuditLog is the AuditLog of gateway/pipeline.py with the line in *)
(* the file before the buffer, so that the buffer and what was shipped     *)
(* stand for both; `lost' is what the plain one loses, and run_wal.py      *)
(* compares the two after a crash.                                         *)
(***************************************************************************)
EXTENDS AuditLog

CONSTANT Drivers   \* who sends the requests: "service", "drill"

Unread == -1    \* a thread has not read the count,
Stored == -2    \* or has stored it

ASSUME DrillAssumption == Drivers \subseteq {"service", "drill"}

VARIABLES
    driver,   \* one of them
    phase,    \* of the drill: "steady", "sink down", "restored", "drained"
    sent,     \* history: records the sink was given
    lost,     \* history: records that left the buffer otherwise
    counts,   \* source_counts, of one source
    tally     \* what a thread in _finish has read of it

drillVars == <<driver, phase, sent, lost, counts, tally>>
allVars == <<vars, drillVars>>

DrillInit ==
    /\ Init
    /\ driver \in Drivers /\ phase = "steady"
    /\ sent = {} /\ lost = {}
    /\ counts = 0 /\ tally = [w \in Worker |-> Unread]

-----------------------------------------------------------------------------
(* drive: a thread decides one request after the other. *)

Decide(w) ==
    /\ driver = "drill" => phase \in {"steady", "sink down"}
    /\ Begin(w)
    /\ UNCHANGED drillVars

Log(w) ==
    /\ \/ WriteLine(w) \/ Sync(w) \/ SkipSync(w) \/ EndSync(w)
       \/ Buffer(w)
    /\ UNCHANGED drillVars

\* source_counts.get(source, 0): a call, after which threads may switch.
ReadCount(w) ==
    /\ up /\ at[w] = "gauge" /\ tally[w] = Unread
    /\ tally' = [tally EXCEPT ![w] = counts]
    /\ UNCHANGED <<vars, driver, phase, sent, lost, counts>>

\* Mutant: the total is counted up, whatever was read, once more.
StoreCountTwice(w) ==
    /\ up /\ tally[w] \in Nat
    /\ counts' = tally[w] + 2
    /\ tally' = [tally EXCEPT ![w] = Stored]
    /\ UNCHANGED <<vars, driver, phase, sent, lost>>

StoreCount(w) ==
    /\ up /\ tally[w] \in Nat
    /\ counts' = tally[w] + 1
    /\ tally' = [tally EXCEPT ![w] = Stored]
    /\ UNCHANGED <<vars, driver, phase, sent, lost>>

Return(w) ==
    /\ tally[w] = Stored
    /\ Answer(w)
    /\ tally' = [tally EXCEPT ![w] = Unread]
    /\ UNCHANGED <<driver, phase, sent, lost, counts>>

-----------------------------------------------------------------------------
(* The sink and the drain, in the plain AuditLog too. *)

Extend ==
    /\ DrainExtend
    /\ sent' = sent \cup buffer
    /\ UNCHANGED <<driver, lost, counts, tally>>

\* A record that was buffered after extend is cleared without being shipped.
Clear ==
    /\ DrainClear
    /\ lost' = lost \cup (buffer \ sent)
    /\ UNCHANGED <<driver, sent, counts, tally>>

\* Nobody waits for anybody: the service, and what goes on around it.
ServiceSink ==
    /\ driver = "service"
    /\ \/ Extend \/ Clear
       \/ SinkFlips /\ UNCHANGED <<driver, sent, lost, counts, tally>>
    /\ UNCHANGED phase

\* Mutant: nobody joins the threads of the phase.
JoinedNever == TRUE

\* run_phase: the threads of the phase have been joined.
Joined == \A w \in Worker : at[w] = "idle"

\* The sink is switched off, and on again after a phase without it.
SinkDown ==
    /\ phase = "steady" /\ Joined
    /\ phase' = "sink down" /\ sinkUp /\ SinkFlips

SinkBack ==
    /\ phase = "sink down" /\ Joined
    /\ phase' = "restored" /\ ~sinkUp /\ SinkFlips

DrillSink ==
    /\ driver = "drill"
    /\ \/ (SinkDown \/ SinkBack) /\ UNCHANGED <<driver, sent, lost, counts, tally>>
       \/ phase = "restored" /\ Extend /\ UNCHANGED phase
       \/ phase = "restored" /\ Clear /\ phase' = "drained"

-----------------------------------------------------------------------------
\* The process ends, and with it what the plain log had in its buffer.
Crash ==
    /\ Close \/ ProcessCrash \/ MachineCrash
    /\ lost' = lost \cup (buffer \ sent)
    /\ counts' = 0 /\ tally' = [w \in Worker |-> Unread]
    /\ UNCHANGED <<driver, phase, sent>>

\* The log is opened again, and recover gives what was not shipped.
Recovery == (Restart \/ TimePasses) /\ UNCHANGED drillVars

DrillNext ==
    \/ \E w \in Worker :
          Decide(w) \/ Log(w) \/ ReadCount(w) \/ StoreCount(w) \/ Return(w)
    \/ ServiceSink \/ DrillSink
    \/ Crash \/ Recovery

DrillSpec == DrillInit /\ [][DrillNext]_allVars

-----------------------------------------------------------------------------
\* The values the drill's variables range over; only a thread that has logged
\* its decision counts it.
DrillTypeOK ==
    /\ TypeOK
    /\ driver \in Drivers
    /\ phase \in {"steady", "sink down", "restored", "drained"}
    /\ sent \cup lost \subseteq Record
    /\ counts \in 0 .. Cardinality(Record)
    /\ \A w \in Worker : tally[w] # Unread => at[w] = "gauge"

\* No decision that was returned, and none that the plain AuditLog loses to a
\* crash or to the gap between the two calls of drain, is gone for good: the file
\* has it, in this life and after any restart, unless its line was damaged or a
\* machine crash took it.  recover finds it there as long as what was shipped can
\* be told from it, that is, until a record without decision_id is shipped: the
\* gateway writes no other (pipeline.py:298-302), so that the service, which ships
\* and then fails to clear what came in between, learns of it after a restart,
\* when DurableAuditLog.shipped is empty again, and not before.
NothingUnaccounted ==
    LET owed == (answered \cup lost) \ (glued \cup wiped)
    IN  /\ owed \subseteq Records
        /\ shipped \ Identified = {} => owed \subseteq shipped \cup Recover

\* The drill of run_load.py joins before it drains: it loses nothing to drain,
\* every decision it was given is at the sink, and the completeness it prints,
\* what was shipped by what was counted, is at least the true one.
DrillComplete ==
    driver = "drill" /\ phase = "drained" /\ stops = 0 =>
        /\ lost = {}
        /\ answered = sent
        /\ counts <= Cardinality(sent)
=============================================================================
