---------------------------- MODULE SegmentedWal ----------------------------
(***************************************************************************)
(* The segmented write-ahead log of gateway/shipping.py: an append-only    *)
(* log kept in numbered segment files, the writer that appends a record,   *)
(* fsyncs by policy and rotates, and what a process or machine crash and   *)
(* the reopening of the log do to it.                                      *)
(*                                                                         *)
(* A record is a model value; a segment is its number; a segment's bytes   *)
(* are the records placed in it, so its size is their number.              *)
(***************************************************************************)
EXTENDS Integers, FiniteSets

CONSTANTS
    Record,        \* the decisions that may ever be logged
    SegmentCap,    \* records that fill a segment (segment_bytes)
    SyncBatch,     \* batch_size: records per fsync under "batch"
    Fsync,         \* "never", "batch" or "always"
    MaxStops       \* bound: how often the process stops or the machine fails

ASSUME WalAssumption ==
    /\ SegmentCap \in Nat \ {0}
    /\ SyncBatch \in Nat \ {0}
    /\ Fsync \in {"never", "batch", "always"}
    /\ MaxStops \in Nat

VARIABLES
    written,    \* history: records whose whole line was handed to the OS
    appended,   \* history: records whose append returned to its caller
    wiped,      \* history: records a machine crash took with the page cache
    inflight,   \* the record between its flush and the return of append
    place,      \* the segment a record is in; 0 when it is in none
    glued,      \* records whose line continues a torn one: json.loads fails
    files,      \* the segments that exist in the directory
    active,     \* _seq: the segment the open handle appends to
    torn,       \* the active segment ends in the middle of a line
    up,         \* the process is running
    sinceSync,  \* _since_sync
    unsynced,   \* records in the page cache only
    stops       \* counts process stops and machine failures

walVars == <<written, appended, wiped, inflight, place, glued, files, active,
             torn, up, sinceSync, unsynced, stops>>

-----------------------------------------------------------------------------
(* What is on disk. *)

In(seg) == {r \in Record : place[r] = seg}

\* read_segment: the lines of a segment that parse.
ReadSegment(seg) == In(seg) \ glued

\* Every record a reader of the whole log can get back.
Readable == {r \in Record : place[r] # 0} \ glued

\* segments() sorted by name: the first and the last of a set of segments.
Lowest(segs)  == CHOOSE s \in segs : \A t \in segs : s <= t
Highest(segs) == CHOOSE s \in segs : \A t \in segs : t <= s

-----------------------------------------------------------------------------
WalInit ==
    /\ written = {} /\ appended = {} /\ wiped = {} /\ inflight = {}
    /\ place = [r \in Record |-> 0]
    /\ glued = {}
    /\ files = {1}
    /\ active = 1
    /\ torn = FALSE
    /\ up = TRUE
    /\ sinceSync = 0
    /\ unsynced = {}
    /\ stops = 0

(***************************************************************************)
(* The first half of append: one line reaches the OS and _since_sync       *)
(* counts it.  A line appended after a torn fragment continues that        *)
(* fragment.  A handle whose file was unlinked writes to nowhere.          *)
(***************************************************************************)
WriteLine(r) ==
    /\ up
    /\ inflight = {}
    /\ r \notin written
    /\ written' = written \cup {r}
    /\ inflight' = {r}
    /\ place' = [place EXCEPT ![r] = IF active \in files THEN active ELSE 0]
    /\ glued' = IF torn THEN glued \cup {r} ELSE glued
    /\ torn' = FALSE
    /\ sinceSync' = sinceSync + 1
    /\ unsynced' = unsynced \cup {r}
    /\ UNCHANGED <<appended, wiped, files, active, up, stops>>

\* Mutant: "always" is not told from "never".
SyncDueNotAlways == Fsync = "batch" /\ sinceSync >= SyncBatch

SyncDue ==
    \/ Fsync = "always"
    \/ Fsync = "batch" /\ sinceSync >= SyncBatch

\* fh.tell() >= segment_bytes
SegmentFull == Cardinality(In(active)) >= SegmentCap

\* _open_segment fsyncs what it closes; it does not reset _since_sync.
Rotate ==
    IF SegmentFull
    THEN active' = active + 1 /\ files' = files \cup {active + 1}
    ELSE UNCHANGED <<active, files>>

(***************************************************************************)
(* The second half of append: fsync by policy, rotate a full segment, and  *)
(* return to the caller.                                                   *)
(***************************************************************************)
FinishAppend ==
    /\ up
    /\ inflight # {}
    /\ appended' = appended \cup inflight
    /\ inflight' = {}
    /\ sinceSync' = IF SyncDue THEN 0 ELSE sinceSync
    /\ unsynced' = IF SyncDue \/ SegmentFull THEN {} ELSE unsynced
    /\ Rotate
    /\ UNCHANGED <<written, wiped, place, glued, torn, up, stops>>

\* close: an orderly shutdown fsyncs the handle it closes.
Close ==
    /\ up
    /\ inflight = {}
    /\ stops < MaxStops
    /\ stops' = stops + 1
    /\ up' = FALSE
    /\ unsynced' = {}
    /\ UNCHANGED <<written, appended, wiped, inflight, place, glued, files,
                   active, torn, sinceSync>>

\* The process is killed, between two appends, in the middle of writing a
\* line, or between the write and the return.  The OS keeps what it was given.
ProcessCrash ==
    /\ up
    /\ stops < MaxStops
    /\ stops' = stops + 1
    /\ up' = FALSE
    /\ inflight' = {}
    /\ torn' \in IF inflight = {} THEN {torn, TRUE} ELSE {torn}
    /\ UNCHANGED <<written, appended, wiped, place, glued, files, active,
                   sinceSync, unsynced>>

(***************************************************************************)
(* The machine fails, whether or not the process was running.  Any of the  *)
(* unsynced records may be gone.  The file may end in part of a line: what *)
(* is left of an earlier fragment, of a record that is gone, or of a line  *)
(* that was being written, which none is while a whole one is in flight.   *)
(* An active segment with nothing in it may not exist at all, because no   *)
(* fsync of it or of its directory recorded its creation.                  *)
(***************************************************************************)
MachineCrash ==
    /\ stops < MaxStops
    /\ stops' = stops + 1
    /\ up' = FALSE
    /\ inflight' = {}
    /\ \E lost \in SUBSET unsynced :
         /\ wiped' = wiped \cup lost
         /\ place' = [r \in Record |-> IF r \in lost THEN 0 ELSE place[r]]
         /\ torn' \in IF torn \/ lost # {} \/ (up /\ inflight = {})
                      THEN BOOLEAN ELSE {FALSE}
         /\ files' \in IF In(active) \subseteq lost /\ ~torn'
                       THEN {files, files \ {active}} ELSE {files}
    /\ unsynced' = {}
    /\ UNCHANGED <<written, appended, glued, active, sinceSync>>

\* __init__: reopen the highest segment in append mode, or begin with 1.
Reopen ==
    /\ ~up
    /\ up' = TRUE
    /\ active' = IF files = {} THEN 1 ELSE Highest(files)
    /\ files' = files \cup {active'}
    /\ sinceSync' = 0
    /\ UNCHANGED <<written, appended, wiped, inflight, place, glued, torn,
                   unsynced, stops>>

\* unlink of one segment, by the shipper.
Unlink(seg) ==
    /\ up
    /\ files' = files \ {seg}
    /\ place' = [r \in Record |-> IF place[r] = seg THEN 0 ELSE place[r]]
    /\ UNCHANGED <<written, appended, wiped, inflight, glued, active, torn, up,
                   sinceSync, unsynced, stops>>

-----------------------------------------------------------------------------
(***************************************************************************)
(* What the log asks of whoever reclaims it: only closed segments go.      *)
(***************************************************************************)
UnlinkClosed == \E seg \in files \ {active} : Unlink(seg)

WalNext ==
    \/ \E r \in Record : WriteLine(r)
    \/ FinishAppend
    \/ Close
    \/ ProcessCrash
    \/ MachineCrash
    \/ Reopen
    \/ UnlinkClosed

WalSpec == WalInit /\ [][WalNext]_walVars

-----------------------------------------------------------------------------
\* The values the log's variables range over.
WalDataOK ==
    /\ written \subseteq Record
    /\ appended \subseteq written
    /\ wiped \subseteq written
    /\ inflight = {} \/ \E r \in written : inflight = {r}
    /\ place \in [Record -> Nat]
    /\ glued \subseteq written
    /\ files \subseteq Nat \ {0} /\ IsFiniteSet(files)
    /\ active \in Nat \ {0}
    /\ sinceSync \in Nat
    /\ unsynced \subseteq written
    /\ stops \in 0..MaxStops

WalFlagsOK == torn \in BOOLEAN /\ up \in BOOLEAN

WalTypeOK == WalDataOK /\ WalFlagsOK

\* While the process runs, the handle it appends to names a file of the
\* directory, and no segment is newer than it: _seq and the names on disk
\* agree through rotations, crashes, reopenings and reclaimed segments.
ActiveIsNewest ==
    /\ up => active \in files
    /\ \A seg \in files : seg <= active

\* A record that may still be lost is in the segment the handle is open on:
\* the one fsync of rotation or close covers all of them.
UnsyncedInActive == \A r \in unsynced : place[r] = active

\* fsync=always: no record whose append returned is ever lost to a machine
\* crash (wal.py:30 "survives a machine crash").
AlwaysDurable == Fsync = "always" => appended \cap wiped = {}

\* fsync=batch: what a machine crash can take is bounded by one batch for
\* every life of the process, and not by one batch: reopening starts
\* _since_sync at 0 while records of earlier lives are still unsynced.
LossBound ==
    Fsync = "batch" => Cardinality(unsynced) <= (stops + 1) * SyncBatch

\* "A torn final line after a hard kill is the record that was mid-write, not
\* corruption of the log" (shipping.py:165-166): it costs no record but the one
\* being written, so one whose append has returned can be read.
AppendedIsReadable == appended \cap glued = {}
=============================================================================
