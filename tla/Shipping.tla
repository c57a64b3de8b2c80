------------------------------ MODULE Shipping ------------------------------
(***************************************************************************)
(* gateway/shipping.py composed: the Shipper reads the segmented log, hands *)
(* unshipped records to a sink in batches, records the acknowledged ids in  *)
(* the Watermark file and then deletes whole segments below it, while the   *)
(* writer of SegmentedWal appends and rotates and crashes strike between    *)
(* any two steps.                                                           *)
(*                                                                          *)
(* A decision's id is the record itself.  `batch' is the batch being sent,  *)
(* and while it is sent one by one, what is left of it.                     *)
(***************************************************************************)
EXTENDS SegmentedWal

CONSTANTS
    Rejected,        \* records the sink rejects permanently (reject_ids)
    BatchSize,       \* records per send
    MaxAttempts,     \* max_attempts: sends of one batch before giving up
    MaxCorruptions   \* bound: how often the watermark file becomes unreadable

ASSUME ShippingAssumption ==
    /\ Rejected \subseteq Record
    /\ IsFiniteSet(Record)
    /\ BatchSize \in Nat \ {0}
    /\ MaxAttempts \in Nat \ {0}
    /\ MaxCorruptions \in Nat

VARIABLES
    wm,          \* what Watermark.read returns
    received,    \* the records the sink has accepted
    poison,      \* Shipper.poison, in memory
    pc,          \* where Shipper.run is
    scan,        \* segments still to visit in this walk over the log
    pending,     \* unshipped records not yet taken into a batch
    batch,       \* the batch being sent
    attempt,     \* failed sends of this batch
    acked,       \* the watermark as this pass last read it
    newly,       \* records acknowledged by this pass
    tactive,     \* the active segment as truncate read it
    garbled,     \* Watermark.read raises what it does not catch
    corruptions  \* counts corruptions of the watermark file

passVars == <<pc, scan, pending, batch, attempt, acked, newly, tactive>>
fileVars == <<garbled, corruptions>>
shipVars == <<wm, received, poison, passVars, fileVars>>
vars == <<walVars, shipVars>>

-----------------------------------------------------------------------------
Init ==
    /\ WalInit
    /\ wm = {} /\ received = {} /\ poison = {}
    /\ pc = "idle"
    /\ scan = {} /\ pending = {} /\ batch = {} /\ attempt = 0
    /\ acked = {} /\ newly = {} /\ tactive = 0
    /\ garbled = FALSE /\ corruptions = 0

-----------------------------------------------------------------------------
(* ship_once: what is there to ship? *)

\* unshipped: read the watermark, then list the segments.
StartPass ==
    /\ up /\ pc = "idle" /\ ~garbled
    /\ pc' = "scan"
    /\ acked' = wm
    /\ scan' = files
    /\ UNCHANGED <<walVars, wm, received, poison, pending, batch, attempt,
                   newly, tactive, fileVars>>

\* records: read the segments one after another.
ScanSegment ==
    /\ up /\ pc = "scan" /\ scan # {}
    /\ scan' = scan \ {Lowest(scan)}
    /\ pending' = pending \cup (ReadSegment(Lowest(scan)) \ acked)
    /\ UNCHANGED <<walVars, wm, received, poison, pc, batch, attempt, acked,
                   newly, tactive, fileVars>>

\* With nothing pending run goes on to truncate; otherwise the watermark is
\* read a second time.
BeginShipping ==
    /\ up /\ pc = "scan" /\ scan = {}
    /\ pending # {} => ~garbled
    /\ IF pending = {} THEN pc' = "truncate" /\ UNCHANGED acked
                       ELSE pc' = "next" /\ acked' = wm
    /\ UNCHANGED <<walVars, wm, received, poison, scan, pending, batch,
                   attempt, newly, tactive, fileVars>>

-----------------------------------------------------------------------------
(* ship_once: the batches, in the order of the log. *)

TakeBatch ==
    /\ up /\ pc = "next" /\ pending # {}
    /\ \E b \in SUBSET pending :
         /\ \/ Cardinality(b) = BatchSize
            \/ b = pending /\ Cardinality(b) < BatchSize
         /\ \A r \in b, s \in pending \ b : place[r] <= place[s]
         /\ batch' = b
         /\ pending' = pending \ b
    /\ attempt' = 0
    /\ pc' = "send"
    /\ UNCHANGED <<walVars, wm, received, poison, scan, acked, newly, tactive,
                   fileVars>>

\* The sink accepts the whole batch.
SendAccepted ==
    /\ up /\ pc = "send"
    /\ batch \cap Rejected = {}
    /\ received' = received \cup batch
    /\ newly' = newly \cup batch
    /\ batch' = {}
    /\ pc' = "next"
    /\ UNCHANGED <<walVars, wm, poison, scan, pending, attempt, acked, tactive,
                   fileVars>>

\* Mutant: a rejection condemns the whole batch.
SendRejectedDropsBatch ==
    /\ up /\ pc = "send"
    /\ batch \cap Rejected # {}
    /\ \E some \in SUBSET (batch \ Rejected) : received' = received \cup some
    /\ batch' = {}
    /\ pc' = "next"
    /\ UNCHANGED <<walVars, wm, poison, scan, pending, attempt, acked, newly,
                   tactive, fileVars>>

\* The sink meets a record it rejects, after accepting some of the others.
SendRejected ==
    /\ up /\ pc = "send"
    /\ batch \cap Rejected # {}
    /\ \E some \in SUBSET (batch \ Rejected) : received' = received \cup some
    /\ pc' = "single"
    /\ UNCHANGED <<walVars, wm, poison, scan, pending, batch, attempt, acked,
                   newly, tactive, fileVars>>

\* A SinkError: the sink is down, or it accepted the batch or a part of it
\* and the answer was lost.  After the last attempt the batch is left to the
\* next pass.
SendFailed ==
    /\ up /\ pc = "send"
    /\ \E some \in SUBSET (batch \ Rejected) : received' = received \cup some
    /\ IF attempt = MaxAttempts - 1
       THEN pc' = "next" /\ batch' = {} /\ attempt' = 0
       ELSE attempt' = attempt + 1 /\ UNCHANGED <<pc, batch>>
    /\ UNCHANGED <<walVars, wm, poison, scan, pending, acked, newly, tactive,
                   fileVars>>

\* One record of a rejected batch is done with.
Drop(r) ==
    /\ batch' = batch \ {r}
    /\ pc' = IF batch = {r} THEN "next" ELSE "single"

SingleAccepted(r) ==
    /\ up /\ pc = "single" /\ r \in batch \ Rejected
    /\ received' = received \cup {r}
    /\ newly' = newly \cup {r}
    /\ Drop(r)
    /\ UNCHANGED <<walVars, wm, poison, scan, pending, attempt, acked, tactive,
                   fileVars>>

\* Mutant: poison is not acknowledged and blocks its segment for good.
SingleRejectedBlocks(r) ==
    /\ up /\ pc = "single" /\ r \in batch \cap Rejected
    /\ poison' = poison \cup {r}
    /\ Drop(r)
    /\ UNCHANGED <<walVars, wm, received, scan, pending, attempt, acked, newly,
                   tactive, fileVars>>

\* A record rejected on its own is poison, and acknowledged all the same.
SingleRejected(r) ==
    /\ up /\ pc = "single" /\ r \in batch \cap Rejected
    /\ poison' = poison \cup {r}
    /\ newly' = newly \cup {r}
    /\ Drop(r)
    /\ UNCHANGED <<walVars, wm, received, scan, pending, attempt, acked,
                   tactive, fileVars>>

\* Mutant: a single send that failed counts as acknowledged.
SingleFailedAcks(r) ==
    /\ up /\ pc = "single" /\ r \in batch
    /\ received' \in {received, received \cup ({r} \ Rejected)}
    /\ newly' = newly \cup {r}
    /\ Drop(r)
    /\ UNCHANGED <<walVars, wm, poison, scan, pending, attempt, acked, tactive,
                   fileVars>>

\* A SinkError of a single send is passed over, whether or not it arrived.
SingleFailed(r) ==
    /\ up /\ pc = "single" /\ r \in batch
    /\ received' \in {received, received \cup ({r} \ Rejected)}
    /\ Drop(r)
    /\ UNCHANGED <<walVars, wm, poison, scan, pending, attempt, acked, newly,
                   tactive, fileVars>>

\* Watermark.write: os.replace is the step; what precedes it is in a
\* temporary file nobody reads.
Commit ==
    /\ up /\ pc = "next" /\ pending = {}
    /\ IF newly = {} THEN UNCHANGED <<wm, garbled>>
                     ELSE wm' = acked \cup newly /\ garbled' = FALSE
    /\ newly' = {}
    /\ pc' = "truncate"
    /\ UNCHANGED <<walVars, received, poison, scan, pending, batch, attempt,
                   acked, tactive, corruptions>>

-----------------------------------------------------------------------------
(* truncate *)

ReadAcked ==
    /\ up /\ pc = "truncate" /\ ~garbled
    /\ acked' = wm
    /\ pc' = "active"
    /\ UNCHANGED <<walVars, wm, received, poison, scan, pending, batch,
                   attempt, newly, tactive, fileVars>>

ReadActive ==
    /\ up /\ pc = "active"
    /\ tactive' = active
    /\ pc' = "list"
    /\ UNCHANGED <<walVars, wm, received, poison, scan, pending, batch,
                   attempt, acked, newly, fileVars>>

ListSegments ==
    /\ up /\ pc = "list"
    /\ scan' = files
    /\ pc' = "examine"
    /\ UNCHANGED <<walVars, wm, received, poison, pending, batch, attempt,
                   acked, newly, tactive, fileVars>>

\* Mutant: all() of no records is true, and an empty segment goes.
ReclaimableWhenEmpty(seg) ==
    /\ seg # tactive
    /\ ReadSegment(seg) \subseteq acked

\* Mutant: any acked record will do.
ReclaimableByOne(seg) ==
    /\ seg # tactive
    /\ ReadSegment(seg) \cap acked # {}

\* Mutant: the active segment is not skipped.
ReclaimableActive(seg) ==
    /\ ReadSegment(seg) # {}
    /\ ReadSegment(seg) \subseteq acked

\* Not the active segment, not one without records, and every record acked.
Reclaimable(seg) ==
    /\ seg # tactive
    /\ ReadSegment(seg) # {}
    /\ ReadSegment(seg) \subseteq acked

Examine ==
    /\ up /\ pc = "examine" /\ scan # {}
    /\ IF Reclaimable(Lowest(scan))
       THEN pc' = "unlink" /\ UNCHANGED scan
       ELSE scan' = scan \ {Lowest(scan)} /\ UNCHANGED pc
    /\ UNCHANGED <<walVars, wm, received, poison, pending, batch, attempt,
                   acked, newly, tactive, fileVars>>

UnlinkSegment ==
    /\ up /\ pc = "unlink"
    /\ Unlink(Lowest(scan))
    /\ scan' = scan \ {Lowest(scan)}
    /\ pc' = "examine"
    /\ UNCHANGED <<wm, received, poison, pending, batch, attempt, acked, newly,
                   tactive, fileVars>>

\* The locals of a finished or killed pass are gone.
ForgetPass ==
    /\ pc' = "idle"
    /\ scan' = {} /\ pending' = {} /\ batch' = {} /\ attempt' = 0
    /\ acked' = {} /\ newly' = {} /\ tactive' = 0

EndPass ==
    /\ up /\ pc = "examine" /\ scan = {}
    /\ ForgetPass
    /\ UNCHANGED <<walVars, wm, received, poison, fileVars>>

\* What Watermark.read does not catch ends the pass that reads: before a batch
\* is sent, or in truncate.  (A pass that ends as it begins has changed nothing.)
ReadRaises ==
    /\ up /\ garbled
    /\ \/ pc = "scan" /\ scan = {} /\ pending # {}
       \/ pc = "truncate"
    /\ ForgetPass
    /\ UNCHANGED <<walVars, wm, received, poison, fileVars>>

-----------------------------------------------------------------------------
(* The world around the shipper. *)

\* The writer and the shipper share nothing but the log.
WriterStep ==
    /\ (\E r \in Record : WriteLine(r)) \/ FinishAppend
    /\ UNCHANGED shipVars

\* With the process goes the shipper's memory, its poison list included.
StopStep ==
    /\ Close \/ ProcessCrash \/ MachineCrash
    /\ ForgetPass
    /\ poison' = {}
    /\ UNCHANGED <<wm, received, fileVars>>

ReopenStep == Reopen /\ UNCHANGED shipVars

\* Mutant: an unreadable watermark means that everything was shipped.
CorruptWatermarkTrusts ==
    /\ corruptions < MaxCorruptions
    /\ corruptions' = corruptions + 1
    /\ wm' = written
    /\ garbled' \in BOOLEAN
    /\ UNCHANGED <<walVars, received, poison, passVars>>

\* The watermark file is lost or damaged: read returns the empty set, or, where
\* what is left of the file is not UTF-8 or is JSON of another shape, raises.
CorruptWatermark ==
    /\ corruptions < MaxCorruptions
    /\ corruptions' = corruptions + 1
    /\ wm' = {}
    /\ garbled' \in BOOLEAN
    /\ UNCHANGED <<walVars, received, poison, passVars>>

ShipStep == StartPass \/ ScanSegment \/ BeginShipping \/ TakeBatch

SendStep ==
    \/ SendAccepted \/ SendRejected \/ SendFailed
    \/ \E r \in Record :
          SingleAccepted(r) \/ SingleRejected(r) \/ SingleFailed(r)

TruncateStep ==
    \/ ReadAcked \/ ReadActive \/ ListSegments
    \/ Examine \/ UnlinkSegment \/ EndPass \/ ReadRaises

ShipperStep == ShipStep \/ SendStep \/ Commit \/ TruncateStep

Next ==
    \/ WriterStep
    \/ StopStep
    \/ ReopenStep
    \/ CorruptWatermark
    \/ ShipperStep

Spec == Init /\ [][Next]_vars

(***************************************************************************)
(* Fairness: the caller opens the log again after a stop and calls run     *)
(* again and again; an append that began returns; a sink that is tried     *)
(* again and again answers in the end, on batches and on single records.   *)
(***************************************************************************)
Fairness ==
    /\ WF_vars(ReopenStep)
    /\ WF_vars(FinishAppend /\ UNCHANGED shipVars)
    /\ WF_vars(ShipperStep)
    /\ SF_vars(SendAccepted)
    /\ SF_vars(SendRejected)
    /\ \A r \in Record : SF_vars(SingleAccepted(r)) /\ SF_vars(SingleRejected(r))

FairSpec == Spec /\ Fairness

-----------------------------------------------------------------------------
\* The values the shipper's variables range over.
ShipTypeOK ==
    /\ wm \subseteq written /\ received \subseteq written
    /\ poison \subseteq written
    /\ pc \in {"idle", "scan", "next", "send", "single", "truncate", "active",
               "list", "examine", "unlink"}
    /\ scan \subseteq Nat \ {0} /\ IsFiniteSet(scan)
    /\ pending \subseteq written /\ batch \subseteq written
    /\ attempt \in 0..(MaxAttempts - 1)
    /\ acked \subseteq written /\ newly \subseteq written
    /\ tactive \in Nat
    /\ corruptions \in 0..MaxCorruptions
    /\ garbled \in BOOLEAN

TypeOK == WalTypeOK /\ ShipTypeOK

Settled == received \cup Rejected

\* The watermark never names a record the sink has neither accepted nor
\* refused for good, whatever is retried, lost, corrupted or restarted:
\* truncate deletes on the strength of it (shipping.py:180-187).
WatermarkSound == wm \subseteq Settled

\* A decision that was logged is on disk or settled, unless its line was
\* damaged or a machine crash took it before its fsync: shipping and
\* truncation, interleaved with the writer and with crashes, lose nothing.
NoDecisionLost ==
    \A r \in appended \ (glued \cup wiped) : r \in Readable \cup Settled

\* A segment is deleted only when every readable record in it is in a durable
\* watermark: "watermark first, delete second" (shipping.py docstring).  A
\* stop of the machine may also take an empty segment, and the watermark may
\* be corrupted after the fact.
WatermarkFirst ==
    [][up' => \A seg \in files \ files' :
                 /\ ReadSegment(seg) \subseteq Settled
                 /\ corruptions = 0 => ReadSegment(seg) \subseteq wm]_vars

\* A record a reader of the log could get back stays so until it is settled
\* or a machine crash takes it: the abstract promise, step by step.
Promise == INSTANCE AtLeastOnce WITH
    held <- Readable, exposed <- unsynced \ glued, delivered <- received
ImplementsPromise == Promise!Spec

\* The shipper unlinks closed segments only, so the log it works on behaves
\* as SegmentedWal says, a stale view of the active segment notwithstanding.
ImplementsWal == WalSpec

\* A watermark file that read cannot cope with is replaced: by the pass under way
\* when it acknowledges something, and after that by hand, since every pass raises.
Mended == []<>~garbled

\* Every logged record that is readable and not poison reaches the sink,
\* whatever poison shares its batches and whatever is retried.
EventuallyDelivered ==
    Mended => \A r \in Record \ Rejected :
                 (r \in appended) ~> (r \in received \cup glued \cup wiped)

\* A closed segment with a readable record in it is reclaimed in the end, the
\* poison in it notwithstanding: one bad record does not fill the disk
\* (shipping.py:251-254).  It may also become the active one again, when a
\* machine crash takes the empty segment that followed it.
EventuallyReclaimed ==
    Mended => \A seg \in 1..Cardinality(Record) :
                 (seg < active /\ ReadSegment(seg) # {}) ~>
                     (seg \notin files \/ seg = active)

=============================================================================
