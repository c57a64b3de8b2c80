--------------------------- MODULE ShippingProofs ---------------------------
(* Proofs about Shipping, for every set of records, every batch and segment *)
(* size and every bound on crashes and retries.                             *)
EXTENDS Shipping, SegmentedWalProofs

-----------------------------------------------------------------------------
(* The inductive invariant. *)

\* Everything the shipper believes acknowledged is settled.
AcksSound == wm \cup acked \cup newly \subseteq Settled

\* Nothing that reached the log is gone unless it is settled.
NothingLost ==
    \A r \in written \ (glued \cup wiped) : r \in Readable \cup Settled

\* A pass works on records that are still on disk, and on segments that exist.
PassOnDisk ==
    /\ pending \cup batch \subseteq Readable
    /\ scan \subseteq files

\* Where the pass may hold records, and that it dies with the process.
PassShape ==
    /\ pc \notin {"scan", "next", "send", "single"} => pending = {}
    /\ pc \notin {"send", "single"} => batch = {}
    /\ ~up => pc = "idle"

Truncating == pc \in {"list", "examine", "unlink"}

\* Records written after truncate read the active segment are not acked, so
\* a segment newer than that one never looks reclaimable.
LateIsUnacked ==
    Truncating => tactive <= active /\ \A r \in acked : place[r] <= tactive

\* The segment about to go is closed and settled.
VictimClosed ==
    pc = "unlink" => /\ scan # {}
                     /\ Lowest(scan) # active
                     /\ ReadSegment(Lowest(scan)) \subseteq acked

\* truncate decides by what the watermark file says.
AckedInFile ==
    corruptions = 0 /\ (Truncating \/ pc = "active") => acked \subseteq wm

Inv ==
    /\ WalInv
    /\ ShipTypeOK
    /\ AcksSound
    /\ NothingLost
    /\ PassOnDisk
    /\ PassShape
    /\ LateIsUnacked
    /\ VictimClosed
    /\ AckedInFile

\* The empty log and the idle shipper satisfy the invariant.
LEMMA InitInv == ASSUME Init PROVE Inv
<1> USE DEF Init
<1>1. WalInv
  BY WalInitInv
<1>2. ShipTypeOK
  <2>1. garbled \in BOOLEAN  BY Zenon
  <2> QED  BY <2>1, FS_EmptySet, ShippingAssumption DEF ShipTypeOK
<1>3. AcksSound /\ PassOnDisk /\ PassShape
  BY DEF AcksSound, PassOnDisk, PassShape, WalInit
<1>4. NothingLost
  BY DEF NothingLost, WalInit
<1>5. LateIsUnacked /\ VictimClosed /\ AckedInFile
  BY DEF LateIsUnacked, VictimClosed, AckedInFile, Truncating
<1> QED BY <1>1, <1>2, <1>3, <1>4, <1>5 DEF Inv

-----------------------------------------------------------------------------
(* What the log's actions do to the records that can be read back. *)

\* A written record can be read back, unless it continues a torn line.
LEMMA WriteLineReadable ==
    ASSUME WalInv, NEW r \in Record, WriteLine(r)
    PROVE  /\ r \notin Readable
           /\ \/ glued' = glued \cup {r} /\ Readable' = Readable
              \/ glued' = glued /\ Readable' = Readable \cup {r}
           /\ \A s \in Record \ {r} : place'[s] = place[s]
<1> USE DEF WalInv, WriteLine
<1>1. active \in files /\ active # 0
  BY DEF ActiveIsNewest, WalDataOK
<1>2. place[r] = 0
  BY DEF FreshIsNowhere
<1>3. r \notin glued
  BY DEF WalDataOK
<1>4. place' = [place EXCEPT ![r] = active] /\ place \in [Record -> Nat]
  BY <1>1 DEF WalDataOK
<1>5. glued' \in {glued, glued \cup {r}}
  OBVIOUS
<1> QED BY <1>1, <1>2, <1>3, <1>4, <1>5 DEF Readable

\* A machine failure takes unsynced records from what can be read back.
LEMMA MachineCrashReadable ==
    ASSUME WalInv, MachineCrash
    PROVE  \E lost \in SUBSET unsynced :
              /\ Readable' = Readable \ lost
              /\ wiped' = wiped \cup lost
<1>1. PICK lost \in SUBSET unsynced :
         /\ wiped' = wiped \cup lost
         /\ place' = [r \in Record |-> IF r \in lost THEN 0 ELSE place[r]]
  BY DEF MachineCrash
<1>2. glued' = glued
  BY DEF MachineCrash
<1> QED BY <1>1, <1>2 DEF Readable

\* unlink takes the records of its segment from what can be read back.
LEMMA UnlinkReadable ==
    ASSUME WalInv, NEW seg \in files, Unlink(seg)
    PROVE  Readable' = Readable \ ReadSegment(seg)
BY DEF Unlink, Readable, ReadSegment, In, WalInv, WalDataOK

-----------------------------------------------------------------------------
(* One lemma per action.  ShipInv is what an action of the shipper must     *)
(* preserve; the log's part of the invariant follows from StepIsWalStep.    *)

ShipInv ==
    /\ ShipTypeOK
    /\ AcksSound
    /\ NothingLost
    /\ PassOnDisk
    /\ PassShape
    /\ LateIsUnacked
    /\ VictimClosed
    /\ AckedInFile

\* An action that leaves the log alone changes none of these.
LEMMA LogUnchanged ==
    ASSUME UNCHANGED walVars
    PROVE  /\ UNCHANGED <<written, glued, wiped, place, files, active, up>>
           /\ Readable' = Readable
           /\ \A seg \in Nat : ReadSegment(seg)' = ReadSegment(seg)
BY DEF walVars, Readable, ReadSegment, In

\* ... and if the sink forgets nothing, nothing is lost.
LEMMA NothingLostKept ==
    ASSUME NothingLost, UNCHANGED walVars, received \subseteq received'
    PROVE  NothingLost' /\ Settled \subseteq Settled'
BY LogUnchanged DEF NothingLost, Settled

\* Reading the watermark and listing the segments keeps the invariant.
LEMMA StartPassInv == ASSUME Inv, StartPass PROVE ShipInv'
<1> USE LogUnchanged DEF Inv, StartPass, fileVars
<1>1. ShipTypeOK'
  BY DEF ShipTypeOK, WalInv, WalDataOK
<1>2. AcksSound' /\ NothingLost'
  BY NothingLostKept DEF AcksSound, Settled
<1>3. PassOnDisk' /\ PassShape'
  BY DEF PassOnDisk, PassShape
<1>4. LateIsUnacked' /\ VictimClosed' /\ AckedInFile'
  BY DEF LateIsUnacked, VictimClosed, AckedInFile, Truncating
<1> QED BY <1>1, <1>2, <1>3, <1>4 DEF ShipInv

\* Reading one segment keeps it: what is found pending is on disk.
LEMMA ScanSegmentInv == ASSUME Inv, ScanSegment PROVE ShipInv'
<1> USE LogUnchanged DEF Inv, ScanSegment, fileVars
<1>1. Lowest(scan) \in scan /\ Lowest(scan) \in files /\ Lowest(scan) \in Nat \ {0}
  BY LowestExists DEF ShipTypeOK, PassOnDisk
<1>2. ReadSegment(Lowest(scan)) \subseteq Readable
  BY <1>1 DEF ReadSegment, In, Readable
<1>3. Readable \subseteq written
  BY DEF Readable, WalInv, FreshIsNowhere
<1>4. ShipTypeOK'
  <2>1. IsFiniteSet(scan')
    BY FS_RemoveElement DEF ShipTypeOK
  <2> QED BY <1>2, <1>3, <2>1 DEF ShipTypeOK
<1>5. AcksSound' /\ NothingLost'
  BY NothingLostKept DEF AcksSound, Settled
<1>6. PassOnDisk' /\ PassShape'
  BY <1>2 DEF PassOnDisk, PassShape
<1>7. LateIsUnacked' /\ VictimClosed' /\ AckedInFile'
  BY DEF LateIsUnacked, VictimClosed, AckedInFile, Truncating
<1> QED BY <1>4, <1>5, <1>6, <1>7 DEF ShipInv

\* The second reading of the watermark keeps it.
LEMMA BeginShippingInv == ASSUME Inv, BeginShipping PROVE ShipInv'
<1> USE LogUnchanged DEF Inv, BeginShipping, fileVars
<1>1. ShipTypeOK'
  BY DEF ShipTypeOK
<1>2. AcksSound' /\ NothingLost'
  BY NothingLostKept DEF AcksSound, Settled
<1>3. PassOnDisk' /\ PassShape'
  BY DEF PassOnDisk, PassShape
<1>4. LateIsUnacked' /\ VictimClosed' /\ AckedInFile'
  BY DEF LateIsUnacked, VictimClosed, AckedInFile, Truncating
<1> QED BY <1>1, <1>2, <1>3, <1>4 DEF ShipInv

\* Cutting a batch keeps it.
LEMMA TakeBatchInv == ASSUME Inv, TakeBatch PROVE ShipInv'
<1> USE LogUnchanged DEF Inv, TakeBatch, fileVars
<1>1. ShipTypeOK'
  BY ShippingAssumption DEF ShipTypeOK
<1>2. AcksSound' /\ NothingLost'
  BY NothingLostKept DEF AcksSound, Settled
<1>3. PassOnDisk' /\ PassShape'
  BY DEF PassOnDisk, PassShape
<1>4. LateIsUnacked' /\ VictimClosed' /\ AckedInFile'
  BY DEF LateIsUnacked, VictimClosed, AckedInFile, Truncating
<1> QED BY <1>1, <1>2, <1>3, <1>4 DEF ShipInv

\* An accepted batch keeps it: what is acknowledged, the sink has.
LEMMA SendAcceptedInv == ASSUME Inv, SendAccepted PROVE ShipInv'
<1> USE LogUnchanged DEF Inv, SendAccepted, fileVars
<1>1. ShipTypeOK'
  BY DEF ShipTypeOK
<1>2. AcksSound' /\ NothingLost'
  BY NothingLostKept DEF AcksSound, Settled
<1>3. PassOnDisk' /\ PassShape'
  BY DEF PassOnDisk, PassShape
<1>4. LateIsUnacked' /\ VictimClosed' /\ AckedInFile'
  BY DEF LateIsUnacked, VictimClosed, AckedInFile, Truncating
<1> QED BY <1>1, <1>2, <1>3, <1>4 DEF ShipInv

\* A rejected batch keeps it, however much of it the sink took.
LEMMA SendRejectedInv == ASSUME Inv, SendRejected PROVE ShipInv'
<1> USE LogUnchanged DEF Inv, SendRejected, fileVars
<1>1. ShipTypeOK'
  BY DEF ShipTypeOK
<1>2. AcksSound' /\ NothingLost'
  BY NothingLostKept DEF AcksSound, Settled
<1>3. PassOnDisk' /\ PassShape'
  BY DEF PassOnDisk, PassShape
<1>4. LateIsUnacked' /\ VictimClosed' /\ AckedInFile'
  BY DEF LateIsUnacked, VictimClosed, AckedInFile, Truncating
<1> QED BY <1>1, <1>2, <1>3, <1>4 DEF ShipInv

\* A failed send keeps it: nothing is acknowledged.
LEMMA SendFailedInv == ASSUME Inv, SendFailed PROVE ShipInv'
<1> USE LogUnchanged DEF Inv, SendFailed, fileVars
<1>1. ShipTypeOK'
  BY ShippingAssumption DEF ShipTypeOK
<1>2. AcksSound' /\ NothingLost'
  BY NothingLostKept DEF AcksSound, Settled
<1>3. PassOnDisk' /\ PassShape'
  BY DEF PassOnDisk, PassShape
<1>4. LateIsUnacked' /\ VictimClosed' /\ AckedInFile'
  BY DEF LateIsUnacked, VictimClosed, AckedInFile, Truncating
<1> QED BY <1>1, <1>2, <1>3, <1>4 DEF ShipInv

\* Sending one by one keeps it: what is acknowledged is accepted or poison.
LEMMA SingleInv ==
    ASSUME Inv, NEW r \in Record,
           SingleAccepted(r) \/ SingleRejected(r) \/ SingleFailed(r)
    PROVE  ShipInv'
<1> USE LogUnchanged DEF Inv, SingleAccepted, SingleRejected, SingleFailed, fileVars
<1>1. /\ UNCHANGED <<walVars, wm, scan, pending, attempt, acked, tactive, fileVars>>
      /\ r \in batch /\ batch' = batch \ {r}
      /\ pc = "single"
      /\ pc' = IF batch = {r} THEN "next" ELSE "single"
      /\ received \subseteq received' /\ received' \subseteq received \cup batch
      /\ poison' \subseteq poison \cup batch
      /\ newly' \subseteq newly \cup batch
  BY DEF Drop
<1>2. newly' \subseteq Settled'
  BY DEF AcksSound, Settled
<1>3. ShipTypeOK'
  BY <1>1 DEF ShipTypeOK
<1>4. AcksSound' /\ NothingLost'
  BY <1>1, <1>2, NothingLostKept DEF AcksSound, Settled
<1>5. PassOnDisk' /\ PassShape'
  BY <1>1 DEF PassOnDisk, PassShape
<1>6. LateIsUnacked' /\ VictimClosed' /\ AckedInFile'
  BY <1>1 DEF LateIsUnacked, VictimClosed, AckedInFile, Truncating
<1> QED BY <1>3, <1>4, <1>5, <1>6 DEF ShipInv

\* Writing the watermark keeps it: every id in it is settled.
LEMMA CommitInv == ASSUME Inv, Commit PROVE ShipInv'
<1> USE LogUnchanged DEF Inv, Commit, fileVars
<1>1. ShipTypeOK'
  BY DEF ShipTypeOK
<1>2. AcksSound' /\ NothingLost'
  BY NothingLostKept DEF AcksSound, Settled
<1>3. PassOnDisk' /\ PassShape'
  BY DEF PassOnDisk, PassShape
<1>4. LateIsUnacked' /\ VictimClosed' /\ AckedInFile'
  BY DEF LateIsUnacked, VictimClosed, AckedInFile, Truncating
<1> QED BY <1>1, <1>2, <1>3, <1>4 DEF ShipInv

\* truncate's reading of the watermark keeps it.
LEMMA ReadAckedInv == ASSUME Inv, ReadAcked PROVE ShipInv'
<1> USE LogUnchanged DEF Inv, ReadAcked, fileVars
<1>1. ShipTypeOK'
  BY DEF ShipTypeOK
<1>2. AcksSound' /\ NothingLost'
  BY NothingLostKept DEF AcksSound, Settled
<1>3. PassOnDisk' /\ PassShape'
  BY DEF PassOnDisk, PassShape
<1>4. LateIsUnacked' /\ VictimClosed' /\ AckedInFile'
  BY DEF LateIsUnacked, VictimClosed, AckedInFile, Truncating
<1> QED BY <1>1, <1>2, <1>3, <1>4 DEF ShipInv

\* Reading the active segment keeps it: whatever is acked is on disk in that
\* segment or an older one.
LEMMA ReadActiveInv == ASSUME Inv, ReadActive PROVE ShipInv'
<1> USE LogUnchanged DEF Inv, ReadActive, fileVars
<1>1. ShipTypeOK'
  BY DEF ShipTypeOK, WalInv, WalDataOK
<1>2. AcksSound' /\ NothingLost'
  BY NothingLostKept DEF AcksSound, Settled
<1>3. PassOnDisk' /\ PassShape'
  BY DEF PassOnDisk, PassShape
<1>4. \A r \in Record : place[r] <= active
  BY DEF WalInv, WalDataOK, ActiveIsNewest, PlaceOnDisk
<1>5. LateIsUnacked'
  BY <1>4 DEF LateIsUnacked, ShipTypeOK, WalInv, WalDataOK
<1>6. VictimClosed' /\ AckedInFile'
  BY DEF VictimClosed, AckedInFile, Truncating
<1> QED BY <1>1, <1>2, <1>3, <1>5, <1>6 DEF ShipInv

\* Listing the segments after it keeps it, rotations in between or not.
LEMMA ListSegmentsInv == ASSUME Inv, ListSegments PROVE ShipInv'
<1> USE LogUnchanged DEF Inv, ListSegments, fileVars
<1>1. ShipTypeOK'
  BY DEF ShipTypeOK, WalInv, WalDataOK
<1>2. AcksSound' /\ NothingLost'
  BY NothingLostKept DEF AcksSound, Settled
<1>3. PassOnDisk' /\ PassShape'
  BY DEF PassOnDisk, PassShape
<1>4. LateIsUnacked' /\ VictimClosed' /\ AckedInFile'
  BY DEF LateIsUnacked, VictimClosed, AckedInFile, Truncating
<1> QED BY <1>1, <1>2, <1>3, <1>4 DEF ShipInv

\* The heart of truncate: a segment that is not the active segment it read,
\* and that has a record, and whose records are all acked, is older than the
\* active segment it read, so it is closed whatever has rotated since.
LEMMA ExamineInv == ASSUME Inv, Examine PROVE ShipInv'
<1> USE LogUnchanged DEF Inv, Examine, fileVars
<1>1. Lowest(scan) \in scan /\ Lowest(scan) \in files /\ Lowest(scan) \in Nat
  BY LowestExists DEF ShipTypeOK, PassOnDisk
<1>2. ShipTypeOK'
  <2>1. IsFiniteSet(scan')
    BY FS_RemoveElement DEF ShipTypeOK
  <2> QED BY <2>1 DEF ShipTypeOK
<1>3. AcksSound' /\ NothingLost'
  BY NothingLostKept DEF AcksSound, Settled
<1>4. PassOnDisk' /\ PassShape'
  BY DEF PassOnDisk, PassShape
<1>5. LateIsUnacked' /\ AckedInFile'
  BY DEF LateIsUnacked, AckedInFile, Truncating
<1>6. VictimClosed'
  <2>1. CASE Reclaimable(Lowest(scan))
    <3>1. PICK r \in ReadSegment(Lowest(scan)) : r \in acked
      BY <2>1 DEF Reclaimable
    <3>2. place[r] = Lowest(scan) /\ place[r] <= tactive /\ tactive <= active
      BY <3>1 DEF ReadSegment, In, LateIsUnacked, Truncating
    <3>3. Lowest(scan) # active
      BY <1>1, <2>1, <3>2 DEF Reclaimable, ShipTypeOK, WalInv, WalDataOK
    <3>4. scan' = scan /\ acked' = acked /\ active' = active
      BY <2>1
    <3>5. ReadSegment(Lowest(scan))' = ReadSegment(Lowest(scan))
      BY <3>4 DEF walVars, ReadSegment, In
    <3> QED BY <2>1, <3>3, <3>4, <3>5 DEF VictimClosed, Reclaimable
  <2>2. CASE ~Reclaimable(Lowest(scan))
    BY <2>2 DEF VictimClosed
  <2> QED BY <2>1, <2>2
<1> QED BY <1>2, <1>3, <1>4, <1>5, <1>6 DEF ShipInv

\* Unlinking a reclaimable segment keeps it: its records are settled.
LEMMA UnlinkSegmentInv == ASSUME Inv, UnlinkSegment PROVE ShipInv'
<1> USE DEF Inv, UnlinkSegment, fileVars
<1> DEFINE v == Lowest(scan)
<1>1. v \in scan /\ v \in files /\ v \in Nat /\ scan # {}
  BY LowestExists DEF ShipTypeOK, PassOnDisk, VictimClosed
<1>2. /\ Readable' = Readable \ ReadSegment(v)
      /\ UNCHANGED <<written, glued, wiped, active, up>>
      /\ files' = files \ {v}
  BY <1>1, UnlinkReadable DEF Unlink
<1>3. ReadSegment(v) \subseteq Settled
  BY DEF VictimClosed, AcksSound
<1>4. ShipTypeOK'
  <2>1. IsFiniteSet(scan')
    BY FS_RemoveElement DEF ShipTypeOK
  <2> QED BY <1>2, <2>1 DEF ShipTypeOK
<1>5. AcksSound' /\ NothingLost'
  BY <1>2, <1>3 DEF AcksSound, NothingLost, Settled
<1>6. PassOnDisk' /\ PassShape'
  BY <1>2 DEF PassOnDisk, PassShape
<1>7. LateIsUnacked'
  <2>1. \A r \in acked : r \in Record /\ place'[r] \in {0, place[r]}
    BY DEF Unlink, ShipTypeOK, WalInv, WalDataOK
  <2>2. tactive \in Nat
    BY DEF ShipTypeOK
  <2> QED BY <1>2, <2>1, <2>2 DEF LateIsUnacked, Truncating
<1>8. VictimClosed' /\ AckedInFile'
  BY DEF VictimClosed, AckedInFile, Truncating
<1> QED BY <1>4, <1>5, <1>6, <1>7, <1>8 DEF ShipInv

\* A pass that has ended or died holds nothing.
LEMMA ForgottenPass ==
    ASSUME ForgetPass
    PROVE  /\ pending' = {} /\ batch' = {} /\ scan' = {} /\ acked' = {}
           /\ newly' = {} /\ pc' = "idle" /\ attempt' = 0 /\ tactive' = 0
           /\ PassOnDisk' /\ PassShape'
           /\ LateIsUnacked' /\ VictimClosed' /\ AckedInFile'
BY DEF ForgetPass, PassOnDisk, PassShape, LateIsUnacked, VictimClosed,
   AckedInFile, Truncating

\* The end of a pass keeps it.
LEMMA EndPassInv == ASSUME Inv, EndPass PROVE ShipInv'
<1> USE LogUnchanged, ForgottenPass DEF Inv, EndPass, fileVars
<1>1. IsFiniteSet(scan')
  BY FS_EmptySet
<1>2. ShipTypeOK'
  BY <1>1, ShippingAssumption DEF ForgetPass, ShipTypeOK
<1>3. AcksSound' /\ NothingLost'
  BY NothingLostKept DEF AcksSound, Settled
<1> QED BY <1>2, <1>3 DEF ShipInv

\* So does a pass that cannot read the watermark.
LEMMA ReadRaisesInv == ASSUME Inv, ReadRaises PROVE ShipInv'
<1> USE LogUnchanged, ForgottenPass DEF Inv, ReadRaises, fileVars
<1>1. IsFiniteSet(scan')
  BY FS_EmptySet
<1>2. ShipTypeOK'
  BY <1>1, ShippingAssumption DEF ForgetPass, ShipTypeOK
<1>3. AcksSound' /\ NothingLost'
  BY NothingLostKept DEF AcksSound, Settled
<1> QED BY <1>2, <1>3 DEF ShipInv

\* A line written during a pass keeps it: the record is not acked.
LEMMA WriteLineShipInv ==
    ASSUME Inv, NEW r \in Record, WriteLine(r), UNCHANGED shipVars
    PROVE  ShipInv'
<1> USE DEF Inv, shipVars, passVars, fileVars
<1>1. /\ r \notin written /\ written' = written \cup {r}
      /\ UNCHANGED <<wiped, files, active, up>>
      /\ r \notin Readable /\ Readable \subseteq Readable'
      /\ glued \subseteq glued' /\ r \in Readable' \cup glued'
      /\ \A s \in Record \ {r} : place'[s] = place[s]
      /\ place'[r] = active
  BY WriteLineReadable DEF WriteLine, WalInv, WalDataOK, ActiveIsNewest
<1>2. ShipTypeOK'
  BY <1>1 DEF ShipTypeOK
<1>3. AcksSound' /\ NothingLost'
  BY <1>1 DEF AcksSound, NothingLost, Settled
<1>4. PassOnDisk' /\ PassShape'
  BY <1>1 DEF PassOnDisk, PassShape
<1>5. LateIsUnacked'
  <2>1. \A s \in acked : s \in Record /\ s # r
    BY <1>1 DEF ShipTypeOK, WalInv, WalDataOK
  <2> QED BY <1>1, <2>1 DEF LateIsUnacked, Truncating
<1>6. VictimClosed'
  <2> SUFFICES ASSUME pc = "unlink" PROVE VictimClosed'
    BY DEF VictimClosed
  <2>1. ReadSegment(Lowest(scan))' \subseteq ReadSegment(Lowest(scan))
    <3>1. r \notin In(Lowest(scan))'
      BY <1>1 DEF In, VictimClosed
    <3> QED BY <1>1, <3>1 DEF In, ReadSegment
  <2> QED BY <1>1, <2>1 DEF VictimClosed
<1>7. AckedInFile'
  BY DEF AckedInFile, Truncating
<1> QED BY <1>2, <1>3, <1>4, <1>5, <1>6, <1>7 DEF ShipInv

\* A rotation during a pass keeps it: the active segment only grows.
LEMMA FinishAppendShipInv ==
    ASSUME Inv, FinishAppend, UNCHANGED shipVars
    PROVE  ShipInv'
<1> USE DEF Inv, shipVars, passVars, fileVars
<1>1. /\ UNCHANGED <<written, glued, wiped, place, up>>
      /\ Readable' = Readable
      /\ files \subseteq files'
      /\ active' \in {active, active + 1}
  BY DEF FinishAppend, Rotate, Readable
<1>2. active \in Nat /\ \A seg \in scan : seg <= active
  BY DEF WalInv, WalDataOK, ActiveIsNewest, PassOnDisk
<1>3. ShipTypeOK'
  BY <1>1 DEF ShipTypeOK
<1>4. AcksSound' /\ NothingLost'
  BY <1>1 DEF AcksSound, NothingLost, Settled
<1>5. PassOnDisk' /\ PassShape'
  BY <1>1 DEF PassOnDisk, PassShape
<1>6. LateIsUnacked'
  BY <1>1, <1>2 DEF LateIsUnacked, Truncating, ShipTypeOK
<1>7. VictimClosed'
  <2> SUFFICES ASSUME pc = "unlink" PROVE VictimClosed'
    BY DEF VictimClosed
  <2>1. Lowest(scan) \in scan
    BY LowestExists DEF ShipTypeOK, VictimClosed
  <2>2. Lowest(scan) # active'
    BY <1>1, <1>2, <2>1 DEF VictimClosed, ShipTypeOK
  <2>3. ReadSegment(Lowest(scan))' = ReadSegment(Lowest(scan))
    BY <1>1 DEF ReadSegment, In
  <2> QED BY <2>2, <2>3 DEF VictimClosed
<1>8. AckedInFile'
  BY DEF AckedInFile, Truncating
<1> QED BY <1>3, <1>4, <1>5, <1>6, <1>7, <1>8 DEF ShipInv

\* A stop keeps it: the watermark file and the sink are left as they are.
LEMMA StopInv == ASSUME Inv, StopStep PROVE ShipInv'
<1> USE ForgottenPass DEF Inv, StopStep, fileVars
<1>1. /\ written' = written /\ glued' = glued /\ wiped \subseteq wiped'
      /\ Readable \subseteq Readable' \cup wiped'
  <2>1. CASE Close \/ ProcessCrash
    BY <2>1 DEF Close, ProcessCrash, Readable
  <2>2. CASE MachineCrash
    BY <2>2, MachineCrashReadable DEF MachineCrash
  <2> QED BY <2>1, <2>2
<1>2. IsFiniteSet(scan')
  BY FS_EmptySet
<1>3. ShipTypeOK'
  BY <1>1, <1>2, ShippingAssumption DEF ForgetPass, ShipTypeOK
<1>4. AcksSound' /\ NothingLost'
  BY <1>1 DEF AcksSound, NothingLost, Settled
<1> QED BY <1>3, <1>4 DEF ShipInv

\* Reopening the log keeps it.
LEMMA ReopenShipInv == ASSUME Inv, ReopenStep PROVE ShipInv'
<1> USE DEF Inv, ReopenStep, shipVars, passVars, fileVars
<1>1. /\ UNCHANGED <<written, glued, wiped, place>>
      /\ Readable' = Readable
      /\ files \subseteq files'
      /\ ~up
  BY DEF Reopen, Readable
<1>2. pc = "idle"
  BY <1>1 DEF PassShape
<1>3. ShipTypeOK'
  BY <1>1 DEF ShipTypeOK
<1>4. AcksSound' /\ NothingLost'
  BY <1>1 DEF AcksSound, NothingLost, Settled
<1>5. PassOnDisk' /\ PassShape'
  BY <1>1, <1>2 DEF PassOnDisk, PassShape
<1>6. LateIsUnacked' /\ VictimClosed' /\ AckedInFile'
  BY <1>2 DEF LateIsUnacked, VictimClosed, AckedInFile, Truncating
<1> QED BY <1>3, <1>4, <1>5, <1>6 DEF ShipInv

\* A damaged watermark keeps it: the empty set names no unsettled record.
LEMMA CorruptInv == ASSUME Inv, CorruptWatermark PROVE ShipInv'
<1> USE LogUnchanged DEF Inv, CorruptWatermark, passVars
<1>1. ShipTypeOK'
  BY ShippingAssumption DEF ShipTypeOK
<1>2. AcksSound' /\ NothingLost'
  BY NothingLostKept DEF AcksSound, Settled
<1>3. PassOnDisk' /\ PassShape'
  BY DEF PassOnDisk, PassShape
<1>4. LateIsUnacked'
  BY DEF LateIsUnacked, Truncating
<1>5. VictimClosed'
  <2>1. ReadSegment(Lowest(scan))' = ReadSegment(Lowest(scan))
    BY DEF walVars, ReadSegment, In
  <2> QED BY <2>1 DEF VictimClosed
<1>6. AckedInFile'
  BY DEF AckedInFile, ShipTypeOK
<1> QED BY <1>1, <1>2, <1>3, <1>4, <1>5, <1>6 DEF ShipInv

\* A step of somebody else keeps it.
LEMMA StutterInv == ASSUME Inv, UNCHANGED vars PROVE ShipInv'
<1> USE DEF Inv, vars, shipVars, passVars, fileVars
<1>1. ReadSegment(Lowest(scan))' = ReadSegment(Lowest(scan))
  BY DEF walVars, ReadSegment, In
<1> QED BY <1>1, LogUnchanged DEF ShipInv, ShipTypeOK, AcksSound, NothingLost,
           PassOnDisk, PassShape, LateIsUnacked, VictimClosed, AckedInFile,
           Truncating, Settled

-----------------------------------------------------------------------------
(* The shipper respects the log, and every step keeps the invariant. *)

\* Actions of the shipper that do not touch the log.
Quiet ==
    \/ ShipStep \/ SendStep \/ Commit
    \/ ReadAcked \/ ReadActive \/ ListSegments \/ Examine \/ EndPass \/ ReadRaises
    \/ CorruptWatermark

\* Of the shipper's actions only unlink touches the log.
LEMMA QuietLeavesLog == ASSUME Quiet PROVE UNCHANGED walVars
<1>1. CASE ShipStep
  BY <1>1 DEF ShipStep, StartPass, ScanSegment, BeginShipping, TakeBatch
<1>2. CASE SendStep
  BY <1>2 DEF SendStep, SendAccepted, SendRejected, SendFailed,
     SingleAccepted, SingleRejected, SingleFailed
<1>3. CASE Commit
  BY <1>3 DEF Commit
<1>4. CASE ReadAcked \/ ReadActive \/ ListSegments \/ Examine \/ EndPass \/ ReadRaises
  BY <1>4 DEF ReadAcked, ReadActive, ListSegments, Examine, EndPass, ReadRaises
<1>5. CASE CorruptWatermark
  BY <1>5 DEF CorruptWatermark
<1> QED BY <1>1, <1>2, <1>3, <1>4, <1>5 DEF Quiet

\* The steps of the composition, by what they do to the log.
LEMMA NextCases ==
    ASSUME [Next]_vars
    PROVE  \/ \E r \in Record : WriteLine(r) /\ UNCHANGED shipVars
           \/ FinishAppend /\ UNCHANGED shipVars
           \/ StopStep
           \/ ReopenStep
           \/ UnlinkSegment
           \/ Quiet
           \/ UNCHANGED vars
BY DEF Next, WriterStep, ShipperStep, TruncateStep, Quiet

\* truncate unlinks an existing segment that is not the active one, although
\* it looked at the active segment some steps ago.
LEMMA VictimIsClosed ==
    ASSUME Inv, UnlinkSegment PROVE Lowest(scan) \in files \ {active}
BY LowestExists DEF Inv, UnlinkSegment, ShipTypeOK, PassOnDisk, VictimClosed

\* Every step of the composition is a step of the log on its own or leaves it
\* alone.
LEMMA StepIsWalStep ==
    ASSUME Inv, [Next]_vars PROVE [WalNext]_walVars
<1>1. CASE \E r \in Record : WriteLine(r) /\ UNCHANGED shipVars
  BY <1>1 DEF WalNext
<1>2. CASE FinishAppend
  BY <1>2 DEF WalNext
<1>3. CASE StopStep
  BY <1>3 DEF StopStep, WalNext
<1>4. CASE ReopenStep
  BY <1>4 DEF ReopenStep, WalNext
<1>5. CASE UnlinkSegment
  <2>1. Unlink(Lowest(scan))
    BY <1>5 DEF UnlinkSegment
  <2> QED BY <1>5, <2>1, VictimIsClosed DEF WalNext, UnlinkClosed
<1>6. CASE Quiet
  BY <1>6, QuietLeavesLog
<1>7. CASE UNCHANGED vars
  BY <1>7 DEF vars
<1> QED BY <1>1, <1>2, <1>3, <1>4, <1>5, <1>6, <1>7, NextCases

\* The actions that leave the log alone keep the invariant.
LEMMA QuietInv == ASSUME Inv, Quiet PROVE ShipInv'
<1>1. CASE ShipStep
  BY <1>1, StartPassInv, ScanSegmentInv, BeginShippingInv, TakeBatchInv
     DEF ShipStep
<1>2. CASE SendStep
  BY <1>2, SendAcceptedInv, SendRejectedInv, SendFailedInv, SingleInv
     DEF SendStep
<1>3. CASE Commit
  BY <1>3, CommitInv
<1>4. CASE ReadAcked \/ ReadActive \/ ListSegments \/ Examine \/ EndPass \/ ReadRaises
  BY <1>4, ReadAckedInv, ReadActiveInv, ListSegmentsInv, ExamineInv, EndPassInv,
     ReadRaisesInv
<1>5. CASE CorruptWatermark
  BY <1>5, CorruptInv
<1> QED BY <1>1, <1>2, <1>3, <1>4, <1>5 DEF Quiet

\* Every step keeps the invariant.
LEMMA StepInv == ASSUME Inv, [Next]_vars PROVE Inv'
<1>1. WalInv'
  BY StepIsWalStep, WalStepInv DEF Inv
<1>2. ShipInv'
  BY NextCases, WriteLineShipInv, FinishAppendShipInv, StopInv, ReopenShipInv,
     UnlinkSegmentInv, QuietInv, StutterInv
<1> QED BY <1>1, <1>2 DEF Inv, ShipInv

\* The invariant of the composition holds in every reachable state, for every
\* set of records, every batch, segment and retry limit.
THEOREM Invariance == Spec => []Inv
<1>1. Init => Inv
  BY InitInv
<1>2. Inv /\ [Next]_vars => Inv'
  BY StepInv
<1> QED BY <1>1, <1>2, PTL DEF Spec

-----------------------------------------------------------------------------
(* The results. *)

\* Every variable keeps its type.
THEOREM TypeCorrect == Spec => []TypeOK
<1>1. Inv => TypeOK
  BY DEF Inv, WalInv, WalTypeOK, TypeOK
<1> QED BY <1>1, Invariance, PTL

\* The watermark names settled records only.
THEOREM WatermarkIsSound == Spec => []WatermarkSound
<1>1. Inv => WatermarkSound
  BY DEF Inv, AcksSound, WatermarkSound
<1> QED BY <1>1, Invariance, PTL

\* Shipping and truncation lose no decision, whatever the interleaving with
\* the writer, the crashes, the sink's failures and watermark corruptions.
THEOREM NoLoss == Spec => []NoDecisionLost
<1>1. Inv => NoDecisionLost
  BY DEF Inv, WalInv, WalDataOK, NothingLost, NoDecisionLost
<1> QED BY <1>1, Invariance, PTL

\* The log of a system with a shipper is still the log SegmentedWal describes:
\* no active segment is ever deleted.
THEOREM RefinesWal == Spec => ImplementsWal
<1>1. Init => WalInit
  BY DEF Init
<1>2. Inv /\ [Next]_vars => [WalNext]_walVars
  BY StepIsWalStep
<1> QED BY <1>1, <1>2, Invariance, PTL DEF Spec, ImplementsWal, WalSpec

\* So what the log promises without a shipper it promises beside one: deleting
\* segments costs no returned record under "always", leaves no more to lose under
\* "batch", and damages none.
THEOREM PromisesSurviveShipping ==
    Spec => [](AlwaysDurable /\ LossBound /\ Cardinality(glued) <= stops)
BY RefinesWal, AlwaysIsDurable, LossIsBounded, DamageIsBounded, PTL DEF ImplementsWal

\* A segment is unlinked only below the durable watermark.
THEOREM DeletesBelowWatermark == Spec => WatermarkFirst
<1>1. ASSUME Inv, [Next]_vars, up', NEW seg \in files \ files'
      PROVE  /\ ReadSegment(seg) \subseteq Settled
             /\ corruptions = 0 => ReadSegment(seg) \subseteq wm
  <2>1. CASE UnlinkSegment
    <3>1. seg = Lowest(scan)
      BY <1>1, <2>1 DEF UnlinkSegment, Unlink
    <3>2. pc = "unlink"
      BY <2>1 DEF UnlinkSegment
    <3> QED BY <1>1, <3>1, <3>2 DEF Inv, VictimClosed, AcksSound, AckedInFile,
               Truncating
  <2>2. CASE ~UnlinkSegment
    <3>1. files \subseteq files' \/ ~up'
      BY <1>1, <2>2, NextCases, QuietLeavesLog
         DEF WriteLine, FinishAppend, Rotate, StopStep, Close, ProcessCrash,
             MachineCrash, ReopenStep, Reopen, vars, walVars
    <3> QED BY <1>1, <3>1
  <2> QED BY <2>1, <2>2
<1>2. Inv /\ [Next]_vars =>
        [up' => \A seg \in files \ files' :
                  /\ ReadSegment(seg) \subseteq Settled
                  /\ corruptions = 0 => ReadSegment(seg) \subseteq wm]_vars
  BY <1>1
<1> QED BY <1>2, Invariance, PTL DEF Spec, WatermarkFirst

\* The promise of AtLeastOnce, step by step: what is readable stays readable
\* until the sink has it or has refused it, save what a machine crash takes
\* before its fsync.
THEOREM RefinesPromise == Spec => ImplementsPromise
<1>1. Init => Promise!Init
  BY DEF Init, WalInit, Readable, Promise!Init
<1>2. ASSUME Inv, [Next]_vars PROVE [Promise!Next]_Promise!vars
  <2>0. Inv
    BY <1>2
  <2> USE <2>0 DEF Inv, Promise!vars
  <2>1. Readable \subseteq written /\ unsynced \ glued \subseteq Readable
    BY DEF Readable, WalInv, WalDataOK, FreshIsNowhere, UnsyncedInActive
  <2>2. ASSUME NEW r \in Record, WriteLine(r), UNCHANGED shipVars
        PROVE  [Promise!Next]_Promise!vars
    <3>1. r \notin received
      BY <2>2 DEF WriteLine, ShipTypeOK
    <3>2. received' = received /\ unsynced' = unsynced \cup {r}
      BY <2>2 DEF WriteLine, shipVars
    <3>3. r \notin Readable /\ r \notin glued \cup unsynced
      BY <2>2, WriteLineReadable DEF WriteLine, WalInv, WalDataOK
    <3>4. CASE glued' = glued \cup {r} /\ Readable' = Readable
      <4>1. (unsynced \ glued)' = unsynced \ glued
        BY <3>2, <3>3, <3>4
      <4> QED BY <3>2, <3>4, <4>1
    <3>5. CASE glued' = glued /\ Readable' = Readable \cup {r}
      <4>1. Promise!Accept(r)
        BY <3>1, <3>2, <3>3, <3>5 DEF Promise!Accept
      <4> QED BY <4>1 DEF Promise!Next
    <3> QED BY <2>2, <3>4, <3>5, WriteLineReadable
  <2>3. CASE FinishAppend /\ UNCHANGED shipVars
    <3>1. Readable' = Readable /\ glued' = glued /\ received' = received
      BY <2>3 DEF FinishAppend, Readable, shipVars
    <3>2. unsynced' = {} \/ unsynced' = unsynced
      BY <2>3 DEF FinishAppend
    <3> QED BY <3>1, <3>2 DEF Promise!Next, Promise!Persist
  <2>4. CASE StopStep
    <3>1. glued' = glued /\ received' = received
      BY <2>4 DEF StopStep, Close, ProcessCrash, MachineCrash
    <3>2. CASE Close
      <4>1. Readable' = Readable /\ unsynced' = {}
        BY <3>2 DEF Close, Readable
      <4> QED BY <3>1, <4>1 DEF Promise!Next, Promise!Persist
    <3>3. CASE ProcessCrash
      <4>1. Readable' = Readable /\ unsynced' = unsynced
        BY <3>3 DEF ProcessCrash, Readable
      <4> QED BY <3>1, <4>1
    <3>4. CASE MachineCrash
      <4>1. PICK lost \in SUBSET unsynced : Readable' = Readable \ lost
        BY <3>4, MachineCrashReadable
      <4>2. unsynced' = {}
        BY <3>4 DEF MachineCrash
      <4>3. /\ lost \ glued \in SUBSET (unsynced \ glued)
            /\ Readable' = Readable \ (lost \ glued)
        BY <4>1 DEF Readable
      <4> QED BY <3>1, <4>2, <4>3 DEF Promise!Next, Promise!Lose
    <3> QED BY <2>4, <3>2, <3>3, <3>4 DEF StopStep
  <2>5. CASE ReopenStep
    <3>1. /\ Readable' = Readable
          /\ UNCHANGED <<unsynced, glued, received>>
      BY <2>5 DEF ReopenStep, Reopen, Readable, shipVars
    <3> QED BY <3>1
  <2>6. CASE UnlinkSegment
    <3> DEFINE gone == ReadSegment(Lowest(scan))
    <3>1. Lowest(scan) \in files \ {active} /\ pc = "unlink"
      BY <2>6, VictimIsClosed DEF UnlinkSegment
    <3>2. /\ Readable' = Readable \ gone
          /\ UNCHANGED <<unsynced, glued, received>>
      BY <2>6, <3>1, UnlinkReadable DEF UnlinkSegment, Unlink
    <3>3. gone \subseteq Readable \cap Settled
      BY <3>1 DEF VictimClosed, AcksSound, ReadSegment, In, Readable, WalInv,
         WalDataOK
    <3>4. unsynced \ glued = (unsynced \ glued) \ gone
      BY <3>1 DEF ReadSegment, In, WalInv, UnsyncedInActive
    <3> QED BY <3>2, <3>3, <3>4 DEF Promise!Next, Promise!Reclaim, Settled
  <2>7. CASE Quiet
    <3>1. Readable' = Readable /\ UNCHANGED <<unsynced, glued>>
      BY <2>7, QuietLeavesLog, LogUnchanged DEF walVars
    <3>2. received' = received \/ \E some \in SUBSET (batch \ Rejected) :
                                     received' = received \cup some
      BY <2>7 DEF Quiet, ShipStep, StartPass, ScanSegment, BeginShipping,
         TakeBatch, SendStep, SendAccepted, SendRejected, SendFailed,
         SingleAccepted, SingleRejected, SingleFailed, Commit, ReadAcked,
         ReadActive, ListSegments, Examine, EndPass, ReadRaises, CorruptWatermark
    <3>3. batch \subseteq Readable
      BY DEF PassOnDisk
    <3> QED BY <3>1, <3>2, <3>3 DEF Promise!Next, Promise!Deliver
  <2>8. CASE UNCHANGED vars
    <3>1. Readable' = Readable /\ UNCHANGED <<unsynced, glued, received>>
      BY <2>8 DEF vars, walVars, shipVars, Readable
    <3> QED BY <3>1
  <2> QED BY <1>2, <2>2, <2>3, <2>4, <2>5, <2>6, <2>7, <2>8, NextCases
<1>3. Inv /\ [Next]_vars => [Promise!Next]_Promise!vars
  BY <1>2
<1> QED BY <1>1, <1>3, Invariance, PTL DEF Spec, ImplementsPromise, Promise!Spec
=============================================================================
