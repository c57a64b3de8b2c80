------------------------- MODULE SegmentedWalProofs -------------------------
(* Proofs about SegmentedWal, for every set of records and every bound. *)
EXTENDS SegmentedWal, FiniteSetTheorems, WellFoundedInduction, TLAPS

-----------------------------------------------------------------------------
(* Segment numbers. *)

\* segments() of a log that has any begins with its oldest segment.
LEMMA LowestExists ==
    ASSUME NEW segs \in SUBSET Nat, segs # {}
    PROVE  Lowest(segs) \in segs /\ \A t \in segs : Lowest(segs) <= t
<1>1. PICK x \in segs : \A y \in segs : ~ (<<y, x>> \in OpToRel(<, Nat))
  BY NatLessThanWellFounded, WFMin
<1>2. \A y \in segs : x <= y
  <2> TAKE y \in segs
  <2>1. ~ (y < x)
    BY <1>1 DEF OpToRel
  <2> QED BY <2>1
<1> QED BY <1>2 DEF Lowest

\* ... and ends with its newest, which is where __init__ continues.
LEMMA HighestExists ==
    ASSUME NEW segs \in SUBSET Nat, segs # {},
           NEW top \in Nat, \A t \in segs : t <= top
    PROVE  Highest(segs) \in segs /\ \A t \in segs : t <= Highest(segs)
<1> DEFINE gaps == {top - t : t \in segs}
<1>1. gaps \in SUBSET Nat /\ gaps # {}
  <2>1. \A t \in segs : top - t \in Nat
    OBVIOUS
  <2>2. gaps # {}
    <3>1. PICK t \in segs : TRUE
      OBVIOUS
    <3>2. top - t \in gaps
      OBVIOUS
    <3> QED BY <3>2
  <2> QED BY <2>1, <2>2
<1>2. Lowest(gaps) \in gaps /\ \A g \in gaps : Lowest(gaps) <= g
  BY <1>1, LowestExists
<1>3. PICK x \in segs : Lowest(gaps) = top - x
  BY <1>2
<1>4. \A t \in segs : t <= x
  <2> TAKE t \in segs
  <2>1. top - x <= top - t
    BY <1>2, <1>3
  <2> QED BY <2>1
<1> QED BY <1>4 DEF Highest

-----------------------------------------------------------------------------
(* The inductive invariant of the log. *)

\* A record that is somewhere is in a segment that exists.
PlaceOnDisk == \A r \in Record : place[r] # 0 => place[r] \in files

\* A record nobody wrote is nowhere.
FreshIsNowhere == \A r \in Record \ written : place[r] = 0

\* The record in flight is the running writer's, not yet returned, not lost.
InflightIsNew ==
    /\ inflight # {} => up
    /\ inflight \cap (appended \cup wiped) = {}

\* Under "always" a returned record is past its fsync.
ReturnedIsSynced ==
    Fsync = "always" => appended \cap (unsynced \cup wiped) = {}

WalInv ==
    /\ WalDataOK
    /\ WalFlagsOK
    /\ ActiveIsNewest
    /\ PlaceOnDisk
    /\ FreshIsNowhere
    /\ UnsyncedInActive
    /\ InflightIsNew
    /\ ReturnedIsSynced

\* The empty log satisfies the invariant.
LEMMA WalInitInv ==
    ASSUME WalInit PROVE WalInv
<1> USE WalAssumption DEF WalInit
<1>1. IsFiniteSet({1})
  BY FS_Singleton
<1>2. WalDataOK
  BY <1>1 DEF WalDataOK
<1>3. WalFlagsOK
  BY DEF WalFlagsOK
<1>4. ActiveIsNewest /\ PlaceOnDisk /\ FreshIsNowhere
  BY DEF ActiveIsNewest, PlaceOnDisk, FreshIsNowhere
<1>5. UnsyncedInActive /\ InflightIsNew /\ ReturnedIsSynced
  BY DEF UnsyncedInActive, InflightIsNew, ReturnedIsSynced
<1> QED BY <1>2, <1>3, <1>4, <1>5 DEF WalInv

\* Handing a line to the OS keeps it: the record goes to the newest segment.
LEMMA WriteLineInv ==
    ASSUME WalInv, NEW r \in Record, WriteLine(r) PROVE WalInv'
<1> USE DEF WalInv, WriteLine
<1>1. WalDataOK'
  BY DEF WalDataOK
<1>2. WalFlagsOK'
  BY DEF WalFlagsOK
<1>3. active \in files
  BY DEF ActiveIsNewest
<1>4. ActiveIsNewest' /\ PlaceOnDisk' /\ FreshIsNowhere' /\ UnsyncedInActive'
  BY <1>3 DEF WalDataOK, ActiveIsNewest, PlaceOnDisk, FreshIsNowhere,
     UnsyncedInActive
<1>5. InflightIsNew' /\ ReturnedIsSynced'
  BY DEF WalDataOK, InflightIsNew, ReturnedIsSynced
<1> QED BY <1>1, <1>2, <1>4, <1>5

\* The fsync, the rotation and the return of append keep it: the segment that
\* rotation leaves behind has nothing unsynced in it.
LEMMA FinishAppendInv ==
    ASSUME WalInv, FinishAppend PROVE WalInv'
<1> USE DEF WalInv, FinishAppend
<1>1. WalFlagsOK'
  BY DEF WalFlagsOK
<1>2. InflightIsNew' /\ ReturnedIsSynced'
  BY DEF WalDataOK, InflightIsNew, ReturnedIsSynced, SyncDue
<1>3. FreshIsNowhere'
  BY DEF FreshIsNowhere
<1>4. CASE SegmentFull
  <2>1. active' = active + 1 /\ files' = files \cup {active + 1}
    BY <1>4 DEF Rotate
  <2>2. unsynced' = {}
    BY <1>4
  <2>3. IsFiniteSet(files')
    BY <2>1, FS_AddElement DEF WalDataOK
  <2>4. WalDataOK'
    BY <2>1, <2>2, <2>3 DEF WalDataOK
  <2>5. ActiveIsNewest' /\ PlaceOnDisk' /\ UnsyncedInActive'
    BY <2>1, <2>2 DEF WalDataOK, ActiveIsNewest, PlaceOnDisk, UnsyncedInActive
  <2> QED BY <1>1, <1>2, <1>3, <2>4, <2>5
<1>5. CASE ~SegmentFull
  <2>1. active' = active /\ files' = files
    BY <1>5 DEF Rotate
  <2>2. unsynced' \subseteq unsynced
    OBVIOUS
  <2>3. WalDataOK'
    BY <2>1, <2>2 DEF WalDataOK
  <2>4. ActiveIsNewest' /\ PlaceOnDisk' /\ UnsyncedInActive'
    BY <2>1, <2>2 DEF ActiveIsNewest, PlaceOnDisk, UnsyncedInActive
  <2> QED BY <1>1, <1>2, <1>3, <2>3, <2>4
<1> QED BY <1>4, <1>5

\* An orderly shutdown keeps it.
LEMMA CloseInv ==
    ASSUME WalInv, Close PROVE WalInv'
<1> USE DEF WalInv, Close
<1>1. WalDataOK'
  BY WalAssumption DEF WalDataOK
<1>2. WalFlagsOK'
  BY DEF WalFlagsOK
<1>3. ActiveIsNewest' /\ PlaceOnDisk' /\ FreshIsNowhere'
  BY DEF ActiveIsNewest, PlaceOnDisk, FreshIsNowhere
<1>4. UnsyncedInActive' /\ InflightIsNew' /\ ReturnedIsSynced'
  BY DEF UnsyncedInActive, InflightIsNew, ReturnedIsSynced
<1> QED BY <1>1, <1>2, <1>3, <1>4

\* A kill keeps it: the OS has every line that was counted.
LEMMA ProcessCrashInv ==
    ASSUME WalInv, ProcessCrash PROVE WalInv'
<1> USE DEF WalInv, ProcessCrash
<1>1. WalDataOK'
  BY WalAssumption DEF WalDataOK
<1>2. WalFlagsOK'
  BY DEF WalFlagsOK
<1>3. ActiveIsNewest' /\ PlaceOnDisk' /\ FreshIsNowhere'
  BY DEF ActiveIsNewest, PlaceOnDisk, FreshIsNowhere
<1>4. UnsyncedInActive' /\ InflightIsNew' /\ ReturnedIsSynced'
  BY DEF UnsyncedInActive, InflightIsNew, ReturnedIsSynced
<1> QED BY <1>1, <1>2, <1>3, <1>4

\* A machine failure keeps it: it takes unsynced records only, and no segment
\* but the active one, when that is empty.
LEMMA MachineCrashInv ==
    ASSUME WalInv, MachineCrash PROVE WalInv'
<1> USE DEF WalInv, MachineCrash
<1>1. PICK lost \in SUBSET unsynced :
         /\ wiped' = wiped \cup lost
         /\ place' = [r \in Record |-> IF r \in lost THEN 0 ELSE place[r]]
         /\ torn' \in IF torn \/ up \/ lost # {} THEN BOOLEAN ELSE {FALSE}
         /\ files' \in IF In(active) \subseteq lost /\ ~torn'
                       THEN {files, files \ {active}} ELSE {files}
  OBVIOUS
<1>2. WalFlagsOK'
  BY <1>1 DEF WalFlagsOK
<1>3. \/ files' = files
      \/ In(active) \subseteq lost /\ files' = files \ {active}
  BY <1>1
<1>4. WalDataOK'
  <2>1. files' \subseteq files /\ IsFiniteSet(files')
    BY <1>3, FS_RemoveElement DEF WalDataOK
  <2>2. place' \in [Record -> Nat]
    BY <1>1 DEF WalDataOK
  <2>3. wiped' \subseteq written
    BY <1>1 DEF WalDataOK
  <2> QED BY <2>1, <2>2, <2>3, WalAssumption DEF WalDataOK
<1>5. ActiveIsNewest'
  BY <1>3 DEF ActiveIsNewest
<1>6. PlaceOnDisk'
  <2> SUFFICES ASSUME NEW r \in Record, place'[r] # 0
               PROVE  place'[r] \in files'
    BY DEF PlaceOnDisk
  <2>1. r \notin lost /\ place'[r] = place[r] /\ place[r] \in files
    BY <1>1 DEF PlaceOnDisk
  <2> QED BY <1>3, <2>1 DEF In
<1>7. FreshIsNowhere'
  BY <1>1 DEF FreshIsNowhere
<1>8. UnsyncedInActive' /\ InflightIsNew' /\ ReturnedIsSynced'
  BY <1>1 DEF UnsyncedInActive, InflightIsNew, ReturnedIsSynced
<1> QED BY <1>2, <1>4, <1>5, <1>6, <1>7, <1>8

\* __init__ keeps it: it continues with the newest segment there is.
LEMMA ReopenInv ==
    ASSUME WalInv, Reopen PROVE WalInv'
<1> USE DEF WalInv, Reopen
<1>1. WalFlagsOK'
  BY DEF WalFlagsOK
<1>2. FreshIsNowhere' /\ InflightIsNew' /\ ReturnedIsSynced'
  BY DEF FreshIsNowhere, InflightIsNew, ReturnedIsSynced
<1>3. CASE files = {}
  <2>1. files' = {1} /\ active' = 1
    BY <1>3
  <2>2. IsFiniteSet(files')
    BY <2>1, FS_Singleton
  <2>3. \A r \in Record : place[r] = 0
    BY <1>3 DEF PlaceOnDisk
  <2>4. unsynced = {}
    BY <2>3 DEF UnsyncedInActive, WalDataOK
  <2>5. WalDataOK'
    BY <2>1, <2>2 DEF WalDataOK
  <2>6. ActiveIsNewest' /\ PlaceOnDisk' /\ UnsyncedInActive'
    BY <2>1, <2>3, <2>4 DEF ActiveIsNewest, PlaceOnDisk, UnsyncedInActive
  <2> QED BY <1>1, <1>2, <2>5, <2>6
<1>4. CASE files # {}
  <2>1. active' = Highest(files)
    BY <1>4
  <2>2. Highest(files) \in files /\ \A t \in files : t <= Highest(files)
    BY <1>4, HighestExists DEF WalDataOK, ActiveIsNewest
  <2>3. files' = files
    BY <2>1, <2>2
  <2>4. ASSUME NEW r \in unsynced PROVE active' = active
    <3>1. active \in files
      BY DEF UnsyncedInActive, PlaceOnDisk, WalDataOK
    <3> QED BY <2>1, <2>2, <3>1 DEF ActiveIsNewest, WalDataOK
  <2>5. WalDataOK'
    BY <2>1, <2>2, <2>3 DEF WalDataOK
  <2>6. ActiveIsNewest'
    BY <2>1, <2>2, <2>3 DEF ActiveIsNewest
  <2>7. PlaceOnDisk' /\ UnsyncedInActive'
    BY <2>3, <2>4 DEF PlaceOnDisk, UnsyncedInActive
  <2> QED BY <1>1, <1>2, <2>5, <2>6, <2>7
<1> QED BY <1>3, <1>4

\* Removing a segment that is not the active one keeps it.
LEMMA UnlinkInv ==
    ASSUME WalInv, NEW seg \in files \ {active}, Unlink(seg) PROVE WalInv'
<1> USE DEF WalInv, Unlink
<1>1. WalDataOK'
  <2>1. IsFiniteSet(files')
    BY FS_RemoveElement DEF WalDataOK
  <2> QED BY <2>1 DEF WalDataOK
<1>2. WalFlagsOK'
  BY DEF WalFlagsOK
<1>3. ActiveIsNewest' /\ PlaceOnDisk' /\ FreshIsNowhere' /\ UnsyncedInActive'
  BY DEF WalDataOK, ActiveIsNewest, PlaceOnDisk, FreshIsNowhere,
     UnsyncedInActive
<1>4. InflightIsNew' /\ ReturnedIsSynced'
  BY DEF InflightIsNew, ReturnedIsSynced
<1> QED BY <1>1, <1>2, <1>3, <1>4

\* A step of somebody else keeps it.
LEMMA WalStutterInv ==
    ASSUME WalInv, UNCHANGED walVars PROVE WalInv'
BY DEF walVars, WalInv, WalDataOK, WalFlagsOK, ActiveIsNewest, PlaceOnDisk,
   FreshIsNowhere, UnsyncedInActive, InflightIsNew, ReturnedIsSynced

\* Every step of the log keeps the invariant.
LEMMA WalStepInv ==
    ASSUME WalInv, [WalNext]_walVars PROVE WalInv'
<1>1. CASE \E r \in Record : WriteLine(r)
  BY <1>1, WriteLineInv
<1>2. CASE FinishAppend
  BY <1>2, FinishAppendInv
<1>3. CASE Close
  BY <1>3, CloseInv
<1>4. CASE ProcessCrash
  BY <1>4, ProcessCrashInv
<1>5. CASE MachineCrash
  BY <1>5, MachineCrashInv
<1>6. CASE Reopen
  BY <1>6, ReopenInv
<1>7. CASE UnlinkClosed
  BY <1>7, UnlinkInv DEF UnlinkClosed
<1>8. CASE UNCHANGED walVars
  BY <1>8, WalStutterInv
<1> QED BY <1>1, <1>2, <1>3, <1>4, <1>5, <1>6, <1>7, <1>8 DEF WalNext

\* The invariant of the log holds of every history of appends, rotations,
\* stops, reopenings and reclaimed segments.
THEOREM WalInvariant == WalSpec => []WalInv
<1>1. WalInit => WalInv
  BY WalInitInv
<1>2. WalInv /\ [WalNext]_walVars => WalInv'
  BY WalStepInv
<1> QED BY <1>1, <1>2, PTL DEF WalSpec

-----------------------------------------------------------------------------
(* What the invariant gives. *)

\* Every variable of the log keeps its type.
THEOREM WalTypeCorrect == WalSpec => []WalTypeOK
<1>1. WalInv => WalTypeOK
  BY DEF WalInv, WalTypeOK
<1> QED BY <1>1, WalInvariant, PTL

\* _seq names an existing file and the newest one, through any sequence of
\* appends, rotations, reclaimed segments, crashes and reopenings.
THEOREM ActiveSegmentIsNewest == WalSpec => []ActiveIsNewest
<1>1. WalInv => ActiveIsNewest
  BY DEF WalInv
<1> QED BY <1>1, WalInvariant, PTL

\* Whatever awaits an fsync is in the file the handle is open on.
THEOREM UnsyncedIsInActive == WalSpec => []UnsyncedInActive
<1>1. WalInv => UnsyncedInActive
  BY DEF WalInv
<1> QED BY <1>1, WalInvariant, PTL

\* fsync=always: no machine crash takes a record whose append returned.
THEOREM AlwaysIsDurable == WalSpec => []AlwaysDurable
<1>1. WalInv => AlwaysDurable
  BY DEF WalInv, ReturnedIsSynced, AlwaysDurable
<1> QED BY <1>1, WalInvariant, PTL

-----------------------------------------------------------------------------
(* How much a machine crash can take under fsync=batch. *)

\* Unsynced records that earlier lives of the process may have left.
Inherited == stops * SyncBatch

BatchInv ==
    /\ IsFiniteSet(unsynced)
    /\ up /\ inflight # {} => sinceSync <= SyncBatch
    /\ up /\ inflight = {} => sinceSync < SyncBatch
    /\ up => Cardinality(unsynced) <= Inherited + sinceSync
    /\ ~up => Cardinality(unsynced) <= Inherited

\* One more life of the process may leave one more batch unsynced.
LEMMA InheritedFacts ==
    ASSUME WalDataOK
    PROVE  /\ Inherited \in Nat
           /\ stops' = stops => Inherited' = Inherited
           /\ stops' = stops + 1 => Inherited' = Inherited + SyncBatch
<1>1. stops \in Nat /\ SyncBatch \in Nat
  BY WalAssumption DEF WalDataOK
<1>2. stops * SyncBatch \in Nat /\ (stops + 1) * SyncBatch = stops * SyncBatch + SyncBatch
  BY <1>1
<1> QED BY <1>2 DEF Inherited

\* Under fsync=batch no step lets the unsynced records outgrow one batch for
\* every earlier life and what _since_sync has counted in this one.
LEMMA BatchStep ==
    ASSUME Fsync = "batch", WalInv, BatchInv, [WalNext]_walVars
    PROVE  BatchInv'
<1> USE DEF BatchInv
<1> DEFINE n == Cardinality(unsynced)
<1>1. /\ WalDataOK /\ InflightIsNew
      /\ Inherited \in Nat /\ SyncBatch \in Nat \ {0} /\ sinceSync \in Nat
      /\ n \in Nat
  BY InheritedFacts, FS_CardinalityType, WalAssumption DEF WalInv, WalDataOK
<1>2. IsFiniteSet({}) /\ Cardinality({}) = 0
  BY FS_EmptySet
<1>3. ASSUME NEW r \in Record, WriteLine(r) PROVE BatchInv'
  <2> USE DEF WriteLine
  <2>1. IsFiniteSet(unsynced') /\ Cardinality(unsynced') <= n + 1
    <3>1. IsFiniteSet(unsynced \cup {r})
      BY FS_AddElement
    <3>2. Cardinality(unsynced \cup {r}) <= n + 1
      BY <1>1, FS_AddElement
    <3> QED BY <1>3, <3>1, <3>2
  <2>2. Inherited' = Inherited
    BY <1>1, <1>3, InheritedFacts
  <2>3. up' /\ inflight' # {} /\ sinceSync' = sinceSync + 1
    BY <1>3
  <2>4. n <= Inherited + sinceSync /\ sinceSync < SyncBatch
    BY <1>3
  <2>5. Cardinality(unsynced') <= Inherited' + sinceSync' /\ sinceSync' <= SyncBatch
    <3>1. Cardinality(unsynced') \in Nat
      BY <2>1, FS_CardinalityType
    <3> QED BY <1>1, <2>1, <2>2, <2>3, <2>4, <3>1
  <2> QED BY <2>1, <2>3, <2>5
<1>4. CASE FinishAppend
  <2> USE DEF FinishAppend
  <2>1. Inherited' = Inherited /\ up' /\ inflight' = {}
    BY <1>1, <1>4, InheritedFacts
  <2>2. n <= Inherited + sinceSync
    BY <1>4
  <2>3. CASE sinceSync >= SyncBatch
    <3>1. unsynced' = {} /\ sinceSync' = 0
      BY <1>4, <2>3 DEF SyncDue
    <3>2. Cardinality(unsynced') <= Inherited' + sinceSync' /\ sinceSync' < SyncBatch
      BY <1>1, <1>2, <2>1, <3>1
    <3> QED BY <1>2, <2>1, <3>1, <3>2
  <2>4. CASE ~(sinceSync >= SyncBatch)
    <3>1. sinceSync' = sinceSync /\ unsynced' \in {{}, unsynced}
      BY <1>4, <2>4 DEF SyncDue
    <3>2. IsFiniteSet(unsynced') /\ Cardinality(unsynced') <= n
      BY <1>1, <1>2, <3>1
    <3>3. Cardinality(unsynced') \in Nat
      BY <3>2, FS_CardinalityType
    <3>4. Cardinality(unsynced') <= Inherited' + sinceSync' /\ sinceSync' < SyncBatch
      BY <1>1, <2>1, <2>2, <2>4, <3>1, <3>2, <3>3
    <3> QED BY <2>1, <3>2, <3>4
  <2> QED BY <2>3, <2>4
<1>5. CASE Close \/ MachineCrash
  <2>1. unsynced' = {} /\ ~up' /\ stops' = stops + 1
    BY <1>5 DEF Close, MachineCrash
  <2>2. Cardinality(unsynced') <= Inherited'
    BY <1>1, <1>2, <2>1, InheritedFacts
  <2> QED BY <1>2, <2>1, <2>2
<1>6. CASE ProcessCrash
  <2>1. unsynced' = unsynced /\ ~up' /\ stops' = stops + 1 /\ up
    BY <1>6 DEF ProcessCrash
  <2>2. n <= Inherited + sinceSync /\ sinceSync <= SyncBatch
    <3>1. n <= Inherited + sinceSync
      BY <2>1
    <3>2. CASE inflight = {}
      BY <1>1, <2>1, <3>1, <3>2
    <3>3. CASE inflight # {}
      BY <2>1, <3>1, <3>3
    <3> QED BY <3>2, <3>3
  <2>3. Cardinality(unsynced') <= Inherited'
    <3>1. Inherited' = Inherited + SyncBatch
      BY <1>1, <2>1, InheritedFacts
    <3> QED BY <1>1, <2>1, <2>2, <3>1
  <2> QED BY <2>1, <2>3
<1>7. CASE Reopen
  <2>1. unsynced' = unsynced /\ up' /\ ~up /\ sinceSync' = 0 /\ inflight' = inflight
    BY <1>7 DEF Reopen
  <2>2. inflight = {}
    BY <1>1, <2>1 DEF InflightIsNew
  <2>3. Inherited' = Inherited
    BY <1>1, <1>7, InheritedFacts DEF Reopen
  <2>4. n <= Inherited
    BY <2>1
  <2>5. Cardinality(unsynced') <= Inherited' + sinceSync' /\ sinceSync' < SyncBatch
    BY <1>1, <2>1, <2>3, <2>4
  <2> QED BY <2>1, <2>2, <2>5
<1>8. CASE UnlinkClosed \/ UNCHANGED walVars
  <2>1. UNCHANGED <<unsynced, up, inflight, sinceSync, stops>>
    BY <1>8 DEF UnlinkClosed, Unlink, walVars
  <2>2. Inherited' = Inherited
    BY <1>1, <2>1, InheritedFacts
  <2> QED BY <2>1, <2>2
<1> QED BY <1>3, <1>4, <1>5, <1>6, <1>7, <1>8 DEF WalNext

\* fsync=batch: what one machine crash can take is at most one batch for every
\* life of the process so far.
THEOREM LossIsBounded == WalSpec => []LossBound
<1>1. CASE Fsync = "batch"
  <2>1. WalInit => BatchInv
    <3> SUFFICES ASSUME WalInit PROVE BatchInv
      OBVIOUS
    <3>1. Inherited = 0
      BY WalAssumption DEF WalInit, Inherited
    <3> QED BY <3>1, FS_EmptySet, WalAssumption DEF WalInit, BatchInv
  <2>2. WalInv /\ BatchInv /\ [WalNext]_walVars => BatchInv'
    BY <1>1, BatchStep
  <2>3. WalInv /\ BatchInv => LossBound
    <3> SUFFICES ASSUME WalInv, BatchInv PROVE LossBound
      OBVIOUS
    <3>1. Inherited \in Nat /\ sinceSync \in Nat /\ Cardinality(unsynced) \in Nat
      BY InheritedFacts, FS_CardinalityType DEF BatchInv, WalInv, WalDataOK
    <3>2. \/ Cardinality(unsynced) <= Inherited
          \/ sinceSync <= SyncBatch /\ Cardinality(unsynced) <= Inherited + sinceSync
      <4>1. CASE up /\ inflight # {}
        BY <4>1 DEF BatchInv
      <4>2. CASE up /\ inflight = {}
        <5>1. sinceSync < SyncBatch /\ Cardinality(unsynced) <= Inherited + sinceSync
          BY <4>2 DEF BatchInv
        <5> QED BY <3>1, <5>1, WalAssumption
      <4>3. CASE ~up
        BY <4>3 DEF BatchInv
      <4> QED BY <4>1, <4>2, <4>3
    <3>3. Cardinality(unsynced) <= Inherited + SyncBatch
      BY <3>1, <3>2, WalAssumption
    <3>4. Inherited + SyncBatch = (stops + 1) * SyncBatch
      BY WalAssumption DEF Inherited, WalInv, WalDataOK
    <3> QED BY <3>3, <3>4 DEF LossBound
  <2> QED BY <2>1, <2>2, <2>3, WalInvariant, PTL DEF WalSpec
<1>2. CASE Fsync # "batch"
  <2>1. LossBound
    BY <1>2 DEF LossBound
  <2> QED BY <2>1, PTL
<1> QED BY <1>1, <1>2

-----------------------------------------------------------------------------
\* What holds in place of AppendedIsReadable: a stop leaves at most one line
\* torn, and a torn line damages at most the one that is written after it.
DamageInv ==
    /\ IsFiniteSet(glued)
    /\ Cardinality(glued) + (IF torn THEN 1 ELSE 0) <= stops

LEMMA DamageStep ==
    ASSUME WalTypeOK, DamageInv, [WalNext]_walVars
    PROVE  DamageInv'
<1> DEFINE n == Cardinality(glued)
<1>1. /\ IsFiniteSet(glued) /\ n \in Nat /\ stops \in Nat /\ torn \in BOOLEAN
      /\ torn => n + 1 <= stops
      /\ n <= stops
  <2>1. IsFiniteSet(glued) /\ n \in Nat  BY FS_CardinalityType DEF DamageInv
  <2>2. stops \in Nat /\ torn \in BOOLEAN  BY WalAssumption DEF WalTypeOK, WalDataOK, WalFlagsOK
  <2>3. n + (IF torn THEN 1 ELSE 0) <= stops  BY DEF DamageInv
  <2> HIDE DEF n
  <2> QED  BY <2>1, <2>2, <2>3
<1>2. ASSUME NEW q \in Record, WriteLine(q)  PROVE DamageInv'
  <2> DEFINE r == q
  <2>1. /\ stops' = stops /\ torn' = FALSE
        /\ glued' = IF torn THEN glued \cup {r} ELSE glued
    BY <1>2 DEF WriteLine
  <2>2. CASE ~torn
    <3>1. glued' = glued /\ Cardinality(glued') = n  BY <2>1, <2>2
    <3> HIDE DEF n, r
    <3> QED  BY <1>1, <2>1, <3>1 DEF DamageInv
  <2>3. CASE torn
    <3> HIDE DEF r
    <3>1. /\ IsFiniteSet(glued \cup {r})
          /\ Cardinality(glued \cup {r}) = IF r \in glued THEN n ELSE n + 1
      BY <1>1, FS_AddElement, Zenon
    <3>2. glued' = glued \cup {r}  BY <2>1, <2>3
    <3>3. IsFiniteSet(glued') /\ Cardinality(glued') \in {n, n + 1}
      BY <3>1, <3>2
    <3> HIDE DEF n
    <3> QED  BY <1>1, <2>1, <2>3, <3>3 DEF DamageInv
  <2> QED  BY <1>1, <2>2, <2>3
<1>3. CASE glued' = glued /\ stops' = stops + 1 /\ torn' \in BOOLEAN
  <2>1. Cardinality(glued') = n  BY <1>3
  <2> HIDE DEF n
  <2> QED  BY <1>1, <1>3, <2>1 DEF DamageInv
<1>4. CASE glued' = glued /\ stops' = stops /\ torn' = torn
  <2>1. Cardinality(glued') = n  BY <1>4
  <2> HIDE DEF n
  <2> QED  BY <1>1, <1>4, <2>1 DEF DamageInv
<1>5. CASE Close \/ ProcessCrash \/ MachineCrash
  <2>1. glued' = glued /\ stops' = stops + 1 /\ torn' \in BOOLEAN
    BY <1>1, <1>5 DEF Close, ProcessCrash, MachineCrash
  <2> QED  BY <1>3, <2>1
<1>6. CASE FinishAppend \/ Reopen \/ UnlinkClosed \/ UNCHANGED walVars
  <2>1. glued' = glued /\ stops' = stops /\ torn' = torn
    BY <1>6 DEF FinishAppend, Reopen, UnlinkClosed, Unlink, walVars
  <2> QED  BY <1>4, <2>1
<1> QED  BY <1>2, <1>5, <1>6 DEF WalNext

\* The log has at most one unreadable line for every time the process stopped or
\* the machine failed.
THEOREM DamageIsBounded == WalSpec => [](IsFiniteSet(glued) /\ Cardinality(glued) <= stops)
<1>1. WalInit => DamageInv
  BY FS_EmptySet DEF WalInit, DamageInv
<1>2. WalTypeOK /\ DamageInv /\ [WalNext]_walVars => DamageInv'
  BY DamageStep
<1>3. WalTypeOK /\ DamageInv => IsFiniteSet(glued) /\ Cardinality(glued) <= stops
  <2> SUFFICES ASSUME WalTypeOK, DamageInv
               PROVE  IsFiniteSet(glued) /\ Cardinality(glued) <= stops
    OBVIOUS
  <2>1. /\ IsFiniteSet(glued) /\ Cardinality(glued) \in Nat /\ stops \in Nat
        /\ Cardinality(glued) + (IF torn THEN 1 ELSE 0) <= stops
    BY FS_CardinalityType, WalAssumption DEF DamageInv, WalTypeOK, WalDataOK
  <2> QED  BY <2>1
<1> QED  BY <1>1, <1>2, <1>3, WalTypeCorrect, PTL DEF WalSpec

=============================================================================
