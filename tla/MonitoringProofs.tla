-------------------------- MODULE MonitoringProofs --------------------------
(***************************************************************************)
(* Proofs about AlertDrill and the metrics in it, for any number of        *)
(* request threads and scrapers: the types, what a counter may show, what  *)
(* a page shows of the samples, and how often a sample is exported.        *)
(***************************************************************************)
EXTENDS AlertDrill, FiniteSetTheorems, TLAPS

\* A thread about to store a count has read no more than was counted.
CountInv ==
    /\ CounterInBounds
    /\ \A w \in Worker : seen[w] <= counted

\* The scrapes that have counted a sample in the total and not in the bucket.
Filling == {s \in Scraper : scrape[s] = "bucket"}

\* Every sample in the total is in the bucket, but for those a scrape is just
\* filling in.
BucketInv ==
    /\ bucket + Cardinality(Filling) = total
    /\ \A s \in Scraper :
          /\ scrape[s] = "render" => page[s].bucket <= total
          /\ scrape[s] = "sent" => page[s].bucket <= page[s].total

\* One scrape at a time exports the samples in their order, each once, up to
\* where its slice ends; any that began has its samples in the total or, if it
\* is the one at work, still before it.
OrderInv ==
    /\ exported = 1 .. total
    /\ \A r, s \in Scraper : todo[r] > 0 /\ todo[s] > 0 => r = s
    /\ \A s \in Scraper :
          /\ scrape[s] \notin {"observe", "bucket"} => todo[s] = 0
          /\ todo[s] > 0 => known[s] = total + todo[s]
          /\ scrape[s] \in {"observe", "bucket"} => known[s] <= total + todo[s]
          /\ scrape[s] = "render" => known[s] <= total
          /\ scrape[s] = "sent" => known[s] <= page[s].total /\ known[s] <= total

PageInv == BucketInv /\ (~overlapped => OrderInv)

-----------------------------------------------------------------------------
\* What appending to the stored values leaves of them.
LEMMA StoredType ==
    ASSUME TypeOK, NEW value \in Nat \cup {Absent}, Stored(value)
    PROVE  /\ series' \in Seq(Nat \cup {Absent}) /\ Len(series') <= RateWindow
           /\ waited' \in 0 .. Deadline
<1> USE DrillAssumption
<1> waited' \in 0 .. Deadline  BY DEF Stored, TypeOK
<1>1. /\ Append(series, value) \in Seq(Nat \cup {Absent})
      /\ Len(Append(series, value)) = Len(series) + 1
  BY DEF TypeOK
<1>2. CASE Len(series) < RateWindow  BY <1>1, <1>2 DEF Stored, TypeOK
<1>3. CASE ~ (Len(series) < RateWindow)
  <2>1. /\ Tail(Append(series, value)) \in Seq(Nat \cup {Absent})
        /\ Len(Tail(Append(series, value))) = Len(series)
    BY <1>1 DEF TypeOK
  <2> QED  BY <2>1, <1>3 DEF Stored, TypeOK
<1> QED  BY <1>2, <1>3

\* The types are kept by the steps of a request thread ...
LEMMA TrafficType ==
    ASSUME TypeOK, NEW w \in Worker, Traffic(w)
    PROVE  TypeOK'
<1>1. MetricsTypeOK'
  <2>1. CASE Record(w)
    BY <2>1 DEF Record, TypeOK, MetricsTypeOK, exportVars, historyVars
  <2>2. CASE Fetch(w)
    BY <2>2 DEF Fetch, TypeOK, MetricsTypeOK, exportVars, historyVars
  <2>3. CASE ReadCounter(w)
    BY <2>3 DEF ReadCounter, TypeOK, MetricsTypeOK, exportVars, historyVars, Absent
  <2>4. CASE StoreCounter(w)
    BY <2>4 DEF StoreCounter, TypeOK, MetricsTypeOK, exportVars, historyVars
  <2> QED  BY <2>1, <2>2, <2>3, <2>4 DEF Traffic, Authorize
<1> QED  BY <1>1 DEF Traffic, TypeOK, promVars, drillVars

\* ... and of a scrape.
LEMMA ReadType ==
    ASSUME TypeOK, NEW s \in Scraper, Read(s)
    PROVE  TypeOK'
<1> USE DEF authorizeVars, historyVars
<1>1. MetricsTypeOK'
  <2>1. CASE Slice(s)
    <3>1. overlapped' \in BOOLEAN  BY <2>1, Zenon DEF Slice, Overlap
    <3> QED  BY <2>1, <3>1 DEF Slice, TypeOK, MetricsTypeOK
  <2>2. CASE Observe(s)
    <3>1. known[s] - todo[s] + 1 \in Int  BY DEF TypeOK, MetricsTypeOK
    <3>2. exported' \subseteq Int  BY <2>2, <3>1 DEF Observe, TypeOK, MetricsTypeOK
    <3> QED  BY <2>2, <3>2 DEF Observe, TypeOK, MetricsTypeOK
  <2>3. CASE FillBucket(s)  BY <2>3 DEF FillBucket, TypeOK, MetricsTypeOK
  <2>4. CASE RenderBuckets(s)
    BY <2>4 DEF RenderBuckets, TypeOK, MetricsTypeOK, NoPage, Absent
  <2>5. CASE RenderTotals(s)  BY <2>5 DEF RenderTotals, TypeOK, MetricsTypeOK
  <2> QED  BY <2>1, <2>2, <2>3, <2>4, <2>5 DEF Read, Scrape
<1> QED  BY <1>1 DEF Read, TypeOK, promVars, drillVars

\* What a stored page brings has the type of a counter.
LEMMA MonitorType ==
    ASSUME TypeOK, (\E s \in Scraper : Receive(s)) \/ Miss \/ Evaluate
    PROVE  TypeOK'
<1> USE DrillAssumption
<1>1. ASSUME NEW s \in Scraper, Receive(s)  PROVE TypeOK'
  <2>1. MetricsTypeOK'
    BY <1>1 DEF Receive, TypeOK, MetricsTypeOK, NoPage, Absent, authorizeVars, historyVars
  <2>2. /\ series' \in Seq(Nat \cup {Absent}) /\ Len(series') <= RateWindow
        /\ waited' \in 0 .. Deadline
    <3>1. CASE s = Prometheus
      <4>1. page[s].counter \in Nat \cup {Absent}  BY DEF TypeOK, MetricsTypeOK
      <4> QED  BY <4>1, <3>1, <1>1, StoredType DEF Receive
    <3>2. CASE s # Prometheus  BY <3>2, <1>1 DEF Receive, TypeOK
    <3> QED  BY <3>1, <3>2
  <2>3. age' \in 0 .. EvalEvery  BY <1>1 DEF Receive, Stored, due, TypeOK
  <2> QED  BY <2>1, <2>2, <2>3, <1>1 DEF Receive, TypeOK
<1>2. CASE Miss
  <2>1. /\ series' \in Seq(Nat \cup {Absent}) /\ Len(series') <= RateWindow
        /\ waited' \in 0 .. Deadline
    BY <1>2, StoredType DEF Miss
  <2>2. MetricsTypeOK'
    BY <1>2 DEF Miss, TypeOK, MetricsTypeOK, metricsVars, authorizeVars, exportVars,
                historyVars
  <2>3. age' \in 0 .. EvalEvery  BY <1>2 DEF Miss, Stored, due, TypeOK
  <2> QED  BY <2>1, <2>2, <2>3, <1>2 DEF Miss, TypeOK
<1>3. CASE Evaluate
  <2>1. MetricsTypeOK'
    BY <1>3 DEF Evaluate, TypeOK, MetricsTypeOK, metricsVars, authorizeVars, exportVars,
                historyVars
  <2>2. held' \in Nat \cup {Inactive} /\ held' < For + EvalEvery
    BY <1>3 DEF Evaluate, TypeOK, Firing, Inactive
  <2>3. age' \in 0 .. EvalEvery  BY <1>3 DEF Evaluate
  <2> QED  BY <2>1, <2>2, <2>3, <1>3 DEF Evaluate, TypeOK, drillVars
<1> QED  BY <1>1, <1>2, <1>3

LEMMA EmptySeries ==
    <<>> \in Seq(Nat \cup {Absent}) /\ Len(<<>>) = 0
OBVIOUS

LEMMA DrillType ==
    ASSUME TypeOK, Drill \/ Die \/ Restart
    PROVE  TypeOK'
<1> USE DrillAssumption
<1> USE DEF promVars, drillVars
<1>1. UNCHANGED metricsVars => MetricsTypeOK'
  BY DEF TypeOK, MetricsTypeOK, metricsVars, authorizeVars, exportVars, historyVars
<1>2. CASE StartDrill
  <2>1. series' \in Seq(Nat \cup {Absent}) /\ Len(series') = 0
    BY <1>2, EmptySeries, Zenon DEF StartDrill
  <2>2. Len(series') <= RateWindow  BY <2>1
  <2>3. held' \in Nat \cup {Inactive} /\ held' < For + EvalEvery
    BY <1>2 DEF StartDrill, Inactive
  <2>4. age' \in 0 .. EvalEvery  BY <1>2 DEF StartDrill
  <2> QED  BY <1>1, <1>2, <2>1, <2>2, <2>3, <2>4, Zenon DEF StartDrill, TypeOK
<1>3. CASE SeeScrape  BY <1>1, <1>3 DEF SeeScrape, TypeOK
<1>4. CASE EndDrill  BY <1>1, <1>4 DEF EndDrill, TypeOK
<1>5. CASE Die
  <2>1. restarts' \in 0 .. MaxRestarts  BY <1>5 DEF Die, TypeOK
  <2> QED  BY <1>1, <1>5, <2>1 DEF Die, TypeOK
<1>6. CASE Restart
  BY <1>6 DEF Restart, TypeOK, MetricsTypeOK, NoPage, Absent
<1> QED  BY <1>2, <1>3, <1>4, <1>5, <1>6 DEF Drill

LEMMA InitType == Init => TypeOK
<1> SUFFICES ASSUME Init PROVE TypeOK
  OBVIOUS
<1>1. MetricsTypeOK
  BY DEF Init, MetricsInit, MetricsTypeOK, NoPage, Absent
<1>2. series \in Seq(Nat \cup {Absent}) /\ Len(series) = 0
  BY EmptySeries, Zenon DEF Init
<1>3. Len(series) <= RateWindow  BY <1>2, DrillAssumption
<1>4. /\ held \in Nat \cup {Inactive} /\ held < For + EvalEvery /\ age \in 0 .. EvalEvery
      /\ waited \in 0 .. Deadline /\ restarts \in 0 .. MaxRestarts
  BY DrillAssumption DEF Init, Inactive
<1> QED  BY <1>1, <1>2, <1>3, <1>4, Zenon DEF Init, TypeOK

LEMMA NextType == TypeOK /\ [Next]_vars => TypeOK'
<1> SUFFICES ASSUME TypeOK, [Next]_vars PROVE TypeOK'
  OBVIOUS
<1>1. CASE Next
  BY <1>1, TrafficType, ReadType, MonitorType, DrillType DEF Next, Monitor
<1>2. CASE UNCHANGED vars
  BY <1>2 DEF vars, TypeOK, MetricsTypeOK, metricsVars, authorizeVars, exportVars,
              historyVars, promVars, drillVars
<1> QED  BY <1>1, <1>2

\* The metrics, the stored series and the drill keep their types.
THEOREM MonitoringTypes == Spec => []TypeOK
<1> QED  BY InitType, NextType, PTL DEF Spec

-----------------------------------------------------------------------------
\* Whichever increments are lost, no thread stores a count of more than was
\* counted, nor less than one.
LEMMA CountStep ==
    ASSUME TypeOK, CountInv, [Next]_vars
    PROVE  CountInv'
<1> USE DEF CountInv, CounterInBounds, Absent
<1>1. CASE \E w \in Worker : Traffic(w)
  <2> PICK w \in Worker : Traffic(w)  BY <1>1
  <2>1. CASE Record(w)
    BY <2>1 DEF Record, TypeOK, MetricsTypeOK
  <2>2. CASE Fetch(w)
    BY <2>2 DEF Fetch, TypeOK, MetricsTypeOK
  <2>3. CASE ReadCounter(w)
    BY <2>3 DEF ReadCounter, TypeOK, MetricsTypeOK
  <2>4. CASE StoreCounter(w)
    BY <2>4 DEF StoreCounter, TypeOK, MetricsTypeOK
  <2> QED  BY <2>1, <2>2, <2>3, <2>4 DEF Traffic, Authorize
<1>2. CASE Restart
  BY <1>2 DEF Restart
<1>3. CASE UNCHANGED authorizeVars
  BY <1>3 DEF authorizeVars
<1> QED
  BY <1>1, <1>2, <1>3
  DEF Next, Monitor, Drill, Read, Scrape, Slice, Observe, FillBucket, RenderBuckets,
      RenderTotals, Receive, Miss, Evaluate, StartDrill, SeeScrape, EndDrill, Die,
      vars, metricsVars

\* A decision never shows as more than one and the counter never vanishes.
THEOREM CounterStaysInBounds == Spec => []CounterInBounds
<1>1. Init => CountInv
  BY DEF Init, MetricsInit, CountInv, CounterInBounds, Absent
<1>2. TypeOK /\ CountInv /\ [Next]_vars => CountInv'
  BY CountStep
<1>3. CountInv => CounterInBounds
  BY DEF CountInv
<1> QED  BY <1>1, <1>2, <1>3, MonitoringTypes, PTL DEF Spec

-----------------------------------------------------------------------------
LEMMA FillingIsFinite == IsFiniteSet(Filling) /\ Cardinality(Filling) \in Nat
<1>1. Filling \in SUBSET Scraper  BY DEF Filling
<1> QED  BY <1>1, FS_Subset, FS_CardinalityType, MetricsAssumption

\* Nothing changes where no scrape moves.
LEMMA SameScrape ==
    ASSUME UNCHANGED exportVars, PageInv
    PROVE  PageInv'
<1> USE DEF exportVars, historyVars
<1>1. Filling' = Filling  BY DEF Filling
<1>2. BucketInv'  BY <1>1 DEF PageInv, BucketInv
<1>3. ~overlapped => OrderInv'  BY DEF PageInv, OrderInv
<1> QED  BY <1>2, <1>3 DEF PageInv

\* What a scrape does to the histogram and its buckets.
LEMMA ScrapeBuckets ==
    ASSUME TypeOK, BucketInv, NEW s \in Scraper, Read(s) \/ Receive(s)
    PROVE  BucketInv'
<1> DEFINE inside == Cardinality(Filling)
<1>1. inside \in Nat
  BY FillingIsFinite
<1> USE DEF TypeOK, MetricsTypeOK, BucketInv
<1>2. ASSUME Slice(s) \/ RenderBuckets(s) \/ RenderTotals(s) \/ Receive(s)
      PROVE  inside' = inside
  <2>1. Filling' = Filling
    BY <1>2 DEF Filling, Slice, RenderBuckets, RenderTotals, Receive
  <2> QED  BY <2>1
<1>3. bucket + inside = total  OBVIOUS
<1>4. ASSUME Observe(s)  PROVE inside' = inside + 1
  <2>1. Filling' = Filling \cup {s} /\ s \notin Filling
    BY <1>4 DEF Filling, Observe
  <2> QED  BY <2>1, FillingIsFinite, FS_AddElement
<1>5. ASSUME FillBucket(s)  PROVE inside' = inside - 1
  <2>1. Filling' = Filling \ {s} /\ s \in Filling
    BY <1>5 DEF Filling, FillBucket
  <2> QED  BY <2>1, FillingIsFinite, FS_RemoveElement
<1> HIDE DEF inside
<1>6. CASE Slice(s)
  <2>1. bucket' + inside' = total'  BY <1>2, <1>3, <1>6 DEF Slice
  <2> QED  BY <1>6, <2>1 DEF Slice, inside
<1>7. CASE Observe(s)
  <2>1. bucket' + inside' = total'  BY <1>1, <1>3, <1>4, <1>7 DEF Observe
  <2>2. ASSUME NEW r \in Scraper
        PROVE  /\ scrape'[r] = "render" => page'[r].bucket <= total'
               /\ scrape'[r] = "sent" => page'[r].bucket <= page'[r].total
    <3>1. /\ total' = total + 1 /\ page' = page
          /\ total \in Nat /\ page[r].bucket \in Nat
      BY <1>7 DEF Observe
    <3>2. scrape'[r] \in {"render", "sent"} => scrape'[r] = scrape[r]
      BY <1>7 DEF Observe
    <3>3. /\ scrape[r] = "render" => page[r].bucket <= total
          /\ scrape[r] = "sent" => page[r].bucket <= page[r].total
      OBVIOUS
    <3> HIDE DEF TypeOK, MetricsTypeOK, BucketInv
    <3> QED  BY <3>1, <3>2, <3>3
  <2> QED  BY <2>1, <2>2 DEF inside
<1>8. CASE FillBucket(s)
  <2>1. bucket' + inside' = total'
    <3>1. inside' = inside - 1 /\ bucket' = bucket + 1 /\ total' = total
      BY <1>5, <1>8 DEF FillBucket
    <3> QED  BY <1>1, <1>3, <3>1
  <2> QED  BY <1>8, <2>1 DEF FillBucket, inside
<1>9. CASE RenderBuckets(s)
  <2>1. bucket' + inside' = total'  BY <1>2, <1>3, <1>9 DEF RenderBuckets
  <2>2. page'[s].bucket <= total
    BY <1>1, <1>3, <1>9 DEF RenderBuckets, NoPage
  <2> QED  BY <1>9, <2>1, <2>2 DEF RenderBuckets, inside
<1>10. CASE RenderTotals(s)
  <2>1. bucket' + inside' = total'  BY <1>2, <1>3, <1>10 DEF RenderTotals
  <2>2. page'[s].bucket = page[s].bucket /\ page'[s].total = total
    BY <1>10 DEF RenderTotals
  <2> QED  BY <1>10, <2>1, <2>2 DEF RenderTotals, inside
<1>11. CASE Receive(s)
  <2>1. bucket' + inside' = total'  BY <1>2, <1>3, <1>11 DEF Receive
  <2> QED  BY <1>11, <2>1 DEF Receive, inside
<1> QED  BY <1>6, <1>7, <1>8, <1>9, <1>10, <1>11 DEF Read, Scrape

\* A slice that overlaps no other begins where the samples exported end.
LEMMA SliceOrder ==
    ASSUME TypeOK, ~overlapped => OrderInv, NEW s \in Scraper, Slice(s), ~overlapped'
    PROVE  OrderInv'
<1>1. ~overlapped /\ \A r \in Scraper \ {s} : ~ (todo[r] > 0)
  BY DEF Slice, Overlap
<1>2. OrderInv  BY <1>1
<1>3. /\ samples \in Nat /\ total \in Nat /\ todo \in [Scraper -> Nat]
      /\ known \in [Scraper -> Nat] /\ scrape[s] = "idle"
  BY DEF TypeOK, MetricsTypeOK, Slice
<1>4. /\ UNCHANGED <<total, exported, page>>
      /\ scrape' = [scrape EXCEPT ![s] = "observe"] /\ known' = [known EXCEPT ![s] = samples]
      /\ todo' = [todo EXCEPT ![s] = IF samples > total THEN samples - total ELSE 0]
  BY DEF Slice
<1>5. \A r, q \in Scraper : todo'[r] > 0 /\ todo'[q] > 0 => r = q
  BY <1>1, <1>3, <1>4
<1>6. ASSUME NEW r \in Scraper
      PROVE  /\ scrape'[r] \notin {"observe", "bucket"} => todo'[r] = 0
             /\ todo'[r] > 0 => known'[r] = total' + todo'[r]
             /\ scrape'[r] \in {"observe", "bucket"} => known'[r] <= total' + todo'[r]
             /\ scrape'[r] = "render" => known'[r] <= total'
             /\ scrape'[r] = "sent" => known'[r] <= page'[r].total /\ known'[r] <= total'
  <2>1. CASE r = s
    <3>1. /\ scrape'[r] = "observe" /\ known'[r] = samples
          /\ todo'[r] = IF samples > total THEN samples - total ELSE 0
      BY <1>3, <1>4, <2>1 DEF TypeOK, MetricsTypeOK
    <3> QED  BY <1>3, <1>4, <3>1
  <2>2. CASE r # s
    <3>1. scrape'[r] = scrape[r] /\ known'[r] = known[r] /\ todo'[r] = todo[r]
      BY <1>3, <1>4, <2>2 DEF TypeOK, MetricsTypeOK
    <3> QED  BY <1>2, <1>4, <3>1 DEF OrderInv
  <2> QED  BY <2>1, <2>2
<1>7. exported' = 1 .. total'  BY <1>2, <1>4 DEF OrderInv
<1> QED  BY <1>5, <1>6, <1>7 DEF OrderInv

\* The only scrape at work observes the sample that follows those exported.
LEMMA ObserveOrder ==
    ASSUME TypeOK, OrderInv, NEW s \in Scraper, Observe(s)
    PROVE  OrderInv'
<1>1. /\ total \in Nat /\ todo \in [Scraper -> Nat] /\ known \in [Scraper -> Nat]
      /\ todo[s] > 0 /\ scrape[s] = "observe"
  BY DEF TypeOK, MetricsTypeOK, Observe
<1>2. /\ total' = total + 1 /\ UNCHANGED <<known, page>>
      /\ scrape' = [scrape EXCEPT ![s] = "bucket"] /\ todo' = [todo EXCEPT ![s] = @ - 1]
      /\ exported' = exported \cup {known[s] - todo[s] + 1}
  BY DEF Observe
<1>3. \A r \in Scraper \ {s} : todo[r] = 0
  BY <1>1 DEF OrderInv
<1>4. exported' = 1 .. total'
  <2>1. known[s] - todo[s] + 1 = total + 1  BY <1>1 DEF OrderInv
  <2>2. (1 .. total) \cup {total + 1} = 1 .. (total + 1)  BY <1>1
  <2> QED  BY <1>2, <2>1, <2>2 DEF OrderInv
<1>5. \A r, q \in Scraper : todo'[r] > 0 /\ todo'[q] > 0 => r = q
  BY <1>1, <1>2, <1>3
<1>6. ASSUME NEW r \in Scraper
      PROVE  /\ scrape'[r] \notin {"observe", "bucket"} => todo'[r] = 0
             /\ todo'[r] > 0 => known'[r] = total' + todo'[r]
             /\ scrape'[r] \in {"observe", "bucket"} => known'[r] <= total' + todo'[r]
             /\ scrape'[r] = "render" => known'[r] <= total'
             /\ scrape'[r] = "sent" => known'[r] <= page'[r].total /\ known'[r] <= total'
  <2>1. CASE r = s
    <3>1. scrape'[r] = "bucket" /\ known'[r] = known[s] /\ todo'[r] = todo[s] - 1
      BY <1>1, <1>2, <2>1 DEF TypeOK, MetricsTypeOK
    <3>2. known[s] = total + todo[s] /\ todo[s] \in Nat  BY <1>1 DEF OrderInv
    <3> QED  BY <1>1, <1>2, <3>1, <3>2
  <2>2. CASE r # s
    <3>1. /\ scrape'[r] = scrape[r] /\ known'[r] = known[r] /\ todo'[r] = 0
          /\ todo[r] = 0 /\ known[r] \in Nat
      BY <1>1, <1>2, <1>3, <2>2 DEF TypeOK, MetricsTypeOK
    <3>2. /\ scrape[r] \in {"observe", "bucket"} => known[r] <= total
          /\ scrape[r] = "render" => known[r] <= total
          /\ scrape[r] = "sent" => known[r] <= page[r].total /\ known[r] <= total
      BY <1>1, <3>1 DEF OrderInv
    <3> QED  BY <1>1, <1>2, <3>1, <3>2
  <2> QED  BY <2>1, <2>2
<1> QED  BY <1>4, <1>5, <1>6 DEF OrderInv

\* The other steps of a scrape leave what is exported and what is to come.
LEMMA RenderOrder ==
    ASSUME TypeOK, OrderInv, NEW s \in Scraper,
           FillBucket(s) \/ RenderBuckets(s) \/ RenderTotals(s) \/ Receive(s)
    PROVE  OrderInv'
<1>1. UNCHANGED <<total, todo, exported>>
  BY DEF FillBucket, RenderBuckets, RenderTotals, Receive, historyVars
<1>2. /\ total \in Nat /\ known \in [Scraper -> Nat] /\ todo \in [Scraper -> Nat]
      /\ scrape \in [Scraper -> {"idle", "observe", "bucket", "render", "sent"}]
      /\ page \in [Scraper -> [bucket : Nat, total : Nat, counter : Nat \cup {Absent}]]
  BY DEF TypeOK, MetricsTypeOK
<1>3. ASSUME NEW r \in Scraper, r # s
      PROVE  scrape'[r] = scrape[r] /\ known'[r] = known[r] /\ page'[r] = page[r]
  BY <1>2, <1>3 DEF FillBucket, RenderBuckets, RenderTotals, Receive
<1>4. CASE FillBucket(s)
  <2>1. known' = known /\ page' = page  BY <1>4 DEF FillBucket
  <2>2. scrape[s] = "bucket" /\ scrape'[s] = "observe"  BY <1>2, <1>4 DEF FillBucket
  <2> QED  BY <1>1, <1>3, <2>1, <2>2 DEF OrderInv
<1>5. CASE RenderBuckets(s)
  <2>1. known' = known /\ scrape'[s] = "render" /\ scrape[s] = "observe" /\ todo[s] = 0
    BY <1>2, <1>5 DEF RenderBuckets
  <2>2. known[s] <= total  BY <1>2, <2>1 DEF OrderInv
  <2> QED  BY <1>1, <1>2, <1>3, <2>1, <2>2 DEF OrderInv
<1>6. CASE RenderTotals(s)
  <2>1. /\ known' = known /\ scrape'[s] = "sent" /\ scrape[s] = "render"
        /\ page'[s].total = total
    BY <1>2, <1>6 DEF RenderTotals
  <2>2. known[s] <= total /\ todo[s] = 0  BY <2>1 DEF OrderInv
  <2> QED  BY <1>1, <1>2, <1>3, <2>1, <2>2 DEF OrderInv
<1>7. CASE Receive(s)
  <2>1. scrape'[s] = "idle" /\ scrape[s] = "sent"  BY <1>2, <1>7 DEF Receive
  <2>2. todo[s] = 0  BY <2>1 DEF OrderInv
  <2> QED  BY <1>1, <1>2, <1>3, <2>1, <2>2 DEF OrderInv
<1> QED  BY <1>4, <1>5, <1>6, <1>7

LEMMA ScrapePages ==
    ASSUME TypeOK, PageInv, NEW s \in Scraper, Read(s) \/ Receive(s)
    PROVE  PageInv'
<1>1. BucketInv'  BY ScrapeBuckets DEF PageInv
<1>2. ASSUME ~overlapped'  PROVE OrderInv'
  <2>1. CASE Slice(s)  BY <1>2, <2>1, SliceOrder DEF PageInv
  <2>2. CASE Observe(s)
    <3>1. OrderInv  BY <1>2, <2>2 DEF Observe, PageInv
    <3> QED  BY <2>2, <3>1, ObserveOrder
  <2>3. CASE FillBucket(s) \/ RenderBuckets(s) \/ RenderTotals(s) \/ Receive(s)
    <3>1. overlapped' = overlapped
      BY <2>3 DEF FillBucket, RenderBuckets, RenderTotals, Receive, historyVars
    <3>2. OrderInv  BY <1>2, <3>1 DEF PageInv
    <3> QED  BY <2>3, <3>2, RenderOrder
  <2> QED  BY <2>1, <2>2, <2>3 DEF Read, Scrape
<1> QED  BY <1>1, <1>2 DEF PageInv

\* A restart leaves neither samples nor scrapes.
LEMMA RestartPages ==
    ASSUME Restart
    PROVE  PageInv'
<1>1. \A s \in Scraper : scrape'[s] = "idle" /\ todo'[s] = 0
  BY DEF Restart
<1>2. Filling' = {}  BY <1>1 DEF Filling
<1>3. Cardinality(Filling') = 0  BY <1>2, FS_EmptySet
<1>4. BucketInv'  BY <1>1, <1>3 DEF Restart, BucketInv
<1>5. OrderInv'  BY <1>1 DEF Restart, OrderInv
<1> QED  BY <1>4, <1>5 DEF PageInv

LEMMA PageStep ==
    ASSUME TypeOK, PageInv, [Next]_vars
    PROVE  PageInv'
<1>1. CASE \E s \in Scraper : Read(s) \/ Receive(s)
  BY <1>1, ScrapePages
<1>2. CASE Restart
  BY <1>2, RestartPages
<1>3. CASE UNCHANGED exportVars
  BY <1>3, SameScrape
<1> QED
  BY <1>1, <1>2, <1>3
  DEF Next, Monitor, Drill, Traffic, Authorize, Record, Fetch, ReadCounter,
      StoreCounter, Miss, Evaluate, StartDrill, SeeScrape, EndDrill, Die, vars,
      metricsVars

\* However many scrapes and decisions run beside it, a page has no bucket beyond
\* its total; and as long as scrapes do not overlap, every sample recorded
\* before the scrape of a page began is exported, and none twice.
THEOREM PagesAreComplete == Spec => []PageComplete
<1>1. Init => PageInv
  <2> SUFFICES ASSUME Init PROVE PageInv
    OBVIOUS
  <2>1. \A s \in Scraper : scrape[s] = "idle" /\ todo[s] = 0
    BY DEF Init, MetricsInit
  <2>2. Filling = {}  BY <2>1 DEF Filling
  <2>3. Cardinality(Filling) = 0  BY <2>2, FS_EmptySet
  <2>4. BucketInv  BY <2>1, <2>3 DEF Init, MetricsInit, BucketInv
  <2>5. OrderInv  BY <2>1 DEF Init, MetricsInit, OrderInv
  <2> QED  BY <2>4, <2>5 DEF PageInv
<1>2. TypeOK /\ PageInv /\ [Next]_vars => PageInv'
  BY PageStep
<1>3. TypeOK /\ PageInv => PageComplete
  <2> SUFFICES ASSUME TypeOK, PageInv, NEW s \in Scraper, scrape[s] = "sent"
               PROVE  /\ page[s].bucket <= page[s].total
                      /\ ~overlapped => /\ 1 .. known[s] \subseteq exported
                                        /\ total = Cardinality(exported)
                                        /\ known[s] <= page[s].total
    BY DEF PageComplete
  <2>1. page[s].bucket <= page[s].total  BY DEF PageInv, BucketInv
  <2>2. ASSUME ~overlapped
        PROVE  /\ 1 .. known[s] \subseteq exported /\ total = Cardinality(exported)
               /\ known[s] <= page[s].total
    <3>1. /\ exported = 1 .. total /\ known[s] <= total /\ known[s] <= page[s].total
      BY <2>2 DEF PageInv, OrderInv
    <3>2. total \in Nat /\ known[s] \in Nat  BY DEF TypeOK, MetricsTypeOK
    <3>3. Cardinality(1 .. total) = total  BY <3>2, FS_Interval
    <3> QED  BY <3>1, <3>2, <3>3
  <2> QED  BY <2>1, <2>2
<1> QED  BY <1>1, <1>2, <1>3, MonitoringTypes, PTL DEF Spec

-----------------------------------------------------------------------------
\* The samples the scrapes have sliced off and not yet observed: of each scraper
\* as many as it has to do.
Pending == {p \in Scraper \X (1 .. samples) : p[2] <= todo[p[1]]}

\* What is in the total and what is still to come into it is at most all samples
\* once for each scraper: a scrape begins where the total is, and only the
\* others have sliced what it slices.
ExportInv ==
    /\ total + Cardinality(Pending) <= samples * Cardinality(Scraper)
    /\ \A s \in Scraper :
          /\ todo[s] <= samples
          /\ scrape[s] \notin {"observe", "bucket"} => todo[s] = 0

\* Sizes of sets of pairs of a scraper and a sample.
LEMMA PairCount ==
    ASSUME NEW S \in SUBSET Scraper, NEW n \in Nat
    PROVE  /\ IsFiniteSet(S \X (1 .. n)) /\ Cardinality(S) \in Nat
           /\ Cardinality(S \X (1 .. n)) = Cardinality(S) * n
<1>1. IsFiniteSet(S) /\ Cardinality(S) \in Nat
  BY MetricsAssumption, FS_Subset, FS_CardinalityType
<1>2. IsFiniteSet(1 .. n) /\ Cardinality(1 .. n) = n  BY FS_Interval
<1> QED  BY <1>1, <1>2, FS_Product

LEMMA PendingFinite ==
    ASSUME samples \in Nat
    PROVE  IsFiniteSet(Pending) /\ Cardinality(Pending) \in Nat
<1>1. Pending \subseteq Scraper \X (1 .. samples)  BY DEF Pending
<1>2. IsFiniteSet(Scraper \X (1 .. samples))  BY PairCount
<1> QED  BY <1>1, <1>2, FS_Subset, FS_CardinalityType

\* A scrape slices off what the total lacks.
LEMMA SliceBound ==
    ASSUME TypeOK, ExportInv, NEW s \in Scraper, Slice(s)
    PROVE  ExportInv'
<1> DEFINE n == Cardinality(Scraper)
           old == Cardinality(Pending)
           k == IF samples > total THEN samples - total ELSE 0
<1>1. /\ samples \in Nat /\ total \in Nat /\ k \in 0 .. samples
      /\ todo \in [Scraper -> Nat] /\ todo[s] = 0
      /\ scrape[s] = "idle"
  <2>1. /\ samples \in Nat /\ total \in Nat /\ todo \in [Scraper -> Nat]
        /\ scrape[s] = "idle"
    BY DEF TypeOK, MetricsTypeOK, Slice
  <2>2. todo[s] = 0  BY <2>1 DEF ExportInv
  <2>3. k \in 0 .. samples
    <3>1. CASE samples > total  BY <2>1, <3>1
    <3>2. CASE ~ (samples > total)  BY <2>1, <3>2
    <3> QED  BY <3>1, <3>2
  <2> QED  BY <2>1, <2>2, <2>3
<1>2. /\ samples' = samples /\ total' = total
      /\ todo' = [todo EXCEPT ![s] = k] /\ scrape' = [scrape EXCEPT ![s] = "observe"]
  BY DEF Slice, authorizeVars
<1>3. n \in Nat /\ old \in Nat /\ total + old <= samples * n
  BY <1>1, PairCount, PendingFinite DEF ExportInv
<1>4. Pending' = Pending \cup ({s} \X (1 .. k)) /\ Pending \cap ({s} \X (1 .. k)) = {}
  <2>1. ASSUME NEW p \in Scraper \X (1 .. samples)
        PROVE  /\ p[2] <= todo'[p[1]] <=> (p[2] <= todo[p[1]] \/ p \in {s} \X (1 .. k))
               /\ ~ (p[2] <= todo[p[1]] /\ p \in {s} \X (1 .. k))
    <3>1. p = <<p[1], p[2]>> /\ p[1] \in Scraper /\ p[2] \in 1 .. samples  BY <2>1
    <3>2. p \in {s} \X (1 .. k) <=> p[1] = s /\ p[2] <= k
      BY <1>1, <3>1
    <3>3. CASE p[1] = s
      <4>1. todo'[p[1]] = k /\ todo[p[1]] = 0  BY <1>1, <1>2, <3>3
      <4> QED  BY <1>1, <3>1, <3>2, <3>3, <4>1
    <3>4. CASE p[1] # s
      <4>1. todo'[p[1]] = todo[p[1]]  BY <1>1, <1>2, <3>1, <3>4
      <4> QED  BY <3>2, <3>4, <4>1
    <3> QED  BY <3>3, <3>4
  <2>2. {s} \X (1 .. k) \subseteq Scraper \X (1 .. samples)  BY <1>1
  <2> HIDE DEF k
  <2> QED  BY <1>2, <2>1, <2>2 DEF Pending
<1>5. /\ IsFiniteSet({s} \X (1 .. k)) /\ Cardinality({s} \X (1 .. k)) = k
      /\ IsFiniteSet(Scraper \ {s}) /\ Cardinality(Scraper \ {s}) = n - 1
  <2>1. IsFiniteSet({s}) /\ Cardinality({s}) = 1  BY FS_Singleton
  <2>2. k \in Nat /\ {s} \in SUBSET Scraper  BY <1>1
  <2>3. /\ IsFiniteSet({s} \X (1 .. k))
        /\ Cardinality({s} \X (1 .. k)) = Cardinality({s}) * k
    <3> HIDE DEF k
    <3> QED  BY <2>2, PairCount
  <2>4. IsFiniteSet(Scraper \ {s}) /\ Cardinality(Scraper \ {s}) = n - 1
    BY MetricsAssumption, FS_RemoveElement
  <2> QED  BY <1>1, <2>1, <2>2, <2>3, <2>4
<1>6. Cardinality(Pending') = old + k
  <2>1. IsFiniteSet(Pending)  BY <1>1, PendingFinite
  <2>2. Cardinality(Pending \cup ({s} \X (1 .. k))) = old + k - Cardinality({})
    BY <1>4, <1>5, <2>1, FS_Union
  <2> QED  BY <1>1, <1>3, <1>4, <2>2, FS_EmptySet
<1>7. old <= (n - 1) * samples
  <2>1. Pending \subseteq (Scraper \ {s}) \X (1 .. samples)
    BY <1>1 DEF Pending
  <2>2. /\ IsFiniteSet((Scraper \ {s}) \X (1 .. samples))
        /\ Cardinality((Scraper \ {s}) \X (1 .. samples)) = (n - 1) * samples
    BY <1>1, <1>5, PairCount
  <2> QED  BY <2>1, <2>2, FS_Subset
<1>8. total + Cardinality(Pending') <= samples * n
  <2>1. CASE samples > total
    <3>1. total + (old + k) <= samples + (n - 1) * samples
      <4> HIDE DEF old, n
      <4>1. (n - 1) * samples \in Int /\ total + k = samples  BY <1>1, <1>3, <2>1
      <4> HIDE DEF k
      <4> QED  BY <1>1, <1>3, <1>7, <4>1
    <3>2. samples + (n - 1) * samples = samples * n  BY <1>1, <1>3
    <3> QED  BY <1>6, <3>1, <3>2
  <2>2. CASE ~ (samples > total)
    BY <1>1, <1>3, <1>6, <2>2
  <2> QED  BY <2>1, <2>2
<1>9. ASSUME NEW r \in Scraper
      PROVE  /\ todo'[r] <= samples
             /\ scrape'[r] \notin {"observe", "bucket"} => todo'[r] = 0
  BY <1>1, <1>2 DEF ExportInv, TypeOK, MetricsTypeOK
<1> QED  BY <1>2, <1>8, <1>9 DEF ExportInv

\* A sample observed goes from what is to come into the total.
LEMMA ObserveBound ==
    ASSUME TypeOK, ExportInv, NEW s \in Scraper, Observe(s)
    PROVE  ExportInv'
<1> DEFINE one == <<s, todo[s]>>
<1>1. /\ samples \in Nat /\ total \in Nat /\ todo \in [Scraper -> Nat]
      /\ todo[s] \in 1 .. samples
  BY DEF TypeOK, MetricsTypeOK, ExportInv, Observe
<1>2. /\ samples' = samples /\ total' = total + 1
      /\ todo' = [todo EXCEPT ![s] = @ - 1] /\ scrape' = [scrape EXCEPT ![s] = "bucket"]
  BY DEF Observe, authorizeVars
<1>3. one \in Pending  BY <1>1 DEF Pending
<1>4. Pending' = Pending \ {one}
  <2>1. ASSUME NEW p \in Scraper \X (1 .. samples)
        PROVE  p[2] <= todo'[p[1]] <=> p[2] <= todo[p[1]] /\ p # one
    <3>1. p = <<p[1], p[2]>> /\ p[1] \in Scraper /\ p[2] \in 1 .. samples  BY <2>1
    <3>2. CASE p[1] = s
      <4>1. todo'[p[1]] = todo[s] - 1  BY <1>1, <1>2, <3>2
      <4>2. p = one <=> p[2] = todo[s]  BY <3>1, <3>2
      <4> QED  BY <1>1, <3>1, <3>2, <4>1, <4>2
    <3>3. CASE p[1] # s
      <4>1. todo'[p[1]] = todo[p[1]] /\ p # one  BY <1>1, <1>2, <3>1, <3>3
      <4> QED  BY <4>1
    <3> QED  BY <3>2, <3>3
  <2> QED  BY <1>2, <2>1 DEF Pending
<1>5. Cardinality(Pending') = Cardinality(Pending) - 1
  BY <1>1, <1>3, <1>4, PendingFinite, FS_RemoveElement
<1>6. total' + Cardinality(Pending') <= samples' * Cardinality(Scraper)
  BY <1>1, <1>2, <1>5, PendingFinite DEF ExportInv
<1>7. ASSUME NEW r \in Scraper
      PROVE  /\ todo'[r] <= samples'
             /\ scrape'[r] \notin {"observe", "bucket"} => todo'[r] = 0
  BY <1>1, <1>2 DEF ExportInv, TypeOK, MetricsTypeOK
<1> QED  BY <1>6, <1>7 DEF ExportInv

\* One more sample leaves what was sliced off.
LEMMA RecordBound ==
    ASSUME TypeOK, ExportInv, NEW w \in Worker, Record(w)
    PROVE  ExportInv'
<1>1. /\ samples \in Nat /\ total \in Nat /\ todo \in [Scraper -> Nat]
      /\ \A s \in Scraper : todo[s] <= samples
  BY DEF TypeOK, MetricsTypeOK, ExportInv
<1>2. samples' = samples + 1 /\ UNCHANGED <<total, todo, scrape>>
  BY DEF Record, exportVars
<1>3. Pending' = Pending
  <2>1. ASSUME NEW p \in Scraper \X (1 .. samples'), p[2] <= todo[p[1]]
        PROVE  p \in Scraper \X (1 .. samples)
    <3>1. p = <<p[1], p[2]>> /\ p[1] \in Scraper /\ p[2] \in 1 .. samples'  BY <2>1
    <3>2. todo[p[1]] <= samples /\ todo[p[1]] \in Nat  BY <1>1, <3>1
    <3>3. p[2] \in 1 .. samples  BY <1>1, <1>2, <2>1, <3>1, <3>2
    <3> QED  BY <3>1, <3>3
  <2>2. Scraper \X (1 .. samples) \subseteq Scraper \X (1 .. samples')  BY <1>1, <1>2
  <2> QED  BY <1>2, <2>1, <2>2 DEF Pending
<1>4. total + Cardinality(Pending) <= samples' * Cardinality(Scraper)
  <2> DEFINE n == Cardinality(Scraper)  c == Cardinality(Pending)
  <2>1. n \in Nat /\ c \in Nat /\ total + c <= samples * n
    BY <1>1, PairCount, PendingFinite DEF ExportInv
  <2> HIDE DEF n, c
  <2>2. samples' * n = samples * n + n  BY <1>1, <1>2, <2>1
  <2> QED  BY <1>1, <2>1, <2>2 DEF n, c
<1> QED  BY <1>1, <1>2, <1>3, <1>4 DEF ExportInv

\* Every step keeps the bound.
LEMMA ExportStep ==
    ASSUME TypeOK, ExportInv, [Next]_vars
    PROVE  ExportInv'
<1>1. ASSUME UNCHANGED <<samples, total, todo>>,
             \A s \in Scraper : scrape'[s] = scrape[s] \/ scrape'[s] \in {"observe", "bucket"}
                                \/ todo[s] = 0
      PROVE  ExportInv'
  <2>1. Pending' = Pending  BY <1>1 DEF Pending
  <2> QED  BY <1>1, <2>1 DEF ExportInv
<1>2. ASSUME NEW s \in Scraper, Read(s) \/ Receive(s)  PROVE ExportInv'
  <2>1. CASE Slice(s)  BY <2>1, SliceBound
  <2>2. CASE Observe(s)  BY <2>2, ObserveBound
  <2>3. CASE FillBucket(s)
    BY <1>1, <2>3 DEF FillBucket, authorizeVars, historyVars, TypeOK, MetricsTypeOK
  <2>4. CASE RenderBuckets(s)
    BY <1>1, <2>4 DEF RenderBuckets, authorizeVars, TypeOK, MetricsTypeOK
  <2>5. CASE RenderTotals(s)
    <3>1. todo[s] = 0  BY <2>5 DEF RenderTotals, ExportInv
    <3> QED  BY <1>1, <2>5, <3>1 DEF RenderTotals, authorizeVars, TypeOK, MetricsTypeOK
  <2>6. CASE Receive(s)
    <3>1. todo[s] = 0  BY <2>6 DEF Receive, ExportInv
    <3> QED  BY <1>1, <2>6, <3>1 DEF Receive, authorizeVars, TypeOK, MetricsTypeOK
  <2> QED  BY <1>2, <2>1, <2>2, <2>3, <2>4, <2>5, <2>6 DEF Read, Scrape
<1>3. ASSUME NEW w \in Worker, Traffic(w)  PROVE ExportInv'
  <2>1. CASE Record(w)  BY <2>1, RecordBound
  <2>2. CASE Fetch(w) \/ ReadCounter(w) \/ StoreCounter(w)
    BY <1>1, <2>2 DEF Fetch, ReadCounter, StoreCounter, exportVars
  <2> QED  BY <1>3, <2>1, <2>2 DEF Traffic, Authorize
<1>4. CASE Restart
  <2>1. /\ samples' = 0 /\ total' = 0
        /\ \A s \in Scraper : todo'[s] = 0
    BY <1>4 DEF Restart
  <2>2. Pending' = {}  BY <2>1 DEF Pending
  <2>3. Cardinality(Scraper) \in Nat  BY MetricsAssumption, FS_CardinalityType
  <2>4. Cardinality(Pending') = 0  BY <2>2, FS_EmptySet
  <2> QED  BY <2>1, <2>3, <2>4 DEF ExportInv
<1>5. CASE Miss \/ Evaluate \/ Drill \/ Die \/ UNCHANGED vars
  BY <1>1, <1>5 DEF Miss, Evaluate, Drill, StartDrill, SeeScrape, EndDrill, Die, vars,
                    metricsVars, authorizeVars, exportVars, historyVars
<1> QED  BY <1>2, <1>3, <1>4, <1>5 DEF Next, Monitor

\* However many scrapes run side by side, and whenever the service begins again,
\* each exports a sample at most once.
THEOREM ExportStaysBounded == Spec => []ExportBounded
<1>1. Init => ExportInv
  <2> SUFFICES ASSUME Init PROVE ExportInv  OBVIOUS
  <2>1. /\ samples = 0 /\ total = 0
        /\ \A s \in Scraper : todo[s] = 0
    BY DEF Init, MetricsInit
  <2>2. Pending = {}  BY <2>1 DEF Pending
  <2>3. Cardinality(Scraper) \in Nat  BY MetricsAssumption, FS_CardinalityType
  <2>4. Cardinality(Pending) = 0  BY <2>2, FS_EmptySet
  <2> QED  BY <2>1, <2>3, <2>4 DEF ExportInv
<1>2. TypeOK /\ ExportInv /\ [Next]_vars => ExportInv'
  BY ExportStep
<1>3. TypeOK /\ ExportInv => ExportBounded
  <2> SUFFICES ASSUME TypeOK, ExportInv PROVE ExportBounded  OBVIOUS
  <2>1. samples \in Nat /\ total \in Nat  BY DEF TypeOK, MetricsTypeOK
  <2>2. Cardinality(Pending) \in Nat /\ Cardinality(Scraper) \in Nat
    BY <2>1, PendingFinite, PairCount
  <2>3. samples * Cardinality(Scraper) \in Nat  BY <2>1, <2>2
  <2> QED  BY <2>1, <2>2, <2>3 DEF ExportInv, ExportBounded
<1> QED  BY <1>1, <1>2, <1>3, MonitoringTypes, PTL DEF Spec
=============================================================================
