--------------------------- MODULE MetricsExport ----------------------------
(***************************************************************************)
(* The metrics of a running service: Budget of gateway/budget.py, to which *)
(* decide adds a sample for a stage, the registry of gateway/metrics.py,   *)
(* in which /authorize counts decisions, and GET /metrics of serve.py,     *)
(* which moves new samples into the registry and renders it.  Request      *)
(* threads and scrapes run side by side, and the registry locks nothing    *)
(* but the creation of a metric.  One stage, one bucket and one set of     *)
(* labels stand for all.  Samples are numbered from 1 as they are recorded.*)
(***************************************************************************)
EXTENDS Integers, FiniteSets

CONSTANTS
    Worker,       \* request threads
    Scraper,      \* who reads /metrics
    MaxRequests   \* bound of the requests

ASSUME MetricsAssumption ==
    /\ IsFiniteSet(Worker) /\ IsFiniteSet(Scraper)
    /\ MaxRequests \in Nat

Absent == -1   \* a counter without a value is not rendered

VARIABLES
    requests,  \* requests taken
    samples,   \* Budget.stages[stage].samples, how many
    counter,   \* Counter.values of the labels
    counted,   \* history: increments made
    at,        \* where a thread is in /authorize
    seen,      \* the count it has read
    total,     \* Histogram.total of the stage
    bucket,    \* Histogram.counts of the bucket every sample falls in
    scrape,    \* where a scrape is in /metrics
    todo,      \* samples it has sliced off and not yet observed
    known,     \* samples there were when it began: its slice ends there
    page,      \* what it has rendered
    exported,  \* history: which samples have been observed
    overlapped \* history: a scrape sliced while another had samples to observe

authorizeVars == <<requests, samples, counter, counted, at, seen>>
historyVars == <<exported, overlapped>>
exportVars == <<total, bucket, scrape, todo, known, page, historyVars>>
metricsVars == <<authorizeVars, exportVars>>

NoPage == [bucket |-> 0, total |-> 0, counter |-> Absent]

MetricsInit ==
    /\ requests = 0 /\ samples = 0 /\ counter = Absent /\ counted = 0
    /\ at = [w \in Worker |-> "idle"]
    /\ seen = [w \in Worker |-> 0]
    /\ total = 0 /\ bucket = 0
    /\ scrape = [s \in Scraper |-> "idle"]
    /\ todo = [s \in Scraper |-> 0]
    /\ known = [s \in Scraper |-> 0]
    /\ page = [s \in Scraper |-> NoPage]
    /\ exported = {} /\ overlapped = FALSE

-----------------------------------------------------------------------------
\* decide records the latency of the stage.
Record(w) ==
    /\ at[w] = "idle" /\ requests < MaxRequests
    /\ requests' = requests + 1
    /\ samples' = samples + 1
    /\ at' = [at EXCEPT ![w] = "fetch"]
    /\ UNCHANGED <<counter, counted, seen, exportVars>>

\* Mutant: without the lock a second thread puts its own counter in place.
FetchUnlocked(w) ==
    /\ at[w] = "fetch"
    /\ at' = [at EXCEPT ![w] = "read"]
    /\ counter' \in {counter, Absent}
    /\ UNCHANGED <<requests, samples, counted, seen, exportVars>>

\* Registry.counter: the counter of that name, which the lock lets one thread
\* create.  Created, it has no values.
Fetch(w) ==
    /\ at[w] = "fetch"
    /\ at' = [at EXCEPT ![w] = "read"]
    /\ UNCHANGED <<requests, samples, counter, counted, seen, exportVars>>

\* Counter.inc, values.get(key, 0): a call, after which threads may switch.
ReadCounter(w) ==
    /\ at[w] = "read"
    /\ at' = [at EXCEPT ![w] = "store"]
    /\ seen' = [seen EXCEPT ![w] = IF counter = Absent THEN 0 ELSE counter]
    /\ UNCHANGED <<requests, samples, counter, counted, exportVars>>

\* Counter.inc, the assignment, and the answer to the caller.
StoreCounter(w) ==
    /\ at[w] = "store"
    /\ at' = [at EXCEPT ![w] = "idle"]
    /\ counter' = seen[w] + 1
    /\ counted' = counted + 1
    /\ seen' = [seen EXCEPT ![w] = 0]
    /\ UNCHANGED <<requests, samples, exportVars>>

-----------------------------------------------------------------------------
Overlap(s) == overlapped' = (overlapped \/ \E r \in Scraper \ {s} : todo[r] > 0)

\* Mutant: every sample there is.
SliceAll(s) ==
    /\ scrape[s] = "idle"
    /\ scrape' = [scrape EXCEPT ![s] = "observe"]
    /\ todo' = [todo EXCEPT ![s] = samples]
    /\ known' = [known EXCEPT ![s] = samples]
    /\ Overlap(s)
    /\ UNCHANGED <<authorizeVars, total, bucket, page, exported>>

\* Mutant: the slice begins one sample late.
SliceOneLate(s) ==
    /\ scrape[s] = "idle"
    /\ scrape' = [scrape EXCEPT ![s] = "observe"]
    /\ todo' = [todo EXCEPT ![s] = IF samples > total THEN samples - total - 1 ELSE 0]
    /\ known' = [known EXCEPT ![s] = samples]
    /\ Overlap(s)
    /\ UNCHANGED <<authorizeVars, total, bucket, page, exported>>

\* exported = h.total, and the slice of the samples from there on.
Slice(s) ==
    /\ scrape[s] = "idle"
    /\ scrape' = [scrape EXCEPT ![s] = "observe"]
    /\ todo' = [todo EXCEPT ![s] = IF samples > total THEN samples - total ELSE 0]
    /\ known' = [known EXCEPT ![s] = samples]
    /\ Overlap(s)
    /\ UNCHANGED <<authorizeVars, total, bucket, page, exported>>

\* Histogram.observe of the next sample of the slice, the total.
Observe(s) ==
    /\ scrape[s] = "observe" /\ todo[s] > 0
    /\ scrape' = [scrape EXCEPT ![s] = "bucket"]
    /\ todo' = [todo EXCEPT ![s] = @ - 1]
    /\ total' = total + 1
    /\ exported' = exported \cup {known[s] - todo[s] + 1}
    /\ UNCHANGED <<authorizeVars, bucket, known, page, overlapped>>

\* Histogram.observe, the loop over the buckets.
FillBucket(s) ==
    /\ scrape[s] = "bucket"
    /\ scrape' = [scrape EXCEPT ![s] = "observe"]
    /\ bucket' = bucket + 1
    /\ UNCHANGED <<authorizeVars, total, todo, known, page, historyVars>>

\* render writes the buckets of a histogram ...
RenderBuckets(s) ==
    /\ scrape[s] = "observe" /\ todo[s] = 0
    /\ scrape' = [scrape EXCEPT ![s] = "render"]
    /\ page' = [page EXCEPT ![s] = [NoPage EXCEPT !.bucket = bucket]]
    /\ UNCHANGED <<authorizeVars, total, bucket, todo, known, historyVars>>

\* ... and then its total, and after the histograms the counters.
RenderTotals(s) ==
    /\ scrape[s] = "render"
    /\ scrape' = [scrape EXCEPT ![s] = "sent"]
    /\ page' = [page EXCEPT ![s] = [@ EXCEPT !.total = total, !.counter = counter]]
    /\ UNCHANGED <<authorizeVars, total, bucket, todo, known, historyVars>>

-----------------------------------------------------------------------------
Authorize(w) == Record(w) \/ Fetch(w) \/ ReadCounter(w) \/ StoreCounter(w)

Scrape(s) ==
    \/ Slice(s) \/ Observe(s) \/ FillBucket(s)
    \/ RenderBuckets(s) \/ RenderTotals(s)

-----------------------------------------------------------------------------
\* The values the metrics range over.
MetricsTypeOK ==
    /\ requests \in Nat /\ samples \in Nat /\ counted \in Nat
    /\ total \in Nat /\ bucket \in Nat
    /\ counter \in Nat \cup {Absent}
    /\ at \in [Worker -> {"idle", "fetch", "read", "store"}]
    /\ seen \in [Worker -> Nat]
    /\ scrape \in [Scraper -> {"idle", "observe", "bucket", "render", "sent"}]
    /\ todo \in [Scraper -> Nat] /\ known \in [Scraper -> Nat]
    /\ page \in [Scraper -> [bucket : Nat, total : Nat, counter : Nat \cup {Absent}]]
    /\ exported \subseteq Int /\ overlapped \in BOOLEAN

\* However many scrapes run side by side, a sample is exported at most once by
\* each: the histogram is never ahead of the stage by more than that.
ExportBounded == total <= samples * Cardinality(Scraper)

\* A page shows a histogram whose buckets stay within its total, although both
\* move on while it is written.  And as long as no scrape begins while another
\* has samples to observe, every sample recorded before a scrape began is
\* exported by the time its page is ready, and none twice.  Where scrapes do
\* overlap the second half is false of the code: the total then counts a sample
\* twice, and the next slice, which begins at the total, leaves one out for good.
PageComplete ==
    \A s \in Scraper : scrape[s] = "sent" =>
        /\ page[s].bucket <= page[s].total
        /\ ~overlapped => /\ 1 .. known[s] \subseteq exported
                          /\ total = Cardinality(exported)
                          /\ known[s] <= page[s].total

\* Concurrent increments may be lost, but a decision never shows as more than
\* one, and the counter of what was decided never vanishes.
CounterInBounds ==
    /\ counter <= counted
    /\ counted > 0 => counter >= 1
=============================================================================
