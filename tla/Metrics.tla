-------------------------------- MODULE Metrics --------------------------------
(***************************************************************************)
(* Metric samples in buckets of several resolutions.                       *)
(*                                                                         *)
(* Each sample is counted in one bucket of every tier.  Samples that an    *)
(* older release has left in a table of their own are moved to buckets     *)
(* batch by batch while the store is opened.  The maintenance loop deletes *)
(* the buckets of a tier that are older than its retention, and a query    *)
(* takes the time twice, chooses a tier, and then reads its buckets.       *)
(*                                                                         *)
(* One node; what is summed up in a bucket is left out but for the number  *)
(* of samples.                                                             *)
(***************************************************************************)
EXTENDS Integers, Sequences, FiniteSets

CONSTANTS
  Readers,    \* request handlers that ask for metrics
  Tiers,      \* per tier: the seconds of its buckets and their retention
  Retention,  \* how long the configuration keeps metrics (30 days)
  Ranges,     \* how far back a query can ask (1 to 720 hours)
  Limits,     \* how many samples it can ask for
  BatchSize,  \* legacy rows that are moved at a time (1000)
  OpenedAt,   \* when the controller starts first
  MaxLegacy,  \* bound on legacy rows
  MaxSamples, \* bound on reports
  MaxInstant, \* bound on time
  MaxStarts   \* bound on restarts

ASSUME MetricsAssumption ==
  /\ Tiers \in Seq([seconds : Nat \ {0}, retention : Nat]) /\ Tiers # <<>>
  /\ Retention \in Nat /\ Ranges \subseteq Nat /\ Limits \subseteq Nat
  /\ BatchSize \in Nat \ {0} /\ OpenedAt \in 0 .. MaxInstant /\ MaxLegacy \in Nat
  /\ MaxSamples \in Nat /\ MaxInstant \in Nat /\ MaxStarts \in Nat

VARIABLES
  instant,  \* the time
  open,     \* the store is open, and requests are served
  legacy,   \* the times of the legacy rows, by their ids
  bucket,   \* per tier and start of a bucket: how many samples it counts
  recorded, \* history: the samples that were committed, with their numbers
  arriving, \* the time of the report that is being stored, -1 if none
  query,    \* per reader: what it does, since when, with which tier, chosen when
  samples, starts

metricsVars == <<instant, open, legacy, bucket, recorded, arriving, query, samples, starts>>

Instants == 0 .. MaxInstant
Last == Len(Tiers)
Query(step, since, tier, chosen) == [step |-> step, since |-> since, tier |-> tier, chosen |-> chosen]
NoQuery == Query("none", 0, 1, 0)

MetricsInit ==
  /\ instant = OpenedAt /\ open = FALSE
  /\ \E n \in 0 .. MaxLegacy : legacy \in [1 .. n -> 0 .. OpenedAt]
  /\ bucket = [k \in DOMAIN Tiers |-> [b \in Instants |-> 0]]
  /\ recorded = {<<legacy[i], i>> : i \in DOMAIN legacy}
  /\ arriving = -1
  /\ query = [r \in Readers |-> NoQuery]
  /\ samples = 0 /\ starts = 0

\* metricBucketStart; before the first instant it does not matter where.
BucketStart(at, k) == (at \div Tiers[k].seconds) * Tiers[k].seconds

\* upsertMetricBuckets, for each of these samples, in one transaction.
UpsertMetricBuckets(times) ==
  bucket' = [k \in DOMAIN Tiers |-> [b \in Instants |->
    bucket[k][b] + Cardinality({i \in DOMAIN times : BucketStart(times[i], k) = b})]]

-----------------------------------------------------------------------------
(* Opening the store: compactLegacyMetrics.                                *)

Batch == IF Len(legacy) < BatchSize THEN Len(legacy) ELSE BatchSize

\* Mutant of CompactLegacyMetrics: the row after the batch is deleted, too.
CompactLegacyMetricsMutant ==
  /\ ~open /\ legacy # <<>>
  /\ UpsertMetricBuckets(SubSeq(legacy, 1, Batch))
  /\ legacy' = SubSeq(legacy, Batch + 2, Len(legacy))
  /\ UNCHANGED <<instant, open, recorded, arriving, query, samples, starts>>

\* One transaction: a batch goes into buckets, and its rows up to the last id go.
CompactLegacyMetrics ==
  /\ ~open /\ legacy # <<>>
  /\ UpsertMetricBuckets(SubSeq(legacy, 1, Batch))
  /\ legacy' = SubSeq(legacy, Batch + 1, Len(legacy))
  /\ UNCHANGED <<instant, open, recorded, arriving, query, samples, starts>>

Open ==
  /\ ~open /\ legacy = <<>>
  /\ open' = TRUE
  /\ UNCHANGED <<instant, legacy, bucket, recorded, arriving, query, samples, starts>>

\* A transaction is rolled back and opening fails, or the controller ends for another
\* reason; it is started again.
Reopen ==
  /\ starts < MaxStarts /\ starts' = starts + 1
  /\ open' = FALSE
  /\ arriving' = -1
  /\ query' = [r \in Readers |-> NoQuery]
  /\ UNCHANGED <<instant, legacy, bucket, recorded, samples>>

-----------------------------------------------------------------------------
(* UpdateReport: the time is taken first, and the transaction waits.       *)

ReportArrives ==
  /\ open /\ arriving = -1
  /\ samples < MaxSamples /\ samples' = samples + 1
  /\ arriving' = instant
  /\ UNCHANGED <<instant, open, legacy, bucket, recorded, query, starts>>

RecordReport ==
  /\ arriving # -1 /\ arriving' = -1
  /\ \/ /\ UpsertMetricBuckets(<<arriving>>)
        /\ recorded' = recorded \cup {<<arriving, Cardinality(recorded) + 1>>}
     \/ UNCHANGED <<bucket, recorded>> \* a statement fails, or the node is revoked
  /\ UNCHANGED <<instant, open, legacy, query, samples, starts>>

-----------------------------------------------------------------------------
(* The maintenance loop: PruneMetrics, one transaction.                    *)

Later(a, b) == IF a < b THEN b ELSE a

\* What begins before is deleted: nothing of it is younger than the retention.
Cutoff(k) == BucketStart(Later(instant - Tiers[k].retention, instant - Retention), k)

PruneMetrics ==
  /\ open
  /\ bucket' = [k \in DOMAIN Tiers |-> [b \in Instants |-> IF b < Cutoff(k) THEN 0 ELSE bucket[k][b]]]
  /\ UNCHANGED <<instant, open, legacy, recorded, arriving, query, samples, starts>>

-----------------------------------------------------------------------------
(* ListMetricsWithResolution.                                              *)

\* A handler takes the time and asks for a range.
AskMetrics(r, range) ==
  /\ open /\ query[r].step = "none"
  /\ query' = [query EXCEPT ![r] = Query("choose", instant - range, 1, 0)]
  /\ UNCHANGED <<instant, open, legacy, bucket, recorded, arriving, samples, starts>>

\* Mutant of Suits: whether the tier reaches back so far is not looked at.
SuitsMutant(k, duration, limit) ==
  Later(duration \div Tiers[k].seconds, 1) <= limit

\* The tier has not more buckets in this time than are asked for, and keeps them as
\* long, but for one bucket: the handler took the time before.
Suits(k, duration, limit) ==
  /\ duration <= Tiers[k].retention + Tiers[k].seconds
  /\ Later(duration \div Tiers[k].seconds, 1) <= limit

\* metricResolutionFor: the first tier that suits, or the last.
MetricResolutionFor(duration, limit) ==
  LET suits == {k \in DOMAIN Tiers : Suits(k, duration, limit)}
  IN CHOOSE k \in suits \cup {Last} : \A j \in suits : k <= j

ChooseTier(r, limit) ==
  /\ query[r].step = "choose"
  /\ LET since == query[r].since IN
     query' = [query EXCEPT ![r] =
       Query("read", since, MetricResolutionFor(instant - since, limit), instant)]
  /\ UNCHANGED <<instant, open, legacy, bucket, recorded, arriving, samples, starts>>

\* The buckets of the tier, from the one the range begins in.
ReadOut(r) ==
  LET k == query[r].tier
  IN [b \in {b \in Instants : b >= BucketStart(query[r].since, k)} |-> bucket[k][b]]

ReadBuckets(r) ==
  /\ query[r].step = "read"
  /\ query' = [query EXCEPT ![r] = NoQuery]
  /\ UNCHANGED <<instant, open, legacy, bucket, recorded, arriving, samples, starts>>

InstantPasses ==
  /\ instant < MaxInstant /\ instant' = instant + 1
  /\ UNCHANGED <<open, legacy, bucket, recorded, arriving, query, samples, starts>>

MetricsNext ==
  \/ CompactLegacyMetrics \/ Open \/ Reopen
  \/ ReportArrives \/ RecordReport \/ PruneMetrics
  \/ \E r \in Readers :
       \/ \E range \in Ranges : AskMetrics(r, range)
       \/ \E limit \in Limits : ChooseTier(r, limit)
       \/ ReadBuckets(r)
  \/ InstantPasses

MetricsSpec == MetricsInit /\ [][MetricsNext]_metricsVars
-----------------------------------------------------------------------------
(* Properties.                                                             *)

\* Every variable of the metrics holds a value of its type.
MetricsTypeOK ==
  /\ instant \in Instants /\ open \in BOOLEAN
  /\ legacy \in Seq(Instants)
  /\ bucket \in [DOMAIN Tiers -> [Instants -> Nat]]
  /\ recorded \subseteq Instants \X Nat
  /\ arriving \in Instants \cup {-1}
  /\ query \in [Readers -> [step : {"none", "choose", "read"}, since : Int,
                            tier : DOMAIN Tiers, chosen : Instants]]
  /\ samples \in 0 .. MaxSamples /\ starts \in 0 .. MaxStarts

\* How many samples a bucket should count.
Samples(k, b) == Cardinality({x \in recorded : BucketStart(x[1], k) = b})

\* Once the store is open, every sample that was committed, before an upgrade, an
\* interruption or after, is counted once in every tier as long as the tier's
\* retention lasts, and never more than once (store.go:742-848, 1186-1211).
CountedOnce ==
  open => \A k \in DOMAIN Tiers, t \in Instants :
    LET b == BucketStart(t, k)
    IN /\ bucket[k][b] <= Samples(k, b)
       /\ t >= instant - Tiers[k].retention /\ t >= instant - Retention =>
            bucket[k][b] = Samples(k, b)

\* A query gets every sample of its range that is not older than the longest retention
\* (store.go:1046-1142), whichever tier is chosen.  It may miss what was pruned because
\* the time was taken before: one bucket, and what passed since the tier was chosen.
AnswerIsComplete ==
  [][\A r \in Readers : ReadBuckets(r) =>
       LET k == query[r].tier
           slack == Tiers[k].seconds + (instant - query[r].chosen)
       IN \A t \in Instants :
            /\ t >= query[r].since + slack
            /\ t >= instant - Tiers[Last].retention /\ t >= instant - Retention
            => LET b == BucketStart(t, k)
               IN b \in DOMAIN ReadOut(r) /\ ReadOut(r)[b] = Samples(k, b)]_metricsVars
================================================================================
