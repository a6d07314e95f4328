------------------------------- MODULE Reports -------------------------------
(***************************************************************************)
(* The reports of DashboardService over a set of runs: the trend, the      *)
(* ranking of repositories and the summary of one period, and the chart    *)
(* drawn of a trend.  Pure operators.  An instant counts Quarters, the     *)
(* unit below the hour; an hour, a day and a week are kept short.          *)
(***************************************************************************)
EXTENDS Integers, Sequences, FiniteSets

LOCAL INSTANCE FiniteSetsExt
LOCAL INSTANCE SequencesExt

CONSTANTS
  None,                  \* no value
  Hour, Day, WeekDays,   \* an hour and a day in units of time, a week in days
  EpochWeekday,          \* the day of the week of instant 0, Sunday being 0
  HealthLimit            \* repositoryHealthLimit

ASSUME CalendarAssumption ==
  /\ {Hour, Day, WeekDays, HealthLimit} \subseteq Nat \ {0} /\ Day % Hour = 0
  /\ EpochWeekday \in 0..(WeekDays - 1)

\* The fields of f, and those of g that f does not have.
Over(f, g) == [x \in DOMAIN f \cup DOMAIN g |-> IF x \in DOMAIN f THEN f[x] ELSE g[x]]

BucketSizes == {"hour", "day", "week"}
Completed == {"SUCCESS", "FAILED", "CANCELLED", "SKIPPED", "UNKNOWN"}

\* parsePeriod: the service refuses a period that ends before it begins.
IsPeriod(query) == query.from <= query.to

\* The runs of a report: completed within the period, both ends included.
CompletedRuns(runs, query, statuses) ==
  {r \in runs : /\ r.completedAt # None /\ r.status \in statuses
                /\ query.from <= r.completedAt /\ r.completedAt <= query.to}
-----------------------------------------------------------------------------
StartOf(instant, unit) == instant - (instant % unit)

\* Mutant of FloorBucket: a Sunday is taken for the day before Monday.
FloorBucketSunday(value, size) ==
  IF size = "hour" THEN StartOf(value, Hour)
  ELSE LET midnight == StartOf(value, Day)
           weekday == (midnight \div Day + EpochWeekday) % WeekDays
       IN IF size = "day" THEN midnight ELSE midnight - (weekday - 1) * Day

\* A week begins on Monday.
FloorBucket(value, size) ==
  IF size = "hour" THEN StartOf(value, Hour)
  ELSE LET midnight == StartOf(value, Day)
           weekday == (midnight \div Day + EpochWeekday) % WeekDays
       IN CASE size = "day" -> midnight
            [] size = "week" /\ weekday = 0 -> midnight - (WeekDays - 1) * Day
            [] OTHER -> midnight - (weekday - 1) * Day

NextBucket(value, size) ==
  value + CASE size = "hour" -> Hour [] size = "day" -> Day [] size = "week" -> WeekDays * Day

CreateBuckets(query, size) ==
  LET from[start \in Int] ==
        IF start > query.to THEN <<>> ELSE <<start>> \o from[NextBucket(start, size)]
  IN from[FloorBucket(query.from, size)]

Trend(runs, query, size) ==
  LET decided == CompletedRuns(runs, query, {"SUCCESS", "FAILED"})
      Within(start, status) ==
        Cardinality({r \in decided : r.status = status /\ FloorBucket(r.completedAt, size) = start})
      buckets == CreateBuckets(query, size)
  IN [i \in DOMAIN buckets |-> [bucketStart |-> buckets[i],
                                successCount |-> Within(buckets[i], "SUCCESS"),
                                errorCount |-> Within(buckets[i], "FAILED")]]
-----------------------------------------------------------------------------
CountStatuses(runs) == [s \in Completed |-> Cardinality({r \in runs : r.status = s})]

\* roundPercentage, in tenths of a percent.
SuccessRate(statuses) ==
  LET decided == statuses["SUCCESS"] + statuses["FAILED"]
  IN IF decided = 0 THEN 0 ELSE (2000 * statuses["SUCCESS"] + decided) \div (2 * decided)

Durations(runs) ==
  LET measured == SetToSortSeq({r \in runs : r.durationMs # None},
                               LAMBDA a, b : a.durationMs < b.durationMs)
  IN [i \in DOMAIN measured |-> measured[i].durationMs]

Median(sorted) ==
  LET middle == Len(sorted) \div 2 + 1
  IN CASE sorted = <<>> -> None
       [] Len(sorted) % 2 = 1 -> sorted[middle]
       [] OTHER -> (sorted[middle - 1] + sorted[middle] + 1) \div 2

TotalDuration(runs) ==
  MapThenSumSet(LAMBDA r : r.durationMs, {r \in runs : r.durationMs # None})
RetainedDuration(repositories) == MapThenSumSet(LAMBDA r : r.retained, repositories)

\* The part of getSummary that depends on the period.
Summary(runs, query) ==
  LET completed == CompletedRuns(runs, query, Completed)
      statuses == CountStatuses(completed)
  IN [completedCount |-> Cardinality(completed), statuses |-> statuses,
      successRate |-> SuccessRate(statuses), medianDurationMs |-> Median(Durations(completed))]

Health(runs, repository) ==
  LET own == {r \in runs : r.repository = repository}
      statuses == CountStatuses(own)
  IN [repository |-> repository, completedCount |-> Cardinality(own),
      failedCount |-> statuses["FAILED"], successRate |-> SuccessRate(statuses),
      medianDurationMs |-> Median(Durations(own))]

\* A repository is named by its place in the alphabet.
WorseThan(a, b) ==
  \/ a.failedCount > b.failedCount
  \/ /\ a.failedCount = b.failedCount
     /\ \/ a.successRate < b.successRate
        \/ /\ a.successRate = b.successRate
           /\ \/ a.completedCount > b.completedCount
              \/ a.completedCount = b.completedCount /\ a.repository < b.repository

\* The entries of the ranking, each with its position: the first HealthLimit ones.
RepositoryHealth(runs, query) ==
  LET completed == CompletedRuns(runs, query, Completed)
      entries == {Health(completed, r.repository) : r \in completed}
      Position(entry) == Cardinality({e \in entries : WorseThan(e, entry)}) + 1
  IN {Over([position |-> Position(entry)], entry) : entry \in {e \in entries : Position(e) <= HealthLimit}}
-----------------------------------------------------------------------------
SumOf(trend, field) == FoldLeft(LAMBDA total, bucket : total + bucket[field], 0, trend)

\* The chart: every bar is drawn to one scale, the errors on top of the successes.
MaximumRuns(trend) ==
  Max({1} \cup {trend[i].successCount + trend[i].errorCount : i \in DOMAIN trend})

ChartPoints(trend, plotHeight) ==
  LET maximum == MaximumRuns(trend)
  IN [i \in DOMAIN trend |->
        [successHeight |-> (trend[i].successCount * plotHeight) \div maximum,
         errorHeight |-> (trend[i].errorCount * plotHeight) \div maximum]]

\* The ticks of the scale: its maximum, its middle rounded half up, and zero.
CreateTicks(maximum) == {maximum, (maximum + 1) \div 2, 0}

\* The segments of the distribution of statuses: each begins where the one before ends,
\* in per mille of all completed runs.
Segments(summary, order) ==
  LET share(k) == IF summary.completedCount = 0 THEN 0
                  ELSE (summary.statuses[order[k]] * 1000) \div summary.completedCount
      offset[k \in 1..Len(order)] == IF k = 1 THEN 0 ELSE offset[k - 1] + share(k - 1)
  IN [k \in DOMAIN order |-> [offset |-> offset[k], percentage |-> share(k)]]
=============================================================================
