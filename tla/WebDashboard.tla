----------------------------- MODULE WebDashboard -----------------------------
(***************************************************************************)
(* The dashboard (pages/index.vue): what needs attention now, and the      *)
(* reports of the range that is selected.  Each part that cannot be loaded *)
(* keeps what it showed before.                                            *)
(***************************************************************************)
EXTENDS WebClient

VARIABLE dashboard

InitDashboard ==
  dashboard = [range |-> "30d", request |-> None, period |-> None, currentLoading |-> TRUE, historicalLoading |-> TRUE,
               errors |-> {}, failures |-> {}, latestRuns |-> {}, health |-> {}, summary |-> None, trend |-> <<>>]

\* A query that ends at the time of the browser.
CreatePeriodQuery(range) == [from |-> now - setup.ranges[range], to |-> now]
BucketOf(range) == CASE range = "7d" -> "hour" [] range = "30d" -> "day" [] range = "90d" -> "week"

CurrentCalls ==
  <<CreateApiClient("failures", <<>>, <<"dashboard", sent, "current">>),
    CreateApiClient("latestRuns", <<>>, <<"dashboard", sent, "current">>)>>
HistoricalCalls(range) ==
  LET query == CreatePeriodQuery(range)
      for == <<"dashboard", sent, "historical">>
  IN <<CreateApiClient("repositoryHealth", query, for), CreateApiClient("summary", query, for),
       CreateApiClient("trend", Over([bucket |-> BucketOf(range)], query), for)>>
Historical(range) ==
  [dashboard EXCEPT !.range = range, !.request = sent, !.period = CreatePeriodQuery(range), !.historicalLoading = TRUE]

\* The page is opened, or the button is clicked that refreshes it, while nothing loads.
LoadDashboard ==
  /\ setup.ranges # <<>>
  /\ dashboard.request = None \/ ~(dashboard.currentLoading \/ dashboard.historicalLoading)
  /\ dashboard' = [Historical(dashboard.range) EXCEPT !.currentLoading = TRUE]
  /\ Exchange({}, CurrentCalls \o HistoricalCalls(dashboard.range))
\* The select is disabled while the reports load.
SelectRange(range) ==
  /\ ~dashboard.historicalLoading /\ range # dashboard.range
  /\ dashboard' = Historical(range)
  /\ Exchange({}, HistoricalCalls(range))

AnswerTo(batch, op) == CHOOSE q \in batch : Call(q).op = op
Kept(batch, op, field, old) ==
  LET q == AnswerTo(batch, op)
  IN IF ~Succeeded(q) THEN old
     ELSE IF field = "summary" THEN requests[q].reply ELSE requests[q].reply[field]
\* Mutant of Rejected: a part that failed passes for one that was loaded.
RejectedNone(batch) == {}

Rejected(batch) == {Call(q).op : q \in {p \in batch : ~Succeeded(p)}}

LoadCurrentDashboard(request) ==
  LET batch == Batch(<<"dashboard", request, "current">>)
  IN /\ Settled(<<"dashboard", request, "current">>)
     /\ dashboard' = [dashboard EXCEPT
          !.errors = (@ \ {"failures", "latestRuns"}) \cup Rejected(batch), !.currentLoading = FALSE,
          !.failures = Kept(batch, "failures", "items", @), !.latestRuns = Kept(batch, "latestRuns", "items", @)]
     /\ Exchange(batch, <<>>)



IsLatest(request) == request = dashboard.request

LoadHistoricalDashboard(request) ==
  LET batch == Batch(<<"dashboard", request, "historical">>)
  IN /\ Settled(<<"dashboard", request, "historical">>)
     /\ dashboard' = IF ~IsLatest(request) THEN dashboard
                     ELSE [dashboard EXCEPT
                       !.errors = (@ \cap {"failures", "latestRuns"}) \cup Rejected(batch), !.historicalLoading = FALSE,
                       !.health = Kept(batch, "repositoryHealth", "health", @),
                       !.summary = Kept(batch, "summary", "summary", @), !.trend = Kept(batch, "trend", "buckets", @)]
     /\ Exchange(batch, <<>>)

DashboardStep ==
  \/ LoadDashboard
  \/ \E range \in DOMAIN setup.ranges : SelectRange(range)
  \/ \E request \in 0..sent : LoadCurrentDashboard(request) \/ LoadHistoricalDashboard(request)
=============================================================================
