---------------------------- MODULE WorkflowViews ----------------------------
(***************************************************************************)
(* What the interface shows of the stored runs: the queries of             *)
(* WorkflowRunsQueryService and the summary of DashboardService, as        *)
(* functions of the rows one user may see.  Each query is read at one      *)
(* moment.                                                                 *)
(***************************************************************************)
EXTENDS RunHistory, FiniteSetsExt

IsCandidate(row) ==
  /\ ~row.awaitingApproval
  /\ row.completedAt # None
  /\ row.status \in Terminal
  /\ row.workflowKind = "STANDARD"

\* Mutant of LatestTerminal: only failures are compared, a later success does not count.
LatestFailed(visible) ==
  Newest({r \in visible : Stored(r) /\ IsCandidate(rows[r]) /\ rows[r].status = "FAILED"})

LatestTerminal(visible) == Newest({r \in visible : Stored(r) /\ IsCandidate(rows[r])})

\* A merged change request whose workflow has succeeded on the target branch since.
ResolvedByTargetBranch(r, visible) ==
  /\ rows[r].changeRequestState = "MERGED" /\ rows[r].mergedAt # None
  /\ \E i \in visible :
       /\ Stored(i) /\ rows[i].status = "SUCCESS"
       /\ rows[i].workflow = rows[r].workflow
       /\ rows[i].scopeKey = <<"branch", setup.target>>
       /\ rows[i].providerCreatedAt >= rows[r].mergedAt

NeedsAttention(visible) ==
  {r \in LatestTerminal(visible) : /\ rows[r].status = "FAILED"
                                   /\ rows[r].changeRequestState # "CLOSED"
                                   /\ ~ResolvedByTargetBranch(r, visible)}

\* The newest run of each workflow and scope, whatever its state.
Current(visible) == Newest(visible \cap Rows)
AwaitingApproval(visible) == {r \in Current(visible) : rows[r].awaitingApproval}

CountStatuses(ids) == [s \in Terminal |-> Cardinality({r \in ids : rows[r].status = s})]

\* getSummary; the success rate is in tenths of a percent, rounded half up.
SuccessRate(statuses) ==
  LET decided == statuses["SUCCESS"] + statuses["FAILED"]
  IN IF decided = 0 THEN 0 ELSE (2000 * statuses["SUCCESS"] + decided) \div (2 * decided)

CompletedIn(visible, from, to) ==
  {r \in visible \cap Rows : /\ rows[r].completedAt # None
                             /\ rows[r].completedAt >= from /\ rows[r].completedAt <= to
                             /\ rows[r].status \in Terminal}

DurationOf(r) == IF rows[r].durationMs = None THEN 0 ELSE rows[r].durationMs

Summary(visible, from, to) ==
  LET completed == CompletedIn(visible, from, to)
      active == {r \in Current(visible) : rows[r].status \in {"QUEUED", "RUNNING"}}
      statuses == CountStatuses(completed)
  IN [awaitingApprovalCount |-> Cardinality({r \in active : rows[r].awaitingApproval}),
      queuedCount |-> Cardinality({r \in active : rows[r].status = "QUEUED"}),
      runningCount |-> Cardinality({r \in active : rows[r].status = "RUNNING"}),
      completedCount |-> Cardinality(completed),
      statuses |-> statuses,
      successRate |-> SuccessRate(statuses),
      totalRunDurationMs |-> MapThenSumSet(DurationOf, visible \cap Rows) + repository.retained]
=============================================================================
