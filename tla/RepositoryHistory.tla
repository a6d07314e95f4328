-------------------------- MODULE RepositoryHistory --------------------------
(***************************************************************************)
(* The history of one repository as a whole: overlapping synchronizations  *)
(* and cleanups change it while the provider moves on, and the interface   *)
(* shows it.                                                               *)
(***************************************************************************)
EXTENDS RepositorySync, RunRetention, WorkflowViews

NothingPast ==
  [quiet |-> FALSE, polled |-> FALSE, missed |-> {}, overwritten |-> {},
   expired |-> [r \in Runs |-> None], checkedSince |-> None, touched |-> FALSE,
   cleanups |-> 0, overrides |-> 0]

Init ==
  /\ setup \in Setups
  /\ now = setup.start
  /\ remote = [r \in Runs |-> IF r \in DOMAIN setup.known THEN setup.known[r].remote ELSE Unknown]
  /\ change = [c \in ChangeRequests |-> [state |-> "OPEN", at |-> 0]]
  /\ rows = [r \in Runs |-> IF r \in DOMAIN setup.known THEN setup.known[r].row ELSE NoRow]
  /\ workflows = {rows[r].workflow : r \in {i \in Runs : rows[i].status # "ABSENT"}}
  /\ repository = [lastSyncAt |-> setup.lastSyncAt, retentionDays |-> NoDays, retained |-> 0]
  /\ syncFailed = FALSE
  /\ sync = [s \in Syncs |-> IdleSync]
  /\ cleanup = [c \in Cleanups |-> IdleCleanup]
  /\ past = NothingPast

Next == ProviderNext \/ SyncNext \/ RetentionNext
Spec == Init /\ [][Next]_vars
-----------------------------------------------------------------------------
\* Every variable holds a value of its kind; a run belongs to a workflow that is stored
\* (the foreign key of workflow_runs).
TypeOK ==
  /\ setup \in Setups
  /\ now \in Time
  /\ remote \in [Runs -> Remote]
  /\ \A c \in ChangeRequests : change[c].state \in ChangeRequestStates /\ change[c].at \in Time
  /\ \A r \in Runs :
       /\ DOMAIN rows[r] = DOMAIN NoRow
       /\ rows[r].status \in {"ABSENT"} \cup WorkflowRunStatuses
       /\ rows[r].changeRequestNumber \in ChangeRequests \cup {None}
       /\ {rows[r].completedAt, rows[r].durationMs, rows[r].mergedAt, rows[r].checkedAt}
            \subseteq Time \cup {None}
       /\ rows[r].changeRequestState \in ChangeRequestStates
       /\ Stored(r) => rows[r].workflow \in workflows
  /\ repository.lastSyncAt \in Time \cup {None}
  /\ repository.retentionDays \in RetentionDays \cup {NoDays}
  /\ repository.retained \in Nat
  /\ syncFailed \in BOOLEAN
  /\ \A s \in Syncs : sync[s].phase \in SyncPhase /\ DOMAIN sync[s] = DOMAIN IdleSync
  /\ \A c \in Cleanups : cleanup[c].phase \in CleanupPhase /\ DOMAIN cleanup[c] = DOMAIN IdleCleanup

AllIdle == \A s \in Syncs : At(s, "idle")
TrackedRun(r) == Visible(remote[r]) /\ Tracked(r, remote[r])

\* A stored run only ever vanishes because it completed before a cutoff that was the
\* repository's policy while the cleanup ran: neither the consolidation of a workflow of
\* the earlier release (whose deletion cascades) nor a cleanup that races a change of the
\* policy removes anything else.
OnlyExpiredRunsVanish ==
  [][\A r \in Runs :
       Stored(r) /\ rows'[r].status = "ABSENT" =>
         /\ rows[r].completedAt # None
         /\ \E c \in Cleanups : \E cutoff \in cleanup[c].policies : rows[r].completedAt < cutoff]_vars

Total == Summary(Runs, 0, now).totalRunDurationMs

\* The total run duration on the dashboard is not changed by a cleanup that deletes runs,
\* as long as no other writer ever came between the sum of a cleanup and its deletion.
DurationsSurviveRetention ==
  [][cleanup' # cleanup /\ ~past'.touched => Total' = Total]_vars

\* The approval queue and the number of approvals in the summary agree, for the current
\* runs of every provider: a run that awaits approval is stored as a queued one.
ApprovalsAreCounted ==
  Cardinality(AwaitingApproval(Runs)) = Summary(Runs, 0, now).awaitingApprovalCount

\* At any time, every change of a tracked run that came before the last completed
\* synchronization is stored and its rules are evaluated, even though synchronizations
\* overlap and fail, except for what the code is known to let go by: changes during a
\* synchronization after its listing, runs beyond the first page, GitHub runs created
\* before the cursor, rows overwritten by an overlapping, older synchronization, and rows
\* that the retention deleted in the state the run still has.
ChangesMissedOnlyInGaps ==
  \A r \in Runs :
    /\ TrackedRun(r) /\ remote[r].updated < repository.lastSyncAt
    /\ r \notin past.missed \cup past.overwritten /\ past.expired[r] # remote[r].updated
    => Absorbed(r)

Superseded(r) ==
  \E i \in Runs : /\ TrackedRun(i) /\ remote[i].phase \in Done
                  /\ remote[i].created > remote[r].created
                  /\ WorkflowId(Resolved(i, remote[i])) = WorkflowId(Resolved(r, remote[r]))
                  /\ Resolved(i, remote[i]).scopeKey = Resolved(r, remote[r]).scopeKey

\* The code reads the change request of a failed run only.
Retired(r) ==
  \E c \in ChangeRequests : c = setup.fixed[r].number /\ change[c].state \in {"CLOSED", "MERGED"}

\* After a synchronization during which nothing changed at the provider, the runs that need
\* attention are those that failed there and that no later finished run of the same
\* workflow and scope supersedes (runs let go by, and change requests that are closed or
\* merged, aside).
AttentionMirrorsProvider ==
  AllIdle /\ past.polled /\ past.missed = {} /\ past.overwritten = {} =>
    \A r \in Runs :
      /\ TrackedRun(r) /\ ~Retired(r) /\ Stored(r) /\ rows[r].changeRequestState \in {"UNKNOWN", "OPEN"}
      => (r \in NeedsAttention(Runs) <=> remote[r].phase = "failure" /\ ~Superseded(r))

RefreshInterval(state) ==
  CASE state = "OPEN" -> 0 [] state = "CLOSED" -> ClosedRefresh [] state = "UNKNOWN" -> UnknownRefresh

\* After a completed synchronization, what is stored of the change request of a current
\* failure is no older, at its start, than the refresh interval of the stored state allows,
\* for each workflow of the change request, and it was the provider's word at that time.
ChangeRequestsAreFresh ==
  AllIdle /\ past.checkedSince # None =>
    \A r \in LatestTerminal(Runs) : \A c \in ChangeRequests :
      rows[r].status = "FAILED" /\ rows[r].changeRequestNumber = c =>
        LET row == rows[r]
        IN \/ row.changeRequestState = "MERGED" /\ change[c].state = "MERGED"
           \/ /\ row.checkedAt # None
              /\ \/ row.checkedAt >= past.checkedSince
                 \/ past.checkedSince - row.checkedAt < RefreshInterval(row.changeRequestState)
              /\ \/ row.changeRequestState \in setup.unknown \cup {change[c].state}
                 \/ change[c].at >= row.checkedAt

\* After a synchronization during which neither the provider nor a cleanup changed anything,
\* no run that the provider has finished is shown as the current one of its workflow and
\* scope and as queued, running or awaiting approval, even one the listings have let go by.
ActiveRunsSettle ==
  AllIdle /\ past.polled =>
    \A r \in Current(Runs) \ past.overwritten :
      Tracked(r, remote[r]) /\ remote[r].phase \in Done => ~Active(rows[r])

\* docs/provider-webhooks.md:103: "Polling remains the source of truth for run completion
\* status": after a synchronization during which nothing changed at the provider, every
\* tracked run that has finished there is stored with that status.
PollingIsTheTruth ==
  AllIdle /\ past.polled =>
    \A r \in Runs :
      TrackedRun(r) /\ remote[r].phase \in Done =>
        rows[r].status = Resolved(r, remote[r]).status
=============================================================================
