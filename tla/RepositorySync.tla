--------------------------- MODULE RepositorySync ---------------------------
(***************************************************************************)
(* One synchronization of a repository (ProviderSyncService.syncRepository *)
(* and what it calls): the metadata check, the listing, the refresh of     *)
(* runs that are still active, the storing of each run, the evaluation of  *)
(* notification rules, and the refresh of change requests.  Each action    *)
(* ends at an await: a provider call or a database statement.              *)
(***************************************************************************)
EXTENDS RunHistory

CONSTANTS
  ClosedRefresh,   \* closedChangeRequestRefreshIntervalMs
  UnknownRefresh   \* unknownChangeRequestRefreshIntervalMs

SyncPhase == {"idle", "list", "select", "refresh", "workflow", "move", "remove",
              "upsert", "evaluate", "candidates", "ask", "store", "finish"}

NothingFound == [r \in Runs |-> Unknown]
AnyRun == CHOOSE r \in Runs : TRUE
NoAnswer == [number |-> None, state |-> "UNKNOWN", at |-> None]

\* found maps the runs of this synchronization to the provider's state when read, run
\* is the one being stored, asking the change requests still to ask about with the
\* clock they were selected at, answer what the provider said of the first.
\* startedAt, listedAt, listed and passedOver are history.
IdleSync ==
  [phase |-> "idle", cursor |-> None, found |-> NothingFound, todo |-> {}, run |-> AnyRun,
   asking |-> {}, askedAt |-> 0, answer |-> NoAnswer,
   startedAt |-> 0, listedAt |-> 0, listed |-> {}, passedOver |-> {}]

Go(s, phase) == sync' = [sync EXCEPT ![s].phase = phase]
At(s, phase) == sync[s].phase = phase

Active(row) == row.awaitingApproval \/ row.status \in {"QUEUED", "RUNNING"}
WithoutContext(row) ==
  row.status = "FAILED" /\ row.event = "pull_request" /\ row.changeRequestNumber = None
-----------------------------------------------------------------------------
\* The repository row read here is used to the end, its lastSyncAt as the cursor.  The
\* metadata check that follows only stores a new name; its failure is Throw.
StartSync(s) ==
  /\ s \in setup.syncs /\ At(s, "idle")
  /\ sync' = [sync EXCEPT ![s] = [IdleSync EXCEPT
       !.phase = "list", !.cursor = repository.lastSyncAt, !.startedAt = now]]
  /\ past' = [past EXCEPT !.quiet = \A t \in Syncs : t = s \/ At(t, "idle")]
  /\ UNCHANGED <<setup, now, external, database, cleanup>>

\* Runs the provider would list at this moment.
VisibleRuns == [r \in {i \in Runs : Visible(remote[i])} |-> Answer(r, remote[r])]

\* History: runs a listing with this cursor does not return, although it may be the first
\* since they changed: a page of other runs comes before them, or GitHub compares the
\* cursor with the creation of a run that changed later.
PassedOver(cursor) ==
  {r \in Runs :
     /\ Visible(remote[r])
     /\ \/ provider = "GITHUB" /\ cursor # None /\ remote[r].created < cursor
        \/ Cardinality({i \in Runs : /\ Visible(remote[i])
                                     /\ IF provider = "GITLAB" THEN remote[i].updated > remote[r].updated
                                        ELSE remote[i].created > remote[r].created}) >= setup.pageSize}

ListRuns(s) ==
  /\ At(s, "list")
  /\ LET listed == Listing(provider, VisibleRuns, sync[s].cursor, setup.pageSize)
     IN sync' = [sync EXCEPT ![s] =
          [@ EXCEPT !.phase = "select", !.listedAt = now, !.listed = listed,
                    !.passedOver = PassedOver(sync[s].cursor),
                    !.found = [r \in Runs |-> IF r \in listed THEN remote[r] ELSE Unknown]]]
  /\ UNCHANGED <<setup, now, external, database, cleanup, past>>

\* Mutant of RunsToRefresh: runs awaiting approval are not read again.
RunsToRefreshRunning == {r \in Newest(Rows) : rows[r].status = "RUNNING"}

\* Runs read one by one because the listing may not return them.
RunsToRefresh == {r \in Newest(Rows) : Active(rows[r]) \/ WithoutContext(rows[r])}

SelectCurrentRuns(s) ==
  /\ At(s, "select")
  /\ sync' = [sync EXCEPT ![s].phase = "refresh", ![s].todo = RunsToRefresh]
  /\ UNCHANGED <<setup, now, external, database, cleanup, past>>

\* A run that the provider does not know any more is null (404).
GetWorkflowRun(r, otherwise) == IF Visible(remote[r]) THEN remote[r] ELSE otherwise

RefreshRun(s, r) ==
  /\ At(s, "refresh") /\ r \in sync[s].todo
  /\ sync' = [sync EXCEPT ![s].todo = @ \ {r},
                          ![s].found[r] = GetWorkflowRun(r, @)]
  /\ UNCHANGED <<setup, now, external, database, cleanup, past>>

Tracked(r, run) == ShouldTrack(Resolved(r, run).workflowName, setup.filters)

StartProcessing(s) ==
  /\ At(s, "refresh") /\ sync[s].todo = {}
  /\ sync' = [sync EXCEPT ![s].phase = "workflow",
                          ![s].todo = {r \in Runs : /\ sync[s].found[r] # Unknown
                                                  /\ Tracked(r, sync[s].found[r])}]
  /\ UNCHANGED <<setup, now, external, database, cleanup, past>>
-----------------------------------------------------------------------------
(***************************************************************************)
(* persistRunAndEvaluateRules, statement by statement.                     *)
(***************************************************************************)
RunOf(s) == Resolved(sync[s].run, sync[s].found[sync[s].run])

\* Mutant of UpsertWorkflow: a workflow that is not stored yet is not created.
UpsertWorkflowOnly(s, r) ==
  /\ At(s, "workflow") /\ r \in sync[s].todo
  /\ LET run == Resolved(r, sync[s].found[r])
     IN sync' = [sync EXCEPT ![s].run = r, ![s].todo = @ \ {r},
                   ![s].phase = IF LegacyWorkflowId(run) \in workflows THEN "move" ELSE "upsert"]
  /\ UNCHANGED <<setup, now, external, database, cleanup, past>>

\* The workflow is upserted, then a workflow of the earlier release is looked for.
UpsertWorkflow(s, r) ==
  /\ At(s, "workflow") /\ r \in sync[s].todo
  /\ LET run == Resolved(r, sync[s].found[r])
     IN /\ workflows' = workflows \cup {WorkflowId(run)}
        /\ sync' = [sync EXCEPT ![s].run = r, ![s].todo = @ \ {r},
                      ![s].phase = IF LegacyWorkflowId(run) \in workflows THEN "move" ELSE "upsert"]
  /\ UNCHANGED <<setup, now, external, rows, repository, syncFailed, cleanup, past>>

\* Mutant of MoveLegacyRuns: the runs stay with the workflow that is deleted next.
MoveLegacyRunsNot(s) ==
  /\ At(s, "move")
  /\ Go(s, "remove")
  /\ UNCHANGED <<setup, now, external, database, cleanup, past>>

\* All runs of the legacy workflow get the workflow and the scope of this run.
MoveLegacyRuns(s) ==
  /\ At(s, "move")
  /\ rows' = [r \in Runs |->
       IF rows[r].workflow = LegacyWorkflowId(RunOf(s))
       THEN [rows[r] EXCEPT !.workflow = WorkflowId(RunOf(s)), !.scopeKey = RunOf(s).scopeKey]
       ELSE rows[r]]
  /\ Go(s, "remove")
  /\ UNCHANGED <<setup, now, external, workflows, repository, syncFailed, cleanup, past>>

\* The deletion cascades to runs; it throws when the workflow is gone (Throw).
RemoveLegacyWorkflow(s) ==
  /\ At(s, "remove") /\ LegacyWorkflowId(RunOf(s)) \in workflows
  /\ workflows' = workflows \ {LegacyWorkflowId(RunOf(s))}
  /\ rows' = [r \in Runs |-> IF rows[r].workflow = LegacyWorkflowId(RunOf(s)) THEN NoRow ELSE rows[r]]
  /\ Go(s, "upsert")
  /\ past' = [past EXCEPT !.touched = @ \/ Disturbs(Cleanups)]
  /\ UNCHANGED <<setup, now, external, repository, syncFailed, cleanup>>

\* Create and update set the same columns; what is known of the change request stays.
UpsertedRun(row, run, seen) ==
  [row EXCEPT
     !.status = run.status, !.awaitingApproval = run.awaitingApproval, !.event = run.event,
     !.changeRequestNumber = run.changeRequestNumber, !.providerCreatedAt = run.providerCreatedAt,
     !.completedAt = run.completedAt, !.durationMs = run.durationMs, !.scopeKey = run.scopeKey,
     !.workflow = WorkflowId(run), !.workflowKind = run.workflowKind,
     !.seen = seen]

UpsertRun(s) ==
  LET r == sync[s].run
      seen == sync[s].found[r].updated
  IN /\ At(s, "upsert")
     /\ rows' = [rows EXCEPT ![r] = UpsertedRun(@, RunOf(s), seen)]
     /\ Go(s, "evaluate")
     /\ past' = [past EXCEPT !.overwritten = IF Stored(r) /\ seen < rows[r].seen THEN @ \cup {r}
                                           ELSE IF seen = remote[r].updated THEN @ \ {r} ELSE @,
                             !.touched = @ \/ Disturbs(Cleanups)]
     /\ UNCHANGED <<setup, now, external, workflows, repository, syncFailed, cleanup>>

\* evaluateRulesForRun is given the row as the upsert returned it.
EvaluateRules(s) ==
  LET r == sync[s].run
      seen == sync[s].found[r].updated
  IN /\ At(s, "evaluate")
     /\ rows' = [rows EXCEPT ![r].evaluated = IF Stored(r) /\ seen > @ THEN seen ELSE @]
     /\ sync' = [sync EXCEPT ![s].phase = "workflow", ![s].run = AnyRun, ![s].found[r] = Unknown]
     /\ UNCHANGED <<setup, now, external, workflows, repository, syncFailed, cleanup, past>>
-----------------------------------------------------------------------------
(***************************************************************************)
(* refreshChangeRequestStates.                                             *)
(***************************************************************************)
ShouldRefresh(row, clock) ==
  CASE row.changeRequestState = "MERGED" -> FALSE
    [] row.changeRequestState = "OPEN" \/ row.checkedAt = None -> TRUE
    [] OTHER -> clock - row.checkedAt >= IF row.changeRequestState = "CLOSED"
                                         THEN ClosedRefresh ELSE UnknownRefresh

IsTerminalRun(row) ==
  /\ ~row.awaitingApproval
  /\ row.completedAt # None
  /\ row.status \in Terminal
  /\ row.workflowKind = "STANDARD"

\* Mutant of DueChangeRequests: the newest row of a change request stands for all of them.
DueChangeRequestsFirst(failures, clock) ==
  {rows[r].changeRequestNumber : r \in {i \in failures :
     /\ ShouldRefresh(rows[i], clock)
     /\ ~\E j \in failures : /\ rows[j].changeRequestNumber = rows[i].changeRequestNumber
                            /\ rows[j].providerCreatedAt < rows[i].providerCreatedAt}}

\* One row stands for each change request: one that is due, if any.
DueChangeRequests(failures, clock) ==
  {rows[r].changeRequestNumber : r \in {i \in failures : ShouldRefresh(rows[i], clock)}}

SelectCandidates(s) ==
  /\ At(s, "workflow") /\ sync[s].todo = {}
  /\ LET latest == Newest({r \in Rows : IsTerminalRun(rows[r]) /\ rows[r].changeRequestNumber # None})
         due == DueChangeRequests({r \in latest : rows[r].status = "FAILED"}, now)
     IN sync' = [sync EXCEPT ![s].phase = "ask", ![s].askedAt = IF due = {} THEN 0 ELSE now,
                             ![s].asking = due]
  /\ UNCHANGED <<setup, now, external, database, cleanup, past>>

\* The provider may not know the change request (null is stored as UNKNOWN).
AskChangeRequest(s, c) ==
  /\ At(s, "ask") /\ c \in sync[s].asking
  /\ \E state \in {ChangeRequestState(provider, ChangeRequestAnswer(c))} \cup setup.unknown :
       sync' = [sync EXCEPT ![s].phase = "store", ![s].asking = @ \ {c},
                            ![s].answer = [number |-> c, at |-> change[c].at, state |-> state]]
  /\ UNCHANGED <<setup, now, external, database, cleanup, past>>

\* Every row of the change request is updated, whatever its workflow or status.
StoreChangeRequest(s) ==
  /\ At(s, "store")
  /\ rows' = [r \in Runs |->
       IF Stored(r) /\ rows[r].changeRequestNumber = sync[s].answer.number
       THEN [rows[r] EXCEPT !.changeRequestState = sync[s].answer.state, !.checkedAt = sync[s].askedAt,
               !.mergedAt = IF sync[s].answer.state = "MERGED" THEN sync[s].answer.at ELSE None]
       ELSE rows[r]]
  /\ sync' = [sync EXCEPT ![s].phase = "ask", ![s].answer = NoAnswer]
  /\ UNCHANGED <<setup, now, external, workflows, repository, syncFailed, cleanup, past>>
-----------------------------------------------------------------------------
\* A run whose latest visible change is stored and evaluated.
Absorbed(r) ==
  /\ Stored(r) /\ rows[r].seen = remote[r].updated
  /\ rows[r].status \in {"SUCCESS", "FAILED"} => rows[r].evaluated = rows[r].seen

\* History: what this synchronization has let go by: runs that changed after its listing
\* was made, were passed over by it, or were overwritten with an older state.
FinishSync(s) ==
  /\ At(s, "ask") /\ sync[s].asking = {}
  /\ repository' = [repository EXCEPT !.lastSyncAt = now]
  /\ syncFailed' = FALSE
  /\ sync' = [sync EXCEPT ![s] = IdleSync]
  /\ past' = [past EXCEPT
       !.polled = @ \/ past.quiet,
       !.checkedSince = sync[s].startedAt,
       !.missed = {r \in @ \cup sync[s].passedOver
                       \cup {i \in Runs : remote[i].updated >= sync[s].listedAt} :
                     Visible(remote[r]) /\ ~Absorbed(r)}]
  /\ UNCHANGED <<setup, now, external, rows, workflows, cleanup>>

\* Mutant of Throw: a failed synchronization moves the cursor too.
ThrowMovesCursor(s) ==
  /\ setup.fails /\ ~At(s, "idle")
  /\ syncFailed' = TRUE
  /\ repository' = [repository EXCEPT !.lastSyncAt = now]
  /\ sync' = [sync EXCEPT ![s] = IdleSync]
  /\ past' = [past EXCEPT !.checkedSince = None]
  /\ UNCHANGED <<setup, now, external, rows, workflows, cleanup>>

\* A provider call or a statement fails (the metadata check too: the repository is gone,
\* or another one has its place): the cursor stays, what is stored stays.
Throw(s) ==
  /\ setup.fails /\ ~At(s, "idle")
  /\ syncFailed' = TRUE
  /\ sync' = [sync EXCEPT ![s] = IdleSync]
  /\ past' = [past EXCEPT !.checkedSince = None]
  /\ UNCHANGED <<setup, now, external, rows, workflows, repository, cleanup>>

\* The process stops: not even the failure is recorded.
Crash(s) ==
  /\ setup.fails /\ ~At(s, "idle")
  /\ sync' = [sync EXCEPT ![s] = IdleSync]
  /\ past' = [past EXCEPT !.checkedSince = None]
  /\ UNCHANGED <<setup, now, external, database, cleanup>>

SyncStep(s) ==
  \/ StartSync(s) \/ ListRuns(s) \/ SelectCurrentRuns(s)
  \/ \E r \in Runs : RefreshRun(s, r)
  \/ StartProcessing(s)
  \/ \E r \in Runs : UpsertWorkflow(s, r)
  \/ MoveLegacyRuns(s) \/ RemoveLegacyWorkflow(s) \/ UpsertRun(s) \/ EvaluateRules(s)
  \/ SelectCandidates(s)
  \/ \E c \in ChangeRequests : AskChangeRequest(s, c)
  \/ StoreChangeRequest(s) \/ FinishSync(s)

SyncFails == \E s \in Syncs : Throw(s) \/ Crash(s)
SyncNext == (\E s \in Syncs : SyncStep(s)) \/ SyncFails
=============================================================================
