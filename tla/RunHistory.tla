----------------------------- MODULE RunHistory -----------------------------
(***************************************************************************)
(* The workflow runs of one tracked repository as the database keeps them, *)
(* next to what the provider says of them.  RepositorySync and             *)
(* RunRetention change this state, WorkflowViews reads it.                 *)
(*                                                                         *)
(* Every change at the provider has an instant of its own: "now" moves on  *)
(* with it, so the instant of its last change identifies a run's state.    *)
(***************************************************************************)
EXTENDS ProviderRuns

CONSTANTS
  Runs,            \* provider run ids of the repository
  ChangeRequests,  \* numbers of its change requests
  Setups,          \* the fixed surroundings a behaviour may start with
  Syncs,           \* overlapping calls of syncRepositoryById
  Cleanups,        \* overlapping calls of deleteExpiredRuns
  MaxTime          \* bound: the longest setup.until, the last instant of a behaviour

VARIABLES
  setup,       \* the surroundings and the bounds of a behaviour: never changes
  now,         \* the clock
  remote,      \* the provider's state of each run
  change,      \* the provider's state of each change request
  rows,        \* workflow_runs
  workflows,   \* workflows: their provider ids
  repository,  \* lastSyncAt, workflowRunRetentionDays, retainedRunDurationMs
  syncFailed,  \* providerAccount.lastSyncError is set
  sync,        \* control state of each synchronization
  cleanup,     \* control state of each retention cleanup
  past         \* history: what the properties need to remember

provider == setup.provider
external == <<remote, change>>
database == <<rows, workflows, repository, syncFailed>>
vars == <<setup, now, external, database, sync, cleanup, past>>
-----------------------------------------------------------------------------
Time == 0..MaxTime
Phase == {"absent", "queued", "approval", "running", "success", "failure", "deleted"}
Done == {"success", "failure"}
Remote == [phase : Phase, created : Time, updated : Time, started : Time]
Unknown == [phase |-> "absent", created |-> 0, updated |-> 0, started |-> 0]
Visible(run) == run.phase \notin {"absent", "deleted"}

NoDays == 0   \* no repository override of the retention period

\* A workflow_runs row; "seen" and "evaluated" are history: the provider change it
\* reflects, and the last one for which the notification rules were evaluated.
NoRow ==
  [status |-> "ABSENT", awaitingApproval |-> FALSE, event |-> "", changeRequestNumber |-> None,
   providerCreatedAt |-> 0, completedAt |-> None, durationMs |-> None,
   scopeKey |-> <<>>, workflow |-> <<>>, workflowKind |-> "STANDARD",
   changeRequestState |-> "UNKNOWN", mergedAt |-> None, checkedAt |-> None,
   seen |-> 0, evaluated |-> 0]

\* What a surrounding may start with: an instant, and runs that the provider has and that
\* an earlier synchronization stored, in their present state unless they have changed since
\* the last completed one.
WasStored(k, start, lastSyncAt) ==
  /\ k.remote \in Remote /\ k.remote.phase # "absent"
  /\ k.remote.created <= k.remote.updated /\ k.remote.updated < start
  /\ DOMAIN k.row = DOMAIN NoRow /\ k.row.status \in WorkflowRunStatuses
  /\ k.row.awaitingApproval => k.row.status = "QUEUED"
  /\ k.row.seen \in 0..k.remote.updated /\ k.row.evaluated = k.row.seen
  /\ k.remote.updated < lastSyncAt => k.row.seen = k.remote.updated

ASSUME SetupsAssumption ==
  /\ Runs # {} /\ IsFiniteSet(Runs) /\ MaxTime \in Nat
  /\ \A s \in Setups :
       /\ s.provider \in ProviderTypes /\ s.pageSize \in Nat
       /\ s.start \in Time /\ s.until \in Time
       /\ s.lastSyncAt \in Time \cup {None} /\ s.lastSyncAt <= s.start
       /\ DOMAIN s.known \subseteq Runs
       /\ \A r \in DOMAIN s.known : WasStored(s.known[r], s.start, s.lastSyncAt)

Stored(r) == rows[r].status # "ABSENT"
Rows == {r \in Runs : Stored(r)}

\* The newest row of each workflow and scope among a set of runs (distinct, orderBy).
SameContext(i, j) == rows[i].workflow = rows[j].workflow /\ rows[i].scopeKey = rows[j].scopeKey
Newest(ids) ==
  {i \in ids : ~\E j \in ids : /\ SameContext(i, j)
                              /\ rows[j].providerCreatedAt > rows[i].providerCreatedAt}

\* History: a sum of durations that another writer may have made stale.
Disturbs(others) ==
  \E c \in others : cleanup[c].phase \in {"archiveDefault", "archiveOverride"}

\* How each provider words the phase of a run.
Lifecycle(phase) ==
  CASE provider = "GITLAB" ->
         (CASE phase = "queued" -> "pending" [] phase = "approval" -> "manual"
            [] phase = "failure" -> "failed" [] OTHER -> phase)
    [] provider = "FORGEJO" -> IF phase \in {"queued", "approval"} THEN "waiting" ELSE phase
    [] OTHER ->
         (CASE phase = "queued" -> "queued" [] phase = "approval" -> "waiting"
            [] phase = "running" -> "in_progress" [] OTHER -> "completed")
Conclusion(phase) ==
  IF provider \in {"GITHUB", "GITEA"} /\ phase \in Done THEN phase ELSE ""

\* The provider's answer about a run: its state, and what never changes of it.
Answer(r, run) ==
  LET known ==
        [lifecycle |-> Lifecycle(run.phase), conclusion |-> Conclusion(run.phase),
         created |-> run.created, updated |-> run.updated, started |-> run.started,
         ended |-> IF run.phase \in Done /\ provider \in {"GITLAB", "FORGEJO"} THEN run.updated ELSE None,
         duration |-> None, needApproval |-> run.phase = "approval",
         event |-> setup.fixed[r].event, branch |-> setup.fixed[r].branch,
         number |-> IF setup.fixed[r].hidden THEN None ELSE setup.fixed[r].number,
         sha |-> "sha", name |-> setup.fixed[r].name, path |-> "", workflowId |-> setup.fixed[r].name]
  IN [f \in ResponseFields(provider) |-> known[f]]

\* How a provider words the state of a change request.
ChangeRequestAnswer(c) ==
  LET merged == change[c].state = "MERGED"
  IN [mergedAt |-> IF merged THEN change[c].at ELSE None, merged |-> merged,
      state |-> IF provider = "GITLAB" /\ merged THEN "merged"
                ELSE IF change[c].state = "OPEN" THEN "open" ELSE "closed"]

\* What a synchronization makes of an answer (GitHub's lookup of a left out number included).
Resolved(r, run) ==
  ToWorkflowRun(provider, IF provider = "GITHUB"
                          THEN ResolveGitHubRun(Answer(r, run), setup.fixed[r].number)
                          ELSE Answer(r, run))

WorkflowId(run) == <<"id", run.workflowName>>
-----------------------------------------------------------------------------
(***************************************************************************)
(* The provider: runs are triggered, approved, finished, re-run under the  *)
(* same id, and deleted; change requests are closed, reopened and merged.  *)
(***************************************************************************)
Changed(r, phase) ==
  /\ now < setup.until
  /\ remote' = [remote EXCEPT ![r] =
       [phase |-> phase, updated |-> now,
        created |-> IF @.phase = "absent" THEN now ELSE @.created,
        started |-> IF @.phase \in {"absent"} \cup Done THEN now ELSE @.started]]
  /\ now' = now + 1
  /\ past' = [past EXCEPT !.quiet = FALSE, !.polled = FALSE]
  /\ UNCHANGED <<setup, change, database, sync, cleanup>>

Trigger(r, phase) == phase \in setup.triggers /\ remote[r].phase = "absent" /\ Changed(r, phase)
Start(r) == remote[r].phase \in {"queued", "approval"} /\ Changed(r, "running")
Conclude(r, phase) == remote[r].phase = "running" /\ Changed(r, phase)
Rerun(r) == setup.reruns /\ remote[r].phase \in Done /\ Changed(r, "queued")
DeleteRemote(r) == setup.deletes /\ remote[r].phase \in Done /\ Changed(r, "deleted")

ChangeRequestChanges(c, state) ==
  /\ setup.changeRequests
  /\ now < setup.until
  /\ change[c].state # "MERGED" /\ change[c].state # state
  /\ change' = [change EXCEPT ![c] = [state |-> state, at |-> now]]
  /\ now' = now + 1
  /\ past' = [past EXCEPT !.quiet = FALSE, !.polled = FALSE]
  /\ UNCHANGED <<setup, remote, database, sync, cleanup>>

Wait ==
  /\ setup.waits
  /\ now < setup.until
  /\ now' = now + 1
  /\ UNCHANGED <<setup, external, database, sync, cleanup, past>>

ProviderNext ==
  \/ \E r \in Runs : \/ \E phase \in {"queued", "approval", "running"} : Trigger(r, phase)
                     \/ Start(r) \/ Rerun(r) \/ DeleteRemote(r)
                     \/ \E phase \in Done : Conclude(r, phase)
  \/ \E c \in ChangeRequests, state \in {"OPEN", "CLOSED", "MERGED"} : ChangeRequestChanges(c, state)
  \/ Wait
=============================================================================
