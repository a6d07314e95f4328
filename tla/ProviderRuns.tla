---------------------------- MODULE ProviderRuns ----------------------------
(***************************************************************************)
(* What the four provider adapters make of a provider's answers: which     *)
(* workflow runs a listing returns, how a run is normalized before it is   *)
(* stored, how the state of a change request is read, and which failures   *)
(* of a request are rate limits.                                           *)
(*                                                                         *)
(* A response is a record with the fields the adapters read.  Instants     *)
(* are natural numbers, and None is null for an instant, a duration or a   *)
(* number; "" is null for a name.  Letter case is left out: the code       *)
(* lower-cases every state it compares.                                    *)
(***************************************************************************)
EXTENDS Integers, FiniteSets

None == -1

ProviderTypes == {"GITHUB", "GITLAB", "FORGEJO", "GITEA"}
WorkflowRunStatuses ==
  {"QUEUED", "RUNNING", "SUCCESS", "FAILED", "CANCELLED", "SKIPPED", "UNKNOWN"}
Terminal == WorkflowRunStatuses \ {"QUEUED", "RUNNING"}
WorkflowKinds == {"STANDARD", "DEPENDABOT_INTERNAL"}
ChangeRequestStates == {"UNKNOWN", "OPEN", "CLOSED", "MERGED"}

\* The fields of a run's answer that the adapters read, for each provider; finished_at
\* and stopped are "ended" here, a number is read from wherever the provider keeps it.
GitHubWorkflowRunResponse ==
  {"lifecycle", "conclusion", "created", "updated", "started", "event", "branch", "number",
   "sha", "name", "path"}
GitLabPipeline ==
  {"lifecycle", "created", "updated", "started", "ended", "duration", "event", "branch", "number", "name"}
GiteaWorkflowRunResponse ==
  {"lifecycle", "conclusion", "created", "updated", "started", "ended", "event", "branch", "number", "name"}
ForgejoRunResponse ==
  {"lifecycle", "created", "updated", "started", "ended", "duration", "event", "branch", "number",
   "workflowId", "needApproval"}

ResponseFields(provider) ==
  CASE provider = "GITHUB" -> GitHubWorkflowRunResponse
    [] provider = "GITLAB" -> GitLabPipeline
    [] provider = "GITEA" -> GiteaWorkflowRunResponse
    [] provider = "FORGEJO" -> ForgejoRunResponse
-----------------------------------------------------------------------------
(***************************************************************************)
(* Normalized status.                                                      *)
(***************************************************************************)
IsWorkflowRunAwaitingApproval(provider, lifecycle, conclusion) ==
  IF provider = "GITLAB" THEN lifecycle = "manual"
  ELSE lifecycle = "waiting" \/ conclusion = "action_required"

\* Mutant of QueuedStates: a run that waits is not a queued one.
QueuedStatesRunner == {"blocked", "queued", "pending", "requested", "created", "preparing", "scheduled"}

QueuedStates ==
  {"blocked", "queued", "pending", "requested", "created", "waiting",
   "waiting_for_resource", "preparing", "scheduled"}

Normalized ==
  [success |-> "SUCCESS", failure |-> "FAILED", failed |-> "FAILED",
   cancelled |-> "CANCELLED", canceled |-> "CANCELLED", skipped |-> "SKIPPED",
   action_required |-> "QUEUED"]

NormalizeWorkflowRunStatus(provider, lifecycle, conclusion) ==
  LET outcome == IF conclusion = "" THEN lifecycle ELSE conclusion
  IN CASE lifecycle \in {"in_progress", "running"} -> "RUNNING"
       [] lifecycle \in QueuedStates -> "QUEUED"
       [] OTHER -> IF outcome \in DOMAIN Normalized THEN Normalized[outcome]
                   ELSE IF provider = "GITLAB" /\ lifecycle = "manual" THEN "QUEUED"
                   ELSE "UNKNOWN"

\* The execution context in which a newer run supersedes an older one.
BuildWorkflowRunScopeKey(number, branch) ==
  IF number # None THEN <<"change-request", number>>
  ELSE IF branch # "" THEN <<"branch", branch>>
  ELSE <<"repository">>

Elapsed(started, completed) ==
  IF started # None /\ completed # None THEN completed - started ELSE None
-----------------------------------------------------------------------------
(***************************************************************************)
(* One normalized run per provider (toWorkflowRun).                        *)
(***************************************************************************)
Dependabot == "dynamic/dependabot/dependabot-updates"

\* GitHub leaves out the pull request of a historical run: a failed one is looked up
\* by its commit (found is what the lookup returns, None for nothing).
ResolveGitHubRun(run, found) ==
  IF /\ run.event = "pull_request" /\ run.number = None /\ run.sha # ""
     /\ NormalizeWorkflowRunStatus("GITHUB", run.lifecycle, run.conclusion) = "FAILED"
  THEN [run EXCEPT !.number = found]
  ELSE run

GitHubRun(run) ==
  LET completedAt == IF run.lifecycle = "completed" THEN run.updated ELSE None
      internal == run.path = Dependabot
  IN [awaitingApproval |->
        IsWorkflowRunAwaitingApproval("GITHUB", run.lifecycle, run.conclusion),
      changeRequestNumber |-> run.number, event |-> run.event,
      providerCreatedAt |-> run.created, completedAt |-> completedAt,
      durationMs |-> Elapsed(run.started, completedAt),
      status |-> NormalizeWorkflowRunStatus("GITHUB", run.lifecycle, run.conclusion),
      scopeKey |-> BuildWorkflowRunScopeKey(run.number, run.branch),
      workflowKind |-> IF internal THEN "DEPENDABOT_INTERNAL" ELSE "STANDARD",
      workflowName |-> IF internal THEN "Dependabot Updates" ELSE run.name,
      reviewable |-> run.number # None]

\* A merge request is named by the pipeline or by its ref (number, here, stands for both).
GitLabRun(run) ==
  [awaitingApproval |-> IsWorkflowRunAwaitingApproval("GITLAB", run.lifecycle, ""),
   changeRequestNumber |-> run.number, event |-> run.event,
   providerCreatedAt |-> run.created, completedAt |-> run.ended,
   durationMs |-> IF run.duration = None THEN Elapsed(run.started, run.ended) ELSE run.duration,
   status |-> NormalizeWorkflowRunStatus("GITLAB", run.lifecycle, ""),
   scopeKey |-> BuildWorkflowRunScopeKey(run.number, run.branch),
   workflowKind |-> "STANDARD",
   workflowName |-> IF run.name = "" THEN "Pipeline" ELSE run.name,
   reviewable |-> run.number # None]

GiteaRun(run) ==
  LET completedAt == IF run.ended # None THEN run.ended
                     ELSE IF run.lifecycle = "completed" THEN run.updated
                     ELSE None
  IN [awaitingApproval |->
        IsWorkflowRunAwaitingApproval("GITEA", run.lifecycle, run.conclusion),
      changeRequestNumber |-> run.number, event |-> run.event,
      providerCreatedAt |-> run.created, completedAt |-> completedAt,
      durationMs |-> Elapsed(run.started, completedAt),
      status |-> NormalizeWorkflowRunStatus("GITEA", run.lifecycle, run.conclusion),
      scopeKey |-> BuildWorkflowRunScopeKey(run.number, run.branch),
      workflowKind |-> "STANDARD",
      workflowName |-> IF run.name = "" THEN "Workflow" ELSE run.name,
      reviewable |-> FALSE]

\* Forgejo names a workflow by its file and asks for approval with a flag of its own.
ForgejoRun(run) ==
  [awaitingApproval |-> run.needApproval,
   changeRequestNumber |-> run.number, event |-> run.event,
   providerCreatedAt |-> run.created, completedAt |-> run.ended,
   durationMs |-> IF run.started # None /\ run.ended # None
                  THEN run.ended - run.started ELSE run.duration,
   status |-> NormalizeWorkflowRunStatus("FORGEJO", run.lifecycle, ""),
   scopeKey |-> BuildWorkflowRunScopeKey(run.number, run.branch),
   workflowKind |-> "STANDARD",
   workflowName |-> IF run.workflowId = "" THEN "unknown-workflow" ELSE run.workflowId,
   reviewable |-> run.needApproval]

ToWorkflowRun(provider, run) ==
  CASE provider = "GITHUB" -> GitHubRun(run)
    [] provider = "GITLAB" -> GitLabRun(run)
    [] provider = "GITEA" -> GiteaRun(run)
    [] provider = "FORGEJO" -> ForgejoRun(run)
-----------------------------------------------------------------------------
(***************************************************************************)
(* Listings.  Runs is a function from run ids to responses, cursor the     *)
(* instant of the last completed synchronization (None before the first).  *)
(***************************************************************************)
\* The n runs of a set that come first when ordered by a key, largest first.
FirstBy(runs, ids, key, n) ==
  {i \in ids : Cardinality({j \in ids : runs[j][key] > runs[i][key]}) < n}

Since(runs, cursor, key) == {i \in DOMAIN runs : cursor = None \/ runs[i][key] >= cursor}

\* created:>= the cursor, one page, newest first.
GitHubListing(runs, cursor, pageSize) ==
  FirstBy(runs, Since(runs, cursor, "created"), "created", pageSize)

\* updated_after the cursor, one page, last updated first.
GitLabListing(runs, cursor, pageSize) ==
  FirstBy(runs, Since(runs, cursor, "updated"), "updated", pageSize)

\* Gitea is not told the cursor.
GiteaListing(runs, pageSize) == FirstBy(runs, DOMAIN runs, "created", pageSize)

\* Forgejo pages through all runs, newest first, keeps those updated since the cursor,
\* and stops at the first page that is short or holds none of them (or is the last one
\* total_count allows); without a cursor it reads one page.
ForgejoListing(runs, cursor, pageSize) ==
  LET Page(k) == FirstBy(runs, DOMAIN runs, "created", k * pageSize)
                   \ FirstBy(runs, DOMAIN runs, "created", (k - 1) * pageSize)
      Recent(k) == Page(k) \cap Since(runs, cursor, "updated")
      More(k) == /\ cursor # None
                 /\ Cardinality(Page(k)) = pageSize
                 /\ Recent(k) # {}
                 /\ k * pageSize < Cardinality(DOMAIN runs)
      Read(k) == \A j \in 1..(k - 1) : More(j)
  IN UNION {Recent(k) : k \in {j \in 1..(Cardinality(DOMAIN runs) + 1) : Read(j)}}

Listing(provider, runs, cursor, pageSize) ==
  CASE provider = "GITHUB" -> GitHubListing(runs, cursor, pageSize)
    [] provider = "GITLAB" -> GitLabListing(runs, cursor, pageSize)
    [] provider = "GITEA" -> GiteaListing(runs, pageSize)
    [] provider = "FORGEJO" -> ForgejoListing(runs, cursor, pageSize)
-----------------------------------------------------------------------------
(***************************************************************************)
(* Change requests.                                                        *)
(***************************************************************************)
\* GitHub says that a pull request is merged by its date alone, the others by a state or
\* a flag as well.
GitHubChangeRequestState(answer) ==
  IF answer.mergedAt # None THEN "MERGED" ELSE IF answer.state = "closed" THEN "CLOSED" ELSE "OPEN"
GitLabChangeRequestState(answer) ==
  IF answer.mergedAt # None \/ answer.state = "merged" THEN "MERGED"
  ELSE IF answer.state = "closed" THEN "CLOSED" ELSE "OPEN"
GiteaChangeRequestState(answer) ==
  IF answer.merged \/ answer.mergedAt # None THEN "MERGED"
  ELSE IF answer.state = "closed" THEN "CLOSED" ELSE "OPEN"
ForgejoChangeRequestState(answer) ==
  IF answer.merged \/ answer.mergedAt # None THEN "MERGED"
  ELSE IF answer.state = "closed" THEN "CLOSED" ELSE "OPEN"

ChangeRequestState(provider, answer) ==
  CASE provider = "GITHUB" -> GitHubChangeRequestState(answer)
    [] provider = "GITLAB" -> GitLabChangeRequestState(answer)
    [] provider = "GITEA" -> GiteaChangeRequestState(answer)
    [] provider = "FORGEJO" -> ForgejoChangeRequestState(answer)

\* Patterns are names, or "*" for any name.
Matches(name, pattern) == pattern \in {"*", name}

\* Names are matched against the glob filters of a repository; deny rules win.
ShouldTrack(name, filters) ==
  LET Matching(mode) == \E f \in filters : f.mode = mode /\ Matches(name, f.pattern)
  IN /\ ~Matching("DENY")
     /\ (\E f \in filters : f.mode = "ALLOW") => Matching("ALLOW")

\* The providerWorkflowId under which an earlier release stored the run's workflow.
LegacyWorkflowId(run) ==
  IF run.workflowKind = "DEPENDABOT_INTERNAL" THEN <<"github", Dependabot>>
  ELSE <<"legacy:name", run.workflowName>>
=============================================================================
