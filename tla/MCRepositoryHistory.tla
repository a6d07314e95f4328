------------------------- MODULE MCRepositoryHistory -------------------------
(***************************************************************************)
(* Instances of RepositoryHistory.  Each set-up is a surrounding in which  *)
(* one part of the behaviour is in reach; TLC explores them side by side.  *)
(***************************************************************************)
EXTENDS RepositoryHistory, TLC

CONSTANTS r1, r2, s1, s2, c1, c2

MCRuns == {r1, r2}
Push == [event |-> "push", branch |-> "main", number |-> None, hidden |-> FALSE, name |-> "ci"]
PullRequest(c, h) == [event |-> "pull_request", branch |-> "topic", number |-> c, hidden |-> h, name |-> "ci"]

Base ==
  [provider |-> "GITHUB", pageSize |-> 2, fixed |-> [r \in MCRuns |-> Push], target |-> "main",
   filters |-> {}, syncs |-> {s1}, cleanups |-> {}, fails |-> FALSE, triggers |-> {"running"},
   reruns |-> FALSE, deletes |-> FALSE, changeRequests |-> FALSE, unknown |-> {}, waits |-> FALSE,
   globalDays |-> 2, nights |-> 0, overrides |-> 0,
   known |-> <<>>, lastSyncAt |-> None, start |-> 1, until |-> 4]

\* The provider's state of a run and the row of it that is stored from the start.
Known(at, phase, status, event, number, workflow, scopeKey) ==
  [remote |-> [phase |-> phase, created |-> at - 1, updated |-> at, started |-> at - 1],
   row |-> [NoRow EXCEPT !.status = status, !.event = event, !.changeRequestNumber = number,
              !.providerCreatedAt = at - 1, !.completedAt = IF status = "RUNNING" THEN None ELSE at,
              !.durationMs = IF status = "RUNNING" THEN None ELSE 1, !.workflow = workflow,
              !.scopeKey = scopeKey, !.seen = at, !.evaluated = at]]
Main(at, phase, status) == Known(at, phase, status, "push", None, <<"id", "ci">>, <<"branch", "main">>)
Topic(at, phase, status) ==
  Known(at, phase, status, "pull_request", 7, <<"id", "ci">>, <<"change-request", 7>>)
Legacy(at) == Known(at, "failure", "FAILED", "push", None, <<"legacy:name", "ci">>, <<"repository">>)

\* Two runs of one scope, listed by each provider, with pages that hold both or only one.
Superseding ==
  {[Base EXCEPT !.provider = "GITHUB", !.until = 5], [Base EXCEPT !.provider = "GITEA", !.pageSize = 1],
   [Base EXCEPT !.provider = "GITLAB", !.until = 5], [Base EXCEPT !.provider = "FORGEJO", !.until = 5, !.pageSize = 1]}

\* Runs that wait for a runner or an approval, run again, or disappear at the provider.
Changing ==
  {[Base EXCEPT !.provider = p, !.triggers = {"queued", "approval", "running"}, !.reruns = TRUE, !.deletes = TRUE]
     : p \in ProviderTypes}

\* Two synchronizations overlap while a run finishes, and any of them may fail.
Overlapping ==
  [Base EXCEPT !.known = (r1 :> Main(1, "running", "RUNNING")), !.lastSyncAt = 2, !.start = 2,
               !.syncs = {s1, s2}, !.fails = TRUE, !.until = 3]

\* Two workflows of one change request that is closed, reopened or merged; a denied workflow.
Reviewed ==
  [Base EXCEPT !.known = (r1 :> Topic(1, "failure", "FAILED")), !.lastSyncAt = 2, !.start = 2,
               !.fixed = [r \in MCRuns |->
                            [PullRequest(7, FALSE) EXCEPT !.name = IF r = r1 THEN @ ELSE "lint"]],
               !.changeRequests = TRUE, !.unknown = {"UNKNOWN"}, !.waits = TRUE, !.until = 6]
Filtered ==
  [Base EXCEPT !.fixed = [r \in MCRuns |->
                            [PullRequest(7, TRUE) EXCEPT !.name = IF r = r1 THEN @ ELSE "lint"]],
               !.filters = {[mode |-> "ALLOW", pattern |-> "*"], [mode |-> "DENY", pattern |-> "lint"]}]

\* The first synchronization after an upgrade, with a run of the earlier release.
Upgraded ==
  [Base EXCEPT !.known = (r1 :> Legacy(1)), !.lastSyncAt = 2, !.start = 2, !.until = 4, !.fails = TRUE]

\* Two stored runs expire while the policy changes and a synchronization goes on.
Expiring ==
  [Base EXCEPT !.known = (r1 :> Main(1, "success", "SUCCESS") @@ r2 :> Main(2, "failure", "FAILED")),
               !.lastSyncAt = 3, !.start = 3, !.cleanups = {c1, c2}, !.waits = TRUE, !.nights = 2]

MCSetups ==
  Superseding \cup Changing
    \cup {Overlapping, Reviewed, Filtered, Upgraded, [Upgraded EXCEPT !.until = 3, !.cleanups = {c1}, !.nights = 1],
          [Expiring EXCEPT !.overrides = 1], [Expiring EXCEPT !.provider = "GITEA"],
          [Expiring EXCEPT !.syncs = {s1, s2}, !.nights = 1], [Expiring EXCEPT !.provider = "FORGEJO", !.reruns = TRUE, !.until = 5, !.nights = 1]}

\* One synchronization at a time, no failure, both runs on the first page.
MCPolling == {[Base EXCEPT !.provider = "FORGEJO", !.until = 5]}
=============================================================================
