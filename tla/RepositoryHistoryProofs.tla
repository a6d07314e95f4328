----------------------- MODULE RepositoryHistoryProofs -----------------------
(***************************************************************************)
(* What the history of a repository guarantees, for any number of runs,    *)
(* synchronizations and cleanups: only runs that a policy in force made    *)
(* expire vanish, every run that awaits an approval is counted, and no     *)
(* change of a run is missed except in the gaps the code is known to leave. *)
(***************************************************************************)
EXTENDS RepositoryHistory, FiniteSetTheorems, TLAPS

\* The control state of synchronizations and cleanups, as far as the proofs look at it.
SyncShape ==
  /\ DOMAIN sync = Syncs
  /\ \A s \in Syncs :
       /\ DOMAIN sync[s] = DOMAIN IdleSync
       /\ sync[s].run \in Runs /\ sync[s].todo \subseteq Runs /\ sync[s].listed \subseteq Runs
       /\ DOMAIN sync[s].found = Runs /\ sync[s].cursor \in Time \cup {None}

RowShape ==
  /\ DOMAIN rows = Runs
  /\ \A r \in Runs : DOMAIN rows[r] = DOMAIN NoRow

RepositoryShape ==
  /\ DOMAIN repository = {"lastSyncAt", "retentionDays", "retained"}
  /\ repository.lastSyncAt \in Time \cup {None}

CleanupShape ==
  /\ DOMAIN cleanup = Cleanups
  /\ \A c \in Cleanups : DOMAIN cleanup[c] = DOMAIN IdleCleanup

\* Instants at the provider lie in the past, the creation of a run before its last change.
RemoteInv ==
  /\ now \in Time
  /\ remote \in [Runs -> Remote]
  /\ \A r \in Runs : remote[r].created <= remote[r].updated /\ remote[r].updated <= now

ShapeInv == setup \in Setups /\ SyncShape /\ RowShape /\ RepositoryShape /\ CleanupShape /\ RemoteInv

-----------------------------------------------------------------------------
(* What is normalized. *)

LEMMA StatusNormalized ==
  ASSUME NEW p, NEW lifecycle, NEW conclusion
  PROVE  NormalizeWorkflowRunStatus(p, lifecycle, conclusion) \in WorkflowRunStatuses
<1>1. \A outcome \in DOMAIN Normalized : Normalized[outcome] \in WorkflowRunStatuses
  BY DEF Normalized, WorkflowRunStatuses
<1>2. {"RUNNING", "QUEUED", "UNKNOWN"} \subseteq WorkflowRunStatuses
  BY DEF WorkflowRunStatuses
<1>3. QED
  BY <1>1, <1>2 DEF NormalizeWorkflowRunStatus

LEMMA StatusResolved ==
  ASSUME setup \in Setups, NEW r \in Runs, NEW run
  PROVE  Resolved(r, run).status \in WorkflowRunStatuses /\ Resolved(r, run).status # "ABSENT"
<1>1. provider \in ProviderTypes
  BY SetupsAssumption DEF provider
<1>2. \A a : ToWorkflowRun(provider, a).status \in WorkflowRunStatuses
  BY <1>1, StatusNormalized
     DEF ProviderTypes, ToWorkflowRun, GitHubRun, GitLabRun, GiteaRun, ForgejoRun
<1>3. QED
  BY <1>2 DEF Resolved, WorkflowRunStatuses

\* A workflow of this release never has the id of one of the earlier release.
LEMMA LegacyIsOther ==
  ASSUME NEW run, NEW other
  PROVE  WorkflowId(run) # LegacyWorkflowId(other) /\ WorkflowId(run)[1] = "id"
         /\ LegacyWorkflowId(other)[1] # "id"
BY DEF WorkflowId, LegacyWorkflowId


\* A listing returns runs that the provider has, and with a cursor only Gitea's returns
\* any that have not changed since.
LEMMA ListedAreVisible ==
  ASSUME setup \in Setups, NEW cursor, NEW size
  PROVE  LET listed == Listing(provider, VisibleRuns, cursor, size)
         IN /\ listed \subseteq {r \in Runs : Visible(remote[r])}
            /\ provider # "GITEA" /\ cursor # None =>
                 \A r \in listed : IF provider = "GITHUB" THEN remote[r].created >= cursor
                                   ELSE remote[r].updated >= cursor
<1> DEFINE seen == {r \in Runs : Visible(remote[r])}
           listed == Listing(provider, VisibleRuns, cursor, size)
<1>1. DOMAIN VisibleRuns = seen
  BY DEF VisibleRuns
<1>2. \A r \in seen : /\ VisibleRuns[r]["created"] = remote[r].created
                      /\ VisibleRuns[r]["updated"] = remote[r].updated
  BY SetupsAssumption
     DEF VisibleRuns, Answer, ResponseFields, ProviderTypes, provider, GitHubWorkflowRunResponse,
         GitLabPipeline, GiteaWorkflowRunResponse, ForgejoRunResponse
<1>3. \A ids, key, n : FirstBy(VisibleRuns, ids, key, n) \subseteq ids
  BY DEF FirstBy
<1>4. \A key : Since(VisibleRuns, cursor, key) \subseteq seen
  BY <1>1 DEF Since
<1>5. CASE provider = "GITHUB"
  <2>1. listed \subseteq Since(VisibleRuns, cursor, "created")
    BY <1>3, <1>5 DEF Listing, GitHubListing
  <2>2. QED
    BY <1>1, <1>2, <1>4, <1>5, <2>1 DEF Since
<1>6. CASE provider = "GITLAB"
  <2>1. listed \subseteq Since(VisibleRuns, cursor, "updated")
    BY <1>3, <1>6 DEF Listing, GitLabListing
  <2>2. QED
    BY <1>1, <1>2, <1>4, <1>6, <2>1 DEF Since
<1>7. CASE provider = "GITEA"
  BY <1>1, <1>3, <1>7 DEF Listing, GiteaListing
<1>8. CASE provider = "FORGEJO"
  <2>1. listed \subseteq Since(VisibleRuns, cursor, "updated")
    BY <1>8 DEF Listing, ForgejoListing
  <2>2. QED
    BY <1>1, <1>2, <1>4, <1>8, <2>1 DEF Since
<1>9. QED
  BY <1>5, <1>6, <1>7, <1>8, SetupsAssumption DEF ProviderTypes, provider

-----------------------------------------------------------------------------
(* The shape of a state. *)

LEMMA IdleShape ==
  /\ IdleSync.run \in Runs /\ IdleSync.todo = {} /\ IdleSync.listed = {}
  /\ DOMAIN IdleSync.found = Runs /\ IdleSync.cursor = None /\ IdleSync.phase = "idle"
BY SetupsAssumption DEF IdleSync, AnyRun, NothingFound

LEMMA InitShape == Init => ShapeInv
<1> SUFFICES ASSUME Init
             PROVE  ShapeInv
  OBVIOUS
<1>1. setup \in Setups /\ now \in Time
  BY SetupsAssumption DEF Init
<1>2. SyncShape
  BY IdleShape DEF Init, SyncShape
<1>3. RowShape
  <2>1. \A r \in DOMAIN setup.known : DOMAIN setup.known[r].row = DOMAIN NoRow
    BY <1>1, SetupsAssumption DEF WasStored
  <2>2. QED
    BY <2>1 DEF Init, RowShape
<1>4. RepositoryShape
  BY <1>1, SetupsAssumption DEF Init, RepositoryShape
<1>5. CleanupShape
  BY DEF Init, CleanupShape
<1>6. RemoteInv
  <2>1. Unknown \in Remote /\ Unknown.created = 0 /\ Unknown.updated = 0
    BY SetupsAssumption DEF Unknown, Remote, Phase, Time
  <2>2. \A r \in Runs : /\ remote[r] \in Remote /\ remote[r].created <= remote[r].updated
                        /\ remote[r].updated <= now
    <3> SUFFICES ASSUME NEW r \in Runs
                 PROVE  /\ remote[r] \in Remote /\ remote[r].created <= remote[r].updated
                        /\ remote[r].updated <= now
      OBVIOUS
    <3>1. CASE r \in DOMAIN setup.known
      BY <1>1, <3>1, SetupsAssumption DEF Init, WasStored, Remote, Time
    <3>2. CASE r \notin DOMAIN setup.known
      BY <1>1, <2>1, <3>2 DEF Init, Time
    <3>3. QED
      BY <3>1, <3>2
  <2>3. QED
    BY <1>1, <2>2 DEF Init, RemoteInv
<1>7. QED
  BY <1>1, <1>2, <1>3, <1>4, <1>5, <1>6 DEF ShapeInv

OtherSyncsKept(s) == \A t \in Syncs : t # s => sync'[t] = sync[t]

LEMMA AskingStep ==
  ASSUME NEW s \in Syncs, SelectCandidates(s) \/ \E c \in ChangeRequests : AskChangeRequest(s, c)
  PROVE  \/ \E at, asking :
              sync' = [sync EXCEPT ![s].phase = "ask", ![s].askedAt = at, ![s].asking = asking]
         \/ \E asking, answer :
              sync' = [sync EXCEPT ![s].phase = "store", ![s].asking = asking, ![s].answer = answer]
<1>1. CASE SelectCandidates(s)
  BY <1>1 DEF SelectCandidates
<1>2. CASE \E c \in ChangeRequests : AskChangeRequest(s, c)
  BY <1>2 DEF AskChangeRequest
<1>3. QED
  BY <1>1, <1>2

LEMMA AskingKeeps ==
  ASSUME SyncShape, NEW s \in Syncs,
         SelectCandidates(s) \/ \E c \in ChangeRequests : AskChangeRequest(s, c)
  PROVE  /\ sync'[s].phase \in {"ask", "store"}
         /\ sync'[s].listed = sync[s].listed /\ sync'[s].cursor = sync[s].cursor
         /\ sync'[s].listedAt = sync[s].listedAt /\ sync'[s].passedOver = sync[s].passedOver
         /\ sync'[s].found = sync[s].found
<1>0. s \in DOMAIN sync /\ DOMAIN sync[s] = DOMAIN IdleSync
  BY DEF SyncShape
<1>1. CASE \E at, asking :
             sync' = [sync EXCEPT ![s].phase = "ask", ![s].askedAt = at, ![s].asking = asking]
  BY <1>0, <1>1 DEF IdleSync
<1>2. CASE \E asking, answer :
             sync' = [sync EXCEPT ![s].phase = "store", ![s].asking = asking, ![s].answer = answer]
  BY <1>0, <1>2 DEF IdleSync
<1>3. QED
  BY <1>1, <1>2, AskingStep

\* A step of a synchronization changes nobody else's control state.
LEMMA SyncStepShape ==
  ASSUME setup \in Setups, SyncShape, RepositoryShape, NEW s \in Syncs,
         SyncStep(s) \/ Throw(s) \/ Crash(s)
  PROVE  SyncShape' /\ OtherSyncsKept(s)
<1>1. CASE StartSync(s)
  BY <1>1, IdleShape DEF StartSync, SyncShape, OtherSyncsKept, RepositoryShape, IdleSync
<1>2. CASE ListRuns(s)
  <2>1. PICK listed \in SUBSET Runs :
          sync' = [sync EXCEPT ![s] =
            [@ EXCEPT !.phase = "select", !.listedAt = now, !.listed = listed,
                      !.passedOver = PassedOver(sync[s].cursor),
                      !.found = [r \in Runs |-> IF r \in listed THEN remote[r] ELSE Unknown]]]
    BY <1>2, ListedAreVisible DEF ListRuns
  <2>2. QED
    BY <2>1 DEF SyncShape, OtherSyncsKept, IdleSync
<1>3. CASE SelectCurrentRuns(s)
  BY <1>3 DEF SelectCurrentRuns, SyncShape, OtherSyncsKept, IdleSync, RunsToRefresh, Newest, Rows
<1>4. CASE \E r \in Runs : RefreshRun(s, r)
  BY <1>4 DEF RefreshRun, SyncShape, OtherSyncsKept, IdleSync
<1>5. CASE StartProcessing(s)
  BY <1>5 DEF StartProcessing, SyncShape, OtherSyncsKept, IdleSync
<1>6. CASE \E r \in Runs : UpsertWorkflow(s, r)
  <2>1. PICK r \in Runs : \E phase :
          sync' = [sync EXCEPT ![s].run = r, ![s].todo = @ \ {r}, ![s].phase = phase]
    BY <1>6 DEF UpsertWorkflow
  <2>2. QED
    BY <2>1 DEF SyncShape, OtherSyncsKept, IdleSync
<1>7. CASE MoveLegacyRuns(s) \/ RemoveLegacyWorkflow(s) \/ UpsertRun(s)
  <2>1. PICK phase \in {"remove", "upsert", "evaluate"} : sync' = [sync EXCEPT ![s].phase = phase]
    BY <1>7 DEF MoveLegacyRuns, RemoveLegacyWorkflow, UpsertRun, Go
  <2>2. QED
    BY <2>1 DEF SyncShape, OtherSyncsKept, IdleSync
<1>8. CASE EvaluateRules(s)
  BY <1>8, IdleShape DEF EvaluateRules, SyncShape, OtherSyncsKept, IdleSync
<1>9. CASE SelectCandidates(s) \/ \E c \in ChangeRequests : AskChangeRequest(s, c)
  <2>1. CASE \E at, asking :
               sync' = [sync EXCEPT ![s].phase = "ask", ![s].askedAt = at, ![s].asking = asking]
    BY <2>1 DEF SyncShape, OtherSyncsKept, IdleSync
  <2>2. CASE \E asking, answer :
               sync' = [sync EXCEPT ![s].phase = "store", ![s].asking = asking, ![s].answer = answer]
    BY <2>2 DEF SyncShape, OtherSyncsKept, IdleSync
  <2>3. QED
    BY <1>9, <2>1, <2>2, AskingStep
<1>11. CASE StoreChangeRequest(s)
  BY <1>11 DEF StoreChangeRequest, SyncShape, OtherSyncsKept, IdleSync
<1>12. CASE FinishSync(s) \/ Throw(s) \/ Crash(s)
  BY <1>12, IdleShape DEF FinishSync, Throw, Crash, SyncShape, OtherSyncsKept
<1>13. QED
  BY <1>1, <1>2, <1>3, <1>4, <1>5, <1>6, <1>7, <1>8, <1>9, <1>11, <1>12 DEF SyncStep

SyncMoves(s) == SyncStep(s) \/ Throw(s) \/ Crash(s)

LEMMA RowsStayRows ==
  ASSUME RowShape, NEW s \in Syncs, SyncMoves(s)
  PROVE  RowShape'
<1>1. CASE \/ StartSync(s) \/ ListRuns(s) \/ SelectCurrentRuns(s) \/ StartProcessing(s)
           \/ (\E r \in Runs : RefreshRun(s, r) \/ UpsertWorkflow(s, r)) \/ SelectCandidates(s)
           \/ (\E c \in ChangeRequests : AskChangeRequest(s, c))
           \/ FinishSync(s) \/ Throw(s) \/ Crash(s)
  <2>1. rows' = rows
    BY <1>1 DEF StartSync, ListRuns, SelectCurrentRuns, StartProcessing, RefreshRun,
                UpsertWorkflow, SelectCandidates, AskChangeRequest, FinishSync, Throw, Crash, database
  <2>2. QED
    BY <2>1 DEF RowShape
<1>2. CASE MoveLegacyRuns(s)
  BY <1>2 DEF MoveLegacyRuns, RowShape
<1>3. CASE RemoveLegacyWorkflow(s)
  BY <1>3 DEF RemoveLegacyWorkflow, RowShape
<1>4. CASE UpsertRun(s)
  BY <1>4 DEF UpsertRun, UpsertedRun, RowShape
<1>5. CASE EvaluateRules(s)
  BY <1>5 DEF EvaluateRules, RowShape
<1>6. CASE StoreChangeRequest(s)
  BY <1>6 DEF StoreChangeRequest, RowShape
<1>7. QED
  BY <1>1, <1>2, <1>3, <1>4, <1>5, <1>6 DEF SyncMoves, SyncStep

LEMMA NextShape == ShapeInv /\ [Next]_vars => ShapeInv'
<1> SUFFICES ASSUME ShapeInv, [Next]_vars
             PROVE  ShapeInv'
  OBVIOUS
<1>0. /\ setup \in Setups /\ SyncShape /\ RowShape /\ RepositoryShape /\ CleanupShape /\ RemoteInv
  BY DEF ShapeInv
<1>1. CASE UNCHANGED vars
  <2>1. SyncShape' /\ RowShape' /\ RepositoryShape' /\ CleanupShape'
    BY <1>0, <1>1 DEF vars, external, database, SyncShape, RowShape, RepositoryShape, CleanupShape
  <2>2. RemoteInv'
    BY <1>0, <1>1 DEF vars, external, RemoteInv
  <2>3. QED
    BY <1>0, <1>1, <2>1, <2>2 DEF vars, ShapeInv
<1>2. CASE ProviderNext
  <2>1. /\ UNCHANGED <<setup, database, sync, cleanup>>
        /\ \/ \E r \in Runs, phase \in Phase : Changed(r, phase)
           \/ UNCHANGED remote /\ now < setup.until /\ now' = now + 1
    BY <1>2 DEF ProviderNext, Trigger, Start, Rerun, DeleteRemote, Conclude, Changed,
                ChangeRequestChanges, Wait, external, Phase, Done
  <2>2. now < setup.until /\ now' = now + 1
    BY <2>1 DEF Changed
  <2>3. now' \in Time /\ now \in Time
    BY <1>0, <2>2, SetupsAssumption DEF RemoteInv, Time
  <2>4. ASSUME NEW r \in Runs, NEW phase \in Phase, Changed(r, phase)
        PROVE  RemoteInv'
    <3>1. remote[r] \in Remote /\ remote \in [Runs -> Remote]
      BY <1>0 DEF RemoteInv
    <3> DEFINE new == [phase |-> phase, updated |-> now,
                       created |-> IF remote[r].phase = "absent" THEN now ELSE remote[r].created,
                       started |-> IF remote[r].phase \in {"absent"} \cup Done THEN now
                                   ELSE remote[r].started]
    <3>2. remote' = [remote EXCEPT ![r] = new]
      BY <2>4 DEF Changed
    <3>3. /\ new \in Remote
          /\ new.created = (IF remote[r].phase = "absent" THEN now ELSE remote[r].created)
          /\ new.updated = now
      BY <2>3, <3>1 DEF Remote
    <3> HIDE DEF new
    <3>4. new.created <= now
      BY <1>0, <2>3, <3>1, <3>3 DEF RemoteInv, Remote, Time
    <3>5. \A i \in Runs : remote'[i] = IF i = r THEN new ELSE remote[i]
      BY <3>1, <3>2
    <3>6. \A i \in Runs : remote[i].updated \in Nat
      BY <1>0 DEF RemoteInv, Remote, Time
    <3>7. \A i \in Runs : remote'[i].created <= remote'[i].updated /\ remote'[i].updated <= now'
      BY <1>0, <2>2, <2>3, <3>3, <3>4, <3>5, <3>6 DEF RemoteInv, Time
    <3>8. QED
      BY <2>3, <3>1, <3>2, <3>3, <3>7 DEF RemoteInv
  <2>5. ASSUME UNCHANGED remote
        PROVE  RemoteInv'
    <3>1. \A r \in Runs : remote[r].updated \in Nat
      BY <1>0 DEF RemoteInv, Remote, Time
    <3>2. \A r \in Runs : remote'[r].created <= remote'[r].updated /\ remote'[r].updated <= now'
      BY <1>0, <2>2, <2>3, <2>5, <3>1 DEF RemoteInv, Time
    <3>3. remote' \in [Runs -> Remote]
      BY <1>0, <2>5 DEF RemoteInv
    <3>4. QED
      BY <2>3, <3>2, <3>3 DEF RemoteInv
  <2>6. QED
    BY <1>0, <2>1, <2>4, <2>5
       DEF ShapeInv, database, SyncShape, RowShape, RepositoryShape, CleanupShape
<1>3. ASSUME NEW s \in Syncs, SyncMoves(s)
      PROVE  ShapeInv'
  <2>1. UNCHANGED <<setup, now, external, cleanup>>
    BY <1>3 DEF SyncMoves, SyncStep, StartSync, ListRuns, SelectCurrentRuns, StartProcessing,
                RefreshRun, UpsertWorkflow, MoveLegacyRuns, RemoveLegacyWorkflow, UpsertRun,
                EvaluateRules, SelectCandidates, AskChangeRequest, StoreChangeRequest,
                FinishSync, Throw, Crash
  <2>2. repository' = repository \/ repository' = [repository EXCEPT !.lastSyncAt = now]
    BY <1>3 DEF SyncMoves, SyncStep, StartSync, ListRuns, SelectCurrentRuns, StartProcessing,
                RefreshRun, UpsertWorkflow, MoveLegacyRuns, RemoveLegacyWorkflow, UpsertRun,
                EvaluateRules, SelectCandidates, AskChangeRequest, StoreChangeRequest,
                FinishSync, Throw, Crash, database
  <2>3. RepositoryShape'
    BY <1>0, <2>2 DEF RepositoryShape, RemoteInv
  <2>4. SyncShape' /\ RowShape'
    BY <1>0, <1>3, SyncStepShape, RowsStayRows DEF SyncMoves
  <2>5. CleanupShape' /\ RemoteInv'
    BY <1>0, <2>1 DEF CleanupShape, RemoteInv, external
  <2>6. QED
    BY <1>0, <2>1, <2>3, <2>4, <2>5 DEF ShapeInv
<1>4. ASSUME RetentionNext
      PROVE  ShapeInv'
  <2>1. UNCHANGED <<setup, now, external, sync>>
    BY <1>4 DEF RetentionNext, CleanupStep, StartCleanup, SumDefault, ArchiveDefault, ReadOverrides,
                SumOverride, ArchiveOverride, CleanupFails, SetRetentionDays, SumDurations,
                ArchiveDurationsAndDeleteRuns
  <2>2. RowShape'
    <3>1. \/ rows' = rows
          \/ \E ids : rows' = [r \in Runs |-> IF r \in ids THEN NoRow ELSE rows[r]]
      BY <1>4 DEF RetentionNext, CleanupStep, StartCleanup, SumDefault, ArchiveDefault,
                  ReadOverrides, SumOverride, ArchiveOverride, CleanupFails, SetRetentionDays,
                  SumDurations, ArchiveDurationsAndDeleteRuns, database
    <3>2. QED
      BY <1>0, <3>1 DEF RowShape
  <2>3. RepositoryShape'
    <3>1. \/ repository' = repository
          \/ \E v : repository' = [repository EXCEPT !.retained = v]
          \/ \E v : repository' = [repository EXCEPT !.retentionDays = v]
      BY <1>4 DEF RetentionNext, CleanupStep, StartCleanup, SumDefault, ArchiveDefault,
                  ReadOverrides, SumOverride, ArchiveOverride, CleanupFails, SetRetentionDays,
                  SumDurations, ArchiveDurationsAndDeleteRuns, database
    <3>2. QED
      BY <1>0, <3>1 DEF RepositoryShape
  <2>4. CleanupShape'
    <3>1. ASSUME NEW c \in Cleanups, CleanupStep(c)
          PROVE  CleanupShape'
      BY <1>0, <3>1 DEF CleanupStep, StartCleanup, SumDefault, ArchiveDefault, ReadOverrides,
            SumOverride, ArchiveOverride, CleanupFails, SumDurations,
            ArchiveDurationsAndDeleteRuns, CleanupShape, IdleCleanup
    <3>2. ASSUME NEW days, SetRetentionDays(days)
          PROVE  CleanupShape'
      BY <1>0, <3>2 DEF SetRetentionDays, CleanupShape, IdleCleanup
    <3>3. QED
      BY <1>4, <3>1, <3>2 DEF RetentionNext
  <2>5. SyncShape' /\ RemoteInv'
    BY <1>0, <2>1 DEF SyncShape, RemoteInv, external
  <2>6. QED
    BY <1>0, <2>1, <2>2, <2>3, <2>4, <2>5 DEF ShapeInv
<1>5. QED
  BY <1>1, <1>2, <1>3, <1>4 DEF Next, SyncNext, SyncFails, SyncMoves

-----------------------------------------------------------------------------
(* Only expired runs vanish. *)

EffectiveCutoff(c) == GetWorkflowRunRetentionCutoff(EffectiveDays, cleanup[c].today)

\* The policy in force is one of those a cleanup has run under, and so is the override it
\* has read; without an override it applies the global one.
PoliciesCover ==
  \A c \in Cleanups :
    /\ cleanup[c].phase # "idle" => EffectiveCutoff(c) \in cleanup[c].policies
    /\ cleanup[c].phase \in {"sumDefault", "archiveDefault"} =>
         cleanup[c].cutoff = GetWorkflowRunRetentionCutoff(setup.globalDays, cleanup[c].today)
    /\ cleanup[c].phase \in {"sumOverride", "archiveOverride"} =>
         cleanup[c].cutoff \in cleanup[c].policies

\* A workflow of the earlier release is removed when its runs have moved, and no
\* synchronization gives it a run again.
LegacyIsEmpty ==
  \A s \in Syncs : At(s, "remove") =>
    \A r \in Runs : Stored(r) => rows[r].workflow # LegacyWorkflowId(RunOf(s))

VanishInv == ShapeInv /\ PoliciesCover /\ LegacyIsEmpty

\* What a step may do to the workflow of a run.
WorkflowsStay ==
  \A r \in Runs : Stored(r)' =>
    rows'[r].workflow[1] = "id" \/ (Stored(r) /\ rows'[r].workflow = rows[r].workflow)

\* A step that stores nothing and moves no run, or only to workflows of this release.
LEMMA SyncKeepsRuns ==
  ASSUME ShapeInv, NEW s \in Syncs, SyncMoves(s)
  PROVE  /\ WorkflowsStay
         /\ ~(At(s, "remove") /\ RemoveLegacyWorkflow(s)) =>
              \A r \in Runs : Stored(r) => Stored(r)'
<1>0. RowShape /\ setup \in Setups /\ SyncShape
  BY DEF ShapeInv
<1>1. CASE \/ StartSync(s) \/ ListRuns(s) \/ SelectCurrentRuns(s) \/ StartProcessing(s)
           \/ (\E r \in Runs : RefreshRun(s, r) \/ UpsertWorkflow(s, r)) \/ SelectCandidates(s)
           \/ (\E c \in ChangeRequests : AskChangeRequest(s, c))
           \/ FinishSync(s) \/ Throw(s) \/ Crash(s)
  <2>1. rows' = rows
    BY <1>1 DEF StartSync, ListRuns, SelectCurrentRuns, StartProcessing, RefreshRun,
                UpsertWorkflow, SelectCandidates, AskChangeRequest, FinishSync, Throw, Crash, database
  <2>2. QED
    BY <2>1 DEF WorkflowsStay, Stored
<1>2. CASE MoveLegacyRuns(s)
  <2>1. \A r \in Runs :
          rows'[r] = IF rows[r].workflow = LegacyWorkflowId(RunOf(s))
                     THEN [rows[r] EXCEPT !.workflow = WorkflowId(RunOf(s)),
                                          !.scopeKey = RunOf(s).scopeKey]
                     ELSE rows[r]
    BY <1>2 DEF MoveLegacyRuns
  <2>2. \A r \in Runs : rows'[r].status = rows[r].status
    BY <1>0, <2>1 DEF RowShape, NoRow
  <2>3. \A r \in Runs : \/ rows'[r].workflow = WorkflowId(RunOf(s))
                        \/ rows'[r].workflow = rows[r].workflow
    BY <1>0, <2>1 DEF RowShape, NoRow
  <2>4. QED
    BY <2>2, <2>3, LegacyIsOther DEF WorkflowsStay, Stored
<1>3. CASE RemoveLegacyWorkflow(s)
  <2>1. \A r \in Runs : rows'[r] = NoRow \/ rows'[r] = rows[r]
    BY <1>3 DEF RemoveLegacyWorkflow
  <2>2. QED
    BY <1>3, <2>1 DEF WorkflowsStay, Stored, NoRow, RemoveLegacyWorkflow
<1>4. CASE UpsertRun(s)
  <2>1. sync[s].run \in Runs
    BY <1>0 DEF SyncShape
  <2>2. PICK seen : rows' = [rows EXCEPT ![sync[s].run] = UpsertedRun(@, RunOf(s), seen)]
    BY <1>4 DEF UpsertRun
  <2>3. /\ rows'[sync[s].run].status = RunOf(s).status
        /\ rows'[sync[s].run].workflow = WorkflowId(RunOf(s))
    BY <1>0, <2>1, <2>2 DEF RowShape, NoRow, UpsertedRun
  <2>4. RunOf(s).status # "ABSENT"
    BY <1>0, <2>1, StatusResolved DEF RunOf
  <2>5. QED
    BY <1>0, <2>1, <2>2, <2>3, <2>4, LegacyIsOther DEF WorkflowsStay, Stored, RowShape
<1>5. CASE EvaluateRules(s)
  <2>1. PICK i \in Runs : \E v : rows' = [rows EXCEPT ![i].evaluated = v]
    BY <1>0, <1>5 DEF EvaluateRules, SyncShape
  <2>2. \A r \in Runs : rows'[r].status = rows[r].status /\ rows'[r].workflow = rows[r].workflow
    BY <1>0, <2>1 DEF RowShape, NoRow
  <2>3. QED
    BY <2>2 DEF WorkflowsStay, Stored
<1>6. CASE StoreChangeRequest(s)
  <2>1. \A r \in Runs : rows'[r].status = rows[r].status /\ rows'[r].workflow = rows[r].workflow
    BY <1>0, <1>6 DEF StoreChangeRequest, RowShape, NoRow
  <2>2. QED
    BY <2>1 DEF WorkflowsStay, Stored
<1>7. QED
  BY <1>1, <1>2, <1>3, <1>4, <1>5, <1>6 DEF SyncMoves, SyncStep

LEMMA InitVanish == Init => VanishInv
BY InitShape DEF Init, VanishInv, PoliciesCover, LegacyIsEmpty, IdleSync, IdleCleanup, At

LEMMA RunOfKept ==
  ASSUME SyncShape, NEW s \in Syncs, UNCHANGED setup, sync'[s].run = sync[s].run,
         sync'[s].found = sync[s].found
  PROVE  RunOf(s)' = RunOf(s)
BY DEF RunOf, Resolved, Answer, Lifecycle, Conclusion, provider

\* Only the move of its runs brings a synchronization before the removal of a workflow.
LEMMA RemovalFollowsMove ==
  ASSUME ShapeInv, NEW s \in Syncs, SyncMoves(s), At(s, "remove")'
  PROVE  MoveLegacyRuns(s)
<1>0. s \in DOMAIN sync /\ DOMAIN sync[s] = DOMAIN IdleSync
  BY DEF ShapeInv, SyncShape
<1>1. CASE StartSync(s)
  BY <1>0, <1>1 DEF StartSync, IdleSync, At
<1>2. CASE ListRuns(s)
  BY <1>0, <1>2 DEF ListRuns, IdleSync, At
<1>10. CASE SelectCurrentRuns(s) \/ StartProcessing(s)
  BY <1>0, <1>10 DEF SelectCurrentRuns, StartProcessing, IdleSync, At
<1>3. CASE \E r \in Runs : RefreshRun(s, r)
  BY <1>0, <1>3 DEF RefreshRun, IdleSync, At
<1>4. CASE \E r \in Runs : UpsertWorkflow(s, r)
  BY <1>0, <1>4 DEF UpsertWorkflow, IdleSync, At
<1>5. CASE RemoveLegacyWorkflow(s) \/ UpsertRun(s)
  BY <1>0, <1>5 DEF RemoveLegacyWorkflow, UpsertRun, Go, IdleSync, At
<1>6. CASE EvaluateRules(s)
  BY <1>0, <1>6 DEF EvaluateRules, IdleSync, At
<1>7. CASE SelectCandidates(s) \/ (\E c \in ChangeRequests : AskChangeRequest(s, c))
  BY <1>7, AskingKeeps DEF ShapeInv, At
<1>8. CASE StoreChangeRequest(s)
  BY <1>0, <1>8 DEF StoreChangeRequest, IdleSync, At
<1>9. CASE FinishSync(s) \/ Throw(s) \/ Crash(s)
  BY <1>0, <1>9 DEF FinishSync, Throw, Crash, IdleSync, At
<1>11. QED
  BY <1>1, <1>2, <1>10, <1>3, <1>4, <1>5, <1>6, <1>7, <1>8, <1>9 DEF SyncMoves, SyncStep

LEMMA LegacyStaysEmpty ==
  ASSUME ShapeInv, LegacyIsEmpty, UNCHANGED setup, WorkflowsStay,
         \A s \in Syncs : At(s, "remove")' =>
           \/ sync'[s] = sync[s]
           \/ MoveLegacyRuns(s)
  PROVE  LegacyIsEmpty'
<1> SUFFICES ASSUME NEW s \in Syncs, At(s, "remove")', NEW r \in Runs, Stored(r)'
             PROVE  rows'[r].workflow # LegacyWorkflowId(RunOf(s))'
  BY DEF LegacyIsEmpty
<1>0. SyncShape /\ RowShape
  BY DEF ShapeInv
<1>1. RunOf(s)' = RunOf(s)
  <2>1. CASE sync'[s] = sync[s]
    BY <1>0, <2>1, RunOfKept
  <2>2. CASE MoveLegacyRuns(s)
    <3>1. sync'[s].run = sync[s].run /\ sync'[s].found = sync[s].found
      BY <1>0, <2>2 DEF MoveLegacyRuns, Go, SyncShape, IdleSync
    <3>2. QED
      BY <1>0, <3>1, RunOfKept
  <2>3. QED
    BY <2>1, <2>2
<1>2. LegacyWorkflowId(RunOf(s))' = LegacyWorkflowId(RunOf(s))
  BY <1>1 DEF LegacyWorkflowId
<1>3. CASE rows'[r].workflow[1] = "id"
  BY <1>2, <1>3, LegacyIsOther
<1>4. CASE /\ rows'[r].workflow[1] # "id" /\ sync'[s] = sync[s]
  <2>1. Stored(r) /\ rows'[r].workflow = rows[r].workflow
    BY <1>4 DEF WorkflowsStay
  <2>2. At(s, "remove")
    BY <1>4 DEF At
  <2>3. QED
    BY <1>2, <2>1, <2>2 DEF LegacyIsEmpty
<1>5. CASE rows'[r].workflow[1] # "id" /\ MoveLegacyRuns(s)
  <2>1. rows'[r] = IF rows[r].workflow = LegacyWorkflowId(RunOf(s))
                   THEN [rows[r] EXCEPT !.workflow = WorkflowId(RunOf(s)),
                                        !.scopeKey = RunOf(s).scopeKey]
                   ELSE rows[r]
    BY <1>5 DEF MoveLegacyRuns
  <2>2. CASE rows[r].workflow = LegacyWorkflowId(RunOf(s))
    BY <1>0, <1>2, <1>5, <2>1, <2>2, LegacyIsOther DEF RowShape, NoRow
  <2>3. CASE rows[r].workflow # LegacyWorkflowId(RunOf(s))
    BY <1>2, <2>1, <2>3
  <2>4. QED
    BY <2>2, <2>3
<1>6. QED
  BY <1>3, <1>4, <1>5

\* The two deletions of a cleanup take only runs that a policy it ran under made expire.
LEMMA DeletedAreExpired ==
  ASSUME ShapeInv, PoliciesCover, NEW c \in Cleanups, NEW r \in Runs, Stored(r),
         \/ cleanup[c].phase = "archiveDefault" /\ r \in ByDefault(c)
         \/ cleanup[c].phase = "archiveOverride" /\ r \in Expired(c)
  PROVE  /\ rows[r].completedAt # None
         /\ \E cutoff \in cleanup[c].policies : rows[r].completedAt < cutoff
<1>1. r \in Expired(c)
  BY DEF ByDefault
<1>2. cleanup[c].cutoff \in cleanup[c].policies
  BY DEF PoliciesCover, ByDefault, EffectiveCutoff, EffectiveDays
<1>3. QED
  BY <1>1, <1>2 DEF Expired

LEMMA CleanupCovers ==
  ASSUME ShapeInv, PoliciesCover, NEW c \in Cleanups, CleanupStep(c)
  PROVE  PoliciesCover'
<1>0. CleanupShape /\ RepositoryShape
  BY DEF ShapeInv
<1>1. /\ setup' = setup /\ (\A d \in Cleanups : d # c => cleanup'[d] = cleanup[d])
      /\ repository'.retentionDays = repository.retentionDays
  BY <1>0 DEF CleanupStep, StartCleanup, SumDefault, ArchiveDefault, ReadOverrides, SumOverride,
     ArchiveOverride, CleanupFails, SumDurations, ArchiveDurationsAndDeleteRuns, CleanupShape,
     RepositoryShape, database
<1>2. EffectiveDays' = EffectiveDays
  BY <1>1 DEF EffectiveDays
<1>3. \/ cleanup'[c].phase = "idle"
      \/ /\ cleanup'[c].phase = "sumDefault"
         /\ EffectiveCutoff(c)' \in cleanup'[c].policies
         /\ cleanup'[c].cutoff = GetWorkflowRunRetentionCutoff(setup.globalDays, cleanup'[c].today)
      \/ /\ cleanup[c].phase # "idle"
         /\ cleanup'[c].today = cleanup[c].today /\ cleanup'[c].policies = cleanup[c].policies
         /\ \/ /\ cleanup'[c].cutoff = cleanup[c].cutoff
               /\ cleanup'[c].phase = "archiveDefault" => cleanup[c].phase = "sumDefault"
               /\ cleanup'[c].phase = "archiveOverride" => cleanup[c].phase = "sumOverride"
               /\ cleanup'[c].phase \notin {"sumDefault", "sumOverride"}
            \/ cleanup'[c].phase = "sumOverride" /\ cleanup'[c].cutoff = EffectiveCutoff(c)
  <2>1. CASE StartCleanup(c)
    <3>1. cleanup'[c] = [IdleCleanup EXCEPT
            !.phase = "sumDefault", !.today = now,
            !.cutoff = GetWorkflowRunRetentionCutoff(setup.globalDays, now),
            !.policies = {GetWorkflowRunRetentionCutoff(EffectiveDays, now)}]
      BY <1>0, <2>1 DEF StartCleanup, CleanupShape
    <3>2. /\ cleanup'[c].phase = "sumDefault" /\ cleanup'[c].today = now
          /\ cleanup'[c].cutoff = GetWorkflowRunRetentionCutoff(setup.globalDays, now)
          /\ cleanup'[c].policies = {GetWorkflowRunRetentionCutoff(EffectiveDays, now)}
      BY <3>1 DEF IdleCleanup
    <3>3. EffectiveCutoff(c)' = GetWorkflowRunRetentionCutoff(EffectiveDays, now)
      BY <1>2, <3>2 DEF EffectiveCutoff, GetWorkflowRunRetentionCutoff
    <3>4. QED
      BY <3>2, <3>3
  <2>2. CASE SumDefault(c) \/ SumOverride(c)
    BY <1>0, <2>2 DEF SumDefault, SumOverride, SumDurations, CleanupShape, IdleCleanup
  <2>3. CASE ArchiveDefault(c)
    <3>1. /\ cleanup[c].phase = "archiveDefault"
          /\ cleanup'[c] = [cleanup[c] EXCEPT !.phase = "overrides", !.sum = 0]
      BY <1>0, <2>3 DEF ArchiveDefault, ArchiveDurationsAndDeleteRuns, CleanupShape
    <3>2. /\ cleanup'[c].phase = "overrides" /\ cleanup'[c].today = cleanup[c].today
          /\ cleanup'[c].policies = cleanup[c].policies /\ cleanup'[c].cutoff = cleanup[c].cutoff
      BY <1>0, <3>1 DEF CleanupShape, IdleCleanup
    <3>3. QED
      BY <3>1, <3>2
  <2>7. CASE ArchiveOverride(c)
    <3>1. cleanup'[c] = IdleCleanup
      BY <1>0, <2>7 DEF ArchiveOverride, ArchiveDurationsAndDeleteRuns, CleanupShape
    <3>2. QED
      BY <3>1 DEF IdleCleanup
  <2>4. CASE ReadOverrides(c)
    BY <1>0, <2>4 DEF ReadOverrides, CleanupShape, IdleCleanup, EffectiveCutoff, EffectiveDays
  <2>5. CASE CleanupFails(c)
    BY <1>0, <2>5 DEF CleanupFails, CleanupShape, IdleCleanup
  <2>6. QED
    BY <2>1, <2>2, <2>3, <2>4, <2>5, <2>7 DEF CleanupStep
<1>4. \A d \in Cleanups : cleanup'[d].today = cleanup[d].today => EffectiveCutoff(d)' = EffectiveCutoff(d)
  BY <1>2 DEF EffectiveCutoff, GetWorkflowRunRetentionCutoff
<1> SUFFICES ASSUME NEW d \in Cleanups
             PROVE  /\ cleanup'[d].phase # "idle" => EffectiveCutoff(d)' \in cleanup'[d].policies
                    /\ cleanup'[d].phase \in {"sumDefault", "archiveDefault"} =>
                         cleanup'[d].cutoff
                           = GetWorkflowRunRetentionCutoff(setup'.globalDays, cleanup'[d].today)
                    /\ cleanup'[d].phase \in {"sumOverride", "archiveOverride"} =>
                         cleanup'[d].cutoff \in cleanup'[d].policies
  BY DEF PoliciesCover, GetWorkflowRunRetentionCutoff
<1>5. CASE d # c
  BY <1>1, <1>4, <1>5 DEF PoliciesCover
<1>6. CASE d = c
  <2>1. EffectiveCutoff(c) \in cleanup[c].policies \/ cleanup[c].phase = "idle"
    BY DEF PoliciesCover
  <2>2. QED
    BY <1>1, <1>3, <1>4, <1>6, <2>1 DEF PoliciesCover
<1>7. QED
  BY <1>5, <1>6

LEMMA PolicyCovers ==
  ASSUME ShapeInv, PoliciesCover, NEW days, SetRetentionDays(days)
  PROVE  PoliciesCover'
<1>0. CleanupShape /\ RepositoryShape
  BY DEF ShapeInv
<1>1. EffectiveDays' = (IF days = NoDays THEN setup.globalDays ELSE days) /\ setup' = setup
  BY <1>0 DEF SetRetentionDays, EffectiveDays, RepositoryShape
<1> SUFFICES ASSUME NEW d \in Cleanups
             PROVE  /\ cleanup'[d].phase # "idle" => EffectiveCutoff(d)' \in cleanup'[d].policies
                    /\ cleanup'[d].phase \in {"sumDefault", "archiveDefault"} =>
                         cleanup'[d].cutoff
                           = GetWorkflowRunRetentionCutoff(setup'.globalDays, cleanup'[d].today)
                    /\ cleanup'[d].phase \in {"sumOverride", "archiveOverride"} =>
                         cleanup'[d].cutoff \in cleanup'[d].policies
  BY DEF PoliciesCover, GetWorkflowRunRetentionCutoff
<1>2. CASE cleanup[d].phase = "idle"
  BY <1>2 DEF SetRetentionDays
<1>3. CASE cleanup[d].phase # "idle"
  <2>1. cleanup'[d] = [cleanup[d] EXCEPT !.policies = @ \cup {GetWorkflowRunRetentionCutoff(
          IF days = NoDays THEN setup.globalDays ELSE days, cleanup[d].today)}]
    BY <1>3 DEF SetRetentionDays
  <2>2. /\ cleanup'[d].phase = cleanup[d].phase /\ cleanup'[d].today = cleanup[d].today
        /\ cleanup'[d].cutoff = cleanup[d].cutoff
        /\ cleanup'[d].policies = cleanup[d].policies \cup {GetWorkflowRunRetentionCutoff(
             IF days = NoDays THEN setup.globalDays ELSE days, cleanup[d].today)}
    BY <1>0, <2>1 DEF CleanupShape, IdleCleanup
  <2>3. EffectiveCutoff(d)' \in cleanup'[d].policies
    BY <1>1, <2>2 DEF EffectiveCutoff, GetWorkflowRunRetentionCutoff
  <2>4. QED
    BY <1>1, <2>2, <2>3 DEF PoliciesCover
<1>4. QED
  BY <1>2, <1>3

LEMMA VanishNext == VanishInv /\ [Next]_vars => VanishInv'
<1> SUFFICES ASSUME VanishInv, [Next]_vars
             PROVE  PoliciesCover' /\ LegacyIsEmpty'
  BY NextShape DEF VanishInv
<1>0. ShapeInv /\ PoliciesCover /\ LegacyIsEmpty
  BY DEF VanishInv
<1>1. CASE UNCHANGED vars \/ ProviderNext
  <2>1. UNCHANGED <<setup, rows, repository, sync, cleanup>>
    BY <1>1 DEF vars, database, ProviderNext, Trigger, Start, Rerun, DeleteRemote, Conclude, Changed,
                ChangeRequestChanges, Wait
  <2>2. PoliciesCover'
    BY <1>0, <2>1 DEF PoliciesCover, EffectiveCutoff, EffectiveDays, GetWorkflowRunRetentionCutoff
  <2>3. WorkflowsStay
    BY <2>1 DEF WorkflowsStay, Stored
  <2>4. QED
    BY <1>0, <2>1, <2>2, <2>3, LegacyStaysEmpty
<1>2. ASSUME NEW s \in Syncs, SyncMoves(s)
      PROVE  PoliciesCover' /\ LegacyIsEmpty'
  <2>1. /\ UNCHANGED <<setup, cleanup>>
        /\ repository' = repository \/ repository' = [repository EXCEPT !.lastSyncAt = now]
    BY <1>2 DEF SyncMoves, SyncStep, StartSync, ListRuns, SelectCurrentRuns, StartProcessing,
                RefreshRun, UpsertWorkflow, MoveLegacyRuns, RemoveLegacyWorkflow, UpsertRun,
                EvaluateRules, SelectCandidates, AskChangeRequest, StoreChangeRequest,
                FinishSync, Throw, Crash, database
  <2>2. repository'.retentionDays = repository.retentionDays
    BY <1>0, <2>1 DEF ShapeInv, RepositoryShape
  <2>3. PoliciesCover'
    BY <1>0, <2>1, <2>2
       DEF PoliciesCover, EffectiveCutoff, EffectiveDays, GetWorkflowRunRetentionCutoff
  <2>4. OtherSyncsKept(s) /\ WorkflowsStay
    BY <1>0, <1>2, SyncStepShape, SyncKeepsRuns DEF ShapeInv, SyncMoves
  <2>5. \A t \in Syncs : At(t, "remove")' => sync'[t] = sync[t] \/ MoveLegacyRuns(t)
    BY <1>0, <1>2, <2>4, RemovalFollowsMove DEF OtherSyncsKept
  <2>6. QED
    BY <1>0, <2>1, <2>3, <2>4, <2>5, LegacyStaysEmpty
<1>3. CASE RetentionNext
  <2>1. PoliciesCover'
    BY <1>0, <1>3, CleanupCovers, PolicyCovers DEF RetentionNext
  <2>2. UNCHANGED <<setup, sync>>
    BY <1>3 DEF RetentionNext, CleanupStep, StartCleanup, SumDefault, ArchiveDefault, ReadOverrides,
                SumOverride, ArchiveOverride, CleanupFails, SetRetentionDays, SumDurations,
                ArchiveDurationsAndDeleteRuns
  <2>3. WorkflowsStay
    <3>1. \/ rows' = rows
          \/ \E ids : rows' = [r \in Runs |-> IF r \in ids THEN NoRow ELSE rows[r]]
      BY <1>3 DEF RetentionNext, CleanupStep, StartCleanup, SumDefault, ArchiveDefault,
                  ReadOverrides, SumOverride, ArchiveOverride, CleanupFails, SetRetentionDays,
                  SumDurations, ArchiveDurationsAndDeleteRuns, database
    <3>2. \A r \in Runs : rows'[r] = rows[r] \/ rows'[r] = NoRow
      BY <3>1
    <3>3. NoRow.status = "ABSENT"
      BY DEF NoRow
    <3>4. QED
      BY <3>2, <3>3 DEF WorkflowsStay, Stored
  <2>4. QED
    BY <1>0, <2>1, <2>2, <2>3, LegacyStaysEmpty
<1>4. QED
  BY <1>1, <1>2, <1>3 DEF Next, SyncNext, SyncFails, SyncMoves

\* A stored run only ever vanishes because it completed before a cutoff that was in force
\* while the cleanup that deleted it ran, however cleanups, changes of the policy, and
\* synchronizations that consolidate workflows of the earlier release overlap.
THEOREM OnlyTheExpiredVanish == Spec => OnlyExpiredRunsVanish
<1>1. VanishInv /\ [Next]_vars =>
        [\A r \in Runs :
           Stored(r) /\ rows'[r].status = "ABSENT" =>
             /\ rows[r].completedAt # None
             /\ \E c \in Cleanups : \E cutoff \in cleanup[c].policies :
                  rows[r].completedAt < cutoff]_vars
  <2> SUFFICES ASSUME VanishInv, Next, NEW r \in Runs, Stored(r), rows'[r].status = "ABSENT"
               PROVE  /\ rows[r].completedAt # None
                      /\ \E c \in Cleanups : \E cutoff \in cleanup[c].policies :
                           rows[r].completedAt < cutoff
    OBVIOUS
  <2>0. ShapeInv /\ PoliciesCover /\ LegacyIsEmpty
    BY DEF VanishInv
  <2>1. CASE ProviderNext
    <3>1. rows' = rows
      BY <2>1 DEF database, ProviderNext, Trigger, Start, Rerun, DeleteRemote, Conclude, Changed,
                  ChangeRequestChanges, Wait
    <3>2. QED
      BY <3>1 DEF Stored
  <2>2. ASSUME NEW s \in Syncs, SyncMoves(s)
        PROVE  FALSE
    <3>1. At(s, "remove") /\ RemoveLegacyWorkflow(s)
      BY <2>0, <2>2, SyncKeepsRuns DEF Stored
    <3>2. rows[r].workflow # LegacyWorkflowId(RunOf(s))
      BY <2>0, <3>1 DEF LegacyIsEmpty
    <3>3. rows'[r] = rows[r]
      BY <3>1, <3>2 DEF RemoveLegacyWorkflow
    <3>4. QED
      BY <3>3 DEF Stored
  <2>3. CASE RetentionNext
    <3>1. PICK c \in Cleanups : ArchiveDefault(c) \/ ArchiveOverride(c)
      BY <2>3 DEF RetentionNext, CleanupStep, StartCleanup, SumDefault, ReadOverrides, SumOverride,
                  CleanupFails, SetRetentionDays, SumDurations, database, Stored
    <3>2. \/ cleanup[c].phase = "archiveDefault" /\ r \in ByDefault(c)
          \/ cleanup[c].phase = "archiveOverride" /\ r \in Expired(c)
      BY <3>1 DEF ArchiveDefault, ArchiveOverride, ArchiveDurationsAndDeleteRuns, Stored
    <3>3. QED
      BY <2>0, <3>2, DeletedAreExpired
  <2>4. QED
    BY <2>1, <2>2, <2>3 DEF Next, SyncNext, SyncFails, SyncMoves
<1>2. QED
  BY <1>1, InitVanish, VanishNext, PTL DEF Spec, OnlyExpiredRunsVanish

-----------------------------------------------------------------------------
(* What synchronizations have found. *)

\* Every run that is or will be stored was found, and each is stored once.
FoundOnce(s) ==
  /\ sync[s].phase \in {"workflow", "move", "remove", "upsert", "evaluate"} =>
       \A r \in sync[s].todo : sync[s].found[r] # Unknown
  /\ sync[s].phase \in {"move", "remove", "upsert", "evaluate"} =>
       sync[s].found[sync[s].run] # Unknown /\ sync[s].run \notin sync[s].todo

FoundInv ==
  /\ ShapeInv
  /\ DOMAIN past = DOMAIN NothingPast
  /\ \A s \in Syncs : FoundOnce(s)

LEMMA SyncRestarts ==
  ASSUME ShapeInv, NEW s \in Syncs, StartSync(s) \/ FinishSync(s) \/ Throw(s) \/ Crash(s)
  PROVE  sync'[s].listed = {} /\ sync'[s].phase \in {"idle", "list"}
<1>0. SyncShape
  BY DEF ShapeInv
<1>1. CASE StartSync(s)
  <2>1. sync'[s] = [IdleSync EXCEPT !.phase = "list", !.cursor = repository.lastSyncAt, !.startedAt = now]
    BY <1>0, <1>1 DEF StartSync, SyncShape
  <2>2. QED
    BY <2>1 DEF IdleSync
<1>2. CASE FinishSync(s) \/ Throw(s) \/ Crash(s)
  <2>1. sync'[s] = IdleSync
    BY <1>0, <1>2 DEF FinishSync, Throw, Crash, SyncShape
  <2>2. QED
    BY <2>1, IdleShape
<1>3. QED
  BY <1>1, <1>2

\* Between two listings a synchronization only reads runs again, or forgets them.
LEMMA ListingKept ==
  ASSUME ShapeInv, NEW s \in Syncs, SyncMoves(s),
         ~(StartSync(s) \/ FinishSync(s) \/ Throw(s) \/ Crash(s) \/ ListRuns(s))
  PROVE  /\ sync'[s].listed = sync[s].listed /\ sync'[s].cursor = sync[s].cursor
         /\ sync'[s].listedAt = sync[s].listedAt /\ sync'[s].passedOver = sync[s].passedOver
         /\ \A r \in Runs : sync'[s].found[r] \in {sync[s].found[r], Unknown, remote[r]}
<1>0. /\ s \in DOMAIN sync /\ DOMAIN sync[s] = DOMAIN IdleSync
      /\ DOMAIN sync[s].found = Runs /\ sync[s].run \in Runs
  BY DEF ShapeInv, SyncShape
<1>1. CASE SelectCurrentRuns(s)
  BY <1>0, <1>1 DEF SelectCurrentRuns, IdleSync
<1>2. ASSUME NEW r \in Runs, RefreshRun(s, r)
      PROVE  /\ sync'[s].listed = sync[s].listed /\ sync'[s].cursor = sync[s].cursor
             /\ sync'[s].listedAt = sync[s].listedAt /\ sync'[s].passedOver = sync[s].passedOver
             /\ \A i \in Runs : sync'[s].found[i] \in {sync[s].found[i], Unknown, remote[i]}
  BY <1>0, <1>2 DEF RefreshRun, GetWorkflowRun, IdleSync
<1>3. CASE StartProcessing(s)
  BY <1>0, <1>3 DEF StartProcessing, IdleSync
<1>4. CASE \E r \in Runs : UpsertWorkflow(s, r)
  BY <1>0, <1>4 DEF UpsertWorkflow, IdleSync
<1>5. CASE MoveLegacyRuns(s) \/ RemoveLegacyWorkflow(s) \/ UpsertRun(s)
  <2>1. PICK phase \in {"remove", "upsert", "evaluate"} : sync' = [sync EXCEPT ![s].phase = phase]
    BY <1>5 DEF MoveLegacyRuns, RemoveLegacyWorkflow, UpsertRun, Go
  <2>2. QED
    BY <1>0, <2>1 DEF IdleSync
<1>6. CASE EvaluateRules(s)
  BY <1>0, <1>6 DEF EvaluateRules, IdleSync
<1>7. CASE SelectCandidates(s) \/ \E c \in ChangeRequests : AskChangeRequest(s, c)
  BY <1>7, AskingKeeps DEF ShapeInv
<1>9. CASE StoreChangeRequest(s)
  BY <1>0, <1>9 DEF StoreChangeRequest, IdleSync
<1>10. QED
  BY <1>1, <1>2, <1>3, <1>4, <1>5, <1>6, <1>7, <1>9 DEF SyncMoves, SyncStep

LEMMA FoundStaysOnce ==
  ASSUME ShapeInv, NEW s \in Syncs, FoundOnce(s), SyncMoves(s)
  PROVE  FoundOnce(s)'
<1>0. /\ s \in DOMAIN sync /\ DOMAIN sync[s] = DOMAIN IdleSync
      /\ DOMAIN sync[s].found = Runs /\ sync[s].run \in Runs /\ sync[s].todo \subseteq Runs
  BY DEF ShapeInv, SyncShape
<1>1. CASE StartSync(s) \/ FinishSync(s) \/ Throw(s) \/ Crash(s)
  <2>1. sync'[s].phase \in {"idle", "list"}
    BY <1>1, SyncRestarts
  <2>2. QED
    BY <2>1 DEF FoundOnce
<1>2. CASE \/ ListRuns(s) \/ SelectCurrentRuns(s) \/ (\E r \in Runs : RefreshRun(s, r))
           \/ SelectCandidates(s) \/ (\E c \in ChangeRequests : AskChangeRequest(s, c))
           \/ StoreChangeRequest(s)
  <2>1. sync'[s].phase \in {"select", "refresh", "ask", "store"}
    <3>1. CASE ListRuns(s)
      BY <1>0, <3>1 DEF ListRuns, IdleSync
    <3>7. CASE SelectCurrentRuns(s)
      BY <1>0, <3>7 DEF SelectCurrentRuns, IdleSync
    <3>2. CASE \E r \in Runs : RefreshRun(s, r)
      BY <1>0, <3>2 DEF RefreshRun, IdleSync, At
    <3>3. CASE SelectCandidates(s) \/ \E c \in ChangeRequests : AskChangeRequest(s, c)
      BY <3>3, AskingKeeps DEF ShapeInv
    <3>5. CASE StoreChangeRequest(s)
      BY <1>0, <3>5 DEF StoreChangeRequest, IdleSync
    <3>8. QED
      BY <1>2, <3>1, <3>7, <3>2, <3>3, <3>5
  <2>2. QED
    BY <2>1 DEF FoundOnce
<1>3. CASE StartProcessing(s)
  BY <1>0, <1>3 DEF StartProcessing, FoundOnce, IdleSync
<1>4. ASSUME NEW r \in Runs, UpsertWorkflow(s, r)
      PROVE  FoundOnce(s)'
  BY <1>0, <1>4 DEF UpsertWorkflow, FoundOnce, IdleSync, At
<1>5. CASE MoveLegacyRuns(s) \/ RemoveLegacyWorkflow(s) \/ UpsertRun(s)
  <2>1. /\ sync[s].phase \in {"move", "remove", "upsert"}
        /\ sync'[s].todo = sync[s].todo /\ sync'[s].run = sync[s].run
        /\ sync'[s].found = sync[s].found
    <3>1. /\ sync[s].phase \in {"move", "remove", "upsert"}
          /\ \E phase : sync' = [sync EXCEPT ![s].phase = phase]
      BY <1>5 DEF MoveLegacyRuns, RemoveLegacyWorkflow, UpsertRun, Go, At
    <3>2. QED
      BY <1>0, <3>1 DEF IdleSync
  <2>2. QED
    BY <2>1 DEF FoundOnce
<1>6. CASE EvaluateRules(s)
  BY <1>0, <1>6 DEF EvaluateRules, FoundOnce, IdleSync, At
<1>7. QED
  BY <1>1, <1>2, <1>3, <1>4, <1>5, <1>6 DEF SyncMoves, SyncStep

LEMMA CleanupRemembers ==
  ASSUME RetentionNext
  PROVE  \/ past' = past
         \/ \E v : past' = [past EXCEPT !.cleanups = v]
         \/ \E u, v : past' = [past EXCEPT !.touched = u, !.overrides = v]
         \/ \E u, v : past' = [past EXCEPT !.touched = u, !.quiet = FALSE, !.polled = FALSE, !.expired = v]
<1>1. CASE \E days \in RetentionDays \cup {NoDays} : SetRetentionDays(days)
  BY <1>1 DEF SetRetentionDays
<1>2. ASSUME NEW c \in Cleanups, CleanupStep(c), past' # past
      PROVE  StartCleanup(c) \/ ArchiveDefault(c) \/ ArchiveOverride(c)
  BY <1>2 DEF CleanupStep, SumDefault, SumOverride, SumDurations, ReadOverrides, CleanupFails
<1>3. ASSUME NEW c \in Cleanups, StartCleanup(c)
      PROVE  \E v : past' = [past EXCEPT !.cleanups = v]
  BY <1>3 DEF StartCleanup
<1>4. ASSUME NEW c \in Cleanups, ArchiveDefault(c) \/ ArchiveOverride(c)
      PROVE  \E u, v : past' = [past EXCEPT !.touched = u, !.quiet = FALSE, !.polled = FALSE,
                                            !.expired = v]
  BY <1>4 DEF ArchiveDefault, ArchiveOverride, ArchiveDurationsAndDeleteRuns
<1>5. QED
  BY <1>1, <1>2, <1>3, <1>4 DEF RetentionNext

LEMMA NextFound == FoundInv /\ [Next]_vars => FoundInv'
<1> SUFFICES ASSUME FoundInv, [Next]_vars
             PROVE  FoundInv'
  OBVIOUS
<1>0. /\ ShapeInv /\ ShapeInv' /\ DOMAIN past = DOMAIN NothingPast
      /\ \A s \in Syncs : FoundOnce(s)
  BY NextShape DEF FoundInv
<1>1. sync' = sync => \A s \in Syncs : FoundOnce(s)'
  BY <1>0 DEF FoundOnce
<1>2. CASE UNCHANGED vars
  BY <1>0, <1>1, <1>2 DEF vars, FoundInv
<1>3. CASE ProviderNext
  <2>1. /\ sync' = sync
        /\ past' = past \/ past' = [past EXCEPT !.quiet = FALSE, !.polled = FALSE]
    BY <1>3 DEF ProviderNext, Trigger, Start, Rerun, DeleteRemote, Conclude, Changed,
                ChangeRequestChanges, Wait
  <2>2. DOMAIN past' = DOMAIN past
    BY <1>0, <2>1 DEF NothingPast
  <2>3. QED
    BY <1>0, <1>1, <2>1, <2>2 DEF FoundInv
<1>4. ASSUME NEW s \in Syncs, SyncMoves(s)
      PROVE  FoundInv'
  <2>1. \A t \in Syncs : FoundOnce(t)'
    <3>1. FoundOnce(s)'
      BY <1>0, <1>4, FoundStaysOnce
    <3>2. OtherSyncsKept(s)
      BY <1>0, <1>4, SyncStepShape DEF ShapeInv, SyncMoves
    <3>3. ASSUME NEW t \in Syncs, t # s
          PROVE  FoundOnce(t)'
      BY <1>0, <3>2, <3>3 DEF OtherSyncsKept, FoundOnce
    <3>4. QED
      BY <3>1, <3>3
  <2>2. \/ past' = past
        \/ \E v : past' = [past EXCEPT !.quiet = v]
        \/ \E v : past' = [past EXCEPT !.touched = v]
        \/ \E v : past' = [past EXCEPT !.checkedSince = v]
        \/ \E u, v : past' = [past EXCEPT !.overwritten = u, !.touched = v]
        \/ \E u, v, w : past' = [past EXCEPT !.polled = u, !.checkedSince = v, !.missed = w]
    <3>1. CASE StartSync(s) \/ RemoveLegacyWorkflow(s)
      BY <3>1 DEF StartSync, RemoveLegacyWorkflow
    <3>2. CASE FinishSync(s)
      BY <3>2 DEF FinishSync
    <3>3. CASE Throw(s) \/ Crash(s)
      BY <3>3 DEF Throw, Crash
    <3>4. CASE UpsertRun(s)
      BY <3>4 DEF UpsertRun
    <3>5. CASE ~(\/ StartSync(s) \/ RemoveLegacyWorkflow(s) \/ FinishSync(s) \/ Throw(s)
                 \/ Crash(s) \/ UpsertRun(s))
      BY <1>4, <3>5 DEF SyncMoves, SyncStep, ListRuns, SelectCurrentRuns, StartProcessing,
                RefreshRun, UpsertWorkflow, MoveLegacyRuns, EvaluateRules, SelectCandidates,
                AskChangeRequest, StoreChangeRequest
    <3>6. QED
      BY <3>1, <3>2, <3>3, <3>4, <3>5
  <2>3. DOMAIN past' = DOMAIN past
    BY <1>0, <2>2 DEF NothingPast
  <2>4. QED
    BY <1>0, <2>1, <2>3 DEF FoundInv
<1>5. CASE RetentionNext
  <2>1. sync' = sync
    BY <1>5 DEF RetentionNext, CleanupStep, StartCleanup, SumDefault, ArchiveDefault, ReadOverrides,
                SumOverride, ArchiveOverride, CleanupFails, SetRetentionDays, SumDurations,
                ArchiveDurationsAndDeleteRuns
  <2>2. \/ past' = past
        \/ \E v : past' = [past EXCEPT !.cleanups = v]
        \/ \E u, v : past' = [past EXCEPT !.touched = u, !.overrides = v]
        \/ \E u, v : past' = [past EXCEPT !.touched = u, !.quiet = FALSE, !.polled = FALSE, !.expired = v]
    BY <1>5, CleanupRemembers
  <2>3. DOMAIN past' = DOMAIN past
    BY <1>0, <2>2 DEF NothingPast
  <2>4. QED
    BY <1>0, <1>1, <2>1, <2>3 DEF FoundInv
<1>6. QED
  BY <1>2, <1>3, <1>4, <1>5 DEF Next, SyncNext, SyncFails, SyncMoves

LEMMA InitFound == Init => FoundInv
<1> SUFFICES ASSUME Init
             PROVE  FoundInv
  OBVIOUS
<1>1. \A s \in Syncs : sync[s] = IdleSync
  BY DEF Init
<1>2. \A s \in Syncs : FoundOnce(s)
  BY <1>1, IdleShape DEF FoundOnce
<1>3. DOMAIN past = DOMAIN NothingPast
  BY DEF Init, NothingPast
<1>4. QED
  BY <1>2, <1>3, InitShape DEF FoundInv

-----------------------------------------------------------------------------
(* Approvals are counted. *)

\* A stored run that awaits an approval is stored as a queued one.
ApprovalIsQueued ==
  \A r \in Runs : Stored(r) /\ rows[r].awaitingApproval => rows[r].status = "QUEUED"

\* However a provider words it, a run that awaits an approval is normalized to a queued one.
LEMMA ApprovalResolved ==
  ASSUME setup \in Setups, NEW r \in Runs, NEW run, Resolved(r, run).awaitingApproval
  PROVE  Resolved(r, run).status = "QUEUED"
<1> DEFINE a == Answer(r, run)
<1>0. provider \in ProviderTypes
  BY SetupsAssumption DEF provider
<1>1. "waiting" \in QueuedStates /\ "manual" \notin DOMAIN Normalized
      /\ "manual" \notin QueuedStates \cup {"in_progress", "running"}
      /\ "waiting" \notin {"in_progress", "running"}
  BY DEF QueuedStates, Normalized
<1>2. CASE provider = "GITHUB"
  <2> DEFINE b == ResolveGitHubRun(a, setup.fixed[r].number)
  <2>1. a.lifecycle = Lifecycle(run.phase) /\ a.conclusion = Conclusion(run.phase)
    BY <1>2 DEF Answer, ResponseFields, GitHubWorkflowRunResponse
  <2>2. b.lifecycle = a.lifecycle /\ b.conclusion = a.conclusion
    BY <1>2 DEF ResolveGitHubRun, Answer, ResponseFields, GitHubWorkflowRunResponse
  <2>3. /\ Resolved(r, run).awaitingApproval
             = IsWorkflowRunAwaitingApproval("GITHUB", b.lifecycle, b.conclusion)
        /\ Resolved(r, run).status = NormalizeWorkflowRunStatus("GITHUB", b.lifecycle, b.conclusion)
    BY <1>2 DEF Resolved, ToWorkflowRun, GitHubRun
  <2>4. b.lifecycle = "waiting"
    BY <2>1, <2>2, <2>3 DEF IsWorkflowRunAwaitingApproval, Conclusion, Done
  <2> HIDE DEF b
  <2>5. QED
    BY <1>1, <2>3, <2>4 DEF NormalizeWorkflowRunStatus
<1>3. CASE provider = "GITLAB"
  <2>1. /\ Resolved(r, run).awaitingApproval = IsWorkflowRunAwaitingApproval("GITLAB", a.lifecycle, "")
        /\ Resolved(r, run).status = NormalizeWorkflowRunStatus("GITLAB", a.lifecycle, "")
    BY <1>3 DEF Resolved, ToWorkflowRun, GitLabRun
  <2> HIDE DEF a
  <2>2. a.lifecycle = "manual"
    BY <2>1 DEF IsWorkflowRunAwaitingApproval
  <2>3. QED
    BY <1>1, <2>1, <2>2 DEF NormalizeWorkflowRunStatus
<1>4. CASE provider = "GITEA"
  <2>1. a.lifecycle = Lifecycle(run.phase) /\ a.conclusion = Conclusion(run.phase)
    BY <1>4 DEF Answer, ResponseFields, GiteaWorkflowRunResponse
  <2>2. /\ Resolved(r, run).awaitingApproval
             = IsWorkflowRunAwaitingApproval("GITEA", a.lifecycle, a.conclusion)
        /\ Resolved(r, run).status = NormalizeWorkflowRunStatus("GITEA", a.lifecycle, a.conclusion)
    BY <1>4 DEF Resolved, ToWorkflowRun, GiteaRun
  <2> HIDE DEF a
  <2>3. a.lifecycle = "waiting"
    BY <2>1, <2>2 DEF IsWorkflowRunAwaitingApproval, Conclusion, Done
  <2>4. QED
    BY <1>1, <2>2, <2>3 DEF NormalizeWorkflowRunStatus
<1>5. CASE provider = "FORGEJO"
  <2>1. a.lifecycle = Lifecycle(run.phase) /\ a.needApproval = (run.phase = "approval")
    BY <1>5 DEF Answer, ResponseFields, ForgejoRunResponse
  <2>2. /\ Resolved(r, run).awaitingApproval = a.needApproval
        /\ Resolved(r, run).status = NormalizeWorkflowRunStatus("FORGEJO", a.lifecycle, "")
    BY <1>5 DEF Resolved, ToWorkflowRun, ForgejoRun
  <2> HIDE DEF a
  <2>3. a.lifecycle = "waiting"
    BY <1>5, <2>1, <2>2 DEF Lifecycle
  <2>4. QED
    BY <1>1, <2>2, <2>3 DEF NormalizeWorkflowRunStatus
<1>6. QED
  BY <1>0, <1>2, <1>3, <1>4, <1>5 DEF ProviderTypes

LEMMA ApprovalStaysQueued ==
  ASSUME ShapeInv, ApprovalIsQueued, NEW s \in Syncs, SyncMoves(s)
  PROVE  ApprovalIsQueued'
<1>0. RowShape /\ setup \in Setups /\ SyncShape
  BY DEF ShapeInv
<1>1. ASSUME \A r \in Runs : \/ rows'[r] = NoRow
                             \/ /\ rows'[r].status = rows[r].status
                                /\ rows'[r].awaitingApproval = rows[r].awaitingApproval
      PROVE  ApprovalIsQueued'
  <2>1. NoRow.status = "ABSENT"
    BY DEF NoRow
  <2>2. QED
    BY <1>1, <2>1 DEF ApprovalIsQueued, Stored
<1>2. CASE UpsertRun(s)
  <2>1. PICK seen : rows' = [rows EXCEPT ![sync[s].run] = UpsertedRun(@, RunOf(s), seen)]
    BY <1>2 DEF UpsertRun
  <2>2. /\ rows'[sync[s].run].status = RunOf(s).status
        /\ rows'[sync[s].run].awaitingApproval = RunOf(s).awaitingApproval
    BY <1>0, <2>1 DEF SyncShape, RowShape, NoRow, UpsertedRun
  <2>3. RunOf(s).awaitingApproval => RunOf(s).status = "QUEUED"
    BY <1>0, ApprovalResolved DEF RunOf, SyncShape
  <2>4. \A r \in Runs : r # sync[s].run => rows'[r] = rows[r]
    BY <1>0, <2>1 DEF RowShape
  <2>5. QED
    BY <2>2, <2>3, <2>4 DEF ApprovalIsQueued, Stored
<1>3. CASE MoveLegacyRuns(s)
  BY <1>0, <1>1, <1>3 DEF MoveLegacyRuns, RowShape, NoRow
<1>4. CASE RemoveLegacyWorkflow(s)
  BY <1>1, <1>4 DEF RemoveLegacyWorkflow
<1>5. CASE EvaluateRules(s)
  <2>1. PICK v : rows' = [rows EXCEPT ![sync[s].run].evaluated = v]
    BY <1>5 DEF EvaluateRules
  <2>2. QED
    BY <1>0, <1>1, <2>1 DEF RowShape, NoRow
<1>6. CASE StoreChangeRequest(s)
  BY <1>0, <1>1, <1>6 DEF StoreChangeRequest, RowShape, NoRow
<1>7. CASE \/ StartSync(s) \/ ListRuns(s) \/ SelectCurrentRuns(s) \/ StartProcessing(s)
           \/ (\E r \in Runs : RefreshRun(s, r) \/ UpsertWorkflow(s, r)) \/ SelectCandidates(s)
           \/ (\E c \in ChangeRequests : AskChangeRequest(s, c))
           \/ FinishSync(s) \/ Throw(s) \/ Crash(s)
  <2>1. rows' = rows
    BY <1>7 DEF StartSync, ListRuns, SelectCurrentRuns, StartProcessing, RefreshRun,
                UpsertWorkflow, SelectCandidates, AskChangeRequest, FinishSync, Throw, Crash, database
  <2>2. QED
    BY <1>1, <2>1
<1>8. QED
  BY <1>2, <1>3, <1>4, <1>5, <1>6, <1>7 DEF SyncMoves, SyncStep

LEMMA NextApproval ==
  ShapeInv /\ ApprovalIsQueued /\ [Next]_vars => ShapeInv' /\ ApprovalIsQueued'
<1> SUFFICES ASSUME ShapeInv, ApprovalIsQueued, [Next]_vars
             PROVE  ApprovalIsQueued'
  BY NextShape
<1>1. CASE UNCHANGED vars
  BY <1>1 DEF vars, database, ApprovalIsQueued, Stored
<1>2. CASE ProviderNext
  <2>1. rows' = rows
    BY <1>2 DEF database, ProviderNext, Trigger, Start, Rerun, DeleteRemote, Conclude, Changed,
                ChangeRequestChanges, Wait
  <2>2. QED
    BY <2>1 DEF ApprovalIsQueued, Stored
<1>3. CASE RetentionNext
  <2>1. \/ rows' = rows
        \/ \E ids : rows' = [r \in Runs |-> IF r \in ids THEN NoRow ELSE rows[r]]
    BY <1>3 DEF RetentionNext, CleanupStep, StartCleanup, SumDefault, ArchiveDefault,
                ReadOverrides, SumOverride, ArchiveOverride, CleanupFails, SetRetentionDays,
                SumDurations, ArchiveDurationsAndDeleteRuns, database
  <2>2. \A r \in Runs : rows'[r] = rows[r] \/ rows'[r] = NoRow
    BY <2>1
  <2>3. NoRow.status = "ABSENT"
    BY DEF NoRow
  <2>4. QED
    BY <2>2, <2>3 DEF ApprovalIsQueued, Stored
<1>4. QED
  BY <1>1, <1>2, <1>3, ApprovalStaysQueued DEF Next, SyncNext, SyncFails, SyncMoves

\* The approval queue and the number of approvals on the dashboard agree for every provider:
\* a run that awaits an approval is stored as a queued one, which the summary counts.
THEOREM EveryApprovalIsCounted == Spec => []ApprovalsAreCounted
<1>1. Init => ShapeInv /\ ApprovalIsQueued
  <2> SUFFICES ASSUME Init, NEW r \in Runs, Stored(r), rows[r].awaitingApproval
               PROVE  rows[r].status = "QUEUED"
    BY InitShape DEF ApprovalIsQueued
  <2>1. setup \in Setups /\ rows[r] = IF r \in DOMAIN setup.known THEN setup.known[r].row ELSE NoRow
    BY DEF Init
  <2>2. NoRow.status = "ABSENT"
    BY DEF NoRow
  <2>3. QED
    BY <2>1, <2>2, SetupsAssumption DEF Stored, WasStored
<1>2. ApprovalIsQueued => ApprovalsAreCounted
  <2> SUFFICES ASSUME ApprovalIsQueued
               PROVE  ApprovalsAreCounted
    OBVIOUS
  <2> DEFINE active == {r \in Current(Runs) : rows[r].status \in {"QUEUED", "RUNNING"}}
  <2>1. \A r \in Current(Runs) : r \in Runs /\ Stored(r)
    BY DEF Current, Newest, Rows
  <2>2. AwaitingApproval(Runs) = {r \in active : rows[r].awaitingApproval}
    BY <2>1 DEF AwaitingApproval, ApprovalIsQueued
  <2>3. Summary(Runs, 0, now).awaitingApprovalCount
          = Cardinality({r \in active : rows[r].awaitingApproval})
    BY DEF Summary
  <2>4. QED
    BY <2>2, <2>3 DEF ApprovalsAreCounted
<1>3. QED
  BY <1>1, <1>2, NextApproval, PTL DEF Spec

-----------------------------------------------------------------------------
(* Changes are missed only in the gaps. *)

\* The last completed synchronization, the cursors read from it and the listings lie in the
\* past, and so do all changes at the provider.
TimesInv ==
  /\ repository.lastSyncAt <= now
  /\ \A s \in Syncs : /\ sync[s].cursor <= repository.lastSyncAt
                      /\ sync[s].listedAt \in Nat /\ sync[s].listedAt <= now
  /\ \A r \in Runs : IF remote[r].phase = "absent" THEN remote[r] = Unknown ELSE remote[r].updated < now

\* A row reflects a state the provider has had, and in the present one the status too,
\* unless the rules have been evaluated for it already; so does what the retention deleted.
RowPast(r) ==
  /\ past.expired[r] \in Int /\ past.expired[r] <= remote[r].updated
  /\ rows[r].seen \in 0..remote[r].updated /\ rows[r].evaluated \in 0..remote[r].updated
  /\ Stored(r) =>
       /\ remote[r].phase # "absent"
       /\ rows[r].seen = remote[r].updated =>
            \/ rows[r].evaluated = remote[r].updated
            \/ rows[r].status = Resolved(r, remote[r]).status

\* What a synchronization has found of a run is a state the provider has had.
FoundPast(s, r) ==
  \/ sync[s].found[r] = Unknown
  \/ /\ sync[s].found[r].updated \in 0..remote[r].updated
     /\ sync[s].found[r].updated = remote[r].updated => sync[s].found[r] = remote[r]

UpToDate(s, r) == sync[s].found[r] = remote[r]
HasExpired(r) == past.expired[r] = remote[r].updated

\* The present state of a run is stored, or was and has been overwritten; and the rules
\* have been evaluated for it.
Kept(r) == Stored(r) /\ (rows[r].seen = remote[r].updated \/ r \in past.overwritten)
Finished(r) == HasExpired(r) \/ (Kept(r) /\ rows[r].evaluated = remote[r].updated)
NoNews(r) == Resolved(r, remote[r]).status \notin {"SUCCESS", "FAILED"}

\* Changes before the last completed synchronization were let go by, or are kept.
MissedInv(r) ==
  TrackedRun(r) /\ remote[r].updated < repository.lastSyncAt =>
    r \in past.missed \/ Finished(r) \/ (Kept(r) /\ NoNews(r))

\* The runs a synchronization is answerable for once it has its listing: those that changed
\* between its cursor and the listing, and were not passed over.
AnswersFor(s, r) ==
  /\ TrackedRun(r) /\ r \notin sync[s].passedOver
  /\ sync[s].cursor <= remote[r].updated /\ remote[r].updated < sync[s].listedAt

\* It has found their present state, stores it, and has the rules evaluated for it.
Carried(s, r) ==
  /\ sync[s].phase \in {"select", "refresh"} => UpToDate(s, r)
  /\ sync[s].phase \in {"workflow", "move", "remove", "upsert", "evaluate"} =>
       \/ r \in sync[s].todo /\ UpToDate(s, r)
       \/ sync[s].phase \in {"move", "remove", "upsert"} /\ r = sync[s].run /\ UpToDate(s, r)
       \/ /\ sync[s].phase = "evaluate" /\ r = sync[s].run /\ UpToDate(s, r)
          /\ HasExpired(r) \/ Kept(r)
       \/ Finished(r)
  /\ sync[s].phase \in {"ask", "store"} => Finished(r)

GapsInv ==
  /\ VanishInv /\ FoundInv /\ TimesInv
  /\ \A r \in Runs : RowPast(r) /\ MissedInv(r)
  /\ \A s \in Syncs, r \in Runs : FoundPast(s, r) /\ (AnswersFor(s, r) => Carried(s, r))

\* A listing returns every run that changed since the cursor and was not passed over.
LEMMA ListingIsComplete ==
  ASSUME ShapeInv, NEW cursor \in Time \cup {None}, NEW r \in Runs,
         Visible(remote[r]), r \notin PassedOver(cursor), cursor <= remote[r].updated
  PROVE  r \in Listing(provider, VisibleRuns, cursor, setup.pageSize)
<1> DEFINE seen == {i \in Runs : Visible(remote[i])}
           n == setup.pageSize
<1>0. /\ provider \in ProviderTypes /\ n \in Nat /\ r \in seen /\ IsFiniteSet(seen)
  BY SetupsAssumption, FS_Subset DEF ShapeInv, provider
<1>1. DOMAIN VisibleRuns = seen
  BY DEF VisibleRuns
<1>2. \A i \in seen, key \in {"created", "updated"} : VisibleRuns[i][key] = remote[i][key]
  <2>1. \A i \in seen : /\ VisibleRuns[i]["created"] = remote[i]["created"]
                        /\ VisibleRuns[i]["updated"] = remote[i]["updated"]
    BY <1>0 DEF VisibleRuns, Answer, ResponseFields, ProviderTypes, GitHubWorkflowRunResponse,
                GitLabPipeline, GiteaWorkflowRunResponse, ForgejoRunResponse
  <2>2. QED
    BY <2>1
<1>3. ASSUME NEW key \in {"created", "updated"}, NEW ids \in SUBSET seen, r \in ids,
             Cardinality({i \in seen : remote[i][key] > remote[r][key]}) < n
      PROVE  r \in FirstBy(VisibleRuns, ids, key, n)
  <2> DEFINE ahead == {j \in ids : VisibleRuns[j][key] > VisibleRuns[r][key]}
             all == {i \in seen : remote[i][key] > remote[r][key]}
  <2>1. ahead \subseteq all /\ IsFiniteSet(all)
    BY <1>0, <1>2, <1>3, FS_Subset
  <2>2. Cardinality(ahead) \in Nat /\ Cardinality(all) \in Nat /\ Cardinality(ahead) <= Cardinality(all)
    BY <2>1, FS_Subset, FS_CardinalityType
  <2>3. Cardinality(ahead) < n
    BY <1>0, <1>3, <2>2
  <2>4. QED
    BY <1>3, <2>3 DEF FirstBy
<1>4. LET key == IF provider = "GITLAB" THEN "updated" ELSE "created"
      IN Cardinality({i \in seen : remote[i][key] > remote[r][key]}) < n
  <2> DEFINE ahead == {i \in Runs : /\ Visible(remote[i])
                                    /\ IF provider = "GITLAB" THEN remote[i].updated > remote[r].updated
                                       ELSE remote[i].created > remote[r].created}
  <2>1. ~(Cardinality(ahead) >= n)
    BY DEF PassedOver
  <2>2. IsFiniteSet(ahead)
    BY SetupsAssumption, FS_Subset
  <2>3. Cardinality(ahead) \in Nat
    BY <2>2, FS_CardinalityType
  <2>4. Cardinality(ahead) < n
    BY <1>0, <2>1, <2>3
  <2>5. CASE provider = "GITLAB"
    <3>1. ahead = {i \in seen : remote[i]["updated"] > remote[r]["updated"]}
      BY <2>5
    <3>2. QED
      BY <2>4, <2>5, <3>1
  <2>6. CASE provider # "GITLAB"
    <3>1. ahead = {i \in seen : remote[i]["created"] > remote[r]["created"]}
      BY <2>6
    <3>2. QED
      BY <2>4, <2>6, <3>1
  <2>7. QED
    BY <2>5, <2>6
<1>5. cursor \in Int /\ remote[r].updated \in Int /\ (cursor = None \/ remote[r].updated >= cursor)
  BY <1>0 DEF ShapeInv, RemoteInv, Remote, Time, None
<1>6. r \in Since(VisibleRuns, cursor, "updated")
  BY <1>0, <1>1, <1>2, <1>5 DEF Since
<1>7. \A key : Since(VisibleRuns, cursor, key) \subseteq seen
  BY <1>1 DEF Since
<1>8. CASE provider = "GITHUB"
  <2>1. cursor = None \/ remote[r].created >= cursor
    BY <1>0, <1>5, <1>8 DEF PassedOver, ShapeInv, RemoteInv, Remote, Time
  <2>2. r \in Since(VisibleRuns, cursor, "created")
    BY <1>0, <1>1, <1>2, <2>1 DEF Since
  <2>3. QED
    BY <1>3, <1>4, <1>7, <1>8, <2>2 DEF Listing, GitHubListing
<1>9. CASE provider = "GITLAB"
  BY <1>3, <1>4, <1>6, <1>7, <1>9 DEF Listing, GitLabListing
<1>10. CASE provider = "GITEA"
  BY <1>0, <1>1, <1>3, <1>4, <1>10 DEF Listing, GiteaListing
<1>11. CASE provider = "FORGEJO"
  <2>1. r \in FirstBy(VisibleRuns, seen, "created", n)
    BY <1>0, <1>3, <1>4, <1>11
  <2>2. r \notin FirstBy(VisibleRuns, seen, "created", 0)
    <3>1. Cardinality({j \in seen : VisibleRuns[j]["created"] > VisibleRuns[r]["created"]}) \in Nat
      BY <1>0, FS_Subset, FS_CardinalityType
    <3>2. QED
      BY <3>1 DEF FirstBy
  <2>3. 1 * n = n /\ (1 - 1) * n = 0
    BY <1>0
  <2>4. Cardinality(seen) \in Nat
    BY <1>0, FS_CardinalityType
  <2>5. 1 \in 1..(Cardinality(seen) + 1) /\ 1..(1 - 1) = {}
    BY <2>4
  <2>6. r \in ForgejoListing(VisibleRuns, cursor, n)
    <3> DEFINE recent(k) == (FirstBy(VisibleRuns, DOMAIN VisibleRuns, "created", k * n)
                               \ FirstBy(VisibleRuns, DOMAIN VisibleRuns, "created", (k - 1) * n))
                              \cap Since(VisibleRuns, cursor, "updated")
    <3>1. r \in recent(1)
      BY <1>1, <1>6, <2>1, <2>2, <2>3
    <3>2. recent(1) \subseteq ForgejoListing(VisibleRuns, cursor, n)
      BY <1>1, <2>5 DEF ForgejoListing
    <3>3. QED
      BY <3>1, <3>2
  <2>7. QED
    BY <1>11, <2>6 DEF Listing
<1>12. QED
  BY <1>0, <1>8, <1>9, <1>10, <1>11 DEF ProviderTypes

\* What a step may do to a row, and to what is remembered of it.
RowSame(r) ==
  /\ rows'[r].status = rows[r].status
  /\ rows'[r].seen = rows[r].seen /\ rows'[r].evaluated = rows[r].evaluated
  /\ (r \in past'.overwritten <=> r \in past.overwritten)
  /\ past'.expired[r] = past.expired[r]
RowEmptied(r) ==
  /\ rows'[r] = NoRow
  /\ past'.expired[r] = IF Stored(r) THEN Forgotten(r) ELSE past.expired[r]
RowUpserted(s, r) ==
  LET seen == sync[s].found[r].updated
  IN /\ r = sync[s].run
     /\ rows'[r].status = Resolved(r, sync[s].found[r]).status
     /\ rows'[r].seen = seen /\ rows'[r].evaluated = rows[r].evaluated
     /\ \/ Stored(r) /\ seen < rows[r].seen
        \/ r \in past.overwritten /\ seen # remote[r].updated
        => r \in past'.overwritten
     /\ past'.expired[r] = past.expired[r]
RowEvaluated(s, r) ==
  LET seen == sync[s].found[r].updated
  IN /\ r = sync[s].run
     /\ rows'[r].status = rows[r].status /\ rows'[r].seen = rows[r].seen
     /\ rows'[r].evaluated = IF Stored(r) /\ seen > rows[r].evaluated THEN seen ELSE rows[r].evaluated
     /\ (r \in past'.overwritten <=> r \in past.overwritten)
     /\ past'.expired[r] = past.expired[r]

RowMoves(r) ==
  \/ RowSame(r) \/ RowEmptied(r)
  \/ \E s \in Syncs : UpsertRun(s) /\ RowUpserted(s, r)
  \/ \E s \in Syncs : EvaluateRules(s) /\ RowEvaluated(s, r)

LEMMA SyncMovesRows ==
  ASSUME VanishInv, FoundInv, NEW s \in Syncs, SyncMoves(s), NEW r \in Runs
  PROVE  RowMoves(r)
<1>0. /\ RowShape /\ SyncShape /\ LegacyIsEmpty /\ DOMAIN past = DOMAIN NothingPast
      /\ sync[s].run \in Runs
  BY DEF VanishInv, ShapeInv, SyncShape, FoundInv
<1>1. CASE UpsertRun(s)
  <2> DEFINE i == sync[s].run
             seen == sync[s].found[i].updated
  <2>1. rows' = [rows EXCEPT ![i] = UpsertedRun(@, RunOf(s), seen)]
    BY <1>1 DEF UpsertRun
  <2>2. PICK w :
          past' = [past EXCEPT !.overwritten = IF Stored(i) /\ seen < rows[i].seen THEN @ \cup {i}
                                               ELSE IF seen = remote[i].updated THEN @ \ {i} ELSE @,
                               !.touched = w]
    BY <1>1 DEF UpsertRun
  <2>3. /\ past'.expired = past.expired
        /\ past'.overwritten = IF Stored(i) /\ seen < rows[i].seen THEN past.overwritten \cup {i}
                               ELSE IF seen = remote[i].updated THEN past.overwritten \ {i}
                               ELSE past.overwritten
    BY <1>0, <2>2 DEF NothingPast
  <2> HIDE DEF seen
  <2>4. CASE r = i
    <3>1. /\ rows'[r].status = RunOf(s).status /\ rows'[r].seen = seen
          /\ rows'[r].evaluated = rows[r].evaluated
      BY <1>0, <2>1, <2>4 DEF RowShape, NoRow, UpsertedRun
    <3>2. RowUpserted(s, r)
      BY <2>3, <2>4, <3>1 DEF RowUpserted, RunOf, seen
    <3>3. QED
      BY <1>1, <3>2 DEF RowMoves
  <2>5. CASE r # i
    BY <1>0, <2>1, <2>3, <2>5 DEF RowMoves, RowSame, RowShape
  <2>6. QED
    BY <2>4, <2>5
<1>2. CASE EvaluateRules(s)
  <2> DEFINE i == sync[s].run
             seen == sync[s].found[i].updated
             new == IF Stored(i) /\ seen > rows[i].evaluated THEN seen ELSE rows[i].evaluated
  <2>1. rows' = [rows EXCEPT ![i].evaluated = new] /\ past' = past
    BY <1>0, <1>2 DEF EvaluateRules, RowShape, NoRow
  <2> HIDE DEF new
  <2>2. CASE r = i
    <3>1. rows'[r].status = rows[r].status /\ rows'[r].seen = rows[r].seen /\ rows'[r].evaluated = new
      BY <1>0, <2>1, <2>2 DEF RowShape, NoRow
    <3>2. RowEvaluated(s, r)
      BY <2>1, <2>2, <3>1 DEF RowEvaluated, new
    <3>3. QED
      BY <1>2, <3>2 DEF RowMoves
  <2>3. CASE r # i
    BY <1>0, <2>1, <2>3 DEF RowMoves, RowSame, RowShape
  <2>4. QED
    BY <2>2, <2>3
<1>3. CASE MoveLegacyRuns(s)
  <2>1. rows'[r] = rows[r] \/ \E w, k : rows'[r] = [rows[r] EXCEPT !.workflow = w, !.scopeKey = k]
    BY <1>3 DEF MoveLegacyRuns
  <2>2. past' = past
    BY <1>3 DEF MoveLegacyRuns
  <2>3. QED
    BY <1>0, <2>1, <2>2 DEF RowMoves, RowSame, RowShape, NoRow
<1>4. CASE RemoveLegacyWorkflow(s)
  <2>1. Stored(r) => rows'[r] = rows[r]
    BY <1>0, <1>4 DEF RemoveLegacyWorkflow, LegacyIsEmpty
  <2>2. rows'[r] = rows[r] \/ rows'[r] = NoRow
    BY <1>4 DEF RemoveLegacyWorkflow
  <2>3. past'.overwritten = past.overwritten /\ past'.expired = past.expired
    BY <1>0, <1>4 DEF RemoveLegacyWorkflow, NothingPast
  <2>4. QED
    BY <2>1, <2>2, <2>3 DEF RowMoves, RowSame, RowEmptied
<1>5. CASE StoreChangeRequest(s)
  <2>1. rows'[r].status = rows[r].status /\ rows'[r].seen = rows[r].seen
        /\ rows'[r].evaluated = rows[r].evaluated /\ past' = past
    BY <1>0, <1>5 DEF StoreChangeRequest, RowShape, NoRow
  <2>2. QED
    BY <2>1 DEF RowMoves, RowSame
<1>6. CASE \/ StartSync(s) \/ ListRuns(s) \/ SelectCurrentRuns(s) \/ StartProcessing(s)
           \/ (\E i \in Runs : RefreshRun(s, i) \/ UpsertWorkflow(s, i)) \/ SelectCandidates(s)
           \/ (\E c \in ChangeRequests : AskChangeRequest(s, c))
           \/ FinishSync(s) \/ Throw(s) \/ Crash(s)
  <2>1. rows' = rows
    BY <1>6 DEF StartSync, ListRuns, SelectCurrentRuns, StartProcessing, RefreshRun,
                UpsertWorkflow, SelectCandidates, AskChangeRequest, FinishSync, Throw, Crash, database
  <2>2. \/ past' = past
        \/ \E v : past' = [past EXCEPT !.quiet = v]
        \/ \E v : past' = [past EXCEPT !.checkedSince = v]
        \/ \E u, v, w : past' = [past EXCEPT !.polled = u, !.checkedSince = v, !.missed = w]
    <3>1. CASE StartSync(s)
      BY <3>1 DEF StartSync
    <3>2. CASE FinishSync(s)
      BY <3>2 DEF FinishSync
    <3>3. CASE Throw(s) \/ Crash(s)
      BY <3>3 DEF Throw, Crash
    <3>4. CASE ~(StartSync(s) \/ FinishSync(s) \/ Throw(s) \/ Crash(s))
      BY <1>6, <3>4 DEF ListRuns, SelectCurrentRuns, StartProcessing, RefreshRun, UpsertWorkflow,
                SelectCandidates, AskChangeRequest
    <3>5. QED
      BY <3>1, <3>2, <3>3, <3>4
  <2>3. past'.overwritten = past.overwritten /\ past'.expired = past.expired
    BY <1>0, <2>2 DEF NothingPast
  <2>4. QED
    BY <2>1, <2>3 DEF RowMoves, RowSame
<1>7. QED
  BY <1>1, <1>2, <1>3, <1>4, <1>5, <1>6 DEF SyncMoves, SyncStep

LEMMA RowsMove ==
  ASSUME VanishInv, FoundInv, [Next]_vars, NEW r \in Runs
  PROVE  RowMoves(r)
<1>0. DOMAIN past = DOMAIN NothingPast
  BY DEF FoundInv
<1>1. CASE UNCHANGED vars
  BY <1>1 DEF vars, database, RowMoves, RowSame
<1>2. CASE ProviderNext
  <2>1. rows' = rows /\ (past' = past \/ past' = [past EXCEPT !.quiet = FALSE, !.polled = FALSE])
    BY <1>2 DEF database, ProviderNext, Trigger, Start, Rerun, DeleteRemote, Conclude, Changed,
                ChangeRequestChanges, Wait
  <2>2. past'.overwritten = past.overwritten /\ past'.expired = past.expired
    BY <1>0, <2>1 DEF NothingPast
  <2>3. QED
    BY <2>1, <2>2 DEF RowMoves, RowSame
<1>3. CASE RetentionNext
  <2>1. CASE \E c, ids, phase : /\ ArchiveDurationsAndDeleteRuns(c, ids, phase)
                                /\ \A i \in ids : i \in Runs /\ Stored(i)
    <3>1. PICK c, ids, phase : /\ ArchiveDurationsAndDeleteRuns(c, ids, phase)
                              /\ \A i \in ids : i \in Runs /\ Stored(i)
      BY <2>1
    <3>2. PICK v :
            past' = [past EXCEPT !.touched = v, !.quiet = FALSE, !.polled = FALSE,
                       !.expired = [i \in Runs |-> IF i \in ids THEN Forgotten(i) ELSE @[i]]]
      BY <3>1 DEF ArchiveDurationsAndDeleteRuns
    <3>3. /\ past'.overwritten = past.overwritten
          /\ past'.expired[r] = IF r \in ids THEN Forgotten(r) ELSE past.expired[r]
      BY <1>0, <3>2 DEF NothingPast
    <3>4. rows'[r] = IF r \in ids THEN NoRow ELSE rows[r]
      BY <3>1 DEF ArchiveDurationsAndDeleteRuns
    <3>5. QED
      BY <3>1, <3>3, <3>4 DEF RowMoves, RowSame, RowEmptied
  <2>2. CASE /\ rows' = rows
             /\ \/ past' = past
                \/ \E v : past' = [past EXCEPT !.cleanups = v]
                \/ \E u, v : past' = [past EXCEPT !.touched = u, !.overrides = v]
    <3>1. past'.overwritten = past.overwritten /\ past'.expired = past.expired
      BY <1>0, <2>2 DEF NothingPast
    <3>2. QED
      BY <2>2, <3>1 DEF RowMoves, RowSame
  <2>3. CASE \E days \in RetentionDays \cup {NoDays} : SetRetentionDays(days)
    BY <2>2, <2>3 DEF SetRetentionDays
  <2>4. CASE \E c \in Cleanups : ArchiveDefault(c) \/ ArchiveOverride(c)
    BY <2>1, <2>4 DEF ArchiveDefault, ArchiveOverride, ByDefault, Expired
  <2>5. CASE \E c \in Cleanups : StartCleanup(c)
    BY <2>2, <2>5 DEF StartCleanup, database
  <2>6. CASE \E c \in Cleanups : SumDefault(c) \/ SumOverride(c) \/ ReadOverrides(c) \/ CleanupFails(c)
    BY <2>2, <2>6 DEF SumDefault, SumOverride, SumDurations, ReadOverrides, CleanupFails, database
  <2>7. QED
    BY <1>3, <2>3, <2>4, <2>5, <2>6 DEF RetentionNext, CleanupStep
<1>4. QED
  BY <1>1, <1>2, <1>3, SyncMovesRows DEF Next, SyncNext, SyncFails, SyncMoves

LEMMA ResolvedKept ==
  ASSUME NEW r \in Runs, setup' = setup, remote'[r] = remote[r]
  PROVE  /\ Resolved(r, remote[r])' = Resolved(r, remote[r])
         /\ TrackedRun(r)' <=> TrackedRun(r)
<1>1. Resolved(r, remote[r])' = Resolved(r, remote[r])
  BY DEF Resolved, Answer, Lifecycle, Conclusion, provider
<1>2. QED
  BY <1>1 DEF TrackedRun, Tracked, Visible

\* The clock does not go back, the provider changes a run at an instant of its own, and the
\* cursor of the next synchronization moves to the present.
LEMMA ClockMoves ==
  ASSUME ShapeInv, [Next]_vars
  PROVE  /\ setup' = setup /\ now \in Nat /\ now' \in Nat /\ now <= now'
         /\ \A r \in Runs :
              \/ remote'[r] = remote[r]
              \/ now < now' /\ remote'[r].updated = now /\ remote'[r].phase # "absent"
         /\ \/ repository'.lastSyncAt = repository.lastSyncAt
            \/ repository'.lastSyncAt = now /\ \E s \in Syncs : FinishSync(s)
<1>0. /\ setup \in Setups /\ RepositoryShape /\ now \in Nat /\ remote \in [Runs -> Remote]
  BY DEF ShapeInv, RemoteInv, Time
<1>1. CASE UNCHANGED vars
  BY <1>0, <1>1 DEF vars, external, database
<1>2. CASE ProviderNext
  <2>1. /\ setup' = setup /\ repository' = repository /\ now' = now + 1
        /\ \/ remote' = remote
           \/ \E r \in Runs, phase \in Phase \ {"absent"} : Changed(r, phase)
    BY <1>2 DEF ProviderNext, Trigger, Start, Rerun, DeleteRemote, Conclude, Changed,
                ChangeRequestChanges, Wait, database, external, Phase, Done
  <2>2. ASSUME NEW r \in Runs, NEW phase \in Phase \ {"absent"}, Changed(r, phase), NEW i \in Runs
        PROVE  \/ remote'[i] = remote[i]
               \/ remote'[i].updated = now /\ remote'[i].phase # "absent"
    <3>1. PICK created, started :
            remote' = [remote EXCEPT ![r] = [phase |-> phase, updated |-> now,
                                             created |-> created, started |-> started]]
      BY <2>2 DEF Changed
    <3>2. QED
      BY <1>0, <3>1
  <2>3. QED
    BY <1>0, <2>1, <2>2
<1>3. ASSUME NEW s \in Syncs, SyncMoves(s)
      PROVE  /\ UNCHANGED <<setup, now, external>>
             /\ \/ repository' = repository
                \/ FinishSync(s) /\ repository'.lastSyncAt = now
  BY <1>0, <1>3 DEF SyncMoves, SyncStep, StartSync, ListRuns, SelectCurrentRuns, StartProcessing,
              RefreshRun, UpsertWorkflow, MoveLegacyRuns, RemoveLegacyWorkflow, UpsertRun,
              EvaluateRules, SelectCandidates, AskChangeRequest, StoreChangeRequest,
              FinishSync, Throw, Crash, database, RepositoryShape
<1>4. CASE RetentionNext
  <2>1. UNCHANGED <<setup, now, external>>
    BY <1>4 DEF RetentionNext, CleanupStep, StartCleanup, SumDefault, ArchiveDefault, ReadOverrides,
                SumOverride, ArchiveOverride, CleanupFails, SetRetentionDays, SumDurations,
                ArchiveDurationsAndDeleteRuns
  <2>2. \/ repository' = repository
        \/ \E v : repository' = [repository EXCEPT !.retained = v]
        \/ \E v : repository' = [repository EXCEPT !.retentionDays = v]
    BY <1>4 DEF RetentionNext, CleanupStep, StartCleanup, SumDefault, ArchiveDefault,
                ReadOverrides, SumOverride, ArchiveOverride, CleanupFails, SetRetentionDays,
                SumDurations, ArchiveDurationsAndDeleteRuns, database
  <2>3. repository'.lastSyncAt = repository.lastSyncAt
    BY <1>0, <2>2 DEF RepositoryShape
  <2>4. QED
    BY <1>0, <2>1, <2>3 DEF external
<1>5. QED
  BY <1>0, <1>1, <1>2, <1>3, <1>4 DEF Next, SyncNext, SyncFails, SyncMoves, external

LEMMA SyncsMove ==
  ASSUME ShapeInv, [Next]_vars
  PROVE  \/ sync' = sync
         \/ \E s \in Syncs : /\ SyncMoves(s) /\ OtherSyncsKept(s)
                             /\ UNCHANGED <<setup, now, external>>
<1>1. CASE UNCHANGED vars
  BY <1>1 DEF vars
<1>2. CASE ProviderNext
  BY <1>2 DEF ProviderNext, Trigger, Start, Rerun, DeleteRemote, Conclude, Changed,
              ChangeRequestChanges, Wait
<1>3. ASSUME NEW s \in Syncs, SyncMoves(s)
      PROVE  OtherSyncsKept(s) /\ UNCHANGED <<setup, now, external>>
  <2>1. OtherSyncsKept(s)
    BY <1>3, SyncStepShape DEF ShapeInv, SyncMoves
  <2>2. UNCHANGED <<setup, now, external>>
    BY <1>3 DEF SyncMoves, SyncStep, StartSync, ListRuns, SelectCurrentRuns, StartProcessing,
              RefreshRun, UpsertWorkflow, MoveLegacyRuns, RemoveLegacyWorkflow, UpsertRun,
              EvaluateRules, SelectCandidates, AskChangeRequest, StoreChangeRequest,
              FinishSync, Throw, Crash
  <2>3. QED
    BY <2>1, <2>2
<1>4. CASE RetentionNext
  BY <1>4 DEF RetentionNext, CleanupStep, StartCleanup, SumDefault, ArchiveDefault, ReadOverrides,
              SumOverride, ArchiveOverride, CleanupFails, SetRetentionDays, SumDurations,
              ArchiveDurationsAndDeleteRuns
<1>5. QED
  BY <1>1, <1>2, <1>3, <1>4 DEF Next, SyncNext, SyncFails, SyncMoves

\* Whatever a synchronization does, its cursor, the moment of its listing and what it has
\* found stay, start anew, or are read now.
LEMMA SyncReads ==
  ASSUME ShapeInv, NEW s \in Syncs, SyncMoves(s)
  PROVE  /\ sync'[s].cursor \in {None, repository.lastSyncAt, sync[s].cursor}
         /\ sync'[s].listedAt \in {0, now, sync[s].listedAt}
         /\ \A r \in Runs : sync'[s].found[r] \in {sync[s].found[r], Unknown, remote[r]}
<1>0. SyncShape
  BY DEF ShapeInv
<1>1. CASE StartSync(s)
  <2>1. sync'[s] = [IdleSync EXCEPT !.phase = "list", !.cursor = repository.lastSyncAt, !.startedAt = now]
    BY <1>0, <1>1 DEF StartSync, SyncShape
  <2>2. QED
    BY <2>1 DEF IdleSync, NothingFound
<1>2. CASE FinishSync(s) \/ Throw(s) \/ Crash(s)
  <2>1. sync'[s] = IdleSync
    BY <1>0, <1>2 DEF FinishSync, Throw, Crash, SyncShape
  <2>2. QED
    BY <2>1 DEF IdleSync, NothingFound
<1>3. CASE ListRuns(s)
  <2> DEFINE listed == Listing(provider, VisibleRuns, sync[s].cursor, setup.pageSize)
  <2>1. /\ sync'[s].cursor = sync[s].cursor /\ sync'[s].listedAt = now
        /\ sync'[s].found = [r \in Runs |-> IF r \in listed THEN remote[r] ELSE Unknown]
    BY <1>0, <1>3 DEF ListRuns, SyncShape, IdleSync
  <2>2. QED
    BY <2>1
<1>4. CASE ~(StartSync(s) \/ FinishSync(s) \/ Throw(s) \/ Crash(s) \/ ListRuns(s))
  BY <1>4, ListingKept
<1>5. QED
  BY <1>1, <1>2, <1>3, <1>4

LEMMA TimesKept ==
  ASSUME ShapeInv, TimesInv, [Next]_vars
  PROVE  TimesInv'
<1>0. /\ repository.lastSyncAt \in Int /\ repository.lastSyncAt >= None
      /\ \A s \in Syncs : sync[s].cursor \in Int /\ sync[s].cursor <= repository.lastSyncAt
      /\ \A r \in Runs : remote[r].updated \in Nat
  BY DEF ShapeInv, RepositoryShape, SyncShape, RemoteInv, Remote, Time, None, TimesInv
<1>1. /\ now \in Nat /\ now' \in Nat /\ now <= now'
      /\ repository'.lastSyncAt \in {repository.lastSyncAt, now}
  BY ClockMoves
<1>2. repository'.lastSyncAt <= now' /\ repository.lastSyncAt <= repository'.lastSyncAt
  BY <1>0, <1>1 DEF TimesInv
<1>3. \A r \in Runs : IF remote'[r].phase = "absent" THEN remote'[r] = Unknown ELSE remote'[r].updated < now'
  <2> SUFFICES ASSUME NEW r \in Runs
               PROVE  IF remote'[r].phase = "absent" THEN remote'[r] = Unknown ELSE remote'[r].updated < now'
    OBVIOUS
  <2>1. CASE remote'[r] = remote[r]
    BY <1>0, <1>1, <2>1 DEF TimesInv
  <2>2. CASE remote'[r] # remote[r]
    BY <1>1, <2>2, ClockMoves
  <2>3. QED
    BY <2>1, <2>2
<1>4. ASSUME NEW s \in Syncs
      PROVE  /\ sync'[s].cursor <= repository'.lastSyncAt
             /\ sync'[s].listedAt \in Nat /\ sync'[s].listedAt <= now'
  <2>1. CASE sync'[s] = sync[s]
    BY <1>0, <1>1, <1>2, <2>1 DEF TimesInv
  <2>2. CASE SyncMoves(s)
    <3>1. /\ sync'[s].cursor \in {None, repository.lastSyncAt, sync[s].cursor}
          /\ sync'[s].listedAt \in {0, now, sync[s].listedAt}
      BY <2>2, SyncReads
    <3>2. repository'.lastSyncAt \in Int /\ repository'.lastSyncAt >= None
      BY <1>0, <1>1 DEF None
    <3>3. sync'[s].cursor <= repository'.lastSyncAt
      BY <1>0, <1>2, <3>1, <3>2
    <3>4. QED
      BY <1>1, <3>1, <3>3 DEF TimesInv
  <2>3. QED
    BY <2>1, <2>2, SyncsMove DEF OtherSyncsKept
<1>5. QED
  BY <1>2, <1>3, <1>4 DEF TimesInv

LEMMA FoundStaysPast ==
  ASSUME GapsInv, [Next]_vars, NEW s \in Syncs, NEW r \in Runs
  PROVE  FoundPast(s, r)'
<1>0. /\ ShapeInv /\ TimesInv /\ FoundPast(s, r)
      /\ remote[r].updated \in Nat /\ now \in Nat /\ Unknown.updated = 0
  BY DEF GapsInv, VanishInv, ShapeInv, RemoteInv, Remote, Time, Unknown
<1>1. CASE sync'[s] = sync[s]
  <2>1. CASE remote'[r] = remote[r]
    BY <1>0, <1>1, <2>1 DEF FoundPast
  <2>2. CASE remote'[r] # remote[r] /\ sync[s].found[r] # Unknown
    <3>1. sync[s].found[r].updated < now
      BY <1>0, <2>2 DEF FoundPast, TimesInv
    <3>2. remote'[r].updated = now
      BY <1>0, <2>2, ClockMoves
    <3>3. QED
      BY <1>0, <1>1, <2>2, <3>1, <3>2 DEF FoundPast
  <2>3. QED
    BY <1>1, <2>1, <2>2 DEF FoundPast
<1>2. CASE SyncMoves(s) /\ UNCHANGED external
  <2>1. sync'[s].found[r] \in {sync[s].found[r], Unknown, remote[r]}
    BY <1>0, <1>2, SyncReads
  <2>2. QED
    BY <1>0, <1>2, <2>1 DEF FoundPast, external
<1>3. QED
  BY <1>0, <1>1, <1>2, SyncsMove DEF OtherSyncsKept

\* What is stored or evaluated next was found: the provider has had it.
LEMMA StoredWasFound ==
  ASSUME GapsInv, NEW s \in Syncs, At(s, "upsert") \/ At(s, "evaluate"), NEW r, r = sync[s].run
  PROVE  /\ r \in Runs /\ remote[r].phase # "absent"
         /\ sync[s].found[r].updated \in 0..remote[r].updated
         /\ sync[s].found[r].updated = remote[r].updated => UpToDate(s, r)
<1>1. r \in Runs /\ sync[s].found[r] # Unknown
  BY DEF GapsInv, VanishInv, ShapeInv, SyncShape, FoundInv, FoundOnce, At
<1>2. /\ sync[s].found[r].updated \in 0..remote[r].updated
      /\ sync[s].found[r].updated = remote[r].updated => sync[s].found[r] = remote[r]
  BY <1>1 DEF GapsInv, FoundPast
<1>3. Unknown.updated = 0
  BY DEF Unknown
<1>4. CASE remote[r].phase = "absent"
  <2>1. remote[r] = Unknown
    BY <1>1, <1>4 DEF GapsInv, TimesInv
  <2>2. QED
    BY <1>1, <1>2, <1>3, <2>1
<1>5. QED
  BY <1>1, <1>2, <1>4 DEF UpToDate

LEMMA RowStaysPast ==
  ASSUME GapsInv, [Next]_vars, NEW r \in Runs
  PROVE  RowPast(r)'
<1>0. /\ ShapeInv /\ VanishInv /\ FoundInv /\ TimesInv /\ RowPast(r) /\ setup \in Setups
      /\ remote[r].updated \in Nat /\ now \in Nat /\ remote[r].updated <= now
  BY DEF GapsInv, VanishInv, ShapeInv, RemoteInv, Remote, Time
<1>1. /\ setup' = setup
      /\ \/ remote'[r] = remote[r]
         \/ now < now' /\ remote'[r].updated = now /\ remote'[r].phase # "absent"
  BY <1>0, ClockMoves
<1>2. remote'[r].updated \in Nat /\ remote[r].updated <= remote'[r].updated
  BY <1>0, <1>1
<1>3. CASE RowSame(r)
  <2>1. CASE remote'[r] = remote[r]
    BY <1>0, <1>1, <1>3, <2>1, ResolvedKept DEF RowPast, RowSame, Stored
  <2>2. CASE remote'[r] # remote[r]
    <3>1. Stored(r) => rows[r].seen < now
      BY <1>0 DEF RowPast, TimesInv
    <3>2. QED
      BY <1>0, <1>1, <1>2, <1>3, <2>2, <3>1 DEF RowPast, RowSame, Stored
  <2>3. QED
    BY <2>1, <2>2
<1>4. CASE RowEmptied(r)
  <2>1. NoRow.seen = 0 /\ NoRow.evaluated = 0 /\ NoRow.status = "ABSENT"
    BY DEF NoRow
  <2>2. rows'[r] = NoRow
    BY <1>4 DEF RowEmptied
  <2>3. past'.expired[r] \in Int /\ past'.expired[r] <= remote[r].updated
    BY <1>0, <1>4 DEF RowEmptied, Forgotten, RowPast
  <2>4. QED
    BY <1>0, <1>2, <2>1, <2>2, <2>3 DEF RowPast, Stored
<1>5. ASSUME NEW s \in Syncs, \/ UpsertRun(s) /\ RowUpserted(s, r)
                              \/ EvaluateRules(s) /\ RowEvaluated(s, r)
      PROVE  RowPast(r)'
  <2>1. /\ r = sync[s].run /\ remote'[r] = remote[r]
        /\ At(s, "upsert") \/ At(s, "evaluate")
    BY <1>5 DEF UpsertRun, EvaluateRules, RowUpserted, RowEvaluated, external
  <2>2. /\ remote[r].phase # "absent" /\ sync[s].found[r].updated \in 0..remote[r].updated
        /\ sync[s].found[r].updated = remote[r].updated => sync[s].found[r] = remote[r]
    BY <2>1, StoredWasFound DEF UpToDate
  <2>3. Resolved(r, remote[r])' = Resolved(r, remote[r])
    BY <1>1, <2>1, ResolvedKept
  <2>4. CASE RowUpserted(s, r)
    BY <1>0, <1>1, <2>1, <2>2, <2>3, <2>4 DEF RowPast, RowUpserted
  <2>5. CASE RowEvaluated(s, r)
    BY <1>0, <1>1, <2>1, <2>2, <2>3, <2>5 DEF RowPast, RowEvaluated, Stored
  <2>6. QED
    BY <1>5, <2>4, <2>5
<1>6. QED
  BY <1>0, <1>3, <1>4, <1>5, RowsMove DEF RowMoves

\* What is kept of a run's present state stays kept, or the retention deletes the run.
LEMMA KeptStaysKept ==
  ASSUME GapsInv, [Next]_vars, NEW r \in Runs, remote'[r] = remote[r]
  PROVE  /\ HasExpired(r) => HasExpired(r)'
         /\ Kept(r) => Kept(r)' \/ HasExpired(r)'
         /\ Finished(r) => Finished(r)'
<1>0. /\ VanishInv /\ FoundInv /\ RowPast(r) /\ setup \in Setups
      /\ remote[r].updated \in Nat
  BY DEF GapsInv, VanishInv, ShapeInv, RemoteInv, Remote, Time
<1>1. CASE RowSame(r)
  BY <1>1 DEF RowSame, HasExpired, Kept, Finished, Stored
<1>2. CASE RowEmptied(r)
  <2>1. Stored(r) /\ (HasExpired(r) \/ Kept(r)) => HasExpired(r)'
    BY <1>0, <1>2 DEF RowEmptied, HasExpired, Kept, Forgotten, RowPast
  <2>2. ~Stored(r) => past'.expired[r] = past.expired[r]
    BY <1>2 DEF RowEmptied
  <2>3. QED
    BY <2>1, <2>2 DEF HasExpired, Kept, Finished
<1>3. ASSUME NEW s \in Syncs, UpsertRun(s), RowUpserted(s, r)
      PROVE  /\ HasExpired(r) => HasExpired(r)'
             /\ Kept(r) => Kept(r)'
             /\ Finished(r) => Finished(r)'
  <2>1. sync[s].found[r].updated \in 0..remote[r].updated
    BY <1>3, StoredWasFound DEF RowUpserted, UpsertRun
  <2>2. Stored(r)'
    BY <1>0, <1>3, StatusResolved DEF RowUpserted, Stored
  <2>3. Kept(r) => Kept(r)'
    BY <1>0, <1>3, <2>1, <2>2 DEF Kept, RowUpserted
  <2>4. QED
    BY <1>3, <2>3 DEF HasExpired, Finished, RowUpserted
<1>4. ASSUME NEW s \in Syncs, EvaluateRules(s), RowEvaluated(s, r)
      PROVE  /\ HasExpired(r) => HasExpired(r)'
             /\ Kept(r) => Kept(r)'
             /\ Finished(r) => Finished(r)'
  <2>1. sync[s].found[r].updated \in 0..remote[r].updated
    BY <1>4, StoredWasFound DEF RowEvaluated, EvaluateRules
  <2>2. Kept(r) => Kept(r)'
    BY <1>4 DEF Kept, RowEvaluated, Stored
  <2>3. rows[r].evaluated = remote[r].updated => rows'[r].evaluated = remote[r].updated
    BY <1>0, <1>4, <2>1 DEF RowEvaluated
  <2>4. QED
    BY <1>4, <2>2, <2>3 DEF HasExpired, Finished, RowEvaluated
<1>5. QED
  BY <1>0, <1>1, <1>2, <1>3, <1>4, RowsMove DEF RowMoves

\* What a run's present state is stored as counts as kept, once it is stored.
LEMMA UpsertKeeps ==
  ASSUME GapsInv, NEW s \in Syncs, UpsertRun(s), NEW r, r = sync[s].run, UpToDate(s, r)
  PROVE  Kept(r)'
<1>0. r \in Runs /\ VanishInv /\ FoundInv /\ setup \in Setups
  BY StoredWasFound DEF UpsertRun, GapsInv, VanishInv, ShapeInv
<1>1. RowMoves(r) /\ SyncShape /\ RowShape
  BY <1>0, SyncMovesRows DEF SyncMoves, SyncStep, VanishInv, ShapeInv
<1>2. rows' = [rows EXCEPT ![r] = UpsertedRun(@, RunOf(s), sync[s].found[r].updated)]
  BY DEF UpsertRun
<1>3. rows'[r].status = RunOf(s).status /\ rows'[r].seen = sync[s].found[r].updated
  BY <1>0, <1>1, <1>2 DEF RowShape, NoRow, UpsertedRun
<1>4. Stored(r)'
  BY <1>0, <1>3, StatusResolved DEF RunOf, Stored
<1>5. remote' = remote
  BY DEF UpsertRun, external
<1>6. QED
  BY <1>3, <1>4, <1>5 DEF Kept, UpToDate

\* The rules are evaluated for the state that is stored.
LEMMA EvaluationFinishes ==
  ASSUME GapsInv, NEW s \in Syncs, EvaluateRules(s), NEW r, r = sync[s].run, UpToDate(s, r),
         HasExpired(r) \/ Kept(r)
  PROVE  Finished(r)'
<1>0. /\ r \in Runs /\ RowShape /\ RowPast(r) /\ remote[r].updated \in Nat
  BY StoredWasFound DEF EvaluateRules, GapsInv, VanishInv, ShapeInv, RemoteInv, Remote, Time
<1>1. UNCHANGED <<remote, past>>
  BY DEF EvaluateRules, external
<1> DEFINE seen == sync[s].found[r].updated
           new == IF Stored(r) /\ seen > rows[r].evaluated THEN seen ELSE rows[r].evaluated
<1>2. rows' = [rows EXCEPT ![r].evaluated = new]
  BY <1>0 DEF EvaluateRules, RowShape, NoRow
<1> HIDE DEF new
<1>3. rows'[r].status = rows[r].status /\ rows'[r].seen = rows[r].seen /\ rows'[r].evaluated = new
  BY <1>0, <1>2 DEF RowShape, NoRow
<1>4. Stored(r) => new = remote[r].updated
  BY <1>0 DEF new, UpToDate, RowPast
<1>5. QED
  BY <1>1, <1>3, <1>4 DEF Finished, HasExpired, Kept, Stored

\* A synchronization carries what it answers for while others move.
LEMMA OthersCarry ==
  ASSUME GapsInv, [Next]_vars, NEW s \in Syncs, NEW r \in Runs, sync'[s] = sync[s], AnswersFor(s, r)'
  PROVE  Carried(s, r)'
<1>0. /\ ShapeInv /\ TimesInv /\ now \in Nat /\ sync[s].listedAt \in Nat /\ sync[s].listedAt <= now
  BY DEF GapsInv, VanishInv, ShapeInv, RemoteInv, TimesInv, Time
<1>1. remote'[r] = remote[r] /\ setup' = setup
  BY <1>0, ClockMoves DEF AnswersFor
<1>2. AnswersFor(s, r) /\ Carried(s, r)
  BY <1>1, ResolvedKept DEF AnswersFor, GapsInv
<1>3. QED
  BY <1>1, <1>2, KeptStaysKept DEF Carried, UpToDate

\* It answers for a run when it has listed it, and carries it from then on.
LEMMA ItselfCarries ==
  ASSUME GapsInv, Next, NEW s \in Syncs, SyncMoves(s), UNCHANGED <<setup, external>>,
         NEW r \in Runs, AnswersFor(s, r)'
  PROVE  Carried(s, r)'
<1>0. /\ ShapeInv /\ SyncShape /\ s \in DOMAIN sync /\ DOMAIN sync[s] = DOMAIN IdleSync
      /\ DOMAIN sync[s].found = Runs /\ sync[s].run \in Runs /\ sync[s].todo \subseteq Runs
      /\ sync[s].cursor \in Time \cup {None} /\ FoundOnce(s)
  BY DEF GapsInv, VanishInv, ShapeInv, SyncShape, FoundInv
<1>1. remote' = remote /\ setup' = setup /\ TrackedRun(r)
  BY ResolvedKept DEF external, AnswersFor
<1>2. /\ HasExpired(r) => HasExpired(r)'
      /\ Kept(r) => Kept(r)' \/ HasExpired(r)'
      /\ Finished(r) => Finished(r)'
  BY <1>1, KeptStaysKept
<1>3. CASE StartSync(s) \/ FinishSync(s) \/ Throw(s) \/ Crash(s)
  <2>1. sync'[s].phase \in {"idle", "list"}
    BY <1>0, <1>3, SyncRestarts
  <2>2. QED
    BY <2>1 DEF Carried
<1>4. CASE ListRuns(s)
  <2> DEFINE listed == Listing(provider, VisibleRuns, sync[s].cursor, setup.pageSize)
  <2>1. /\ sync'[s].phase = "select" /\ sync'[s].cursor = sync[s].cursor
        /\ sync'[s].passedOver = PassedOver(sync[s].cursor)
        /\ sync'[s].found = [i \in Runs |-> IF i \in listed THEN remote[i] ELSE Unknown]
    BY <1>0, <1>4 DEF ListRuns, IdleSync
  <2>2. r \notin PassedOver(sync[s].cursor) /\ sync[s].cursor <= remote[r].updated /\ Visible(remote[r])
    BY <1>1, <2>1 DEF AnswersFor, TrackedRun
  <2>3. r \in listed
    BY <1>0, <2>2, ListingIsComplete
  <2>4. QED
    BY <1>1, <2>1, <2>3 DEF Carried, UpToDate
<1>5. CASE ~(StartSync(s) \/ FinishSync(s) \/ Throw(s) \/ Crash(s) \/ ListRuns(s))
  <2>0. Carried(s, r)
    <3>1. AnswersFor(s, r)
      BY <1>0, <1>1, <1>5, ListingKept DEF AnswersFor
    <3>2. QED
      BY <3>1 DEF GapsInv
  <2>1. CASE SelectCurrentRuns(s)
    <3>1. sync[s].phase = "select" /\ sync'[s].phase = "refresh" /\ sync'[s].found = sync[s].found
      BY <1>0, <2>1 DEF SelectCurrentRuns, At, IdleSync
    <3>2. QED
      BY <1>1, <2>0, <3>1 DEF Carried, UpToDate
  <2>2. ASSUME NEW i \in Runs, RefreshRun(s, i)
        PROVE  Carried(s, r)'
    <3>1. /\ sync[s].phase = "refresh" /\ sync'[s].phase = "refresh"
          /\ sync'[s].found = [sync[s].found EXCEPT ![i] = GetWorkflowRun(i, @)]
      BY <1>0, <2>2 DEF RefreshRun, At, IdleSync
    <3>2. UpToDate(s, r)
      BY <2>0, <3>1 DEF Carried
    <3>3. sync'[s].found[r] = remote[r]
      BY <1>0, <3>1, <3>2 DEF UpToDate, GetWorkflowRun
    <3>4. QED
      BY <1>1, <3>1, <3>3 DEF Carried, UpToDate
  <2>3. CASE StartProcessing(s)
    <3>1. /\ sync[s].phase = "refresh" /\ sync'[s].phase = "workflow" /\ sync'[s].found = sync[s].found
          /\ sync'[s].todo = {i \in Runs : sync[s].found[i] # Unknown /\ Tracked(i, sync[s].found[i])}
      BY <1>0, <2>3 DEF StartProcessing, At, IdleSync
    <3>2. sync[s].found[r] = remote[r]
      BY <2>0, <3>1 DEF Carried, UpToDate
    <3>3. r \in sync'[s].todo
      BY <1>1, <3>1, <3>2 DEF TrackedRun, Visible, Unknown
    <3>4. QED
      BY <1>1, <3>1, <3>2, <3>3 DEF Carried, UpToDate
  <2>4. ASSUME NEW i \in Runs, UpsertWorkflow(s, i)
        PROVE  Carried(s, r)'
    <3>1. /\ sync[s].phase = "workflow" /\ sync'[s].phase \in {"move", "upsert"}
          /\ sync'[s].run = i /\ sync'[s].todo = sync[s].todo \ {i} /\ sync'[s].found = sync[s].found
      BY <1>0, <2>4 DEF UpsertWorkflow, At, IdleSync
    <3>2. (r \in sync[s].todo /\ UpToDate(s, r)) \/ Finished(r)
      BY <2>0, <3>1 DEF Carried
    <3>3. QED
      BY <1>1, <1>2, <3>1, <3>2 DEF Carried, UpToDate
  <2>5. CASE MoveLegacyRuns(s) \/ RemoveLegacyWorkflow(s)
    <3>1. /\ sync[s].phase \in {"move", "remove"} /\ sync'[s].phase \in {"remove", "upsert"}
          /\ sync'[s].run = sync[s].run /\ sync'[s].todo = sync[s].todo /\ sync'[s].found = sync[s].found
      <4>1. PICK phase \in {"remove", "upsert"} : sync' = [sync EXCEPT ![s].phase = phase]
        BY <2>5 DEF MoveLegacyRuns, RemoveLegacyWorkflow, Go
      <4>2. sync[s].phase \in {"move", "remove"}
        BY <2>5 DEF MoveLegacyRuns, RemoveLegacyWorkflow, At
      <4>3. QED
        BY <1>0, <4>1, <4>2 DEF IdleSync
    <3>2. \/ r \in sync[s].todo /\ UpToDate(s, r)
          \/ r = sync[s].run /\ UpToDate(s, r)
          \/ Finished(r)
      BY <2>0, <3>1 DEF Carried
    <3>3. QED
      BY <1>1, <1>2, <3>1, <3>2 DEF Carried, UpToDate
  <2>6. CASE UpsertRun(s)
    <3>1. /\ sync[s].phase = "upsert" /\ sync'[s].phase = "evaluate"
          /\ sync'[s].run = sync[s].run /\ sync'[s].todo = sync[s].todo /\ sync'[s].found = sync[s].found
      BY <1>0, <2>6 DEF UpsertRun, Go, At, IdleSync
    <3>2. \/ r \in sync[s].todo /\ UpToDate(s, r)
          \/ r = sync[s].run /\ UpToDate(s, r)
          \/ Finished(r)
      BY <2>0, <3>1 DEF Carried
    <3>3. r = sync[s].run /\ UpToDate(s, r) => Kept(r)'
      BY <2>6, UpsertKeeps
    <3>4. QED
      BY <1>1, <1>2, <3>1, <3>2, <3>3 DEF Carried, UpToDate
  <2>7. CASE EvaluateRules(s)
    <3>1. /\ sync[s].phase = "evaluate" /\ sync'[s].phase = "workflow" /\ sync'[s].todo = sync[s].todo
          /\ sync'[s].found = [sync[s].found EXCEPT ![sync[s].run] = Unknown]
      BY <1>0, <2>7 DEF EvaluateRules, At, IdleSync
    <3>2. \/ r \in sync[s].todo /\ UpToDate(s, r)
          \/ r = sync[s].run /\ UpToDate(s, r) /\ (HasExpired(r) \/ Kept(r))
          \/ Finished(r)
      BY <2>0, <3>1 DEF Carried
    <3>3. CASE r \in sync[s].todo /\ UpToDate(s, r)
      <4>1. sync'[s].found[r] = sync[s].found[r]
        BY <1>0, <3>1, <3>3 DEF FoundOnce
      <4>2. QED
        BY <1>1, <3>1, <3>3, <4>1 DEF Carried, UpToDate
    <3>4. CASE Finished(r) \/ (r = sync[s].run /\ UpToDate(s, r) /\ (HasExpired(r) \/ Kept(r)))
      <4>1. Finished(r)'
        BY <1>2, <2>7, <3>4, EvaluationFinishes
      <4>2. QED
        BY <3>1, <4>1 DEF Carried
    <3>5. QED
      BY <3>2, <3>3, <3>4
  <2>8. CASE SelectCandidates(s) \/ (\E c \in ChangeRequests : AskChangeRequest(s, c))
    <3>1. Finished(r)
      BY <2>0, <2>8 DEF SelectCandidates, AskChangeRequest, At, Carried
    <3>2. sync'[s].phase \in {"ask", "store"}
      BY <1>0, <2>8, AskingKeeps
    <3>3. QED
      BY <1>2, <3>1, <3>2 DEF Carried
  <2>9. CASE StoreChangeRequest(s)
    <3>1. sync[s].phase = "store" /\ sync'[s].phase = "ask"
      BY <1>0, <2>9 DEF StoreChangeRequest, At, IdleSync
    <3>2. QED
      BY <1>2, <2>0, <3>1 DEF Carried
  <2>10. QED
    BY <1>5, <2>1, <2>2, <2>3, <2>4, <2>5, <2>6, <2>7, <2>8, <2>9 DEF SyncMoves, SyncStep
<1>6. QED
  BY <1>3, <1>4, <1>5

LEMMA MissedStays ==
  ASSUME ShapeInv, DOMAIN past = DOMAIN NothingPast, [Next]_vars
  PROVE  past'.missed = past.missed \/ \E s \in Syncs : FinishSync(s)
<1>1. CASE UNCHANGED vars \/ ProviderNext
  <2>1. past' = past \/ past' = [past EXCEPT !.quiet = FALSE, !.polled = FALSE]
    BY <1>1 DEF vars, ProviderNext, Trigger, Start, Rerun, DeleteRemote, Conclude, Changed,
                ChangeRequestChanges, Wait
  <2>2. QED
    BY <2>1 DEF NothingPast
<1>2. ASSUME NEW s \in Syncs, SyncMoves(s), ~FinishSync(s)
      PROVE  past'.missed = past.missed
  <2>1. \/ past' = past
        \/ \E v : past' = [past EXCEPT !.quiet = v]
        \/ \E v : past' = [past EXCEPT !.touched = v]
        \/ \E v : past' = [past EXCEPT !.checkedSince = v]
        \/ \E u, v : past' = [past EXCEPT !.overwritten = u, !.touched = v]
    <3>1. CASE StartSync(s) \/ RemoveLegacyWorkflow(s)
      BY <3>1 DEF StartSync, RemoveLegacyWorkflow
    <3>2. CASE UpsertRun(s)
      BY <3>2 DEF UpsertRun
    <3>3. CASE Throw(s) \/ Crash(s)
      BY <3>3 DEF Throw, Crash
    <3>4. CASE ~(StartSync(s) \/ RemoveLegacyWorkflow(s) \/ UpsertRun(s) \/ Throw(s) \/ Crash(s))
      BY <1>2, <3>4 DEF SyncMoves, SyncStep, ListRuns, SelectCurrentRuns, StartProcessing,
                RefreshRun, UpsertWorkflow, MoveLegacyRuns, EvaluateRules, SelectCandidates,
                AskChangeRequest, StoreChangeRequest
    <3>5. QED
      BY <3>1, <3>2, <3>3, <3>4
  <2>2. QED
    BY <2>1 DEF NothingPast
<1>3. CASE RetentionNext
  <2>1. \/ past' = past
        \/ \E v : past' = [past EXCEPT !.cleanups = v]
        \/ \E u, v : past' = [past EXCEPT !.touched = u, !.overrides = v]
        \/ \E u, v : past' = [past EXCEPT !.touched = u, !.quiet = FALSE, !.polled = FALSE, !.expired = v]
    BY <1>3, CleanupRemembers
  <2>2. QED
    BY <2>1 DEF NothingPast
<1>4. QED
  BY <1>1, <1>2, <1>3 DEF Next, SyncNext, SyncFails, SyncMoves

\* A completed synchronization has let a run's present state go by, knowingly, or it and
\* those before it have kept it.
LEMMA FinishKeepsRecord ==
  ASSUME GapsInv, NEW s \in Syncs, FinishSync(s), NEW r \in Runs, TrackedRun(r)
  PROVE  r \in past'.missed \/ Finished(r)' \/ (Kept(r)' /\ NoNews(r))
<1>0. /\ ShapeInv /\ RowPast(r) /\ DOMAIN past = DOMAIN NothingPast
      /\ remote[r].updated \in Nat
      /\ sync[s].cursor \in Int /\ sync[s].listedAt \in Nat
      /\ repository.lastSyncAt \in Int /\ sync[s].cursor <= repository.lastSyncAt
  BY DEF GapsInv, VanishInv, FoundInv, ShapeInv, RepositoryShape, SyncShape, RemoteInv, Remote,
         TimesInv, Time, None
<1>1. rows' = rows /\ remote' = remote
  BY DEF FinishSync, external
<1>2. /\ past'.overwritten = past.overwritten /\ past'.expired = past.expired
      /\ past'.missed = {i \in past.missed \cup sync[s].passedOver
                               \cup {j \in Runs : remote[j].updated >= sync[s].listedAt} :
                           Visible(remote[i]) /\ ~Absorbed(i)}
  BY <1>0 DEF FinishSync, NothingPast
<1>3. /\ Finished(r) => Finished(r)'
      /\ Kept(r) => Kept(r)'
  BY <1>1, <1>2 DEF Finished, HasExpired, Kept, Stored
<1>4. Absorbed(r) => Finished(r) \/ (Kept(r) /\ NoNews(r))
  BY <1>0 DEF Absorbed, Finished, Kept, NoNews, RowPast
<1>5. CASE \/ r \in past.missed \cup sync[s].passedOver
           \/ remote[r].updated >= sync[s].listedAt
  BY <1>2, <1>3, <1>4, <1>5 DEF TrackedRun
<1>6. CASE remote[r].updated < sync[s].cursor /\ r \notin past.missed
  <2>1. remote[r].updated < repository.lastSyncAt
    BY <1>0, <1>6
  <2>2. QED
    BY <1>3, <1>6, <2>1 DEF GapsInv, MissedInv
<1>7. CASE /\ r \notin sync[s].passedOver /\ sync[s].cursor <= remote[r].updated
           /\ remote[r].updated < sync[s].listedAt
  <2>1. AnswersFor(s, r)
    BY <1>7 DEF AnswersFor
  <2>2. Finished(r)
    BY <2>1 DEF GapsInv, Carried, FinishSync, At
  <2>3. QED
    BY <1>3, <2>2
<1>8. QED
  BY <1>0, <1>5, <1>6, <1>7

LEMMA MissedKept ==
  ASSUME GapsInv, [Next]_vars, NEW r \in Runs
  PROVE  MissedInv(r)'
<1> SUFFICES ASSUME TrackedRun(r)', remote'[r].updated < repository'.lastSyncAt
             PROVE  r \in past'.missed \/ Finished(r)' \/ (Kept(r)' /\ NoNews(r)')
  BY DEF MissedInv
<1>0. /\ ShapeInv /\ TimesInv /\ DOMAIN past = DOMAIN NothingPast /\ now \in Nat
      /\ remote[r].updated \in Nat /\ repository.lastSyncAt \in Int /\ repository.lastSyncAt <= now
  BY DEF GapsInv, VanishInv, FoundInv, ShapeInv, RepositoryShape, RemoteInv, Remote, TimesInv, Time, None
<1>1. remote'[r] = remote[r] /\ setup' = setup
  BY <1>0, ClockMoves
<1>2. TrackedRun(r) /\ (NoNews(r)' <=> NoNews(r))
  BY <1>1, ResolvedKept DEF NoNews
<1>3. CASE \E s \in Syncs : FinishSync(s)
  BY <1>2, <1>3, FinishKeepsRecord
<1>4. CASE ~\E s \in Syncs : FinishSync(s)
  <2>1. past'.missed = past.missed /\ repository'.lastSyncAt = repository.lastSyncAt
    BY <1>0, <1>4, MissedStays, ClockMoves
  <2>2. r \in past.missed \/ Finished(r) \/ (Kept(r) /\ NoNews(r))
    BY <1>1, <1>2, <2>1 DEF GapsInv, MissedInv
  <2>3. Finished(r) \/ HasExpired(r)' => Finished(r)'
    BY <1>1, KeptStaysKept DEF Finished
  <2>4. QED
    BY <1>1, <1>2, <2>1, <2>2, <2>3, KeptStaysKept
<1>5. QED
  BY <1>3, <1>4

LEMMA GapsNext == GapsInv /\ [Next]_vars => GapsInv'
<1> SUFFICES ASSUME GapsInv, [Next]_vars
             PROVE  GapsInv'
  OBVIOUS
<1>1. VanishInv' /\ FoundInv' /\ TimesInv'
  BY VanishNext, NextFound, TimesKept DEF GapsInv, VanishInv
<1>2. \A r \in Runs : RowPast(r)' /\ MissedInv(r)'
  BY RowStaysPast, MissedKept
<1>3. ASSUME NEW s \in Syncs, NEW r \in Runs
      PROVE  FoundPast(s, r)' /\ (AnswersFor(s, r)' => Carried(s, r)')
  <2>1. FoundPast(s, r)'
    BY FoundStaysPast
  <2>2. CASE sync'[s] = sync[s]
    BY <2>1, <2>2, OthersCarry
  <2>3. CASE sync'[s] # sync[s]
    <3>1. SyncMoves(s) /\ UNCHANGED <<setup, now, external>>
      BY <2>3, SyncsMove DEF OtherSyncsKept, GapsInv, VanishInv
    <3>2. Next
      BY <2>3 DEF vars
    <3>3. QED
      BY <2>1, <3>1, <3>2, ItselfCarries
  <2>4. QED
    BY <2>2, <2>3
<1>4. QED
  BY <1>1, <1>2, <1>3 DEF GapsInv

LEMMA InitGaps == Init => GapsInv
<1> SUFFICES ASSUME Init
             PROVE  GapsInv
  OBVIOUS
<1>0. /\ setup \in Setups /\ setup.start \in Nat /\ now = setup.start
      /\ setup.lastSyncAt \in Time \cup {None} /\ setup.lastSyncAt <= setup.start
      /\ repository.lastSyncAt = setup.lastSyncAt
  BY SetupsAssumption DEF Init, Time
<1>1. \A s \in Syncs : sync[s] = IdleSync
  BY DEF Init
<1>2. /\ IdleSync.cursor = None /\ IdleSync.listedAt = 0 /\ IdleSync.phase = "idle"
      /\ \A r \in Runs : IdleSync.found[r] = Unknown
  BY DEF IdleSync, NothingFound
<1>3. /\ Unknown.phase = "absent" /\ Unknown.updated = 0
      /\ NoRow.status = "ABSENT" /\ NoRow.seen = 0 /\ NoRow.evaluated = 0
  BY DEF Unknown, NoRow
<1>4. ASSUME NEW r \in Runs, r \in DOMAIN setup.known
      PROVE  /\ remote[r].phase # "absent" /\ remote[r].updated \in Nat /\ remote[r].updated < now
             /\ Stored(r) /\ rows[r].evaluated = rows[r].seen /\ rows[r].seen \in 0..remote[r].updated
             /\ remote[r].updated < repository.lastSyncAt => rows[r].seen = remote[r].updated
  <2>1. WasStored(setup.known[r], setup.start, setup.lastSyncAt)
    BY <1>0, <1>4, SetupsAssumption
  <2>2. remote[r] = setup.known[r].remote /\ rows[r] = setup.known[r].row
    BY <1>4 DEF Init
  <2>3. QED
    BY <1>0, <2>1, <2>2 DEF WasStored, Stored, WorkflowRunStatuses, Remote, Time
<1>5. ASSUME NEW r \in Runs, r \notin DOMAIN setup.known
      PROVE  remote[r] = Unknown /\ rows[r] = NoRow
  BY <1>5 DEF Init
<1>10. \A r \in Runs : past.expired[r] = -1
  BY DEF Init, NothingPast, None
<1>6. TimesInv
  <2>1. \A s \in Syncs : /\ sync[s].cursor <= repository.lastSyncAt
                         /\ sync[s].listedAt \in Nat /\ sync[s].listedAt <= now
    BY <1>0, <1>1, <1>2 DEF Time, None
  <2>2. QED
    BY <1>0, <1>3, <1>4, <1>5, <2>1 DEF TimesInv
<1>7. \A r \in Runs : RowPast(r) /\ MissedInv(r)
  <2> SUFFICES ASSUME NEW r \in Runs
               PROVE  RowPast(r) /\ MissedInv(r)
    OBVIOUS
  <2>1. CASE r \in DOMAIN setup.known
    BY <1>4, <1>10, <2>1 DEF RowPast, MissedInv, Finished, Kept
  <2>2. CASE r \notin DOMAIN setup.known
    BY <1>3, <1>5, <1>10, <2>2 DEF RowPast, MissedInv, TrackedRun, Visible, Stored
  <2>3. QED
    BY <2>1, <2>2
<1>8. \A s \in Syncs, r \in Runs : FoundPast(s, r) /\ Carried(s, r)
  BY <1>1, <1>2 DEF FoundPast, Carried
<1>9. QED
  BY <1>6, <1>7, <1>8, InitVanish, InitFound DEF GapsInv

\* However synchronizations overlap, fail, and race the provider and the cleanups, every
\* change of a tracked run that came before the last completed synchronization is stored
\* with its rules evaluated, with these exceptions, which the listings of the code let go by
\* (history_polling shows one): a change after the listing of the synchronization that should
\* have seen it, a run beyond its first page, a GitHub run created before its cursor, a row
\* overwritten by an overlapping, older synchronization, and a run that the retention deleted
\* in the state it still has.
THEOREM OnlyGapsMissChanges == Spec => []ChangesMissedOnlyInGaps
<1>1. GapsInv => ChangesMissedOnlyInGaps
  <2> SUFFICES ASSUME GapsInv, NEW r \in Runs, TrackedRun(r),
                      remote[r].updated < repository.lastSyncAt,
                      r \notin past.missed \cup past.overwritten, past.expired[r] # remote[r].updated
               PROVE  Absorbed(r)
    BY DEF ChangesMissedOnlyInGaps
  <2>1. RowPast(r) /\ (Finished(r) \/ (Kept(r) /\ NoNews(r)))
    BY DEF GapsInv, MissedInv
  <2>2. Stored(r) /\ rows[r].seen = remote[r].updated
    BY <2>1 DEF Finished, HasExpired, Kept
  <2>3. \/ rows[r].evaluated = remote[r].updated
        \/ NoNews(r) /\ rows[r].status = Resolved(r, remote[r]).status
    BY <2>1, <2>2 DEF RowPast, Finished, HasExpired
  <2>4. QED
    BY <2>2, <2>3 DEF Absorbed, NoNews
<1>2. QED
  BY <1>1, InitGaps, GapsNext, PTL DEF Spec
=============================================================================
