---------------------------- MODULE RunRetention ----------------------------
(***************************************************************************)
(* The nightly cleanup (WorkflowRunRetentionService.deleteExpiredRuns):    *)
(* once for the global policy, then once for each repository with an       *)
(* override, it adds up the durations of the expired runs, adds the sum to *)
(* the repository, and deletes the runs.  The three statements are one     *)
(* READ COMMITTED transaction: the sum is older than the deletion, and     *)
(* what happens in between is not seen by the sum.  The update locks the   *)
(* repository row until the commit, so update and deletion are one step to *)
(* any other cleanup.  Nothing keeps two API instances from cleaning up at *)
(* the same time.                                                          *)
(***************************************************************************)
EXTENDS RunHistory, FiniteSetsExt

CONSTANT RetentionDays   \* periods an administrator may choose for the repository

CleanupPhase == {"idle", "sumDefault", "archiveDefault", "overrides", "sumOverride", "archiveOverride"}

\* cutoff: of the policy being applied; policies: history, the cutoffs in force so far.
IdleCleanup == [phase |-> "idle", today |-> 0, cutoff |-> 0, sum |-> 0, policies |-> {}]

EffectiveDays == IF repository.retentionDays = NoDays THEN setup.globalDays ELSE repository.retentionDays

\* getWorkflowRunRetentionCutoff: a later-or-equal end is kept.
GetWorkflowRunRetentionCutoff(days, today) == today - days

StartCleanup(c) ==
  /\ c \in setup.cleanups /\ cleanup[c].phase = "idle"
  /\ past.cleanups < setup.nights
  /\ past' = [past EXCEPT !.cleanups = @ + 1]
  /\ cleanup' = [cleanup EXCEPT ![c] = [IdleCleanup EXCEPT
       !.phase = "sumDefault", !.today = now,
       !.cutoff = GetWorkflowRunRetentionCutoff(setup.globalDays, now),
       !.policies = {GetWorkflowRunRetentionCutoff(EffectiveDays, now)}]]
  /\ UNCHANGED <<setup, now, external, database, sync>>

\* The "where" of the sum and of the deletion, evaluated by each statement for itself.
Expired(c) ==
  {r \in Runs : /\ Stored(r) /\ rows[r].completedAt # None
                /\ rows[r].completedAt < cleanup[c].cutoff}
ByDefault(c) == IF repository.retentionDays = NoDays THEN Expired(c) ELSE {}

Duration(r) == IF rows[r].durationMs = None THEN 0 ELSE rows[r].durationMs
TotalDuration(ids) == MapThenSumSet(Duration, ids)

\* Mutant of SumDurations: unfinished runs of the period are added up as well.
SumDurationsStored(c, ids, phase) ==
  /\ cleanup' = [cleanup EXCEPT ![c].phase = phase,
                                ![c].sum = TotalDuration({r \in Runs : Stored(r)})]
  /\ UNCHANGED <<setup, now, external, database, sync, past>>

SumDurations(c, ids, phase) ==
  /\ cleanup' = [cleanup EXCEPT ![c].phase = phase, ![c].sum = TotalDuration(ids)]
  /\ UNCHANGED <<setup, now, external, database, sync, past>>

\* History: the latest state of a run that was stored when the retention deleted it, or
\* before an older one took its place.
Forgotten(r) ==
  IF r \in past.overwritten THEN remote[r].updated
  ELSE IF rows[r].seen > past.expired[r] THEN rows[r].seen ELSE past.expired[r]

ArchiveDurationsAndDeleteRuns(c, ids, phase) ==
  /\ repository' = [repository EXCEPT !.retained = @ + cleanup[c].sum]
  /\ rows' = [r \in Runs |-> IF r \in ids THEN NoRow ELSE rows[r]]
  /\ cleanup' = [cleanup EXCEPT ![c] = IF phase = "idle" THEN IdleCleanup
                                        ELSE [@ EXCEPT !.phase = phase, !.sum = 0]]
  /\ past' = [past EXCEPT !.touched = @ \/ Disturbs(Cleanups \ {c}), !.quiet = FALSE, !.polled = FALSE,
                          !.expired = [r \in Runs |-> IF r \in ids THEN Forgotten(r) ELSE @[r]]]
  /\ UNCHANGED <<setup, now, external, workflows, syncFailed, sync>>

SumDefault(c) ==
  cleanup[c].phase = "sumDefault" /\ SumDurations(c, ByDefault(c), "archiveDefault")
ArchiveDefault(c) ==
  cleanup[c].phase = "archiveDefault" /\ ArchiveDurationsAndDeleteRuns(c, ByDefault(c), "overrides")

\* The override is read once; it may have changed when the runs are deleted.
ReadOverrides(c) ==
  /\ cleanup[c].phase = "overrides"
  /\ cleanup' = [cleanup EXCEPT ![c] =
       IF repository.retentionDays = NoDays THEN IdleCleanup
       ELSE [@ EXCEPT !.phase = "sumOverride",
               !.cutoff = GetWorkflowRunRetentionCutoff(repository.retentionDays, cleanup[c].today)]]
  /\ UNCHANGED <<setup, now, external, database, sync, past>>

SumOverride(c) ==
  cleanup[c].phase = "sumOverride" /\ SumDurations(c, Expired(c), "archiveOverride")
ArchiveOverride(c) ==
  cleanup[c].phase = "archiveOverride" /\ ArchiveDurationsAndDeleteRuns(c, Expired(c), "idle")

\* The process stops or a statement fails: the transaction is rolled back.
CleanupFails(c) ==
  /\ cleanup[c].phase # "idle"
  /\ cleanup' = [cleanup EXCEPT ![c] = IdleCleanup]
  /\ UNCHANGED <<setup, now, external, database, sync, past>>

\* An administrator sets or clears the repository's override (setup.overrides: bound).
SetRetentionDays(days) ==
  /\ past.overrides < setup.overrides
  /\ days # repository.retentionDays
  /\ repository' = [repository EXCEPT !.retentionDays = days]
  /\ cleanup' = [c \in Cleanups |->
       IF cleanup[c].phase = "idle" THEN cleanup[c]
       ELSE [cleanup[c] EXCEPT !.policies = @ \cup {GetWorkflowRunRetentionCutoff(
               IF days = NoDays THEN setup.globalDays ELSE days, cleanup[c].today)}]]
  /\ past' = [past EXCEPT !.touched = @ \/ Disturbs(Cleanups), !.overrides = @ + 1]
  /\ UNCHANGED <<setup, now, external, rows, workflows, syncFailed, sync>>

CleanupStep(c) ==
  \/ StartCleanup(c) \/ SumDefault(c) \/ ArchiveDefault(c)
  \/ ReadOverrides(c) \/ SumOverride(c) \/ ArchiveOverride(c) \/ CleanupFails(c)

RetentionNext ==
  \/ \E c \in Cleanups : CleanupStep(c)
  \/ \E days \in RetentionDays \cup {NoDays} : SetRetentionDays(days)
=============================================================================
