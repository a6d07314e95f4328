----------------------------- MODULE SyncQueue -----------------------------
(***************************************************************************)
(* The durable repository synchronization queue of ezRepo: the table of    *)
(* repository sync requests, the sync lease and the rate limit kept on     *)
(* each provider account, and the passes of the queue worker that claim,   *)
(* execute and finish requests (sync-queue.service.ts).                    *)
(*                                                                         *)
(* A "worker" is one running call of processDueRequests.  The interval     *)
(* that starts it has no overlap guard and several API instances share the *)
(* database, so any number of passes run at the same time.                 *)
(*                                                                         *)
(* Time is kept relative to the present: a stored instant is the number of *)
(* ticks until it, and Tick lowers all of them.  A clock value that a      *)
(* worker captured is the number of ticks since it was read (age).  An     *)
(* instant more than MaxStale ticks ago is due for every clock anyone      *)
(* still holds, so it is kept as Past, and so is NULL: each query treats   *)
(* "NULL" and "in the past" alike.                                         *)
(***************************************************************************)
EXTENDS Integers, FiniteSets

CONSTANTS
  Repositories,     \* repositories tracked by ezRepo
  Accounts,         \* provider accounts
  AccountOf,        \* Repository.providerAccountId
  Workers,          \* passes of the queue worker that may overlap
  NoToken,          \* NULL in a lease token column
  RowIds,           \* primary keys for request rows
  SyncLease,        \* syncLeaseMs
  WebhookDebounce,  \* webhookDebounceMs
  MaxAttempts,      \* maximumProviderSyncAttempts
  BatchSize,        \* candidateBatchSize
  RetryDelays,      \* jittered delays before a retry of a transient failure
  RateLimitDelays,  \* delays a rate-limit response may ask for
  MaxStale          \* bound: ticks a captured clock or an open transaction lasts

ASSUME ConstantsAssumption ==
  /\ Repositories # {} /\ RowIds # {}
  /\ AccountOf \in [Repositories -> Accounts]
  /\ NoToken \notin Workers
  /\ MaxStale \in Nat /\ MaxAttempts \in Nat \ {0} /\ BatchSize \in Nat \ {0}
  /\ WebhookDebounce \in Nat
  /\ SyncLease \in Nat /\ SyncLease > 2 * MaxStale
  /\ RetryDelays \subseteq Nat \ {0} /\ RateLimitDelays \subseteq Nat \ {0}
  /\ RetryDelays # {} /\ RateLimitDelays # {}

VARIABLES
  repository,  \* Repository.enabled
  account,     \* the ProviderAccount rows
  request,     \* the RepositorySyncRequest row of each repository
  worker,      \* control state of each pass
  reconciling, \* repositories a reconciliation has read and not yet enqueued
  asked        \* history: has a request been accepted that no verdict answers

vars == <<repository, account, request, worker, reconciling, asked>>
-----------------------------------------------------------------------------
Past == -MaxStale
Later(t) == IF t > Past THEN t - 1 ELSE Past
Instant == {t \in Int : t >= Past}

Account == [exists : BOOLEAN, enabled : BOOLEAN, rateLimitResetAt : Instant,
            syncLeaseToken : Workers \cup {NoToken}, syncLeaseExpiresAt : Instant]

\* Attempts beyond the maximum are not told apart: MaxAttempts + 1 stands for them.
Attempt == 0..(MaxAttempts + 1)
NextAttempt(n) == IF n > MaxAttempts THEN n ELSE n + 1

RequestStatus == {"PENDING", "RUNNING", "FAILED"}
Request == [status : RequestStatus \cup {"ABSENT"}, id : RowIds, attempt : Attempt,
            runAfter : Instant, leaseToken : Workers \cup {NoToken},
            leaseExpiresAt : Instant]

\* One row of the snapshot of findMany.  A row's generation is only ever compared
\* with the one in a snapshot of it, so what is kept is whether the row has been
\* enqueued again since the snapshot was taken (current.generation > generation).
Candidate == [repo : Repositories, id : RowIds, attempt : Attempt,
              runAfter : Instant, superseded : BOOLEAN]

Phase == {"idle", "stopped", "claimNextRequest", "claimCandidate", "syncing",
          "completeRead", "completeWrite", "failRead", "failWrite"}
Verdict == {"transient", "rateLimited", "permanent"}
Finding == {"gone", "superseded", "current"}

\* job is the ClaimedSyncRequest (meaningful from "syncing" on), found is what
\* findUnique returned in the open transaction, error what the sync threw.
\* leaseLeft and late are history: the remaining life of the lease this pass
\* wrote, and whether a request arrived after its sync began.
Worker == [phase : Phase, age : 0..MaxStale, candidates : SUBSET Candidate,
           job : Candidate, found : Finding, error : Verdict,
           leaseLeft : Instant, late : BOOLEAN]

Enabled(r) == repository[r] /\ account[AccountOf[r]].enabled
Present(r) == request[r].status # "ABSENT"

Syncing == {"syncing"}
Finishing == {"completeRead", "completeWrite", "failRead", "failWrite"}
InTransaction == {"completeWrite", "failWrite"}
Claimed(w) == worker[w].phase \in Syncing \cup Finishing
RepoOf(w) == worker[w].job.repo
AccountOfJob(w) == AccountOf[RepoOf(w)]

NoJob == [repo |-> CHOOSE r \in Repositories : TRUE, id |-> CHOOSE i \in RowIds : TRUE,
          attempt |-> 0, runAfter |-> Past, superseded |-> FALSE]
IdleWorker == [phase |-> "idle", age |-> 0, candidates |-> {}, job |-> NoJob,
               found |-> "gone", error |-> "permanent", leaseLeft |-> Past, late |-> FALSE]
NoRequest == [status |-> "ABSENT", id |-> CHOOSE i \in RowIds : TRUE, attempt |-> 0,
              runAfter |-> Past, leaseToken |-> NoToken, leaseExpiresAt |-> Past]
FreeAccount == [exists |-> TRUE, enabled |-> TRUE, rateLimitResetAt |-> Past,
                syncLeaseToken |-> NoToken, syncLeaseExpiresAt |-> Past]

Init ==
  /\ repository = [r \in Repositories |-> TRUE]
  /\ account = [a \in Accounts |-> FreeAccount]
  /\ request = [r \in Repositories |-> NoRequest]
  /\ worker = [w \in Workers |-> IdleWorker]
  /\ reconciling = {}
  /\ asked = [r \in Repositories |-> "none"]
-----------------------------------------------------------------------------
(***************************************************************************)
(* Enqueueing: one upsert statement, atomic in the database.               *)
(***************************************************************************)
\* A new row gets a random key: one that no snapshot or job still refers to.
HeldIds(r) ==
  {worker[w].job.id : w \in {v \in Workers : Claimed(v) /\ RepoOf(v) = r}}
    \cup {c.id : c \in {d \in UNION {worker[w].candidates : w \in Workers} : d.repo = r}}
FreeIds(r) == RowIds \ HeldIds(r)

UpsertedRow(r, delay) ==
  IF ~Present(r)
  THEN [NoRequest EXCEPT !.status = "PENDING", !.runAfter = delay,
                         !.id = CHOOSE i \in FreeIds(r) : TRUE]
  ELSE IF request[r].status = "RUNNING"
  THEN [request[r] EXCEPT !.runAfter = delay]
  ELSE [request[r] EXCEPT !.status = "PENDING", !.runAfter = delay, !.attempt = 0]

\* Mutant of Overtake: the upsert leaves "generation" alone.
OvertakeKeepsGeneration(c, r) == c

\* "generation" + 1: whoever holds a snapshot of the row is behind it from now on.
Overtaken(c, r) == c.repo = r /\ Present(r) /\ c.id = request[r].id
Overtake(c, r) == IF Overtaken(c, r) THEN [c EXCEPT !.superseded = TRUE] ELSE c

\* History: the request arrived in the gap between the findUnique of a finishing
\* transaction and the write that acts on its result.
InFinishingGap(r) ==
  \E w \in Workers : /\ worker[w].phase \in InTransaction
                     /\ worker[w].found = "current"
                     /\ Overtaken(worker[w].job, r)

EnqueueRepository(r, delay) ==
  /\ Present(r) \/ FreeIds(r) # {}
  /\ request' = [request EXCEPT ![r] = UpsertedRow(r, delay)]
  /\ worker' = [w \in Workers |->
       [worker[w] EXCEPT !.candidates = {Overtake(c, r) : c \in @},
                         !.job = IF Claimed(w) THEN Overtake(@, r) ELSE @,
                         !.late = @ \/ (Claimed(w) /\ RepoOf(w) = r)]]
  /\ asked' = IF Enabled(r)
              THEN [asked EXCEPT ![r] = IF InFinishingGap(r) THEN "raced" ELSE "open"]
              ELSE asked
  /\ UNCHANGED <<repository, account>>

\* A verified webhook delivery.
EnqueueWebhookRepository(r) ==
  /\ Enabled(r)
  /\ EnqueueRepository(r, WebhookDebounce)
  /\ UNCHANGED reconciling

\* An administrator's sync button, or the second step of adding a repository;
\* neither looks at the enabled flags.
EnqueueRepositorySync(r) ==
  /\ account[AccountOf[r]].exists
  /\ EnqueueRepository(r, 0)
  /\ UNCHANGED reconciling

\* The reconciliation reads the enabled repositories, then enqueues one after the
\* other; a repository may be disabled, or gone, when its turn comes.
StartReconciliation ==
  /\ reconciling' = reconciling \cup {r \in Repositories : Enabled(r)}
  /\ UNCHANGED <<repository, account, request, worker, asked>>

ReconcileRepository(r) ==
  /\ r \in reconciling
  /\ account[AccountOf[r]].exists
  /\ EnqueueRepository(r, 0)
  /\ reconciling' = reconciling \ {r}

\* The process stops, or the insert violates the foreign key of a removed repository.
ReconciliationAborts ==
  /\ reconciling # {}
  /\ reconciling' = {}
  /\ UNCHANGED <<repository, account, request, worker, asked>>
-----------------------------------------------------------------------------
(***************************************************************************)
(* Claiming.                                                               *)
(***************************************************************************)
\* Mutant of AccountFree: the lease is not looked at.
AccountFreeIgnoresLease(a, age) ==
  account[a].enabled /\ account[a].rateLimitResetAt + age <= 0

AccountFree(a, age) ==
  /\ account[a].enabled
  /\ account[a].syncLeaseExpiresAt + age <= 0
  /\ account[a].rateLimitResetAt + age <= 0

\* Mutant of RequestDue: rows whose lease expired are not taken over.
RequestDuePendingOnly(r, age) ==
  request[r].status = "PENDING" /\ request[r].runAfter + age <= 0

RequestDue(r, age) ==
  \/ request[r].status = "PENDING" /\ request[r].runAfter + age <= 0
  \/ request[r].status = "RUNNING" /\ request[r].leaseExpiresAt + age <= 0

\* The first BatchSize rows by runAfter (the order by createdAt of rows with the
\* same runAfter is left open).
FirstBatches(due) ==
  {batch \in SUBSET due :
     /\ Cardinality(batch) = IF Cardinality(due) < BatchSize THEN Cardinality(due) ELSE BatchSize
     /\ \A r \in batch, s \in due \ batch : request[r].runAfter <= request[s].runAfter}

\* Mutant of Snapshot: the attempt is counted when it is read as well as when claimed.
SnapshotCountsAttempt(r) ==
  [repo |-> r, id |-> request[r].id, attempt |-> request[r].attempt + 1,
   runAfter |-> request[r].runAfter, superseded |-> FALSE]

Snapshot(r) == [repo |-> r, id |-> request[r].id, attempt |-> request[r].attempt,
                runAfter |-> request[r].runAfter, superseded |-> FALSE]

\* processDueRequests starts: rows of disabled repositories and accounts are deleted.
StartPass(w) ==
  /\ worker[w].phase \in {"idle", "stopped"}
  /\ request' = [r \in Repositories |-> IF Enabled(r) THEN request[r] ELSE NoRequest]
  /\ worker' = [worker EXCEPT ![w].phase = "claimNextRequest"]
  /\ UNCHANGED <<repository, account, reconciling, asked>>

\* claimNextRequest reads the clock and the candidates; without one the pass ends.
ReadCandidates(w) ==
  /\ worker[w].phase = "claimNextRequest"
  /\ \E batch \in FirstBatches({r \in Repositories : /\ Enabled(r)
                                                    /\ AccountFree(AccountOf[r], 0)
                                                    /\ RequestDue(r, 0)}) :
       worker' = [worker EXCEPT ![w] =
         IF batch = {} THEN IdleWorker
         ELSE [IdleWorker EXCEPT !.phase = "claimCandidate",
                                 !.candidates = {Snapshot(r) : r \in batch}]]
  /\ UNCHANGED <<repository, account, request, reconciling, asked>>

NextCandidate(w, c) ==
  /\ worker[w].phase = "claimCandidate"
  /\ c \in worker[w].candidates
  /\ \A d \in worker[w].candidates : c.runAfter <= d.runAfter

StillDue(w, c) ==
  /\ Present(c.repo)
  /\ request[c.repo].id = c.id
  /\ RequestDue(c.repo, worker[w].age)

\* claimCandidate takes the account lease, then the request, in one transaction.
Claim(w, c) ==
  LET a == AccountOf[c.repo]
      expiry == SyncLease - worker[w].age
  IN /\ AccountFree(a, worker[w].age)
     /\ StillDue(w, c)
     /\ account' = [account EXCEPT ![a].syncLeaseToken = w, ![a].syncLeaseExpiresAt = expiry]
     /\ request' = [request EXCEPT
          ![c.repo].status = "RUNNING", ![c.repo].attempt = NextAttempt(@),
          ![c.repo].leaseToken = w, ![c.repo].leaseExpiresAt = expiry]
     /\ worker' = [worker EXCEPT ![w] =
          [IdleWorker EXCEPT
             !.phase = "syncing", !.leaseLeft = expiry,
             !.job = [c EXCEPT !.attempt = NextAttempt(c.attempt), !.runAfter = Past]]]

\* Either update matched no row: try the next candidate, and give the account
\* lease back when it was the request that could not be claimed.
Pass(w, c) ==
  LET a == AccountOf[c.repo]
      rest == worker[w].candidates \ {c}
  IN /\ ~(AccountFree(a, worker[w].age) /\ StillDue(w, c))
     /\ account' = IF AccountFree(a, worker[w].age)
                   THEN [account EXCEPT ![a].syncLeaseToken = NoToken,
                                        ![a].syncLeaseExpiresAt = Past]
                   ELSE account
     /\ worker' = [worker EXCEPT ![w] = IF rest = {} THEN IdleWorker
                                        ELSE [@ EXCEPT !.candidates = rest]]
     /\ UNCHANGED request

ClaimCandidate(w) ==
  /\ \E c \in worker[w].candidates : NextCandidate(w, c) /\ (Claim(w, c) \/ Pass(w, c))
  /\ UNCHANGED <<repository, reconciling, asked>>
-----------------------------------------------------------------------------
(***************************************************************************)
(* Executing and finishing.                                                *)
(***************************************************************************)
\* History: a verdict answers the requests made before the sync began.
Answered(w) == IF worker[w].late THEN asked ELSE [asked EXCEPT ![RepoOf(w)] = "none"]

\* syncRepositoryById returns (also when it finds the repository disabled).
SyncSucceeds(w) ==
  /\ worker[w].phase = "syncing"
  /\ worker' = [worker EXCEPT ![w].phase = "completeRead"]
  /\ asked' = Answered(w)
  /\ UNCHANGED <<repository, account, request, reconciling>>

SyncThrows(w) ==
  /\ worker[w].phase = "syncing"
  /\ \E error \in Verdict :
       worker' = [worker EXCEPT ![w].phase = "failRead", ![w].error = error]
  /\ UNCHANGED <<repository, account, request, reconciling, asked>>

RowIsThere(w) == Present(RepoOf(w)) /\ request[RepoOf(w)].id = worker[w].job.id

\* findUnique in the transaction of completeRequest or failRequest.
FindUnique(w) ==
  /\ worker[w].phase \in {"completeRead", "failRead"}
  /\ worker' = [worker EXCEPT
       ![w].phase = IF @ = "completeRead" THEN "completeWrite" ELSE "failWrite",
       ![w].age = IF worker[w].phase = "completeRead" THEN 0 ELSE @,
       ![w].found = IF ~RowIsThere(w) \/ request[RepoOf(w)].leaseToken # w THEN "gone"
                    ELSE IF worker[w].job.superseded THEN "superseded"
                    ELSE "current"]
  /\ UNCHANGED <<repository, account, request, reconciling, asked>>

\* Mutant of ReleaseAccount: the update is not conditional on the token.
ReleaseAccountOfAnyone(w, rateLimitResetAt) ==
  account' = [account EXCEPT ![AccountOfJob(w)] =
               [@ EXCEPT !.rateLimitResetAt = rateLimitResetAt,
                         !.syncLeaseToken = NoToken, !.syncLeaseExpiresAt = Past]]

\* updateMany on the account matches only while it carries this pass's token.
ReleaseAccount(w, rateLimitResetAt) ==
  account' = IF account[AccountOfJob(w)].syncLeaseToken = w
             THEN [account EXCEPT ![AccountOfJob(w)] =
                    [@ EXCEPT !.rateLimitResetAt = rateLimitResetAt,
                              !.syncLeaseToken = NoToken, !.syncLeaseExpiresAt = Past]]
             ELSE account

Unleased(row) == [row EXCEPT !.leaseToken = NoToken, !.leaseExpiresAt = Past]
Requeued(row) == [Unleased(row) EXCEPT !.status = "PENDING", !.attempt = 0]

EndTransaction(w) == worker' = [worker EXCEPT ![w] = [IdleWorker EXCEPT !.phase = "claimNextRequest"]]

CompleteRequest(w) ==
  /\ worker[w].phase = "completeWrite"
  /\ worker[w].found = "gone" \/ RowIsThere(w)
  /\ request' = CASE worker[w].found = "gone" -> request
                  [] worker[w].found = "superseded" ->
                       [request EXCEPT ![RepoOf(w)] = Requeued(@)]
                  [] worker[w].found = "current" ->
                       [request EXCEPT ![RepoOf(w)] = NoRequest]
  /\ ReleaseAccount(w, Past)
  /\ EndTransaction(w)
  /\ UNCHANGED <<repository, reconciling, asked>>

\* The row vanished since findUnique, or the transaction is rolled back: the catch
\* of processClaimedRequest takes it for a failure of the sync itself.
CompleteRequestThrows(w) ==
  /\ worker[w].phase \in {"completeRead", "completeWrite"}
  /\ worker' = [worker EXCEPT ![w] =
       [@ EXCEPT !.phase = "failRead", !.age = 0, !.found = "gone", !.error = "permanent"]]
  /\ UNCHANGED <<repository, account, request, reconciling, asked>>

\* Mutants of Retry: one try too many; no limit.
RetryOnceMore(w) == worker[w].error # "permanent" /\ worker[w].job.attempt <= MaxAttempts
RetryForever(w) == worker[w].error # "permanent"

\* providerRetryDecision.  A delay counts from the failure: retryAt lies ahead of the
\* response it came with, and a jittered delay is at least a second.
Retry(w) == worker[w].error # "permanent" /\ worker[w].job.attempt < MaxAttempts
Delays(error) == CASE error = "rateLimited" -> RateLimitDelays
                   [] error = "transient" -> RetryDelays
                   [] error = "permanent" -> {0}

\* Mutant of FailedRow: a newer request does not supersede the failure.
FailedRowRegardless(w, row, until) ==
  IF Retry(w) THEN [Unleased(row) EXCEPT !.status = "PENDING", !.runAfter = until]
  ELSE [Unleased(row) EXCEPT !.status = "FAILED", !.runAfter = Past]

\* The runAfter of a FAILED row is never read again; it is kept as Past.
FailedRow(w, row, until) ==
  IF worker[w].found = "superseded" THEN Requeued(row)
  ELSE IF Retry(w) THEN [Unleased(row) EXCEPT !.status = "PENDING", !.runAfter = until]
  ELSE [Unleased(row) EXCEPT !.status = "FAILED", !.runAfter = Past]

FailRequest(w) ==
  /\ worker[w].phase = "failWrite"
  /\ worker[w].found = "gone" \/ RowIsThere(w)
  /\ \E delay \in Delays(worker[w].error) :
       LET until == delay - worker[w].age
       IN /\ request' = IF worker[w].found = "gone" THEN request
                        ELSE [request EXCEPT ![RepoOf(w)] = FailedRow(w, @, until)]
          /\ ReleaseAccount(w, IF worker[w].error = "rateLimited" THEN until ELSE Past)
  /\ asked' = IF worker[w].found = "current" /\ ~Retry(w) THEN Answered(w) ELSE asked
  /\ EndTransaction(w)
  /\ UNCHANGED <<repository, reconciling>>

\* The row vanished since findUnique: its update throws out of processDueRequests, and
\* the account lease stays until it expires.
FailRequestThrows(w) ==
  /\ worker[w].phase = "failWrite"
  /\ worker[w].found # "gone" /\ ~RowIsThere(w)
  /\ worker' = [worker EXCEPT ![w] = IdleWorker]
  /\ UNCHANGED <<repository, account, request, reconciling, asked>>

\* The process stops, or a statement outside completeRequest fails: the pass is
\* over and whatever it held stays as the last commit left it.
PassAborts(w) ==
  /\ worker[w].phase \notin {"idle", "stopped"}
  /\ worker' = [worker EXCEPT ![w] = [IdleWorker EXCEPT !.phase = "stopped"]]
  /\ UNCHANGED <<repository, account, request, reconciling, asked>>
-----------------------------------------------------------------------------
(***************************************************************************)
(* Administration and time.                                                *)
(***************************************************************************)
\* History: nothing is owed to a repository that is not synchronized any more.
Forget(off) == asked' = [r \in Repositories |-> IF off[r] THEN "none" ELSE asked[r]]

SetRepositoryEnabled(r, enabled) ==
  /\ account[AccountOf[r]].exists
  /\ repository[r] # enabled
  /\ repository' = [repository EXCEPT ![r] = enabled]
  /\ Forget([s \in Repositories |-> s = r])
  /\ UNCHANGED <<account, request, worker, reconciling>>

SetAccountEnabled(a, enabled) ==
  /\ account[a].exists
  /\ account[a].enabled # enabled
  /\ account' = [account EXCEPT ![a].enabled = enabled]
  /\ Forget([r \in Repositories |-> AccountOf[r] = a])
  /\ UNCHANGED <<repository, request, worker, reconciling>>

\* The deletion cascades to the account's repositories and their requests.
RemoveAccount(a) ==
  /\ account[a].exists
  /\ account' = [account EXCEPT ![a] = [FreeAccount EXCEPT !.exists = FALSE, !.enabled = FALSE]]
  /\ request' = [r \in Repositories |-> IF AccountOf[r] = a THEN NoRequest ELSE request[r]]
  /\ Forget([r \in Repositories |-> AccountOf[r] = a])
  /\ UNCHANGED <<repository, worker, reconciling>>

HoldsClock(w) == worker[w].phase \in {"claimCandidate", "failRead"} \cup InTransaction

\* Time passes.  A claim loop, an open transaction, and a failure on its way into the
\* database are over within MaxStale ticks (an interactive transaction is rolled back
\* by its timeout); a sync is not bounded.
Tick ==
  /\ \A w \in Workers : HoldsClock(w) => worker[w].age < MaxStale
  /\ account' = [a \in Accounts |->
       [account[a] EXCEPT !.rateLimitResetAt = Later(@), !.syncLeaseExpiresAt = Later(@)]]
  /\ request' = [r \in Repositories |->
       [request[r] EXCEPT !.runAfter = Later(@), !.leaseExpiresAt = Later(@)]]
  /\ worker' = [w \in Workers |->
       [worker[w] EXCEPT !.age = IF HoldsClock(w) THEN @ + 1 ELSE @,
                         !.leaseLeft = Later(@)]]
  /\ UNCHANGED <<repository, reconciling, asked>>
-----------------------------------------------------------------------------
WorkerStep(w) ==
  \/ StartPass(w) \/ ReadCandidates(w) \/ ClaimCandidate(w)
  \/ SyncSucceeds(w) \/ SyncThrows(w)
  \/ FindUnique(w) \/ CompleteRequest(w) \/ CompleteRequestThrows(w)
  \/ FailRequest(w) \/ FailRequestThrows(w)

Webhook == \E r \in Repositories : EnqueueWebhookRepository(r)
Manual == \E r \in Repositories : EnqueueRepositorySync(r)
Reconcile == StartReconciliation \/ \E r \in Repositories : ReconcileRepository(r)
Serve == \E w \in Workers : WorkerStep(w)
Abort == \E w \in Workers : PassAborts(w)

Administer ==
  \/ \E r \in Repositories, enabled \in BOOLEAN : SetRepositoryEnabled(r, enabled)
  \/ \E a \in Accounts, enabled \in BOOLEAN : SetAccountEnabled(a, enabled)
  \/ \E a \in Accounts : RemoveAccount(a)

Next ==
  \/ Webhook \/ Manual \/ Reconcile \/ ReconciliationAborts
  \/ Serve \/ Abort \/ Administer \/ Tick

Spec == Init /\ [][Next]_vars

\* Weak fairness of time and of every pass: the worker interval keeps firing, and
\* statements and provider calls return.
WorkerFairness == WF_vars(Tick) /\ \A w \in Workers : WF_vars(WorkerStep(w))

\* Weak fairness of the reconciliation interval.
ReconciliationFairness ==
  WF_vars(StartReconciliation) /\ \A r \in Repositories : WF_vars(ReconcileRepository(r))

FairSpec == Spec /\ WorkerFairness
-----------------------------------------------------------------------------
\* Type invariant of the queue's tables and of the passes.
TypeOK ==
  /\ repository \in [Repositories -> BOOLEAN]
  /\ account \in [Accounts -> Account]
  /\ request \in [Repositories -> Request]
  /\ worker \in [Workers -> Worker]
  /\ reconciling \subseteq Repositories
  /\ asked \in [Repositories -> {"none", "open", "raced"}]

InLease(w) == Claimed(w) /\ worker[w].leaseLeft > 0

\* Two passes never hold unexpired leases of the same provider account: whatever
\* runs in parallel on one account (syncLeaseToken) has outlived its lease.
LeaseExclusive ==
  \A v, w \in Workers :
    v # w /\ InLease(v) /\ InLease(w) => AccountOfJob(v) # AccountOfJob(w)

\* Nobody talks to a provider account within an unexpired lease while the account's
\* rateLimitResetAt lies in the future: no stale finish sets or clears it under a
\* running pass, and no stale clock claims it.
RateLimitHonoured ==
  \A w \in Workers : InLease(w) => account[AccountOfJob(w)].rateLimitResetAt <= 0

RateLimitKept ==
  \A a \in Accounts :
    account[a].rateLimitResetAt > 0 /\ account'[a].exists
      => account'[a].rateLimitResetAt >= account[a].rateLimitResetAt - 1

\* Only time ends a rate limit: no other step (the completion of a pass that lost its
\* lease, a failed claim that hands the lease back) shortens one that lies ahead.
RateLimitNeverShortened == [][RateLimitKept]_vars

\* A request that no verdict has answered is still queued, across crashes, lost leases,
\* supersession and concurrent finishes: unless it arrived in the gap between the
\* findUnique and the write of a finishing transaction, its row is there and claimable.
UnansweredStaysQueued ==
  \A r \in Repositories :
    asked[r] = "open" => request[r].status \in {"PENDING", "RUNNING"}

\* The retry budget: a row waiting for another try never has used more than
\* maximumProviderSyncAttempts tries, though the decision is taken from the attempt
\* number of a snapshot that may be stale.
RetriesBounded ==
  \A r \in Repositories : request[r].status = "PENDING" => request[r].attempt <= MaxAttempts

\* The abstract gate: who is inside, and for how long each account is limited.
Using == [a \in Accounts |-> {w \in Workers : InLease(w) /\ AccountOfJob(w) = a}]
Limit == [a \in Accounts |-> IF account[a].rateLimitResetAt > 0 THEN account[a].rateLimitResetAt ELSE 0]
Gate == INSTANCE ProviderGate WITH Passes <- Workers, using <- Using, limit <- Limit

\* The queue implements the gate in front of each provider account: whatever overlaps,
\* crashes, outlives its lease or is switched off, every step is one of the gate's or
\* leaves the gate alone.
GateImplemented == Gate!Spec

TakenUp(r) == \E w \in Workers : Claimed(w) /\ RepoOf(w) = r /\ ~worker[w].late

\* While the reconciliation keeps running, and once webhooks and crashes pause, every
\* request accepted before is taken up by a sync that begins after it: leases of crashed
\* passes expire, rate limits end, and a request lost in the gap of a finishing
\* transaction is replaced by the reconciliation.
AcceptedIsTakenUp ==
  ReconciliationFairness /\ <>[][~(Webhook \/ Abort)]_vars
    => \A r \in Repositories : asked[r] # "none" ~> (asked[r] = "none" \/ TakenUp(r))

\* Once requests stop coming and nothing fails any more, and as long as no sync outlives
\* its lease, the queue answers every request it still holds: with a completed sync, or
\* with FAILED when the retries are used up.
QueueDrains ==
  (/\ <>[][~(Webhook \/ Manual \/ Reconcile \/ Abort)]_vars
   /\ <>[](\A w \in Workers : Claimed(w) => InLease(w)))
  => \A r \in Repositories : asked[r] = "open" ~> asked[r] # "open"

\* docs/provider-webhooks.md: instances "never synchronize the same provider account
\* in parallel".
NeverInParallel ==
  \A v, w \in Workers :
    v # w /\ worker[v].phase = "syncing" /\ worker[w].phase = "syncing"
      => AccountOfJob(v) # AccountOfJob(w)

\* docs/provider-webhooks.md: "Accepted deliveries enqueue a durable repository
\* synchronization".
AcceptedIsDurable ==
  \A r \in Repositories :
    asked[r] # "none" => request[r].status \in {"PENDING", "RUNNING"}
=============================================================================
