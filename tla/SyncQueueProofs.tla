-------------------------- MODULE SyncQueueProofs --------------------------
(***************************************************************************)
(* Type correctness of the synchronization queue, the two guarantees a     *)
(* provider account gets from its lease, and that the queue implements the *)
(* gate in front of the accounts, for any number of repositories, accounts *)
(* and passes and any lengths of leases and delays.                        *)
(***************************************************************************)
EXTENDS SyncQueue, TLAPS

LEMMA PastIsInstant == Past \in Instant /\ Past <= 0
BY ConstantsAssumption DEF Past, Instant

LEMMA LaterIsInstant ==
  ASSUME NEW t \in Instant
  PROVE  Later(t) \in Instant
BY ConstantsAssumption DEF Past, Instant, Later

LEMMA DelayIsInstant ==
  ASSUME NEW d \in Nat
  PROVE  d \in Instant
BY ConstantsAssumption DEF Past, Instant

\* A delay that began at most MaxStale ticks ago ends at an instant that is kept exactly.
LEMMA DatedDelayIsInstant ==
  ASSUME TypeOK, NEW w \in Workers, NEW delay \in Delays(worker[w].error)
  PROVE  delay - worker[w].age \in Instant
<1>1. delay \in Nat
  BY ConstantsAssumption DEF TypeOK, Worker, Verdict, Delays
<1>2. worker[w].age \in 0..MaxStale
  BY DEF TypeOK, Worker
<1>3. QED
  BY <1>1, <1>2, ConstantsAssumption DEF Instant, Past

LEMMA ZeroTypes == 0 \in 0..MaxStale /\ 0 \in Attempt
BY ConstantsAssumption DEF Attempt

LEMMA NextAttemptType ==
  ASSUME NEW n \in Attempt
  PROVE  NextAttempt(n) \in Attempt
BY ConstantsAssumption DEF NextAttempt, Attempt

LEMMA RecordTypes ==
  /\ NoJob \in Candidate
  /\ IdleWorker \in Worker
  /\ NoRequest \in Request
  /\ FreeAccount \in Account
<1>1. NoJob \in Candidate
  BY PastIsInstant, ConstantsAssumption DEF NoJob, Candidate, Attempt
<1>2. IdleWorker \in Worker
  BY <1>1, PastIsInstant, ConstantsAssumption DEF IdleWorker, Worker, Phase, Finding, Verdict
<1>3. NoRequest \in Request
  BY PastIsInstant, ConstantsAssumption DEF NoRequest, Request, RequestStatus, Attempt
<1>4. FreeAccount \in Account
  BY PastIsInstant DEF FreeAccount, Account
<1>5. QED  BY <1>1, <1>2, <1>3, <1>4

\* In the initial state every variable has its type.
LEMMA InitType == Init => TypeOK
BY RecordTypes DEF Init, TypeOK

-----------------------------------------------------------------------------
(* Every action keeps the types. *)

LEMMA EnqueueType ==
  ASSUME TypeOK, NEW r \in Repositories, NEW delay \in Nat, EnqueueRepository(r, delay)
  PROVE  /\ repository' \in [Repositories -> BOOLEAN]
         /\ account' \in [Accounts -> Account]
         /\ request' \in [Repositories -> Request]
         /\ worker' \in [Workers -> Worker]
         /\ asked' \in [Repositories -> {"none", "open", "raced"}]
<1>1. UpsertedRow(r, delay) \in Request
  <2>1. request[r] \in Request
    BY DEF TypeOK
  <2>2. ~Present(r) => (CHOOSE i \in FreeIds(r) : TRUE) \in RowIds
    BY DEF EnqueueRepository, FreeIds
  <2>3. 0 \in Attempt
    BY ConstantsAssumption DEF Attempt
  <2>4. QED
    BY <2>1, <2>2, <2>3, DelayIsInstant, RecordTypes
       DEF UpsertedRow, Request, RequestStatus
<1>2. \A c \in Candidate : Overtake(c, r) \in Candidate
  BY DEF Overtake, Candidate
<1>3. worker' \in [Workers -> Worker]
  <2> SUFFICES ASSUME NEW w \in Workers
               PROVE  [worker[w] EXCEPT
                         !.candidates = {Overtake(c, r) : c \in @},
                         !.job = IF Claimed(w) THEN Overtake(@, r) ELSE @,
                         !.late = @ \/ (Claimed(w) /\ RepoOf(w) = r)] \in Worker
    BY DEF EnqueueRepository
  <2>1. worker[w] \in Worker
    BY DEF TypeOK
  <2>2. {Overtake(c, r) : c \in worker[w].candidates} \in SUBSET Candidate
    BY <1>2, <2>1 DEF Worker
  <2>3. Overtake(worker[w].job, r) \in Candidate
    BY <1>2, <2>1 DEF Worker
  <2>4. (worker[w].late \/ (Claimed(w) /\ RepoOf(w) = r)) \in BOOLEAN
    OBVIOUS
  <2>5. QED
    BY <2>1, <2>2, <2>3, <2>4 DEF Worker
<1>4. QED
  BY <1>1, <1>3 DEF EnqueueRepository, TypeOK

LEMMA WorkerStepType ==
  ASSUME TypeOK, NEW w \in Workers, WorkerStep(w)
  PROVE  TypeOK'
<1> USE DEF TypeOK
<1>0. /\ worker[w] \in Worker
      /\ worker[w].job \in Candidate
      /\ RepoOf(w) \in Repositories
      /\ AccountOfJob(w) \in Accounts
      /\ request[RepoOf(w)] \in Request
      /\ account[AccountOfJob(w)] \in Account
  BY ConstantsAssumption DEF Worker, Candidate, RepoOf, AccountOfJob
<1>1. CASE StartPass(w)
  <2>1. [worker[w] EXCEPT !.phase = "claimNextRequest"] \in Worker
    BY <1>0 DEF Worker, Phase
  <2>2. QED
    BY <1>1, <2>1, RecordTypes DEF StartPass
<1>2. CASE ReadCandidates(w)
  <2>1. \A r \in Repositories : Snapshot(r) \in Candidate
    BY DEF Snapshot, Candidate, Request
  <2>2. PICK batch \in SUBSET Repositories :
          worker' = [worker EXCEPT ![w] =
            IF batch = {} THEN IdleWorker
            ELSE [IdleWorker EXCEPT !.phase = "claimCandidate",
                                    !.candidates = {Snapshot(r) : r \in batch}]]
    BY <1>2 DEF ReadCandidates, FirstBatches
  <2>3. {Snapshot(r) : r \in batch} \in SUBSET Candidate
    BY <2>1
  <2>4. [IdleWorker EXCEPT !.phase = "claimCandidate",
                           !.candidates = {Snapshot(r) : r \in batch}] \in Worker
    BY <2>3, RecordTypes DEF Worker, Phase
  <2>5. worker' \in [Workers -> Worker]
    BY <2>2, <2>4, RecordTypes
  <2>6. QED
    BY <1>2, <2>5 DEF ReadCandidates
<1>3. CASE ClaimCandidate(w)
  <2>1. PICK c \in worker[w].candidates : NextCandidate(w, c) /\ (Claim(w, c) \/ Pass(w, c))
    BY <1>3 DEF ClaimCandidate
  <2>2. /\ c \in Candidate
        /\ AccountOf[c.repo] \in Accounts
        /\ request[c.repo] \in Request
        /\ account[AccountOf[c.repo]] \in Account
    BY <1>0, ConstantsAssumption DEF Worker, Candidate
  <2>3. CASE Claim(w, c)
    <3> DEFINE expiry == SyncLease - worker[w].age
    <3>1. expiry \in Instant
      BY <1>0, ConstantsAssumption DEF Worker, Instant, Past
    <3>2. [account[AccountOf[c.repo]] EXCEPT !.syncLeaseToken = w,
                                             !.syncLeaseExpiresAt = expiry] \in Account
      BY <2>2, <3>1 DEF Account
    <3>3. [request[c.repo] EXCEPT !.status = "RUNNING", !.attempt = NextAttempt(@),
                                  !.leaseToken = w, !.leaseExpiresAt = expiry] \in Request
      BY <2>2, <3>1, NextAttemptType DEF Request, RequestStatus
    <3>4. [c EXCEPT !.attempt = NextAttempt(c.attempt), !.runAfter = Past] \in Candidate
      BY <2>2, PastIsInstant, NextAttemptType DEF Candidate
    <3>5. [IdleWorker EXCEPT !.phase = "syncing", !.leaseLeft = expiry,
             !.job = [c EXCEPT !.attempt = NextAttempt(c.attempt), !.runAfter = Past]] \in Worker
      BY <3>1, <3>4, RecordTypes DEF Worker, Phase
    <3>6. account' \in [Accounts -> Account]
      BY <2>3, <3>2 DEF Claim
    <3>7. request' \in [Repositories -> Request]
      <4>1. request' = [request EXCEPT ![c.repo] =
              [request[c.repo] EXCEPT !.status = "RUNNING", !.attempt = NextAttempt(@),
                                      !.leaseToken = w, !.leaseExpiresAt = expiry]]
        BY <2>3 DEF Claim
      <4>2. QED
        BY <2>2, <3>3, <4>1 DEF Candidate
    <3>8. worker' \in [Workers -> Worker]
      BY <2>3, <3>5 DEF Claim
    <3>9. QED
      BY <1>3, <3>6, <3>7, <3>8 DEF ClaimCandidate
  <2>4. CASE Pass(w, c)
    <3>1. [account[AccountOf[c.repo]] EXCEPT !.syncLeaseToken = NoToken,
                                             !.syncLeaseExpiresAt = Past] \in Account
      BY <2>2, PastIsInstant DEF Account
    <3>2. account' \in [Accounts -> Account]
      BY <2>4, <3>1 DEF Pass
    <3>3. [worker[w] EXCEPT !.candidates = worker[w].candidates \ {c}] \in Worker
      BY <1>0 DEF Worker
    <3>4. worker' \in [Workers -> Worker]
      BY <2>4, <3>3, RecordTypes DEF Pass
    <3>5. QED
      BY <1>3, <2>4, <3>2, <3>4 DEF ClaimCandidate, Pass
  <2>5. QED
    BY <2>1, <2>3, <2>4
<1>4. CASE SyncSucceeds(w)
  <2>1. [worker[w] EXCEPT !.phase = "completeRead"] \in Worker
    BY <1>0 DEF Worker, Phase
  <2>2. QED
    BY <1>0, <1>4, <2>1 DEF SyncSucceeds, Answered
<1>5. CASE SyncThrows(w)
  <2>1. \A error \in Verdict :
          [worker[w] EXCEPT !.phase = "failRead", !.error = error] \in Worker
    BY <1>0 DEF Worker, Phase
  <2>2. QED
    BY <1>5, <2>1 DEF SyncThrows
<1>6. CASE FindUnique(w)
  <2>1. \A p \in {"completeWrite", "failWrite"}, n \in 0..MaxStale, f \in Finding :
          [worker[w] EXCEPT !.phase = p, !.age = n, !.found = f] \in Worker
    BY <1>0 DEF Worker, Phase
  <2>2. worker' \in [Workers -> Worker]
    <3>1. worker[w].age \in 0..MaxStale /\ 0 \in 0..MaxStale
      BY <1>0, ZeroTypes DEF Worker
    <3>2. QED
      BY <1>0, <1>6, <2>1, <3>1 DEF FindUnique, Finding
  <2>3. QED
    BY <1>6, <2>2 DEF FindUnique
<1>7. ASSUME NEW t \in Instant, ReleaseAccount(w, t)
      PROVE  account' \in [Accounts -> Account]
  <2>1. [account[AccountOfJob(w)] EXCEPT !.rateLimitResetAt = t, !.syncLeaseToken = NoToken,
                                         !.syncLeaseExpiresAt = Past] \in Account
    BY <1>0, PastIsInstant DEF Account
  <2>2. QED
    BY <1>0, <1>7, <2>1 DEF ReleaseAccount
<1>8. [IdleWorker EXCEPT !.phase = "claimNextRequest"] \in Worker
  BY RecordTypes DEF Worker, Phase
<1>9. EndTransaction(w) => worker' \in [Workers -> Worker]
  BY <1>8 DEF EndTransaction
<1>10. /\ Unleased(request[RepoOf(w)]) \in Request
       /\ Requeued(request[RepoOf(w)]) \in Request
  <2>1. \A row \in Request : Unleased(row) \in Request
    BY PastIsInstant DEF Unleased, Request
  <2>2. \A row \in Request : Requeued(row) \in Request
    BY <2>1, ZeroTypes DEF Requeued, Request, RequestStatus
  <2>3. QED
    BY <1>0, <2>1, <2>2
<1>11. CASE CompleteRequest(w)
  <2>1. request' \in [Repositories -> Request]
    <3>1. worker[w].found \in Finding
      BY <1>0 DEF Worker
    <3>2. QED
      BY <1>0, <1>10, <1>11, <3>1, RecordTypes DEF CompleteRequest, Finding
  <2>2. QED
    BY <1>7, <1>9, <1>11, <2>1, PastIsInstant DEF CompleteRequest
<1>12. CASE CompleteRequestThrows(w)
  <2>1. [worker[w] EXCEPT !.phase = "failRead", !.age = 0, !.found = "gone",
                          !.error = "permanent"] \in Worker
    BY <1>0, ZeroTypes DEF Worker, Phase, Finding, Verdict
  <2>2. QED
    BY <1>12, <2>1 DEF CompleteRequestThrows
<1>13. CASE FailRequest(w)
  <2>1. PICK delay \in Delays(worker[w].error) :
          LET until == delay - worker[w].age
          IN /\ request' = IF worker[w].found = "gone" THEN request
                           ELSE [request EXCEPT ![RepoOf(w)] = FailedRow(w, @, until)]
             /\ ReleaseAccount(w, IF worker[w].error = "rateLimited" THEN until ELSE Past)
    BY <1>13 DEF FailRequest
  <2>2. delay - worker[w].age \in Instant
    BY <2>1, DatedDelayIsInstant
  <2>3. FailedRow(w, request[RepoOf(w)], delay - worker[w].age) \in Request
    BY <1>10, <2>2, PastIsInstant DEF FailedRow, Request, RequestStatus
  <2>4. request' \in [Repositories -> Request]
    BY <1>0, <2>1, <2>3
  <2>5. account' \in [Accounts -> Account]
    BY <1>7, <2>1, <2>2, PastIsInstant
  <2>6. asked' \in [Repositories -> {"none", "open", "raced"}]
    BY <1>0, <1>13 DEF FailRequest, Answered
  <2>7. QED
    BY <1>9, <1>13, <2>4, <2>5, <2>6 DEF FailRequest
<1>14. CASE FailRequestThrows(w)
  BY <1>14, RecordTypes DEF FailRequestThrows
<1>15. QED
  BY <1>1, <1>2, <1>3, <1>4, <1>5, <1>6, <1>11, <1>12, <1>13, <1>14 DEF WorkerStep

LEMMA EnvironmentType ==
  ASSUME TypeOK, Webhook \/ Manual \/ Reconcile \/ ReconciliationAborts
  PROVE  TypeOK'
<1>1. CASE Webhook
  BY <1>1, EnqueueType, ConstantsAssumption DEF Webhook, EnqueueWebhookRepository, TypeOK
<1>2. CASE Manual
  BY <1>2, EnqueueType DEF Manual, EnqueueRepositorySync, TypeOK
<1>3. CASE StartReconciliation
  BY <1>3 DEF StartReconciliation, TypeOK
<1>4. ASSUME NEW r \in Repositories, ReconcileRepository(r)
      PROVE  TypeOK'
  BY <1>4, EnqueueType DEF ReconcileRepository, TypeOK
<1>5. CASE ReconciliationAborts
  BY <1>5 DEF ReconciliationAborts, TypeOK
<1>6. QED
  BY <1>1, <1>2, <1>3, <1>4, <1>5 DEF Reconcile

LEMMA AbortType ==
  ASSUME TypeOK, Abort
  PROVE  TypeOK'
<1>1. [IdleWorker EXCEPT !.phase = "stopped"] \in Worker
  BY RecordTypes DEF Worker, Phase
<1>2. QED
  BY <1>1 DEF Abort, PassAborts, TypeOK

LEMMA AdministerType ==
  ASSUME TypeOK, Administer
  PROVE  TypeOK'
<1> USE DEF TypeOK
<1>1. ASSUME NEW r \in Repositories, NEW enabled \in BOOLEAN, SetRepositoryEnabled(r, enabled)
      PROVE  TypeOK'
  BY <1>1 DEF SetRepositoryEnabled, Forget
<1>2. ASSUME NEW a \in Accounts, NEW enabled \in BOOLEAN, SetAccountEnabled(a, enabled)
      PROVE  TypeOK'
  <2>1. [account[a] EXCEPT !.enabled = enabled] \in Account
    BY DEF Account
  <2>2. account' \in [Accounts -> Account]
    BY <1>2, <2>1 DEF SetAccountEnabled
  <2>3. QED
    BY <1>2, <2>2 DEF SetAccountEnabled, Forget
<1>3. ASSUME NEW a \in Accounts, RemoveAccount(a)
      PROVE  TypeOK'
  <2>1. [FreeAccount EXCEPT !.exists = FALSE, !.enabled = FALSE] \in Account
    BY RecordTypes DEF Account
  <2>2. QED
    BY <1>3, <2>1, RecordTypes DEF RemoveAccount, Forget
<1>4. QED
  BY <1>1, <1>2, <1>3 DEF Administer

LEMMA TickType ==
  ASSUME TypeOK, Tick
  PROVE  TypeOK'
<1> USE DEF TypeOK
<1>1. account' \in [Accounts -> Account]
  <2>1. \A a \in Accounts :
          [account[a] EXCEPT !.rateLimitResetAt = Later(@),
                             !.syncLeaseExpiresAt = Later(@)] \in Account
    BY LaterIsInstant DEF Account
  <2>2. QED
    BY <2>1 DEF Tick
<1>2. request' \in [Repositories -> Request]
  <2>1. \A r \in Repositories :
          [request[r] EXCEPT !.runAfter = Later(@), !.leaseExpiresAt = Later(@)] \in Request
    BY LaterIsInstant DEF Request
  <2>2. QED
    BY <2>1 DEF Tick
<1>3. worker' \in [Workers -> Worker]
  <2> SUFFICES ASSUME NEW w \in Workers
               PROVE  [worker[w] EXCEPT !.age = IF HoldsClock(w) THEN @ + 1 ELSE @,
                                        !.leaseLeft = Later(@)] \in Worker
    BY DEF Tick
  <2>1. worker[w] \in Worker
    BY DEF TypeOK
  <2>2. (IF HoldsClock(w) THEN worker[w].age + 1 ELSE worker[w].age) \in 0..MaxStale
    <3>1. worker[w].age \in 0..MaxStale
      BY <2>1 DEF Worker
    <3>2. HoldsClock(w) => worker[w].age < MaxStale
      BY DEF Tick
    <3>3. QED
      BY <3>1, <3>2, ConstantsAssumption
  <2>3. QED
    BY <2>1, <2>2, LaterIsInstant DEF Worker
<1>4. QED
  BY <1>1, <1>2, <1>3 DEF Tick

\* Every step keeps every variable within its type.
LEMMA NextType == TypeOK /\ [Next]_vars => TypeOK'
<1> SUFFICES ASSUME TypeOK, [Next]_vars
             PROVE  TypeOK'
  OBVIOUS
<1>1. CASE UNCHANGED vars
  BY <1>1 DEF vars, TypeOK
<1>2. CASE Serve
  BY <1>2, WorkerStepType DEF Serve
<1>3. QED
  BY <1>1, <1>2, EnvironmentType, AbortType, AdministerType, TickType DEF Next

\* Whatever the number of repositories, accounts and passes, every row of the queue and
\* every pass stays within its type: leases, delays and attempts are of the right kind.
THEOREM TypeCorrect == Spec => []TypeOK
<1>1. QED
  BY InitType, NextType, PTL DEF Spec
-----------------------------------------------------------------------------
(* Leases and rate limits. *)

\* A pass within its lease still finds that lease on its account; only the removal
\* of the account takes it away.
LeaseHeld ==
  \A w \in Workers :
    InLease(w) /\ account[AccountOfJob(w)].exists
      => /\ account[AccountOfJob(w)].syncLeaseToken = w
         /\ account[AccountOfJob(w)].syncLeaseExpiresAt = worker[w].leaseLeft

\* An account that is gone cannot be claimed.
RemovedAccountIsOff ==
  \A a \in Accounts :
    ~account[a].exists => ~account[a].enabled /\ account[a].rateLimitResetAt <= 0

\* An account that carries a token, expired or not, is not rate limited: whoever sets
\* the limit gives the token back in the same statement.
LeasedAccountIsUnlimited ==
  \A a \in Accounts :
    account[a].syncLeaseToken # NoToken
      => account[a].exists /\ account[a].rateLimitResetAt <= 0

LeaseInv ==
  TypeOK /\ LeaseHeld /\ RemovedAccountIsOff /\ LeasedAccountIsUnlimited /\ LeaseExclusive

LEMMA LeaseInit == Init => LeaseInv
<1> SUFFICES ASSUME Init
             PROVE  LeaseInv
  OBVIOUS
<1>1. TypeOK
  BY InitType
<1>2. \A w \in Workers : ~InLease(w)
  BY DEF Init, InLease, Claimed, IdleWorker, Syncing, Finishing
<1>3. RemovedAccountIsOff /\ LeasedAccountIsUnlimited
  BY DEF Init, FreeAccount, RemovedAccountIsOff, LeasedAccountIsUnlimited
<1>4. QED
  BY <1>1, <1>2, <1>3 DEF LeaseInv, LeaseHeld, LeaseExclusive

\* What a step has to respect when it starts no lease: leases it leaves running keep
\* their repository and their end, and their account keeps the token.
LEMMA LeasesKept ==
  ASSUME LeaseInv, TypeOK', RemovedAccountIsOff', LeasedAccountIsUnlimited',
         \A w \in Workers :
           InLease(w)' => /\ InLease(w)
                          /\ RepoOf(w)' = RepoOf(w)
                          /\ worker'[w].leaseLeft = worker[w].leaseLeft
                          /\ account'[AccountOfJob(w)].exists =>
                               /\ account[AccountOfJob(w)].exists
                               /\ account'[AccountOfJob(w)].syncLeaseToken
                                    = account[AccountOfJob(w)].syncLeaseToken
                               /\ account'[AccountOfJob(w)].syncLeaseExpiresAt
                                    = account[AccountOfJob(w)].syncLeaseExpiresAt
  PROVE  LeaseInv'
<1>1. \A w \in Workers : InLease(w)' => AccountOfJob(w)' = AccountOfJob(w)
  BY DEF AccountOfJob
<1>2. LeaseHeld'
  BY <1>1 DEF LeaseInv, LeaseHeld
<1>3. LeaseExclusive'
  BY <1>1 DEF LeaseInv, LeaseExclusive
<1>4. QED
  BY <1>2, <1>3 DEF LeaseInv

\* The same for the steps that leave the accounts alone.
LEMMA AccountsKept ==
  ASSUME LeaseInv, TypeOK', UNCHANGED account,
         \A w \in Workers :
           InLease(w)' => /\ InLease(w)
                          /\ RepoOf(w)' = RepoOf(w)
                          /\ worker'[w].leaseLeft = worker[w].leaseLeft
  PROVE  LeaseInv'
<1>1. RemovedAccountIsOff' /\ LeasedAccountIsUnlimited'
  BY DEF LeaseInv, RemovedAccountIsOff, LeasedAccountIsUnlimited
<1>2. QED
  BY <1>1, LeasesKept

\* Passes other than w are as before; w's lease is over.
LEMMA OthersKept ==
  ASSUME NEW w \in Workers, NEW W, ~(W.phase \in Syncing \cup Finishing),
         worker \in [Workers -> Worker], worker' = [worker EXCEPT ![w] = W]
  PROVE  \A v \in Workers :
           InLease(v)' => /\ v # w /\ InLease(v)
                          /\ RepoOf(v)' = RepoOf(v)
                          /\ worker'[v].leaseLeft = worker[v].leaseLeft
BY DEF InLease, Claimed, RepoOf

LEMMA ReleaseKeepsLeases ==
  ASSUME LeaseInv, TypeOK', NEW w \in Workers, NEW t \in Instant,
         ReleaseAccount(w, t), EndTransaction(w)
  PROVE  LeaseInv'
<1> DEFINE b == AccountOfJob(w)
<1>1. b \in Accounts /\ account \in [Accounts -> Account] /\ worker \in [Workers -> Worker]
  BY ConstantsAssumption DEF LeaseInv, TypeOK, Worker, Candidate, AccountOfJob, RepoOf
<1>2. NoToken # w
  BY ConstantsAssumption
<1>3. \A a \in Accounts :
        \/ account'[a] = account[a]
        \/ /\ a = b /\ account[a].syncLeaseToken = w
           /\ account'[a].exists = account[a].exists
           /\ account'[a].syncLeaseToken = NoToken
  BY <1>1 DEF ReleaseAccount, Account
<1>4. RemovedAccountIsOff' /\ LeasedAccountIsUnlimited'
  BY <1>2, <1>3 DEF LeaseInv, RemovedAccountIsOff, LeasedAccountIsUnlimited
<1>5. ASSUME NEW v \in Workers, InLease(v)'
      PROVE  /\ v # w /\ InLease(v)
             /\ RepoOf(v)' = RepoOf(v)
             /\ worker'[v].leaseLeft = worker[v].leaseLeft
  <2>1. ~([IdleWorker EXCEPT !.phase = "claimNextRequest"].phase \in Syncing \cup Finishing)
    BY RecordTypes DEF Worker, Syncing, Finishing
  <2>2. QED
    BY <1>1, <1>5, <2>1, OthersKept DEF EndTransaction
<1>6. ASSUME NEW v \in Workers, InLease(v)', account'[AccountOfJob(v)].exists
      PROVE  account'[AccountOfJob(v)] = account[AccountOfJob(v)]
  <2>1. AccountOfJob(v) \in Accounts
    BY ConstantsAssumption DEF LeaseInv, TypeOK, Worker, Candidate, AccountOfJob, RepoOf
  <2>2. account[AccountOfJob(v)].exists => account[AccountOfJob(v)].syncLeaseToken = v
    BY <1>5, <1>6 DEF LeaseInv, LeaseHeld
  <2>3. QED
    BY <1>3, <1>5, <1>6, <2>1, <2>2
<1>7. QED
  BY <1>4, <1>5, <1>6, LeasesKept

\* An account that looks free to any clock read up to now carries no running lease.
LEMMA FreeAccountHasNoLease ==
  ASSUME LeaseInv, NEW a \in Accounts, NEW age \in 0..MaxStale, AccountFree(a, age)
  PROVE  /\ account[a].exists /\ account[a].rateLimitResetAt <= 0
         /\ \A v \in Workers : InLease(v) => AccountOfJob(v) # a
<1>1. /\ account[a].exists
      /\ account[a].rateLimitResetAt \in Int /\ account[a].syncLeaseExpiresAt \in Int
  BY DEF LeaseInv, TypeOK, RemovedAccountIsOff, AccountFree, Account, Instant
<1>2. age \in Nat
  BY ConstantsAssumption
<1>3. account[a].rateLimitResetAt <= 0 /\ account[a].syncLeaseExpiresAt <= 0
  BY <1>1, <1>2 DEF AccountFree
<1>4. ASSUME NEW v \in Workers, InLease(v), AccountOfJob(v) = a
      PROVE  FALSE
  <2>1. account[a].syncLeaseExpiresAt = worker[v].leaseLeft
    BY <1>1, <1>4 DEF LeaseInv, LeaseHeld
  <2>2. worker[v].leaseLeft > 0
    BY <1>4 DEF InLease
  <2>3. QED
    BY <1>1, <1>3, <2>1, <2>2
<1>5. QED
  BY <1>1, <1>3, <1>4

\* Claiming an account starts the only lease running on it.
LEMMA ClaimStartsTheOnlyLease ==
  ASSUME LeaseInv, TypeOK', NEW w \in Workers, NEW c \in worker[w].candidates, Claim(w, c)
  PROVE  LeaseInv'
<1> DEFINE b == AccountOf[c.repo]
           expiry == SyncLease - worker[w].age
<1>1. /\ worker[w] \in Worker /\ c \in Candidate /\ b \in Accounts
      /\ account \in [Accounts -> Account] /\ worker \in [Workers -> Worker]
  BY ConstantsAssumption DEF LeaseInv, TypeOK, Worker, Candidate
<1>2. /\ account[b].exists /\ account[b].rateLimitResetAt <= 0
      /\ \A v \in Workers : InLease(v) => AccountOfJob(v) # b
  <2>1. worker[w].age \in 0..MaxStale
    BY <1>1 DEF Worker
  <2>2. AccountFree(b, worker[w].age)
    BY DEF Claim
  <2>3. QED
    BY <1>1, <2>1, <2>2, FreeAccountHasNoLease
<1>3. /\ \A a \in Accounts : a # b => account'[a] = account[a]
      /\ account'[b].exists = account[b].exists
      /\ account'[b].enabled = account[b].enabled
      /\ account'[b].rateLimitResetAt = account[b].rateLimitResetAt
      /\ account'[b].syncLeaseToken = w
      /\ account'[b].syncLeaseExpiresAt = expiry
  BY <1>1 DEF Claim, Account
<1>4. \A v \in Workers : v # w => worker'[v] = worker[v]
  BY <1>1 DEF Claim
<1>5. worker'[w].leaseLeft = expiry /\ worker'[w].job.repo = c.repo
  BY <1>1, RecordTypes DEF Claim, Worker, Candidate
<1>6. AccountOfJob(w)' = b
  BY <1>5 DEF AccountOfJob, RepoOf
<1>7. \A v \in Workers : v # w =>
        /\ InLease(v)' <=> InLease(v)
        /\ AccountOfJob(v)' = AccountOfJob(v)
  BY <1>4 DEF InLease, Claimed, AccountOfJob, RepoOf
<1>8. \A v \in Workers : AccountOfJob(v) \in Accounts
  BY ConstantsAssumption DEF LeaseInv, TypeOK, Worker, Candidate, AccountOfJob, RepoOf
<1>9. RemovedAccountIsOff'
  BY <1>2, <1>3 DEF LeaseInv, RemovedAccountIsOff
<1>10. LeasedAccountIsUnlimited'
  BY <1>2, <1>3 DEF LeaseInv, LeasedAccountIsUnlimited
<1>11. LeaseHeld'
  <2> SUFFICES ASSUME NEW v \in Workers, InLease(v)', account'[AccountOfJob(v)'].exists
               PROVE  /\ account'[AccountOfJob(v)'].syncLeaseToken = v
                      /\ account'[AccountOfJob(v)'].syncLeaseExpiresAt = worker'[v].leaseLeft
    BY DEF LeaseHeld
  <2>1. CASE v = w
    BY <1>3, <1>5, <1>6, <2>1
  <2>2. CASE v # w
    BY <1>2, <1>3, <1>4, <1>7, <1>8, <2>2 DEF LeaseInv, LeaseHeld
  <2>3. QED
    BY <2>1, <2>2
<1>12. LeaseExclusive'
  BY <1>2, <1>6, <1>7 DEF LeaseInv, LeaseExclusive
<1>13. QED
  BY <1>9, <1>10, <1>11, <1>12 DEF LeaseInv

LEMMA WorkerStepLease ==
  ASSUME LeaseInv, TypeOK', NEW w \in Workers, WorkerStep(w)
  PROVE  LeaseInv'
<1> USE DEF LeaseInv
<1>0. /\ worker \in [Workers -> Worker] /\ account \in [Accounts -> Account]
      /\ \A v \in Workers : worker[v] \in Worker
  BY DEF TypeOK
<1>1. CASE StartPass(w)
  <2>1. \A v \in Workers :
          InLease(v)' => /\ InLease(v) /\ RepoOf(v)' = RepoOf(v)
                         /\ worker'[v].leaseLeft = worker[v].leaseLeft
    BY <1>0, <1>1 DEF StartPass, InLease, Claimed, RepoOf, Worker, Syncing, Finishing
  <2>2. QED
    BY <1>1, <2>1, AccountsKept DEF StartPass
<1>2. CASE ReadCandidates(w)
  <2>1. PICK W \in Worker : /\ worker' = [worker EXCEPT ![w] = W]
                            /\ W.phase \in {"idle", "claimCandidate"}
    <3>1. PICK batch \in SUBSET Repositories :
            worker' = [worker EXCEPT ![w] =
              IF batch = {} THEN IdleWorker
              ELSE [IdleWorker EXCEPT !.phase = "claimCandidate",
                                      !.candidates = {Snapshot(r) : r \in batch}]]
      BY <1>2 DEF ReadCandidates, FirstBatches
    <3>2. worker'[w] \in Worker /\ worker' = [worker EXCEPT ![w] = worker'[w]]
      BY <1>0, <3>1 DEF TypeOK
    <3>3. worker'[w].phase \in {"idle", "claimCandidate"}
      BY <1>0, <3>1 DEF IdleWorker
    <3>4. QED
      BY <3>2, <3>3
  <2>2. ~(W.phase \in Syncing \cup Finishing)
    BY <2>1 DEF Syncing, Finishing
  <2>3. QED
    BY <1>0, <1>2, <2>1, <2>2, OthersKept, AccountsKept DEF ReadCandidates
<1>3. CASE ClaimCandidate(w)
  <2>1. PICK c \in worker[w].candidates : NextCandidate(w, c) /\ (Claim(w, c) \/ Pass(w, c))
    BY <1>3 DEF ClaimCandidate
  <2>2. CASE Claim(w, c)
    BY <2>2, ClaimStartsTheOnlyLease
  <2>3. CASE Pass(w, c)
    <3> DEFINE b == AccountOf[c.repo]
    <3>1. b \in Accounts /\ worker[w].age \in 0..MaxStale
      BY <1>0, ConstantsAssumption DEF Worker, Candidate
    <3>2. \A v \in Workers :
            InLease(v)' => /\ InLease(v) /\ RepoOf(v)' = RepoOf(v)
                           /\ worker'[v].leaseLeft = worker[v].leaseLeft
      <4>1. worker[w].phase = "claimCandidate" /\ worker'[w].phase \in {"idle", "claimCandidate"}
        BY <1>0, <2>1, <2>3 DEF NextCandidate, Pass, IdleWorker, Worker
      <4>2. \A v \in Workers : v # w => worker'[v] = worker[v]
        BY <1>0, <2>3 DEF Pass
      <4>3. QED
        BY <4>1, <4>2 DEF InLease, Claimed, RepoOf, Syncing, Finishing
    <3>3. CASE ~AccountFree(b, worker[w].age)
      BY <2>3, <3>2, <3>3, AccountsKept DEF Pass
    <3>4. CASE AccountFree(b, worker[w].age)
      <4>1. /\ \A a \in Accounts : a # b => account'[a] = account[a]
            /\ account'[b].exists = account[b].exists
            /\ account'[b].enabled = account[b].enabled
            /\ account'[b].rateLimitResetAt = account[b].rateLimitResetAt
            /\ account'[b].syncLeaseToken = NoToken
        BY <1>0, <2>3, <3>1, <3>4 DEF Pass, Account
      <4>2. \A v \in Workers : InLease(v) => AccountOfJob(v) # b
        BY <3>1, <3>4, FreeAccountHasNoLease
      <4>3. \A v \in Workers : AccountOfJob(v) \in Accounts
        BY <1>0, ConstantsAssumption DEF Worker, Candidate, AccountOfJob, RepoOf
      <4>4. RemovedAccountIsOff' /\ LeasedAccountIsUnlimited'
        BY <4>1 DEF RemovedAccountIsOff, LeasedAccountIsUnlimited
      <4>5. QED
        BY <3>2, <4>1, <4>2, <4>3, <4>4, LeasesKept
    <3>5. QED
      BY <3>3, <3>4
  <2>4. QED
    BY <2>1, <2>2, <2>3
<1>4. CASE SyncSucceeds(w)
  <2>1. \A v \in Workers :
          InLease(v)' => /\ InLease(v) /\ RepoOf(v)' = RepoOf(v)
                         /\ worker'[v].leaseLeft = worker[v].leaseLeft
    BY <1>0, <1>4 DEF SyncSucceeds, InLease, Claimed, RepoOf, Worker, Syncing, Finishing
  <2>2. QED
    BY <1>4, <2>1, AccountsKept DEF SyncSucceeds
<1>5. CASE SyncThrows(w)
  <2>1. \A v \in Workers :
          InLease(v)' => /\ InLease(v) /\ RepoOf(v)' = RepoOf(v)
                         /\ worker'[v].leaseLeft = worker[v].leaseLeft
    BY <1>0, <1>5 DEF SyncThrows, InLease, Claimed, RepoOf, Worker, Syncing, Finishing
  <2>2. QED
    BY <1>5, <2>1, AccountsKept DEF SyncThrows
<1>6. CASE FindUnique(w)
  <2>1. \A v \in Workers :
          InLease(v)' => /\ InLease(v) /\ RepoOf(v)' = RepoOf(v)
                         /\ worker'[v].leaseLeft = worker[v].leaseLeft
    BY <1>0, <1>6 DEF FindUnique, InLease, Claimed, RepoOf, Worker, Syncing, Finishing
  <2>2. QED
    BY <1>6, <2>1, AccountsKept DEF FindUnique
<1>7. CASE CompleteRequest(w)
  BY <1>7, PastIsInstant, ReleaseKeepsLeases DEF CompleteRequest
<1>8. CASE CompleteRequestThrows(w)
  <2>1. \A v \in Workers :
          InLease(v)' => /\ InLease(v) /\ RepoOf(v)' = RepoOf(v)
                         /\ worker'[v].leaseLeft = worker[v].leaseLeft
    BY <1>0, <1>8 DEF CompleteRequestThrows, InLease, Claimed, RepoOf, Worker, Syncing, Finishing
  <2>2. QED
    BY <1>8, <2>1, AccountsKept DEF CompleteRequestThrows
<1>9. CASE FailRequest(w)
  <2>1. PICK delay \in Delays(worker[w].error) :
          ReleaseAccount(w, IF worker[w].error = "rateLimited" THEN delay - worker[w].age ELSE Past)
    BY <1>9 DEF FailRequest
  <2>2. delay - worker[w].age \in Instant
    BY <2>1, DatedDelayIsInstant
  <2>3. QED
    BY <1>9, <2>1, <2>2, PastIsInstant, ReleaseKeepsLeases DEF FailRequest
<1>10. CASE FailRequestThrows(w)
  <2>1. ~(IdleWorker.phase \in Syncing \cup Finishing)
    BY DEF IdleWorker, Syncing, Finishing
  <2>2. QED
    BY <1>0, <1>10, <2>1, OthersKept, AccountsKept DEF FailRequestThrows
<1>11. QED
  BY <1>1, <1>2, <1>3, <1>4, <1>5, <1>6, <1>7, <1>8, <1>9, <1>10 DEF WorkerStep

LEMMA EnvironmentLease ==
  ASSUME LeaseInv, TypeOK', Webhook \/ Manual \/ Reconcile \/ ReconciliationAborts
  PROVE  LeaseInv'
<1>1. ASSUME NEW r \in Repositories, NEW delay \in Nat, EnqueueRepository(r, delay)
      PROVE  LeaseInv'
  <2>1. \A c \in Candidate : Overtake(c, r).repo = c.repo
    BY DEF Overtake, Candidate
  <2>2. \A w \in Workers : worker[w] \in Worker /\ worker[w].job \in Candidate
    BY DEF LeaseInv, TypeOK, Worker
  <2>3. \A w \in Workers :
          worker'[w] =
            [worker[w] EXCEPT !.candidates = {Overtake(c, r) : c \in @},
                              !.job = IF Claimed(w) THEN Overtake(@, r) ELSE @,
                              !.late = @ \/ (Claimed(w) /\ RepoOf(w) = r)]
    BY <1>1 DEF EnqueueRepository
  <2>4. \A w \in Workers :
          /\ worker'[w].phase = worker[w].phase
          /\ worker'[w].leaseLeft = worker[w].leaseLeft
          /\ worker'[w].job = IF Claimed(w) THEN Overtake(worker[w].job, r) ELSE worker[w].job
    BY <2>2, <2>3 DEF Worker
  <2>5. \A w \in Workers :
          InLease(w)' => /\ InLease(w) /\ RepoOf(w)' = RepoOf(w)
                         /\ worker'[w].leaseLeft = worker[w].leaseLeft
    BY <2>1, <2>2, <2>4 DEF InLease, Claimed, RepoOf
  <2>6. QED
    BY <1>1, <2>5, AccountsKept DEF EnqueueRepository
<1>2. ASSUME UNCHANGED <<account, worker>>
      PROVE  LeaseInv'
  BY <1>2, AccountsKept DEF InLease, Claimed, RepoOf
<1>3. QED
  BY <1>1, <1>2, ConstantsAssumption
     DEF Webhook, EnqueueWebhookRepository, Manual, EnqueueRepositorySync,
         Reconcile, StartReconciliation, ReconcileRepository, ReconciliationAborts

LEMMA AbortLease ==
  ASSUME LeaseInv, TypeOK', Abort
  PROVE  LeaseInv'
<1>1. ~([IdleWorker EXCEPT !.phase = "stopped"].phase \in Syncing \cup Finishing)
  BY RecordTypes DEF Worker, Syncing, Finishing
<1>2. worker \in [Workers -> Worker]
  BY DEF LeaseInv, TypeOK
<1>3. QED
  BY <1>1, <1>2, OthersKept, AccountsKept DEF Abort, PassAborts

LEMMA AdministerLease ==
  ASSUME LeaseInv, TypeOK', Administer
  PROVE  LeaseInv'
<1> USE DEF LeaseInv
<1>0. account \in [Accounts -> Account] /\ \A w \in Workers : AccountOfJob(w) \in Accounts
  BY ConstantsAssumption DEF TypeOK, Worker, Candidate, AccountOfJob, RepoOf
<1>1. ASSUME UNCHANGED worker
      PROVE  \A w \in Workers : /\ InLease(w)' = InLease(w)
                                /\ RepoOf(w)' = RepoOf(w)
                                /\ worker'[w].leaseLeft = worker[w].leaseLeft
  BY <1>1 DEF InLease, Claimed, RepoOf
<1>2. ASSUME NEW r \in Repositories, NEW enabled \in BOOLEAN, SetRepositoryEnabled(r, enabled)
      PROVE  LeaseInv'
  BY <1>1, <1>2, AccountsKept DEF SetRepositoryEnabled
<1>3. ASSUME NEW a \in Accounts, NEW enabled \in BOOLEAN, SetAccountEnabled(a, enabled)
      PROVE  LeaseInv'
  <2>1. \A b \in Accounts :
          /\ account'[b].exists = account[b].exists
          /\ account'[b].rateLimitResetAt = account[b].rateLimitResetAt
          /\ account'[b].syncLeaseToken = account[b].syncLeaseToken
          /\ account'[b].syncLeaseExpiresAt = account[b].syncLeaseExpiresAt
          /\ b # a => account'[b] = account[b]
    BY <1>0, <1>3 DEF SetAccountEnabled, Account
  <2>2. RemovedAccountIsOff' /\ LeasedAccountIsUnlimited'
    BY <1>3, <2>1 DEF SetAccountEnabled, RemovedAccountIsOff, LeasedAccountIsUnlimited
  <2>3. UNCHANGED worker
    BY <1>3 DEF SetAccountEnabled
  <2>4. QED
    BY <1>0, <1>1, <2>1, <2>2, <2>3, LeasesKept
<1>4. ASSUME NEW a \in Accounts, RemoveAccount(a)
      PROVE  LeaseInv'
  <2>1. /\ \A b \in Accounts : b # a => account'[b] = account[b]
        /\ ~account'[a].exists /\ ~account'[a].enabled
        /\ account'[a].rateLimitResetAt <= 0 /\ account'[a].syncLeaseToken = NoToken
    BY <1>0, <1>4, RecordTypes, PastIsInstant DEF RemoveAccount, FreeAccount, Account
  <2>2. RemovedAccountIsOff' /\ LeasedAccountIsUnlimited'
    BY <2>1 DEF RemovedAccountIsOff, LeasedAccountIsUnlimited
  <2>3. UNCHANGED worker
    BY <1>4 DEF RemoveAccount
  <2>4. QED
    BY <1>0, <1>1, <2>1, <2>2, <2>3, LeasesKept
<1>5. QED
  BY <1>2, <1>3, <1>4 DEF Administer

LEMMA TickLease ==
  ASSUME LeaseInv, TypeOK', Tick
  PROVE  LeaseInv'
<1> USE DEF LeaseInv
<1>1. /\ \A w \in Workers : AccountOfJob(w) \in Accounts /\ worker[w] \in Worker
      /\ \A a \in Accounts : account[a] \in Account
  BY ConstantsAssumption DEF TypeOK, Worker, Candidate, AccountOfJob, RepoOf
<1>2. \A a \in Accounts :
        /\ account'[a].exists = account[a].exists
        /\ account'[a].enabled = account[a].enabled
        /\ account'[a].syncLeaseToken = account[a].syncLeaseToken
        /\ account'[a].rateLimitResetAt = Later(account[a].rateLimitResetAt)
        /\ account'[a].syncLeaseExpiresAt = Later(account[a].syncLeaseExpiresAt)
  BY <1>1 DEF Tick, Account
<1>3. \A w \in Workers :
        /\ worker'[w].phase = worker[w].phase
        /\ worker'[w].job = worker[w].job
        /\ worker'[w].leaseLeft = Later(worker[w].leaseLeft)
  BY <1>1 DEF Tick, Worker
<1>4. \A t \in Instant : /\ Later(t) > 0 => t > 0
                         /\ t <= 0 => Later(t) <= 0
  BY PastIsInstant, ConstantsAssumption DEF Instant, Later
<1>5. \A w \in Workers : /\ InLease(w)' => InLease(w)
                         /\ AccountOfJob(w)' = AccountOfJob(w)
  BY <1>1, <1>3, <1>4 DEF InLease, Claimed, Worker, AccountOfJob, RepoOf
<1>6. LeaseHeld'
  BY <1>1, <1>2, <1>3, <1>5 DEF LeaseHeld
<1>7. RemovedAccountIsOff' /\ LeasedAccountIsUnlimited'
  BY <1>1, <1>2, <1>4 DEF RemovedAccountIsOff, LeasedAccountIsUnlimited, Account
<1>8. LeaseExclusive'
  BY <1>5 DEF LeaseExclusive
<1>9. QED
  BY <1>6, <1>7, <1>8

LEMMA LeaseNext == LeaseInv /\ [Next]_vars => LeaseInv'
<1> SUFFICES ASSUME LeaseInv, [Next]_vars
             PROVE  LeaseInv'
  OBVIOUS
<1>1. TypeOK'
  BY NextType DEF LeaseInv
<1>2. CASE UNCHANGED vars
  BY <1>1, <1>2, AccountsKept DEF vars, InLease, Claimed, RepoOf
<1>3. CASE Serve
  BY <1>1, <1>3, WorkerStepLease DEF Serve
<1>4. QED
  BY <1>1, <1>2, <1>3, EnvironmentLease, AbortLease, AdministerLease, TickLease DEF Next

LEMMA LeaseInvariant == Spec => []LeaseInv
BY LeaseInit, LeaseNext, PTL DEF Spec

\* However many passes overlap, crash or outlive their lease, no two of them hold
\* unexpired leases of one provider account.
THEOREM LeasesAreExclusive == Spec => []LeaseExclusive
BY LeaseInvariant, PTL DEF LeaseInv

\* No pass within its lease works for an account whose rate limit lies ahead.
THEOREM RateLimitIsHonoured == Spec => []RateLimitHonoured
<1>1. LeaseInv => RateLimitHonoured
  <2> SUFFICES ASSUME LeaseInv, NEW w \in Workers, InLease(w)
               PROVE  account[AccountOfJob(w)].rateLimitResetAt <= 0
    BY DEF RateLimitHonoured
  <2>1. AccountOfJob(w) \in Accounts
    BY ConstantsAssumption DEF LeaseInv, TypeOK, Worker, Candidate, AccountOfJob, RepoOf
  <2>2. CASE account[AccountOfJob(w)].exists
    BY <2>1, <2>2, ConstantsAssumption DEF LeaseInv, LeaseHeld, LeasedAccountIsUnlimited
  <2>3. CASE ~account[AccountOfJob(w)].exists
    BY <2>1, <2>3 DEF LeaseInv, RemovedAccountIsOff
  <2>4. QED
    BY <2>2, <2>3
<1>2. QED
  BY <1>1, LeaseInvariant, PTL

\* Steps that keep every rate limit, or put a longer one in its place.
LEMMA LimitsKept ==
  ASSUME LeaseInv, [Next]_vars, NEW a \in Accounts,
         account[a].rateLimitResetAt > 0, account'[a].exists
  PROVE  account'[a].rateLimitResetAt >= account[a].rateLimitResetAt - 1
<1> DEFINE Kept == account'[a].rateLimitResetAt >= account[a].rateLimitResetAt - 1
<1> USE DEF LeaseInv
<1>0. /\ account \in [Accounts -> Account] /\ account[a].rateLimitResetAt \in Int
      /\ \A v \in Workers : worker[v] \in Worker
  BY DEF TypeOK, Account, Instant
<1>1. UNCHANGED account => Kept
  BY <1>0
<1>2. ASSUME NEW w \in Workers, NEW t \in Instant, ReleaseAccount(w, t)
      PROVE  Kept
  <2>1. CASE account[AccountOfJob(w)].syncLeaseToken = w
    <3>1. AccountOfJob(w) \in Accounts
      BY <1>0, ConstantsAssumption DEF Worker, Candidate, AccountOfJob, RepoOf
    <3>2. account[AccountOfJob(w)].rateLimitResetAt <= 0
      BY <2>1, <3>1, ConstantsAssumption DEF LeasedAccountIsUnlimited
    <3>3. a # AccountOfJob(w)
      BY <1>0, <3>2
    <3>4. QED
      BY <1>0, <1>2, <2>1, <3>1, <3>3 DEF ReleaseAccount
  <2>2. QED
    BY <1>0, <1>2, <2>1 DEF ReleaseAccount
<1>3. CASE Serve
  <2>1. PICK w \in Workers : WorkerStep(w)
    BY <1>3 DEF Serve
  <2>2. CASE ClaimCandidate(w)
    BY <1>0, <2>2 DEF ClaimCandidate, Claim, Pass, Account
  <2>3. CASE CompleteRequest(w)
    BY <1>2, <2>3, PastIsInstant DEF CompleteRequest
  <2>4. CASE FailRequest(w)
    <3>1. PICK delay \in Delays(worker[w].error) :
            ReleaseAccount(w, IF worker[w].error = "rateLimited" THEN delay - worker[w].age
                              ELSE Past)
      BY <2>4 DEF FailRequest
    <3>2. delay - worker[w].age \in Instant
      BY <3>1, DatedDelayIsInstant
    <3>3. QED
      BY <1>2, <3>1, <3>2, PastIsInstant
  <2>5. CASE ~(ClaimCandidate(w) \/ CompleteRequest(w) \/ FailRequest(w))
    BY <1>1, <2>1, <2>5
       DEF WorkerStep, StartPass, ReadCandidates, SyncSucceeds, SyncThrows, FindUnique,
           CompleteRequestThrows, FailRequestThrows
  <2>6. QED
    BY <2>2, <2>3, <2>4, <2>5
<1>4. CASE Administer
  <2>1. CASE \E r \in Repositories, enabled \in BOOLEAN : SetRepositoryEnabled(r, enabled)
    BY <1>1, <2>1 DEF SetRepositoryEnabled
  <2>2. CASE \E b \in Accounts, enabled \in BOOLEAN : SetAccountEnabled(b, enabled)
    BY <1>0, <2>2 DEF SetAccountEnabled, Account
  <2>3. CASE \E b \in Accounts : RemoveAccount(b)
    <3>1. PICK b \in Accounts : RemoveAccount(b)
      BY <2>3
    <3>2. ~account'[b].exists
      BY <1>0, <3>1, RecordTypes DEF RemoveAccount, Account
    <3>3. b # a
      BY <3>2
    <3>4. QED
      BY <1>0, <3>1, <3>3 DEF RemoveAccount
  <2>4. QED
    BY <1>4, <2>1, <2>2, <2>3 DEF Administer
<1>5. CASE Tick
  <2>1. account'[a].rateLimitResetAt = Later(account[a].rateLimitResetAt)
    BY <1>0, <1>5 DEF Tick, Account
  <2>2. QED
    BY <1>0, <2>1, PastIsInstant, ConstantsAssumption DEF Later, Instant
<1>6. CASE UNCHANGED account
  BY <1>1, <1>6
<1>7. Webhook \/ Manual \/ Reconcile \/ ReconciliationAborts \/ Abort \/ UNCHANGED vars
        => UNCHANGED account
  BY DEF Webhook, EnqueueWebhookRepository, Manual, EnqueueRepositorySync, EnqueueRepository,
         Reconcile, StartReconciliation, ReconcileRepository, ReconciliationAborts,
         Abort, PassAborts, vars
<1>8. QED
  BY <1>3, <1>4, <1>5, <1>6, <1>7 DEF Next

\* Only time ends a rate limit: a pass that lost its lease, a claim that fails half way
\* and an administrator's switch all leave it as long as it is.
THEOREM RateLimitsOnlyExpire == Spec => RateLimitNeverShortened
<1>1. LeaseInv /\ [Next]_vars => [RateLimitKept]_vars
  BY LimitsKept DEF RateLimitKept
<1>2. QED
  BY <1>1, LeaseInvariant, PTL DEF Spec, RateLimitNeverShortened

-----------------------------------------------------------------------------
(***************************************************************************)
(* The queue implements ProviderGate: every step of the queue, seen through*)
(* Using and Limit, is a step of the gate or none at all.                  *)
(***************************************************************************)

LEMMA RowTypes ==
  ASSUME LeaseInv
  PROVE  /\ account \in [Accounts -> Account] /\ worker \in [Workers -> Worker]
         /\ \A w \in Workers : AccountOfJob(w) \in Accounts
         /\ \A a \in Accounts : account[a].rateLimitResetAt \in Int
BY ConstantsAssumption
   DEF LeaseInv, TypeOK, Worker, Candidate, Account, Instant, AccountOfJob, RepoOf

LEMMA GateInit == Init => Gate!Init
<1> SUFFICES ASSUME Init
             PROVE  Gate!Init
  OBVIOUS
<1>1. \A w \in Workers : ~InLease(w)
  BY DEF Init, InLease, Claimed, IdleWorker, Syncing, Finishing
<1>2. \A a \in Accounts : ~(account[a].rateLimitResetAt > 0)
  BY PastIsInstant DEF Init, FreeAccount, Instant
<1>3. QED
  BY <1>1, <1>2 DEF Gate!Init, Using, Limit

\* A step is a stutter of the gate when it changes neither the leases nor the limits.
LEMMA GateStutters ==
  ASSUME \A w \in Workers : InLease(w)' = InLease(w) /\ (InLease(w) => AccountOfJob(w)' = AccountOfJob(w)),
         \A a \in Accounts : account'[a].rateLimitResetAt = account[a].rateLimitResetAt
  PROVE  UNCHANGED Gate!gate
BY DEF Using, Limit, Gate!gate

\* When w's lease is over and the others are as before, w has left the gate.
LEMMA PassLeaves ==
  ASSUME LeaseInv, NEW w \in Workers, NEW W, ~(W.phase \in Syncing \cup Finishing),
         worker' = [worker EXCEPT ![w] = W]
  PROVE  IF InLease(w)
         THEN /\ w \in Using[AccountOfJob(w)]
              /\ Using' = [Using EXCEPT ![AccountOfJob(w)] = {}]
         ELSE UNCHANGED Using
<1>1. worker \in [Workers -> Worker] /\ AccountOfJob(w) \in Accounts
  BY RowTypes
<1>2. ~InLease(w)'
  BY <1>1 DEF InLease, Claimed
<1>3. \A v \in Workers : v # w => /\ InLease(v)' = InLease(v)
                                  /\ AccountOfJob(v)' = AccountOfJob(v)
  BY <1>1 DEF InLease, Claimed, AccountOfJob, RepoOf
<1>4. CASE InLease(w)
  <2>1. \A v \in Workers : v # w /\ InLease(v) => AccountOfJob(v) # AccountOfJob(w)
    BY <1>4 DEF LeaseInv, LeaseExclusive
  <2>2. \A a \in Accounts :
          Using'[a] = IF a = AccountOfJob(w) THEN {} ELSE Using[a]
    BY <1>2, <1>3, <2>1 DEF Using
  <2>3. Using' = [Using EXCEPT ![AccountOfJob(w)] = {}]
    BY <2>2 DEF Using
  <2>4. QED
    BY <1>1, <1>4, <2>3 DEF Using
<1>5. CASE ~InLease(w)
  <2>1. \A a \in Accounts : Using'[a] = Using[a]
    BY <1>2, <1>3, <1>5 DEF Using
  <2>2. QED
    BY <1>5, <2>1 DEF Using
<1>6. QED
  BY <1>4, <1>5

LEMMA AbortedPassLeaves ==
  ASSUME LeaseInv, UNCHANGED account, NEW w \in Workers, NEW W,
         ~(W.phase \in Syncing \cup Finishing), worker' = [worker EXCEPT ![w] = W]
  PROVE  [Gate!Next]_(Gate!gate)
<1>1. AccountOfJob(w) \in Accounts /\ UNCHANGED Limit
  BY RowTypes DEF Limit
<1>2. InLease(w) => Gate!Leave(w, AccountOfJob(w))
  BY <1>1, PassLeaves DEF Gate!Leave
<1>3. ~InLease(w) => UNCHANGED Gate!gate
  BY <1>1, PassLeaves DEF Gate!gate
<1>4. QED
  BY <1>1, <1>2, <1>3 DEF Gate!Next

\* A pass that finishes leaves, and its release may announce a limit.
LEMMA FinishedPassLeaves ==
  ASSUME LeaseInv, NEW w \in Workers, NEW t \in Instant, ReleaseAccount(w, t), EndTransaction(w)
  PROVE  [Gate!Next]_(Gate!gate)
<1> DEFINE a == AccountOfJob(w)
           W == [IdleWorker EXCEPT !.phase = "claimNextRequest"]
<1>1. a \in Accounts /\ account \in [Accounts -> Account] /\ NoToken # w
  BY RowTypes, ConstantsAssumption
<1>2. ~(W.phase \in Syncing \cup Finishing) /\ worker' = [worker EXCEPT ![w] = W]
  BY RecordTypes DEF EndTransaction, Worker, Syncing, Finishing
<1>3. CASE account[a].syncLeaseToken # w
  BY <1>2, <1>3, AbortedPassLeaves DEF ReleaseAccount
<1>4. CASE account[a].syncLeaseToken = w
  <2>1. account[a].exists /\ account[a].rateLimitResetAt <= 0
    BY <1>1, <1>4 DEF LeaseInv, LeasedAccountIsUnlimited
  <2>2. \A v \in Workers : InLease(v) /\ AccountOfJob(v) = a => v = w
    BY <1>4, <2>1 DEF LeaseInv, LeaseHeld
  <2>3. Limit[a] = 0
    BY <1>1, <2>1, RowTypes DEF Limit
  <2>4. Using' = [Using EXCEPT ![a] = {}]
    <3>1. CASE InLease(w)
      BY <1>2, <3>1, PassLeaves
    <3>2. CASE ~InLease(w)
      <4>1. Using[a] = {}
        BY <1>1, <2>2, <3>2 DEF Using
      <4>2. UNCHANGED Using
        BY <1>2, <3>2, PassLeaves
      <4>3. QED
        BY <4>1, <4>2 DEF Using
    <3>3. QED
      BY <3>1, <3>2
  <2>5. account' = [account EXCEPT ![a] =
          [@ EXCEPT !.rateLimitResetAt = t, !.syncLeaseToken = NoToken,
                    !.syncLeaseExpiresAt = Past]]
    BY <1>4 DEF ReleaseAccount
  <2>6. /\ account'[a].rateLimitResetAt = t
        /\ \A b \in Accounts : b # a => account'[b] = account[b]
    BY <1>1, <2>5 DEF Account
  <2>7. Limit'[a] \in Nat /\ Limit' = [Limit EXCEPT ![a] = Limit'[a]]
    <3>1. Limit'[a] = IF t > 0 THEN t ELSE 0
      BY <1>1, <2>6 DEF Limit
    <3>2. \A b \in Accounts : b # a => Limit'[b] = Limit[b]
      BY <2>6 DEF Limit
    <3>3. Limit' = [b \in Accounts |-> Limit'[b]] /\ Limit = [b \in Accounts |-> Limit[b]]
      BY DEF Limit
    <3>4. QED
      BY <1>1, <3>1, <3>2, <3>3 DEF Instant
  <2>8. Gate!Announce(a)
    BY <2>3, <2>4, <2>7 DEF Gate!Announce
  <2>9. QED
    BY <1>1, <2>8 DEF Gate!Next
<1>5. QED
  BY <1>3, <1>4
-----------------------------------------------------------------------------
(* Every step of the queue is one of the gate's, or a stutter. *)

LEMMA ClaimEnters ==
  ASSUME LeaseInv, NEW w \in Workers, NEW c \in worker[w].candidates, NextCandidate(w, c),
         Claim(w, c)
  PROVE  [Gate!Next]_(Gate!gate)
<1> DEFINE b == AccountOf[c.repo]
           expiry == SyncLease - worker[w].age
<1>1. /\ worker[w] \in Worker /\ c \in Candidate /\ b \in Accounts
      /\ worker[w].age \in 0..MaxStale /\ worker[w].phase = "claimCandidate"
      /\ account \in [Accounts -> Account] /\ worker \in [Workers -> Worker]
  BY ConstantsAssumption DEF LeaseInv, TypeOK, Worker, Candidate, NextCandidate
<1>2. /\ account[b].rateLimitResetAt <= 0
      /\ \A v \in Workers : InLease(v) => AccountOfJob(v) # b
  <2>1. AccountFree(b, worker[w].age)
    BY DEF Claim
  <2>2. QED
    BY <1>1, <2>1, FreeAccountHasNoLease
<1>3. \A a \in Accounts : account'[a].rateLimitResetAt = account[a].rateLimitResetAt
  BY <1>1 DEF Claim, Account
<1>4. /\ worker'[w].phase = "syncing" /\ worker'[w].leaseLeft = expiry
      /\ worker'[w].job.repo = c.repo
      /\ \A v \in Workers : v # w => worker'[v] = worker[v]
  BY <1>1, RecordTypes DEF Claim, Worker, Candidate
<1>5. expiry > 0
  BY <1>1, ConstantsAssumption
<1>6. InLease(w)' /\ AccountOfJob(w)' = b
  BY <1>4, <1>5 DEF InLease, Claimed, Syncing, AccountOfJob, RepoOf
<1>7. ~InLease(w)
  BY <1>1 DEF InLease, Claimed, Syncing, Finishing
<1>8. \A v \in Workers : v # w => /\ InLease(v)' = InLease(v)
                                  /\ AccountOfJob(v)' = AccountOfJob(v)
  BY <1>4 DEF InLease, Claimed, AccountOfJob, RepoOf
<1>9. \A a \in Accounts : Using'[a] = IF a = b THEN {w} ELSE Using[a]
  BY <1>2, <1>6, <1>7, <1>8 DEF Using
<1>10. Using' = [Using EXCEPT ![b] = {w}]
  BY <1>9 DEF Using
<1>11. Using[b] = {} /\ Limit[b] = 0 /\ UNCHANGED Limit
  BY <1>1, <1>2, <1>3, RowTypes DEF Using, Limit
<1>12. Gate!Enter(w, b)
  BY <1>10, <1>11 DEF Gate!Enter
<1>13. QED
  BY <1>1, <1>12 DEF Gate!Next

LEMMA ServeImplements ==
  ASSUME LeaseInv, NEW w \in Workers, WorkerStep(w)
  PROVE  [Gate!Next]_(Gate!gate)
<1>0. /\ worker \in [Workers -> Worker] /\ account \in [Accounts -> Account]
      /\ \A v \in Workers : worker[v] \in Worker
  BY DEF LeaseInv, TypeOK
<1>1. ASSUME UNCHANGED account,
             \A v \in Workers : InLease(v)' = InLease(v)
                                /\ (InLease(v) => AccountOfJob(v)' = AccountOfJob(v))
      PROVE  UNCHANGED Gate!gate
  BY <1>1, GateStutters
<1>2. CASE StartPass(w)
  <2>1. \A v \in Workers : InLease(v)' = InLease(v)
                           /\ (InLease(v) => AccountOfJob(v)' = AccountOfJob(v))
    BY <1>0, <1>2 DEF StartPass, InLease, Claimed, AccountOfJob, RepoOf, Worker, Syncing, Finishing
  <2>2. QED
    BY <1>1, <1>2, <2>1 DEF StartPass
<1>3. CASE ReadCandidates(w)
  <2>1. PICK W : W.phase \in {"idle", "claimCandidate"} /\ worker' = [worker EXCEPT ![w] = W]
    <3>1. PICK batch \in SUBSET Repositories :
            worker' = [worker EXCEPT ![w] =
              IF batch = {} THEN IdleWorker
              ELSE [IdleWorker EXCEPT !.phase = "claimCandidate",
                                      !.candidates = {Snapshot(r) : r \in batch}]]
      BY <1>3 DEF ReadCandidates, FirstBatches
    <3>2. worker' = [worker EXCEPT ![w] = worker'[w]]
      BY <1>0, <3>1
    <3>3. worker'[w].phase \in {"idle", "claimCandidate"}
      BY <1>0, <3>1 DEF IdleWorker
    <3>4. QED
      BY <3>2, <3>3
  <2>2. ~(W.phase \in Syncing \cup Finishing)
    BY <2>1 DEF Syncing, Finishing
  <2>3. QED
    BY <1>3, <2>1, <2>2, AbortedPassLeaves DEF ReadCandidates
<1>4. CASE ClaimCandidate(w)
  <2>1. PICK c \in worker[w].candidates : NextCandidate(w, c) /\ (Claim(w, c) \/ Pass(w, c))
    BY <1>4 DEF ClaimCandidate
  <2>2. CASE Claim(w, c)
    BY <2>1, <2>2, ClaimEnters
  <2>3. CASE Pass(w, c)
    <3>1. worker[w].phase = "claimCandidate" /\ worker'[w].phase \in {"idle", "claimCandidate"}
      BY <1>0, <2>1, <2>3 DEF NextCandidate, Pass, IdleWorker, Worker
    <3>2. \A v \in Workers : v # w => worker'[v] = worker[v]
      BY <1>0, <2>3 DEF Pass
    <3>3. \A v \in Workers : InLease(v)' = InLease(v)
                             /\ (InLease(v) => AccountOfJob(v)' = AccountOfJob(v))
      BY <3>1, <3>2 DEF InLease, Claimed, AccountOfJob, RepoOf, Syncing, Finishing
    <3>4. \A a \in Accounts : account'[a].rateLimitResetAt = account[a].rateLimitResetAt
      BY <1>0, <2>3 DEF Pass, Account
    <3>5. QED
      BY <3>3, <3>4, GateStutters
  <2>4. QED
    BY <2>1, <2>2, <2>3
<1>5. CASE SyncSucceeds(w)
  <2>1. \A v \in Workers : InLease(v)' = InLease(v)
                           /\ (InLease(v) => AccountOfJob(v)' = AccountOfJob(v))
    BY <1>0, <1>5 DEF SyncSucceeds, InLease, Claimed, AccountOfJob, RepoOf, Worker, Syncing, Finishing
  <2>2. QED
    BY <1>1, <1>5, <2>1 DEF SyncSucceeds
<1>6. CASE SyncThrows(w)
  <2>1. \A v \in Workers : InLease(v)' = InLease(v)
                           /\ (InLease(v) => AccountOfJob(v)' = AccountOfJob(v))
    BY <1>0, <1>6 DEF SyncThrows, InLease, Claimed, AccountOfJob, RepoOf, Worker, Syncing, Finishing
  <2>2. QED
    BY <1>1, <1>6, <2>1 DEF SyncThrows
<1>7. CASE FindUnique(w)
  <2>1. \A v \in Workers : InLease(v)' = InLease(v)
                           /\ (InLease(v) => AccountOfJob(v)' = AccountOfJob(v))
    BY <1>0, <1>7 DEF FindUnique, InLease, Claimed, AccountOfJob, RepoOf, Worker, Syncing, Finishing
  <2>2. QED
    BY <1>1, <1>7, <2>1 DEF FindUnique
<1>8. CASE CompleteRequest(w)
  BY <1>8, PastIsInstant, FinishedPassLeaves DEF CompleteRequest
<1>9. CASE CompleteRequestThrows(w)
  <2>1. \A v \in Workers : InLease(v)' = InLease(v)
                           /\ (InLease(v) => AccountOfJob(v)' = AccountOfJob(v))
    BY <1>0, <1>9
       DEF CompleteRequestThrows, InLease, Claimed, AccountOfJob, RepoOf, Worker, Syncing, Finishing
  <2>2. QED
    BY <1>1, <1>9, <2>1 DEF CompleteRequestThrows
<1>10. CASE FailRequest(w)
  <2>1. PICK delay \in Delays(worker[w].error) :
          ReleaseAccount(w, IF worker[w].error = "rateLimited" THEN delay - worker[w].age ELSE Past)
    BY <1>10 DEF FailRequest
  <2>2. delay - worker[w].age \in Instant
    BY <2>1, DatedDelayIsInstant DEF LeaseInv
  <2>3. QED
    BY <1>10, <2>1, <2>2, PastIsInstant, FinishedPassLeaves DEF FailRequest
<1>11. CASE FailRequestThrows(w)
  <2>1. ~(IdleWorker.phase \in Syncing \cup Finishing)
    BY DEF IdleWorker, Syncing, Finishing
  <2>2. QED
    BY <1>11, <2>1, AbortedPassLeaves DEF FailRequestThrows
<1>12. QED
  BY <1>2, <1>3, <1>4, <1>5, <1>6, <1>7, <1>8, <1>9, <1>10, <1>11 DEF WorkerStep

LEMMA EnvironmentImplements ==
  ASSUME LeaseInv, Webhook \/ Manual \/ Reconcile \/ ReconciliationAborts
  PROVE  UNCHANGED Gate!gate
<1>1. ASSUME NEW r \in Repositories, NEW delay \in Nat, EnqueueRepository(r, delay)
      PROVE  UNCHANGED Gate!gate
  <2>1. \A c \in Candidate : Overtake(c, r).repo = c.repo
    BY DEF Overtake, Candidate
  <2>2. \A w \in Workers : worker[w] \in Worker /\ worker[w].job \in Candidate
    BY DEF LeaseInv, TypeOK, Worker
  <2>3. \A w \in Workers :
          worker'[w] =
            [worker[w] EXCEPT !.candidates = {Overtake(c, r) : c \in @},
                              !.job = IF Claimed(w) THEN Overtake(@, r) ELSE @,
                              !.late = @ \/ (Claimed(w) /\ RepoOf(w) = r)]
    BY <1>1 DEF EnqueueRepository
  <2>4. \A w \in Workers :
          /\ worker'[w].phase = worker[w].phase
          /\ worker'[w].leaseLeft = worker[w].leaseLeft
          /\ worker'[w].job = IF Claimed(w) THEN Overtake(worker[w].job, r) ELSE worker[w].job
    BY <2>2, <2>3 DEF Worker
  <2>5. \A w \in Workers : InLease(w)' = InLease(w) /\ AccountOfJob(w)' = AccountOfJob(w)
    BY <2>1, <2>2, <2>4 DEF InLease, Claimed, AccountOfJob, RepoOf
  <2>6. QED
    BY <1>1, <2>5, GateStutters DEF EnqueueRepository
<1>2. ASSUME UNCHANGED <<account, worker>>
      PROVE  UNCHANGED Gate!gate
  BY <1>2, GateStutters DEF InLease, Claimed, AccountOfJob, RepoOf
<1>3. QED
  BY <1>1, <1>2, ConstantsAssumption
     DEF Webhook, EnqueueWebhookRepository, Manual, EnqueueRepositorySync,
         Reconcile, StartReconciliation, ReconcileRepository, ReconciliationAborts

LEMMA AbortImplements ==
  ASSUME LeaseInv, Abort
  PROVE  [Gate!Next]_(Gate!gate)
<1>1. ~([IdleWorker EXCEPT !.phase = "stopped"].phase \in Syncing \cup Finishing)
  BY RecordTypes DEF Worker, Syncing, Finishing
<1>2. QED
  BY <1>1, AbortedPassLeaves DEF Abort, PassAborts

LEMMA AdministerImplements ==
  ASSUME LeaseInv, Administer
  PROVE  [Gate!Next]_(Gate!gate)
<1>1. /\ account \in [Accounts -> Account]
      /\ \A a \in Accounts : account[a].rateLimitResetAt \in Int
  BY RowTypes
<1>2. ASSUME UNCHANGED worker
      PROVE  \A w \in Workers : InLease(w)' = InLease(w) /\ AccountOfJob(w)' = AccountOfJob(w)
  BY <1>2 DEF InLease, Claimed, AccountOfJob, RepoOf
<1>3. ASSUME NEW r \in Repositories, NEW enabled \in BOOLEAN, SetRepositoryEnabled(r, enabled)
      PROVE  UNCHANGED Gate!gate
  BY <1>2, <1>3, GateStutters DEF SetRepositoryEnabled
<1>4. ASSUME NEW a \in Accounts, NEW enabled \in BOOLEAN, SetAccountEnabled(a, enabled)
      PROVE  UNCHANGED Gate!gate
  <2>1. \A b \in Accounts : account'[b].rateLimitResetAt = account[b].rateLimitResetAt
    BY <1>1, <1>4 DEF SetAccountEnabled, Account
  <2>2. QED
    BY <1>2, <1>4, <2>1, GateStutters DEF SetAccountEnabled
<1>5. ASSUME NEW a \in Accounts, RemoveAccount(a)
      PROVE  Gate!Remove(a)
  <2>1. /\ \A b \in Accounts : b # a => account'[b] = account[b]
        /\ account'[a].rateLimitResetAt = Past
    BY <1>1, <1>5, RecordTypes DEF RemoveAccount, FreeAccount, Account
  <2>2. Limit' = [Limit EXCEPT ![a] = 0]
    <3>1. Limit'[a] = 0
      BY <2>1, PastIsInstant DEF Limit, Instant
    <3>2. \A b \in Accounts : b # a => Limit'[b] = Limit[b]
      BY <2>1 DEF Limit
    <3>3. Limit' = [b \in Accounts |-> Limit'[b]] /\ Limit = [b \in Accounts |-> Limit[b]]
      BY DEF Limit
    <3>4. QED
      BY <3>1, <3>2, <3>3
  <2>3. UNCHANGED worker
    BY <1>5 DEF RemoveAccount
  <2>4. UNCHANGED Using
    BY <1>2, <2>3 DEF Using
  <2>5. QED
    BY <2>2, <2>4 DEF Gate!Remove
<1>6. QED
  BY <1>3, <1>4, <1>5 DEF Administer, Gate!Next

LEMMA TickImplements ==
  ASSUME LeaseInv, Tick
  PROVE  Gate!TimePasses
<1>1. /\ \A w \in Workers : worker[w] \in Worker
      /\ \A a \in Accounts : account[a] \in Account
  BY DEF LeaseInv, TypeOK
<1>2. \A a \in Accounts : account'[a].rateLimitResetAt = Later(account[a].rateLimitResetAt)
  BY <1>1 DEF Tick, Account
<1>3. \A w \in Workers :
        /\ worker'[w].phase = worker[w].phase
        /\ worker'[w].job = worker[w].job
        /\ worker'[w].leaseLeft = Later(worker[w].leaseLeft)
  BY <1>1 DEF Tick, Worker
<1>4. ASSUME NEW t \in Instant
      PROVE  /\ Later(t) \in Int
             /\ t > 0 => Later(t) = t - 1
             /\ t <= 0 => Later(t) <= 0
  <2>1. t \in Int /\ Past \in Int /\ Past <= 0
    BY PastIsInstant DEF Instant
  <2>2. QED
    BY <2>1 DEF Later
<1>5. ASSUME NEW w \in Workers
      PROVE  /\ InLease(w)' => InLease(w)
             /\ AccountOfJob(w)' = AccountOfJob(w)
  <2>1. worker[w].leaseLeft \in Instant /\ worker[w].leaseLeft \in Int
    BY <1>1 DEF Worker, Instant
  <2>2. worker'[w].leaseLeft > 0 => worker[w].leaseLeft > 0
    BY <1>3, <1>4, <2>1
  <2>3. QED
    BY <1>3, <2>2 DEF InLease, Claimed, AccountOfJob, RepoOf
<1>6. Limit' = [a \in Accounts |-> IF Limit[a] > 0 THEN Limit[a] - 1 ELSE 0]
  <2>1. ASSUME NEW a \in Accounts
        PROVE  Limit'[a] = IF Limit[a] > 0 THEN Limit[a] - 1 ELSE 0
    <3>1. account[a].rateLimitResetAt \in Instant /\ account[a].rateLimitResetAt \in Int
      BY <1>1 DEF Account, Instant
    <3>2. CASE account[a].rateLimitResetAt > 0
      BY <1>2, <1>4, <3>1, <3>2 DEF Limit
    <3>3. CASE account[a].rateLimitResetAt <= 0
      BY <1>2, <1>4, <3>1, <3>3 DEF Limit
    <3>4. QED
      BY <3>1, <3>2, <3>3
  <2>2. QED
    BY <2>1 DEF Limit
<1>7. /\ Using' \in [Accounts -> SUBSET Workers]
      /\ \A a \in Accounts : Using'[a] \subseteq Using[a]
  BY <1>5 DEF Using
<1>8. QED
  BY <1>6, <1>7 DEF Gate!TimePasses

\* Whatever overlaps, crashes or outlives its lease, every step of the queue is a step of
\* the gate in front of the provider accounts or leaves it alone: passes come in one at a
\* time and never into a limit, and only time ends one.
THEOREM QueueImplementsGate == Spec => GateImplemented
<1>1. LeaseInv /\ [Next]_vars => [Gate!Next]_(Gate!gate)
  <2> SUFFICES ASSUME LeaseInv, [Next]_vars
               PROVE  [Gate!Next]_(Gate!gate)
    OBVIOUS
  <2>1. CASE UNCHANGED vars
    BY <2>1 DEF vars, Gate!gate, Using, Limit, InLease, Claimed, AccountOfJob, RepoOf
  <2>2. CASE Serve
    BY <2>2, ServeImplements DEF Serve
  <2>3. CASE Tick
    BY <2>3, TickImplements DEF Gate!Next
  <2>4. QED
    BY <2>1, <2>2, <2>3, EnvironmentImplements, AbortImplements, AdministerImplements DEF Next
<1>2. QED
  BY <1>1, GateInit, LeaseInvariant, PTL DEF Spec, GateImplemented, Gate!Spec
=============================================================================
