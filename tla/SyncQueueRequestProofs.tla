----------------------- MODULE SyncQueueRequestProofs -----------------------
(***************************************************************************)
(* What the queue guarantees about its requests, for any number of         *)
(* repositories, accounts and passes: a request that no verdict answers    *)
(* stays queued, and a row that waits for another try has not used more    *)
(* than MaxAttempts of them.                                               *)
(***************************************************************************)
EXTENDS SyncQueueProofs

LEMMA JobTypes ==
  ASSUME TypeOK, NEW w \in Workers
  PROVE  /\ worker[w] \in Worker /\ worker[w].job \in Candidate
         /\ RepoOf(w) \in Repositories /\ AccountOfJob(w) \in Accounts
         /\ request[RepoOf(w)] \in Request
BY ConstantsAssumption DEF TypeOK, Worker, Candidate, RepoOf, AccountOfJob

\* What an upsert leaves of a pass and of the row the pass works for: a row that is
\* there afterwards was there before, for a new row's key is held by nobody, and the
\* pass has been overtaken when it is the row that was enqueued.
LEMMA EnqueueKeepsJobs ==
  ASSUME TypeOK, NEW r \in Repositories, NEW delay \in Nat, EnqueueRepository(r, delay),
         NEW w \in Workers
  PROVE  /\ worker'[w].phase = worker[w].phase /\ worker'[w].found = worker[w].found
         /\ worker'[w].error = worker[w].error /\ worker'[w].age = worker[w].age
         /\ RepoOf(w)' = RepoOf(w) /\ worker'[w].job.id = worker[w].job.id
         /\ worker'[w].job.attempt = worker[w].job.attempt
         /\ worker'[w].late = (worker[w].late \/ (Claimed(w) /\ RepoOf(w) = r))
         /\ worker[w].job.superseded => worker'[w].job.superseded
         /\ Claimed(w) /\ RowIsThere(w)' =>
              /\ RowIsThere(w)
              /\ RepoOf(w) = r => Overtaken(worker[w].job, r) /\ worker'[w].job.superseded
<1>0. worker[w] \in Worker /\ worker[w].job \in Candidate /\ RepoOf(w) \in Repositories
  BY JobTypes
<1>1. worker'[w] = [worker[w] EXCEPT
                      !.candidates = {Overtake(c, r) : c \in @},
                      !.job = IF Claimed(w) THEN Overtake(@, r) ELSE @,
                      !.late = @ \/ (Claimed(w) /\ RepoOf(w) = r)]
  BY DEF EnqueueRepository
<1>2. worker'[w].job = IF Claimed(w) THEN Overtake(worker[w].job, r) ELSE worker[w].job
  BY <1>0, <1>1 DEF Worker
<1>3. /\ worker'[w].job.repo = worker[w].job.repo /\ worker'[w].job.id = worker[w].job.id
      /\ worker'[w].job.attempt = worker[w].job.attempt
      /\ worker[w].job.superseded => worker'[w].job.superseded
  BY <1>0, <1>2 DEF Overtake, Candidate
<1>4. ASSUME Claimed(w), RowIsThere(w)'
      PROVE  /\ RowIsThere(w)
             /\ RepoOf(w) = r => Overtaken(worker[w].job, r) /\ worker'[w].job.superseded
  <2>1. request' = [request EXCEPT ![r] = UpsertedRow(r, delay)]
        /\ request \in [Repositories -> Request]
    BY DEF EnqueueRepository, TypeOK
  <2>2. CASE RepoOf(w) # r
    BY <1>0, <1>3, <1>4, <2>1, <2>2 DEF RowIsThere, Present, RepoOf
  <2>3. CASE RepoOf(w) = r /\ Present(r)
    <3>1. request'[r].id = request[r].id
      BY <2>1, <2>3 DEF UpsertedRow, Request
    <3>2. RowIsThere(w)
      BY <1>3, <1>4, <2>3, <3>1 DEF RowIsThere, RepoOf
    <3>3. Overtaken(worker[w].job, r)
      BY <2>3, <3>2 DEF RowIsThere, Overtaken, RepoOf
    <3>4. QED
      BY <1>0, <1>2, <1>4, <3>2, <3>3 DEF Overtake, Candidate
  <2>4. CASE RepoOf(w) = r /\ ~Present(r)
    <3>1. request'[r].id = CHOOSE i \in FreeIds(r) : TRUE
      BY <2>1, <2>4, RecordTypes DEF UpsertedRow, Request
    <3>2. request'[r].id \in FreeIds(r)
      BY <2>4, <3>1 DEF EnqueueRepository
    <3>3. worker[w].job.id \in HeldIds(r)
      BY <1>4, <2>4 DEF HeldIds
    <3>4. request'[r].id = worker[w].job.id
      BY <1>3, <1>4, <2>4 DEF RowIsThere, RepoOf
    <3>5. QED
      BY <3>2, <3>3, <3>4 DEF FreeIds
  <2>5. QED
    BY <2>2, <2>3, <2>4
<1>5. worker'[w].late = (worker[w].late \/ (Claimed(w) /\ RepoOf(w) = r))
  BY <1>0, <1>1 DEF Worker
<1>6. QED
  BY <1>0, <1>1, <1>3, <1>4, <1>5 DEF Worker, RepoOf
-----------------------------------------------------------------------------
(* Answers. *)

\* Only a repository that is synchronized can be owed an answer.
AskedIsEnabled == \A r \in Repositories : asked[r] # "none" => Enabled(r)

\* A request that arrived while a pass synchronized its row has overtaken the pass.
LateIsSuperseded ==
  \A w \in Workers : Claimed(w) /\ worker[w].late /\ RowIsThere(w) => worker[w].job.superseded

\* A completed sync has answered everything but what arrived since it began.
CompletedIsAnswered ==
  \A w \in Workers :
    worker[w].phase \in {"completeRead", "completeWrite"} /\ asked[RepoOf(w)] # "none"
      => worker[w].late

\* What is still open when a pass found its row current: nothing if it completed, only
\* earlier requests if it failed.  Later ones arrived in the gap.
DecisionLeavesNothingOpen ==
  \A w \in Workers :
    worker[w].phase \in InTransaction /\ worker[w].found = "current" /\ RowIsThere(w)
       /\ asked[RepoOf(w)] = "open"
      => worker[w].phase = "failWrite" /\ ~worker[w].late

AnswerInv ==
  TypeOK /\ AskedIsEnabled /\ LateIsSuperseded /\ CompletedIsAnswered
    /\ DecisionLeavesNothingOpen /\ UnansweredStaysQueued

LEMMA AnswerInit == Init => AnswerInv
<1> SUFFICES ASSUME Init
             PROVE  AnswerInv
  OBVIOUS
<1>1. \A w \in Workers : worker[w].phase = "idle" /\ worker[w].found = "gone"
  BY DEF Init, IdleWorker
<1>2. \A r \in Repositories : asked[r] = "none"
  BY DEF Init
<1>3. QED
  BY <1>1, <1>2, InitType, JobTypes
     DEF AnswerInv, AskedIsEnabled, LateIsSuperseded, CompletedIsAnswered,
         DecisionLeavesNothingOpen, UnansweredStaysQueued, Claimed, Syncing, Finishing,
         InTransaction

\* A step that takes answers away or adds none, keeps the key of every row that is there,
\* and leaves each pass where it was or lets it rest, keeps what relates passes to rows.
LEMMA PassesKept ==
  ASSUME AnswerInv, TypeOK', AskedIsEnabled', UnansweredStaysQueued',
         \A r \in Repositories :
           /\ asked'[r] \in {asked[r], "none"}
           /\ Present(r)' => Present(r) /\ request'[r].id = request[r].id,
         \A w \in Workers :
           Claimed(w)' => /\ worker'[w].phase = worker[w].phase
                          /\ worker'[w].found = worker[w].found
                          /\ worker'[w].job = worker[w].job
                          /\ worker'[w].late = worker[w].late
  PROVE  AnswerInv'
<1> USE DEF AnswerInv
<1>1. \A w \in Workers : RepoOf(w) \in Repositories
  BY JobTypes
<1>2. \A w \in Workers :
        Claimed(w)' => /\ Claimed(w) /\ RepoOf(w)' = RepoOf(w)
                       /\ RowIsThere(w)' => RowIsThere(w)
  BY <1>1 DEF Claimed, RepoOf, RowIsThere
<1>3. LateIsSuperseded'
  BY <1>2 DEF LateIsSuperseded
<1>4. \A w \in Workers :
        worker'[w].phase \in {"completeRead", "completeWrite"} \cup InTransaction => Claimed(w)'
  BY DEF Claimed, Finishing, InTransaction
<1>5. CompletedIsAnswered'
  BY <1>1, <1>2, <1>4 DEF CompletedIsAnswered
<1>6. DecisionLeavesNothingOpen'
  BY <1>1, <1>2, <1>4 DEF DecisionLeavesNothingOpen
<1>7. QED
  BY <1>3, <1>5, <1>6

LEMMA EnqueueAnswers ==
  ASSUME AnswerInv, TypeOK', NEW r \in Repositories, NEW delay \in Nat,
         EnqueueRepository(r, delay)
  PROVE  AnswerInv'
<1> USE DEF AnswerInv
<1>0. /\ \A s \in Repositories : s # r => asked'[s] = asked[s] /\ request'[s] = request[s]
      /\ asked'[r] = IF Enabled(r) THEN (IF InFinishingGap(r) THEN "raced" ELSE "open") ELSE asked[r]
      /\ request'[r] = UpsertedRow(r, delay)
      /\ \A s \in Repositories : Enabled(s)' = Enabled(s)
  BY DEF EnqueueRepository, TypeOK, Enabled
<1>1. AskedIsEnabled'
  BY <1>0 DEF AskedIsEnabled
<1>2. request'[r].status \in {"PENDING", "RUNNING"}
  BY <1>0, RecordTypes DEF UpsertedRow, TypeOK, Request
<1>3. UnansweredStaysQueued'
  BY <1>0, <1>2 DEF UnansweredStaysQueued
<1>4. \A w \in Workers : Claimed(w)' = Claimed(w)
  BY EnqueueKeepsJobs DEF Claimed
<1>5. LateIsSuperseded'
  BY <1>4, EnqueueKeepsJobs DEF LateIsSuperseded
<1>6. CompletedIsAnswered'
  <2> SUFFICES ASSUME NEW w \in Workers, worker'[w].phase \in {"completeRead", "completeWrite"},
                      asked'[RepoOf(w)'] # "none"
               PROVE  worker'[w].late
    BY DEF CompletedIsAnswered
  <2>1. /\ Claimed(w) /\ worker[w].phase \in {"completeRead", "completeWrite"}
        /\ RepoOf(w)' = RepoOf(w) /\ RepoOf(w) \in Repositories
        /\ worker'[w].late = (worker[w].late \/ (Claimed(w) /\ RepoOf(w) = r))
    BY EnqueueKeepsJobs, JobTypes DEF Claimed, Finishing
  <2>2. CASE RepoOf(w) = r
    BY <2>1, <2>2
  <2>3. CASE RepoOf(w) # r
    BY <1>0, <2>1, <2>3 DEF CompletedIsAnswered
  <2>4. QED
    BY <2>2, <2>3
<1>7. DecisionLeavesNothingOpen'
  <2> SUFFICES ASSUME NEW w \in Workers, worker'[w].phase \in InTransaction,
                      worker'[w].found = "current", RowIsThere(w)', asked'[RepoOf(w)'] = "open"
               PROVE  worker'[w].phase = "failWrite" /\ ~worker'[w].late
    BY DEF DecisionLeavesNothingOpen
  <2>1. /\ Claimed(w) /\ worker[w].phase = worker'[w].phase /\ worker[w].found = "current"
        /\ RepoOf(w)' = RepoOf(w) /\ RepoOf(w) \in Repositories /\ RowIsThere(w)
        /\ RepoOf(w) = r => Overtaken(worker[w].job, r)
        /\ worker'[w].late = (worker[w].late \/ (Claimed(w) /\ RepoOf(w) = r))
    BY EnqueueKeepsJobs, JobTypes DEF Claimed, Finishing, InTransaction
  <2>2. CASE RepoOf(w) = r
    <3>1. InFinishingGap(r)
      BY <2>1, <2>2 DEF InFinishingGap
    <3>2. asked[r] = "none" \/ Enabled(r)
      BY DEF AskedIsEnabled
    <3>3. QED
      BY <1>0, <2>1, <2>2, <3>1, <3>2
  <2>3. CASE RepoOf(w) # r
    BY <1>0, <2>1, <2>3 DEF DecisionLeavesNothingOpen
  <2>4. QED
    BY <2>2, <2>3
<1>8. QED
  BY <1>1, <1>3, <1>5, <1>6, <1>7

\* A step that ends or moves one pass and touches neither requests nor what is asked.
LEMMA PassRests ==
  ASSUME AnswerInv, TypeOK', NEW w \in Workers, NEW W,
         worker' = [worker EXCEPT ![w] = W], W.phase \notin Syncing \cup Finishing,
         UNCHANGED <<repository, request, asked>>,
         \A a \in Accounts : account'[a].enabled = account[a].enabled
  PROVE  AnswerInv'
<1>1. worker \in [Workers -> Worker] /\ \A r \in Repositories : AccountOf[r] \in Accounts
  BY ConstantsAssumption DEF AnswerInv, TypeOK
<1>2. \A v \in Workers : Claimed(v)' => worker'[v] = worker[v]
  BY <1>1 DEF Claimed
<1>3. \A r \in Repositories : asked[r] # "none" => Enabled(r)'
  BY <1>1 DEF AnswerInv, AskedIsEnabled, Enabled
<1>4. AskedIsEnabled' /\ UnansweredStaysQueued'
  BY <1>3 DEF AnswerInv, AskedIsEnabled, UnansweredStaysQueued
<1>5. QED
  BY <1>2, <1>4, PassesKept DEF Present

\* The row of a pass that found its row current and completed is removed: nothing that
\* is open depends on it.
LEMMA CompleteAnswers ==
  ASSUME AnswerInv, TypeOK', NEW w \in Workers, CompleteRequest(w)
  PROVE  AnswerInv'
<1> USE DEF AnswerInv
<1>0. /\ worker \in [Workers -> Worker] /\ request \in [Repositories -> Request]
      /\ RepoOf(w) \in Repositories /\ worker[w].found \in Finding
      /\ \A r \in Repositories : request[r] \in Request
  BY JobTypes DEF TypeOK, Worker
<1>1. \A v \in Workers : Claimed(v)' => worker'[v] = worker[v]
  <2>1. [IdleWorker EXCEPT !.phase = "claimNextRequest"].phase \notin Syncing \cup Finishing
    BY RecordTypes DEF Worker, Syncing, Finishing
  <2>2. QED
    BY <1>0, <2>1 DEF CompleteRequest, EndTransaction, Claimed
<1>2. \A r \in Repositories : Enabled(r)' = Enabled(r)
  BY <1>0, ConstantsAssumption DEF CompleteRequest, ReleaseAccount, Enabled, TypeOK, Account
<1>3. \A r \in Repositories :
        Present(r)' => Present(r) /\ request'[r].id = request[r].id
  <2>1. /\ Requeued(request[RepoOf(w)]).id = request[RepoOf(w)].id
        /\ NoRequest.status = "ABSENT"
    BY <1>0 DEF Requeued, Unleased, Request, NoRequest
  <2>2. QED
    BY <1>0, <2>1 DEF CompleteRequest, Finding, Present, RowIsThere
<1>4. ASSUME NEW r \in Repositories, asked[r] # "none",
             request[r].status \in {"PENDING", "RUNNING"}, asked[r] = "open"
      PROVE  request'[r].status \in {"PENDING", "RUNNING"}
  <2>1. CASE worker[w].found = "current" /\ r = RepoOf(w)
    <3>1. worker[w].phase \in InTransaction /\ RowIsThere(w)
      BY <2>1 DEF CompleteRequest, InTransaction
    <3>2. FALSE
      BY <1>4, <2>1, <3>1 DEF DecisionLeavesNothingOpen, CompleteRequest
    <3>3. QED
      BY <3>2
  <2>2. Requeued(request[RepoOf(w)]).status = "PENDING"
    BY <1>0 DEF Requeued, Unleased, Request
  <2>3. QED
    BY <1>0, <1>4, <2>1, <2>2 DEF CompleteRequest, Finding
<1>5. asked' = asked
  BY DEF CompleteRequest
<1>6. UnansweredStaysQueued' /\ AskedIsEnabled'
  BY <1>2, <1>4, <1>5 DEF UnansweredStaysQueued, AskedIsEnabled
<1>7. QED
  BY <1>1, <1>3, <1>5, <1>6, PassesKept

\* A failure that is not retried answers what was asked before the sync began, which is
\* all that is open when the row was still current.
LEMMA FailAnswers ==
  ASSUME AnswerInv, TypeOK', NEW w \in Workers, FailRequest(w)
  PROVE  AnswerInv'
<1> USE DEF AnswerInv
<1>0. /\ worker \in [Workers -> Worker] /\ request \in [Repositories -> Request]
      /\ asked \in [Repositories -> {"none", "open", "raced"}]
      /\ RepoOf(w) \in Repositories /\ worker[w].found \in Finding
      /\ \A r \in Repositories : request[r] \in Request
  BY JobTypes DEF TypeOK, Worker
<1>1. PICK delay \in Delays(worker[w].error) :
        LET until == delay - worker[w].age
        IN /\ request' = IF worker[w].found = "gone" THEN request
                         ELSE [request EXCEPT ![RepoOf(w)] = FailedRow(w, @, until)]
           /\ ReleaseAccount(w, IF worker[w].error = "rateLimited" THEN until ELSE Past)
  BY DEF FailRequest
<1> DEFINE row == FailedRow(w, request[RepoOf(w)], delay - worker[w].age)
<1>2. /\ row.id = request[RepoOf(w)].id
      /\ row.status = IF worker[w].found # "superseded" /\ ~Retry(w) THEN "FAILED" ELSE "PENDING"
  BY <1>0 DEF FailedRow, Requeued, Unleased, Request
<1>3. \A v \in Workers : Claimed(v)' => worker'[v] = worker[v]
  <2>1. [IdleWorker EXCEPT !.phase = "claimNextRequest"].phase \notin Syncing \cup Finishing
    BY RecordTypes DEF Worker, Syncing, Finishing
  <2>2. QED
    BY <1>0, <2>1 DEF FailRequest, EndTransaction, Claimed
<1>4. \A r \in Repositories : Enabled(r)' = Enabled(r)
  BY <1>0, <1>1, ConstantsAssumption DEF FailRequest, ReleaseAccount, Enabled, TypeOK, Account
<1>5. \A r \in Repositories :
        /\ asked'[r] \in {asked[r], "none"}
        /\ Present(r)' => Present(r) /\ request'[r].id = request[r].id
  BY <1>0, <1>1, <1>2 DEF FailRequest, Answered, Finding, Present, RowIsThere
<1>6. ASSUME NEW r \in Repositories, asked'[r] = "open"
      PROVE  request'[r].status \in {"PENDING", "RUNNING"}
  <2>1. asked[r] = "open" /\ request[r].status \in {"PENDING", "RUNNING"}
    BY <1>5, <1>6 DEF UnansweredStaysQueued
  <2>2. CASE r = RepoOf(w) /\ worker[w].found = "current" /\ ~Retry(w)
    <3>1. worker[w].late
      BY <1>0, <1>6, <2>2 DEF FailRequest, Answered
    <3>2. worker[w].phase \in InTransaction /\ RowIsThere(w)
      BY <2>2 DEF FailRequest, InTransaction
    <3>3. QED
      BY <2>1, <2>2, <3>1, <3>2 DEF DecisionLeavesNothingOpen
  <2>3. CASE r # RepoOf(w) \/ worker[w].found = "gone"
    BY <1>0, <1>1, <2>1, <2>3
  <2>4. CASE r = RepoOf(w) /\ (worker[w].found = "superseded" \/ Retry(w)) /\ worker[w].found # "gone"
    <3>1. request'[r].status = "PENDING"
      BY <1>0, <1>1, <1>2, <2>4
    <3>2. QED
      BY <3>1
  <2>5. QED
    BY <1>0, <2>2, <2>3, <2>4 DEF Finding
<1>7. UnansweredStaysQueued' /\ AskedIsEnabled'
  BY <1>4, <1>5, <1>6 DEF UnansweredStaysQueued, AskedIsEnabled
<1>8. QED
  BY <1>3, <1>5, <1>7, PassesKept

\* A completed sync answers what was asked before it began; a failure answers nothing yet.
LEMMA SyncEndsAnswers ==
  ASSUME AnswerInv, TypeOK', NEW w \in Workers,
         SyncSucceeds(w) \/ SyncThrows(w) \/ CompleteRequestThrows(w)
  PROVE  AnswerInv'
<1> USE DEF AnswerInv
<1>0. /\ worker \in [Workers -> Worker] /\ \A v \in Workers : worker[v] \in Worker
      /\ asked \in [Repositories -> {"none", "open", "raced"}]
      /\ \A v \in Workers : RepoOf(v) \in Repositories
  BY JobTypes DEF TypeOK
<1>1. /\ UNCHANGED <<repository, account, request>>
      /\ \A v \in Workers : v # w => worker'[v] = worker[v]
      /\ Claimed(w)
      /\ worker'[w].job = worker[w].job /\ worker'[w].late = worker[w].late
      /\ worker'[w].phase \in {"completeRead", "failRead"}
      /\ worker'[w].phase = "completeRead" => asked' = Answered(w)
      /\ asked' \in {asked, Answered(w)}
  <2>1. CASE SyncSucceeds(w)
    BY <1>0, <2>1 DEF SyncSucceeds, Worker, Claimed, Syncing
  <2>2. CASE SyncThrows(w)
    <3>1. PICK error \in Verdict :
            worker' = [worker EXCEPT ![w].phase = "failRead", ![w].error = error]
      BY <2>2 DEF SyncThrows
    <3>2. QED
      BY <1>0, <2>2, <3>1 DEF SyncThrows, Worker, Claimed, Syncing
  <2>3. CASE CompleteRequestThrows(w)
    BY <1>0, <2>3 DEF CompleteRequestThrows, Worker, Claimed, Finishing
  <2>4. QED
    BY <2>1, <2>2, <2>3
<1>2. \A r \in Repositories :
        /\ asked'[r] \in {asked[r], "none"}
        /\ Enabled(r)' = Enabled(r) /\ Present(r)' = Present(r)
  BY <1>0, <1>1 DEF Answered, Enabled, Present
<1>3. \A v \in Workers : /\ Claimed(v)' => Claimed(v)
                         /\ RepoOf(v)' = RepoOf(v) /\ RowIsThere(v)' = RowIsThere(v)
                         /\ worker'[v].job = worker[v].job /\ worker'[v].late = worker[v].late
  BY <1>1 DEF Claimed, RepoOf, RowIsThere, Present
<1>4. AskedIsEnabled' /\ UnansweredStaysQueued'
  BY <1>1, <1>2 DEF AskedIsEnabled, UnansweredStaysQueued
<1>5. LateIsSuperseded'
  BY <1>3 DEF LateIsSuperseded
<1>6. CompletedIsAnswered'
  <2> SUFFICES ASSUME NEW v \in Workers, worker'[v].phase \in {"completeRead", "completeWrite"},
                      asked'[RepoOf(v)] # "none"
               PROVE  worker[v].late
    BY <1>3 DEF CompletedIsAnswered
  <2>1. CASE v # w
    BY <1>0, <1>1, <1>2, <2>1 DEF CompletedIsAnswered
  <2>2. CASE v = w
    BY <1>0, <1>1, <2>2 DEF Answered
  <2>3. QED
    BY <2>1, <2>2
<1>7. DecisionLeavesNothingOpen'
  <2> SUFFICES ASSUME NEW v \in Workers, worker'[v].phase \in InTransaction,
                      worker'[v].found = "current", RowIsThere(v), asked'[RepoOf(v)] = "open"
               PROVE  worker'[v].phase = "failWrite" /\ ~worker'[v].late
    BY <1>3 DEF DecisionLeavesNothingOpen
  <2>1. v # w
    BY <1>1 DEF InTransaction
  <2>2. QED
    BY <1>0, <1>1, <1>2, <2>1 DEF DecisionLeavesNothingOpen
<1>8. QED
  BY <1>4, <1>5, <1>6, <1>7

\* A pass that finds its row current has not been overtaken.
LEMMA FindAnswers ==
  ASSUME AnswerInv, TypeOK', NEW w \in Workers, FindUnique(w)
  PROVE  AnswerInv'
<1> USE DEF AnswerInv
<1>0. /\ worker \in [Workers -> Worker] /\ \A v \in Workers : worker[v] \in Worker
      /\ \A v \in Workers : RepoOf(v) \in Repositories
  BY JobTypes DEF TypeOK
<1>1. /\ UNCHANGED <<repository, account, request, asked>>
      /\ \A v \in Workers : v # w => worker'[v] = worker[v]
      /\ Claimed(w)
      /\ worker'[w].job = worker[w].job /\ worker'[w].late = worker[w].late
      /\ \/ worker[w].phase = "completeRead" /\ worker'[w].phase = "completeWrite"
         \/ worker[w].phase = "failRead" /\ worker'[w].phase = "failWrite"
      /\ worker'[w].found = "current" => RowIsThere(w) /\ ~worker[w].job.superseded
  BY <1>0 DEF FindUnique, Worker, Claimed, Finishing
<1>2. \A r \in Repositories : Enabled(r)' = Enabled(r) /\ Present(r)' = Present(r)
  BY <1>1 DEF Enabled, Present
<1>3. \A v \in Workers : /\ Claimed(v)' => Claimed(v)
                         /\ RepoOf(v)' = RepoOf(v) /\ RowIsThere(v)' = RowIsThere(v)
                         /\ worker'[v].job = worker[v].job /\ worker'[v].late = worker[v].late
  BY <1>1 DEF Claimed, RepoOf, RowIsThere, Present
<1>4. AskedIsEnabled' /\ UnansweredStaysQueued'
  BY <1>1, <1>2 DEF AskedIsEnabled, UnansweredStaysQueued
<1>5. LateIsSuperseded'
  BY <1>3 DEF LateIsSuperseded
<1>6. CompletedIsAnswered'
  BY <1>1, <1>3 DEF CompletedIsAnswered
<1>7. DecisionLeavesNothingOpen'
  <2> SUFFICES ASSUME NEW v \in Workers, worker'[v].phase \in InTransaction,
                      worker'[v].found = "current", RowIsThere(v), asked[RepoOf(v)] = "open"
               PROVE  worker'[v].phase = "failWrite" /\ ~worker[v].late
    BY <1>1, <1>3 DEF DecisionLeavesNothingOpen
  <2>1. CASE v # w
    BY <1>1, <2>1 DEF DecisionLeavesNothingOpen
  <2>2. CASE v = w
    <3>1. ~worker[w].late
      BY <1>1, <2>2 DEF LateIsSuperseded
    <3>2. worker[w].phase # "completeRead"
      BY <2>2, <3>1 DEF CompletedIsAnswered
    <3>3. QED
      BY <1>1, <2>2, <3>1, <3>2
  <2>3. QED
    BY <2>1, <2>2
<1>8. QED
  BY <1>4, <1>5, <1>6, <1>7

\* The rows a starting pass deletes belong to repositories that are switched off, which
\* are owed nothing.
LEMMA StartAnswers ==
  ASSUME AnswerInv, TypeOK', NEW w \in Workers, StartPass(w)
  PROVE  AnswerInv'
<1> USE DEF AnswerInv
<1>0. worker \in [Workers -> Worker] /\ \A v \in Workers : worker[v] \in Worker
  BY DEF TypeOK
<1>1. \A v \in Workers : Claimed(v)' => worker'[v] = worker[v]
  BY <1>0 DEF StartPass, Worker, Claimed, Syncing, Finishing
<1>2. /\ asked' = asked
      /\ \A r \in Repositories : /\ Enabled(r)' = Enabled(r)
                                 /\ Enabled(r) => request'[r] = request[r]
                                 /\ ~Enabled(r) => request'[r] = NoRequest
  BY DEF StartPass, Enabled
<1>3. \A r \in Repositories : Present(r)' => Present(r) /\ request'[r].id = request[r].id
  <2>1. NoRequest.status = "ABSENT"
    BY DEF NoRequest
  <2>2. \A r \in Repositories : Enabled(r) \in BOOLEAN
    BY DEF Enabled
  <2>3. QED
    BY <1>2, <2>1, <2>2 DEF Present
<1>4. AskedIsEnabled' /\ UnansweredStaysQueued'
  BY <1>2 DEF AskedIsEnabled, UnansweredStaysQueued
<1>5. QED
  BY <1>1, <1>2, <1>3, <1>4, PassesKept

LEMMA ClaimAnswers ==
  ASSUME AnswerInv, TypeOK', NEW w \in Workers, ClaimCandidate(w)
  PROVE  AnswerInv'
<1> USE DEF AnswerInv
<1>0. /\ worker \in [Workers -> Worker] /\ \A v \in Workers : worker[v] \in Worker
      /\ \A r \in Repositories : request[r] \in Request /\ AccountOf[r] \in Accounts
      /\ \A v \in Workers : RepoOf(v) \in Repositories
      /\ account \in [Accounts -> Account]
  BY JobTypes, ConstantsAssumption DEF TypeOK
<1>1. PICK c \in worker[w].candidates : NextCandidate(w, c) /\ (Claim(w, c) \/ Pass(w, c))
  BY DEF ClaimCandidate
<1>2. c \in Candidate /\ c.repo \in Repositories
  BY <1>0, <1>1 DEF Worker, Candidate
<1>3. \A a \in Accounts : account'[a].enabled = account[a].enabled
  BY <1>0, <1>1, <1>2 DEF Claim, Pass, Account
<1>4. CASE Pass(w, c)
  <2>1. PICK W : worker' = [worker EXCEPT ![w] = W] /\ W.phase \in {"idle", "claimCandidate"}
    <3>1. CASE worker[w].candidates \ {c} = {}
      <4>1. worker' = [worker EXCEPT ![w] = IdleWorker]
        BY <1>4, <3>1 DEF Pass
      <4>2. IdleWorker.phase = "idle"
        BY DEF IdleWorker
      <4>3. QED
        BY <4>1, <4>2
    <3>2. CASE worker[w].candidates \ {c} # {}
      <4>1. [worker[w] EXCEPT !.candidates = @ \ {c}].phase = "claimCandidate"
        BY <1>0, <1>1 DEF NextCandidate, Worker
      <4>2. worker' = [worker EXCEPT ![w] = [worker[w] EXCEPT !.candidates = worker[w].candidates \ {c}]]
        BY <1>4, <3>2 DEF Pass
      <4>3. QED
        BY <4>1, <4>2
    <3>3. QED
      BY <3>1, <3>2
  <2>2. W.phase \notin Syncing \cup Finishing
    BY <2>1 DEF Syncing, Finishing
  <2>3. UNCHANGED <<repository, request, asked>>
    BY <1>4 DEF ClaimCandidate, Pass
  <2>4. QED
    BY <1>3, <2>1, <2>2, <2>3, PassRests
<1>5. CASE Claim(w, c)
  <2>1. /\ asked' = asked /\ \A r \in Repositories : Enabled(r)' = Enabled(r)
    BY <1>0, <1>3 DEF ClaimCandidate, Enabled
  <2>2. \A r \in Repositories :
          /\ request'[r].id = request[r].id
          /\ Present(r)' = Present(r)
          /\ request'[r].status \in {request[r].status, "RUNNING"}
    BY <1>0, <1>2, <1>5 DEF Claim, Present, StillDue, TypeOK, Request
  <2>3. worker'[w].phase = "syncing" /\ worker'[w].late = FALSE
    BY <1>0, <1>5, RecordTypes DEF Claim, IdleWorker, Worker
  <2>4. \A v \in Workers : v # w => worker'[v] = worker[v]
    BY <1>0, <1>5 DEF Claim
  <2>5. AskedIsEnabled' /\ UnansweredStaysQueued'
    BY <2>1, <2>2 DEF AskedIsEnabled, UnansweredStaysQueued
  <2>6. \A v \in Workers :
          v # w => /\ Claimed(v)' = Claimed(v) /\ RepoOf(v)' = RepoOf(v)
                   /\ RowIsThere(v)' = RowIsThere(v)
    BY <1>0, <2>2, <2>4 DEF Claimed, RepoOf, RowIsThere
  <2>7. LateIsSuperseded'
    BY <2>3, <2>4, <2>6 DEF LateIsSuperseded
  <2>8. CompletedIsAnswered'
    BY <2>1, <2>3, <2>4, <2>6 DEF CompletedIsAnswered
  <2>9. DecisionLeavesNothingOpen'
    BY <2>1, <2>3, <2>4, <2>6 DEF DecisionLeavesNothingOpen, InTransaction
  <2>10. QED
    BY <2>5, <2>7, <2>8, <2>9
<1>6. QED
  BY <1>1, <1>4, <1>5

LEMMA ServeAnswers ==
  ASSUME AnswerInv, TypeOK', Serve \/ Abort
  PROVE  AnswerInv'
<1>1. ASSUME NEW w \in Workers, ReadCandidates(w)
      PROVE  AnswerInv'
  <2>1. PICK batch \in SUBSET Repositories :
          worker' = [worker EXCEPT ![w] =
            IF batch = {} THEN IdleWorker
            ELSE [IdleWorker EXCEPT !.phase = "claimCandidate",
                                    !.candidates = {Snapshot(r) : r \in batch}]]
    BY <1>1 DEF ReadCandidates, FirstBatches
  <2>2. /\ IdleWorker.phase \notin Syncing \cup Finishing
        /\ [IdleWorker EXCEPT !.phase = "claimCandidate",
              !.candidates = {Snapshot(r) : r \in batch}].phase \notin Syncing \cup Finishing
    BY DEF IdleWorker, Syncing, Finishing
  <2>3. QED
    BY <1>1, <2>1, <2>2, PassRests DEF ReadCandidates
<1>2. ASSUME NEW w \in Workers, FailRequestThrows(w) \/ PassAborts(w)
      PROVE  AnswerInv'
  <2>1. /\ IdleWorker.phase \notin Syncing \cup Finishing
        /\ [IdleWorker EXCEPT !.phase = "stopped"].phase \notin Syncing \cup Finishing
    BY DEF IdleWorker, Syncing, Finishing
  <2>2. QED
    BY <1>2, <2>1, PassRests DEF FailRequestThrows, PassAborts
<1>3. QED
  BY <1>1, <1>2, StartAnswers, ClaimAnswers, SyncEndsAnswers, FindAnswers, CompleteAnswers,
     FailAnswers DEF Serve, WorkerStep, Abort

\* Whoever switches a repository or an account, or removes one, ends what is owed to it.
LEMMA EnvironmentAnswers ==
  ASSUME AnswerInv, TypeOK',
         Webhook \/ Manual \/ Reconcile \/ ReconciliationAborts \/ Administer \/ Tick
  PROVE  AnswerInv'
<1> USE DEF AnswerInv
<1>0. /\ worker \in [Workers -> Worker] /\ \A v \in Workers : worker[v] \in Worker
      /\ \A r \in Repositories : request[r] \in Request /\ AccountOf[r] \in Accounts
      /\ account \in [Accounts -> Account] /\ repository \in [Repositories -> BOOLEAN]
  BY ConstantsAssumption DEF TypeOK
<1>1. CASE Webhook \/ Manual \/ \E r \in Repositories : ReconcileRepository(r)
  BY <1>1, EnqueueAnswers, ConstantsAssumption
     DEF Webhook, EnqueueWebhookRepository, Manual, EnqueueRepositorySync, ReconcileRepository
<1>2. CASE StartReconciliation \/ ReconciliationAborts
  <2>1. UNCHANGED <<repository, account, request, worker, asked>>
    BY <1>2 DEF StartReconciliation, ReconciliationAborts
  <2>2. AskedIsEnabled' /\ UnansweredStaysQueued'
    BY <2>1 DEF AskedIsEnabled, UnansweredStaysQueued, Enabled
  <2>3. QED
    BY <2>1, <2>2, PassesKept DEF Present
<1>3. ASSUME NEW s \in Repositories, NEW enabled \in BOOLEAN, SetRepositoryEnabled(s, enabled)
      PROVE  AnswerInv'
  <2>1. AskedIsEnabled' /\ UnansweredStaysQueued'
    BY <1>0, <1>3
       DEF SetRepositoryEnabled, Forget, AskedIsEnabled, UnansweredStaysQueued, Enabled
  <2>2. QED
    BY <1>3, <2>1, PassesKept DEF SetRepositoryEnabled, Forget, Present
<1>4. ASSUME NEW a \in Accounts, NEW enabled \in BOOLEAN, SetAccountEnabled(a, enabled)
      PROVE  AnswerInv'
  <2>1. AskedIsEnabled' /\ UnansweredStaysQueued'
    BY <1>0, <1>4
       DEF SetAccountEnabled, Forget, AskedIsEnabled, UnansweredStaysQueued, Enabled
  <2>2. QED
    BY <1>4, <2>1, PassesKept DEF SetAccountEnabled, Forget, Present
<1>5. ASSUME NEW a \in Accounts, RemoveAccount(a)
      PROVE  AnswerInv'
  <2>1. AskedIsEnabled' /\ UnansweredStaysQueued'
    BY <1>0, <1>5 DEF RemoveAccount, Forget, AskedIsEnabled, UnansweredStaysQueued, Enabled
  <2>2. \A r \in Repositories : Present(r)' => Present(r) /\ request'[r].id = request[r].id
    BY <1>5 DEF RemoveAccount, Present, NoRequest
  <2>3. QED
    BY <1>5, <2>1, <2>2, PassesKept DEF RemoveAccount, Forget
<1>6. CASE Tick
  <2>1. \A r \in Repositories : /\ request'[r].status = request[r].status
                                /\ request'[r].id = request[r].id
                                /\ Enabled(r)' = Enabled(r)
    BY <1>0, <1>6 DEF Tick, Request, Account, Enabled
  <2>2. \A v \in Workers : /\ worker'[v].phase = worker[v].phase
                           /\ worker'[v].found = worker[v].found
                           /\ worker'[v].job = worker[v].job
                           /\ worker'[v].late = worker[v].late
    BY <1>0, <1>6 DEF Tick, Worker
  <2>3. AskedIsEnabled' /\ UnansweredStaysQueued'
    BY <1>6, <2>1 DEF Tick, AskedIsEnabled, UnansweredStaysQueued
  <2>4. QED
    BY <1>6, <2>1, <2>2, <2>3, PassesKept DEF Tick, Present
<1>7. QED
  BY <1>1, <1>2, <1>3, <1>4, <1>5, <1>6 DEF Reconcile, Administer

LEMMA AnswerNext == AnswerInv /\ [Next]_vars => AnswerInv'
<1> SUFFICES ASSUME AnswerInv, [Next]_vars
             PROVE  AnswerInv'
  OBVIOUS
<1>1. TypeOK'
  BY NextType DEF AnswerInv
<1>2. CASE UNCHANGED vars
  <2>1. AskedIsEnabled' /\ UnansweredStaysQueued'
    BY <1>2 DEF vars, AnswerInv, AskedIsEnabled, UnansweredStaysQueued, Enabled
  <2>2. QED
    BY <1>1, <1>2, <2>1, PassesKept DEF vars, Present
<1>3. QED
  BY <1>1, <1>2, ServeAnswers, EnvironmentAnswers DEF Next

\* An accepted request that no verdict answers is still queued, whatever crashes, loses
\* its lease, is superseded or finishes at the same moment. Excepted are the requests that
\* arrive between the two statements of a finishing transaction ("raced"): the code may
\* lose them, as queue_durable shows.
THEOREM UnansweredIsQueued == Spec => []UnansweredStaysQueued
<1>1. AnswerInv => UnansweredStaysQueued
  BY DEF AnswerInv
<1>2. QED
  BY <1>1, AnswerInit, AnswerNext, PTL DEF Spec

-----------------------------------------------------------------------------
(***************************************************************************)
(* The retry budget: a row that waits for another try has not used more than*)
(* MaxAttempts of them, in every behaviour whose retries are in the database*)
(* before they are due.                                                    *)
(***************************************************************************)

\* What the code expects of its clock and does not ensure: a retry that is written into the
\* row is not due yet. Its delay of a second or more counts from before the transaction, and
\* the transaction may take five.
RetriesLieAhead ==
  \A w \in Workers : FailRequest(w) /\ Retry(w) /\ worker[w].found = "current"
    => request'[RepoOf(w)].runAfter > 0

\* A finishing transaction that found its own row, and the row is still there.
Deciding(w) ==
  worker[w].phase \in InTransaction /\ worker[w].found # "gone" /\ RowIsThere(w)
TokenOf(w) == request[RepoOf(w)].leaseToken

\* A row carries a token exactly while it is RUNNING.
TokenMeansRunning ==
  \A r \in Repositories : request[r].leaseToken # NoToken <=> request[r].status = "RUNNING"

\* The pass whose token a row carries has counted all of its attempts.
OwnAttemptCounts ==
  \A w \in Workers : Claimed(w) /\ RowIsThere(w) /\ TokenOf(w) = w
    => request[RepoOf(w)].attempt <= worker[w].job.attempt

NotYetDue(row, age) ==
  /\ (row.status = "PENDING" => row.runAfter + age > 0)
  /\ (row.status = "RUNNING" => row.leaseExpiresAt > MaxStale - age)

\* A row that was tried again since a pass read it is not due by that pass's clock.
StaleSnapshotIsNotDue ==
  \A w \in Workers : worker[w].phase = "claimCandidate" =>
    \A c \in worker[w].candidates :
      Present(c.repo) /\ request[c.repo].id = c.id =>
        \/ request[c.repo].attempt <= c.attempt
        \/ NotYetDue(request[c.repo], worker[w].age)

\* A row that was taken over under a finishing transaction is leased until the
\* transaction is over.
TakeoverOutlastsDecision ==
  \A w \in Workers : Deciding(w) /\ TokenOf(w) \notin {w, NoToken}
    => request[RepoOf(w)].leaseExpiresAt > MaxStale - worker[w].age

\* Of two finishing transactions that found the same row one still holds it.
OneStaleDecision ==
  \A v, w \in Workers : v # w /\ Deciding(v) /\ Deciding(w) /\ RepoOf(v) = RepoOf(w)
    => TokenOf(w) \in {v, w}

\* A pass that is about to schedule a retry finds the row within the budget.
DecisionWithinBudget ==
  \A w \in Workers : Deciding(w) /\ Retry(w)
    => /\ request[RepoOf(w)].attempt <= MaxAttempts
       /\ (request[RepoOf(w)].status = "PENDING" => request[RepoOf(w)].attempt < MaxAttempts)

AttemptInv ==
  TypeOK /\ TokenMeansRunning /\ OwnAttemptCounts /\ StaleSnapshotIsNotDue
    /\ TakeoverOutlastsDecision /\ OneStaleDecision /\ DecisionWithinBudget /\ RetriesBounded

LEMMA AttemptInit == Init => AttemptInv
<1> SUFFICES ASSUME Init
             PROVE  AttemptInv
  OBVIOUS
<1>1. \A w \in Workers : worker[w].phase = "idle"
  BY DEF Init, IdleWorker
<1>2. \A r \in Repositories : request[r].status = "ABSENT" /\ request[r].leaseToken = NoToken
  BY DEF Init, NoRequest
<1>3. QED
  BY <1>1, <1>2, InitType
     DEF AttemptInv, TokenMeansRunning, OwnAttemptCounts, StaleSnapshotIsNotDue,
         TakeoverOutlastsDecision, OneStaleDecision, DecisionWithinBudget, RetriesBounded,
         Claimed, Deciding, Syncing, Finishing, InTransaction

LEMMA AttemptTypes ==
  ASSUME TypeOK
  PROVE  /\ \A r \in Repositories :
              /\ request[r] \in Request /\ request[r].attempt \in Nat
              /\ request[r].runAfter \in Int /\ request[r].leaseExpiresAt \in Int
         /\ \A w \in Workers :
              /\ worker[w].age \in Nat /\ worker[w].age <= MaxStale
              /\ worker[w].job.attempt \in Nat
              /\ \A c \in worker[w].candidates :
                   c \in Candidate /\ c.repo \in Repositories /\ c.attempt \in Nat
         /\ MaxStale \in Nat /\ MaxAttempts \in Nat /\ MaxAttempts > 0
BY ConstantsAssumption DEF TypeOK, Request, Worker, Candidate, Attempt, Instant

\* Steps that change no row except by removing it, and begin no decision.
LEMMA AttemptsKept ==
  ASSUME AttemptInv, TypeOK', StaleSnapshotIsNotDue',
         \A r \in Repositories : request'[r] \in {request[r], NoRequest},
         \A w \in Workers :
           Claimed(w)' => /\ Claimed(w) /\ worker'[w].job = worker[w].job
                          /\ worker'[w].phase \in InTransaction =>
                               /\ worker'[w].phase = worker[w].phase
                               /\ worker'[w].found = worker[w].found
                               /\ worker'[w].error = worker[w].error
                               /\ worker'[w].age = worker[w].age
  PROVE  AttemptInv'
<1> USE DEF AttemptInv
<1>1. NoRequest.status = "ABSENT" /\ NoRequest.leaseToken = NoToken
  BY DEF NoRequest
<1>2. \A w \in Workers : RepoOf(w) \in Repositories
  BY JobTypes
<1>3. ASSUME NEW w \in Workers, Claimed(w)', RowIsThere(w)'
      PROVE  /\ Claimed(w) /\ RepoOf(w)' = RepoOf(w) /\ RowIsThere(w)
             /\ request'[RepoOf(w)] = request[RepoOf(w)]
             /\ worker'[w].job = worker[w].job
  BY <1>1, <1>2, <1>3 DEF RepoOf, RowIsThere, Present
<1>4. ASSUME NEW w \in Workers, Deciding(w)'
      PROVE  /\ Claimed(w)' /\ Deciding(w) /\ RepoOf(w)' = RepoOf(w)
             /\ request'[RepoOf(w)] = request[RepoOf(w)]
             /\ Retry(w)' = Retry(w) /\ worker'[w].age = worker[w].age
  <2>1. Claimed(w)' /\ RowIsThere(w)'
    BY <1>4 DEF Deciding, Claimed, Finishing, InTransaction
  <2>2. QED
    BY <1>3, <1>4, <2>1 DEF Deciding, Retry
<1>5. TokenMeansRunning' /\ RetriesBounded'
  BY <1>1 DEF TokenMeansRunning, RetriesBounded
<1>6. OwnAttemptCounts'
  BY <1>3 DEF OwnAttemptCounts, TokenOf
<1>7. TakeoverOutlastsDecision'
  BY <1>4 DEF TakeoverOutlastsDecision, TokenOf
<1>8. OneStaleDecision'
  BY <1>4 DEF OneStaleDecision, TokenOf
<1>9. DecisionWithinBudget'
  BY <1>4 DEF DecisionWithinBudget
<1>10. QED
  BY <1>5, <1>6, <1>7, <1>8, <1>9

\* Snapshots stay as stale as they are when rows are only removed and no pass reads.
LEMMA SnapshotsKept ==
  ASSUME AttemptInv,
         \A r \in Repositories : request'[r] \in {request[r], NoRequest},
         \A w \in Workers :
           worker'[w].phase = "claimCandidate"
             => /\ worker[w].phase = "claimCandidate" /\ worker'[w].age = worker[w].age
                /\ worker'[w].candidates \subseteq worker[w].candidates
  PROVE  StaleSnapshotIsNotDue'
<1>1. NoRequest.status = "ABSENT"
  BY DEF NoRequest
<1>2. \A w \in Workers : \A c \in worker[w].candidates : c.repo \in Repositories
  BY AttemptTypes DEF AttemptInv
<1>3. QED
  BY <1>1, <1>2 DEF AttemptInv, StaleSnapshotIsNotDue, Present

\* Of three finishing transactions none other than two finds the same row.
LEMMA NoThreeDecisions ==
  ASSUME AttemptInv, NEW u \in Workers, NEW v \in Workers, NEW w \in Workers,
         Deciding(u), Deciding(v), Deciding(w),
         RepoOf(u) = RepoOf(v), RepoOf(v) = RepoOf(w)
  PROVE  u = v \/ v = w \/ u = w
<1>1. TokenOf(u) = TokenOf(v) /\ TokenOf(v) = TokenOf(w)
  BY DEF TokenOf
<1>2. QED
  BY <1>1 DEF AttemptInv, OneStaleDecision

\* A finishing transaction that returns its row: the attempts are reset, or kept for a
\* retry that is not due yet, or the row is FAILED.
LEMMA DecisionMade ==
  ASSUME AttemptInv, TypeOK', NEW w \in Workers, Deciding(w), EndTransaction(w),
         NEW row \in Request, request' = [request EXCEPT ![RepoOf(w)] = row],
         row.id = request[RepoOf(w)].id, row.leaseToken = NoToken,
         row.status \in {"PENDING", "FAILED"},
         \/ row.attempt = 0
         \/ /\ row.attempt = request[RepoOf(w)].attempt
            /\ row.status = "PENDING" => Retry(w) /\ row.runAfter > 0
  PROVE  AttemptInv'
<1> USE DEF AttemptInv
<1> DEFINE r == RepoOf(w)
<1>0. /\ r \in Repositories /\ request \in [Repositories -> Request]
      /\ worker \in [Workers -> Worker] /\ \A v \in Workers : RepoOf(v) \in Repositories
  BY JobTypes DEF TypeOK
<1>1. request'[r] = row /\ \A s \in Repositories : s # r => request'[s] = request[s]
  BY <1>0
<1>2. /\ \A v \in Workers : v # w => worker'[v] = worker[v]
      /\ worker'[w].phase = "claimNextRequest"
  BY <1>0, RecordTypes DEF EndTransaction, Worker
<1>3. ASSUME NEW v \in Workers, Deciding(v)'
      PROVE  v # w /\ Deciding(v) /\ RepoOf(v)' = RepoOf(v) /\ Retry(v)' = Retry(v)
             /\ worker'[v] = worker[v]
  <2>1. v # w
    BY <1>2, <1>3 DEF Deciding, InTransaction
  <2>2. worker'[v] = worker[v] /\ RepoOf(v)' = RepoOf(v)
    BY <1>2, <2>1 DEF RepoOf
  <2>3. RowIsThere(v)
    BY <1>0, <1>1, <1>3, <2>2 DEF Deciding, RowIsThere, Present
  <2>4. QED
    BY <1>3, <2>1, <2>2, <2>3 DEF Deciding, Retry
<1>4. TokenMeansRunning'
  BY <1>0, <1>1 DEF TokenMeansRunning
<1>5. OwnAttemptCounts'
  <2> SUFFICES ASSUME NEW v \in Workers, Claimed(v)', RowIsThere(v)', TokenOf(v)' = v
               PROVE  request'[RepoOf(v)'].attempt <= worker'[v].job.attempt
    BY DEF OwnAttemptCounts
  <2>1. v # w
    BY <1>2 DEF Claimed, Syncing, Finishing
  <2>2. worker'[v] = worker[v] /\ RepoOf(v)' = RepoOf(v) /\ Claimed(v)
    BY <1>2, <2>1 DEF RepoOf, Claimed
  <2>3. RepoOf(v) # r
    BY <1>1, <2>2, ConstantsAssumption DEF TokenOf
  <2>4. QED
    BY <1>0, <1>1, <2>2, <2>3 DEF OwnAttemptCounts, TokenOf, RowIsThere, Present
<1>6. StaleSnapshotIsNotDue'
  <2> SUFFICES ASSUME NEW v \in Workers, worker'[v].phase = "claimCandidate",
                      NEW c \in worker'[v].candidates, Present(c.repo)',
                      request'[c.repo].id = c.id
               PROVE  \/ request'[c.repo].attempt <= c.attempt
                      \/ NotYetDue(request'[c.repo], worker'[v].age)
    BY DEF StaleSnapshotIsNotDue
  <2>1. worker'[v] = worker[v]
    BY <1>2
  <2>2. c.repo \in Repositories /\ c.attempt \in Nat /\ worker[v].age \in Nat
    BY <2>1, AttemptTypes
  <2>3. CASE c.repo # r
    BY <1>1, <2>1, <2>2, <2>3 DEF StaleSnapshotIsNotDue, Present
  <2>4. CASE c.repo = r /\ row.attempt = 0
    BY <1>1, <2>2, <2>4
  <2>5. CASE c.repo = r /\ row.status = "PENDING" /\ row.runAfter > 0
    <3>1. row.runAfter \in Int
      BY DEF Request, Instant
    <3>2. NotYetDue(row, worker[v].age)
      BY <2>2, <2>5, <3>1 DEF NotYetDue
    <3>3. QED
      BY <1>1, <2>1, <2>5, <3>2
  <2>6. CASE c.repo = r /\ row.status = "FAILED"
    <3>1. NotYetDue(row, worker[v].age)
      BY <2>6 DEF NotYetDue
    <3>2. QED
      BY <1>1, <2>1, <2>6, <3>1
  <2>7. QED
    BY <2>3, <2>4, <2>5, <2>6
<1>7. TakeoverOutlastsDecision'
  <2> SUFFICES ASSUME NEW v \in Workers, Deciding(v)', TokenOf(v)' \notin {v, NoToken}
               PROVE  request'[RepoOf(v)'].leaseExpiresAt > MaxStale - worker'[v].age
    BY DEF TakeoverOutlastsDecision
  <2>1. RepoOf(v) # r
    BY <1>1, <1>3 DEF TokenOf
  <2>2. QED
    BY <1>0, <1>1, <1>3, <2>1 DEF TakeoverOutlastsDecision, TokenOf
<1>8. OneStaleDecision'
  <2> SUFFICES ASSUME NEW u \in Workers, NEW v \in Workers, u # v, Deciding(u)', Deciding(v)',
                      RepoOf(u)' = RepoOf(v)'
               PROVE  TokenOf(u)' \in {u, v}
    BY DEF OneStaleDecision
  <2>1. RepoOf(u) # r
    BY <1>3, NoThreeDecisions
  <2>2. QED
    BY <1>0, <1>1, <1>3, <2>1 DEF OneStaleDecision, TokenOf
<1>9. DecisionWithinBudget'
  <2> SUFFICES ASSUME NEW v \in Workers, Deciding(v)', Retry(v)'
               PROVE  /\ request'[RepoOf(v)'].attempt <= MaxAttempts
                      /\ (request'[RepoOf(v)'].status = "PENDING"
                            => request'[RepoOf(v)'].attempt < MaxAttempts)
    BY DEF DecisionWithinBudget
  <2>0. v # w /\ Deciding(v) /\ RepoOf(v)' = RepoOf(v) /\ Retry(v)
    BY <1>3
  <2>1. CASE RepoOf(v) # r
    BY <1>0, <1>1, <2>0, <2>1 DEF DecisionWithinBudget
  <2>2. CASE RepoOf(v) = r /\ row.attempt = 0
    BY <1>1, <2>0, <2>2, AttemptTypes
  <2>3. CASE /\ RepoOf(v) = r /\ row.attempt = request[r].attempt
             /\ row.status = "PENDING" => Retry(w)
    <3>1. request[r].attempt <= MaxAttempts
      BY <2>0, <2>3 DEF DecisionWithinBudget
    <3>2. ASSUME row.status = "PENDING"
          PROVE  request[r].attempt < MaxAttempts
      <4>1. TokenOf(v) \in {v, w} /\ TokenOf(w) = TokenOf(v)
        BY <2>0, <2>3 DEF OneStaleDecision, TokenOf
      <4>2. PICK x \in {v, w} : TokenOf(x) = x /\ Deciding(x) /\ Retry(x) /\ RepoOf(x) = r
        BY <2>0, <2>3, <3>2, <4>1
      <4>3. request[r].attempt <= worker[x].job.attempt
        BY <4>2 DEF OwnAttemptCounts, Deciding, Claimed, Finishing, InTransaction
      <4>4. worker[x].job.attempt < MaxAttempts
        BY <4>2 DEF Retry
      <4>5. QED
        BY <1>0, <4>3, <4>4, AttemptTypes
    <3>3. QED
      BY <1>1, <2>0, <2>3, <3>1, <3>2
  <2>4. QED
    BY <2>1, <2>2, <2>3
<1>10. RetriesBounded'
  <2>1. row.status = "PENDING" => row.attempt <= MaxAttempts
    BY <1>0, AttemptTypes DEF DecisionWithinBudget
  <2>2. QED
    BY <1>0, <1>1, <2>1 DEF RetriesBounded
<1>11. QED
  BY <1>4, <1>5, <1>6, <1>7, <1>8, <1>9, <1>10

\* Steps in which every pass stays where it is, drops candidates, or leaves its
\* transaction or its claim, while rows are at most removed.
LEMMA AttemptsRest ==
  ASSUME AttemptInv, TypeOK',
         \A r \in Repositories : request'[r] \in {request[r], NoRequest},
         \A w \in Workers :
           \/ worker'[w] = worker[w]
           \/ /\ worker'[w].phase = "claimCandidate" /\ worker[w].phase = "claimCandidate"
              /\ worker'[w].age = worker[w].age
              /\ worker'[w].candidates \subseteq worker[w].candidates
           \/ /\ worker'[w].phase \in {"completeRead", "failRead"} /\ Claimed(w)
              /\ worker'[w].job = worker[w].job
           \/ worker'[w].phase \in {"idle", "stopped", "claimNextRequest"}
  PROVE  AttemptInv'
<1>1. StaleSnapshotIsNotDue'
  BY SnapshotsKept
<1>2. \A w \in Workers :
        Claimed(w)' => /\ Claimed(w) /\ worker'[w].job = worker[w].job
                       /\ worker'[w].phase \in InTransaction =>
                            /\ worker'[w].phase = worker[w].phase
                            /\ worker'[w].found = worker[w].found
                            /\ worker'[w].error = worker[w].error
                            /\ worker'[w].age = worker[w].age
  BY DEF Claimed, Syncing, Finishing, InTransaction
<1>3. QED
  BY <1>1, <1>2, AttemptsKept

LEMMA CompleteAttempts ==
  ASSUME AttemptInv, TypeOK', NEW w \in Workers, CompleteRequest(w)
  PROVE  AttemptInv'
<1>0. /\ worker \in [Workers -> Worker] /\ request \in [Repositories -> Request]
      /\ worker[w] \in Worker /\ request[RepoOf(w)] \in Request /\ RepoOf(w) \in Repositories
  BY JobTypes DEF AttemptInv, TypeOK
<1>1. CASE worker[w].found = "superseded"
  <2>1. Requeued(request[RepoOf(w)]) \in Request
    BY <1>0, RecordTypes DEF Requeued, Unleased, Request, Attempt, RequestStatus, NoRequest
  <2>2. /\ request' = [request EXCEPT ![RepoOf(w)] = Requeued(request[RepoOf(w)])]
        /\ Deciding(w) /\ EndTransaction(w)
    BY <1>1 DEF CompleteRequest, Deciding, InTransaction
  <2>3. LET row == Requeued(request[RepoOf(w)])
        IN /\ row.id = request[RepoOf(w)].id /\ row.leaseToken = NoToken
           /\ row.status = "PENDING" /\ row.attempt = 0
    BY <1>0 DEF Requeued, Unleased, Request
  <2>4. QED
    BY <2>1, <2>2, <2>3, DecisionMade
<1>2. CASE worker[w].found # "superseded"
  <2>1. \A r \in Repositories : request'[r] \in {request[r], NoRequest}
    BY <1>0, <1>2 DEF CompleteRequest, Worker, Finding
  <2>2. /\ \A v \in Workers : v # w => worker'[v] = worker[v]
        /\ worker'[w].phase = "claimNextRequest"
    BY <1>0, RecordTypes DEF CompleteRequest, EndTransaction, Worker
  <2>3. QED
    BY <2>1, <2>2, AttemptsRest
<1>3. QED
  BY <1>1, <1>2

\* A retry that lies ahead keeps the passes that read the row before away from it.
LEMMA FailAttempts ==
  ASSUME RetriesLieAhead, AttemptInv, TypeOK', NEW w \in Workers, FailRequest(w)
  PROVE  AttemptInv'
<1>0. /\ worker \in [Workers -> Worker] /\ request \in [Repositories -> Request]
      /\ worker[w] \in Worker /\ request[RepoOf(w)] \in Request /\ RepoOf(w) \in Repositories
  BY JobTypes DEF AttemptInv, TypeOK
<1>1. PICK delay \in Delays(worker[w].error) :
        request' = IF worker[w].found = "gone" THEN request
                   ELSE [request EXCEPT ![RepoOf(w)] = FailedRow(w, @, delay - worker[w].age)]
  BY DEF FailRequest
<1>2. CASE worker[w].found = "gone"
  <2>1. /\ \A v \in Workers : v # w => worker'[v] = worker[v]
        /\ worker'[w].phase = "claimNextRequest"
    BY <1>0, RecordTypes DEF FailRequest, EndTransaction, Worker
  <2>2. QED
    BY <1>1, <1>2, <2>1, AttemptsRest
<1>3. CASE worker[w].found # "gone"
  <2> DEFINE row == FailedRow(w, request[RepoOf(w)], delay - worker[w].age)
  <2>1. /\ request' = [request EXCEPT ![RepoOf(w)] = row]
        /\ Deciding(w) /\ EndTransaction(w)
    BY <1>1, <1>3 DEF FailRequest, Deciding, InTransaction
  <2>2. row \in Request
    <3>1. row = request'[RepoOf(w)]
      BY <1>0, <2>1
    <3>2. QED
      BY <1>0, <3>1 DEF TypeOK
  <2>3. row.id = request[RepoOf(w)].id /\ row.leaseToken = NoToken
        /\ row.status \in {"PENDING", "FAILED"}
    BY <1>0 DEF FailedRow, Requeued, Unleased, Request
  <2>4. ASSUME Retry(w), worker[w].found = "current"
        PROVE  row.runAfter > 0
    <3>1. row = request'[RepoOf(w)]
      BY <1>0, <2>1
    <3>2. QED
      BY <2>4, <3>1 DEF RetriesLieAhead
  <2>5. \/ row.attempt = 0
        \/ /\ row.attempt = request[RepoOf(w)].attempt
           /\ row.status = "PENDING" => Retry(w) /\ row.runAfter > 0
    <3>1. worker[w].found \in {"superseded", "current"}
      BY <1>0, <1>3 DEF Worker, Finding
    <3>2. CASE worker[w].found = "superseded"
      BY <1>0, <3>2 DEF FailedRow, Requeued, Unleased, Request
    <3>3. CASE worker[w].found = "current" /\ Retry(w)
      BY <1>0, <2>4, <3>3 DEF FailedRow, Unleased, Request
    <3>4. CASE worker[w].found = "current" /\ ~Retry(w)
      BY <1>0, <3>4 DEF FailedRow, Unleased, Request
    <3>5. QED
      BY <3>1, <3>2, <3>3, <3>4
  <2>6. QED
    BY <2>1, <2>2, <2>3, <2>5, DecisionMade
<1>4. QED
  BY <1>2, <1>3

\* A claimed row has not been tried since the claiming pass read it, and is not in the
\* hands of a finishing transaction that a later pass has taken it over from.
LEMMA ClaimAttempts ==
  ASSUME AttemptInv, TypeOK', NEW w \in Workers, NEW c \in worker[w].candidates,
         NextCandidate(w, c), Claim(w, c)
  PROVE  AttemptInv'
<1> USE DEF AttemptInv
<1> DEFINE r == c.repo
           old == request[r]
           age == worker[w].age
<1>0. /\ request \in [Repositories -> Request] /\ worker \in [Workers -> Worker]
      /\ c \in Candidate /\ r \in Repositories /\ old \in Request /\ age \in Nat /\ age <= MaxStale
      /\ c.attempt \in Nat /\ old.attempt \in Nat /\ old.leaseExpiresAt \in Int
      /\ MaxStale \in Nat /\ MaxAttempts \in Nat /\ SyncLease \in Nat /\ SyncLease > 2 * MaxStale
      /\ \A v \in Workers : RepoOf(v) \in Repositories
  BY AttemptTypes, JobTypes, ConstantsAssumption DEF TypeOK
<1>1. /\ request'[r] = [old EXCEPT !.status = "RUNNING", !.attempt = NextAttempt(old.attempt),
                                   !.leaseToken = w, !.leaseExpiresAt = SyncLease - age]
      /\ \A s \in Repositories : s # r => request'[s] = request[s]
  BY <1>0 DEF Claim
<1>2. /\ request'[r].id = old.id /\ request'[r].status = "RUNNING"
      /\ request'[r].attempt = NextAttempt(old.attempt) /\ request'[r].leaseToken = w
      /\ request'[r].leaseExpiresAt = SyncLease - age
  BY <1>0, <1>1 DEF Request
<1>3. /\ \A v \in Workers : v # w => worker'[v] = worker[v]
      /\ worker'[w].phase = "syncing" /\ worker'[w].job.repo = r
      /\ worker'[w].job.attempt = NextAttempt(c.attempt)
  BY <1>0, RecordTypes DEF Claim, Worker, IdleWorker, Candidate
<1>4. StillDue(w, c) /\ Present(r) /\ old.id = c.id /\ RequestDue(r, age)
  BY DEF Claim, StillDue
<1>5. old.attempt <= c.attempt
  <2>1. ~NotYetDue(old, age)
    BY <1>0, <1>4, AttemptTypes DEF NotYetDue, RequestDue
  <2>2. QED
    BY <1>4, <2>1 DEF StaleSnapshotIsNotDue, NextCandidate
<1>6. SyncLease - age > MaxStale
  BY <1>0
<1>7. ASSUME NEW v \in Workers, Deciding(v)'
      PROVE  v # w /\ Deciding(v) /\ worker'[v] = worker[v] /\ RepoOf(v)' = RepoOf(v)
             /\ Retry(v)' = Retry(v)
  <2>1. v # w /\ worker'[v] = worker[v] /\ RepoOf(v)' = RepoOf(v)
    BY <1>3, <1>7 DEF Deciding, InTransaction, RepoOf
  <2>2. RowIsThere(v)
    <3>1. CASE RepoOf(v) = r
      BY <1>2, <1>4, <1>7, <2>1, <3>1 DEF Deciding, RowIsThere
    <3>2. CASE RepoOf(v) # r
      BY <1>0, <1>1, <1>7, <2>1, <3>2 DEF Deciding, RowIsThere, Present
    <3>3. QED
      BY <3>1, <3>2
  <2>3. QED
    BY <1>7, <2>1, <2>2 DEF Deciding, Retry
<1>8. ASSUME NEW v \in Workers, Deciding(v), RepoOf(v) = r
      PROVE  TokenOf(v) \in {v, NoToken}
  <2>1. SUFFICES ASSUME TokenOf(v) \notin {v, NoToken}
                 PROVE  FALSE
    OBVIOUS
  <2>2. old.leaseExpiresAt > MaxStale - worker[v].age /\ old.status = "RUNNING"
    BY <1>0, <1>8, <2>1 DEF TakeoverOutlastsDecision, TokenMeansRunning, TokenOf
  <2>3. old.leaseExpiresAt + age <= 0
    BY <1>4, <2>2 DEF RequestDue
  <2>4. QED
    BY <1>0, <2>2, <2>3, AttemptTypes
<1>9. TokenMeansRunning'
  BY <1>1, <1>2, ConstantsAssumption DEF TokenMeansRunning
<1>10. OwnAttemptCounts'
  <2> SUFFICES ASSUME NEW v \in Workers, Claimed(v)', RowIsThere(v)', TokenOf(v)' = v
               PROVE  request'[RepoOf(v)'].attempt <= worker'[v].job.attempt
    BY DEF OwnAttemptCounts
  <2>1. CASE v = w
    BY <1>0, <1>2, <1>3, <1>5, <2>1 DEF RepoOf, NextAttempt
  <2>2. CASE v # w
    <3>1. worker'[v] = worker[v] /\ RepoOf(v)' = RepoOf(v) /\ Claimed(v)
      BY <1>3, <2>2 DEF RepoOf, Claimed
    <3>2. RepoOf(v) # r
      BY <1>2, <2>2, <3>1 DEF TokenOf
    <3>3. QED
      BY <1>0, <1>1, <3>1, <3>2 DEF OwnAttemptCounts, TokenOf, RowIsThere, Present
  <2>3. QED
    BY <2>1, <2>2
<1>11. StaleSnapshotIsNotDue'
  <2> SUFFICES ASSUME NEW v \in Workers, worker'[v].phase = "claimCandidate",
                      NEW d \in worker'[v].candidates, Present(d.repo)',
                      request'[d.repo].id = d.id
               PROVE  \/ request'[d.repo].attempt <= d.attempt
                      \/ NotYetDue(request'[d.repo], worker'[v].age)
    BY DEF StaleSnapshotIsNotDue
  <2>1. v # w /\ worker'[v] = worker[v] /\ d.repo \in Repositories /\ worker[v].age \in Nat
    BY <1>3, AttemptTypes
  <2>2. CASE d.repo = r
    BY <1>0, <1>2, <1>6, <2>1, <2>2 DEF NotYetDue
  <2>3. CASE d.repo # r
    BY <1>1, <2>1, <2>3 DEF StaleSnapshotIsNotDue, Present
  <2>4. QED
    BY <2>2, <2>3
<1>12. TakeoverOutlastsDecision'
  <2> SUFFICES ASSUME NEW v \in Workers, Deciding(v)', TokenOf(v)' \notin {v, NoToken}
               PROVE  request'[RepoOf(v)'].leaseExpiresAt > MaxStale - worker'[v].age
    BY DEF TakeoverOutlastsDecision
  <2>1. CASE RepoOf(v) = r
    BY <1>0, <1>2, <1>6, <1>7, <2>1, AttemptTypes
  <2>2. CASE RepoOf(v) # r
    BY <1>0, <1>1, <1>7, <2>2 DEF TakeoverOutlastsDecision, TokenOf
  <2>3. QED
    BY <2>1, <2>2
<1>13. OneStaleDecision'
  <2> SUFFICES ASSUME NEW u \in Workers, NEW v \in Workers, u # v, Deciding(u)', Deciding(v)',
                      RepoOf(u)' = RepoOf(v)'
               PROVE  TokenOf(u)' \in {u, v}
    BY DEF OneStaleDecision
  <2>1. /\ Deciding(u) /\ Deciding(v) /\ RepoOf(u) = RepoOf(v)
        /\ TokenOf(v) \in {u, v} /\ TokenOf(u) = TokenOf(v)
    BY <1>7 DEF OneStaleDecision, TokenOf
  <2>2. RepoOf(u) # r
    BY <1>8, <2>1, ConstantsAssumption
  <2>3. QED
    BY <1>0, <1>1, <1>7, <2>1, <2>2 DEF TokenOf
<1>14. DecisionWithinBudget'
  <2> SUFFICES ASSUME NEW v \in Workers, Deciding(v)', Retry(v)'
               PROVE  /\ request'[RepoOf(v)'].attempt <= MaxAttempts
                      /\ (request'[RepoOf(v)'].status = "PENDING"
                            => request'[RepoOf(v)'].attempt < MaxAttempts)
    BY DEF DecisionWithinBudget
  <2>0. Deciding(v) /\ RepoOf(v)' = RepoOf(v) /\ Retry(v)
    BY <1>7
  <2>1. CASE RepoOf(v) # r
    BY <1>0, <1>1, <2>0, <2>1 DEF DecisionWithinBudget
  <2>2. CASE RepoOf(v) = r
    <3>1. CASE old.status = "PENDING"
      <4>1. old.attempt < MaxAttempts
        BY <2>0, <2>2, <3>1 DEF DecisionWithinBudget
      <4>2. QED
        BY <1>0, <1>2, <2>0, <2>2, <4>1 DEF NextAttempt
    <3>2. CASE old.status = "RUNNING"
      <4>1. TokenOf(v) = v
        BY <1>0, <1>8, <2>0, <2>2, <3>2 DEF TokenMeansRunning, TokenOf
      <4>2. old.attempt <= worker[v].job.attempt /\ worker[v].job.attempt < MaxAttempts
        BY <2>0, <2>2, <4>1
           DEF OwnAttemptCounts, Deciding, Claimed, Finishing, InTransaction, Retry
      <4>3. QED
        BY <1>0, <1>2, <2>0, <2>2, <4>2, AttemptTypes DEF NextAttempt
    <3>3. QED
      BY <1>4, <3>1, <3>2 DEF RequestDue
  <2>3. QED
    BY <2>1, <2>2
<1>15. RetriesBounded'
  BY <1>1, <1>2 DEF RetriesBounded
<1>16. QED
  BY <1>9, <1>10, <1>11, <1>12, <1>13, <1>14, <1>15

\* An upsert gives a waiting row all of its attempts back and leaves a running one alone.
LEMMA UpsertedAttempts ==
  ASSUME AttemptInv, NEW r \in Repositories, NEW delay
  PROVE  LET new == UpsertedRow(r, delay)
         IN \/ /\ request[r].status = "RUNNING" /\ new.status = "RUNNING"
               /\ new.attempt = request[r].attempt /\ new.id = request[r].id
               /\ new.leaseToken = request[r].leaseToken
               /\ new.leaseExpiresAt = request[r].leaseExpiresAt
            \/ /\ request[r].leaseToken = NoToken /\ new.leaseToken = NoToken
               /\ new.status = "PENDING" /\ new.attempt = 0
<1>1. request[r] \in Request /\ NoRequest.leaseToken = NoToken /\ NoRequest.attempt = 0
  BY AttemptTypes DEF AttemptInv, NoRequest
<1>2. request[r].status = "RUNNING" \/ request[r].leaseToken = NoToken
  BY DEF AttemptInv, TokenMeansRunning
<1>3. CASE ~Present(r)
  BY <1>1, <1>2, <1>3, RecordTypes DEF UpsertedRow, Request, Present
<1>4. CASE Present(r)
  BY <1>1, <1>2, <1>4 DEF UpsertedRow, Request
<1>5. QED
  BY <1>3, <1>4

LEMMA EnqueueAttempts ==
  ASSUME AttemptInv, TypeOK', NEW r \in Repositories, NEW delay \in Nat,
         EnqueueRepository(r, delay)
  PROVE  AttemptInv'
<1> USE DEF AttemptInv
<1> DEFINE old == request[r]
           new == request'[r]
<1>0. /\ request \in [Repositories -> Request] /\ MaxAttempts > 0 /\ MaxAttempts \in Nat
      /\ \A w \in Workers : worker[w] \in Worker /\ RepoOf(w) \in Repositories
  BY JobTypes, AttemptTypes DEF TypeOK
<1>1. new = UpsertedRow(r, delay) /\ \A s \in Repositories : s # r => request'[s] = request[s]
  BY <1>0 DEF EnqueueRepository
<1>2. \/ /\ old.status = "RUNNING" /\ new.status = "RUNNING" /\ new.attempt = old.attempt
         /\ new.id = old.id /\ new.leaseToken = old.leaseToken
         /\ new.leaseExpiresAt = old.leaseExpiresAt
      \/ /\ old.leaseToken = NoToken /\ new.leaseToken = NoToken
         /\ new.status = "PENDING" /\ new.attempt = 0
  BY <1>1, UpsertedAttempts
<1>3. ASSUME NEW w \in Workers
      PROVE  /\ RepoOf(w)' = RepoOf(w) /\ worker'[w].age = worker[w].age
             /\ worker'[w].phase = worker[w].phase
             /\ worker'[w].job.attempt = worker[w].job.attempt
             /\ Claimed(w)' = Claimed(w)
             /\ Claimed(w) /\ RowIsThere(w)' => RowIsThere(w)
             /\ Deciding(w)' => Deciding(w)
             /\ Retry(w)' = Retry(w)
             /\ TokenOf(w)' = request'[RepoOf(w)].leaseToken
  <2>1. /\ worker'[w].phase = worker[w].phase /\ worker'[w].found = worker[w].found
        /\ worker'[w].error = worker[w].error /\ worker'[w].age = worker[w].age
        /\ RepoOf(w)' = RepoOf(w) /\ worker'[w].job.attempt = worker[w].job.attempt
        /\ Claimed(w) /\ RowIsThere(w)' => RowIsThere(w)
    BY EnqueueKeepsJobs
  <2>2. Claimed(w)' = Claimed(w) /\ Retry(w)' = Retry(w)
        /\ TokenOf(w)' = request'[RepoOf(w)].leaseToken
    BY <2>1 DEF Claimed, Retry, TokenOf
  <2>3. Deciding(w)' => Deciding(w)
    BY <2>1 DEF Deciding, Claimed, Finishing, InTransaction
  <2>4. QED
    BY <2>1, <2>2, <2>3
<1>4. TokenMeansRunning'
  BY <1>1, <1>2 DEF TokenMeansRunning
<1>5. RetriesBounded'
  BY <1>0, <1>1, <1>2 DEF RetriesBounded
<1>6. OwnAttemptCounts'
  <2> SUFFICES ASSUME NEW w \in Workers, Claimed(w), RowIsThere(w), TokenOf(w)' = w
               PROVE  request'[RepoOf(w)].attempt <= worker[w].job.attempt
    BY <1>3 DEF OwnAttemptCounts
  <2>1. TokenOf(w) = w /\ request'[RepoOf(w)].attempt = request[RepoOf(w)].attempt
    BY <1>0, <1>1, <1>2, <1>3, ConstantsAssumption DEF TokenOf
  <2>2. QED
    BY <2>1 DEF OwnAttemptCounts
<1>7. StaleSnapshotIsNotDue'
  <2> SUFFICES ASSUME NEW w \in Workers, worker'[w].phase = "claimCandidate",
                      NEW d \in worker'[w].candidates, Present(d.repo)',
                      request'[d.repo].id = d.id
               PROVE  \/ request'[d.repo].attempt <= d.attempt
                      \/ NotYetDue(request'[d.repo], worker'[w].age)
    BY DEF StaleSnapshotIsNotDue
  <2>1. worker'[w].candidates = {Overtake(c, r) : c \in worker[w].candidates}
    BY <1>0 DEF EnqueueRepository, Worker
  <2>2. PICK c \in worker[w].candidates : d = Overtake(c, r)
    BY <2>1
  <2>3. c \in Candidate /\ c.repo \in Repositories /\ c.attempt \in Nat
    BY AttemptTypes
  <2>4. d.repo = c.repo /\ d.id = c.id /\ d.attempt = c.attempt
    BY <2>2, <2>3 DEF Overtake, Candidate
  <2>5. worker[w].phase = "claimCandidate" /\ worker'[w].age = worker[w].age
    BY <1>3
  <2>6. CASE c.repo # r
    BY <1>1, <2>3, <2>4, <2>5, <2>6 DEF StaleSnapshotIsNotDue, Present
  <2>7. CASE c.repo = r /\ new.attempt = 0
    BY <2>3, <2>4, <2>7
  <2>8. CASE c.repo = r /\ new.attempt # 0
    <3>1. /\ old.status = "RUNNING" /\ new.status = "RUNNING" /\ new.attempt = old.attempt
          /\ new.id = old.id /\ new.leaseExpiresAt = old.leaseExpiresAt
      BY <1>2, <2>8
    <3>2. old.attempt <= c.attempt \/ NotYetDue(old, worker[w].age)
      BY <2>4, <2>5, <2>8, <3>1 DEF StaleSnapshotIsNotDue, Present
    <3>3. QED
      BY <2>4, <2>5, <2>8, <3>1, <3>2 DEF NotYetDue
  <2>9. QED
    BY <2>6, <2>7, <2>8
<1>8. TakeoverOutlastsDecision'
  <2> SUFFICES ASSUME NEW w \in Workers, Deciding(w), TokenOf(w)' \notin {w, NoToken}
               PROVE  request'[RepoOf(w)].leaseExpiresAt > MaxStale - worker[w].age
    BY <1>3 DEF TakeoverOutlastsDecision
  <2>1. /\ TokenOf(w)' = TokenOf(w)
        /\ request'[RepoOf(w)].leaseExpiresAt = request[RepoOf(w)].leaseExpiresAt
    BY <1>0, <1>1, <1>2, <1>3 DEF TokenOf
  <2>2. QED
    BY <2>1 DEF TakeoverOutlastsDecision
<1>9. OneStaleDecision'
  <2> SUFFICES ASSUME NEW v \in Workers, NEW w \in Workers, v # w, Deciding(v), Deciding(w),
                      RepoOf(v) = RepoOf(w)
               PROVE  TokenOf(w)' \in {v, w}
    BY <1>3 DEF OneStaleDecision
  <2>1. TokenOf(w) \in {v, w}
    BY DEF OneStaleDecision
  <2>2. TokenOf(w)' = TokenOf(w)
    BY <1>0, <1>1, <1>2, <1>3, <2>1, ConstantsAssumption DEF TokenOf
  <2>3. QED
    BY <2>1, <2>2
<1>10. DecisionWithinBudget'
  <2> SUFFICES ASSUME NEW w \in Workers, Deciding(w), Retry(w)
               PROVE  /\ request'[RepoOf(w)].attempt <= MaxAttempts
                      /\ (request'[RepoOf(w)].status = "PENDING"
                            => request'[RepoOf(w)].attempt < MaxAttempts)
    BY <1>3 DEF DecisionWithinBudget
  <2>1. CASE RepoOf(w) = r /\ new.attempt = 0
    BY <1>0, <2>1
  <2>2. CASE RepoOf(w) # r \/ new.attempt # 0
    <3>1. /\ request'[RepoOf(w)].attempt = request[RepoOf(w)].attempt
          /\ request'[RepoOf(w)].status = request[RepoOf(w)].status
      BY <1>0, <1>1, <1>2, <2>2
    <3>2. QED
      BY <3>1 DEF DecisionWithinBudget
  <2>3. QED
    BY <2>1, <2>2
<1>11. QED
  BY <1>4, <1>5, <1>6, <1>7, <1>8, <1>9, <1>10

\* Whoever finds its row in the finishing transaction still holds it.
LEMMA FindAttempts ==
  ASSUME AttemptInv, TypeOK', NEW w \in Workers, FindUnique(w)
  PROVE  AttemptInv'
<1> USE DEF AttemptInv
<1>0. /\ worker \in [Workers -> Worker] /\ \A v \in Workers : worker[v] \in Worker
      /\ \A v \in Workers : RepoOf(v) \in Repositories
  BY JobTypes DEF TypeOK
<1>1. /\ request' = request
      /\ \A v \in Workers : v # w => worker'[v] = worker[v]
      /\ Claimed(w) /\ worker'[w].job = worker[w].job /\ worker'[w].error = worker[w].error
      /\ worker'[w].phase \in InTransaction
      /\ worker'[w].found # "gone" => RowIsThere(w) /\ TokenOf(w) = w
  BY <1>0 DEF FindUnique, Worker, Claimed, Finishing, InTransaction, TokenOf
<1>2. \A v \in Workers : /\ Claimed(v)' => Claimed(v)
                         /\ RepoOf(v)' = RepoOf(v) /\ RowIsThere(v)' = RowIsThere(v)
                         /\ TokenOf(v)' = TokenOf(v) /\ worker'[v].job = worker[v].job
                         /\ Retry(v)' = Retry(v)
  BY <1>1 DEF Claimed, RepoOf, RowIsThere, Present, TokenOf, Retry
<1>3. ASSUME NEW v \in Workers, Deciding(v)'
      PROVE  \/ v = w /\ TokenOf(w) = w /\ RowIsThere(w)
             \/ v # w /\ Deciding(v) /\ worker'[v] = worker[v]
  BY <1>1, <1>2, <1>3 DEF Deciding
<1>4. TokenMeansRunning' /\ RetriesBounded'
  BY <1>1 DEF TokenMeansRunning, RetriesBounded
<1>5. OwnAttemptCounts'
  BY <1>1, <1>2 DEF OwnAttemptCounts
<1>6. StaleSnapshotIsNotDue'
  <2>1. ASSUME NEW v \in Workers, worker'[v].phase = "claimCandidate"
        PROVE  worker'[v] = worker[v]
    BY <1>1, <2>1 DEF InTransaction
  <2>2. QED
    BY <1>1, <2>1 DEF StaleSnapshotIsNotDue, Present
<1>7. TakeoverOutlastsDecision'
  BY <1>1, <1>2, <1>3 DEF TakeoverOutlastsDecision
<1>8. OneStaleDecision'
  <2> SUFFICES ASSUME NEW u \in Workers, NEW v \in Workers, u # v, Deciding(u)', Deciding(v)',
                      RepoOf(u) = RepoOf(v)
               PROVE  TokenOf(u) \in {u, v}
    BY <1>2 DEF OneStaleDecision
  <2>1. TokenOf(u) = TokenOf(v)
    BY DEF TokenOf
  <2>2. QED
    BY <1>3, <2>1 DEF OneStaleDecision
<1>9. DecisionWithinBudget'
  <2> SUFFICES ASSUME NEW v \in Workers, Deciding(v)', Retry(v)
               PROVE  /\ request[RepoOf(v)].attempt <= MaxAttempts
                      /\ (request[RepoOf(v)].status = "PENDING"
                            => request[RepoOf(v)].attempt < MaxAttempts)
    BY <1>1, <1>2 DEF DecisionWithinBudget
  <2>1. CASE v = w
    <3>1. request[RepoOf(w)].attempt <= worker[w].job.attempt /\ worker[w].job.attempt < MaxAttempts
      BY <1>1, <1>3, <2>1 DEF OwnAttemptCounts, Retry
    <3>2. QED
      BY <1>0, <2>1, <3>1, AttemptTypes
  <2>2. CASE v # w
    BY <1>3, <2>2 DEF DecisionWithinBudget
  <2>3. QED
    BY <2>1, <2>2
<1>10. QED
  BY <1>4, <1>5, <1>6, <1>7, <1>8, <1>9

LEMMA ReadAttempts ==
  ASSUME AttemptInv, TypeOK', NEW w \in Workers, ReadCandidates(w)
  PROVE  AttemptInv'
<1>0. worker \in [Workers -> Worker]
  BY DEF AttemptInv, TypeOK
<1>1. PICK batch \in SUBSET Repositories :
        worker' = [worker EXCEPT ![w] =
          IF batch = {} THEN IdleWorker
          ELSE [IdleWorker EXCEPT !.phase = "claimCandidate",
                                  !.candidates = {Snapshot(r) : r \in batch}]]
  BY DEF ReadCandidates, FirstBatches
<1>2. request' = request /\ \A v \in Workers : v # w => worker'[v] = worker[v]
  BY <1>0, <1>1 DEF ReadCandidates
<1>3. /\ worker'[w].phase \in {"idle", "claimCandidate"}
      /\ worker'[w].candidates \subseteq {Snapshot(r) : r \in batch}
  BY <1>0, <1>1, RecordTypes DEF Worker, IdleWorker
<1>4. StaleSnapshotIsNotDue'
  <2> SUFFICES ASSUME NEW v \in Workers, worker'[v].phase = "claimCandidate",
                      NEW c \in worker'[v].candidates, Present(c.repo), request[c.repo].id = c.id
               PROVE  \/ request[c.repo].attempt <= c.attempt
                      \/ NotYetDue(request[c.repo], worker'[v].age)
    BY <1>2 DEF StaleSnapshotIsNotDue, Present
  <2>1. CASE v = w
    <3>1. PICK r \in batch : c = Snapshot(r)
      BY <1>3, <2>1
    <3>2. r \in Repositories /\ c.repo = r /\ c.attempt = request[r].attempt
      BY <3>1 DEF Snapshot
    <3>3. QED
      BY <3>2, AttemptTypes DEF AttemptInv
  <2>2. CASE v # w
    BY <1>2, <2>2 DEF AttemptInv, StaleSnapshotIsNotDue
  <2>3. QED
    BY <2>1, <2>2
<1>5. \A v \in Workers : Claimed(v)' => worker'[v] = worker[v] /\ Claimed(v)
  BY <1>2, <1>3 DEF Claimed, Syncing, Finishing
<1>6. QED
  BY <1>2, <1>4, <1>5, AttemptsKept

\* Time passes alike for the instants in the rows and for the clocks passes hold.
LEMMA TickAttempts ==
  ASSUME AttemptInv, TypeOK', Tick
  PROVE  AttemptInv'
<1> USE DEF AttemptInv
<1>0. /\ \A w \in Workers : /\ worker[w] \in Worker /\ worker[w].age \in Nat
                            /\ RepoOf(w) \in Repositories
      /\ \A r \in Repositories : /\ request[r] \in Request /\ request[r].runAfter \in Int
                                 /\ request[r].leaseExpiresAt \in Int
      /\ MaxStale \in Nat
  BY JobTypes, AttemptTypes
<1>1. \A r \in Repositories :
        /\ request'[r].status = request[r].status /\ request'[r].id = request[r].id
        /\ request'[r].attempt = request[r].attempt
        /\ request'[r].leaseToken = request[r].leaseToken
        /\ request'[r].runAfter = Later(request[r].runAfter)
        /\ request'[r].leaseExpiresAt = Later(request[r].leaseExpiresAt)
  BY <1>0 DEF Tick, Request
<1>2. \A w \in Workers :
        /\ worker'[w].phase = worker[w].phase /\ worker'[w].job = worker[w].job
        /\ worker'[w].found = worker[w].found /\ worker'[w].error = worker[w].error
        /\ worker'[w].candidates = worker[w].candidates
        /\ HoldsClock(w) => worker'[w].age = worker[w].age + 1 /\ worker[w].age < MaxStale
  BY <1>0 DEF Tick, Worker
<1>3. \A w \in Workers : /\ Claimed(w)' = Claimed(w) /\ RepoOf(w)' = RepoOf(w)
                         /\ RowIsThere(w)' = RowIsThere(w) /\ Deciding(w)' = Deciding(w)
                         /\ TokenOf(w)' = TokenOf(w) /\ Retry(w)' = Retry(w)
  BY <1>0, <1>1, <1>2 DEF Claimed, RepoOf, RowIsThere, Present, Deciding, TokenOf, Retry
<1>4. TokenMeansRunning' /\ RetriesBounded'
  BY <1>1 DEF TokenMeansRunning, RetriesBounded
<1>5. OwnAttemptCounts'
  BY <1>0, <1>1, <1>2, <1>3 DEF OwnAttemptCounts
<1>6. StaleSnapshotIsNotDue'
  <2> SUFFICES ASSUME NEW w \in Workers, worker[w].phase = "claimCandidate",
                      NEW c \in worker[w].candidates, Present(c.repo)',
                      request'[c.repo].id = c.id
               PROVE  \/ request'[c.repo].attempt <= c.attempt
                      \/ NotYetDue(request'[c.repo], worker'[w].age)
    BY <1>2 DEF StaleSnapshotIsNotDue
  <2>1. c.repo \in Repositories
    BY AttemptTypes
  <2>2. \/ request[c.repo].attempt <= c.attempt
        \/ NotYetDue(request[c.repo], worker[w].age)
    BY <1>1, <2>1 DEF StaleSnapshotIsNotDue, Present
  <2>3. worker'[w].age = worker[w].age + 1 /\ worker[w].age < MaxStale
    BY <1>2 DEF HoldsClock
  <2>4. ASSUME NotYetDue(request[c.repo], worker[w].age)
        PROVE  NotYetDue(request'[c.repo], worker'[w].age)
    BY <1>0, <1>1, <2>1, <2>3, <2>4 DEF NotYetDue, Later, Past
  <2>5. QED
    BY <1>1, <2>1, <2>2, <2>4
<1>7. TakeoverOutlastsDecision'
  <2> SUFFICES ASSUME NEW w \in Workers, Deciding(w), TokenOf(w) \notin {w, NoToken}
               PROVE  request'[RepoOf(w)].leaseExpiresAt > MaxStale - worker'[w].age
    BY <1>3 DEF TakeoverOutlastsDecision
  <2>1. request[RepoOf(w)].leaseExpiresAt > MaxStale - worker[w].age
    BY DEF TakeoverOutlastsDecision
  <2>2. worker'[w].age = worker[w].age + 1 /\ worker[w].age < MaxStale
    BY <1>2 DEF HoldsClock, Deciding
  <2>3. QED
    BY <1>0, <1>1, <2>1, <2>2 DEF Later, Past
<1>8. OneStaleDecision'
  BY <1>3 DEF OneStaleDecision
<1>9. DecisionWithinBudget'
  BY <1>0, <1>1, <1>3 DEF DecisionWithinBudget
<1>10. QED
  BY <1>4, <1>5, <1>6, <1>7, <1>8, <1>9

\* Steps that only end passes, move them on, or remove rows.
LEMMA RestingSteps ==
  ASSUME AttemptInv, TypeOK',
         \/ \E w \in Workers : \/ StartPass(w) \/ SyncSucceeds(w) \/ SyncThrows(w)
                               \/ CompleteRequestThrows(w) \/ FailRequestThrows(w)
                               \/ PassAborts(w)
                               \/ \E c \in worker[w].candidates : NextCandidate(w, c) /\ Pass(w, c)
         \/ StartReconciliation \/ ReconciliationAborts \/ Administer
  PROVE  AttemptInv'
<1>0. worker \in [Workers -> Worker] /\ request \in [Repositories -> Request]
  BY DEF AttemptInv, TypeOK
<1>1. CASE StartReconciliation \/ ReconciliationAborts \/ Administer
  <2>1. worker' = worker /\ \A r \in Repositories : request'[r] \in {request[r], NoRequest}
    BY <1>0, <1>1 DEF StartReconciliation, ReconciliationAborts, Administer,
                      SetRepositoryEnabled, SetAccountEnabled, RemoveAccount
  <2>2. QED
    BY <2>1, AttemptsRest
<1>2. ASSUME NEW w \in Workers, StartPass(w)
      PROVE  AttemptInv'
  BY <1>0, <1>2, AttemptsRest DEF StartPass, Worker
<1>3. ASSUME NEW w \in Workers, SyncSucceeds(w) \/ CompleteRequestThrows(w)
      PROVE  AttemptInv'
  <2>1. /\ request' = request /\ \A v \in Workers : v # w => worker'[v] = worker[v]
        /\ worker'[w].phase \in {"completeRead", "failRead"} /\ worker'[w].job = worker[w].job
        /\ Claimed(w)
    <3>1. CASE SyncSucceeds(w)
      BY <1>0, <3>1 DEF SyncSucceeds, Worker, Claimed, Syncing
    <3>2. CASE CompleteRequestThrows(w)
      BY <1>0, <3>2 DEF CompleteRequestThrows, Worker, Claimed, Finishing
    <3>3. QED
      BY <1>3, <3>1, <3>2
  <2>2. QED
    BY <2>1, AttemptsRest
<1>4. ASSUME NEW w \in Workers, SyncThrows(w)
      PROVE  AttemptInv'
  <2>1. PICK error \in Verdict :
          worker' = [worker EXCEPT ![w].phase = "failRead", ![w].error = error]
    BY <1>4 DEF SyncThrows
  <2>2. /\ request' = request /\ \A v \in Workers : v # w => worker'[v] = worker[v]
        /\ worker'[w].phase = "failRead" /\ worker'[w].job = worker[w].job /\ Claimed(w)
    BY <1>0, <1>4, <2>1 DEF SyncThrows, Worker, Claimed, Syncing
  <2>3. QED
    BY <2>2, AttemptsRest
<1>5. ASSUME NEW w \in Workers, FailRequestThrows(w) \/ PassAborts(w)
      PROVE  AttemptInv'
  <2>1. /\ request' = request /\ \A v \in Workers : v # w => worker'[v] = worker[v]
        /\ worker'[w].phase \in {"idle", "stopped"}
    BY <1>0, <1>5, RecordTypes DEF FailRequestThrows, PassAborts, IdleWorker, Worker
  <2>2. QED
    BY <2>1, AttemptsRest
<1>6. ASSUME NEW w \in Workers, NEW c \in worker[w].candidates, NextCandidate(w, c), Pass(w, c)
      PROVE  AttemptInv'
  <2>1. request' = request /\ \A v \in Workers : v # w => worker'[v] = worker[v]
    BY <1>0, <1>6 DEF Pass
  <2>2. CASE worker[w].candidates \ {c} = {}
    <3>1. worker'[w] = IdleWorker /\ IdleWorker.phase = "idle"
      BY <1>0, <1>6, <2>2 DEF Pass, IdleWorker
    <3>2. QED
      BY <2>1, <3>1, AttemptsRest
  <2>3. CASE worker[w].candidates \ {c} # {}
    <3>1. /\ worker'[w].phase = worker[w].phase /\ worker'[w].age = worker[w].age
          /\ worker'[w].candidates \subseteq worker[w].candidates
      BY <1>0, <1>6, <2>3 DEF Pass, Worker
    <3>2. QED
      BY <1>6, <2>1, <3>1, AttemptsRest DEF NextCandidate
  <2>4. QED
    BY <2>2, <2>3
<1>7. QED
  BY <1>1, <1>2, <1>3, <1>4, <1>5, <1>6

LEMMA AttemptNext == AttemptInv /\ [Next]_vars /\ [RetriesLieAhead]_vars => AttemptInv'
<1> SUFFICES ASSUME AttemptInv, [Next]_vars, [RetriesLieAhead]_vars
             PROVE  AttemptInv'
  OBVIOUS
<1>1. TypeOK'
  BY NextType DEF AttemptInv
<1>2. CASE UNCHANGED vars
  BY <1>1, <1>2, AttemptsRest DEF vars
<1>3. CASE Webhook \/ Manual \/ \E r \in Repositories : ReconcileRepository(r)
  BY <1>1, <1>3, EnqueueAttempts, ConstantsAssumption
     DEF Webhook, EnqueueWebhookRepository, Manual, EnqueueRepositorySync, ReconcileRepository
<1>4. CASE Tick
  BY <1>1, <1>4, TickAttempts
<1>5. CASE \/ StartReconciliation \/ ReconciliationAborts \/ Administer \/ Abort
  BY <1>1, <1>5, RestingSteps DEF Abort
<1>6. ASSUME NEW w \in Workers, WorkerStep(w)
      PROVE  AttemptInv'
  <2>1. CASE RetriesLieAhead
    BY <1>1, <1>6, <2>1, RestingSteps, ClaimAttempts, ReadAttempts, FindAttempts,
       CompleteAttempts, FailAttempts DEF WorkerStep, ClaimCandidate
  <2>2. QED
    BY <1>2, <2>1
<1>7. QED
  BY <1>2, <1>3, <1>4, <1>5, <1>6 DEF Next, Reconcile, Serve

\* A row that waits for another try (markRequestFailed returned it to PENDING) has used at
\* most MaxAttempts of them, however stale the attempt number the decision was taken from,
\* and however many passes overlap, crash or outlive their lease, in every behaviour whose
\* retries are in the database before they are due. It bounds the retries of failures only:
\* a RUNNING row whose lease has expired is taken over without a limit.
THEOREM RetryBudget == Spec /\ [][RetriesLieAhead]_vars => []RetriesBounded
<1>1. AttemptInv => RetriesBounded
  BY DEF AttemptInv
<1>2. QED
  BY <1>1, AttemptInit, AttemptNext, PTL DEF Spec
=============================================================================
