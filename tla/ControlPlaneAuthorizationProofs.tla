-------------------- MODULE ControlPlaneAuthorizationProofs -------------------
(***************************************************************************)
(* Proofs about authorization, second part: what each statement of a       *)
(* request changes, what every step keeps of the invariant, and the        *)
(* theorems.                                                               *)
(***************************************************************************)
EXTENDS ControlPlaneAccessProofs

LOCAL INSTANCE SequencesExt
LOCAL INSTANCE SequenceTheorems
-----------------------------------------------------------------------------
(***************************************************************************)
(* What a step of a request may change.                                    *)
(***************************************************************************)
Authorized(q) ==
  \/ witness'[q].admin
  \/ /\ db'.settings = db.settings
     /\ \A t \in ToSet(Tables) : \A i \in Changed(t) :
          \/ Call(q).op \in DOMAIN Unauthenticated /\ t \in Unauthenticated[Call(q).op]
          \/ t = "users" /\ i = UserOf(q).id
          \/ t = "tokens" /\ (IF i \in DOMAIN db.tokens THEN db ELSE db').tokens[i].user = UserOf(q).id
          \/ t \in {"channels", "rules", "links", "deliveries"} /\ Either(t, i) \in witness'[q].manages
StepOk(q) == Advances(q) /\ TablesStep /\ RequestOk(q)' /\ Authorized(q)

LEMMA ReadOk ==
  ASSUME NEW q, Runs(q), UNCHANGED db, Advances(q), RequestOk(q)'
  PROVE  StepOk(q)
<1>1. TablesStep
  BY NothingWritten DEF Runs, AccessInv
<1>2. \A t \in ToSet(Tables) : Changed(t) = {}
  BY DEF Changed
<1> QED  BY <1>1, <1>2 DEF StepOk, Authorized

\* A statement of a handler for administrators.
LEMMA AdminOk ==
  ASSUME NEW q, Runs(q), Advances(q), TablesStep, Head(Rest(q)) \in AdminStatements \cup {"ExchangeCode"}
  PROVE  StepOk(q)
<1> DEFINE s == Head(Rest(q))
<1>1. s \notin Authenticators \cup Leading
  BY DEF AdminStatements, Authenticators, Leading, Finding
<1>2. /\ s \in Statements(Op(q)) /\ Grows(q) /\ RequestOk(q) /\ (UserOf(q) = Nobody <=> Op(q) \in AnonymousOps)
  BY <1>1, RunsWith
<1>3. Op(q) \in AdminOps \cup {"callback"}
  BY <1>2, StatementOwners
<1>4. RequestOk(q)'
  BY <1>1, <1>3, PrivilegedKept
<1>5. witness'[q].admin
  <2>1. UserOf(q) # Nobody
    BY <1>2, <1>3, StatementsAre
  <2> QED  BY <1>2, <1>3, <2>1 DEF RequestOk, UserOk, Grows
<1> QED  BY <1>4, <1>5 DEF StepOk, Authorized

\* A statement of a request that needs no authentication.
LEMMA AnonymousOk ==
  ASSUME NEW q, Runs(q), Advances(q), TablesStep, Op(q) \in AnonymousOps,
         Head(Rest(q)) \notin Authenticators \cup Leading, db'.settings = db.settings,
         \A t \in ToSet(Tables) : Changed(t) # {} => Op(q) \in DOMAIN Unauthenticated /\ t \in Unauthenticated[Op(q)]
  PROVE  StepOk(q)
<1>1. RequestOk(q)'
  BY PrivilegedKept
<1>2. Authorized(q)
  BY DEF Authorized, Op
<1> QED  BY <1>1, <1>2 DEF StepOk

LEMMA NothingOk ==
  ASSUME NEW q, Runs(q), Advances(q), UNCHANGED db
  PROVE  TablesStep /\ db'.settings = db.settings /\ \A t \in ToSet(Tables) : Changed(t) = {}
<1>1. TablesStep
  BY NothingWritten DEF Runs, AccessInv
<1> QED  BY <1>1 DEF Changed

\* Users and settings.
LEMMA UsersOk ==
  ASSUME NEW q, Runs(q), ReadUsers(q) \/ CreateUser(q) \/ RemoveUser(q) \/ UpsertSettings(q)
  PROVE  StepOk(q)
<1>1. Head(Rest(q)) \in AdminStatements
  BY DEF ReadUsers, CreateUser, RemoveUser, UpsertSettings, At, Rest, AdminStatements
<1>2. CASE ReadUsers(q)
  <2>1. Advances(q) /\ UNCHANGED db
    BY <1>2, Becomes DEF ReadUsers
  <2> QED  BY <1>1, <2>1, NothingOk, AdminOk
<1>3. CASE CreateUser(q)
  <2> DEFINE row == User(Input(q).username, Input(q).password, Input(q).role)
             reply == [items |-> {UserDto(db', q)}]
  <2>1. WellFormed("users", row)
    BY FixedAre DEF WellFormed, User
  <2>2. Op(q) \in Creators["users"] /\ Tail(Rest(q)) = <<>>
    BY <1>3, FirstRunRests, CreatorsAre DEF CreateUser, Runs, IInv, Op, Rest, CreatingOps
  <2>3. "users" \in ToSet(Tables) \ {"links"}
    BY TablesAre
  <2>4. Create(q, "users", row, reply)
    BY <1>3 DEF CreateUser
  <2> HIDE DEF row, reply
  <2>5. Advances(q) /\ TablesStep
    BY <2>1, <2>2, <2>3, <2>4, CreateWritten
  <2> QED  BY <1>1, <2>5, AdminOk
<1>4. CASE RemoveUser(q)
  <2>1. CASE Refuse(q, "forbidden") /\ UNCHANGED db
    BY <1>1, <2>1, Becomes, NothingOk, AdminOk
  <2>2. CASE Delete(q, "users", Input(q).id)
    <3>1. "users" \in ToSet(Tables) \ {"repositories"}
      BY TablesAre
    <3> QED  BY <1>1, <2>2, <3>1, DeleteWritten, AdminOk
  <2> QED  BY <1>4, <2>1, <2>2 DEF RemoveUser
<1>5. CASE UpsertSettings(q)
  <2> DEFINE settings == Over(Given(Input(q), DOMAIN db.settings), db.settings)
  <2>1. db' = [db EXCEPT !.settings = settings] /\ Advances(q)
    <3>1. \E reply : Answer(q, reply)
      BY <1>5 DEF UpsertSettings
    <3> QED  BY <1>5, <3>1, Becomes DEF UpsertSettings
  <2>2. DOMAIN settings = DOMAIN db.settings
    BY DEF Over, Given
  <2>3. Tidy(db)
    BY DEF Runs, AccessInv
  <2>4. DOMAIN db' = Names /\ DOMAIN db'.settings = DOMAIN db.settings /\ \A t \in ToSet(Tables) : db'[t] = db[t]
    BY <2>1, <2>2, <2>3, TablesAre DEF Tidy, Names
  <2>5. Tidy(db') /\ Keeps(db, db')
    <3>1. \A t \in ToSet(Tables) : DOMAIN db[t] \subseteq DOMAIN db'[t]
      BY <2>4
    <3>2. \A t \in ToSet(Tables) : \A i \in DOMAIN db'[t] : IsSound(db, db', t, i)
      BY <2>4 DEF IsSound
    <3> QED  BY <2>3, <2>4, <3>1, <3>2, RowsTidy, TablesAre DEF Tidy
  <2>6. TablesStep
    <3>1. DOMAIN Creators \subseteq ToSet(Tables) /\ "accounts" \in ToSet(Tables)
      BY CreatorsAre, FixedAre, TablesAre
    <3> QED  BY <2>4, <2>5, <3>1 DEF TablesStep
  <2> QED  BY <1>1, <2>1, <2>6, AdminOk
<1> QED  BY <1>2, <1>3, <1>4, <1>5

\* Repositories and their configuration.
LEMMA RepositoryOk ==
  ASSUME NEW q, Runs(q), RepositoryStep(q)
  PROVE  StepOk(q)
<1> DEFINE s == Head(Rest(q))
<1>0. Advances(q)
  BY RepositoryAdvances DEF Runs, IInv
<1>1. CASE GetReadAbility(q)
  BY <1>1, SightKept, ReadOk
<1>2. CASE ReadRepositories(q) \/ CountRepositories(q) \/ ReadRepository(q)
  BY <1>2, RepositoriesKept, ReadOk
<1>3. CASE RequireRepository(q) \/ ReadFilters(q) \/ FindFilter(q) \/ ReadMemberships(q) \/ FindMember(q)
           \/ FindMembership(q) \/ FindWithAccount(q) \/ AskProvider(q)
  <2>1. UNCHANGED db /\ s \in AdminStatements
    BY <1>3 DEF RequireRepository, ReadFilters, FindFilter, ReadMemberships, FindMember, FindMembership,
                FindWithAccount, AskProvider, Find, FindOwn, At, Rest, AdminStatements
  <2> QED  BY <1>0, <2>1, NothingOk, AdminOk
<1>4. CASE CreateFilter(q)
  <2> DEFINE row == Given(Input(q), {"repository", "mode", "pattern"})
  <2>1. PICK reply : Create(q, "filters", row, reply) /\ s \in AdminStatements
    BY <1>4 DEF CreateFilter, At, Rest, AdminStatements
  <2>2. "filters" \in ToSet(Tables) \ {"links"} /\ "filters" \notin DOMAIN Creators /\ WellFormed("filters", row)
    BY TablesAre, CreatorsAre, FixedAre DEF WellFormed
  <2> HIDE DEF row
  <2> QED  BY <2>1, <2>2, CreateWritten, AdminOk
<1>5. CASE DeleteFilter(q) \/ DeleteMembership(q)
  <2>1. PICK t, id : t \in {"filters", "memberships"} /\ Delete(q, t, id) /\ s \in AdminStatements
    BY <1>5 DEF DeleteFilter, DeleteMembership, At, Rest, AdminStatements
  <2>2. t \in ToSet(Tables) \ {"repositories"} /\ t # "accounts"
    <3>1. t = "filters" \/ t = "memberships"
      BY <2>1
    <3> QED  BY <3>1, TablesAre
  <2> QED  BY <2>1, <2>2, DeleteWritten, AdminOk
<1>6. CASE UpsertMembership(q)
  <2> DEFINE row == Given(Input(q), {"user", "repository", "role"})
  <2>1. PICK m, reply : Put(q, "memberships", m, row, reply) /\ s \in AdminStatements
    BY <1>6 DEF UpsertMembership, At, Rest, AdminStatements
  <2>2. /\ "memberships" \in ToSet(Tables) \ {"links"} /\ "memberships" \notin DOMAIN Creators
        /\ "memberships" \notin DOMAIN Fixed /\ WellFormed("memberships", row)
    BY TablesAre, CreatorsAre, FixedAre DEF WellFormed
  <2> HIDE DEF row
  <2> QED  BY <2>1, <2>2, PutWritten, AdminOk
<1>7. CASE UpdateRepository(q) \/ StoreMetadata(q)
  <2>1. PICK id, fields, reply :
          /\ Update(q, "repositories", id, fields, reply) /\ s \in AdminStatements
          /\ DOMAIN fields \subseteq {"enabled", "retention", "name"}
    <3>1. CASE UpdateRepository(q)
      <4> DEFINE fields == Given(Input(q), {"enabled", "retention"})
      <4>1. DOMAIN fields \subseteq {"enabled", "retention", "name"}
        BY DEF Given
      <4> HIDE DEF fields
      <4> QED  BY <3>1, <4>1 DEF UpdateRepository, At, Rest, AdminStatements, fields
    <3>2. CASE StoreMetadata(q)
      <4> DEFINE fields == [name |-> Found(q).name]
      <4>1. DOMAIN fields \subseteq {"enabled", "retention", "name"}
        OBVIOUS
      <4> HIDE DEF fields
      <4> QED  BY <3>2, <4>1 DEF StoreMetadata, At, Rest, AdminStatements, fields
    <3> QED  BY <1>7, <3>1, <3>2
  <2>2. "repositories" \in ToSet(Tables) \ {"links"} /\ Fixed["repositories"] = "account"
    BY TablesAre, FixedAre
  <2> QED  BY <2>1, <2>2, UpdateWritten, AdminOk
<1>8. CASE EnqueueRepositorySync(q)
  <2>1. s \in AdminStatements
    BY <1>8 DEF EnqueueRepositorySync, At, Rest, AdminStatements
  <2>2. CASE UNCHANGED db
    BY <1>0, <2>1, <2>2, NothingOk, AdminOk
  <2>3. ASSUME NEW r \in DOMAIN db.repositories, db' = WithRow(db, "queue", r, [repository |-> r])
        PROVE  StepOk(q)
    <3> DEFINE row == [repository |-> r]
    <3>1. Refers(db, "queue", row)
      BY RefersTo
    <3>2. /\ "queue" \in ToSet(Tables) \ {"links"} /\ "queue" \notin DOMAIN Creators /\ "queue" \notin DOMAIN Fixed
          /\ WellFormed("queue", row)
      BY TablesAre, CreatorsAre, FixedAre DEF WellFormed
    <3>3. db' = WithRow(db, "queue", r, row)
      BY <2>3
    <3> HIDE DEF row
    <3>4. TablesStep
      BY <1>0, <3>1, <3>2, <3>3, RowWritten
    <3> QED  BY <1>0, <2>1, <3>4, AdminOk
  <2> QED  BY <1>8, <2>2, <2>3 DEF EnqueueRepositorySync
<1> QED  BY <1>1, <1>2, <1>3, <1>4, <1>5, <1>6, <1>7, <1>8 DEF RepositoryStep

-----------------------------------------------------------------------------
\* The delivery and the requests of the queue, for an account that is held.
LEMMA CommitOk ==
  ASSUME NEW q, Runs(q), CommitDelivery(q)
  PROVE  StepOk(q)
<1> DEFINE row == DeliveryRow(q)
           d == WithRow(db, "webhooks", q, row)
           queued == [r \in Found(q) |-> [repository |-> r]]
           queue == Over(queued, db.queue)
<1>1. Advances(q) /\ Head(Rest(q)) = "CommitDelivery" /\ q \in DOMAIN requests /\ At(q, "CommitDelivery")
  <2>1. Answer(q, [duplicate |-> FALSE])
    BY DEF CommitDelivery
  <2> QED  BY <2>1, Becomes DEF CommitDelivery, At, Rest, Runs
<1>2. Head(Rest(q)) \notin Authenticators \cup Leading
  BY <1>1 DEF Authenticators, Leading, Finding
<1>3. Op(q) = "webhook"
  <2>1. Head(Rest(q)) \in Statements(Op(q))
    BY <1>1, <1>2, RunsWith
  <2>2. Op(q) \in AnonymousOps
    BY <1>1, <2>1, StatementOwners
  <2> QED  BY <1>1, <2>1, <2>2, OwnStatementsAre DEF AnonymousOps
<1>4. /\ row.account \in DOMAIN db.accounts
      /\ \A r \in Found(q) : r \in DOMAIN db.repositories
  <2>1. IntakeOk(q)
    BY <1>1, <1>2, RunsWith DEF RequestOk
  <2> QED  BY <1>1, <2>1 DEF IntakeOk, Unfinished, DeliveryRow
<1>5. Tidy(db)
  BY DEF Runs, AccessInv
<1>6. Refers(db, "webhooks", row) /\ WellFormed("webhooks", row)
  BY <1>4, RefersTo, FixedAre DEF WellFormed
<1> HIDE DEF row
<1>7. /\ Tidy(d)
      /\ \A u \in Names \ {"webhooks"} : d[u] = db[u]
      /\ DOMAIN d["webhooks"] = DOMAIN db["webhooks"] \cup {q} /\ d["webhooks"][q] = row
      /\ \A i \in DOMAIN db["webhooks"] \ {q} : d["webhooks"][i] = db["webhooks"][i]
  <2>1. "webhooks" \in ToSet(Tables) \ {"links"} /\ "webhooks" \notin DOMAIN Fixed
    BY TablesAre, FixedAre
  <2> QED  BY <1>5, <1>6, <2>1, RowTidy
<1>8. db' = [d EXCEPT !.queue = queue]
  <2>1. db' = [d EXCEPT !.queue = Over(queued, @)]
    BY DEF CommitDelivery, row
  <2>2. d.queue = db.queue
    BY <1>7, TablesAre DEF Names
  <2> HIDE DEF d, queued
  <2> QED  BY <2>1, <2>2
<1>9. /\ DOMAIN queue = DOMAIN db.queue \cup Found(q)
      /\ \A r \in Found(q) : queue[r] = [repository |-> r]
      /\ \A r \in DOMAIN db.queue \ Found(q) : queue[r] = db.queue[r]
  BY DEF Over
<1> HIDE DEF d, queue, queued
<1>10. /\ DOMAIN db' = Names /\ db'["queue"] = queue /\ db'["webhooks"] = d["webhooks"]
       /\ \A u \in Names \ {"webhooks", "queue"} : db'[u] = db[u]
  <2>1. DOMAIN d = Names /\ "queue" \in Names
    BY <1>7, TablesAre DEF Tidy, Names
  <2> QED  BY <1>7, <1>8, <2>1
<1>11. \A u \in ToSet(Tables) : DOMAIN db[u] \subseteq DOMAIN db'[u]
  BY <1>7, <1>9, <1>10 DEF Names
<1>12. ASSUME NEW u \in ToSet(Tables), NEW i \in DOMAIN db'[u]
       PROVE  IsSound(db, db', u, i)
  <2>1. CASE u \notin {"webhooks", "queue"}
    BY <1>10, <1>12, <2>1 DEF IsSound, Names
  <2>2. CASE u = "webhooks"
    <3>1. i = q => db'[u][i] = row
      BY <1>7, <1>10, <2>2
    <3>2. i # q => i \in DOMAIN db[u] /\ db'[u][i] = db[u][i]
      BY <1>7, <1>10, <1>12, <2>2
    <3>3. "webhooks" \notin DOMAIN Fixed
      BY FixedAre
    <3> QED  BY <1>6, <2>2, <3>1, <3>2, <3>3 DEF IsSound
  <2>3. CASE u = "queue"
    <3>1. CASE i \in Found(q)
      <4>1. db'[u][i] = [repository |-> i] /\ i \in DOMAIN db.repositories
        BY <1>4, <1>9, <1>10, <2>3, <3>1
      <4>2. Refers(db, "queue", db'[u][i]) /\ WellFormed("queue", db'[u][i]) /\ "queue" \notin DOMAIN Fixed
        BY <4>1, RefersTo, FixedAre DEF WellFormed
      <4> QED  BY <2>3, <4>2 DEF IsSound
    <3>2. CASE i \notin Found(q)
      BY <1>9, <1>10, <1>12, <2>3, <3>2 DEF IsSound
    <3> QED  BY <3>1, <3>2
  <2> QED  BY <2>1, <2>2, <2>3
<1>13. "links" \in Names \ {"webhooks", "queue"} /\ "settings" \in Names \ {"webhooks", "queue"}
  BY TablesAre DEF Names
<1>14. Tidy(db') /\ Keeps(db, db')
  <2>1. db'.links = db.links /\ DOMAIN db'.settings \cap {"items", "health"} = {}
    BY <1>5, <1>10, <1>13 DEF Tidy
  <2> QED  BY <1>5, <1>10, <1>11, <1>12, <2>1, RowsTidy
<1>15. TablesStep
  <2>1. \A u \in DOMAIN Creators : db'[u] = db[u]
    BY <1>10, CreatorsAre, TablesAre DEF Names
  <2>2. db'.accounts = db.accounts
    BY <1>10, TablesAre DEF Names
  <2> QED  BY <1>14, <2>1, <2>2 DEF TablesStep
<1>16. db'.settings = db.settings
  BY <1>10, <1>13
<1>17. \A u \in ToSet(Tables) : Changed(u) # {} => u \in {"webhooks", "queue"}
  BY <1>10 DEF Changed, Names
<1>18. Op(q) \in AnonymousOps /\ Op(q) \in DOMAIN Unauthenticated /\ Unauthenticated[Op(q)] = {"webhooks", "queue"}
  BY <1>3 DEF AnonymousOps, Unauthenticated
<1> QED  BY <1>1, <1>2, <1>15, <1>16, <1>17, <1>18, AnonymousOk

\* Provider accounts, OAuth and webhooks.
LEMMA AccountOk ==
  ASSUME NEW q, Runs(q), AccountStep(q)
  PROVE  StepOk(q)
<1> DEFINE s == Head(Rest(q))
<1>0. Advances(q)
  BY AccountAdvances DEF Runs, IInv
<1>1. CASE ReadAccounts(q) \/ RequireAccount(q) \/ Discover(q) \/ ReadTracked(q)
           \/ ValidateCredentials(q) \/ IssueState(q) \/ ExchangeCode(q)
  <2>1. UNCHANGED db /\ s \in AdminStatements \cup {"ExchangeCode"}
    BY <1>1 DEF ReadAccounts, RequireAccount, Discover, ReadTracked, ValidateCredentials, IssueState, ExchangeCode,
                Find, ProviderAnswers, At, Rest, AdminStatements
  <2> QED  BY <1>0, <2>1, NothingOk, AdminOk
<1>2. CASE RequireEnabled(q) \/ DiscoverOne(q)
  <2>1. UNCHANGED db /\ s \in AdminStatements
    BY <1>2 DEF RequireEnabled, DiscoverOne, Find, ProviderAnswers, At, Rest, AdminStatements
  <2> QED  BY <1>0, <2>1, NothingOk, AdminOk
<1>3. CASE CreateAccount(q)
  <2> DEFINE input == IF Call(q).op = "callback" THEN Found(q) ELSE Input(q)
             row == Over([enabled |-> TRUE, token |-> input.token, webhookSecret |-> None],
                         Given(input, {"providerType", "displayName"}))
  <2>1. PICK reply : Create(q, "accounts", row, reply) /\ s \in AdminStatements
    BY <1>3 DEF CreateAccount, At, Rest, AdminStatements
  <2>2. "accounts" \in ToSet(Tables) \ {"links"} /\ "accounts" \notin DOMAIN Creators /\ WellFormed("accounts", row)
    BY TablesAre, CreatorsAre, FixedAre DEF WellFormed
  <2> HIDE DEF row
  <2> QED  BY <2>1, <2>2, CreateWritten, AdminOk
<1>4. CASE UpdateAccount(q)
  <2> DEFINE fields == Given(Input(q), {"displayName", "enabled", "token", "webhookSecret"})
  <2>1. PICK reply : Update(q, "accounts", Input(q).account, fields, reply) /\ s \in AdminStatements
    BY <1>4 DEF UpdateAccount, At, Rest, AdminStatements
  <2>2. DOMAIN fields \cap {"repository", "remote"} = {}
    BY DEF Given
  <2>3. "accounts" \in ToSet(Tables) \ {"links"} /\ "accounts" \notin DOMAIN Fixed
    BY TablesAre, FixedAre
  <2> HIDE DEF fields
  <2> QED  BY <2>1, <2>2, <2>3, UpdateWritten, AdminOk
<1>5. CASE RemoveAccount(q)
  <2>1. /\ Delete(q, "accounts", Input(q).account) /\ s \in AdminStatements
        /\ \A p \in DOMAIN requests : Unfinished(p) => Input(p).account # Input(q).account
    BY <1>5 DEF RemoveAccount, Unfinished, At, Rest, AdminStatements
  <2>2. "accounts" \in ToSet(Tables) \ {"repositories"}
    BY TablesAre
  <2> QED  BY <2>1, <2>2, DeleteWritten, AdminOk
<1>6. CASE CreateRepository(q)
  <2> DEFINE row == [account |-> Input(q).account, remote |-> Input(q).remote, name |-> Input(q).remote,
                     enabled |-> TRUE, retention |-> None, retained |-> 0]
  <2>1. PICK reply : Create(q, "repositories", row, reply) /\ s \in AdminStatements
    BY <1>6 DEF CreateRepository, At, Rest, AdminStatements
  <2>2. /\ "repositories" \in ToSet(Tables) \ {"links"} /\ "repositories" \notin DOMAIN Creators
        /\ WellFormed("repositories", row)
    BY TablesAre, CreatorsAre, FixedAre DEF WellFormed
  <2> HIDE DEF row
  <2> QED  BY <2>1, <2>2, CreateWritten, AdminOk
<1>7. CASE ConsumeState(q)
  BY <1>7, ConsumeStateKept, ReadOk
<1>8. CASE FindAccount(q)
  <2>1. UNCHANGED db /\ s = "FindAccount"
    BY <1>8 DEF FindAccount, At, Rest
  <2>2. s \notin Authenticators \cup Leading
    BY <2>1 DEF Authenticators, Leading, Finding
  <2>3. Op(q) \in AnonymousOps
    <3>1. s \in Statements(Op(q))
      BY <1>0, <2>2, RunsWith
    <3> QED  BY <2>1, <3>1, StatementOwners
  <2> QED  BY <1>0, <2>1, <2>2, <2>3, NothingOk, AnonymousOk
<1>9. CASE InsertDelivery(q) \/ EnqueueWebhookRepository(q)
  BY <1>9, IntakeStepKept, ReadOk
<1>10. CASE CommitDelivery(q)
  BY <1>10, CommitOk
<1> QED  BY <1>1, <1>2, <1>3, <1>4, <1>5, <1>6, <1>7, <1>8, <1>9, <1>10 DEF AccountStep

-----------------------------------------------------------------------------
\* A statement of the user's own account.
LEMMA PersonalOk ==
  ASSUME NEW q, Runs(q), Advances(q), TablesStep, Head(Rest(q)) \in PersonalStatements,
         OnlyRows("users", {UserOf(q).id}),
         requests'[q].reply = requests[q].reply \/ ShownRepositories(requests'[q].reply) = {}
  PROVE  StepOk(q)
<1> DEFINE s == Head(Rest(q))
<1>1. s \notin Authenticators \cup Leading \cup Sighting
  BY DEF PersonalStatements, Authenticators, Leading, Finding, Sighting
<1>2. Op(q) # "listTokens"
  <2>1. Op(q) \in PersonalOps
    BY <1>1, RunsWith, StatementOwners
  <2> QED  BY <2>1 DEF PersonalOps
<1>3. RequestOk(q)'
  BY <1>1, <1>2, AnsweredKept
<1>4. Authorized(q)
  BY DEF Authorized, OnlyRows
<1> QED  BY <1>3, <1>4 DEF StepOk

\* The row of a user is written where nothing is created; the role stays.
LEMMA OwnRowWritten ==
  ASSUME NEW q, Runs(q), NEW u, u \in DOMAIN db.users, DOMAIN db' = DOMAIN db,
         \A t \in DOMAIN db \ {"users"} : db'[t] = db[t], DOMAIN db'.users = DOMAIN db.users,
         \A v \in DOMAIN db.users \ {u} : db'.users[v] = db.users[v],
         DOMAIN db'.users[u] = DOMAIN db.users[u], db'.users[u].role = db.users[u].role
  PROVE  TablesStep /\ OnlyRows("users", {u})
<1>1. Tidy(db) /\ "users" \in Names /\ "settings" \in Names \ {"users"} /\ "links" \in Names \ {"users"}
  BY TablesAre DEF Runs, AccessInv, Names
<1>2. DOMAIN db' = Names /\ db'.links = db.links /\ db'.settings = db.settings
  BY <1>1 DEF Tidy
<1>3. \A t \in ToSet(Tables) : DOMAIN db[t] = DOMAIN db'[t]
  BY <1>1 DEF Tidy, Names
<1>4. ASSUME NEW t \in ToSet(Tables), NEW i \in DOMAIN db'[t]
      PROVE  IsSound(db, db', t, i)
  <2>1. CASE t # "users" \/ i # u
    BY <1>1, <1>3, <2>1 DEF IsSound, Tidy, Names
  <2>2. CASE t = "users" /\ i = u
    <3>1. WellFormed("users", db.users[u])
      BY <1>1, TablesAre DEF Tidy
    <3>2. WellFormed("users", db'.users[u])
      BY <3>1, FixedAre DEF WellFormed
    <3> QED  BY <2>2, <3>2, RefersTo, FixedAre DEF IsSound
  <2> QED  BY <2>1, <2>2
<1>5. Tidy(db') /\ Keeps(db, db')
  BY <1>1, <1>2, <1>3, <1>4, RowsTidy DEF Tidy
<1>6. TablesStep
  <2>1. DOMAIN Creators \subseteq ToSet(Tables) /\ "accounts" \in ToSet(Tables)
    BY CreatorsAre, FixedAre, TablesAre
  <2> QED  BY <1>3, <1>5, <2>1 DEF TablesStep
<1>7. OnlyRows("users", {u})
  BY <1>1, <1>2 DEF OnlyRows, Changed, Tidy, Names
<1> QED  BY <1>6, <1>7

\* The profile, the avatar and the password of the user.
LEMMA ProfileOk ==
  ASSUME NEW q, Runs(q),
         UpdateProfile(q) \/ SaveAvatar(q) \/ RemoveAvatar(q) \/ UpdatePassword(q)
  PROVE  StepOk(q)
<1> DEFINE u == UserOf(q).id
<1>1. Head(Rest(q)) \in PersonalStatements
  BY DEF UpdateProfile, SaveAvatar, RemoveAvatar, UpdatePassword, At, Rest, PersonalStatements
<1>2. ASSUME UNCHANGED db, NEW status, Refuse(q, status)
      PROVE  StepOk(q)
  <2>1. Advances(q) /\ requests'[q].reply = requests[q].reply
    BY <1>2, Becomes
  <2>2. TablesStep /\ OnlyRows("users", {u})
    BY <1>2, NothingWritten, NoRows DEF OnlyRows, Runs, AccessInv
  <2> QED  BY <1>1, <2>1, <2>2, PersonalOk
<1>3. "users" \in ToSet(Tables) \ {"links"} /\ "users" \in DOMAIN Fixed /\ Fixed["users"] = "role"
  BY TablesAre, FixedAre
<1>4. Tidy(db)
  BY DEF Runs, AccessInv
<1>5. \A v \in DOMAIN db.users : WellFormed("users", db.users[v]) /\ "role" \in DOMAIN db.users[v]
  BY <1>3, <1>4 DEF Tidy, WellFormed
<1>6. ASSUME NEW reply, ShownRepositories(reply) = {}, NEW row, Put(q, "users", u, row, reply), u \in DOMAIN db.users,
             DOMAIN row = DOMAIN db.users[u], row.role = db.users[u].role
      PROVE  StepOk(q)
  <2>1. WellFormed("users", row)
    BY <1>3, <1>5, <1>6 DEF WellFormed
  <2>2. /\ Advances(q) /\ TablesStep /\ OnlyRows("users", {u})
        /\ requests'[q].reply \in {reply, requests[q].reply}
    BY <1>3, <1>6, <2>1, PutWritten
  <2> QED  BY <1>1, <1>6, <2>2, PersonalOk
<1>7. \A x : ShownRepositories([user |-> x]) = {} /\ \A y : ShownRepositories([token |-> y, user |-> x]) = {}
  BY ShownAre, NothingShown
<1>8. CASE UpdateProfile(q)
  <2> DEFINE fields == Given(Input(q), {"username", "name"})
             reply == [user |-> ToAuthenticatedUser(db', UserOf(q).id)]
  <2>1. Update(q, "users", u, fields, reply)
    BY <1>8 DEF UpdateProfile
  <2>2. DOMAIN fields \subseteq {"username", "name"}
    BY DEF Given
  <2>3. ShownRepositories(reply) = {}
    BY <1>7
  <2> HIDE DEF fields, reply
  <2>4. /\ Advances(q) /\ TablesStep /\ OnlyRows("users", {u})
        /\ requests'[q].reply \in {reply, requests[q].reply}
    BY <1>3, <2>1, <2>2, UpdateWritten
  <2> QED  BY <1>1, <2>3, <2>4, PersonalOk
<1>9. CASE SaveAvatar(q)
  <2> DEFINE row == [db.users[u] EXCEPT !.avatar = Input(q).image]
             reply == [user |-> [UserOf(q) EXCEPT !.avatar = Input(q).image]]
  <2>1. CASE u \notin DOMAIN db.users
    BY <1>2, <1>9, <2>1 DEF SaveAvatar
  <2>2. CASE u \in DOMAIN db.users
    <3>1. Put(q, "users", u, row, reply)
      BY <1>9, <2>2 DEF SaveAvatar
    <3>2. DOMAIN row = DOMAIN db.users[u] /\ row.role = db.users[u].role
      BY <1>5, <2>2
    <3>3. ShownRepositories(reply) = {}
      BY <1>7
    <3> HIDE DEF row, reply
    <3> QED  BY <1>6, <2>2, <3>1, <3>2, <3>3
  <2> QED  BY <2>1, <2>2
<1>10. CASE RemoveAvatar(q)
  <2> DEFINE reply == [user |-> [UserOf(q) EXCEPT !.avatar = None]]
  <2>1. Answer(q, reply) /\ ShownRepositories(reply) = {}
    BY <1>7, <1>10 DEF RemoveAvatar
  <2> HIDE DEF reply
  <2>2. Advances(q) /\ requests'[q].reply = reply
    BY <2>1, Becomes
  <2>3. TablesStep /\ OnlyRows("users", {u})
    <3>1. CASE u \notin DOMAIN db.users
      <4>1. UNCHANGED db
        BY <1>10, <3>1 DEF RemoveAvatar
      <4> QED  BY <4>1, NothingWritten, NoRows DEF OnlyRows, Runs, AccessInv
    <3>2. CASE u \in DOMAIN db.users
      <4>1. db' = [db EXCEPT !.users[u].avatar = None]
        BY <1>10, <3>2 DEF RemoveAvatar
      <4>2. "users" \in DOMAIN db
        BY <1>3, <1>4 DEF Tidy, Names
      <4>3. /\ DOMAIN db' = DOMAIN db /\ \A t \in DOMAIN db \ {"users"} : db'[t] = db[t]
            /\ DOMAIN db'.users = DOMAIN db.users
            /\ \A v \in DOMAIN db.users \ {u} : db'.users[v] = db.users[v]
            /\ DOMAIN db'.users[u] = DOMAIN db.users[u] /\ db'.users[u].role = db.users[u].role
        BY <1>5, <3>2, <4>1, <4>2
      <4> HIDE DEF u
      <4> QED  BY <3>2, <4>3, OwnRowWritten
    <3> QED  BY <3>1, <3>2
  <2> QED  BY <1>1, <2>1, <2>2, <2>3, PersonalOk
<1>11. CASE UpdatePassword(q)
  <2>1. CASE u \notin DOMAIN db.users
    BY <1>2, <1>11, <2>1 DEF UpdatePassword
  <2>2. CASE u \in DOMAIN db.users
    <3>1. /\ db' = [db EXCEPT !.users[u].password = Input(q).newPassword, !.users[u].authVersion = NextVersion(q)]
          /\ CreateAccessToken(q, db', u)
      BY <1>11, <2>2 DEF UpdatePassword
    <3>2. PICK reply : Answer(q, reply) /\ ShownRepositories(reply) = {}
      BY <1>7, <3>1 DEF CreateAccessToken
    <3>3. Advances(q) /\ requests'[q].reply = reply
      BY <3>2, Becomes
    <3>4. "users" \in DOMAIN db
      BY <1>3, <1>4 DEF Tidy, Names
    <3>5. /\ DOMAIN db' = DOMAIN db /\ \A t \in DOMAIN db \ {"users"} : db'[t] = db[t]
          /\ DOMAIN db'.users = DOMAIN db.users
          /\ \A v \in DOMAIN db.users \ {u} : db'.users[v] = db.users[v]
          /\ DOMAIN db'.users[u] = DOMAIN db.users[u] /\ db'.users[u].role = db.users[u].role
      BY <1>5, <2>2, <3>1, <3>4
    <3>6. TablesStep /\ OnlyRows("users", {u})
      <4> HIDE DEF u
      <4> QED  BY <2>2, <3>5, OwnRowWritten
    <3> QED  BY <1>1, <3>2, <3>3, <3>6, PersonalOk
  <2> QED  BY <2>1, <2>2
<1> QED  BY <1>8, <1>9, <1>10, <1>11

\* What the user's session reads.
LEMMA SelfOk ==
  ASSUME NEW q, Runs(q),
         ReadMe(q) \/ ReadAvatar(q) \/ ReadSettings(q) \/ FindForPassword(q) \/ FindForProfile(q)
  PROVE  StepOk(q)
<1>1. Head(Rest(q)) \in PersonalStatements /\ UNCHANGED db
  BY DEF ReadMe, ReadAvatar, ReadSettings, FindForPassword, FindForProfile, At, Rest, PersonalStatements
<1>2. TablesStep /\ OnlyRows("users", {UserOf(q).id})
  BY <1>1, NothingWritten, NoRows DEF OnlyRows, Runs, AccessInv
<1>3. \/ \E status : Refuse(q, status)
      \/ \E x : Proceed(q, [found |-> x])
      \/ \E reply : Answer(q, reply) /\ (reply = None \/ DOMAIN reply \cap {"items", "health"} = {})
  <2>1. DOMAIN db.settings \cap {"items", "health"} = {}
    BY DEF Runs, AccessInv, Tidy
  <2>2. ASSUME NEW x
        PROVE  DOMAIN [user |-> x] \cap {"items", "health"} = {}
    OBVIOUS
  <2>3. CASE ReadMe(q) \/ ReadSettings(q)
    BY <2>1, <2>2, <2>3 DEF ReadMe, ReadSettings
  <2>4. CASE ReadAvatar(q)
    BY <2>4 DEF ReadAvatar
  <2>5. CASE FindForPassword(q) \/ FindForProfile(q)
    BY <2>5 DEF FindForPassword, FindForProfile
  <2> QED  BY <2>3, <2>4, <2>5
<1>4. Advances(q) /\ (requests'[q].reply = requests[q].reply \/ ShownRepositories(requests'[q].reply) = {})
  BY <1>3, Becomes, ShownAre, NothingShown
<1> QED  BY <1>1, <1>2, <1>4, PersonalOk

-----------------------------------------------------------------------------
\* Tokens are shown to their user.
LEMMA ReadTokensOk ==
  ASSUME NEW q, Runs(q), ReadTokens(q)
  PROVE  StepOk(q)
<1> DEFINE u == IF "user" \in DOMAIN Input(q) THEN Input(q).user ELSE UserOf(q).id
           items == {McpAccessTokenDto(db, t, now) : t \in {k \in DOMAIN db.tokens : db.tokens[k].user = u}}
<1>1. Head(Rest(q)) = "ReadTokens" /\ UNCHANGED db
  BY DEF ReadTokens, At, Rest
<1>2. Head(Rest(q)) \notin Authenticators \cup Leading \cup Sighting
  BY <1>1 DEF Authenticators, Leading, Finding, Sighting
<1>3. \/ Refuse(q, "forbidden")
      \/ IsOwnerOrAdmin(q, u) /\ Answer(q, [items |-> items])
  BY DEF ReadTokens
<1>4. Advances(q)
  BY <1>3, Becomes
<1>5. TablesStep
  BY <1>1, NothingWritten DEF Runs, AccessInv
<1>6. \A item \in items : OfItem(item) = {} /\ item.user = u
  BY RowsShow DEF Runs, AccessInv
<1>7. /\ Grows(q) /\ RequestOk(q) /\ Op(q)' = Op(q) /\ UserOf(q)' = UserOf(q) /\ q \in DOMAIN requests /\ ~Ended(q)
  BY <1>2, <1>4, RunsWith
<1>8. ASSUME UserOf(q) # Nobody
      PROVE  ReplyOk(q)'
  <2>1. CASE Refuse(q, "forbidden")
    <3>1. requests'[q].reply = requests[q].reply
      BY <2>1, Becomes
    <3>2. ~Succeeded(q)'
      BY <1>7, <2>1 DEF Refuse, Succeeded, IInv, Runs, RequestInv, RequestFields
    <3> QED  BY <1>2, <1>4, <1>8, <3>1, <3>2, ReplyHeld
  <2>2. CASE IsOwnerOrAdmin(q, u) /\ Answer(q, [items |-> items])
    <3>1. requests'[q].reply = [items |-> items]
      BY <2>2, Becomes
    <3>2. ShownRepositories(requests'[q].reply) = {}
      <4>1. \A item \in items : OfItem(item) \subseteq {}
        BY <1>6
      <4> HIDE DEF items
      <4>2. Displays([items |-> items]) \subseteq {}
        BY <4>1, ItemsShown
      <4> QED  BY <3>1, <4>2, ShownAre
    <3>3. IsAdmin(UserOf(q)) => witness'[q].admin
      BY <1>7, <1>8 DEF RequestOk, UserOk, Grows
    <3>4. witness'[q].admin \/ \A token \in requests'[q].reply.items : token.user = UserOf(q).id
      <4>1. requests'[q].reply.items = items
        BY <3>1
      <4> HIDE DEF items
      <4> QED  BY <1>6, <2>2, <3>3, <4>1 DEF IsOwnerOrAdmin
    <3> QED  BY <1>7, <3>2, <3>4 DEF ReplyOk
  <2> QED  BY <1>3, <2>1, <2>2
<1>9. RequestOk(q)'
  BY <1>2, <1>4, <1>5, <1>7, <1>8, OwnKept
<1> QED  BY <1>1, <1>4, <1>9, ReadOk

\* A token is created for the user of the request.
LEMMA CreateTokenOk ==
  ASSUME NEW q, Runs(q), CreateToken(q)
  PROVE  StepOk(q)
<1> DEFINE row == [user |-> UserOf(q).id, expiresAt |-> Input(q).expiresAt, revoked |-> FALSE, used |-> None]
           reply == [items |-> {McpAccessTokenDto(db', q, now)}]
<1>1. Head(Rest(q)) = "CreateToken" /\ q \in DOMAIN requests
  BY DEF CreateToken, At, Rest, Runs
<1>2. Head(Rest(q)) \notin Authenticators \cup Leading \cup Sighting
  BY <1>1 DEF Authenticators, Leading, Finding, Sighting
<1>3. CASE Refuse(q, "badRequest") /\ UNCHANGED db
  <2>1. Advances(q) /\ requests'[q].reply = requests[q].reply /\ TablesStep
    BY <1>3, Becomes, NothingWritten DEF Runs, AccessInv
  <2>2. Op(q) # "listTokens"
    BY <1>1, <1>2, <2>1, RunsWith, StatementOwners
  <2>3. RequestOk(q)'
    BY <1>2, <2>1, <2>2, AnsweredKept
  <2> QED  BY <1>3, <2>1, <2>3, ReadOk
<1>4. CASE Create(q, "tokens", row, reply)
  <2>1. WellFormed("tokens", row)
    BY FixedAre DEF WellFormed
  <2>2. "tokens" \in ToSet(Tables) \ {"links"}
    BY TablesAre
  <2>3. Op(q) = "createToken" /\ Tail(Rest(q)) = <<>>
    <3>1. StageOk(q) /\ ~Ended(q)
      BY DEF Runs, AccessInv, RequestOk
    <3>2. /\ Head(Rest(q)) \in Statements(Op(q))
          /\ Tail(Rest(q)) # <<>> => MayFollow(Head(Rest(q)), Head(Tail(Rest(q))))
      BY <1>1, <1>2, <3>1, Placed
    <3> QED  BY <1>1, <3>2, StatementOwners DEF MayFollow, Closing
  <2>4. "tokens" \in DOMAIN Creators => Op(q) \in Creators["tokens"] /\ Tail(Rest(q)) = <<>>
    BY <2>3, CreatorsAre
  <2>5. row.user = UserOf(q).id
    OBVIOUS
  <2>6. Create(q, "tokens", row, [items |-> {McpAccessTokenDto(db', q, now)}])
    BY <1>4
  <2> HIDE DEF row
  <2>7. PICK r : Create(q, "tokens", row, r) /\ r = [items |-> {McpAccessTokenDto(db', q, now)}]
    BY <2>6
  <2>8. /\ Advances(q) /\ TablesStep /\ OnlyRows("tokens", {q})
        /\ \/ /\ requests'[q].reply = r /\ requests'[q].rest = Tail(Rest(q))
              /\ q \in DOMAIN db'["tokens"] /\ db'["tokens"][q] = row /\ q \notin DOMAIN db["tokens"]
           \/ requests'[q].reply = requests[q].reply /\ requests'[q].rest = <<>> /\ UNCHANGED db
    <3>1. Create(q, "tokens", row, r)
      BY <2>7
    <3> DEFINE t == "tokens"
    <3>2. t \in ToSet(Tables) \ {"links"} /\ WellFormed(t, row) /\ Create(q, t, row, r)
          /\ (t \in DOMAIN Creators => Op(q) \in Creators[t] /\ Tail(Rest(q)) = <<>>)
      BY <2>1, <2>2, <2>4, <3>1
    <3>3. Runs(q)
      OBVIOUS
    <3> HIDE DEF t
    <3>4. /\ Advances(q) /\ TablesStep /\ OnlyRows(t, {q})
          /\ \/ /\ requests'[q].reply = r /\ requests'[q].rest = Tail(Rest(q))
                /\ q \in DOMAIN db'[t] /\ db'[t][q] = row /\ q \notin DOMAIN db[t]
             \/ requests'[q].reply = requests[q].reply /\ requests'[q].rest = <<>> /\ UNCHANGED db
      BY ONLY <3>2, <3>3, CreateWritten
    <3> QED  BY <3>4 DEF t
  <2>9. CASE UNCHANGED db /\ requests'[q].reply = requests[q].reply
    <3>1. RequestOk(q)'
      BY <1>2, <2>3, <2>8, <2>9, AnsweredKept
    <3> QED  BY <2>8, <2>9, <3>1, ReadOk
  <2>10. CASE requests'[q].reply = r /\ q \in DOMAIN db'.tokens /\ db'.tokens[q] = row /\ q \notin DOMAIN db.tokens
    <3>1. Tidy(db')
      BY <2>8 DEF TablesStep
    <3>2. OfItem(McpAccessTokenDto(db', q, now)) = {}
      BY <2>10, <3>1, RowsShow
    <3>3. ShownRepositories(requests'[q].reply) = {}
      <4> DEFINE items == {McpAccessTokenDto(db', q, now)}
      <4>1. \A item \in items : OfItem(item) \subseteq {}
        BY <3>2
      <4>2. r = [items |-> items]
        BY <2>7
      <4> HIDE DEF items
      <4> QED  BY <2>10, <4>1, <4>2, ItemsShown, ShownAre
    <3>4. RequestOk(q)'
      BY <1>2, <2>3, <2>8, <3>3, AnsweredKept
    <3>5. Authorized(q)
      BY <2>5, <2>8, <2>10 DEF Authorized, OnlyRows
    <3> QED  BY <2>8, <3>4, <3>5 DEF StepOk
  <2> QED  BY <2>8, <2>9, <2>10
<1> QED  BY <1>3, <1>4 DEF CreateToken

\* The use and the revocation of a token.
LEMMA TokenRowOk ==
  ASSUME NEW q, Runs(q), RevokeToken(q) \/ TouchToken(q)
  PROVE  StepOk(q)
<1> DEFINE s == Head(Rest(q))
           u == UserOf(q).id
<1>1. s \in {"RevokeToken", "TouchToken"}
  BY DEF RevokeToken, TouchToken, At, Rest
<1>2. s \notin Authenticators \cup Leading \cup Sighting
  BY <1>1 DEF Authenticators, Leading, Finding, Sighting
<1>3. "tokens" \in ToSet(Tables) \ {"links"} /\ "tokens" \in DOMAIN Fixed /\ Fixed["tokens"] = "user"
  BY TablesAre, FixedAre
<1>4. PICK id :
        /\ Advances(q) /\ TablesStep /\ OnlyRows("tokens", {id})
        /\ requests'[q].reply \in {None, requests[q].reply}
        /\ db' = db \/ id \in DOMAIN db.tokens
        /\ id = IF s = "RevokeToken" THEN Input(q).id ELSE Call(q).token.mcp
  <2>1. CASE RevokeToken(q)
    <3> DEFINE fields == [revoked |-> TRUE]
    <3>1. Update(q, "tokens", Input(q).id, fields, None) /\ s = "RevokeToken"
      BY <2>1 DEF RevokeToken, At, Rest
    <3>2. DOMAIN fields \cap {"repository", "remote"} = {} /\ "user" \notin DOMAIN fields
      OBVIOUS
    <3> HIDE DEF fields
    <3>3. /\ Advances(q) /\ TablesStep /\ OnlyRows("tokens", {Input(q).id})
          /\ requests'[q].reply \in {None, requests[q].reply}
          /\ db' = db \/ Input(q).id \in DOMAIN db["tokens"]
      BY <1>3, <3>1, <3>2, UpdateWritten
    <3> QED  BY <3>1, <3>3
  <2>2. CASE TouchToken(q)
    <3> DEFINE t == Call(q).token.mcp
               row == [db.tokens[t] EXCEPT !.used = now]
    <3>1. s = "TouchToken"
      BY <2>2 DEF TouchToken, At, Rest
    <3>2. CASE t \notin DOMAIN db.tokens
      <4>1. Refuse(q, "unauthorized") /\ UNCHANGED db
        BY <2>2, <3>2 DEF TouchToken
      <4>2. TablesStep /\ OnlyRows("tokens", {t})
        BY <4>1, NothingWritten, NoRows DEF OnlyRows, Runs, AccessInv
      <4> QED  BY <3>1, <4>1, <4>2, Becomes
    <3>3. CASE t \in DOMAIN db.tokens
      <4>1. Put(q, "tokens", t, row, None)
        BY <2>2, <3>3 DEF TouchToken
      <4>2. WellFormed("tokens", db.tokens[t])
        BY <1>3, <3>3 DEF Runs, AccessInv, Tidy
      <4>3. WellFormed("tokens", row) /\ row.user = db.tokens[t].user
        BY <1>3, <4>2 DEF WellFormed
      <4> HIDE DEF row
      <4>4. /\ Advances(q) /\ TablesStep /\ OnlyRows("tokens", {t})
            /\ requests'[q].reply \in {None, requests[q].reply}
        BY <1>3, <3>3, <4>1, <4>3, PutWritten
      <4> QED  BY <3>1, <3>3, <4>4
    <3> QED  BY <3>2, <3>3
  <2> QED  BY <2>1, <2>2
<1>5. /\ Grows(q) /\ RequestOk(q) /\ ~Ended(q) /\ s \in Statements(Op(q)) /\ (UserOf(q) = Nobody <=> Op(q) \in AnonymousOps)
  BY <1>2, <1>4, RunsWith
<1>6. /\ s = "TouchToken" => Op(q) \in ToolOps
      /\ s = "RevokeToken" => Op(q) = "revokeToken"
  BY <1>5, StatementOwners
<1>7. UserOf(q) # Nobody /\ Op(q) # "listTokens"
  <2>1. \A op \in ToolOps : op \notin AnonymousOps /\ op # "listTokens"
    BY ToolsAre DEF AnonymousOps
  <2> QED  BY <1>1, <1>5, <1>6, <2>1 DEF AnonymousOps
<1>8. ShownRepositories(None) = {}
  BY ShownAre
<1>9. RequestOk(q)'
  BY <1>2, <1>4, <1>7, <1>8, AnsweredKept
<1>10. witness'[q].admin \/ (id \in DOMAIN db.tokens => db.tokens[id].user = u)
  <2>1. CASE s = "TouchToken"
    BY <1>3, <1>4, <1>5, <1>6, <1>7, <2>1 DEF RequestOk, ToolOk, Stays
  <2>2. CASE s = "RevokeToken"
    BY <1>3, <1>4, <1>5, <1>7, <2>2 DEF RequestOk, EditOk, Stays, Grows
  <2> QED  BY <1>1, <2>1, <2>2
<1>11. Authorized(q)
  <2>1. CASE db' = db
    BY <2>1, NoRows DEF Authorized, OnlyRows
  <2>2. CASE id \in DOMAIN db.tokens
    BY <1>4, <1>10, <2>2 DEF Authorized, OnlyRows
  <2> QED  BY <1>4, <2>1, <2>2
<1> QED  BY <1>4, <1>9, <1>11 DEF StepOk
-----------------------------------------------------------------------------
\* A user is written by a request that needs no authentication.
LEMMA OpenUserOk ==
  ASSUME NEW q, Runs(q), Advances(q), TablesStep, NEW u, OnlyRows("users", {u}),
         Op(q) \in {"setup", "resetPassword"}, Head(Rest(q)) \in {"CreateAdmin", "ResetPassword"}
  PROVE  StepOk(q)
<1>1. Op(q) \in AnonymousOps /\ Op(q) \in DOMAIN Unauthenticated /\ Unauthenticated[Op(q)] = {"users"}
  BY DEF AnonymousOps, Unauthenticated
<1>2. Head(Rest(q)) \notin Authenticators \cup Leading
  BY DEF Authenticators, Leading, Finding
<1>3. db'.settings = db.settings /\ \A t \in ToSet(Tables) : Changed(t) # {} => t = "users"
  BY DEF OnlyRows
<1> QED  BY <1>1, <1>2, <1>3, AnonymousOk

\* Sign-in, first-run setup and the reset of a password.
LEMMA OpenOk ==
  ASSUME NEW q, Runs(q),
         \/ SignIn(q) \/ ReadSetupStatus(q) \/ LockSetup(q) \/ CountUsers(q) \/ CreateAdmin(q)
         \/ FindByUsername(q) \/ ResetPassword(q)
  PROVE  StepOk(q)
<1> DEFINE s == Head(Rest(q))
<1>1. s \in {"SignIn", "ReadSetupStatus", "LockSetup", "CountUsers", "CreateAdmin", "FindByUsername", "ResetPassword"}
  BY DEF SignIn, ReadSetupStatus, LockSetup, CountUsers, CreateAdmin, FindByUsername, ResetPassword, At, Rest
<1>2. s \notin Authenticators \cup Leading
  BY <1>1 DEF Authenticators, Leading, Finding
<1>3. ASSUME Advances(q)
      PROVE  Op(q) \in AnonymousOps /\ s \in Statements(Op(q))
  <2>1. s \in Statements(Op(q))
    BY <1>2, <1>3, RunsWith
  <2> QED  BY <1>1, <2>1, StatementOwners
<1>4. ASSUME UNCHANGED db, Advances(q)
      PROVE  StepOk(q)
  BY <1>2, <1>3, <1>4, NothingOk, AnonymousOk
<1>5. CASE SignIn(q)
  <2>1. Advances(q) /\ UNCHANGED db
    BY <1>5, Becomes DEF SignIn, CreateAccessToken
  <2> QED  BY <1>4, <2>1
<1>6. CASE ReadSetupStatus(q) \/ LockSetup(q) \/ CountUsers(q)
  <2>1. Advances(q) /\ UNCHANGED db
    BY <1>6, Becomes DEF ReadSetupStatus, LockSetup, CountUsers
  <2> QED  BY <1>4, <2>1
<1>7. CASE FindByUsername(q)
  <2>1. Advances(q) /\ UNCHANGED db
    BY <1>7, Becomes DEF FindByUsername
  <2> QED  BY <1>4, <2>1
<1>8. CASE CreateAdmin(q)
  <2> DEFINE row == User(Input(q).username, Input(q).password, "SYSTEM_ADMIN")
  <2>1. CASE UNCHANGED db /\ Refuse(q, MapPrismaException.P2002)
    BY <1>4, <2>1, Becomes
  <2>2. CASE ~Violates(db, "users", q, row) /\ db' = WithRow(db, "users", q, row) /\ CreateAccessToken(q, db', q)
    <3>1. Op(q) = "setup" /\ Tail(Rest(q)) = <<>> /\ s = "CreateAdmin"
      BY <1>8, FirstRunRests DEF CreateAdmin, Runs, IInv, Op, Rest, At
    <3>2. Advances(q) /\ requests'[q].rest = <<>>
      BY <2>2, <3>1, Becomes DEF CreateAccessToken
    <3>3. WellFormed("users", row) /\ Refers(db, "users", row)
      BY <2>2, FixedAre DEF WellFormed, User, Violates
    <3>4. MayCreate(q, "users") /\ q \notin DOMAIN db["users"]
      <4>1. MayCreate(q, "users") /\ "users" \in DOMAIN Creators
        BY <3>1, CreatorsAre DEF MayCreate, CreatingOps, Runs
      <4> QED  BY <4>1 DEF Runs, AccessInv, FreshRows
    <3>5. "users" \in ToSet(Tables) \ {"links"}
      BY TablesAre
    <3> HIDE DEF row
    <3>6. TablesStep /\ OnlyRows("users", {q})
      BY <2>2, <3>2, <3>3, <3>4, <3>5, RowWritten
    <3> QED  BY <3>1, <3>2, <3>6, OpenUserOk
  <2> QED  BY <1>8, <2>1, <2>2 DEF CreateAdmin
<1>9. CASE ResetPassword(q)
  <2> DEFINE u == Found(q)
             row == [db.users[u] EXCEPT !.password = Input(q).password, !.authVersion = @ + 1]
  <2>1. CASE UNCHANGED db /\ Refuse(q, MapPrismaException.P2025)
    BY <1>4, <2>1, Becomes
  <2>2. CASE u \in DOMAIN db.users /\ Put(q, "users", u, row, None)
    <3>1. "users" \in ToSet(Tables) \ {"links"} /\ "users" \in DOMAIN Fixed /\ Fixed["users"] = "role"
      BY TablesAre, FixedAre
    <3>2. WellFormed("users", db.users[u])
      BY <2>2, <3>1 DEF Runs, AccessInv, Tidy
    <3>3. WellFormed("users", row) /\ row.role = db.users[u].role
      BY <3>1, <3>2 DEF WellFormed
    <3> HIDE DEF row
    <3>4. Advances(q) /\ TablesStep /\ OnlyRows("users", {u})
      BY <2>2, <3>1, <3>3, PutWritten
    <3>5. s = "ResetPassword" /\ Op(q) \in AnonymousOps /\ s \in Statements(Op(q))
      BY <1>3, <1>9, <3>4 DEF ResetPassword, At, Rest
    <3>6. Op(q) = "resetPassword"
      BY <3>5, OwnStatementsAre DEF AnonymousOps
    <3> QED  BY <3>4, <3>5, <3>6, OpenUserOk
  <2> QED  BY <1>9, <2>1, <2>2 DEF ResetPassword
<1> QED  BY <1>5, <1>6, <1>7, <1>8, <1>9

\* Sessions, accounts of users, tokens and settings.
LEMMA AccessOk ==
  ASSUME NEW q, Runs(q),
         SessionStep(q) \/ AccessStep(q) \/ AuthenticateUser(q) \/ AuthenticateAdmin(q) \/ QueryStep(q)
  PROVE  StepOk(q)
<1>1. CASE SessionStep(q)
  BY <1>1, OpenOk, ProfileOk, SelfOk DEF SessionStep
<1>2. CASE AuthenticateUser(q) \/ AuthenticateAdmin(q)
  BY <1>2, SessionKept, ReadOk
<1>3. CASE QueryStep(q)
  BY <1>3, QueryKept, ReadOk
<1>4. CASE AuthenticateToken(q) \/ FindToken(q)
  BY <1>4, McpTokenKept, FindTokenKept, ReadOk
<1>5. CASE AccessStep(q)
  BY <1>4, <1>5, OpenOk, ProfileOk, SelfOk, UsersOk, ReadTokensOk, CreateTokenOk, TokenRowOk DEF AccessStep
<1> QED  BY <1>1, <1>2, <1>3, <1>5
-----------------------------------------------------------------------------
(***************************************************************************)
(* Notification channels and rules.                                        *)
(***************************************************************************)
\* The statement changes the notifications of one repository and nothing else.
ConfiguresOnly(r) ==
  /\ db'.settings = db.settings
  /\ \A t \in ToSet(Tables) : \A i \in Changed(t) : t \in {"channels", "rules", "links", "deliveries"} /\ Either(t, i) = r

\* A statement that changes channels or rules runs for a user who manages their repository.
LEMMA EditingHeld ==
  ASSUME NEW q, Runs(q), Advances(q), Head(Rest(q)) \in Editing
  PROVE  /\ Head(Rest(q)) \notin Authenticators \cup Leading \cup Sighting \cup Finding
         /\ UserOf(q) # Nobody /\ EditOk(q) /\ Head(Rest(q)) \in Statements(Op(q))
         /\ Op(q) \in {"createChannel", "createRule"} \cup DOMAIN Configured
         /\ witness'[q].admin \/ ManagedRepository(q) \in witness'[q].manages
         /\ witness'[q].manages \subseteq witness'[q].reads
<1> DEFINE s == Head(Rest(q))
<1>1. s \notin Authenticators \cup Leading \cup Sighting \cup Finding
  BY DEF Editing, Authenticators, Leading, Sighting, Finding
<1>2. /\ Grows(q) /\ RequestOk(q) /\ ~Ended(q) /\ s \in Statements(Op(q))
      /\ UserOf(q) = Nobody <=> Op(q) \in AnonymousOps
  BY <1>1, RunsWith
<1>3. Op(q) \in {"createChannel", "createRule"} \cup DOMAIN Configured
  BY <1>2, EditingOwners DEF Editing, Configured
<1>4. UserOf(q) # Nobody
  BY <1>2, <1>3, StatementsAre
<1>5. EditOk(q)
  BY <1>2, <1>4 DEF RequestOk
<1>6. witness'[q].admin \/ ManagedRepository(q) \in witness'[q].manages
  BY <1>2, <1>5 DEF EditOk, Grows
<1> QED  BY <1>1, <1>2, <1>3, <1>4, <1>5, <1>6 DEF Grows

LEMMA EditingOk ==
  ASSUME NEW q, Runs(q), Advances(q), TablesStep, Head(Rest(q)) \in Editing,
         ConfiguresOnly(ManagedRepository(q)),
         requests'[q].reply = requests[q].reply \/ ShownRepositories(requests'[q].reply) \subseteq {ManagedRepository(q)}
  PROVE  StepOk(q)
<1>1. /\ Head(Rest(q)) \notin Authenticators \cup Leading \cup Sighting
      /\ Op(q) \in {"createChannel", "createRule"} \cup DOMAIN Configured
      /\ witness'[q].admin \/ ManagedRepository(q) \in witness'[q].manages
      /\ witness'[q].manages \subseteq witness'[q].reads
  BY EditingHeld
<1>2. Op(q) # "listTokens" /\ Op(q) # "listDeliveries"
  BY <1>1 DEF Configured
<1>3. \/ witness'[q].admin \/ requests'[q].reply = requests[q].reply
      \/ ShownRepositories(requests'[q].reply) \subseteq HeldThen(q)
  BY <1>1, <1>2 DEF HeldThen
<1>4. RequestOk(q)'
  BY <1>1, <1>2, <1>3, AnsweredKept
<1>5. Authorized(q)
  BY <1>1 DEF Authorized, ConfiguresOnly
<1> QED  BY <1>4, <1>5 DEF StepOk

\* What a channel or a rule that is changed belongs to.
LEMMA ConfiguredHeld ==
  ASSUME NEW q, Runs(q), Advances(q), Head(Rest(q)) \in {"UpdateChannel", "DeleteChannel", "UpdateRule", "DeleteRule"}
  PROVE  LET t == IF Head(Rest(q)) \in {"UpdateChannel", "DeleteChannel"} THEN "channels" ELSE "rules"
         IN Input(q).id \in DOMAIN db[t] => db[t][Input(q).id].repository = ManagedRepository(q)
<1>1. Head(Rest(q)) \in Editing
  BY DEF Editing
<1>2. EditOk(q) /\ Head(Rest(q)) \in Statements(Op(q)) /\ Head(Rest(q)) \notin Finding
  BY <1>1, EditingHeld
<1>3. Op(q) \in DOMAIN Configured
      /\ Configured[Op(q)] = IF Head(Rest(q)) \in {"UpdateChannel", "DeleteChannel"} THEN "channels" ELSE "rules"
  BY <1>2, EditingOwners DEF Configured
<1>4. ManagedRepository(q) = Found(q).repository
  BY <1>3 DEF ManagedRepository, Configured, Op
<1> QED  BY <1>2, <1>3, <1>4, FixedAre DEF EditOk, Stays

\* Rows of one repository are written in one table.
LEMMA RowsConfigure ==
  ASSUME NEW t \in {"channels", "rules"}, NEW id, NEW r, OnlyRows(t, {id}),
         id \in DOMAIN db[t] \/ id \in DOMAIN db'[t] => (IF id \in DOMAIN db[t] THEN db ELSE db')[t][id].repository = r
  PROVE  ConfiguresOnly(r)
<1>1. ASSUME NEW u \in ToSet(Tables), NEW i \in Changed(u)
      PROVE  u = t /\ i = id /\ Either(u, i) = r
  <2>1. u = t /\ i = id /\ (i \in DOMAIN db[u] \/ i \in DOMAIN db'[u])
    BY <1>1 DEF OnlyRows, Changed
  <2> QED  BY <2>1 DEF Either, RepositoryOf
<1> QED  BY <1>1 DEF ConfiguresOnly, OnlyRows

\* Nothing changes.
LEMMA NothingConfigured ==
  ASSUME UNCHANGED db, NEW r
  PROVE  ConfiguresOnly(r)
BY DEF ConfiguresOnly, Changed

\* A channel or a rule goes with its links and, a rule, its deliveries.
LEMMA RemovalConfigures ==
  ASSUME NEW t \in {"channels", "rules"}, NEW id, NEW r, Tidy(db), db' = WithoutRows(db, t, {id}),
         id \in DOMAIN db[t], db[t][id].repository = r
  PROVE  ConfiguresOnly(r)
<1>1. /\ \A u \in ToSet(Tables) \ {t, "links", "deliveries"} : SameRows(db, db', u)
      /\ \A i \in DOMAIN db[t] \ DOMAIN db'[t] : i = id
      /\ \A l \in DOMAIN db.links \ DOMAIN db'.links : \/ t = "channels" /\ db.links[l].channel = id
                                                       \/ t = "rules" /\ db.links[l].rule = id
      /\ \A n \in DOMAIN db.deliveries \ DOMAIN db'.deliveries : t = "rules" /\ db.deliveries[n].rule = id
  BY ConfigurationRemoval
<1>2. IsPart(db', db)
  BY RemovalTidy, TablesAre
<1>3. ASSUME NEW u \in ToSet(Tables), NEW i \in Changed(u)
      PROVE  u \in {t, "links", "deliveries"} /\ i \in DOMAIN db[u] \ DOMAIN db'[u]
  BY <1>1, <1>2, <1>3 DEF Changed, IsPart, SameRows
<1>4. ASSUME NEW i \in DOMAIN db[t] \ DOMAIN db'[t]
      PROVE  Either(t, i) = r
  BY <1>1, <1>4 DEF Either, RepositoryOf
<1>5. ASSUME NEW i \in DOMAIN db.links \ DOMAIN db'.links
      PROVE  Either("links", i) = r
  <2>1. IsLink(db, i)
    BY <1>5 DEF Tidy
  <2>2. i[1] = db.links[i].rule
    BY <2>1 DEF IsLink
  <2>3. db.rules[db.links[i].rule].repository = r
    BY <1>1, <1>5, <2>1 DEF IsLink
  <2> QED  BY <1>5, <2>2, <2>3 DEF Either, RepositoryOf
<1>6. ASSUME NEW i \in DOMAIN db.deliveries \ DOMAIN db'.deliveries
      PROVE  Either("deliveries", i) = r
  BY <1>1, <1>6 DEF Either, RepositoryOf
<1>7. ASSUME NEW u \in ToSet(Tables), NEW i \in Changed(u)
      PROVE  u \in {"channels", "rules", "links", "deliveries"} /\ Either(u, i) = r
  BY <1>3, <1>4, <1>5, <1>6, <1>7
<1> QED  BY <1>2, <1>7 DEF ConfiguresOnly, IsPart
-----------------------------------------------------------------------------
LEMMA ItemShown ==
  ASSUME NEW item, NEW r, OfItem(item) \subseteq {r}
  PROVE  ShownRepositories([items |-> {item}]) \subseteq {r}
<1> DEFINE items == {item}
<1>1. \A i \in items : OfItem(i) \subseteq {r}
  OBVIOUS
<1>2. Displays([items |-> items]) \subseteq {r}
  <2> HIDE DEF items
  <2> QED  BY <1>1, ItemsShown
<1> QED  BY <1>2, ShownAre

\* What is known of a request that is about to write a channel or a rule.
LEMMA EditingPlaced ==
  ASSUME NEW q, Runs(q), Head(Rest(q)) \in Editing
  PROVE  /\ Head(Rest(q)) \in Statements(Op(q)) /\ EditOk(q) /\ Tidy(db)
         /\ Op(q) \in {"createChannel", "createRule"} \cup DOMAIN Configured
         /\ Op(q) \in {"createChannel", "createRule"} => "repository" \in DOMAIN Input(q)
         /\ Head(Rest(q)) \in Closing => Tail(Rest(q)) = <<>>
<1> DEFINE s == Head(Rest(q))
<1>1. s \notin Authenticators
  BY DEF Editing, Authenticators
<1>2. RequestOk(q) /\ ~Ended(q) /\ q \in DOMAIN requests /\ Tidy(db)
  BY DEF Runs, AccessInv
<1>3. /\ s \in Statements(Op(q)) /\ (UserOf(q) = Nobody <=> Op(q) \in AnonymousOps)
      /\ Tail(Rest(q)) # <<>> => MayFollow(s, Head(Tail(Rest(q))))
  BY <1>1, <1>2, Placed DEF RequestOk
<1>4. Op(q) \in {"createChannel", "createRule"} \cup DOMAIN Configured
  BY <1>3, EditingOwners DEF Editing, Configured
<1>5. UserOf(q) # Nobody
  BY <1>3, <1>4, StatementsAre
<1>6. EditOk(q)
  BY <1>2, <1>5 DEF RequestOk
<1>7. Op(q) \in {"createChannel", "createRule"} => "repository" \in DOMAIN Input(q)
  BY <1>2 DEF RequestOk, CallOk, Op, Call, Input
<1>8. s \in Closing => Tail(Rest(q)) = <<>>
  BY <1>3 DEF MayFollow
<1> QED  BY <1>2, <1>3, <1>4, <1>6, <1>7, <1>8

\* A channel is created.
LEMMA CreateChannelOk ==
  ASSUME NEW q, Runs(q), CreateChannel(q)
  PROVE  StepOk(q)
<1> DEFINE given == Given(Input(q), {"repository", "name", "enabled", "url"})
           row == Over([reconfigure |-> FALSE], given)
           m == ManagedRepository(q)
<1>1. Head(Rest(q)) = "CreateChannel" /\ Head(Rest(q)) \in Editing \cap Closing
  BY DEF CreateChannel, At, Rest, Editing, Closing
<1>2. /\ Op(q) = "createChannel" /\ "repository" \in DOMAIN Input(q) /\ Tail(Rest(q)) = <<>> /\ Tidy(db)
  BY <1>1, EditingPlaced, EditingOwners
<1>3. m = Input(q).repository
  BY <1>2 DEF ManagedRepository, Op
<1>4. "repository" \in DOMAIN row /\ row.repository = m
  <2>1. "repository" \in DOMAIN given /\ given.repository = Input(q).repository
    BY <1>2 DEF Given
  <2> HIDE DEF given
  <2> QED  BY <1>3, <2>1 DEF Over
<1>5. PICK r : Create(q, "channels", row, r) /\ r = [items |-> {NotificationChannelDto(db', q)}]
  BY DEF CreateChannel
<1> HIDE DEF row, m
<1>6. WellFormed("channels", row)
  BY <1>4, FixedAre DEF WellFormed
<1>7. /\ Advances(q) /\ TablesStep /\ OnlyRows("channels", {q})
      /\ \/ /\ requests'[q].reply = r /\ requests'[q].rest = Tail(Rest(q))
            /\ q \in DOMAIN db'["channels"] /\ db'["channels"][q] = row /\ q \notin DOMAIN db["channels"]
         \/ requests'[q].reply = requests[q].reply /\ requests'[q].rest = <<>> /\ UNCHANGED db
  <2> DEFINE t == "channels"
  <2>1. t \in ToSet(Tables) \ {"links"} /\ WellFormed(t, row) /\ Create(q, t, row, r)
        /\ (t \in DOMAIN Creators => Op(q) \in Creators[t] /\ Tail(Rest(q)) = <<>>)
    BY <1>2, <1>5, <1>6, TablesAre, CreatorsAre
  <2>2. Runs(q)
    OBVIOUS
  <2> HIDE DEF t
  <2>3. /\ Advances(q) /\ TablesStep /\ OnlyRows(t, {q})
        /\ \/ /\ requests'[q].reply = r /\ requests'[q].rest = Tail(Rest(q))
              /\ q \in DOMAIN db'[t] /\ db'[t][q] = row /\ q \notin DOMAIN db[t]
           \/ requests'[q].reply = requests[q].reply /\ requests'[q].rest = <<>> /\ UNCHANGED db
    BY ONLY <2>1, <2>2, CreateWritten
  <2> QED  BY <2>3 DEF t
<1>8. CASE UNCHANGED db /\ requests'[q].reply = requests[q].reply
  <2>1. ConfiguresOnly(m)
    BY <1>8, NothingConfigured
  <2> QED  BY <1>1, <1>7, <1>8, <2>1, EditingOk DEF m
<1>9. CASE /\ requests'[q].reply = r /\ q \in DOMAIN db'.channels /\ db'.channels[q] = row
           /\ q \notin DOMAIN db.channels
  <2>1. ConfiguresOnly(m)
    BY <1>4, <1>7, <1>9, RowsConfigure
  <2>2. OfItem(NotificationChannelDto(db', q)) = {m}
    <3>1. Tidy(db')
      BY <1>7 DEF TablesStep
    <3> QED  BY <1>4, <1>9, <3>1, RowsShow
  <2>3. ShownRepositories(r) \subseteq {m}
    BY <1>5, <2>2, ItemShown
  <2> QED  BY <1>1, <1>7, <1>9, <2>1, <2>3, EditingOk DEF m
<1> QED  BY <1>7, <1>8, <1>9

\* A channel is updated.
LEMMA UpdateChannelOk ==
  ASSUME NEW q, Runs(q), UpdateChannel(q)
  PROVE  StepOk(q)
<1> DEFINE id == Input(q).id
           url == "url" \in DOMAIN Input(q)
           fields == Given(Over([reconfigure |-> FALSE], Input(q)),
                           {"name", "enabled"} \cup (IF url THEN {"url", "reconfigure"} ELSE {}))
           m == ManagedRepository(q)
<1>1. Head(Rest(q)) = "UpdateChannel" /\ Head(Rest(q)) \in Editing
  BY DEF UpdateChannel, At, Rest, Editing
<1>2. CASE (\E status : Refuse(q, status)) /\ UNCHANGED db
  <2>1. Advances(q) /\ requests'[q].reply = requests[q].reply /\ TablesStep
    BY <1>2, Becomes, NothingWritten DEF Runs, AccessInv
  <2>2. ConfiguresOnly(m)
    BY <1>2, NothingConfigured
  <2> QED  BY <1>1, <2>1, <2>2, EditingOk
<1>3. CASE Update(q, "channels", id, fields, [items |-> {NotificationChannelDto(db', id)}])
  <2>1. PICK r : Update(q, "channels", id, fields, r) /\ r = [items |-> {NotificationChannelDto(db', id)}]
    BY <1>3
  <2>2. DOMAIN fields \subseteq {"name", "enabled", "url", "reconfigure"}
    BY DEF Given
  <2> HIDE DEF fields
  <2>3. DOMAIN fields \cap {"repository", "remote"} = {} /\ Fixed["channels"] \notin DOMAIN fields
    BY <2>2, FixedAre
  <2>4. "channels" \in ToSet(Tables) \ {"links"}
    BY TablesAre
  <2>5. /\ Advances(q) /\ TablesStep /\ OnlyRows("channels", {id})
        /\ requests'[q].reply \in {r, requests[q].reply}
        /\ db' = db \/ id \in DOMAIN db["channels"]
    BY <2>1, <2>3, <2>4, UpdateWritten
  <2>6. id \in DOMAIN db["channels"] => db["channels"][id].repository = m
    BY <1>1, <2>5, ConfiguredHeld
  <2> HIDE DEF id, m
  <2>7. ConfiguresOnly(m)
    <3>1. CASE db' = db
      BY <3>1, NothingConfigured
    <3>2. CASE id \in DOMAIN db["channels"]
      BY <2>5, <2>6, <3>2, RowsConfigure
    <3> QED  BY <2>5, <3>1, <3>2
  <2>8. CASE requests'[q].reply = requests[q].reply
    BY <1>1, <2>5, <2>7, <2>8, EditingOk DEF m
  <2>9. CASE requests'[q].reply = r /\ id \in DOMAIN db["channels"] \cap DOMAIN db'["channels"]
    <3>1. Tidy(db') /\ Keeps(db, db')
      BY <2>5 DEF TablesStep
    <3>2. db'["channels"][id].repository = m
      BY <2>6, <2>9, <3>1, FixedAre DEF Keeps
    <3>3. OfItem(NotificationChannelDto(db', id)) = {m}
      BY <2>9, <3>1, <3>2, RowsShow
    <3>4. ShownRepositories(r) \subseteq {m}
      BY <2>1, <3>3, ItemShown
    <3> QED  BY <1>1, <2>5, <2>7, <2>9, <3>4, EditingOk DEF m
  <2>10. \/ requests'[q].reply = requests[q].reply
         \/ requests'[q].reply = r /\ id \in DOMAIN db["channels"] \cap DOMAIN db'["channels"]
    <3>1. CASE \E status : Refuse(q, status)
      BY <3>1, Becomes
    <3>2. CASE id \in DOMAIN db["channels"] /\ \E row : db' = WithRow(db, "channels", id, row)
      <4>1. id \in DOMAIN db'["channels"]
        BY <2>4, <3>2, EditingPlaced, <1>1 DEF WithRow, Over, Tidy, Names
      <4> QED  BY <2>5, <3>2, <4>1
    <3> QED  BY <2>1, <3>1, <3>2 DEF Update, Put
  <2> QED  BY <2>8, <2>9, <2>10
<1> QED  BY <1>2, <1>3 DEF UpdateChannel

\* A channel or a rule is removed.
LEMMA DeleteConfiguredOk ==
  ASSUME NEW q, Runs(q), DeleteChannel(q) \/ DeleteRule(q)
  PROVE  StepOk(q)
<1> DEFINE id == Input(q).id
           m == ManagedRepository(q)
<1>1. Head(Rest(q)) \in {"DeleteChannel", "DeleteRule"} /\ Head(Rest(q)) \in Editing
  BY DEF DeleteChannel, DeleteRule, At, Rest, Editing
<1>2. PICK t \in {"channels", "rules"} :
        /\ Delete(q, t, id)
        /\ t = IF Head(Rest(q)) \in {"UpdateChannel", "DeleteChannel"} THEN "channels" ELSE "rules"
  BY DEF DeleteChannel, DeleteRule, At, Rest
<1>3. t \in ToSet(Tables) \ {"repositories"} /\ t # "accounts"
  BY TablesAre
<1>4. /\ Advances(q) /\ TablesStep
      /\ requests'[q].reply \in {None, requests[q].reply}
      /\ db' = db \/ (id \in DOMAIN db[t] /\ db' = WithoutRows(db, t, {id}))
  BY <1>2, <1>3, DeleteWritten
<1>5. id \in DOMAIN db[t] => db[t][id].repository = m
  BY <1>1, <1>2, <1>4, ConfiguredHeld
<1>6. Tidy(db)
  BY DEF Runs, AccessInv
<1>7. ConfiguresOnly(m)
  <2> HIDE DEF id, m
  <2>1. CASE db' = db
    BY <2>1, NothingConfigured
  <2>2. CASE id \in DOMAIN db[t] /\ db' = WithoutRows(db, t, {id})
    BY <1>5, <1>6, <2>2, RemovalConfigures
  <2> QED  BY <1>4, <2>1, <2>2
<1>8. ShownRepositories(None) = {}
  BY ShownAre
<1> QED  BY <1>1, <1>4, <1>7, <1>8, EditingOk
-----------------------------------------------------------------------------
\* From d to e links of a rule to channels are added.
Linked(d, e, rule, channels) ==
  /\ DOMAIN e = DOMAIN d /\ \A u \in DOMAIN d \ {"links"} : e[u] = d[u]
  /\ DOMAIN e.links = DOMAIN d.links \cup ({rule} \X channels)
  /\ \A l \in DOMAIN d.links \ ({rule} \X channels) : e.links[l] = d.links[l]
  /\ \A c \in channels : e.links[<<rule, c>>].rule = rule /\ e.links[<<rule, c>>].channel = c

LEMMA LinkedIs ==
  ASSUME NEW d, "links" \in DOMAIN d, NEW rule, NEW channels
  PROVE  LET added == [l \in {rule} \X channels |-> [rule |-> l[1], channel |-> l[2]]]
         IN Linked(d, [d EXCEPT !.links = Over(added, @)], rule, channels)
<1> DEFINE added == [l \in {rule} \X channels |-> [rule |-> l[1], channel |-> l[2]]]
           e == [d EXCEPT !.links = Over(added, @)]
<1>1. DOMAIN e = DOMAIN d /\ (\A u \in DOMAIN d \ {"links"} : e[u] = d[u]) /\ e.links = Over(added, d.links)
  OBVIOUS
<1>2. DOMAIN added = {rule} \X channels
  OBVIOUS
<1>3. ASSUME NEW c \in channels
      PROVE  <<rule, c>> \in {rule} \X channels /\ added[<<rule, c>>].rule = rule /\ added[<<rule, c>>].channel = c
  OBVIOUS
<1> HIDE DEF added
<1>4. /\ DOMAIN e.links = DOMAIN added \cup DOMAIN d.links
      /\ \A l \in DOMAIN added : e.links[l] = added[l]
      /\ \A l \in DOMAIN d.links \ DOMAIN added : e.links[l] = d.links[l]
  BY <1>1 DEF Over
<1> HIDE DEF e
<1>5. Linked(d, e, rule, channels)
  BY <1>1, <1>2, <1>3, <1>4 DEF Linked
<1> QED  BY <1>5 DEF e, added

LEMMA LinksTidy ==
  ASSUME NEW d, Tidy(d), NEW rule \in DOMAIN d.rules, NEW channels \in SUBSET DOMAIN d.channels,
         \A c \in channels : d.channels[c].repository = d.rules[rule].repository,
         NEW e, Linked(d, e, rule, channels)
  PROVE  Tidy(e)
<1>1. DOMAIN d = Names /\ "links" \in Names
  BY TablesAre DEF Tidy, Names
<1>2. /\ DOMAIN e = Names /\ \A u \in Names \ {"links"} : e[u] = d[u]
      /\ DOMAIN e.links = DOMAIN d.links \cup ({rule} \X channels)
      /\ \A l \in DOMAIN d.links \ ({rule} \X channels) : e.links[l] = d.links[l]
  BY <1>1 DEF Linked
<1>3. \A u \in ToSet(Tables) : DOMAIN d[u] \subseteq DOMAIN e[u]
  BY <1>2 DEF Names
<1>4. "rules" \in Names \ {"links"} /\ "channels" \in Names \ {"links"} /\ "settings" \in Names \ {"links"}
  BY TablesAre DEF Names
<1>5. e.rules = d.rules /\ e.channels = d.channels
  BY <1>2, <1>4
<1>6. ASSUME NEW l \in {rule} \X channels
      PROVE  Refers(e, "links", e.links[l]) /\ WellFormed("links", e.links[l]) /\ IsLink(e, l)
  <2>1. PICK c \in channels : l = <<rule, c>>
    BY <1>6
  <2>2. e.links[l].rule = rule /\ e.links[l].channel = c
    BY <2>1 DEF Linked
  <2>3. Refers(e, "links", e.links[l])
    BY <1>5, <2>2, RefersTo
  <2>4. WellFormed("links", e.links[l])
    BY FixedAre DEF WellFormed
  <2> QED  BY <1>5, <2>1, <2>2, <2>3, <2>4 DEF IsLink
<1>7. ASSUME NEW u \in ToSet(Tables), NEW i \in DOMAIN d[u], u = "links" => i \notin {rule} \X channels
      PROVE  Refers(e, u, e[u][i]) /\ WellFormed(u, e[u][i])
  <2>1. e[u][i] = d[u][i] /\ Refers(d, u, d[u][i]) /\ WellFormed(u, d[u][i])
    BY <1>2, <1>7 DEF Tidy, Names
  <2> QED  BY <1>3, <2>1, RefersGrows
<1>8. \A u \in ToSet(Tables) : \A i \in DOMAIN e[u] : Refers(e, u, e[u][i]) /\ WellFormed(u, e[u][i])
  BY <1>2, <1>6, <1>7 DEF Names
<1>9. \A l \in DOMAIN e.links : IsLink(e, l)
  <2>1. ASSUME NEW l \in DOMAIN d.links \ ({rule} \X channels)
        PROVE  IsLink(e, l)
    BY <1>2, <1>5, <2>1 DEF Tidy, IsLink
  <2> QED  BY <1>2, <1>6, <2>1
<1> QED  BY <1>2, <1>4, <1>8, <1>9 DEF Tidy

\* From d to e a rule of the repository m is written, with links to channels; others go.
WritesRule(d, e, rule, row, m, channels, replaced) ==
  /\ Refers(d, "rules", row) /\ "repository" \in DOMAIN row /\ row.repository = m
  /\ rule \in DOMAIN d.rules => d.rules[rule].repository = m
  /\ channels \subseteq DOMAIN d.channels /\ \A c \in channels : d.channels[c].repository = m
  /\ \A l \in replaced : l \in DOMAIN d.links /\ d.links[l].rule = rule
  /\ Linked(WithRow(WithoutRows(d, "links", replaced), "rules", rule, row), e, rule, channels)

\* What the rule and its links become.
RuleBecame(d, e, rule, row, channels) ==
  /\ Tidy(e) /\ e.settings = d.settings
  /\ \A u \in ToSet(Tables) \ {"rules", "links"} : SameRows(d, e, u)
  /\ DOMAIN e.rules = DOMAIN d.rules \cup {rule} /\ e.rules[rule] = row
  /\ \A i \in DOMAIN d.rules \ {rule} : e.rules[i] = d.rules[i]
  /\ \A l \in DOMAIN d.links \ DOMAIN e.links : d.links[l].rule = rule
  /\ \A l \in DOMAIN e.links : l \in {rule} \X channels \/ (l \in DOMAIN d.links /\ e.links[l] = d.links[l])

LEMMA RuleBecomes ==
  ASSUME NEW d, Tidy(d), NEW e, NEW rule, NEW row, NEW m, NEW channels, NEW replaced,
         WritesRule(d, e, rule, row, m, channels, replaced)
  PROVE  RuleBecame(d, e, rule, row, channels)
<1> DEFINE d1 == WithoutRows(d, "links", replaced)
           d2 == WithRow(d1, "rules", rule, row)
<1>1. Linked(d2, e, rule, channels)
  BY DEF WritesRule
<1>0. /\ Refers(d, "rules", row) /\ "repository" \in DOMAIN row /\ row.repository = m
      /\ rule \in DOMAIN d.rules => d.rules[rule].repository = m
      /\ channels \subseteq DOMAIN d.channels /\ \A c \in channels : d.channels[c].repository = m
      /\ \A l \in replaced : l \in DOMAIN d.links /\ d.links[l].rule = rule
  BY DEF WritesRule
<1>2. Tidy(d1) /\ IsPart(d1, d)
  BY RemovalTidy, TablesAre
<1>3. /\ \A u \in ToSet(Tables) \ {"links"} : SameRows(d, d1, u)
      /\ \A l \in DOMAIN d.links \ DOMAIN d1.links : d.links[l].rule = rule
  <2>1. /\ \A u \in ToSet(Tables) \ {"links", "deliveries"} : SameRows(d, d1, u)
        /\ \A l \in DOMAIN d.links \ DOMAIN d1.links : l \in replaced
        /\ \A n \in DOMAIN d.deliveries \ DOMAIN d1.deliveries : FALSE
    BY <1>0, ConfigurationRemoval
  <2> HIDE DEF d1
  <2>2. SameRows(d, d1, "deliveries")
    BY <1>2, <2>1, TablesAre DEF IsPart, SameRows
  <2> QED  BY <1>0, <2>1, <2>2
<1> HIDE DEF d1
<1>4. SameRows(d, d1, "rules") /\ SameRows(d, d1, "channels") /\ SameRows(d, d1, "repositories")
  BY <1>3, TablesAre
<1>5. /\ Tidy(d2)
      /\ \A u \in Names \ {"rules"} : d2[u] = d1[u]
      /\ DOMAIN d2.rules = DOMAIN d1.rules \cup {rule} /\ d2.rules[rule] = row
      /\ \A i \in DOMAIN d1.rules \ {rule} : d2.rules[i] = d1.rules[i]
  <2>1. Refers(d1, "rules", row)
    BY <1>0, <1>4, RefersTo DEF SameRows
  <2>2. WellFormed("rules", row)
    BY <1>0, FixedAre DEF WellFormed
  <2>3. rule \in DOMAIN d1["rules"] => row[Fixed["rules"]] = d1["rules"][rule][Fixed["rules"]]
    BY <1>0, <1>4, FixedAre DEF SameRows
  <2>4. "rules" \in ToSet(Tables) \ {"links"}
    BY TablesAre
  <2> QED  BY <1>2, <2>1, <2>2, <2>3, <2>4, RowTidy
<1> HIDE DEF d2
<1>6. d2.channels = d1.channels /\ d2.links = d1.links /\ d2.settings = d1.settings
  BY <1>5, TablesAre DEF Names
<1>7. /\ Tidy(e) /\ \A u \in Names \ {"links"} : e[u] = d2[u]
      /\ DOMAIN e.links = DOMAIN d2.links \cup ({rule} \X channels)
      /\ \A l \in DOMAIN d2.links \ ({rule} \X channels) : e.links[l] = d2.links[l]
  <2>1. rule \in DOMAIN d2.rules /\ channels \in SUBSET DOMAIN d2.channels
    BY <1>0, <1>4, <1>5, <1>6 DEF SameRows
  <2>2. \A c \in channels : d2.channels[c].repository = d2.rules[rule].repository
    BY <1>0, <1>4, <1>5, <1>6 DEF SameRows
  <2>3. Tidy(e)
    BY <1>1, <1>5, <2>1, <2>2, LinksTidy
  <2>4. DOMAIN d2 = Names
    BY <1>5 DEF Tidy
  <2> QED  BY <1>1, <2>3, <2>4 DEF Linked
<1>8. \A u \in ToSet(Tables) \ {"rules", "links"} : SameRows(d, e, u)
  <2>1. ASSUME NEW u \in ToSet(Tables) \ {"rules", "links"}
        PROVE  e[u] = d1[u] /\ SameRows(d, d1, u)
    BY <1>3, <1>5, <1>7 DEF Names
  <2> QED  BY <2>1 DEF SameRows
<1>9. e.rules = d2.rules /\ e.settings = d2.settings
  BY <1>7, TablesAre DEF Names
<1>10. /\ DOMAIN e.rules = DOMAIN d.rules \cup {rule} /\ e.rules[rule] = row
       /\ \A i \in DOMAIN d.rules \ {rule} : e.rules[i] = d.rules[i]
  BY <1>4, <1>5, <1>9 DEF SameRows
<1>11. \A l \in DOMAIN d.links \ DOMAIN e.links : d.links[l].rule = rule
  BY <1>3, <1>6, <1>7
<1>12. \A l \in DOMAIN d1.links : l \in DOMAIN d.links /\ d1.links[l] = d.links[l]
  BY <1>2, TablesAre DEF IsPart
<1>13. \A l \in DOMAIN e.links : l \in {rule} \X channels \/ (l \in DOMAIN d.links /\ e.links[l] = d.links[l])
  BY <1>6, <1>7, <1>12
<1>14. e.settings = d.settings
  BY <1>2, <1>6, <1>9 DEF IsPart
<1> QED  BY <1>7, <1>8, <1>10, <1>11, <1>13, <1>14 DEF RuleBecame

\* A rule is written, with its links.
LEMMA RuleWritten ==
  ASSUME NEW q, Runs(q), NEW rule, NEW row, PutRule(q, rule, row), NEW m, "repository" \in DOMAIN row,
         row.repository = m, rule \in DOMAIN db.rules => db.rules[rule].repository = m,
         rule \notin DOMAIN db.rules => rule = q /\ MayCreate(q, "rules") /\ Tail(Rest(q)) = <<>>,
         "channels" \in DOMAIN Input(q) =>
           \A c \in ToSet(Input(q).channels) : c \in DOMAIN db.channels => db.channels[c].repository = m
  PROVE  /\ Advances(q) /\ TablesStep /\ ConfiguresOnly(m)
         /\ requests'[q].reply = requests[q].reply \/ ShownRepositories(requests'[q].reply) \subseteq {m}
<1>1. CASE (\E status : Refuse(q, status)) /\ UNCHANGED db
  BY <1>1, Becomes, NothingWritten, NothingConfigured DEF Runs, AccessInv
<1>2. ASSUME NEW channels \in SUBSET DOMAIN db.channels, NEW replaced, ~Violates(db, "rules", rule, row),
             channels = IF "channels" \in DOMAIN Input(q) THEN ToSet(Input(q).channels) ELSE {},
             \A l \in replaced : l \in DOMAIN db.links /\ db.links[l].rule = rule,
             Linked(WithRow(WithoutRows(db, "links", replaced), "rules", rule, row), db', rule, channels),
             Answer(q, [items |-> {NotificationRuleDto(db', rule)}])
      PROVE  /\ Advances(q) /\ TablesStep /\ ConfiguresOnly(m)
             /\ requests'[q].reply = requests[q].reply \/ ShownRepositories(requests'[q].reply) \subseteq {m}
  <2>1. Tidy(db) /\ q \in DOMAIN requests
    BY DEF Runs, AccessInv
  <2>2. Refers(db, "rules", row)
    BY <1>2 DEF Violates
  <2>3. \A c \in channels : db.channels[c].repository = m
    BY <1>2
  <2>4. /\ Tidy(db') /\ db'.settings = db.settings
        /\ \A u \in ToSet(Tables) \ {"rules", "links"} : SameRows(db, db', u)
        /\ DOMAIN db'.rules = DOMAIN db.rules \cup {rule} /\ db'.rules[rule] = row
        /\ \A i \in DOMAIN db.rules \ {rule} : db'.rules[i] = db.rules[i]
        /\ \A l \in DOMAIN db.links \ DOMAIN db'.links : db.links[l].rule = rule
        /\ \A l \in DOMAIN db'.links :
             l \in {rule} \X channels \/ (l \in DOMAIN db.links /\ db'.links[l] = db.links[l])
    <3>1. WritesRule(db, db', rule, row, m, channels, replaced)
      BY <1>2, <2>2, <2>3 DEF WritesRule
    <3>2. RuleBecame(db, db', rule, row, channels)
      BY <2>1, <3>1, RuleBecomes
    <3> QED  BY <3>2 DEF RuleBecame
  <2>5. PICK reply : Answer(q, reply) /\ reply = [items |-> {NotificationRuleDto(db', rule)}]
    BY <1>2
  <2>6. Advances(q) /\ requests'[q].reply = reply /\ requests'[q].rest = Tail(Rest(q))
    BY <2>5, Becomes
  <2>7. Keeps(db, db')
    <3>1. ASSUME NEW t \in DOMAIN Fixed, NEW i \in DOMAIN db[t] \cap DOMAIN db'[t]
          PROVE  db'[t][i][Fixed[t]] = db[t][i][Fixed[t]]
      <4>1. CASE t = "rules"
        BY <2>4, <3>1, <4>1, FixedAre
      <4>2. CASE t # "rules"
        BY <2>4, <3>1, <4>2, FixedAre DEF SameRows
      <4> QED  BY <4>1, <4>2
    <3>2. SameRows(db, db', "repositories")
      BY <2>4, TablesAre
    <3> QED  BY <3>1, <3>2 DEF Keeps, SameRows
  <2>8. ASSUME NEW t \in DOMAIN Creators, NEW i \in DOMAIN db'[t] \ DOMAIN db[t]
        PROVE  /\ i \in DOMAIN requests /\ MayCreate(i, t)
               /\ i \in DOMAIN requests' => requests'[i].rest = <<>>
    <3>1. t = "rules"
      BY <2>4, <2>8, CreatorsAre, FixedAre DEF SameRows
    <3>2. i = rule /\ rule \notin DOMAIN db.rules
      BY <2>4, <2>8, <3>1
    <3> QED  BY <2>1, <2>6, <3>1, <3>2
  <2>9. DOMAIN db'.accounts = DOMAIN db.accounts
    BY <2>4, TablesAre DEF SameRows
  <2>10. TablesStep
    BY <2>4, <2>7, <2>8, <2>9 DEF TablesStep
  <2>11. ASSUME NEW t \in ToSet(Tables), NEW i \in Changed(t)
         PROVE  t \in {"rules", "links"} /\ Either(t, i) = m
    <3>1. t \in {"rules", "links"}
      BY <2>4, <2>11 DEF Changed, SameRows
    <3>2. CASE t = "rules"
      <4>1. i = rule
        BY <2>4, <2>11, <3>2 DEF Changed
      <4> QED  BY <2>4, <3>2, <4>1 DEF Either, RepositoryOf
    <3>3. CASE t = "links" /\ i \in DOMAIN db.links
      <4>1. IsLink(db, i) /\ db.links[i].rule \in DOMAIN db.rules
        BY <2>1, <3>3, RefersTo, TablesAre DEF Tidy
      <4>2. i[1] = db.links[i].rule
        BY <4>1 DEF IsLink
      <4>3. i[1] = rule
        <5>1. CASE i \in {rule} \X channels
          BY <5>1
        <5>2. CASE i \notin DOMAIN db'.links
          BY <2>4, <3>3, <4>2, <5>2
        <5> QED  BY <2>4, <2>11, <3>3, <5>1, <5>2 DEF Changed
      <4> QED  BY <3>3, <4>1, <4>2, <4>3 DEF Either, RepositoryOf
    <3>4. CASE t = "links" /\ i \notin DOMAIN db.links
      <4>1. i \in {rule} \X channels
        BY <2>4, <2>11, <3>4 DEF Changed
      <4> QED  BY <2>4, <3>4, <4>1 DEF Either, RepositoryOf
    <3> QED  BY <3>1, <3>2, <3>3, <3>4
  <2>12. ConfiguresOnly(m)
    BY <2>4, <2>11 DEF ConfiguresOnly
  <2>13. OfItem(NotificationRuleDto(db', rule)) = {m}
    BY <2>4, RowsShow
  <2>14. ShownRepositories(reply) \subseteq {m}
    BY <2>5, <2>13, ItemShown
  <2> QED  BY <2>6, <2>10, <2>12, <2>14
<1> QED
  <2> DEFINE Links(n) == {l \in DOMAIN db.links : db.links[l].rule = n}
             channels == IF "channels" \in DOMAIN Input(q) THEN ToSet(Input(q).channels) ELSE {}
             replaced == IF "channels" \in DOMAIN Input(q) THEN Links(rule) ELSE {}
  <2>1. \A l \in replaced : l \in DOMAIN db.links /\ db.links[l].rule = rule
    OBVIOUS
  <2>2. \/ (\E status : Refuse(q, status)) /\ UNCHANGED db
        \/ /\ ~Violates(db, "rules", rule, row) /\ channels \in SUBSET DOMAIN db.channels
           /\ db' = LET added == [l \in {rule} \X channels |-> [rule |-> l[1], channel |-> l[2]]]
                        w == WithRow(WithoutRows(db, "links", replaced), "rules", rule, row)
                    IN [w EXCEPT !.links = Over(added, @)]
           /\ Answer(q, [items |-> {NotificationRuleDto(db', rule)}])
    BY DEF PutRule
  <2>4. "links" \in DOMAIN WithRow(WithoutRows(db, "links", replaced), "rules", rule, row)
    <3> HIDE DEF replaced
    <3>1. Tidy(WithoutRows(db, "links", replaced))
      BY RemovalTidy, TablesAre DEF Runs, AccessInv
    <3>2. DOMAIN WithoutRows(db, "links", replaced) = Names /\ "links" \in Names
      BY <3>1, TablesAre DEF Tidy, Names
    <3> QED  BY <3>2 DEF WithRow
  <2>3. channels = IF "channels" \in DOMAIN Input(q) THEN ToSet(Input(q).channels) ELSE {}
    OBVIOUS
  <2> HIDE DEF channels, replaced
  <2>5. LET w == WithRow(WithoutRows(db, "links", replaced), "rules", rule, row)
            added == [l \in {rule} \X channels |-> [rule |-> l[1], channel |-> l[2]]]
        IN Linked(w, [w EXCEPT !.links = Over(added, @)], rule, channels)
    BY <2>4, LinkedIs
  <2> QED  BY <1>1, <1>2, <2>1, <2>2, <2>3, <2>5
-----------------------------------------------------------------------------
\* The channels that were checked belong to the repository of the rule, or are gone.
LEMMA ChannelsHeld ==
  ASSUME NEW q, Runs(q), Head(Rest(q)) \in {"CreateRule", "UpdateRule"}
  PROVE  "channels" \in DOMAIN Input(q) =>
           \A c \in ToSet(Input(q).channels) :
             c \in DOMAIN db.channels => db.channels[c].repository = ManagedRepository(q)
<1>1. EditOk(q)
  BY EditingPlaced DEF Editing
<1> QED  BY <1>1, FixedAre DEF EditOk, Stays

LEMMA CreateRuleOk ==
  ASSUME NEW q, Runs(q), CreateRule(q)
  PROVE  StepOk(q)
<1> DEFINE row == Given(Input(q), {"repository", "outcome", "enabled"})
           m == ManagedRepository(q)
<1>1. Head(Rest(q)) = "CreateRule" /\ Head(Rest(q)) \in Editing \cap Closing
  BY DEF CreateRule, At, Rest, Editing, Closing
<1>2. /\ Op(q) = "createRule" /\ "repository" \in DOMAIN Input(q) /\ Tail(Rest(q)) = <<>> /\ Tidy(db)
  BY <1>1, EditingPlaced, EditingOwners
<1>3. m = Input(q).repository
  BY <1>2 DEF ManagedRepository, Op
<1>4. "repository" \in DOMAIN row /\ row.repository = m
  BY <1>2, <1>3 DEF Given
<1>5. PutRule(q, q, row)
  BY DEF CreateRule
<1>6. MayCreate(q, "rules") /\ q \notin DOMAIN db.rules
  <2>1. MayCreate(q, "rules") /\ "rules" \in DOMAIN Creators
    BY <1>2, CreatorsAre DEF MayCreate, Runs
  <2> QED  BY <2>1 DEF Runs, AccessInv, FreshRows
<1>7. "channels" \in DOMAIN Input(q) =>
        \A c \in ToSet(Input(q).channels) : c \in DOMAIN db.channels => db.channels[c].repository = m
  BY <1>1, ChannelsHeld
<1> HIDE DEF row, m
<1>8. /\ Advances(q) /\ TablesStep /\ ConfiguresOnly(m)
      /\ requests'[q].reply = requests[q].reply \/ ShownRepositories(requests'[q].reply) \subseteq {m}
  BY <1>2, <1>4, <1>5, <1>6, <1>7, RuleWritten
<1> QED  BY <1>1, <1>8, EditingOk DEF m

LEMMA UpdateRuleOk ==
  ASSUME NEW q, Runs(q), UpdateRule(q)
  PROVE  StepOk(q)
<1> DEFINE rule == Input(q).id
           given == Given(Input(q), {"outcome", "enabled"})
           row == Over(given, db.rules[rule])
           m == ManagedRepository(q)
<1>1. Head(Rest(q)) = "UpdateRule" /\ Head(Rest(q)) \in Editing
  BY DEF UpdateRule, At, Rest, Editing
<1>2. CASE (\E status : Refuse(q, status)) /\ UNCHANGED db
  <2>1. Advances(q) /\ requests'[q].reply = requests[q].reply /\ TablesStep
    BY <1>2, Becomes, NothingWritten DEF Runs, AccessInv
  <2>2. ConfiguresOnly(m)
    BY <1>2, NothingConfigured
  <2> QED  BY <1>1, <2>1, <2>2, EditingOk
<1>3. CASE rule \in DOMAIN db.rules /\ PutRule(q, rule, row)
  <2>1. /\ Op(q) = "updateRule" /\ Tidy(db) /\ EditOk(q)
    BY <1>1, EditingPlaced, EditingOwners
  <2>2. Op(q) \in DOMAIN Configured /\ Configured[Op(q)] = "rules" /\ Head(Rest(q)) \notin Finding
    BY <1>1, <2>1 DEF Configured, Finding
  <2>3. m = Found(q).repository
    BY <2>1 DEF ManagedRepository, Op
  <2>4. db.rules[rule].repository = m
    <3>1. Stays("rules", rule, m)
      BY <2>1, <2>2, <2>3 DEF EditOk
    <3> QED  BY <1>3, <3>1, FixedAre DEF Stays
  <2>5. "repository" \in DOMAIN db.rules[rule]
    BY <1>3, <2>1, FixedAre, TablesAre DEF Tidy, WellFormed
  <2>6. "repository" \notin DOMAIN given
    BY DEF Given
  <2>7. "repository" \in DOMAIN row /\ row.repository = m
    <3> HIDE DEF given
    <3> QED  BY <2>4, <2>5, <2>6 DEF Over
  <2>8. "channels" \in DOMAIN Input(q) =>
          \A c \in ToSet(Input(q).channels) : c \in DOMAIN db.channels => db.channels[c].repository = m
    BY <1>1, ChannelsHeld
  <2> HIDE DEF row, m, rule
  <2>9. /\ Advances(q) /\ TablesStep /\ ConfiguresOnly(m)
        /\ requests'[q].reply = requests[q].reply \/ ShownRepositories(requests'[q].reply) \subseteq {m}
    BY <1>3, <2>4, <2>7, <2>8, RuleWritten
  <2> QED  BY <1>1, <2>9, EditingOk DEF m
<1> QED  BY <1>2, <1>3 DEF UpdateRule

\* Notification channels and rules.
LEMMA NotificationOk ==
  ASSUME NEW q, Runs(q), NotificationStep(q)
  PROVE  StepOk(q)
<1>1. CASE AssertCanManageRepository(q) \/ AssertChannelsBelongToRepository(q)
  BY <1>1, AssertCanManageKept, CheckChannelsKept, ReadOk
<1>2. CASE GetManagedRepositoryIds(q)
  BY <1>2, SightKept, ReadOk
<1>3. CASE ReadChannels(q) \/ ReadRules(q) \/ ReadDeliveries(q)
  BY <1>3, ListsKept, ReadOk
<1>4. CASE FindChannel(q) \/ FindRule(q)
  BY <1>4, FindConfiguredKept, ReadOk
<1>5. CASE DeleteChannel(q) \/ DeleteRule(q)
  BY <1>5, DeleteConfiguredOk
<1> QED  BY <1>1, <1>2, <1>3, <1>4, <1>5, CreateChannelOk, UpdateChannelOk, CreateRuleOk, UpdateRuleOk
         DEF NotificationStep
-----------------------------------------------------------------------------
(***************************************************************************)
(* What a step keeps of the invariant.                                     *)
(***************************************************************************)
\* The process stops, or a statement fails.
LEMMA CrashOk ==
  ASSUME NEW q, Runs(q), Crash(q)
  PROVE  StepOk(q)
<1>1. Refuse(q, "crashed") /\ UNCHANGED db
  BY DEF Crash
<1>2. Advances(q) /\ requests'[q].reply = requests[q].reply /\ requests'[q].rest = <<>>
  BY <1>1, Becomes
<1>3. /\ q \in DOMAIN requests /\ DOMAIN requests[q] = RequestFields /\ ~Ended(q) /\ Tidy(db)
  BY DEF Runs, IInv, RequestInv, AccessInv
<1>4. requests'[q].user = requests[q].user /\ requests'[q].status = "crashed"
  BY <1>1, <1>3 DEF Refuse, RequestFields
<1>5. Grows(q) /\ RequestOk(q)
  BY <1>2, RunsGrows
<1>6. CASE Head(Rest(q)) \in Authenticators
  <2>1. RequestOk(q)'
    BY <1>2, <1>3, <1>4, <1>5, <1>6, RefusedKept
  <2> QED  BY <1>1, <1>2, <2>1, ReadOk
<1>7. CASE Head(Rest(q)) \notin Authenticators
  <2>1. ~Succeeded(q)'
    BY <1>4 DEF Succeeded
  <2>2. Ended(q)'
    BY <1>2 DEF Ended
  <2>3. UserOf(q) # Nobody => ReplyOk(q)'
    BY <1>2, <1>7, <2>1, ReplyHeld
  <2>4. IntakeOk(q)'
    BY <2>2 DEF IntakeOk, Unfinished, At, Ended
  <2>5. TablesStep
    BY <1>1, <1>3, NothingWritten
  <2>6. RequestOk(q)'
    BY <1>2, <1>3, <1>5, <1>7, <2>2, <2>3, <2>4, <2>5, OwnKept
  <2> QED  BY <1>1, <1>2, <2>6, ReadOk
<1> QED  BY <1>6, <1>7

\* Every step is one of a request under way, or none runs.
LEMMA RequestStepOk ==
  ASSUME IInv, AccessInv, Observe, RequestStep
  PROVE  \E q : Runs(q) /\ StepOk(q)
<1>1. PICK q \in DOMAIN requests :
        \/ SessionStep(q) \/ Crash(q)
        \/ /\ UNCHANGED issued
           /\ \/ AuthenticateUser(q) \/ AuthenticateAdmin(q) \/ AccessStep(q)
              \/ RepositoryStep(q) \/ NotificationStep(q) \/ AccountStep(q) \/ QueryStep(q)
  BY DEF RequestStep
<1>2. ~Ended(q)
  <2>1. CASE Crash(q)
    BY <2>1 DEF Crash
  <2>2. CASE RepositoryStep(q) \/ NotificationStep(q) \/ AccountStep(q) \/ QueryStep(q)
    BY <2>2, RepositoryAdvances, NotificationAdvances, AccountAdvances, QueryAdvances DEF IInv
  <2>3. CASE AccessStep(q)
    BY <2>3, AccessAdvances DEF IInv, AccessStep, At, Ended, CreateUser, ResetPassword
  <2>4. CASE AuthenticateUser(q) \/ AuthenticateAdmin(q)
    BY <2>4 DEF AuthenticateUser, AuthenticateAdmin, At, Ended
  <2>5. CASE SessionStep(q)
    BY <2>5 DEF SessionStep, SignIn, ReadSetupStatus, LockSetup, CountUsers, CreateAdmin, FindForPassword,
                UpdatePassword, At, Ended
  <2> QED  BY <1>1, <2>1, <2>2, <2>3, <2>4, <2>5
<1>3. Runs(q)
  BY <1>2 DEF Runs
<1>4. StepOk(q)
  BY <1>1, <1>3, CrashOk, AccessOk, RepositoryOk, NotificationOk, AccountOk
<1> QED  BY <1>3, <1>4

\* A step of a request.
LEMMA RunKeeps ==
  ASSUME NEW q, Runs(q), StepOk(q), UNCHANGED setup
  PROVE  AccessInv'
<1>1. Advances(q) /\ TablesStep /\ RequestOk(q)' /\ AccessInv /\ Observe
  BY DEF Runs, StepOk
<1>2. CreatorsStep /\ FreshRows'
  BY <1>1, RunsGrows
<1>3. ASSUME NEW p \in DOMAIN requests', p # q
      PROVE  RequestOk(p)'
  <2>1. p \in DOMAIN requests /\ requests'[p] = requests[p] /\ RequestOk(p)
    BY <1>1, <1>3 DEF Advances, AccessInv
  <2>2. Grows(p)
    BY <1>1, <2>1, WitnessGrows DEF RequestOk
  <2> QED  BY <1>1, <1>2, <2>1, <2>2, OthersKept
<1>4. \A p \in DOMAIN requests' : RequestOk(p)'
  BY <1>1, <1>3
<1> QED  BY <1>1, <1>2, <1>4 DEF AccessInv, TablesStep
-----------------------------------------------------------------------------
\* A step in which no request runs, and nothing is sent or answered.
LEMMA QuietOk ==
  ASSUME AccessInv, TablesStep, UNCHANGED <<setup, requests>>, Observe \/ UNCHANGED witness
  PROVE  AccessInv'
<1>1. CreatorsStep
  BY DEF CreatorsStep, MayCreate, Op, Call, Ended
<1>2. FreshRows'
  BY <1>1, FreshRowsKept DEF AccessInv
<1>3. ASSUME NEW p \in DOMAIN requests'
      PROVE  RequestOk(p)'
  <2>1. p \in DOMAIN requests /\ requests'[p] = requests[p] /\ RequestOk(p)
    BY <1>3 DEF AccessInv
  <2>2. Grows(p)
    <3>1. CASE Observe
      BY <2>1, <3>1, WitnessGrows DEF RequestOk
    <3>2. CASE UNCHANGED witness
      BY <2>1, <3>2 DEF RequestOk, Grows
    <3> QED  BY <3>1, <3>2
  <2> QED  BY <1>1, <2>1, <2>2, OthersKept
<1> QED  BY <1>2, <1>3 DEF AccessInv, TablesStep

\* The status of a run is written.
LEMMA RunStatusWritten ==
  ASSUME Tidy(db), NEW w \in DOMAIN db.runs, NEW status, db' = [db EXCEPT !.runs[w].status = status]
  PROVE  TablesStep
<1>1. "runs" \in ToSet(Tables) /\ "runs" \notin DOMAIN Fixed /\ DOMAIN db = Names
  BY TablesAre, FixedAre DEF Tidy
<1>2. DOMAIN db' = Names /\ DOMAIN db'.runs = DOMAIN db.runs /\ \A n \in Names \ {"runs"} : db'[n] = db[n]
  BY <1>1 DEF Names
<1>3. /\ \A i \in DOMAIN db.runs \ {w} : db'.runs[i] = db.runs[i]
      /\ db'.runs[w] = [db.runs[w] EXCEPT !.status = status]
  BY <1>1 DEF Names
<1>4. "links" \in Names \ {"runs"} /\ "settings" \in Names \ {"runs"} /\ "accounts" \in Names \ {"runs"}
      /\ DOMAIN Creators \subseteq Names \ {"runs"}
  BY TablesAre, CreatorsAre DEF Names
<1>5. /\ Refers(db, "runs", db'.runs[w]) /\ WellFormed("runs", db'.runs[w])
  <2>1. Refers(db, "runs", db.runs[w]) /\ WellFormed("runs", db.runs[w])
    BY <1>1 DEF Tidy
  <2>2. "repository" \in DOMAIN db.runs[w]
    BY <2>1 DEF WellFormed
  <2>3. "repository" \in DOMAIN db'.runs[w] /\ db'.runs[w].repository = db.runs[w].repository
    BY <1>3, <2>2
  <2>4. Refers(db, "runs", db'.runs[w])
    BY <2>1, <2>3, RefersTo
  <2> QED  BY <1>1, <2>3, <2>4 DEF WellFormed
<1>6. \A t \in ToSet(Tables) : DOMAIN db[t] \subseteq DOMAIN db'[t]
  BY <1>2 DEF Names
<1>7. \A t \in ToSet(Tables) : \A i \in DOMAIN db'[t] : IsSound(db, db', t, i)
  <2> SUFFICES ASSUME NEW t \in ToSet(Tables), NEW i \in DOMAIN db'[t]
               PROVE  IsSound(db, db', t, i)
    OBVIOUS
  <2>1. CASE t # "runs" \/ i # w
    BY <1>2, <1>3, <2>1 DEF Names, IsSound
  <2>2. CASE t = "runs" /\ i = w
    BY <1>1, <1>5, <2>2 DEF IsSound
  <2> QED  BY <2>1, <2>2
<1>8. Tidy(db') /\ Keeps(db, db')
  BY <1>2, <1>4, <1>6, <1>7, RowsTidy DEF Tidy
<1> QED  BY <1>2, <1>4, <1>8 DEF TablesStep

\* The synchronizations write runs; the clients of the status write nothing.
LEMMA StatusStepOk ==
  ASSUME Tidy(db), StatusStep
  PROVE  TablesStep
<1>1. ASSUME NEW j, BeginProviderSync(j) \/ FindEnabled(j) \/ ListWorkflowRuns(j) \/ CountRunning(j) \/ AssignCount(j)
      PROVE  UNCHANGED db
  BY <1>1 DEF BeginProviderSync, FindEnabled, ListWorkflowRuns, CountRunning, AssignCount
<1>2. ASSUME NEW j, PersistRun(j)
      PROVE  TablesStep
  <2>1. UNCHANGED db \/ \E w \in DOMAIN db.runs, status \in setup.statuses : db' = [db EXCEPT !.runs[w].status = status]
    BY <1>2 DEF PersistRun
  <2> QED  BY <2>1, RunStatusWritten, NothingWritten
<1>3. ASSUME NEW c, Connect(c) \/ Join(c) \/ Greet(c) \/ Receive(c) \/ Reconnect(c) \/ Unmount(c)
      PROVE  UNCHANGED db
  BY <1>3 DEF Connect, Join, Greet, Receive, Reconnect, Unmount, Socket
<1> QED  BY <1>1, <1>2, <1>3, NothingWritten DEF StatusStep

\* A request that has not begun.
WaitingAreOk ==
  \A q, call : \A route \in Routes[call.op] :
    CallOk(call) /\ requests[q] = Waiting(call, route) /\ witness[q].manages \subseteq witness[q].reads => RequestOk(q)

LEMMA WaitingIsOk == WaitingAreOk
<1> SUFFICES ASSUME NEW q, NEW call, NEW route \in Routes[call.op], CallOk(call), requests[q] = Waiting(call, route),
                    witness[q].manages \subseteq witness[q].reads
             PROVE  RequestOk(q)
  BY DEF WaitingAreOk
<1>1. IsRoute(call.op, route)
  BY RoutesAre DEF CallOk
<1>2. Call(q) = call /\ Op(q) = call.op /\ Rest(q) = route /\ UserOf(q) = Nobody /\ requests[q].reply = None
  BY DEF Waiting, Call, Op, Rest, UserOf
<1>3. StageOk(q)
  BY <1>1, <1>2 DEF StageOk, IsRoute, IsBody
<1>4. ~Unfinished(q) /\ ~At(q, "CommitDelivery")
  <2> SUFFICES ASSUME route # <<>>, Head(route) \in {"EnqueueWebhook", "CommitDelivery"}
               PROVE  FALSE
    BY <1>2 DEF Unfinished, At, Rest
  <2>1. CASE call.op \in AnonymousOps
    BY <1>1, <2>1 DEF IsRoute, IsBody, Late
  <2>2. CASE call.op \notin AnonymousOps
    <3>1. Tail(route) \in Seq(Statements(call.op)) /\ route = <<AuthenticatorOf(call.op)>> \o Tail(route)
      BY <1>1, <2>2 DEF IsRoute, IsBody
    <3>2. Head(route) = AuthenticatorOf(call.op)
      BY <3>1, PrefixedIs
    <3>3. AuthenticatorOf(call.op) \in Authenticators
      BY StatementsOfWhom
    <3> QED  BY <3>2, <3>3 DEF Authenticators
  <2> QED  BY <2>1, <2>2
<1>5. IntakeOk(q)
  BY <1>4 DEF IntakeOk
<1> QED  BY <1>2, <1>3, <1>5 DEF RequestOk

\* A page sends its session, and asks for nothing that creates a row with an identifier.
LEMMA PageCallOk ==
  ASSUME IsSession(setup.session), NEW call, IsPageCall(call)
  PROVE  CallOk(call) /\ \A t \in DOMAIN Creators : call.op \notin Creators[t]
<1>1. call.op \in WebOps /\ call.token = setup.session
  BY DEF IsPageCall
<1>2. call.op \in DOMAIN Routes
  BY <1>1, WebRoutes
<1>3. call.op \notin ToolOps /\ call.op \notin {"createChannel", "createRule", "createToken"} \cup CreatingOps
  BY <1>1, ToolsAre DEF WebOps, CreatingOps
<1> QED  BY <1>1, <1>2, <1>3, CreatorsAre DEF CallOk

\* A step of a page, which writes nothing.
LEMMA AsksOk ==
  ASSUME AccessInv, Asks, Observe, UNCHANGED <<setup, db>>
  PROVE  AccessInv'
<1>1. IsSession(setup.session) /\ TablesStep
  BY NothingWritten DEF AccessInv
<1>2. ASSUME NEW p \in DOMAIN requests'
      PROVE  \/ p \in DOMAIN requests /\ requests'[p] = requests[p]
             \/ \E call : \E route \in Routes[call.op] :
                  /\ CallOk(call) /\ (\A t \in DOMAIN Creators : call.op \notin Creators[t])
                  /\ requests'[p] = Waiting(call, route)
  BY <1>1, PageCallOk DEF Asks
<1>3. CreatorsStep
  <2> SUFFICES ASSUME NEW p \in DOMAIN requests', NEW t \in DOMAIN Creators, MayCreate(p, t)'
               PROVE  p \in DOMAIN requests /\ MayCreate(p, t)
    BY DEF CreatorsStep
  <2>1. requests'[p].call.op \in Creators[t]
    BY DEF MayCreate, Op, Call, Creators
  <2>2. p \in DOMAIN requests /\ requests'[p] = requests[p]
    BY <1>2, <2>1 DEF Waiting
  <2> QED  BY <2>2 DEF MayCreate, Op, Call, Ended, Creators
<1>4. FreshRows'
  BY <1>1, <1>3, FreshRowsKept DEF AccessInv
<1>5. ASSUME NEW p \in DOMAIN requests'
      PROVE  RequestOk(p)'
  <2>1. p \in DOMAIN requests => witness[p].manages \subseteq witness[p].reads
    BY DEF AccessInv, RequestOk
  <2>2. CASE p \in DOMAIN requests /\ requests'[p] = requests[p]
    <3>1. Grows(p) /\ RequestOk(p)
      BY <1>5, <2>1, <2>2, WitnessGrows DEF AccessInv
    <3> QED  BY <1>1, <1>3, <1>5, <2>2, <3>1, OthersKept
  <2>3. ASSUME NEW call, NEW route \in Routes[call.op], CallOk(call), requests'[p] = Waiting(call, route)
        PROVE  RequestOk(p)'
    <3>1. requests'[p].user = Nobody
      BY <2>3 DEF Waiting
    <3>2. witness'[p].manages \subseteq witness'[p].reads
      BY <1>5, <2>1, <3>1 DEF Observe, NoRights
    <3>3. WaitingAreOk'
      BY WaitingIsOk, PTL
    <3>4. CallOk(call)'
      BY <2>3 DEF CallOk
    <3> QED  BY <2>3, <3>2, <3>3, <3>4 DEF WaitingAreOk
  <2> QED  BY <1>2, <1>5, <2>2, <2>3
<1> QED  BY <1>1, <1>4, <1>5 DEF AccessInv, TablesStep
-----------------------------------------------------------------------------
LEMMA AccessKept ==
  ASSUME IInv, AccessInv, [Next]_vars
  PROVE  AccessInv'
<1> USE DEF vars, apiVars, webVars
<1>1. CASE RequestStep /\ UNCHANGED <<setup, now, statusVars, webVars>> /\ Observe
  BY <1>1, RequestStepOk, RunKeeps
<1>2. CASE TimePasses /\ UNCHANGED <<setup, db, requests, issued, statusVars, webVars>> /\ Observe
  BY <1>2, NothingWritten, QuietOk DEF AccessInv
<1>3. CASE StatusStep /\ UNCHANGED <<setup, now, requests, issued, webVars>> /\ Observe
  BY <1>3, StatusStepOk, QuietOk DEF AccessInv
<1>4. CASE WebStep /\ UNCHANGED <<setup, now, db, issued, statusVars>> /\ Observe
  BY <1>4, WebAsks, AsksOk DEF IInv
<1>5. CASE UNCHANGED vars
  BY <1>5, NothingWritten, QuietOk DEF AccessInv
<1> QED  BY <1>1, <1>2, <1>3, <1>4, <1>5 DEF Next

LEMMA InstallationTidy ==
  ASSUME NEW d, IsInstallation(d)
  PROVE  Tidy(d)
<1>1. DOMAIN d = Names /\ DOMAIN d.settings \cap {"items", "health"} = {}
  BY DEF IsInstallation, Names
<1>2. ASSUME NEW t \in ToSet(Tables), NEW i \in DOMAIN d[t]
      PROVE  Refers(d, t, d[t][i]) /\ WellFormed(t, d[t][i])
  <2>1. Refers(d, t, d[t][i])
    BY <1>2 DEF IsInstallation, Consistent, Violates
  <2>2. /\ \A ref \in References[t] : ref[1] \in DOMAIN d[t][i]
        /\ "repository" \in DOMAIN d[t][i] => <<"repository", "repositories">> \in References[t]
        /\ "remote" \in DOMAIN d[t][i] => t = "repositories"
        /\ t = "users" => "role" \in DOMAIN d[t][i]
    BY <1>2 DEF IsInstallation
  <2>3. t \in DOMAIN Fixed => Fixed[t] \in DOMAIN d[t][i]
    <3>1. CASE t = "repositories"
      <4>1. <<"account", "accounts">> \in References[t] /\ Fixed[t] = "account"
        BY <3>1, FixedAre, ReferencesAre
      <4> QED  BY <2>2, <4>1
    <3>2. CASE t = "tokens"
      <4>1. <<"user", "users">> \in References[t] /\ Fixed[t] = "user"
        BY <3>2, FixedAre, ReferencesAre
      <4> QED  BY <2>2, <4>1
    <3>3. CASE t \in {"channels", "rules"}
      <4>1. <<"repository", "repositories">> \in References[t] /\ Fixed[t] = "repository"
        BY <3>3, FixedAre, ReferencesAre
      <4> QED  BY <2>2, <4>1
    <3> QED  BY <2>2, <3>1, <3>2, <3>3, FixedAre
  <2>4. t = "runs" => "repository" \in DOMAIN d[t][i]
    BY <2>2, ReferencesAre
  <2>5. t \in {"repositories", "tokens"} => "repository" \notin DOMAIN d[t][i]
    BY <2>2, ReferencesAre
  <2> QED  BY <2>1, <2>2, <2>3, <2>4, <2>5 DEF WellFormed
<1>3. ASSUME NEW l \in DOMAIN d.links
      PROVE  IsLink(d, l)
  BY <1>3 DEF IsInstallation, IsLink
<1> QED  BY <1>1, <1>2, <1>3 DEF Tidy

LEMMA AccessInit ==
  ASSUME Init
  PROVE  AccessInv
<1>1. PICK i \in DOMAIN Setups : setup = Setups[i]
  BY DEF Init
<1> DEFINE calls == Setups[i].calls
<1>2. /\ Tidy(db) /\ IsSession(setup.session)
      /\ \A t \in {"users", "tokens", "channels", "rules"} : DOMAIN calls \cap DOMAIN db[t] = {}
  BY <1>1, SetupsAssumption, InstallationTidy DEF Init
<1>3. \A q \in DOMAIN calls :
        /\ calls[q].op \in DOMAIN Routes
        /\ calls[q].op \in {"createChannel", "createRule"} => "repository" \in DOMAIN calls[q].input
        /\ IF calls[q].op \in DOMAIN McpRoutes THEN IsMcpToken(calls[q].token)
           ELSE (\E s \in Routes[calls[q].op] : Head(s) \in {"Authenticate", "AuthenticateAdmin"})
                  => IsSession(calls[q].token)
  BY SetupsAssumption
<1>4. PICK route :
        /\ \A q \in DOMAIN calls : route[q] \in Routes[calls[q].op]
        /\ requests = [q \in DOMAIN calls |-> Waiting(calls[q], route[q])]
  BY <1>1 DEF Init
<1>5. witness = [q \in DOMAIN calls |-> NoRights]
  BY <1>1 DEF Init
<1> HIDE DEF calls
<1>6. ASSUME NEW q \in DOMAIN calls
      PROVE  CallOk(calls[q])
  <2>1. IsRoute(calls[q].op, route[q])
    BY <1>3, <1>4, <1>6, RoutesAre
  <2>2. calls[q].op \in ToolOps => IsMcpToken(calls[q].token)
    BY <1>3, <1>6 DEF ToolOps
  <2>3. ASSUME calls[q].op \notin AnonymousOps, AuthenticatorOf(calls[q].op) \in {"Authenticate", "AuthenticateAdmin"}
        PROVE  IsSession(calls[q].token)
    <3>1. calls[q].op \notin DOMAIN McpRoutes
      BY <2>3, StatementsAre DEF ToolOps
    <3>2. Head(route[q]) = AuthenticatorOf(calls[q].op)
      <4>1. Tail(route[q]) \in Seq(Statements(calls[q].op)) /\ route[q] = <<AuthenticatorOf(calls[q].op)>> \o Tail(route[q])
        BY <2>1, <2>3 DEF IsRoute, IsBody
      <4> QED  BY <4>1, PrefixedIs
    <3> QED  BY <1>3, <1>4, <1>6, <2>3, <3>1, <3>2
  <2> QED  BY <1>3, <1>6, <2>2, <2>3 DEF CallOk
<1>7. ASSUME NEW q \in DOMAIN requests
      PROVE  RequestOk(q)
  <2>1. q \in DOMAIN calls /\ requests[q] = Waiting(calls[q], route[q]) /\ route[q] \in Routes[calls[q].op]
    BY <1>4, <1>7
  <2>2. witness[q].manages \subseteq witness[q].reads
    BY <1>5, <2>1 DEF NoRights
  <2> QED  BY <1>6, <2>1, <2>2, WaitingIsOk DEF WaitingAreOk
<1>8. FreshRows
  BY <1>2, <1>4, CreatorsAre DEF FreshRows
<1> QED  BY <1>2, <1>7, <1>8 DEF AccessInv

\* A step changes only what the user of the request that runs may change.
LEMMA AuthorizedStep ==
  ASSUME IInv, AccessInv, Next, NEW q \in DOMAIN requests \cap DOMAIN requests', requests'[q].rest # requests[q].rest
  PROVE  Authorized(q)
<1> USE DEF vars, apiVars, webVars
<1>1. CASE RequestStep /\ Observe
  <2>1. PICK r : Runs(r) /\ StepOk(r)
    BY <1>1, RequestStepOk
  <2>2. q = r
    BY <2>1 DEF StepOk, Advances
  <2> QED  BY <2>1, <2>2 DEF StepOk
<1>2. CASE UNCHANGED db
  <2>1. db'.settings = db.settings /\ \A t \in ToSet(Tables) : Changed(t) = {}
    BY <1>2 DEF Changed
  <2> QED  BY <2>1 DEF Authorized
<1> QED  BY <1>1, <1>2 DEF Next
-----------------------------------------------------------------------------
(***************************************************************************)
(* The theorems.                                                           *)
(***************************************************************************)
\* The inductive invariant of authorization: the relations of the tables hold, identifiers
\* are fresh, and each request is on a route of its operation, has had the rights that what
\* it has read, answered and is about to change ask for, and relies on rows that stay where
\* they were when it looked.
THEOREM AccessInvariance == Spec => []AccessInv
<1>1. Init => AccessInv
  BY AccessInit
<1>2. IInv /\ AccessInv /\ [Next]_vars => AccessInv'
  BY AccessKept
<1> QED  BY <1>1, <1>2, Invariance, PTL DEF Spec

\* onDelete: Cascade in the schema: whichever users, accounts, tokens, channels and rules are
\* removed while other requests create rows that refer to them, no row ever refers to a row
\* that is gone.
THEOREM NoRowDangles == Spec => [](\A t \in ToSet(Tables) : \A i \in DOMAIN db[t] : Refers(db, t, db[t][i]))
<1>1. AccessInv => \A t \in ToSet(Tables) : \A i \in DOMAIN db[t] : Refers(db, t, db[t][i])
  BY DEF AccessInv, Tidy
<1> QED  BY <1>1, AccessInvariance, PTL

\* AuthorizationService and the guards of the controllers: whatever memberships, roles, users
\* and tokens are taken away while a handler runs, an answer shows only repositories that
\* its user could see at a moment of the request, with a session or a token that was good
\* then, and an answer for administrators is given to one.
THEOREM AnswersAreAuthorized == Spec => []ReadsAreAuthorized
<1>1. AccessInv => ReadsAreAuthorized
  <2> SUFFICES ASSUME AccessInv, NEW q \in DOMAIN requests, Succeeded(q), UserOf(q) # Nobody
               PROVE  LET held == witness[q]
                          shown == ShownRepositories(requests[q].reply)
                      IN /\ Call(q).op # "callback" => held.live
                         /\ (\E s \in Routes[Call(q).op] : Head(s) = "AuthenticateAdmin") => held.admin
                         /\ held.admin \/ shown \subseteq (IF Call(q).op = "listDeliveries" THEN held.manages ELSE held.reads)
                         /\ Call(q).op = "listTokens" =>
                              held.admin \/ \A token \in requests[q].reply.items : token.user = UserOf(q).id
    BY DEF ReadsAreAuthorized
  <2>1. CallOk(Call(q)) /\ StageOk(q) /\ UserOk(q) /\ ReplyOk(q) /\ Op(q) = Call(q).op
    BY DEF AccessInv, RequestOk, Op
  <2>2. ASSUME NEW s \in Routes[Call(q).op], Head(s) = "AuthenticateAdmin"
        PROVE  witness[q].admin
    <3>1. IsRoute(Op(q), s) /\ Op(q) \notin AnonymousOps
      BY <2>1, <2>2, RoutesAre DEF CallOk, StageOk
    <3>2. Tail(s) \in Seq(Statements(Op(q))) /\ s = <<AuthenticatorOf(Op(q))>> \o Tail(s)
      BY <3>1 DEF IsRoute, IsBody
    <3>3. Op(q) \in AdminOps
      BY <2>2, <3>2, PrefixedIs, AuthenticatorsLead
    <3> QED  BY <2>1, <3>3 DEF UserOk
  <2>3. Call(q).op # "callback" => witness[q].live
    BY <2>1 DEF UserOk
  <2> QED  BY <2>1, <2>2, <2>3 DEF ReplyOk, Held
<1> QED  BY <1>1, AccessInvariance, PTL

\* NotificationsService.assertChannelsBelongToRepository looks at the channels one statement
\* before the rule is written: however channels and rules are created, changed and deleted
\* meanwhile, a rule is linked only to channels of its own repository.
THEOREM RulesUseTheirChannels == Spec => []ChannelsStayInRepository
<1>1. AccessInv => ChannelsStayInRepository
  BY DEF AccessInv, Tidy, IsLink, ChannelsStayInRepository
<1> QED  BY <1>1, AccessInvariance, PTL

\* A handler looks at what its user may do before the statement that writes: what the
\* statement changes is the user's own, or belongs to a repository that the user managed at a
\* moment of the request, or the user was an administrator then; rows that go with a row that
\* is removed are included.
THEOREM WritesAreAuthorized == Spec => ChangesAreAuthorized
<1>1. IInv /\ AccessInv /\ [Next]_vars =>
        [\A q \in DOMAIN requests \cap DOMAIN requests' : requests'[q].rest # requests[q].rest =>
           \/ witness'[q].admin
           \/ /\ db'.settings = db.settings
              /\ \A t \in ToSet(Tables) : \A i \in Changed(t) :
                   \/ Call(q).op \in DOMAIN Unauthenticated /\ t \in Unauthenticated[Call(q).op]
                   \/ t = "users" /\ i = UserOf(q).id
                   \/ t = "tokens" /\ (IF i \in DOMAIN db.tokens THEN db ELSE db').tokens[i].user = UserOf(q).id
                   \/ t \in {"channels", "rules", "links", "deliveries"} /\ Either(t, i) \in witness'[q].manages
        ]_vars
  BY AuthorizedStep DEF Authorized
<1> QED  BY <1>1, Invariance, AccessInvariance, PTL DEF Spec, ChangesAreAuthorized
=============================================================================
