-------------------------- MODULE ControlPlaneProofs --------------------------
(***************************************************************************)
(* Proofs about the control plane: however sign-ins, changes and resets of *)
(* passwords, removals of users and the first-run setup interleave, an     *)
(* access token that is accepted was signed for the password its user has  *)
(* now, and one administrator comes out of the first-run setup.            *)
(***************************************************************************)
EXTENDS ControlPlane, TLAPS

LOCAL INSTANCE SequencesExt
LOCAL INSTANCE FiniteSetTheorems
LOCAL INSTANCE SequenceTheorems

\* The statements that create users, and those of the first-run setup before them.
Creating == {"LockSetup", "CountUsers", "CreateAdmin", "CreateUser"}
SetupRests ==
  {<<"LockSetup", "CountUsers", "CreateAdmin">>, <<"CountUsers", "CreateAdmin">>, <<"CreateAdmin">>, <<>>}
CreateRests == {<<"AuthenticateAdmin", "CreateUser">>, <<"CreateUser">>, <<>>}
CreatingOps == {"setup", "createUser"}

RequestFields == {"call", "rest", "user", "found", "ability", "status", "reply"}

NeverCreates(statements) == \E S : statements \in Seq(S) /\ S \cap Creating = {}

\* What is left of a request is a rest of one of its routes.
IsRest(rest, op) ==
  CASE op = "setup" -> rest \in SetupRests
    [] op = "createUser" -> rest \in CreateRests
    [] OTHER -> NeverCreates(rest)
RequestInv ==
  \A q \in DOMAIN requests :
    /\ DOMAIN requests[q] = RequestFields
    /\ IsRest(requests[q].rest, Call(q).op)

Credentials == {"password", "authVersion", "role"}
UsersInv ==
  /\ "users" \in DOMAIN db
  /\ \A u \in DOMAIN db.users : Credentials \subseteq DOMAIN db.users[u] /\ db.users[u].authVersion \in Int

\* No token is ahead of its user, and one that is level was signed for the password.
TokenInv ==
  \A token \in issued : token.user \in DOMAIN db.users =>
    LET user == db.users[token.user]
    IN /\ token.version \in Int /\ token.version <= user.authVersion
       /\ token.version = user.authVersion => token.password = user.password

\* A request that may still create its user: the identifier is not taken, and never was.
Creates(q) == Call(q).op \in CreatingOps /\ ~Ended(q)
FreshInv ==
  \A q \in DOMAIN requests : Creates(q) =>
    q \notin DOMAIN db.users /\ \A token \in issued : token.user # q

\* The advisory lock: one setup is past it, and no user that a setup made is there when the
\* administrator is created.
HoldsLock(q) == At(q, "CountUsers") \/ At(q, "CreateAdmin")
FirstRunInv ==
  /\ \A p, q \in DOMAIN requests : HoldsLock(p) /\ HoldsLock(q) => p = q
  /\ \A p, q \in DOMAIN requests : At(q, "CreateAdmin") /\ p \in DOMAIN db.users => Call(p).op # "setup"
  /\ SetupOnce

IInv == RequestInv /\ UsersInv /\ TokenInv /\ FreshInv /\ FirstRunInv /\ sent \in Int
-----------------------------------------------------------------------------
(***************************************************************************)
(* The steps of a request.                                                 *)
(***************************************************************************)
\* The statements that give a request its user, and those that give it an ability.
Authenticators == {"Authenticate", "AuthenticateAdmin", "AuthenticateToken", "ConsumeState"}
Sighting == {"Ability", "ManagedIds"}

\* The request runs on, or ends; its user and its ability stay once they are read.
Advances(q) ==
  /\ DOMAIN requests' = DOMAIN requests
  /\ \A p \in DOMAIN requests \ {q} : requests'[p] = requests[p]
  /\ DOMAIN requests'[q] = RequestFields
  /\ requests'[q].call = requests[q].call
  /\ requests'[q].rest \in {<<>>, Tail(requests[q].rest)}
  /\ requests'[q].user = requests[q].user \/ Head(requests[q].rest) \in Authenticators
  /\ requests'[q].ability = requests[q].ability \/ Head(requests[q].rest) \in Sighting

\* No user comes, and those that stay keep their credentials.
CredentialsKept ==
  /\ "users" \in DOMAIN db'
  /\ DOMAIN db'.users \subseteq DOMAIN db.users
  /\ \A u \in DOMAIN db'.users :
       /\ Credentials \subseteq DOMAIN db'.users[u]
       /\ \A f \in Credentials : db'.users[u][f] = db.users[u][f]

LEMMA ProceedAdvances ==
  ASSUME RequestInv, NEW q \in DOMAIN requests, NEW fields, Proceed(q, fields),
         DOMAIN fields \subseteq RequestFields \ {"call", "rest"},
         "user" \in DOMAIN fields => Head(requests[q].rest) \in Authenticators,
         "ability" \in DOMAIN fields => Head(requests[q].rest) \in Sighting
  PROVE  Advances(q)
BY DEF RequestInv, Proceed, Over, Advances, RequestFields

LEMMA AnswerAdvances ==
  ASSUME RequestInv, NEW q \in DOMAIN requests, NEW reply, Answer(q, reply)
  PROVE  Advances(q)
<1>1. /\ DOMAIN [reply |-> reply] \subseteq RequestFields \ {"call", "rest"}
      /\ "user" \notin DOMAIN [reply |-> reply] /\ "ability" \notin DOMAIN [reply |-> reply]
  BY DEF RequestFields
<1> QED  BY <1>1, ProceedAdvances DEF Answer

LEMMA FoundAdvances ==
  ASSUME RequestInv, NEW q \in DOMAIN requests, NEW x, Proceed(q, [found |-> x])
  PROVE  Advances(q)
<1>1. /\ DOMAIN [found |-> x] \subseteq RequestFields \ {"call", "rest"}
      /\ "user" \notin DOMAIN [found |-> x] /\ "ability" \notin DOMAIN [found |-> x]
  BY DEF RequestFields
<1> QED  BY <1>1, ProceedAdvances

LEMMA RefuseAdvances ==
  ASSUME RequestInv, NEW q \in DOMAIN requests, NEW status, Refuse(q, status)
  PROVE  Advances(q)
BY DEF RequestInv, Refuse, Advances, RequestFields

LEMMA ReturnAdvances ==
  ASSUME RequestInv, NEW q \in DOMAIN requests, NEW reply, Return(q, reply)
  PROVE  Advances(q)
BY DEF RequestInv, Return, Advances, RequestFields

LEMMA UnchangedKeeps ==
  ASSUME UsersInv, UNCHANGED db
  PROVE  CredentialsKept
BY DEF UsersInv, CredentialsKept

LEMMA PutAdvances ==
  ASSUME RequestInv, UsersInv, NEW q \in DOMAIN requests, NEW t, NEW id, NEW row, NEW reply,
         t # "users", Put(q, t, id, row, reply)
  PROVE  Advances(q) /\ CredentialsKept
<1>1. CASE Violates(db, t, id, row)
  BY <1>1, RefuseAdvances, UnchangedKeeps DEF Put
<1>2. CASE ~Violates(db, t, id, row)
  <2>1. DOMAIN db' = DOMAIN db /\ db'.users = db.users
    BY <1>2 DEF Put, WithRow, UsersInv
  <2> QED  BY <1>2, <2>1, AnswerAdvances DEF Put, CredentialsKept, UsersInv
<1> QED  BY <1>1, <1>2

LEMMA CreateAdvances ==
  ASSUME RequestInv, UsersInv, NEW q \in DOMAIN requests, NEW t, NEW row, NEW reply,
         t # "users", Create(q, t, row, reply)
  PROVE  Advances(q) /\ CredentialsKept
<1>1. CASE q \in DOMAIN db[t] \/ Violates(db, t, q, row)
  BY <1>1, RefuseAdvances, UnchangedKeeps DEF Create
<1>2. CASE ~(q \in DOMAIN db[t] \/ Violates(db, t, q, row))
  BY <1>2, PutAdvances DEF Create, Put
<1> QED  BY <1>1, <1>2

LEMMA UpdateAdvances ==
  ASSUME RequestInv, UsersInv, NEW q \in DOMAIN requests, NEW t, NEW id, NEW fields, NEW reply,
         t # "users", Update(q, t, id, fields, reply)
  PROVE  Advances(q) /\ CredentialsKept
BY PutAdvances, RefuseAdvances, UnchangedKeeps DEF Update

\* Rows of users go only as a whole.
LEMMA WithoutRowsUsers ==
  ASSUME NEW d, "users" \in DOMAIN d, NEW t, NEW ids
  PROVE  /\ "users" \in DOMAIN WithoutRows(d, t, ids)
         /\ DOMAIN WithoutRows(d, t, ids).users \subseteq DOMAIN d.users
         /\ \A u \in DOMAIN WithoutRows(d, t, ids).users : WithoutRows(d, t, ids).users[u] = d.users[u]
<1> DEFINE IsPart(e) == /\ "users" \in DOMAIN e /\ DOMAIN e.users \subseteq DOMAIN d.users
                        /\ \A u \in DOMAIN e.users : e.users[u] = d.users[u]
<1>1. IsPart(WithoutRowsOnly(d, t, ids))
  BY DEF WithoutRowsOnly
<1>2. ASSUME NEW e, IsPart(e)
      PROVE  IsPart(Swept(e))
  BY <1>2 DEF Swept
<1> HIDE DEF IsPart
<1>3. IsPart(WithoutRows(d, t, ids))
  BY <1>1, <1>2 DEF WithoutRows
<1> QED  BY <1>3 DEF IsPart

LEMMA DeleteAdvances ==
  ASSUME RequestInv, UsersInv, NEW q \in DOMAIN requests, NEW t, NEW id, Delete(q, t, id)
  PROVE  Advances(q) /\ CredentialsKept
<1>1. CASE id \in DOMAIN db[t]
  <2>1. db' = WithoutRows(db, t, {id}) /\ Answer(q, None)
    BY <1>1 DEF Delete
  <2>2. /\ "users" \in DOMAIN db'
        /\ DOMAIN db'.users \subseteq DOMAIN db.users
        /\ \A u \in DOMAIN db'.users : db'.users[u] = db.users[u]
    BY <2>1, WithoutRowsUsers DEF UsersInv
  <2> QED  BY <2>1, <2>2, AnswerAdvances DEF CredentialsKept, UsersInv
<1>2. CASE id \notin DOMAIN db[t]
  BY <1>2, RefuseAdvances, UnchangedKeeps DEF Delete
<1> QED  BY <1>1, <1>2

LEMMA FindAdvances ==
  ASSUME RequestInv, UsersInv, NEW q \in DOMAIN requests, NEW t, NEW id, NEW status, Find(q, t, id, status)
  PROVE  Advances(q) /\ CredentialsKept
BY FoundAdvances, RefuseAdvances, UnchangedKeeps DEF Find

LEMMA FindOwnAdvances ==
  ASSUME RequestInv, UsersInv, NEW q \in DOMAIN requests, NEW t, NEW id, FindOwn(q, t, id)
  PROVE  Advances(q) /\ CredentialsKept
BY FoundAdvances, RefuseAdvances, UnchangedKeeps DEF FindOwn

LEMMA PartAdvances ==
  ASSUME RequestInv, UsersInv, NEW q \in DOMAIN requests, NEW fields, Part(q, fields)
  PROVE  Advances(q) /\ CredentialsKept
BY AnswerAdvances, UnchangedKeeps DEF Part

LEMMA ReportAdvances ==
  ASSUME RequestInv, UsersInv, NEW q \in DOMAIN requests, NEW fields, Report(q, fields)
  PROVE  Advances(q) /\ CredentialsKept
BY PartAdvances, RefuseAdvances, UnchangedKeeps DEF Report

LEMMA ProviderAdvances ==
  ASSUME RequestInv, UsersInv, NEW q \in DOMAIN requests, NEW x, ProviderAnswers(q, [found |-> x])
  PROVE  Advances(q) /\ CredentialsKept
BY FoundAdvances, RefuseAdvances, UnchangedKeeps DEF ProviderAnswers

LEMMA UserAdvances ==
  ASSUME RequestInv, NEW q \in DOMAIN requests, NEW u, Proceed(q, [user |-> u]),
         Head(requests[q].rest) \in Authenticators
  PROVE  Advances(q)
<1>1. DOMAIN [user |-> u] \subseteq RequestFields \ {"call", "rest"} /\ "ability" \notin DOMAIN [user |-> u]
  BY DEF RequestFields
<1> QED  BY <1>1, ProceedAdvances

\* The statements of the first-run setup are those of its own requests.
LEMMA AtRuns ==
  ASSUME RequestInv
  PROVE  \A q \in DOMAIN requests : \A statement :
           /\ At(q, statement)
           /\ statement # "LockSetup" /\ statement # "CountUsers" /\ statement # "CreateAdmin"
           => ~Ended(q) /\ Call(q).op # "setup"
BY DEF RequestInv, IsRest, SetupRests, At, Ended, Call

LEMMA AuthenticateAdvances ==
  ASSUME RequestInv, UsersInv, NEW q \in DOMAIN requests, NEW administrator, Authenticate(q, administrator),
         Head(requests[q].rest) \in Authenticators
  PROVE  Advances(q) /\ CredentialsKept
BY UserAdvances, RefuseAdvances, UnchangedKeeps DEF Authenticate

LEMMA AbilityAdvances ==
  ASSUME RequestInv, UsersInv, NEW q \in DOMAIN requests, NEW a, Proceed(q, [ability |-> a]),
         Head(requests[q].rest) \in Sighting
  PROVE  Advances(q)
<1>1. DOMAIN [ability |-> a] \subseteq RequestFields \ {"call", "rest"} /\ "user" \notin DOMAIN [ability |-> a]
  BY DEF RequestFields
<1> QED  BY <1>1, ProceedAdvances

\* The queries of runs only read.
LEMMA QueryAdvances ==
  ASSUME RequestInv, UsersInv, NEW q \in DOMAIN requests, QueryStep(q)
  PROVE  Advances(q) /\ CredentialsKept /\ ~Ended(q) /\ Call(q).op # "setup"
<1>1. CASE ReadRuns(q)
  BY <1>1, AtRuns, PartAdvances DEF ReadRuns
<1>2. CASE CountRuns(q)
  BY <1>2, AtRuns, PartAdvances DEF CountRuns
<1>3. CASE ReadLatest(q)
  BY <1>3, AtRuns, PartAdvances DEF ReadLatest
<1>4. CASE FindNeedsAttention(q)
  BY <1>4, AtRuns, FoundAdvances, UnchangedKeeps DEF FindNeedsAttention
<1>5. CASE FindCurrent(q)
  BY <1>5, AtRuns, FoundAdvances, UnchangedKeeps DEF FindCurrent
<1>6. CASE ReadByIds(q)
  BY <1>6, AtRuns, PartAdvances DEF ReadByIds
<1>7. CASE CountAttention(q)
  BY <1>7, AtRuns, PartAdvances DEF CountAttention
<1>8. CASE CountAwaiting(q)
  BY <1>8, AtRuns, PartAdvances DEF CountAwaiting
<1>9. CASE ReadCompleted(q)
  BY <1>9, AtRuns, ReportAdvances DEF ReadCompleted
<1>10. CASE CountActive(q)
  BY <1>10, AtRuns, ReportAdvances DEF CountActive
<1>11. CASE SumCurrent(q)
  BY <1>11, AtRuns, ReportAdvances DEF SumCurrent
<1>12. CASE SumRetained(q)
  BY <1>12, AtRuns, ReportAdvances DEF SumRetained
<1>13. CASE ReadHealth(q)
  BY <1>13, AtRuns, ReportAdvances DEF ReadHealth
<1>14. CASE ReadTrend(q)
  BY <1>14, AtRuns, ReportAdvances DEF ReadTrend
<1> QED
  BY <1>1, <1>2, <1>3, <1>4, <1>5, <1>6, <1>7, <1>8, <1>9, <1>10, <1>11, <1>12, <1>13, <1>14 DEF QueryStep

\* A rule is written with its links, which go first where they are replaced.
LEMMA PutRuleAdvances ==
  ASSUME RequestInv, UsersInv, NEW q \in DOMAIN requests, NEW rule, NEW row, PutRule(q, rule, row)
  PROVE  Advances(q) /\ CredentialsKept
<1>1. ASSUME NEW replaced, NEW added,
             db' = [WithRow(WithoutRows(db, "links", replaced), "rules", rule, row) EXCEPT !.links = added]
      PROVE  CredentialsKept
  <2>1. /\ "users" \in DOMAIN db'
        /\ db'.users = WithoutRows(db, "links", replaced).users
    BY <1>1, WithoutRowsUsers DEF WithRow, UsersInv
  <2> QED  BY <2>1, WithoutRowsUsers DEF CredentialsKept, UsersInv
<1> QED  BY <1>1, AnswerAdvances, RefuseAdvances, UnchangedKeeps DEF PutRule

LEMMA NotificationAdvances ==
  ASSUME RequestInv, UsersInv, NEW q \in DOMAIN requests, NotificationStep(q)
  PROVE  Advances(q) /\ CredentialsKept /\ ~Ended(q) /\ Call(q).op # "setup"
<1>1. CASE AssertCanManageRepository(q)
  BY <1>1, AtRuns, FoundAdvances, RefuseAdvances, UnchangedKeeps DEF AssertCanManageRepository
<1>2. CASE GetManagedRepositoryIds(q)
  BY <1>2, AtRuns, AbilityAdvances, UnchangedKeeps DEF GetManagedRepositoryIds, At, Sighting
<1>3. CASE ReadChannels(q)
  BY <1>3, AtRuns, AnswerAdvances, UnchangedKeeps DEF ReadChannels
<1>4. CASE ReadRules(q)
  BY <1>4, AtRuns, AnswerAdvances, UnchangedKeeps DEF ReadRules
<1>5. CASE ReadDeliveries(q)
  BY <1>5, AtRuns, AnswerAdvances, UnchangedKeeps DEF ReadDeliveries
<1>6. CASE FindChannel(q)
  BY <1>6, AtRuns, FindAdvances DEF FindChannel
<1>7. CASE FindRule(q)
  BY <1>7, AtRuns, FindAdvances DEF FindRule
<1>8. CASE CreateChannel(q)
  BY <1>8, AtRuns, CreateAdvances DEF CreateChannel
<1>9. CASE UpdateChannel(q)
  BY <1>9, AtRuns, UpdateAdvances, RefuseAdvances, UnchangedKeeps DEF UpdateChannel
<1>10. CASE DeleteChannel(q)
  BY <1>10, AtRuns, DeleteAdvances DEF DeleteChannel
<1>11. CASE AssertChannelsBelongToRepository(q)
  BY <1>11, AtRuns, FoundAdvances, RefuseAdvances, UnchangedKeeps DEF AssertChannelsBelongToRepository
<1>12. CASE CreateRule(q)
  BY <1>12, AtRuns, PutRuleAdvances DEF CreateRule
<1>13. CASE UpdateRule(q)
  BY <1>13, AtRuns, PutRuleAdvances, RefuseAdvances, UnchangedKeeps DEF UpdateRule
<1>14. CASE DeleteRule(q)
  BY <1>14, AtRuns, DeleteAdvances DEF DeleteRule
<1> QED
  BY <1>1, <1>2, <1>3, <1>4, <1>5, <1>6, <1>7, <1>8, <1>9, <1>10, <1>11, <1>12, <1>13, <1>14 DEF NotificationStep

LEMMA RepositoryAdvances ==
  ASSUME RequestInv, UsersInv, NEW q \in DOMAIN requests, RepositoryStep(q)
  PROVE  Advances(q) /\ CredentialsKept /\ ~Ended(q) /\ Call(q).op # "setup"
<1>1. CASE GetReadAbility(q)
  BY <1>1, AtRuns, AbilityAdvances, UnchangedKeeps DEF GetReadAbility, At, Sighting
<1>2. CASE ReadRepositories(q)
  BY <1>2, AtRuns, PartAdvances DEF ReadRepositories
<1>3. CASE CountRepositories(q)
  BY <1>3, AtRuns, PartAdvances DEF CountRepositories
<1>4. CASE ReadRepository(q)
  BY <1>4, AtRuns, AnswerAdvances, RefuseAdvances, UnchangedKeeps DEF ReadRepository
<1>5. CASE RequireRepository(q)
  BY <1>5, AtRuns, FindAdvances DEF RequireRepository
<1>6. CASE ReadFilters(q)
  BY <1>6, AtRuns, AnswerAdvances, UnchangedKeeps DEF ReadFilters
<1>7. CASE CreateFilter(q)
  BY <1>7, AtRuns, CreateAdvances DEF CreateFilter
<1>8. CASE FindFilter(q)
  BY <1>8, AtRuns, FindOwnAdvances DEF FindFilter
<1>9. CASE DeleteFilter(q)
  BY <1>9, AtRuns, DeleteAdvances DEF DeleteFilter
<1>10. CASE ReadMemberships(q)
  BY <1>10, AtRuns, AnswerAdvances, UnchangedKeeps DEF ReadMemberships
<1>11. CASE FindMember(q)
  BY <1>11, AtRuns, FindAdvances DEF FindMember
<1>12. CASE UpsertMembership(q)
  BY <1>12, AtRuns, PutAdvances DEF UpsertMembership
<1>13. CASE FindMembership(q)
  BY <1>13, AtRuns, FoundAdvances, RefuseAdvances, UnchangedKeeps DEF FindMembership
<1>14. CASE DeleteMembership(q)
  BY <1>14, AtRuns, DeleteAdvances DEF DeleteMembership
<1>15. CASE UpdateRepository(q)
  BY <1>15, AtRuns, UpdateAdvances DEF UpdateRepository
<1>16. CASE FindWithAccount(q)
  BY <1>16, AtRuns, FoundAdvances, RefuseAdvances, UnchangedKeeps DEF FindWithAccount
<1>17. CASE AskProvider(q)
  BY <1>17, AtRuns, FoundAdvances, ReturnAdvances, RefuseAdvances, UnchangedKeeps DEF AskProvider
<1>18. CASE StoreMetadata(q)
  BY <1>18, AtRuns, UpdateAdvances DEF StoreMetadata
<1>19. CASE EnqueueRepositorySync(q)
  <2>1. ASSUME NEW r, db' = WithRow(db, "queue", r, [repository |-> r])
        PROVE  CredentialsKept
    BY <2>1 DEF WithRow, CredentialsKept, UsersInv
  <2> QED  BY <1>19, <2>1, AtRuns, AnswerAdvances, RefuseAdvances, UnchangedKeeps DEF EnqueueRepositorySync
<1> QED
  BY <1>1, <1>2, <1>3, <1>4, <1>5, <1>6, <1>7, <1>8, <1>9, <1>10, <1>11, <1>12, <1>13, <1>14, <1>15,
     <1>16, <1>17, <1>18, <1>19 DEF RepositoryStep

LEMMA AccountAdvances ==
  ASSUME RequestInv, UsersInv, NEW q \in DOMAIN requests, AccountStep(q)
  PROVE  Advances(q) /\ CredentialsKept /\ ~Ended(q) /\ Call(q).op # "setup"
<1>1. CASE ReadAccounts(q)
  BY <1>1, AtRuns, AnswerAdvances, UnchangedKeeps DEF ReadAccounts
<1>2. CASE RequireAccount(q)
  BY <1>2, AtRuns, FindAdvances DEF RequireAccount
<1>3. CASE RequireEnabled(q)
  BY <1>3, AtRuns, FindAdvances, RefuseAdvances, UnchangedKeeps DEF RequireEnabled
<1>4. CASE Discover(q)
  BY <1>4, AtRuns, ProviderAdvances DEF Discover
<1>5. CASE ReadTracked(q)
  BY <1>5, AtRuns, AnswerAdvances, UnchangedKeeps DEF ReadTracked
<1>6. CASE ValidateCredentials(q)
  BY <1>6, AtRuns, ProviderAdvances DEF ValidateCredentials
<1>7. CASE CreateAccount(q)
  BY <1>7, AtRuns, CreateAdvances DEF CreateAccount
<1>8. CASE UpdateAccount(q)
  BY <1>8, AtRuns, UpdateAdvances DEF UpdateAccount
<1>9. CASE RemoveAccount(q)
  BY <1>9, AtRuns, DeleteAdvances DEF RemoveAccount
<1>10. CASE DiscoverOne(q)
  BY <1>10, AtRuns, ProviderAdvances, RefuseAdvances, UnchangedKeeps DEF DiscoverOne
<1>11. CASE CreateRepository(q)
  BY <1>11, AtRuns, CreateAdvances DEF CreateRepository
<1>12. CASE IssueState(q)
  BY <1>12, AtRuns, AnswerAdvances, UnchangedKeeps DEF IssueState
<1>13. CASE ConsumeState(q)
  <2>1. ASSUME NEW u, NEW x, Proceed(q, [user |-> u, found |-> x])
        PROVE  Advances(q)
    <3>1. /\ DOMAIN [user |-> u, found |-> x] \subseteq RequestFields \ {"call", "rest"}
          /\ "ability" \notin DOMAIN [user |-> u, found |-> x]
      BY DEF RequestFields
    <3>2. Head(requests[q].rest) \in Authenticators
      BY <1>13 DEF ConsumeState, At, Authenticators
    <3> QED  BY <2>1, <3>1, <3>2, ProceedAdvances
  <2> QED  BY <1>13, <2>1, AtRuns, RefuseAdvances, UnchangedKeeps DEF ConsumeState
<1>14. CASE ExchangeCode(q)
  BY <1>14, AtRuns, ProviderAdvances DEF ExchangeCode
<1>15. CASE FindAccount(q)
  BY <1>15, AtRuns, FoundAdvances, RefuseAdvances, UnchangedKeeps DEF FindAccount
<1>16. CASE InsertDelivery(q)
  BY <1>16, AtRuns, FoundAdvances, ReturnAdvances, RefuseAdvances, UnchangedKeeps DEF InsertDelivery
<1>17. CASE EnqueueWebhookRepository(q)
  BY <1>17, AtRuns, FoundAdvances, UnchangedKeeps DEF EnqueueWebhookRepository
<1>18. CASE CommitDelivery(q)
  <2>1. "users" \in DOMAIN db' /\ db'.users = db.users
    BY <1>18 DEF CommitDelivery, WithRow, UsersInv
  <2> QED  BY <1>18, <2>1, AtRuns, AnswerAdvances DEF CommitDelivery, CredentialsKept, UsersInv
<1> QED
  BY <1>1, <1>2, <1>3, <1>4, <1>5, <1>6, <1>7, <1>8, <1>9, <1>10, <1>11, <1>12, <1>13, <1>14, <1>15,
     <1>16, <1>17, <1>18 DEF AccountStep

\* A change of a profile or of an avatar, and what touches other tables.
LEMMA ProfileAdvances ==
  ASSUME RequestInv, UsersInv, NEW q \in DOMAIN requests, NEW u, NEW row, NEW reply,
         u \in DOMAIN db.users, Credentials \subseteq DOMAIN row, \A f \in Credentials : row[f] = db.users[u][f],
         Put(q, "users", u, row, reply)
  PROVE  Advances(q) /\ CredentialsKept
<1>1. CASE Violates(db, "users", u, row)
  BY <1>1, RefuseAdvances, UnchangedKeeps DEF Put
<1>2. CASE ~Violates(db, "users", u, row)
  <2>1. DOMAIN db' = DOMAIN db /\ db'.users = Over([i \in {u} |-> row], db.users)
    BY <1>2 DEF Put, WithRow, UsersInv
  <2>2. DOMAIN db'.users = DOMAIN db.users /\ \A i \in DOMAIN db.users : db'.users[i] = IF i = u THEN row ELSE db.users[i]
    BY <2>1 DEF Over
  <2>3. CredentialsKept
    BY <2>1, <2>2 DEF CredentialsKept, UsersInv
  <2> QED  BY <1>2, <2>3, AnswerAdvances DEF Put
<1> QED  BY <1>1, <1>2

\* The statements of AccessStep that change no credentials.
LEMMA AccessAdvances ==
  ASSUME RequestInv, UsersInv, NEW q \in DOMAIN requests, AccessStep(q), ~ResetPassword(q), ~CreateUser(q)
  PROVE  Advances(q) /\ CredentialsKept /\ ~Ended(q) /\ Call(q).op # "setup"
<1>1. CASE FindForProfile(q)
  BY <1>1, AtRuns, FoundAdvances, RefuseAdvances, UnchangedKeeps DEF FindForProfile
<1>2. CASE UpdateProfile(q)
  <2> DEFINE u == UserOf(q).id
             given == Given(Input(q), {"username", "name"})
             row == Over(given, db.users[u])
  <2>1. CASE u \notin DOMAIN db.users
    BY <1>2, <2>1, AtRuns, RefuseAdvances, UnchangedKeeps DEF UpdateProfile, Update
  <2>2. CASE u \in DOMAIN db.users
    <3>1. Credentials \subseteq DOMAIN db.users[u]
      BY <2>2 DEF UsersInv
    <3>2. DOMAIN given \cap Credentials = {}
      BY DEF Given, Credentials
    <3>3. Credentials \subseteq DOMAIN row /\ \A f \in Credentials : row[f] = db.users[u][f]
      BY <3>1, <3>2 DEF Over
    <3> QED  BY <1>2, <2>2, <3>3, AtRuns, ProfileAdvances DEF UpdateProfile, Update
  <2> QED  BY <2>1, <2>2
<1>3. CASE FindByUsername(q)
  BY <1>3, AtRuns, FoundAdvances, RefuseAdvances, UnchangedKeeps DEF FindByUsername
<1>4. CASE ReadMe(q)
  BY <1>4, AtRuns, AnswerAdvances, UnchangedKeeps DEF ReadMe
<1>5. CASE SaveAvatar(q)
  <2> DEFINE u == UserOf(q).id
             row == [db.users[u] EXCEPT !.avatar = Input(q).image]
  <2>1. CASE u \notin DOMAIN db.users
    BY <1>5, <2>1, AtRuns, RefuseAdvances, UnchangedKeeps DEF SaveAvatar
  <2>2. CASE u \in DOMAIN db.users
    <3>1. Credentials \subseteq DOMAIN row /\ \A f \in Credentials : row[f] = db.users[u][f]
      BY <2>2 DEF UsersInv, Credentials
    <3> QED  BY <1>5, <2>2, <3>1, AtRuns, ProfileAdvances DEF SaveAvatar
  <2> QED  BY <2>1, <2>2
<1>6. CASE RemoveAvatar(q)
  <2>1. CredentialsKept
    BY <1>6 DEF RemoveAvatar, CredentialsKept, UsersInv, Credentials
  <2> QED  BY <1>6, <2>1, AtRuns, AnswerAdvances DEF RemoveAvatar
<1>7. CASE ReadAvatar(q)
  BY <1>7, AtRuns, AnswerAdvances, RefuseAdvances, UnchangedKeeps DEF ReadAvatar
<1>8. CASE ReadUsers(q)
  BY <1>8, AtRuns, AnswerAdvances, UnchangedKeeps DEF ReadUsers
<1>9. CASE RemoveUser(q)
  BY <1>9, AtRuns, DeleteAdvances, RefuseAdvances, UnchangedKeeps DEF RemoveUser
<1>10. CASE ReadTokens(q)
  BY <1>10, AtRuns, AnswerAdvances, RefuseAdvances, UnchangedKeeps DEF ReadTokens
<1>11. CASE CreateToken(q)
  BY <1>11, AtRuns, CreateAdvances, RefuseAdvances, UnchangedKeeps DEF CreateToken
<1>12. CASE FindToken(q)
  BY <1>12, AtRuns, FoundAdvances, ReturnAdvances, RefuseAdvances, UnchangedKeeps DEF FindToken
<1>13. CASE RevokeToken(q)
  BY <1>13, AtRuns, UpdateAdvances DEF RevokeToken
<1>14. CASE AuthenticateToken(q)
  BY <1>14, AtRuns, UserAdvances, RefuseAdvances, UnchangedKeeps DEF AuthenticateToken, At, Authenticators
<1>15. CASE TouchToken(q)
  BY <1>15, AtRuns, PutAdvances, RefuseAdvances, UnchangedKeeps DEF TouchToken
<1>16. CASE ReadSettings(q)
  BY <1>16, AtRuns, AnswerAdvances, UnchangedKeeps DEF ReadSettings
<1>17. CASE UpsertSettings(q)
  <2>1. "users" \in DOMAIN db' /\ db'.users = db.users
    BY <1>17 DEF UpsertSettings, UsersInv
  <2> QED  BY <1>17, <2>1, AtRuns, AnswerAdvances DEF UpsertSettings, CredentialsKept, UsersInv
<1> QED
  BY <1>1, <1>2, <1>3, <1>4, <1>5, <1>6, <1>7, <1>8, <1>9, <1>10, <1>11, <1>12, <1>13, <1>14, <1>15,
     <1>16, <1>17 DEF AccessStep

-----------------------------------------------------------------------------
(***************************************************************************)
(* Routes.                                                                 *)
(***************************************************************************)
\* The routes of a controller run no statement that creates a user, but for two operations.
NoneCreates(routes) ==
  \A op \in DOMAIN routes : op \notin CreatingOps => \A s \in routes[op] : NeverCreates(s)

LEMMA WithinNoneCreates ==
  ASSUME NEW routes, NEW S, S \cap Creating = {},
         \A op \in DOMAIN routes : op \notin CreatingOps => routes[op] \subseteq Seq(S)
  PROVE  NoneCreates(routes)
BY DEF NoneCreates, NeverCreates

LEMMA FewAreFinite ==
  ASSUME NEW a, NEW b, NEW c, NEW d, NEW e
  PROVE  IsFiniteSet({a, b}) /\ IsFiniteSet({a, b, c, d, e})
<1>1. IsFiniteSet({a} \cup {b})
  BY FS_Singleton, FS_AddElement
<1>2. IsFiniteSet((({a} \cup {b}) \cup {c}) \cup {d})
  BY <1>1, FS_AddElement
<1>3. IsFiniteSet(((({a} \cup {b}) \cup {c}) \cup {d}) \cup {e})
  BY <1>2, FS_AddElement
<1>4. {a} \cup {b} = {a, b} /\ ((({a} \cup {b}) \cup {c}) \cup {d}) \cup {e} = {a, b, c, d, e}
  OBVIOUS
<1> QED  BY <1>1, <1>3, <1>4

LEMMA TogetherWithin ==
  ASSUME NEW S, NEW statements \in SUBSET S, IsFiniteSet(statements)
  PROVE  Together(statements) \subseteq Seq(S)
<1>1. Cardinality(statements) \in Nat
  BY FS_CardinalityType
<1> QED  BY <1>1 DEF Together, SetToSeqs

LEMMA RoutesWithin ==
  ASSUME NEW S, NEW s \in Seq(S), NEW tails \in SUBSET Seq(S)
  PROVE  /\ "Authenticate" \in S => Guarded(s) \subseteq Seq(S)
         /\ "AuthenticateAdmin" \in S => AdminOnly(s) \subseteq Seq(S)
         /\ {"Authenticate", "Ability"} \subseteq S => Visible(tails) \subseteq Seq(S)
         /\ {"AuthenticateToken", "TouchToken", "Ability"} \subseteq S => Mcp(tails) \subseteq Seq(S)
<1>1. "Authenticate" \in S => <<"Authenticate">> \in Seq(S)
  OBVIOUS
<1>2. "AuthenticateAdmin" \in S => <<"AuthenticateAdmin">> \in Seq(S)
  OBVIOUS
<1>3. {"Authenticate", "Ability"} \subseteq S => <<"Authenticate", "Ability">> \in Seq(S)
  OBVIOUS
<1>4. {"AuthenticateToken", "TouchToken", "Ability"} \subseteq S
      => <<"AuthenticateToken", "TouchToken", "Ability">> \in Seq(S)
  OBVIOUS
<1>5. "Authenticate" \in S => Guarded(s) \subseteq Seq(S)
  BY <1>1 DEF Guarded
<1>6. "AuthenticateAdmin" \in S => AdminOnly(s) \subseteq Seq(S)
  BY <1>2 DEF AdminOnly
<1>7. {"Authenticate", "Ability"} \subseteq S => Visible(tails) \subseteq Seq(S)
  <2>1. ASSUME {"Authenticate", "Ability"} \subseteq S
        PROVE  \A t \in tails : <<"Authenticate", "Ability">> \o t \in Seq(S)
    BY <1>3, <2>1
  <2> QED  BY <2>1 DEF Visible
<1>8. {"AuthenticateToken", "TouchToken", "Ability"} \subseteq S => Mcp(tails) \subseteq Seq(S)
  <2>1. ASSUME {"AuthenticateToken", "TouchToken", "Ability"} \subseteq S
        PROVE  \A t \in tails : <<"AuthenticateToken", "TouchToken", "Ability">> \o t \in Seq(S)
    BY <1>4, <2>1
  <2> QED  BY <2>1 DEF Mcp
<1> QED  BY <1>5, <1>6, <1>7, <1>8

LEMMA AuthNoneCreates == NoneCreates(AuthRoutes)
<1> DEFINE S == {"SignIn", "ReadSetupStatus", "Authenticate", "ReadMe", "FindForProfile", "UpdateProfile",
                 "SaveAvatar", "RemoveAvatar", "FindForPassword", "UpdatePassword"}
<1>1. S \cap Creating = {}
  BY DEF Creating
<1>2. /\ {<<"SignIn">>} \subseteq Seq(S) /\ {<<"ReadSetupStatus">>} \subseteq Seq(S)
      /\ {<<"ReadMe">>, <<"FindForProfile", "UpdateProfile">>, <<"SaveAvatar">>, <<"RemoveAvatar">>, <<>>,
          <<"FindForPassword", "UpdatePassword">>} \subseteq Seq(S)
      /\ "Authenticate" \in S
  OBVIOUS
<1> HIDE DEF S
<1>3. \A op \in DOMAIN AuthRoutes : op \notin CreatingOps => AuthRoutes[op] \subseteq Seq(S)
  <2>1. \A s \in {<<"ReadMe">>, <<"FindForProfile", "UpdateProfile">>, <<"SaveAvatar">>, <<"RemoveAvatar">>, <<>>,
                   <<"FindForPassword", "UpdatePassword">>} : Guarded(s) \subseteq Seq(S)
    BY <1>2, RoutesWithin
  <2> QED  BY <1>2, <2>1 DEF AuthRoutes, CreatingOps
<1> QED  BY <1>1, <1>3, WithinNoneCreates

LEMMA McpTokensRoutesNoneCreates == NoneCreates(McpTokensRoutes)
<1> DEFINE S == {"Authenticate", "ReadTokens", "CreateToken", "FindToken", "RevokeToken"}
           T == {<<"ReadTokens">>, <<"CreateToken">>, <<"FindToken", "RevokeToken">>}
<1>1. S \cap Creating = {}
  BY DEF Creating
<1>2. T \subseteq Seq(S) /\ {"Authenticate"} \subseteq S
  OBVIOUS
<1>3. \A s \in T : Guarded(s) \subseteq Seq(S)
  BY <1>2, RoutesWithin
<1>4. \A op \in DOMAIN McpTokensRoutes : McpTokensRoutes[op] \subseteq Seq(S)
  <2> HIDE DEF S
  <2> QED  BY <1>2, <1>3 DEF McpTokensRoutes
<1> QED  BY <1>1, <1>4, WithinNoneCreates

LEMMA SettingsRoutesNoneCreates == NoneCreates(SettingsRoutes)
<1> DEFINE S == {"Authenticate", "AuthenticateAdmin", "ReadSettings", "UpsertSettings"}
           T == {<<"ReadSettings">>, <<"UpsertSettings">>}
<1>1. S \cap Creating = {}
  BY DEF Creating
<1>2. T \subseteq Seq(S) /\ {"Authenticate", "AuthenticateAdmin"} \subseteq S
  OBVIOUS
<1>3. /\ \A s \in T : Guarded(s) \subseteq Seq(S)
      /\ \A s \in T : AdminOnly(s) \subseteq Seq(S)
  BY <1>2, RoutesWithin
<1>4. \A op \in DOMAIN SettingsRoutes : SettingsRoutes[op] \subseteq Seq(S)
  <2> HIDE DEF S
  <2> QED  BY <1>2, <1>3 DEF SettingsRoutes
<1> QED  BY <1>1, <1>4, WithinNoneCreates

LEMMA RepositoriesRoutesNoneCreates == NoneCreates(RepositoriesRoutes)
<1> DEFINE S == {"Authenticate", "AuthenticateAdmin", "Ability", "ReadRepositories", "ReadRepository",
                  "RequireRepository", "ReadFilters", "CreateFilter", "FindFilter", "DeleteFilter",
                  "ReadMemberships", "FindMember", "UpsertMembership", "FindMembership",
                  "DeleteMembership", "UpdateRepository"}
           T == {<<"ReadRepositories">>, <<"ReadRepository">>, <<"RequireRepository", "ReadFilters">>,
                  <<"RequireRepository", "CreateFilter">>, <<"FindFilter", "DeleteFilter">>,
                  <<"RequireRepository", "ReadMemberships">>,
                  <<"RequireRepository", "FindMember", "UpsertMembership">>,
                  <<"FindMembership", "DeleteMembership">>, <<"UpdateRepository">>}
<1>1. S \cap Creating = {}
  BY DEF Creating
<1>2. T \subseteq Seq(S) /\ {"Authenticate", "AuthenticateAdmin", "Ability"} \subseteq S
  OBVIOUS
<1>3. /\ \A s \in T : AdminOnly(s) \subseteq Seq(S)
      /\ \A s \in T : Visible({s}) \subseteq Seq(S)
  BY <1>2, RoutesWithin
<1>4. \A op \in DOMAIN RepositoriesRoutes : RepositoriesRoutes[op] \subseteq Seq(S)
  <2> HIDE DEF S
  <2> QED  BY <1>2, <1>3 DEF RepositoriesRoutes
<1> QED  BY <1>1, <1>4, WithinNoneCreates

LEMMA RefreshRoutesNoneCreates == NoneCreates(RefreshRoutes)
<1> DEFINE S == {"AuthenticateAdmin", "FindWithAccount", "AskProvider", "StoreMetadata", "EnqueueSync"}
           T == {<<"FindWithAccount", "AskProvider", "StoreMetadata">>, <<"EnqueueSync">>}
<1>1. S \cap Creating = {}
  BY DEF Creating
<1>2. T \subseteq Seq(S) /\ {"AuthenticateAdmin"} \subseteq S
  OBVIOUS
<1>3. \A s \in T : AdminOnly(s) \subseteq Seq(S)
  BY <1>2, RoutesWithin
<1>4. \A op \in DOMAIN RefreshRoutes : RefreshRoutes[op] \subseteq Seq(S)
  <2> HIDE DEF S
  <2> QED  BY <1>2, <1>3 DEF RefreshRoutes
<1> QED  BY <1>1, <1>4, WithinNoneCreates

LEMMA ChannelsRoutesNoneCreates == NoneCreates(ChannelsRoutes)
<1> DEFINE S == {"Authenticate", "Ability", "ReadChannels", "AssertCanManage", "CreateChannel",
                  "FindChannel", "UpdateChannel", "DeleteChannel"}
           T == {<<"ReadChannels">>, <<"AssertCanManage", "CreateChannel">>,
                  <<"FindChannel", "AssertCanManage", "UpdateChannel">>,
                  <<"FindChannel", "AssertCanManage", "DeleteChannel">>}
<1>1. S \cap Creating = {}
  BY DEF Creating
<1>2. T \subseteq Seq(S) /\ {"Authenticate", "Ability"} \subseteq S
  OBVIOUS
<1>3. /\ \A s \in T : Guarded(s) \subseteq Seq(S)
      /\ \A s \in T : Visible({s}) \subseteq Seq(S)
  BY <1>2, RoutesWithin
<1>4. \A op \in DOMAIN ChannelsRoutes : ChannelsRoutes[op] \subseteq Seq(S)
  <2> HIDE DEF S
  <2> QED  BY <1>2, <1>3 DEF ChannelsRoutes
<1> QED  BY <1>1, <1>4, WithinNoneCreates

LEMMA RulesRoutesNoneCreates == NoneCreates(RulesRoutes)
<1> DEFINE S == {"Authenticate", "Ability", "ReadRules", "AssertCanManage", "CheckChannels",
                  "CreateRule", "FindRule", "UpdateRule", "DeleteRule"}
           T == {<<"ReadRules">>, <<"AssertCanManage", "CheckChannels", "CreateRule">>,
                  <<"FindRule", "AssertCanManage", "CheckChannels", "UpdateRule">>,
                  <<"FindRule", "AssertCanManage", "DeleteRule">>}
<1>1. S \cap Creating = {}
  BY DEF Creating
<1>2. T \subseteq Seq(S) /\ {"Authenticate", "Ability"} \subseteq S
  OBVIOUS
<1>3. /\ \A s \in T : Guarded(s) \subseteq Seq(S)
      /\ \A s \in T : Visible({s}) \subseteq Seq(S)
  BY <1>2, RoutesWithin
<1>4. \A op \in DOMAIN RulesRoutes : RulesRoutes[op] \subseteq Seq(S)
  <2> HIDE DEF S
  <2> QED  BY <1>2, <1>3 DEF RulesRoutes
<1> QED  BY <1>1, <1>4, WithinNoneCreates

LEMMA DeliveriesRoutesNoneCreates == NoneCreates(DeliveriesRoutes)
<1> DEFINE S == {"Authenticate", "ManagedIds", "ReadDeliveries"}
           T == {<<"ManagedIds", "ReadDeliveries">>}
<1>1. S \cap Creating = {}
  BY DEF Creating
<1>2. T \subseteq Seq(S) /\ {"Authenticate"} \subseteq S
  OBVIOUS
<1>3. \A s \in T : Guarded(s) \subseteq Seq(S)
  BY <1>2, RoutesWithin
<1>4. \A op \in DOMAIN DeliveriesRoutes : DeliveriesRoutes[op] \subseteq Seq(S)
  <2> HIDE DEF S
  <2> QED  BY <1>2, <1>3 DEF DeliveriesRoutes
<1> QED  BY <1>1, <1>4, WithinNoneCreates


LEMMA UsersNoneCreates == NoneCreates(UsersRoutes)
<1> DEFINE S == {"Authenticate", "AuthenticateAdmin", "ReadUsers", "ReadAvatar", "RemoveUser"}
<1>1. S \cap Creating = {}
  BY DEF Creating
<1>2. {<<"ReadUsers">>, <<"ReadAvatar">>, <<"RemoveUser">>} \subseteq Seq(S) /\ {"Authenticate", "AuthenticateAdmin"} \subseteq S
  OBVIOUS
<1>3. /\ AdminOnly(<<"ReadUsers">>) \subseteq Seq(S) /\ Guarded(<<"ReadAvatar">>) \subseteq Seq(S)
      /\ AdminOnly(<<"RemoveUser">>) \subseteq Seq(S)
  BY <1>2, RoutesWithin
<1>4. \A op \in DOMAIN UsersRoutes : op \notin CreatingOps => UsersRoutes[op] \subseteq Seq(S)
  <2> HIDE DEF S
  <2> QED  BY <1>3 DEF UsersRoutes, CreatingOps
<1> QED  BY <1>1, <1>4, WithinNoneCreates

LEMMA OpenNoneCreates ==
  NoneCreates(ResetRoutes) /\ NoneCreates(CallbackRoutes) /\ NoneCreates(WebhookRoutes)
<1>1. NoneCreates(ResetRoutes)
  <2> DEFINE S == {"FindByUsername", "ResetPassword"}
  <2>1. S \cap Creating = {}
    BY DEF Creating
  <2>2. {<<"FindByUsername", "ResetPassword">>} \subseteq Seq(S)
    OBVIOUS
  <2> HIDE DEF S
  <2>3. \A op \in DOMAIN ResetRoutes : ResetRoutes[op] \subseteq Seq(S)
    <3>1. DOMAIN ResetRoutes = {"resetPassword"} /\ ResetRoutes.resetPassword \subseteq Seq(S)
      BY <2>2 DEF ResetRoutes
    <3> QED  BY <3>1
  <2> QED  BY <2>1, <2>3, WithinNoneCreates
<1>2. NoneCreates(CallbackRoutes)
  <2> DEFINE S == {"ConsumeState", "ExchangeCode", "ValidateCredentials", "CreateAccount"}
  <2>1. S \cap Creating = {}
    BY DEF Creating
  <2>2. {<<"ConsumeState", "ExchangeCode", "ValidateCredentials", "CreateAccount">>} \subseteq Seq(S)
    OBVIOUS
  <2> HIDE DEF S
  <2>3. \A op \in DOMAIN CallbackRoutes : CallbackRoutes[op] \subseteq Seq(S)
    <3>1. DOMAIN CallbackRoutes = {"callback"} /\ CallbackRoutes.callback \subseteq Seq(S)
      BY <2>2 DEF CallbackRoutes
    <3> QED  BY <3>1
  <2> QED  BY <2>1, <2>3, WithinNoneCreates
<1>3. NoneCreates(WebhookRoutes)
  <2> DEFINE S == {"FindAccount", "InsertDelivery", "EnqueueWebhook", "CommitDelivery"}
  <2>1. S \cap Creating = {}
    BY DEF Creating
  <2>2. {<<"FindAccount", "InsertDelivery", "EnqueueWebhook", "CommitDelivery">>} \subseteq Seq(S)
    OBVIOUS
  <2> HIDE DEF S
  <2>3. \A op \in DOMAIN WebhookRoutes : WebhookRoutes[op] \subseteq Seq(S)
    <3>1. DOMAIN WebhookRoutes = {"webhook"} /\ WebhookRoutes.webhook \subseteq Seq(S)
      BY <2>2 DEF WebhookRoutes
    <3> QED  BY <3>1
  <2> QED  BY <2>1, <2>3, WithinNoneCreates
<1> QED  BY <1>1, <1>2, <1>3

LEMMA AccountsNoneCreates == NoneCreates(AccountsRoutes)
<1> DEFINE S == {"AuthenticateAdmin", "ReadAccounts", "RequireEnabled", "Discover", "ReadTracked", "ValidateCredentials",
                 "CreateAccount", "DiscoverOne", "CreateRepository", "EnqueueSync", "IssueState", "RequireAccount",
                 "UpdateAccount", "RemoveAccount"}
           T == {<<"ReadAccounts">>, <<"ValidateCredentials", "CreateAccount">>,
                 <<"RequireEnabled", "DiscoverOne", "CreateRepository", "EnqueueSync">>, <<"IssueState">>,
                 <<"RequireAccount", "UpdateAccount">>, <<"RequireAccount", "RemoveAccount">>}
           L == {<<"AuthenticateAdmin", "RequireEnabled">> \o s : s \in Together({"Discover", "ReadTracked"})}
<1>1. S \cap Creating = {}
  BY DEF Creating
<1>2. /\ T \subseteq Seq(S) /\ "AuthenticateAdmin" \in S /\ <<"AuthenticateAdmin", "RequireEnabled">> \in Seq(S)
      /\ {"Discover", "ReadTracked"} \subseteq S
  OBVIOUS
<1> HIDE DEF S
<1>3. \A s \in T : AdminOnly(s) \subseteq Seq(S)
  BY <1>2, RoutesWithin
<1>4. L \subseteq Seq(S)
  <2>1. IsFiniteSet({"Discover", "ReadTracked"})
    BY FewAreFinite
  <2>2. Together({"Discover", "ReadTracked"}) \subseteq Seq(S)
    BY <1>2, <2>1, TogetherWithin
  <2> QED  BY <1>2, <2>2
<1>5. \A op \in DOMAIN AccountsRoutes : AccountsRoutes[op] \subseteq Seq(S)
  <2> SUFFICES ASSUME NEW op \in DOMAIN AccountsRoutes
               PROVE  AccountsRoutes[op] \subseteq Seq(S)
    OBVIOUS
  <2>1. CASE op = "listAvailable"
    BY <1>4, <2>1 DEF AccountsRoutes
  <2>2. CASE op # "listAvailable"
    BY <1>3, <2>2 DEF AccountsRoutes
  <2> QED  BY <2>1, <2>2
<1> QED  BY <1>1, <1>5, WithinNoneCreates

LEMMA RunsNoneCreates ==
  NoneCreates(WorkflowRunsRoutes) /\ NoneCreates(DashboardRoutes) /\ NoneCreates(McpRoutes)
<1> DEFINE S == {"Authenticate", "AuthenticateToken", "TouchToken", "Ability", "ReadRuns", "NeedsAttentionIds", "ReadByIds",
                 "CurrentIds", "ReadLatest", "ReadHealth", "ReadTrend", "ReadRepositories", "CountRepositories",
                 "ReadRepository", "CountRuns", "CountAttention", "CountAwaiting", "ReadCompleted", "CountActive",
                 "SumCurrent", "SumRetained"}
           T == {<<"ReadRuns">>, <<"NeedsAttentionIds", "ReadByIds">>, <<"CurrentIds", "ReadByIds">>, <<"ReadLatest">>,
                 <<"ReadHealth">>, <<"ReadTrend">>, <<"ReadRepository">>}
           T1 == {<<"NeedsAttentionIds", "ReadByIds", "CountAttention">>, <<"CountAttention", "NeedsAttentionIds", "ReadByIds">>}
           T2 == {<<"CurrentIds", "ReadByIds", "CountAwaiting">>, <<"CountAwaiting", "CurrentIds", "ReadByIds">>}
           P1 == {"ReadRepositories", "CountRepositories"}
           P2 == {"ReadRuns", "CountRuns"}
           P3 == {"ReadCompleted", "CurrentIds", "CountActive", "SumCurrent", "SumRetained"}
<1>1. S \cap Creating = {}
  BY DEF Creating
<1>2. /\ T \subseteq Seq(S) /\ T1 \subseteq Seq(S) /\ T2 \subseteq Seq(S)
      /\ {"Authenticate", "Ability"} \subseteq S /\ {"AuthenticateToken", "TouchToken", "Ability"} \subseteq S
      /\ P1 \subseteq S /\ P2 \subseteq S /\ P3 \subseteq S
  OBVIOUS
<1>3. IsFiniteSet(P1) /\ IsFiniteSet(P2) /\ IsFiniteSet(P3)
  BY FewAreFinite
<1> HIDE DEF S
<1>4. Together(P1) \subseteq Seq(S) /\ Together(P2) \subseteq Seq(S) /\ Together(P3) \subseteq Seq(S)
  BY <1>2, <1>3, TogetherWithin
<1>5. SummaryOrders \subseteq Seq(S)
  BY <1>4 DEF SummaryOrders
<1> HIDE DEF P1, P2, P3
<1>6. \A s \in T : {s} \subseteq Seq(S)
  BY <1>2
<1>7. \A s \in T : Visible({s}) \subseteq Seq(S) /\ Mcp({s}) \subseteq Seq(S)
  BY <1>2, <1>6, RoutesWithin
<1> HIDE DEF T1, T2
<1>8. /\ Visible(SummaryOrders) \subseteq Seq(S) /\ Mcp(SummaryOrders) \subseteq Seq(S)
      /\ Mcp(Together(P1)) \subseteq Seq(S) /\ Mcp(Together(P2)) \subseteq Seq(S)
      /\ Mcp(T1) \subseteq Seq(S) /\ Mcp(T2) \subseteq Seq(S)
  BY <1>2, <1>4, <1>5, RoutesWithin
<1>9. \A op \in DOMAIN WorkflowRunsRoutes : WorkflowRunsRoutes[op] \subseteq Seq(S)
  BY <1>7 DEF WorkflowRunsRoutes
<1>10. \A op \in DOMAIN DashboardRoutes : DashboardRoutes[op] \subseteq Seq(S)
  BY <1>7, <1>8 DEF DashboardRoutes
<1>11. \A op \in DOMAIN McpRoutes : McpRoutes[op] \subseteq Seq(S)
  BY <1>7, <1>8 DEF McpRoutes, P1, P2, T1, T2
<1> QED  BY <1>1, <1>9, <1>10, <1>11, WithinNoneCreates

LEMMA ControllersNoneCreate == \A c \in Controllers : NoneCreates(c)
BY AuthNoneCreates, UsersNoneCreates, McpTokensRoutesNoneCreates, SettingsRoutesNoneCreates, OpenNoneCreates,
   RepositoriesRoutesNoneCreates, RefreshRoutesNoneCreates, ChannelsRoutesNoneCreates, RulesRoutesNoneCreates,
   DeliveriesRoutesNoneCreates, AccountsNoneCreates, RunsNoneCreates DEF Controllers

\* The two operations that create users have one controller each.
LEMMA CreatingControllers ==
  \A c \in Controllers : /\ "setup" \in DOMAIN c => c = AuthRoutes
                         /\ "createUser" \in DOMAIN c => c = UsersRoutes
<1> DEFINE None2(c) == "setup" \notin DOMAIN c /\ "createUser" \notin DOMAIN c
<1>1. "createUser" \notin DOMAIN AuthRoutes /\ "setup" \notin DOMAIN UsersRoutes
  BY DEF AuthRoutes, UsersRoutes
<1>2. None2(McpTokensRoutes) /\ None2(SettingsRoutes) /\ None2(ResetRoutes)
  BY DEF McpTokensRoutes, SettingsRoutes, ResetRoutes
<1>3. None2(RepositoriesRoutes) /\ None2(RefreshRoutes)
  BY DEF RepositoriesRoutes, RefreshRoutes
<1>4. None2(ChannelsRoutes) /\ None2(RulesRoutes) /\ None2(DeliveriesRoutes)
  BY DEF ChannelsRoutes, RulesRoutes, DeliveriesRoutes
<1>5. None2(AccountsRoutes) /\ None2(CallbackRoutes) /\ None2(WebhookRoutes)
  BY DEF AccountsRoutes, CallbackRoutes, WebhookRoutes
<1>6. None2(WorkflowRunsRoutes) /\ None2(DashboardRoutes) /\ None2(McpRoutes)
  BY DEF WorkflowRunsRoutes, DashboardRoutes, McpRoutes
<1> QED  BY <1>1, <1>2, <1>3, <1>4, <1>5, <1>6 DEF Controllers

LEMMA PairConcat ==
  ASSUME NEW a, NEW b
  PROVE  <<a>> \o <<b>> = <<a, b>>
<1> DEFINE s == <<a>> \o <<b>>
           t == <<a, b>>
<1>1. s \in Seq({a, b}) /\ t \in Seq({a, b}) /\ Len(s) = Len(t)
  OBVIOUS
<1>2. \A i \in 1..Len(s) : s[i] = t[i]
  OBVIOUS
<1>3. s = t
  <2> HIDE DEF s, t
  <2> QED  BY <1>1, <1>2, SeqEqual
<1> QED  BY <1>3

LEMMA RouteIsRest ==
  ASSUME NEW op \in DOMAIN Routes, NEW s \in Routes[op]
  PROVE  IsRest(s, op) /\ (op = "setup" => s = <<"LockSetup", "CountUsers", "CreateAdmin">>)
<1> DEFINE c == CHOOSE c \in Controllers : op \in DOMAIN c
<1>1. c \in Controllers /\ op \in DOMAIN c /\ s \in c[op]
  BY DEF Routes
<1>2. CASE op = "setup"
  <2>1. s = <<"LockSetup", "CountUsers", "CreateAdmin">>
    BY <1>1, <1>2, CreatingControllers DEF AuthRoutes
  <2> QED  BY <1>2, <2>1 DEF IsRest, SetupRests
<1>3. CASE op = "createUser"
  <2>1. s = <<"AuthenticateAdmin">> \o <<"CreateUser">>
    BY <1>1, <1>3, CreatingControllers DEF UsersRoutes, AdminOnly
  <2>2. <<"AuthenticateAdmin">> \o <<"CreateUser">> = <<"AuthenticateAdmin", "CreateUser">>
    BY PairConcat
  <2> QED  BY <1>3, <2>1, <2>2 DEF IsRest, CreateRests
<1>4. CASE op \notin CreatingOps
  <2>1. NeverCreates(s)
    BY <1>1, <1>4, ControllersNoneCreate DEF NoneCreates
  <2> QED  BY <1>4, <2>1 DEF IsRest, CreatingOps
<1> QED  BY <1>2, <1>3, <1>4 DEF CreatingOps

LEMMA TogetherExists ==
  ASSUME NEW statements, IsFiniteSet(statements)
  PROVE  Together(statements) # {}
<1>1. PICK f : f \in Bijection(1..Cardinality(statements), statements)
  BY FS_CardinalityType DEF ExistsBijection
<1>2. f \in Together(statements)
  BY <1>1 DEF Bijection, Injection, IsInjective, Together, SetToSeqs
<1> QED  BY <1>2

\* The five reports of a summary have an order.
LEMMA SummaryOrdersExist == SummaryOrders # {}
<1> DEFINE P == {"ReadCompleted", "CurrentIds", "CountActive", "SumCurrent", "SumRetained"}
           f == <<"CurrentIds", "CountActive", "ReadCompleted", "SumCurrent", "SumRetained">>
<1>1. f \in [1..5 -> P] /\ \A i, j \in 1..5 : i # j => f[i] # f[j]
  OBVIOUS
<1>2. \A x \in P : \E i \in 1..5 : f[i] = x
  OBVIOUS
<1>3. f \in Bijection(1..5, P)
  <2> HIDE DEF f, P
  <2> QED  BY <1>1, <1>2 DEF Bijection, Injection, Surjection, IsInjective
<1>4. Cardinality(P) = 5
  BY <1>3, FS_CountingElements DEF ExistsBijection
<1>5. f \in Together(P)
  <2> HIDE DEF f, P
  <2> QED  BY <1>1, <1>4 DEF Together, SetToSeqs
<1>6. 1 \in DOMAIN f /\ 2 \in DOMAIN f /\ f[1] = "CurrentIds" /\ f[2] = "CountActive" /\ 1 < 2
  OBVIOUS
<1>7. f \in SummaryOrders
  <2> HIDE DEF f
  <2> QED  BY <1>5, <1>6 DEF SummaryOrders
<1> QED  BY <1>7

\* The operations that pages ask for.
WebOps ==
  {"queryAccounts", "listAvailable", "addRepository", "awaitingApproval", "failures", "latestRuns", "repositoryHealth",
   "summary", "trend", "findRepository", "listFilters", "listMemberships", "queryUsers", "syncRepository", "refreshRepository",
   "updateRepository", "createFilter", "deleteFilter", "upsertMembership", "deleteMembership", "queryRepositories",
   "queryRuns"}

NoneEmpty(routes) == \A op \in DOMAIN routes : routes[op] # {}

LEMMA GuardsExist ==
  /\ \A s : Guarded(s) # {} /\ AdminOnly(s) # {}
  /\ \A tails : tails # {} => Visible(tails) # {} /\ Mcp(tails) # {}
BY DEF Guarded, AdminOnly, Visible, Mcp

LEMMA AuthRoutesExist == NoneEmpty(AuthRoutes)
<1>1. /\ AuthRoutes.signIn # {} /\ AuthRoutes.setupStatus # {} /\ AuthRoutes.setup # {}
      /\ AuthRoutes.me # {} /\ AuthRoutes.updateProfile # {} /\ AuthRoutes.updateAvatar # {}
      /\ AuthRoutes.deleteAvatar # {} /\ AuthRoutes.signOut # {} /\ AuthRoutes.updatePassword # {}
  BY GuardsExist DEF AuthRoutes
<1>2. DOMAIN AuthRoutes = {"signIn", "setupStatus", "setup", "me", "updateProfile", "updateAvatar",
        "deleteAvatar", "signOut", "updatePassword"}
  BY DEF AuthRoutes
<1> QED  BY <1>1, <1>2 DEF NoneEmpty

LEMMA UsersRoutesExist == NoneEmpty(UsersRoutes)
<1>1. /\ UsersRoutes.queryUsers # {} /\ UsersRoutes.avatar # {} /\ UsersRoutes.createUser # {}
      /\ UsersRoutes.removeUser # {}
  BY GuardsExist DEF UsersRoutes
<1>2. DOMAIN UsersRoutes = {"queryUsers", "avatar", "createUser", "removeUser"}
  BY DEF UsersRoutes
<1> QED  BY <1>1, <1>2 DEF NoneEmpty

LEMMA McpTokensRoutesExist == NoneEmpty(McpTokensRoutes)
<1>1. /\ McpTokensRoutes.listTokens # {} /\ McpTokensRoutes.createToken # {}
      /\ McpTokensRoutes.revokeToken # {}
  BY GuardsExist DEF McpTokensRoutes
<1>2. DOMAIN McpTokensRoutes = {"listTokens", "createToken", "revokeToken"}
  BY DEF McpTokensRoutes
<1> QED  BY <1>1, <1>2 DEF NoneEmpty

LEMMA SettingsRoutesExist == NoneEmpty(SettingsRoutes)
<1>1. SettingsRoutes.getSettings # {} /\ SettingsRoutes.updateSettings # {}
  BY GuardsExist DEF SettingsRoutes
<1>2. DOMAIN SettingsRoutes = {"getSettings", "updateSettings"}
  BY DEF SettingsRoutes
<1> QED  BY <1>1, <1>2 DEF NoneEmpty

LEMMA ResetRoutesExist == NoneEmpty(ResetRoutes)
<1>1. ResetRoutes.resetPassword # {}
  BY GuardsExist DEF ResetRoutes
<1>2. DOMAIN ResetRoutes = {"resetPassword"}
  BY DEF ResetRoutes
<1> QED  BY <1>1, <1>2 DEF NoneEmpty

LEMMA RepositoriesRoutesExist == NoneEmpty(RepositoriesRoutes)
<1>1. /\ RepositoriesRoutes.queryRepositories # {} /\ RepositoriesRoutes.findRepository # {}
      /\ RepositoriesRoutes.listFilters # {} /\ RepositoriesRoutes.createFilter # {}
      /\ RepositoriesRoutes.deleteFilter # {} /\ RepositoriesRoutes.listMemberships # {}
      /\ RepositoriesRoutes.upsertMembership # {} /\ RepositoriesRoutes.deleteMembership # {}
      /\ RepositoriesRoutes.updateRepository # {}
  BY GuardsExist DEF RepositoriesRoutes
<1>2. DOMAIN RepositoriesRoutes = {"queryRepositories", "findRepository", "listFilters", "createFilter",
        "deleteFilter", "listMemberships", "upsertMembership", "deleteMembership", "updateRepository"}
  BY DEF RepositoriesRoutes
<1> QED  BY <1>1, <1>2 DEF NoneEmpty

LEMMA RefreshRoutesExist == NoneEmpty(RefreshRoutes)
<1>1. RefreshRoutes.refreshRepository # {} /\ RefreshRoutes.syncRepository # {}
  BY GuardsExist DEF RefreshRoutes
<1>2. DOMAIN RefreshRoutes = {"refreshRepository", "syncRepository"}
  BY DEF RefreshRoutes
<1> QED  BY <1>1, <1>2 DEF NoneEmpty

LEMMA ChannelsRoutesExist == NoneEmpty(ChannelsRoutes)
<1>1. /\ ChannelsRoutes.listChannels # {} /\ ChannelsRoutes.createChannel # {}
      /\ ChannelsRoutes.updateChannel # {} /\ ChannelsRoutes.deleteChannel # {}
  BY GuardsExist DEF ChannelsRoutes
<1>2. DOMAIN ChannelsRoutes = {"listChannels", "createChannel", "updateChannel", "deleteChannel"}
  BY DEF ChannelsRoutes
<1> QED  BY <1>1, <1>2 DEF NoneEmpty

LEMMA RulesRoutesExist == NoneEmpty(RulesRoutes)
<1>1. /\ RulesRoutes.listRules # {} /\ RulesRoutes.createRule # {} /\ RulesRoutes.updateRule # {}
      /\ RulesRoutes.deleteRule # {}
  BY GuardsExist DEF RulesRoutes
<1>2. DOMAIN RulesRoutes = {"listRules", "createRule", "updateRule", "deleteRule"}
  BY DEF RulesRoutes
<1> QED  BY <1>1, <1>2 DEF NoneEmpty

LEMMA DeliveriesRoutesExist == NoneEmpty(DeliveriesRoutes)
<1>1. DeliveriesRoutes.listDeliveries # {}
  BY GuardsExist DEF DeliveriesRoutes
<1>2. DOMAIN DeliveriesRoutes = {"listDeliveries"}
  BY DEF DeliveriesRoutes
<1> QED  BY <1>1, <1>2 DEF NoneEmpty

LEMMA AccountsRoutesExist == NoneEmpty(AccountsRoutes)
<1>1. Together({"Discover", "ReadTracked"}) # {}
  BY FewAreFinite, TogetherExists
<1>2. {<<"AuthenticateAdmin", "RequireEnabled">> \o s : s \in Together({"Discover", "ReadTracked"})} # {}
  BY <1>1
<1>4. /\ AccountsRoutes.queryAccounts # {} /\ AccountsRoutes.listAvailable # {}
      /\ AccountsRoutes.createAccount # {} /\ AccountsRoutes.addRepository # {}
      /\ AccountsRoutes.authorize # {} /\ AccountsRoutes.updateAccount # {}
      /\ AccountsRoutes.removeAccount # {}
  BY <1>2, GuardsExist DEF AccountsRoutes
<1>5. DOMAIN AccountsRoutes = {"queryAccounts", "listAvailable", "createAccount", "addRepository",
        "authorize", "updateAccount", "removeAccount"}
  BY DEF AccountsRoutes
<1> QED  BY <1>4, <1>5 DEF NoneEmpty

LEMMA CallbackRoutesExist == NoneEmpty(CallbackRoutes)
<1>1. CallbackRoutes.callback # {}
  BY GuardsExist DEF CallbackRoutes
<1>2. DOMAIN CallbackRoutes = {"callback"}
  BY DEF CallbackRoutes
<1> QED  BY <1>1, <1>2 DEF NoneEmpty

LEMMA WebhookRoutesExist == NoneEmpty(WebhookRoutes)
<1>1. WebhookRoutes.webhook # {}
  BY GuardsExist DEF WebhookRoutes
<1>2. DOMAIN WebhookRoutes = {"webhook"}
  BY DEF WebhookRoutes
<1> QED  BY <1>1, <1>2 DEF NoneEmpty

LEMMA WorkflowRunsRoutesExist == NoneEmpty(WorkflowRunsRoutes)
<1>1. WorkflowRunsRoutes.queryRuns # {} /\ WorkflowRunsRoutes.needsAttention # {}
  BY GuardsExist DEF WorkflowRunsRoutes
<1>2. DOMAIN WorkflowRunsRoutes = {"queryRuns", "needsAttention"}
  BY DEF WorkflowRunsRoutes
<1> QED  BY <1>1, <1>2 DEF NoneEmpty

LEMMA DashboardRoutesExist == NoneEmpty(DashboardRoutes)
<1>1. /\ DashboardRoutes.awaitingApproval # {} /\ DashboardRoutes.failures # {}
      /\ DashboardRoutes.latestRuns # {} /\ DashboardRoutes.summary # {}
      /\ DashboardRoutes.repositoryHealth # {} /\ DashboardRoutes.trend # {}
  BY GuardsExist, SummaryOrdersExist DEF DashboardRoutes
<1>2. DOMAIN DashboardRoutes = {"awaitingApproval", "failures", "latestRuns", "summary",
        "repositoryHealth", "trend"}
  BY DEF DashboardRoutes
<1> QED  BY <1>1, <1>2 DEF NoneEmpty

LEMMA McpRoutesExist == NoneEmpty(McpRoutes)
<1>1. Together({"ReadRepositories", "CountRepositories"}) # {} /\ Together({"ReadRuns", "CountRuns"}) # {}
  BY FewAreFinite, TogetherExists
<1>2. /\ McpRoutes.list_repositories # {} /\ McpRoutes.get_repository # {}
      /\ McpRoutes.list_workflow_runs # {} /\ McpRoutes.list_needs_attention # {}
      /\ McpRoutes.list_awaiting_approval # {} /\ McpRoutes.get_dashboard_summary # {}
      /\ McpRoutes.get_workflow_trend # {}
  BY <1>1, GuardsExist, SummaryOrdersExist DEF McpRoutes
<1>3. DOMAIN McpRoutes = {"list_repositories", "get_repository", "list_workflow_runs",
        "list_needs_attention", "list_awaiting_approval", "get_dashboard_summary", "get_workflow_trend"}
  BY DEF McpRoutes
<1> QED  BY <1>2, <1>3 DEF NoneEmpty

LEMMA ControllersExist == \A c \in Controllers : NoneEmpty(c)
BY AuthRoutesExist, UsersRoutesExist, McpTokensRoutesExist, SettingsRoutesExist, ResetRoutesExist, RepositoriesRoutesExist, RefreshRoutesExist, ChannelsRoutesExist, RulesRoutesExist, DeliveriesRoutesExist, AccountsRoutesExist, CallbackRoutesExist, WebhookRoutesExist, WorkflowRunsRoutesExist, DashboardRoutesExist, McpRoutesExist DEF Controllers

LEMMA WebRoutes ==
  ASSUME NEW op \in WebOps
  PROVE  op \in DOMAIN Routes /\ op \notin CreatingOps /\ Routes[op] # {}
<1>1. op \notin CreatingOps
  BY DEF WebOps, CreatingOps
<1>2. PICK c \in Controllers : op \in DOMAIN c
  <2>1. {"queryAccounts", "listAvailable", "addRepository"} \subseteq DOMAIN AccountsRoutes
    BY DEF AccountsRoutes
  <2>2. {"awaitingApproval", "failures", "latestRuns", "repositoryHealth", "summary", "trend"} \subseteq DOMAIN DashboardRoutes
    BY DEF DashboardRoutes
  <2>3. {"findRepository", "listFilters", "listMemberships", "updateRepository", "createFilter", "deleteFilter",
         "upsertMembership", "deleteMembership", "queryRepositories"} \subseteq DOMAIN RepositoriesRoutes
    BY DEF RepositoriesRoutes
  <2>4. /\ "queryUsers" \in DOMAIN UsersRoutes /\ {"syncRepository", "refreshRepository"} \subseteq DOMAIN RefreshRoutes
        /\ "queryRuns" \in DOMAIN WorkflowRunsRoutes
    BY DEF UsersRoutes, RefreshRoutes, WorkflowRunsRoutes
  <2> QED  BY <2>1, <2>2, <2>3, <2>4 DEF WebOps, Controllers
<1> QED  BY <1>1, <1>2, ControllersExist DEF NoneEmpty, Routes

-----------------------------------------------------------------------------
(***************************************************************************)
(* The requests of pages.                                                  *)
(***************************************************************************)
\* Of the requests under way after the step, each was there before or is a page's, which
\* sends its session.
IsPageCall(call) == call.op \in WebOps /\ call.token = setup.session
Asks ==
  /\ sent' \in Int
  /\ \A q \in DOMAIN requests' :
       \/ q \in DOMAIN requests /\ requests'[q] = requests[q]
       \/ \E call : \E route \in Routes[call.op] : IsPageCall(call) /\ requests'[q] = Waiting(call, route)

AreAsked(calls) == \A i \in DOMAIN calls : i \in Int /\ IsPageCall(calls[i])

LEMMA ExchangeAsks ==
  ASSUME sent \in Int, NEW gone, NEW calls, Exchange(gone, calls), AreAsked(calls)
  PROVE  Asks
<1> DEFINE sendable == {First + sent + i : i \in DOMAIN calls}
           CallOf(q) == calls[q - First - sent]
<1>1. sent' \in Int
  BY DEF Exchange
<1>2. \A q \in DOMAIN requests' : q \notin sendable => q \in DOMAIN requests /\ requests'[q] = requests[q]
  BY DEF Exchange
<1>3. ASSUME NEW q \in sendable
      PROVE  /\ requests'[q] = Waiting(CallOf(q), CHOOSE s \in Routes[CallOf(q).op] : TRUE)
             /\ IsPageCall(CallOf(q))
  <2>1. PICK i \in DOMAIN calls : q = First + sent + i
    BY <1>3
  <2>2. q - First - sent = i
    BY <2>1 DEF AreAsked, First
  <2> QED  BY <1>3, <2>1, <2>2 DEF AreAsked, Exchange
<1>4. ASSUME NEW q \in sendable
      PROVE  \E call : \E route \in Routes[call.op] : IsPageCall(call) /\ requests'[q] = Waiting(call, route)
  <2> DEFINE call == CallOf(q)
             route == CHOOSE s \in Routes[call.op] : TRUE
  <2>1. route \in Routes[call.op]
    BY <1>3, WebRoutes DEF IsPageCall
  <2> HIDE DEF call
  <2> QED  BY <1>3, <2>1 DEF call
<1> QED  BY <1>1, <1>2, <1>4 DEF Asks

LEMMA NothingAsked ==
  ASSUME sent \in Int, UNCHANGED <<requests, sent>>
  PROVE  Asks
BY DEF Asks

LEMMA TuplesAsked ==
  /\ AreAsked(<<>>)
  /\ \A a : IsPageCall(a) => AreAsked(<<a>>)
  /\ \A a, b : IsPageCall(a) /\ IsPageCall(b) => AreAsked(<<a, b>>)
  /\ \A a, b, c : IsPageCall(a) /\ IsPageCall(b) /\ IsPageCall(c) => AreAsked(<<a, b, c>>)
BY DEF AreAsked

LEMMA ConcatAsked ==
  ASSUME NEW S, NEW calls \in Seq(S), NEW more \in Seq(S), AreAsked(calls), AreAsked(more)
  PROVE  AreAsked(calls \o more)
BY DEF AreAsked

LEMMA ClientCalls ==
  \A op \in WebOps : \A input, for : IsPageCall(CreateApiClient(op, input, for))
BY DEF CreateApiClient, IsPageCall

LEMMA ApprovalsAsks ==
  ASSUME sent \in Int, ApprovalsStep
  PROVE  Asks
<1>1. CASE LoadApprovals
  <2>1. AreAsked(<<CreateApiClient("awaitingApproval", <<>>, <<"approvals", sent, "load">>)>>)
    BY ClientCalls, TuplesAsked DEF WebOps
  <2> QED  BY <1>1, <2>1, ExchangeAsks DEF LoadApprovals
<1>2. ASSUME NEW q \in DOMAIN requests, ApprovalsLoaded(q)
      PROVE  Asks
  BY <1>2, TuplesAsked, ExchangeAsks DEF ApprovalsLoaded
<1>3. ASSUME NEW text, SearchApprovals(text)
      PROVE  Asks
  BY <1>3, NothingAsked DEF SearchApprovals
<1> QED  BY <1>1, <1>2, <1>3 DEF ApprovalsStep

LEMMA DashboardAsks ==
  ASSUME sent \in Int, DashboardStep
  PROVE  Asks
<1>1. ASSUME NEW range
      PROVE  AreAsked(HistoricalCalls(range)) /\ \E S : HistoricalCalls(range) \in Seq(S)
  <2> DEFINE query == CreatePeriodQuery(range)
             for == <<"dashboard", sent, "historical">>
             bucket == Over([bucket |-> BucketOf(range)], query)
             a == CreateApiClient("repositoryHealth", query, for)
             b == CreateApiClient("summary", query, for)
             c == CreateApiClient("trend", bucket, for)
  <2>1. HistoricalCalls(range) = <<a, b, c>>
    BY DEF HistoricalCalls
  <2>2. IsPageCall(a) /\ IsPageCall(b) /\ IsPageCall(c)
    BY ClientCalls DEF WebOps
  <2> HIDE DEF a, b, c
  <2>3. <<a, b, c>> \in Seq({a, b, c})
    OBVIOUS
  <2> QED  BY <2>1, <2>2, <2>3, TuplesAsked
<1>2. AreAsked(CurrentCalls) /\ \E S : CurrentCalls \in Seq(S)
  <2> DEFINE a == CreateApiClient("failures", <<>>, <<"dashboard", sent, "current">>)
             b == CreateApiClient("latestRuns", <<>>, <<"dashboard", sent, "current">>)
  <2>1. CurrentCalls = <<a, b>>
    BY DEF CurrentCalls
  <2>2. IsPageCall(a) /\ IsPageCall(b)
    BY ClientCalls DEF WebOps
  <2> HIDE DEF a, b
  <2>3. <<a, b>> \in Seq({a, b})
    OBVIOUS
  <2> QED  BY <2>1, <2>2, <2>3, TuplesAsked
<1>3. CASE LoadDashboard
  <2>1. AreAsked(CurrentCalls \o HistoricalCalls(dashboard.range))
    <3>1. PICK S, T : CurrentCalls \in Seq(S) /\ HistoricalCalls(dashboard.range) \in Seq(T)
      BY <1>1, <1>2
    <3>2. CurrentCalls \in Seq(S \cup T) /\ HistoricalCalls(dashboard.range) \in Seq(S \cup T)
      BY <3>1
    <3> QED  BY <1>1, <1>2, <3>2, ConcatAsked
  <2> QED  BY <1>3, <2>1, ExchangeAsks DEF LoadDashboard
<1>4. ASSUME NEW range, SelectRange(range)
      PROVE  Asks
  BY <1>1, <1>4, ExchangeAsks DEF SelectRange
<1>5. ASSUME NEW request, LoadCurrentDashboard(request) \/ LoadHistoricalDashboard(request)
      PROVE  Asks
  BY <1>5, TuplesAsked, ExchangeAsks DEF LoadCurrentDashboard, LoadHistoricalDashboard
<1> QED  BY <1>3, <1>4, <1>5 DEF DashboardStep

LEMMA SearchAsks ==
  ASSUME sent \in Int, SearchStep
  PROVE  Asks
<1>1. CASE RunSearch
  <2> DEFINE asked == DOMAIN GroupOps \ (IF ShowsAdministration THEN {} ELSE {"providers"})
             groups == SetToSeq(asked)
             Params == [search |-> search.timer, enabled |-> None, providerType |-> None]
             CallFor(g) ==
               CreateApiClient(GroupOps[g], IF g = "repositories" THEN Params ELSE [search |-> search.timer],
                               <<"search", sent, g>>)
             calls == [i \in 1..Cardinality(asked) |-> CallFor(groups[i])]
  <2>1. IsFiniteSet(asked)
    <3>1. DOMAIN GroupOps = {"providers", "repositories", "runs"}
      BY DEF GroupOps
    <3>2. IsFiniteSet({"providers", "repositories", "runs", "runs", "runs"})
      BY FewAreFinite
    <3>3. asked \subseteq {"providers", "repositories", "runs", "runs", "runs"}
      BY <3>1
    <3> QED  BY <3>2, <3>3, FS_Subset
  <2>2. groups \in [1..Cardinality(asked) -> asked]
    <3> HIDE DEF asked
    <3>1. \E f \in [1..Cardinality(asked) -> asked] : IsInjective(f)
      BY <2>1, FS_CardinalityType DEF ExistsBijection, Bijection, Injection
    <3> QED  BY <3>1 DEF SetToSeq
  <2>3. \A g \in asked : IsPageCall(CallFor(g))
    BY ClientCalls DEF GroupOps, WebOps
  <2>4. AreAsked(calls)
    <3> HIDE DEF CallFor, asked, groups
    <3> QED  BY <2>2, <2>3 DEF AreAsked
  <2>5. Exchange({}, calls)
    BY <1>1 DEF RunSearch
  <2> QED  BY <2>4, <2>5, ExchangeAsks
<1>2. ASSUME NEW q, NEW g, LoadGroup(q, g)
      PROVE  Asks
  BY <1>2, TuplesAsked, ExchangeAsks DEF LoadGroup
<1>3. ASSUME NEW term, Type(term)
      PROVE  Asks
  BY <1>3, NothingAsked DEF Type
<1>4. CASE OpenOverlay \/ CloseOverlay \/ Leave
  BY <1>4, NothingAsked DEF OpenOverlay, CloseOverlay, Leave
<1> QED  BY <1>1, <1>2, <1>3, <1>4 DEF SearchStep

LEMMA AddingAsks ==
  ASSUME sent \in Int, AddingStep
  PROVE  Asks
<1>1. CASE OpenDialog
  <2>1. AreAsked(<<CreateApiClient("queryAccounts", <<>>, <<"adding", None, "accounts">>)>>)
    BY ClientCalls, TuplesAsked DEF WebOps
  <2> QED  BY <1>1, <2>1, ExchangeAsks DEF OpenDialog
<1>2. ASSUME NEW a, SelectAccount(a)
      PROVE  Asks
  <2>1. AreAsked(<<CreateApiClient("listAvailable", [account |-> a], <<"adding", a, "repositories">>)>>)
    BY ClientCalls, TuplesAsked DEF WebOps
  <2> QED  BY <1>2, <2>1, ExchangeAsks DEF SelectAccount
<1>3. CASE AddRepositories
  <2> DEFINE Addition(m) ==
               CreateApiClient("addRepository", [account |-> adding.account, remote |-> m], <<"adding", adding.account, "add">>)
             chosen == SetToSeq(adding.selected)
             calls == [i \in 1..Cardinality(adding.selected) |-> Addition(chosen[i])]
  <2>1. \A m : IsPageCall(Addition(m))
    BY ClientCalls DEF WebOps
  <2>2. AreAsked(calls)
    <3> HIDE DEF Addition, chosen
    <3> QED  BY <2>1 DEF AreAsked
  <2>3. Exchange({}, calls)
    BY <1>3 DEF AddRepositories
  <2> QED  BY <2>2, <2>3, ExchangeAsks
<1>4. CASE CloseDialog \/ Advance \/ Back \/ Added
  BY <1>4, TuplesAsked, ExchangeAsks DEF CloseDialog, Advance, Back, Added
<1>5. ASSUME NEW m, SetRepositorySelected(m) \/ ToggleVisibleRepositories(m)
      PROVE  Asks
  BY <1>5, TuplesAsked, ExchangeAsks DEF SetRepositorySelected, ToggleVisibleRepositories
<1>6. ASSUME NEW q, AccountsLoaded(q) \/ LoadAvailableRepositories(q)
      PROVE  Asks
  BY <1>6, TuplesAsked, ExchangeAsks DEF AccountsLoaded, LoadAvailableRepositories
<1> QED  BY <1>1, <1>2, <1>3, <1>4, <1>5, <1>6 DEF AddingStep

\* The dialog asks for what it is opened with, and for the rows of its cards.
LEMMA BecomeAsks ==
  ASSUME sent \in Int, NEW d, NEW gone, NEW S, NEW calls \in Seq(S), AreAsked(calls), Become(d, gone, calls)
  PROVE  Asks
<1> DEFINE r == d.repository.id
           a == CreateApiClient("listFilters", [repository |-> r], <<"filters", sent, "load">>)
           b == CreateApiClient("listMemberships", [repository |-> r], <<"members", sent, "load">>)
           c == CreateApiClient("queryUsers", <<>>, <<"members", sent, "load">>)
           more == IF ShowsCards(d) /\ cards = None THEN LoadCalls(r) ELSE <<>>
<1>1. IsPageCall(a) /\ IsPageCall(b) /\ IsPageCall(c)
  BY ClientCalls DEF WebOps
<1>2. LoadCalls(r) = <<a, b, c>>
  BY DEF LoadCalls
<1>3. Exchange(gone, calls \o more)
  BY DEF Become
<1>4. AreAsked(more) /\ more \in Seq({a, b, c})
  <2> HIDE DEF a, b, c
  <2>1. <<a, b, c>> \in Seq({a, b, c}) /\ <<>> \in Seq({a, b, c})
    OBVIOUS
  <2> QED  BY <1>1, <1>2, <2>1, TuplesAsked
<1> HIDE DEF more, a, b, c
<1>5. calls \in Seq(S \cup {a, b, c}) /\ more \in Seq(S \cup {a, b, c})
  BY <1>4
<1>6. AreAsked(calls \o more)
  BY <1>4, <1>5, ConcatAsked
<1> QED  BY <1>3, <1>6, ExchangeAsks

LEMMA BecomeWith ==
  ASSUME sent \in Int, NEW d, NEW gone, NEW op \in WebOps, NEW input, NEW for,
         Become(d, gone, <<CreateApiClient(op, input, for)>>)
  PROVE  Asks
<1> DEFINE a == CreateApiClient(op, input, for)
<1>1. IsPageCall(a)
  BY ClientCalls
<1> HIDE DEF a
<1>2. AreAsked(<<a>>) /\ <<a>> \in Seq({a})
  BY <1>1, TuplesAsked
<1>3. Become(d, gone, <<a>>)
  BY DEF a
<1> QED  BY <1>2, <1>3, BecomeAsks

LEMMA BecomeWithout ==
  ASSUME sent \in Int, NEW d, NEW gone, Become(d, gone, <<>>)
  PROVE  Asks
<1>1. AreAsked(<<>>) /\ <<>> \in Seq({})
  BY TuplesAsked
<1> QED  BY <1>1, BecomeAsks

LEMMA AskAsks ==
  ASSUME sent \in Int, NEW card, NEW function, NEW op \in WebOps, NEW input, Ask(card, function, op, input)
  PROVE  Asks
<1> DEFINE a == CreateApiClient(op, Over([repository |-> ShownId], input), For(card, function))
<1>1. AreAsked(<<a>>)
  BY ClientCalls, TuplesAsked
<1> QED  BY <1>1, ExchangeAsks DEF Ask

LEMMA DetailsAsks ==
  ASSUME sent \in Int, DetailsStep
  PROVE  Asks
<1>1. ASSUME NEW r, OpenDetails(r)
      PROVE  Asks
  <2>1. "findRepository" \in WebOps
    BY DEF WebOps
  <2> QED  BY <1>1, <2>1, BecomeWith DEF OpenDetails
<1>2. CASE CloseDetails
  BY <1>2, BecomeWithout DEF CloseDetails
<1>3. CASE RefreshRepository \/ SyncWorkflowRuns
  <2>1. "refreshRepository" \in WebOps /\ "syncRepository" \in WebOps
    BY DEF WebOps
  <2> QED  BY <1>3, <2>1, BecomeWith DEF RefreshRepository, SyncWorkflowRuns
<1>4. ASSUME NEW days, SaveRetention(days)
      PROVE  Asks
  <2> DEFINE a == CreateApiClient("updateRepository",
                    [repository |-> ShownId, enabled |-> details.repository.enabled, retention |-> days],
                    For("general", "save"))
  <2>1. AreAsked(<<a>>)
    BY ClientCalls, TuplesAsked DEF WebOps
  <2> QED  BY <1>4, <2>1, ExchangeAsks DEF SaveRetention
<1>5. ASSUME NEW x, \/ AddWorkflowFilter(x) \/ RemoveWorkflowFilter(x) \/ AddMember(x) \/ RemoveMember(x)
                    \/ \E role \in RepositoryRole : UpdateMemberRole(x, role)
      PROVE  Asks
  <2>1. {"createFilter", "deleteFilter", "upsertMembership", "deleteMembership"} \subseteq WebOps
    BY DEF WebOps
  <2> QED
    BY <1>5, <2>1, AskAsks DEF AddWorkflowFilter, RemoveWorkflowFilter, AddMember, RemoveMember, UpdateMemberRole
<1>6. ASSUME NEW card, CardLoaded(card)
      PROVE  Asks
  BY <1>6, TuplesAsked, ExchangeAsks DEF CardLoaded
<1>7. ASSUME NEW q, Loaded(q) \/ Refreshed(q) \/ Synced(q) \/ Saved(q)
      PROVE  Asks
  BY <1>7, BecomeWithout DEF Loaded, Refreshed, Synced, Saved
<1>8. ASSUME NEW q, Unheard(q) \/ \E card, function : ActionAnswered(q, card, function)
      PROVE  Asks
  BY <1>8, TuplesAsked, ExchangeAsks DEF Unheard, ActionAnswered
<1> QED  BY <1>1, <1>2, <1>3, <1>4, <1>5, <1>6, <1>7, <1>8 DEF DetailsStep

LEMMA WebAsks ==
  ASSUME sent \in Int, WebStep
  PROVE  Asks
BY SearchAsks, DashboardAsks, ApprovalsAsks, DetailsAsks, AddingAsks DEF WebStep

-----------------------------------------------------------------------------
(***************************************************************************)
(* What a step keeps of the invariant.                                     *)
(***************************************************************************)
LEMMA NeverHead ==
  ASSUME NEW rest, NeverCreates(rest), rest # <<>>
  PROVE  Head(rest) \notin Creating /\ NeverCreates(Tail(rest))
<1>1. PICK S : rest \in Seq(S) /\ S \cap Creating = {}
  BY DEF NeverCreates
<1>2. Head(rest) \in S /\ Tail(rest) \in Seq(S)
  BY <1>1
<1> QED  BY <1>1, <1>2 DEF NeverCreates

\* What the provers do not compute by themselves: the first and the rest of a tuple.
LEMMA TupleTail1 ==
  ASSUME NEW a
  PROVE  <<a>> # <<>> /\ Head(<<a>>) = a /\ Tail(<<a>>) = <<>>
<1>1. <<a>> # <<>>
  OBVIOUS
<1>2. Head(<<a>>) = a
  OBVIOUS
<1>3. Tail(<<a>>) = <<>>
  OBVIOUS
<1> QED  BY <1>1, <1>2, <1>3

LEMMA TupleTail2 ==
  ASSUME NEW a, NEW b
  PROVE  <<a, b>> # <<>> /\ Head(<<a, b>>) = a /\ Tail(<<a, b>>) = <<b>>
<1>1. <<a, b>> # <<>>
  OBVIOUS
<1>2. Head(<<a, b>>) = a
  OBVIOUS
<1>3. Tail(<<a, b>>) = <<b>>
  OBVIOUS
<1> QED  BY <1>1, <1>2, <1>3

LEMMA TupleTail3 ==
  ASSUME NEW a, NEW b, NEW c
  PROVE  <<a, b, c>> # <<>> /\ Head(<<a, b, c>>) = a /\ Tail(<<a, b, c>>) = <<b, c>>
<1>1. <<a, b, c>> # <<>>
  OBVIOUS
<1>2. Head(<<a, b, c>>) = a
  OBVIOUS
<1>3. Tail(<<a, b, c>>) = <<b, c>>
  OBVIOUS
<1> QED  BY <1>1, <1>2, <1>3

\* A statement of the first-run setup, or of the creation of a user, is the rest of its own route.
LEMMA RestsOfCreation ==
  ASSUME NEW rest, NEW op, IsRest(rest, op), rest # <<>>
  PROVE  /\ Head(rest) = "LockSetup" => op = "setup" /\ Tail(rest) = <<"CountUsers", "CreateAdmin">>
         /\ Head(rest) = "CountUsers" => op = "setup" /\ Tail(rest) = <<"CreateAdmin">>
         /\ Head(rest) = "CreateAdmin" => op = "setup" /\ Tail(rest) = <<>>
         /\ Head(rest) = "CreateUser" => op = "createUser" /\ Tail(rest) = <<>>
         /\ IsRest(Tail(rest), op) /\ IsRest(<<>>, op)
<1>1. CASE op = "setup"
  <2>1. CASE rest = <<"LockSetup", "CountUsers", "CreateAdmin">>
    <3>1. Head(rest) = "LockSetup" /\ Tail(rest) = <<"CountUsers", "CreateAdmin">>
      BY <2>1, TupleTail3
    <3> QED  BY <1>1, <3>1 DEF IsRest, SetupRests
  <2>2. CASE rest = <<"CountUsers", "CreateAdmin">>
    <3>1. Head(rest) = "CountUsers" /\ Tail(rest) = <<"CreateAdmin">>
      BY <2>2, TupleTail2
    <3> QED  BY <1>1, <3>1 DEF IsRest, SetupRests
  <2>3. CASE rest = <<"CreateAdmin">>
    <3>1. Head(rest) = "CreateAdmin" /\ Tail(rest) = <<>>
      BY <2>3, TupleTail1
    <3> QED  BY <1>1, <3>1 DEF IsRest, SetupRests
  <2> QED  BY <1>1, <2>1, <2>2, <2>3 DEF IsRest, SetupRests
<1>2. CASE op = "createUser"
  <2>1. CASE rest = <<"AuthenticateAdmin", "CreateUser">>
    <3>1. Head(rest) = "AuthenticateAdmin" /\ Tail(rest) = <<"CreateUser">>
      BY <2>1, TupleTail2
    <3> QED  BY <1>2, <3>1 DEF IsRest, CreateRests
  <2>2. CASE rest = <<"CreateUser">>
    <3>1. Head(rest) = "CreateUser" /\ Tail(rest) = <<>>
      BY <2>2, TupleTail1
    <3> QED  BY <1>2, <3>1 DEF IsRest, CreateRests
  <2> QED  BY <1>2, <2>1, <2>2 DEF IsRest, CreateRests
<1>3. CASE op \notin CreatingOps
  <2>1. Head(rest) \notin Creating /\ NeverCreates(Tail(rest))
    BY <1>3, NeverHead DEF IsRest, CreatingOps
  <2>2. NeverCreates(<<>>)
    <3>1. <<>> \in Seq({}) /\ {} \cap Creating = {}
      OBVIOUS
    <3> QED  BY <3>1 DEF NeverCreates
  <2> QED  BY <1>3, <2>1, <2>2 DEF IsRest, CreatingOps, Creating
<1> QED  BY <1>1, <1>2, <1>3 DEF CreatingOps

LEMMA RequestsKept ==
  ASSUME RequestInv, NEW q \in DOMAIN requests, Advances(q), ~Ended(q)
  PROVE  RequestInv'
<1> SUFFICES ASSUME NEW p \in DOMAIN requests'
             PROVE  DOMAIN requests'[p] = RequestFields /\ IsRest(requests'[p].rest, requests'[p].call.op)
  BY DEF RequestInv, Call
<1>1. CASE p = q
  BY <1>1, RestsOfCreation DEF Advances, RequestInv, Ended, Call
<1>2. CASE p # q
  BY <1>2 DEF Advances, RequestInv, Call
<1> QED  BY <1>1, <1>2

LEMMA TokensKept ==
  ASSUME UsersInv, TokenInv, CredentialsKept, UNCHANGED issued
  PROVE  UsersInv' /\ TokenInv'
BY DEF UsersInv, TokenInv, CredentialsKept, Credentials

LEMMA FreshKept ==
  ASSUME RequestInv, FreshInv, NEW q \in DOMAIN requests, Advances(q), ~Ended(q),
         DOMAIN db'.users \subseteq DOMAIN db.users,
         \A token \in issued' : token \in issued \/ token.user \in DOMAIN db.users
  PROVE  FreshInv'
BY DEF FreshInv, Advances, Creates, Ended, Call

\* A request is at a statement of the first-run setup only if it is one.
LEMMA FirstRunRests ==
  ASSUME RequestInv, NEW q \in DOMAIN requests
  PROVE  /\ At(q, "LockSetup") => Call(q).op = "setup" /\ Tail(requests[q].rest) = <<"CountUsers", "CreateAdmin">>
         /\ At(q, "CountUsers") => Call(q).op = "setup" /\ Tail(requests[q].rest) = <<"CreateAdmin">>
         /\ At(q, "CreateAdmin") => Call(q).op = "setup" /\ Tail(requests[q].rest) = <<>>
         /\ At(q, "CreateUser") => Call(q).op = "createUser" /\ Tail(requests[q].rest) = <<>>
BY RestsOfCreation DEF RequestInv, At, Call

\* The first-run setup is not concerned by a request that is none, nor by one that ends.
LEMMA FirstRunKept ==
  ASSUME RequestInv, RequestInv', FirstRunInv, NEW q \in DOMAIN requests, Advances(q),
         \A u \in DOMAIN db'.users : u \in DOMAIN db.users \/ (u = q /\ Call(q).op # "setup"),
         Call(q).op # "setup" \/ requests'[q].rest = <<>>
  PROVE  FirstRunInv'
<1>1. DOMAIN requests' = DOMAIN requests
  BY DEF Advances
<1>2. \A p \in DOMAIN requests : requests'[p].call = requests[p].call
  BY DEF Advances
<1>3. ASSUME NEW p \in DOMAIN requests, NEW statement \in {"CountUsers", "CreateAdmin"},
             requests'[p].rest # <<>>, Head(requests'[p].rest) = statement
      PROVE  At(p, statement)
  <2>1. IsRest(requests'[p].rest, requests'[p].call.op)
    BY <1>1 DEF RequestInv, Call
  <2>2. requests[p].call.op = "setup"
    BY <1>2, <1>3, <2>1, RestsOfCreation
  <2>3. p # q
    BY <1>3, <2>2 DEF Call
  <2> QED  BY <1>3, <2>3 DEF Advances, At
<1>4. \A p \in DOMAIN requests : HoldsLock(p)' => HoldsLock(p)
  BY <1>3 DEF HoldsLock, At
<1>5. \A p \in DOMAIN requests : At(p, "CreateAdmin")' => At(p, "CreateAdmin")
  BY <1>3 DEF At
<1>6. ASSUME NEW p \in DOMAIN requests, NEW r \in DOMAIN requests, HoldsLock(p)', HoldsLock(r)'
      PROVE  p = r
  BY <1>4, <1>6 DEF FirstRunInv
<1>7. ASSUME NEW p \in DOMAIN requests, NEW r \in DOMAIN requests, At(r, "CreateAdmin")', p \in DOMAIN db'.users
      PROVE  Call(p)'.op # "setup"
  BY <1>2, <1>5, <1>7 DEF FirstRunInv, Call
<1>8. SetupOnce'
  BY <1>1, <1>2 DEF SetupOnce, FirstRunInv, Call
<1> QED  BY <1>1, <1>6, <1>7, <1>8 DEF FirstRunInv

\* A statement that changes no credentials and signs nothing.
LEMMA QuietKeeps ==
  ASSUME IInv, NEW q \in DOMAIN requests, Advances(q), CredentialsKept, ~Ended(q), UNCHANGED <<issued, sent>>,
         Call(q).op # "setup" \/ requests'[q].rest = <<>>
  PROVE  IInv'
<1>1. RequestInv'
  BY RequestsKept DEF IInv
<1>2. UsersInv' /\ TokenInv'
  BY TokensKept DEF IInv
<1>3. FreshInv'
  BY FreshKept DEF IInv, CredentialsKept
<1>4. FirstRunInv'
  BY <1>1, FirstRunKept DEF IInv, CredentialsKept
<1> QED  BY <1>1, <1>2, <1>3, <1>4 DEF IInv

LEMMA RefusalKeeps ==
  ASSUME IInv, NEW q \in DOMAIN requests, ~Ended(q), NEW status, Refuse(q, status), UNCHANGED <<db, issued, sent>>
  PROVE  IInv'
<1>1. requests'[q].rest = <<>>
  BY DEF Refuse, RequestInv, IInv, RequestFields
<1> QED  BY <1>1, RefuseAdvances, UnchangedKeeps, QuietKeeps DEF IInv

\* A statement that signs a token for a user who is there, and keeps the credentials.
LEMMA SignInKeeps ==
  ASSUME IInv, NEW q \in DOMAIN requests, SignIn(q), UNCHANGED sent
  PROVE  IInv'
<1>1. ~Ended(q) /\ Call(q).op # "setup"
  BY AtRuns DEF SignIn, IInv
<1>2. CASE Refuse(q, "unauthorized") /\ UNCHANGED issued
  BY <1>1, <1>2, RefusalKeeps DEF SignIn
<1>3. ASSUME NEW u \in DOMAIN db.users, CreateAccessToken(q, db, u)
      PROVE  IInv'
  <2>1. Advances(q)
    BY <1>3, AnswerAdvances DEF CreateAccessToken, IInv
  <2>2. UNCHANGED db /\ CredentialsKept
    BY UnchangedKeeps DEF SignIn, IInv
  <2>3. RequestInv'
    BY <1>1, <2>1, RequestsKept DEF IInv
  <2>4. issued' = issued \cup {[user |-> u, version |-> db.users[u].authVersion, password |-> db.users[u].password]}
    BY <1>3 DEF CreateAccessToken
  <2>5. UsersInv' /\ TokenInv'
    BY <2>2, <2>4 DEF UsersInv, TokenInv, IInv
  <2>6. FreshInv'
    BY <1>1, <2>1, <2>2, <2>4, FreshKept DEF IInv
  <2>7. FirstRunInv'
    BY <1>1, <2>1, <2>2, <2>3, FirstRunKept DEF IInv
  <2> QED  BY <2>3, <2>5, <2>6, <2>7 DEF IInv
<1> QED  BY <1>2, <1>3 DEF SignIn, Named

\* The lock: no other setup is past it.
LEMMA LockSetupKeeps ==
  ASSUME IInv, NEW q \in DOMAIN requests, LockSetup(q), UNCHANGED sent
  PROVE  IInv'
<1>1. Advances(q) /\ UNCHANGED db /\ UNCHANGED issued /\ CredentialsKept /\ ~Ended(q)
  BY FoundAdvances, UnchangedKeeps DEF LockSetup, IInv, At, Ended
<1>2. RequestInv'
  BY <1>1, RequestsKept DEF IInv
<1>3. UsersInv' /\ TokenInv' /\ FreshInv'
  BY <1>1, TokensKept, FreshKept DEF IInv
<1>4. requests'[q].rest = <<>> \/ requests'[q].rest = <<"CountUsers", "CreateAdmin">>
  BY <1>1, FirstRunRests DEF Advances, LockSetup, IInv
<1>5. ~At(q, "CreateAdmin")'
  <2>1. Head(<<"CountUsers", "CreateAdmin">>) = "CountUsers"
    BY TupleTail2
  <2> QED  BY <1>4, <2>1 DEF At
<1>6. \A p \in DOMAIN requests' : p # q => ~HoldsLock(p)'
  BY <1>1 DEF LockSetup, Advances, HoldsLock, At
<1>7. \A p \in DOMAIN requests' : ~At(p, "CreateAdmin")'
  BY <1>5, <1>6 DEF HoldsLock
<1>8. SetupOnce'
  BY <1>1 DEF SetupOnce, FirstRunInv, IInv, Advances, Call
<1> QED  BY <1>2, <1>3, <1>6, <1>7, <1>8 DEF IInv, FirstRunInv

\* No user is there when the setup goes on to create one.
LEMMA CountUsersKeeps ==
  ASSUME IInv, NEW q \in DOMAIN requests, CountUsers(q), UNCHANGED sent
  PROVE  IInv'
<1>1. ~Ended(q) /\ UNCHANGED db /\ UNCHANGED issued
  BY DEF CountUsers, At, Ended
<1>2. CASE Refuse(q, "conflict")
  BY <1>1, <1>2, RefusalKeeps
<1>3. CASE DOMAIN db.users = {} /\ Proceed(q, [found |-> None])
  <2>1. Advances(q) /\ CredentialsKept
    BY <1>1, <1>3, FoundAdvances, UnchangedKeeps DEF IInv
  <2>2. RequestInv'
    BY <1>1, <2>1, RequestsKept DEF IInv
  <2>3. UsersInv' /\ TokenInv' /\ FreshInv'
    BY <1>1, <2>1, TokensKept, FreshKept DEF IInv
  <2>4. \A p \in DOMAIN requests : HoldsLock(p)' => HoldsLock(p)
    <3>1. HoldsLock(q)
      BY DEF CountUsers, HoldsLock
    <3> QED  BY <2>1, <3>1 DEF Advances, HoldsLock, At
  <2>5. \A p, r \in DOMAIN requests' : HoldsLock(p)' /\ HoldsLock(r)' => p = r
    BY <2>1, <2>4 DEF Advances, FirstRunInv, IInv
  <2>6. DOMAIN db'.users = {}
    BY <1>1, <1>3
  <2> QED  BY <2>2, <2>3, <2>5, <2>6 DEF IInv, FirstRunInv, SetupOnce
<1> QED  BY <1>2, <1>3 DEF CountUsers

\* The row of a new user, under the identifier of the request that creates it.
LEMMA UserCreated ==
  ASSUME IInv, NEW q \in DOMAIN requests, NEW username, NEW password, NEW role,
         db' = WithRow(db, "users", q, User(username, password, role))
  PROVE  /\ "users" \in DOMAIN db' /\ DOMAIN db'.users = {q} \cup DOMAIN db.users
         /\ \A u \in DOMAIN db.users \ {q} : db'.users[u] = db.users[u]
         /\ db'.users[q] = User(username, password, role)
         /\ Credentials \subseteq DOMAIN db'.users[q] /\ db'.users[q].authVersion = 0
         /\ db'.users[q].password = password
<1>1. "users" \in DOMAIN db' /\ db'.users = Over([i \in {q} |-> User(username, password, role)], db.users)
  BY DEF WithRow, IInv, UsersInv
<1>2. DOMAIN db'.users = {q} \cup DOMAIN db.users /\ db'.users[q] = User(username, password, role)
  BY <1>1 DEF Over
<1>3. \A u \in DOMAIN db.users \ {q} : db'.users[u] = db.users[u]
  BY <1>1 DEF Over
<1> QED  BY <1>1, <1>2, <1>3 DEF User, Credentials

LEMMA CreateAdminKeeps ==
  ASSUME IInv, NEW q \in DOMAIN requests, CreateAdmin(q), UNCHANGED sent
  PROVE  IInv'
<1> DEFINE row == User(Input(q).username, Input(q).password, "SYSTEM_ADMIN")
<1>1. ~Ended(q) /\ At(q, "CreateAdmin") /\ Call(q).op = "setup" /\ Tail(requests[q].rest) = <<>>
  BY FirstRunRests DEF CreateAdmin, At, Ended, IInv
<1>2. CASE Refuse(q, MapPrismaException.P2002) /\ UNCHANGED <<db, issued>>
  BY <1>1, <1>2, RefusalKeeps
<1>3. CASE db' = WithRow(db, "users", q, row) /\ CreateAccessToken(q, db', q)
  <2>1. Advances(q) /\ requests'[q].rest = <<>>
    BY <1>1, <1>3, AnswerAdvances DEF CreateAccessToken, IInv, Advances
  <2>2. RequestInv'
    BY <1>1, <2>1, RequestsKept DEF IInv
  <2>3. q \notin DOMAIN db.users /\ \A token \in issued : token.user # q
    BY <1>1 DEF FreshInv, IInv, Creates, CreatingOps
  <2>4. /\ "users" \in DOMAIN db' /\ DOMAIN db'.users = {q} \cup DOMAIN db.users
        /\ \A u \in DOMAIN db.users \ {q} : db'.users[u] = db.users[u]
        /\ Credentials \subseteq DOMAIN db'.users[q] /\ db'.users[q].authVersion = 0
    BY <1>3, UserCreated
  <2>5. issued' = issued \cup {[user |-> q, version |-> db'.users[q].authVersion, password |-> db'.users[q].password]}
    BY <1>3 DEF CreateAccessToken
  <2>6. UsersInv'
    BY <2>4 DEF UsersInv, IInv
  <2>7. TokenInv'
    <3>1. ASSUME NEW token \in issued, token.user \in DOMAIN db'.users
          PROVE  token.user \in DOMAIN db.users /\ db'.users[token.user] = db.users[token.user]
      BY <2>3, <2>4, <3>1
    <3> QED  BY <2>4, <2>5, <3>1 DEF TokenInv, IInv
  <2>8. FreshInv'
    BY <2>1, <2>4, <2>5 DEF FreshInv, IInv, Advances, Creates, Ended, Call
  <2>9. \A p \in DOMAIN requests' : ~HoldsLock(p)'
    BY <1>1, <2>1 DEF FirstRunInv, IInv, HoldsLock, Advances, At
  <2>10. SetupOnce'
    BY <1>1, <2>1, <2>4 DEF SetupOnce, FirstRunInv, IInv, Advances, Call
  <2> QED  BY <2>2, <2>6, <2>7, <2>8, <2>9, <2>10 DEF IInv, FirstRunInv, HoldsLock
<1> QED  BY <1>2, <1>3 DEF CreateAdmin

LEMMA CreateUserKeeps ==
  ASSUME IInv, NEW q \in DOMAIN requests, CreateUser(q), UNCHANGED <<issued, sent>>
  PROVE  IInv'
<1> DEFINE row == User(Input(q).username, Input(q).password, Input(q).role)
<1>1. ~Ended(q) /\ Call(q).op = "createUser" /\ Tail(requests[q].rest) = <<>>
  BY FirstRunRests DEF CreateUser, At, Ended, IInv
<1>2. CASE Refuse(q, MapPrismaException.P2002) /\ UNCHANGED db
  BY <1>1, <1>2, RefusalKeeps
<1>3. ASSUME NEW reply, db' = WithRow(db, "users", q, row), Answer(q, reply)
      PROVE  IInv'
  <2>1. Advances(q) /\ requests'[q].rest = <<>>
    BY <1>1, <1>3, AnswerAdvances DEF IInv, Advances
  <2>2. RequestInv'
    BY <1>1, <2>1, RequestsKept DEF IInv
  <2>3. \A token \in issued : token.user # q
    BY <1>1 DEF FreshInv, IInv, Creates, CreatingOps
  <2>4. /\ "users" \in DOMAIN db' /\ DOMAIN db'.users = {q} \cup DOMAIN db.users
        /\ \A u \in DOMAIN db.users \ {q} : db'.users[u] = db.users[u]
        /\ Credentials \subseteq DOMAIN db'.users[q] /\ db'.users[q].authVersion = 0
    BY <1>3, UserCreated
  <2>5. UsersInv' /\ TokenInv'
    BY <2>3, <2>4 DEF UsersInv, TokenInv, IInv
  <2>6. FreshInv'
    BY <2>1, <2>4 DEF FreshInv, IInv, Advances, Creates, Ended, Call
  <2>7. FirstRunInv'
    BY <1>1, <2>1, <2>2, <2>4, FirstRunKept DEF IInv
  <2> QED  BY <2>2, <2>5, <2>6, <2>7 DEF IInv
<1> QED  BY <1>2, <1>3 DEF CreateUser, Create

\* A new password comes with a new version: the tokens signed before are behind.
LEMMA NewVersionKeeps ==
  ASSUME UsersInv, TokenInv, NEW u \in DOMAIN db.users,
         "users" \in DOMAIN db', DOMAIN db'.users = DOMAIN db.users,
         \A v \in DOMAIN db.users \ {u} : db'.users[v] = db.users[v],
         DOMAIN db'.users[u] = DOMAIN db.users[u],
         db'.users[u].authVersion = db.users[u].authVersion + 1,
         \A token \in issued' :
           \/ token \in issued
           \/ /\ token.user = u /\ token.version = db'.users[u].authVersion
              /\ token.password = db'.users[u].password
  PROVE  UsersInv' /\ TokenInv'
<1>1. UsersInv'
  BY DEF UsersInv
<1>2. ASSUME NEW token \in issued', token.user \in DOMAIN db'.users
      PROVE  LET user == db'.users[token.user]
             IN /\ token.version \in Int /\ token.version <= user.authVersion
                /\ token.version = user.authVersion => token.password = user.password
  <2>1. CASE token \notin issued
    BY <1>1, <1>2, <2>1 DEF UsersInv
  <2>2. CASE token \in issued /\ token.user # u
    BY <1>2, <2>2 DEF TokenInv
  <2>3. CASE token \in issued /\ token.user = u
    <3>1. token.version \in Int /\ token.version <= db.users[u].authVersion /\ db.users[u].authVersion \in Int
      BY <2>3 DEF TokenInv, UsersInv
    <3> QED  BY <2>3, <3>1
  <2> QED  BY <2>1, <2>2, <2>3
<1> QED  BY <1>1, <1>2 DEF TokenInv

LEMMA UpdatePasswordKeeps ==
  ASSUME IInv, NEW q \in DOMAIN requests, UpdatePassword(q), UNCHANGED sent
  PROVE  IInv'
<1> DEFINE u == UserOf(q).id
<1>1. ~Ended(q) /\ Call(q).op # "setup"
  BY AtRuns DEF UpdatePassword, IInv
<1>2. CASE u \notin DOMAIN db.users
  BY <1>1, <1>2, RefusalKeeps DEF UpdatePassword
<1>3. CASE u \in DOMAIN db.users
  <2>1. /\ db' = [db EXCEPT !.users[u].password = Input(q).newPassword, !.users[u].authVersion = NextVersion(q)]
        /\ CreateAccessToken(q, db', u)
    BY <1>3 DEF UpdatePassword
  <2>2. Credentials \subseteq DOMAIN db.users[u] /\ "users" \in DOMAIN db
    BY <1>3 DEF UsersInv, IInv
  <2>3. /\ "users" \in DOMAIN db' /\ DOMAIN db'.users = DOMAIN db.users
        /\ \A v \in DOMAIN db.users \ {u} : db'.users[v] = db.users[v]
        /\ DOMAIN db'.users[u] = DOMAIN db.users[u]
    BY <1>3, <2>1, <2>2
  <2>4. db'.users[u].authVersion = db.users[u].authVersion + 1
    BY <1>3, <2>1, <2>2 DEF NextVersion, Credentials
  <2> DEFINE token == [user |-> u, version |-> db'.users[u].authVersion, password |-> db'.users[u].password]
  <2>5. issued' = issued \cup {token}
    BY <2>1 DEF CreateAccessToken
  <2>6. UsersInv' /\ TokenInv'
    <3>1. PICK v \in DOMAIN db.users : v = u
      BY <1>3
    <3>2. \A t \in issued' :
            \/ t \in issued
            \/ t.user = v /\ t.version = db'.users[v].authVersion /\ t.password = db'.users[v].password
      BY <2>5, <3>1
    <3> HIDE DEF token, u
    <3> QED  BY <2>3, <2>4, <3>1, <3>2, NewVersionKeeps DEF IInv
  <2>7. Advances(q)
    BY <2>1, AnswerAdvances DEF CreateAccessToken, IInv
  <2>8. RequestInv' /\ FreshInv' /\ FirstRunInv'
    BY <1>1, <1>3, <2>3, <2>5, <2>7, RequestsKept, FreshKept, FirstRunKept DEF IInv
  <2> QED  BY <2>6, <2>8 DEF IInv
<1> QED  BY <1>2, <1>3

LEMMA ResetPasswordKeeps ==
  ASSUME IInv, NEW q \in DOMAIN requests, ResetPassword(q), UNCHANGED <<issued, sent>>
  PROVE  IInv'
<1> DEFINE u == Found(q)
           row == [db.users[u] EXCEPT !.password = Input(q).password, !.authVersion = @ + 1]
<1>1. ~Ended(q) /\ Call(q).op # "setup"
  BY AtRuns DEF ResetPassword, IInv
<1>2. CASE \E status : Refuse(q, status) /\ UNCHANGED db
  BY <1>1, <1>2, RefusalKeeps
<1>3. CASE u \in DOMAIN db.users /\ db' = WithRow(db, "users", u, row) /\ Answer(q, None)
  <2>1. Credentials \subseteq DOMAIN db.users[u] /\ "users" \in DOMAIN db
    BY <1>3 DEF UsersInv, IInv
  <2>2. "users" \in DOMAIN db' /\ db'.users = Over([i \in {u} |-> row], db.users)
    BY <1>3, <2>1 DEF WithRow
  <2>3. DOMAIN db'.users = DOMAIN db.users /\ \A v \in DOMAIN db.users : db'.users[v] = IF v = u THEN row ELSE db.users[v]
    BY <1>3, <2>2 DEF Over
  <2>4. db'.users[u] = row
    BY <1>3, <2>3
  <2>5. DOMAIN row = DOMAIN db.users[u] /\ row.authVersion = db.users[u].authVersion + 1
    BY <2>1 DEF Credentials
  <2>6. \A v \in DOMAIN db.users \ {u} : db'.users[v] = db.users[v]
    BY <2>3
  <2>7. UsersInv' /\ TokenInv'
    <3>1. PICK v \in DOMAIN db.users : v = u
      BY <1>3
    <3>2. DOMAIN db'.users[u] = DOMAIN db.users[u] /\ db'.users[u].authVersion = db.users[u].authVersion + 1
      BY <2>4, <2>5
    <3> HIDE DEF row, u
    <3> QED  BY <2>2, <2>3, <2>6, <3>1, <3>2, NewVersionKeeps DEF IInv
  <2>8. Advances(q)
    BY <1>3, AnswerAdvances DEF IInv
  <2>9. RequestInv' /\ FreshInv' /\ FirstRunInv'
    BY <1>1, <2>3, <2>8, RequestsKept, FreshKept, FirstRunKept DEF IInv
  <2> QED  BY <2>7, <2>9 DEF IInv
<1> QED  BY <1>2, <1>3 DEF ResetPassword, Put

LEMMA RequestStepKeeps ==
  ASSUME IInv, RequestStep, UNCHANGED sent
  PROVE  IInv'
<1> USE DEF IInv
<1>1. PICK q \in DOMAIN requests :
        \/ SessionStep(q) \/ Crash(q)
        \/ /\ UNCHANGED issued
           /\ \/ AuthenticateUser(q) \/ AuthenticateAdmin(q) \/ AccessStep(q)
              \/ RepositoryStep(q) \/ NotificationStep(q) \/ AccountStep(q) \/ QueryStep(q)
  BY DEF RequestStep
<1>2. CASE ReadSetupStatus(q)
  BY <1>2, AtRuns, AnswerAdvances, UnchangedKeeps, QuietKeeps DEF ReadSetupStatus
<1>3. CASE FindForPassword(q)
  BY <1>3, AtRuns, FoundAdvances, RefuseAdvances, UnchangedKeeps, QuietKeeps DEF FindForPassword
<1>4. CASE SessionStep(q) /\ ~ReadSetupStatus(q) /\ ~FindForPassword(q)
  <2> USE DEF SessionStep
  <2> QED
    BY <1>4, SignInKeeps, LockSetupKeeps, CountUsersKeeps, CreateAdminKeeps, UpdatePasswordKeeps
<1>5. CASE Crash(q)
  BY <1>5, RefusalKeeps DEF Crash
<1>6. CASE (AuthenticateUser(q) \/ AuthenticateAdmin(q)) /\ UNCHANGED issued
  BY <1>6, AtRuns, AuthenticateAdvances, QuietKeeps DEF AuthenticateUser, AuthenticateAdmin, At, Authenticators
<1>7. CASE AccessStep(q) /\ UNCHANGED issued
  BY <1>7, ResetPasswordKeeps, CreateUserKeeps, AccessAdvances, QuietKeeps
<1>8. CASE (RepositoryStep(q) \/ NotificationStep(q) \/ AccountStep(q) \/ QueryStep(q)) /\ UNCHANGED issued
  BY <1>8, RepositoryAdvances, NotificationAdvances, AccountAdvances, QueryAdvances, QuietKeeps
<1> QED  BY <1>1, <1>2, <1>3, <1>4, <1>5, <1>6, <1>7, <1>8

\* The synchronizations write runs; the clients of the status write nothing.
LEMMA StatusStepKeepsUsers ==
  ASSUME UsersInv, StatusStep
  PROVE  "users" \in DOMAIN db' /\ db'.users = db.users
<1>1. ASSUME NEW j, BeginProviderSync(j) \/ FindEnabled(j) \/ ListWorkflowRuns(j) \/ CountRunning(j) \/ AssignCount(j)
      PROVE  UNCHANGED db
  BY <1>1 DEF BeginProviderSync, FindEnabled, ListWorkflowRuns, CountRunning, AssignCount
<1>2. ASSUME NEW j, PersistRun(j)
      PROVE  "users" \in DOMAIN db' /\ db'.users = db.users
  BY <1>2 DEF PersistRun, UsersInv
<1>3. ASSUME NEW c, Connect(c) \/ Join(c) \/ Greet(c) \/ Receive(c) \/ Reconnect(c) \/ Unmount(c)
      PROVE  UNCHANGED db
  BY <1>3 DEF Connect, Join, Greet, Receive, Reconnect, Unmount, Socket
<1> QED  BY <1>1, <1>2, <1>3 DEF StatusStep, UsersInv

\* A step in which no request runs and no user changes.
LEMMA UsersUnchangedKeeps ==
  ASSUME IInv, "users" \in DOMAIN db', db'.users = db.users, UNCHANGED <<requests, issued, sent>>
  PROVE  IInv'
<1>1. RequestInv' /\ UsersInv' /\ TokenInv'
  BY DEF IInv, RequestInv, UsersInv, TokenInv, Call
<1>2. FreshInv'
  BY DEF IInv, FreshInv, Creates, Ended, Call
<1>3. FirstRunInv'
  BY DEF IInv, FirstRunInv, SetupOnce, HoldsLock, At, Call
<1> QED  BY <1>1, <1>2, <1>3 DEF IInv

\* A page sends no request that creates a user.
LEMMA AsksKeeps ==
  ASSUME IInv, Asks, UNCHANGED <<db, issued>>
  PROVE  IInv'
<1>1. \A q \in DOMAIN requests' :
        \/ q \in DOMAIN requests /\ requests'[q] = requests[q]
        \/ /\ DOMAIN requests'[q] = RequestFields /\ requests'[q].call.op \notin CreatingOps
           /\ NeverCreates(requests'[q].rest)
  <2>1. ASSUME NEW call, NEW route \in Routes[call.op], IsPageCall(call)
        PROVE  LET request == Waiting(call, route)
               IN DOMAIN request = RequestFields /\ request.call.op \notin CreatingOps /\ NeverCreates(request.rest)
    <3>1. call.op \in DOMAIN Routes /\ call.op \notin CreatingOps
      BY <2>1, WebRoutes DEF IsPageCall
    <3>2. NeverCreates(route)
      BY <3>1, RouteIsRest DEF IsRest, CreatingOps
    <3> QED  BY <3>1, <3>2 DEF Waiting, RequestFields
  <2> QED  BY <2>1 DEF Asks
<1>2. RequestInv'
  <2> SUFFICES ASSUME NEW q \in DOMAIN requests'
               PROVE  DOMAIN requests'[q] = RequestFields /\ IsRest(requests'[q].rest, requests'[q].call.op)
    BY DEF RequestInv, Call
  <2>1. CASE q \in DOMAIN requests /\ requests'[q] = requests[q]
    BY <2>1 DEF IInv, RequestInv, Call
  <2>2. CASE /\ DOMAIN requests'[q] = RequestFields /\ requests'[q].call.op \notin CreatingOps
             /\ NeverCreates(requests'[q].rest)
    BY <2>2 DEF IsRest, CreatingOps
  <2> QED  BY <1>1, <2>1, <2>2
<1>3. UsersInv' /\ TokenInv'
  BY DEF IInv, UsersInv, TokenInv
<1>4. FreshInv'
  BY <1>1 DEF IInv, FreshInv, Creates, Ended, Call
<1>5. \A q \in DOMAIN requests' : HoldsLock(q)' => q \in DOMAIN requests /\ requests'[q] = requests[q]
  <2> SUFFICES ASSUME NEW q \in DOMAIN requests', requests'[q].rest # <<>>, NeverCreates(requests'[q].rest)
               PROVE  Head(requests'[q].rest) \notin Creating
    BY <1>1 DEF HoldsLock, At, Creating
  <2> QED  BY NeverHead
<1>6. FirstRunInv'
  <2>1. \A p, q \in DOMAIN requests' : HoldsLock(p)' /\ HoldsLock(q)' => p = q
    BY <1>5 DEF IInv, FirstRunInv, HoldsLock, At
  <2>2. \A p, q \in DOMAIN requests' : At(q, "CreateAdmin")' /\ p \in DOMAIN db'.users => Call(p)'.op # "setup"
    BY <1>1, <1>5 DEF IInv, FirstRunInv, HoldsLock, At, Call, CreatingOps
  <2>3. SetupOnce'
    BY <1>1 DEF IInv, FirstRunInv, SetupOnce, Call, CreatingOps
  <2> QED  BY <2>1, <2>2, <2>3 DEF FirstRunInv
<1>7. sent' \in Int
  BY DEF Asks
<1> QED  BY <1>2, <1>3, <1>4, <1>6, <1>7 DEF IInv

LEMMA NextKeeps ==
  ASSUME IInv, [Next]_vars
  PROVE  IInv'
<1> USE DEF vars, apiVars, webVars
<1>1. CASE RequestStep /\ UNCHANGED <<setup, now, statusVars, webVars>>
  BY <1>1, RequestStepKeeps
<1>2. CASE TimePasses /\ UNCHANGED <<setup, db, requests, issued, statusVars, webVars>>
  BY <1>2, UsersUnchangedKeeps DEF IInv, UsersInv
<1>3. CASE StatusStep /\ UNCHANGED <<setup, now, requests, issued, webVars>>
  BY <1>3, StatusStepKeepsUsers, UsersUnchangedKeeps DEF IInv
<1>4. CASE WebStep /\ UNCHANGED <<setup, now, db, issued, statusVars>>
  BY <1>4, WebAsks, AsksKeeps DEF IInv
<1>5. CASE UNCHANGED vars
  BY <1>5, UsersUnchangedKeeps DEF IInv, UsersInv
<1> QED  BY <1>1, <1>2, <1>3, <1>4, <1>5 DEF Next
-----------------------------------------------------------------------------
(***************************************************************************)
(* The initial states and the theorems.                                    *)
(***************************************************************************)
LEMMA InitHolds ==
  ASSUME Init
  PROVE  IInv
<1>1. PICK i \in DOMAIN Setups : setup = Setups[i]
  BY DEF Init
<1> DEFINE calls == Setups[i].calls
<1>2. /\ \A q \in DOMAIN calls : calls[q].op \in DOMAIN Routes
      /\ "users" \in DOMAIN db /\ DOMAIN calls \cap DOMAIN db.users = {}
      /\ \A u \in DOMAIN db.users : Credentials \subseteq DOMAIN db.users[u] /\ db.users[u].authVersion \in Nat
  <2>1. "users" \in ToSet(Tables)
    BY DEF Tables, ToSet
  <2> QED  BY <1>1, <2>1, SetupsAssumption DEF Init, Credentials, IsInstallation
<1>3. PICK route :
        /\ \A q \in DOMAIN calls : route[q] \in Routes[calls[q].op]
        /\ requests = [q \in DOMAIN calls |-> Waiting(calls[q], route[q])]
  BY <1>1 DEF Init
<1>4. issued = {[user |-> u, version |-> db.users[u].authVersion, password |-> db.users[u].password] : u \in DOMAIN db.users}
  BY DEF Init
<1> HIDE DEF calls
<1>5. DOMAIN requests = DOMAIN calls
  BY <1>3
<1>6. \A q \in DOMAIN calls :
        DOMAIN requests[q] = RequestFields /\ requests[q].call = calls[q] /\ requests[q].rest = route[q]
  BY <1>3 DEF Waiting, RequestFields
<1>7. \A q \in DOMAIN calls :
        /\ IsRest(route[q], calls[q].op)
        /\ calls[q].op = "setup" => route[q] = <<"LockSetup", "CountUsers", "CreateAdmin">>
  BY <1>2, <1>3, RouteIsRest
<1>8. RequestInv
  BY <1>5, <1>6, <1>7 DEF RequestInv, Call
<1>9. UsersInv /\ TokenInv
  BY <1>2, <1>4 DEF UsersInv, TokenInv
<1>10. FreshInv
  BY <1>2, <1>4, <1>5 DEF FreshInv
<1>11. \A q \in DOMAIN requests : ~HoldsLock(q)
  <2>1. Head(<<"LockSetup", "CountUsers", "CreateAdmin">>) = "LockSetup"
    BY TupleTail3
  <2> QED  BY <1>5, <1>6, <1>7, <1>8, <2>1, FirstRunRests DEF HoldsLock, At, Call
<1>12. SetupOnce
  BY <1>2, <1>5 DEF SetupOnce
<1>13. FirstRunInv
  BY <1>11, <1>12 DEF FirstRunInv, HoldsLock
<1> QED  BY <1>8, <1>9, <1>10, <1>13 DEF IInv, Init

\* The inductive invariant: requests run the rests of their routes, no token is ahead of its
\* user, a request that creates a user brings an identifier no user and no token has had,
\* and one first-run setup at a time is past the advisory lock.
THEOREM Invariance == Spec => []IInv
<1>1. Init => IInv
  BY InitHolds
<1>2. IInv /\ [Next]_vars => IInv'
  BY NextKeeps
<1> QED  BY <1>1, <1>2, PTL DEF Spec

\* JwtStrategy.validate compares the version of a token with authVersion, which every change
\* and reset of a password counts up in the same statement: in whatever order sign-ins,
\* changes, resets and removals of users interleave, and wherever they fail, a token that is
\* accepted was signed for the password its user has now.
THEOREM PasswordsEndSessions == Spec => []SessionsFollowPassword
<1>1. IInv => SessionsFollowPassword
  BY DEF IInv, TokenInv, SessionsFollowPassword, IsLive
<1> QED  BY <1>1, Invariance, PTL

\* AuthService.setup counts the users and creates the administrator under an advisory lock:
\* however many first-run setups are sent at once, and whatever else creates or removes
\* users meanwhile, two administrators made by the setup never exist together.
THEOREM SetupMakesOneAdministrator == Spec => []SetupOnce
<1>1. IInv => SetupOnce
  BY DEF IInv, FirstRunInv
<1> QED  BY <1>1, Invariance, PTL
=============================================================================
