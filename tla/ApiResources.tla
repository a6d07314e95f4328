----------------------------- MODULE ApiResources -----------------------------
(***************************************************************************)
(* Repositories and their configuration, notification channels and rules,  *)
(* provider accounts with OAuth and webhooks, and the queries of workflow  *)
(* runs that the pages and the MCP tools make.                             *)
(***************************************************************************)
EXTENDS ApiRequests

LOCAL INSTANCE SequencesExt

\* Promise.all: the statements that were started together end in any order.
Together(statements) == SetToSeqs(statements)
Visible(tails) == {<<"Authenticate", "Ability">> \o s : s \in tails}
Mcp(tails) == {<<"AuthenticateToken", "TouchToken", "Ability">> \o s : s \in tails}

RepositoriesRoutes ==
  [queryRepositories |-> Visible({<<"ReadRepositories">>}),
   findRepository |-> Visible({<<"ReadRepository">>}),
   listFilters |-> AdminOnly(<<"RequireRepository", "ReadFilters">>),
   createFilter |-> AdminOnly(<<"RequireRepository", "CreateFilter">>),
   deleteFilter |-> AdminOnly(<<"FindFilter", "DeleteFilter">>),
   listMemberships |-> AdminOnly(<<"RequireRepository", "ReadMemberships">>),
   upsertMembership |-> AdminOnly(<<"RequireRepository", "FindMember", "UpsertMembership">>),
   deleteMembership |-> AdminOnly(<<"FindMembership", "DeleteMembership">>),
   updateRepository |-> AdminOnly(<<"UpdateRepository">>)]

RefreshRoutes ==
  [refreshRepository |-> AdminOnly(<<"FindWithAccount", "AskProvider", "StoreMetadata">>),
   syncRepository |-> AdminOnly(<<"EnqueueSync">>)]

ChannelsRoutes ==
  [listChannels |-> Visible({<<"ReadChannels">>}),
   createChannel |-> Guarded(<<"AssertCanManage", "CreateChannel">>),
   updateChannel |-> Guarded(<<"FindChannel", "AssertCanManage", "UpdateChannel">>),
   deleteChannel |-> Guarded(<<"FindChannel", "AssertCanManage", "DeleteChannel">>)]

RulesRoutes ==
  [listRules |-> Visible({<<"ReadRules">>}),
   createRule |-> Guarded(<<"AssertCanManage", "CheckChannels", "CreateRule">>),
   updateRule |-> Guarded(<<"FindRule", "AssertCanManage", "CheckChannels", "UpdateRule">>),
   deleteRule |-> Guarded(<<"FindRule", "AssertCanManage", "DeleteRule">>)]

DeliveriesRoutes == [listDeliveries |-> Guarded(<<"ManagedIds", "ReadDeliveries">>)]

AccountsRoutes ==
  [queryAccounts |-> AdminOnly(<<"ReadAccounts">>),
   listAvailable |-> {<<"AuthenticateAdmin", "RequireEnabled">> \o s : s \in Together({"Discover", "ReadTracked"})},
   createAccount |-> AdminOnly(<<"ValidateCredentials", "CreateAccount">>),
   addRepository |-> AdminOnly(<<"RequireEnabled", "DiscoverOne", "CreateRepository", "EnqueueSync">>),
   authorize |-> AdminOnly(<<"IssueState">>),
   updateAccount |-> AdminOnly(<<"RequireAccount", "UpdateAccount">>),
   removeAccount |-> AdminOnly(<<"RequireAccount", "RemoveAccount">>)]

CallbackRoutes == [callback |-> {<<"ConsumeState", "ExchangeCode", "ValidateCredentials", "CreateAccount">>}]
WebhookRoutes == [webhook |-> {<<"FindAccount", "InsertDelivery", "EnqueueWebhook", "CommitDelivery">>}]

WorkflowRunsRoutes ==
  [queryRuns |-> Visible({<<"ReadRuns">>}),
   needsAttention |-> Visible({<<"NeedsAttentionIds", "ReadByIds">>})]

SummaryOrders ==
  {s \in Together({"ReadCompleted", "CurrentIds", "CountActive", "SumCurrent", "SumRetained"}) :
     \E i, j \in DOMAIN s : s[i] = "CurrentIds" /\ s[j] = "CountActive" /\ i < j}

DashboardRoutes ==
  [awaitingApproval |-> Visible({<<"CurrentIds", "ReadByIds">>}),
   failures |-> Visible({<<"NeedsAttentionIds", "ReadByIds">>}),
   latestRuns |-> Visible({<<"ReadLatest">>}),
   summary |-> Visible(SummaryOrders),
   repositoryHealth |-> Visible({<<"ReadHealth">>}),
   trend |-> Visible({<<"ReadTrend">>})]

McpRoutes ==
  [list_repositories |-> Mcp(Together({"ReadRepositories", "CountRepositories"})),
   get_repository |-> Mcp({<<"ReadRepository">>}),
   list_workflow_runs |-> Mcp(Together({"ReadRuns", "CountRuns"})),
   list_needs_attention |-> Mcp({<<"NeedsAttentionIds", "ReadByIds", "CountAttention">>,
                                 <<"CountAttention", "NeedsAttentionIds", "ReadByIds">>}),
   list_awaiting_approval |-> Mcp({<<"CurrentIds", "ReadByIds", "CountAwaiting">>,
                                   <<"CountAwaiting", "CurrentIds", "ReadByIds">>}),
   get_dashboard_summary |-> Mcp(SummaryOrders),
   get_workflow_trend |-> Mcp({<<"ReadTrend">>})]
-----------------------------------------------------------------------------
(***************************************************************************)
(* Abilities.                                                              *)
(***************************************************************************)
\* The memberships are read once; what follows uses what was read.
GetReadAbility(q) ==
  /\ At(q, "Ability")
  /\ Proceed(q, [ability |-> CreateForUser(UserOf(q), MembershipsOf(db, UserOf(q).id))])
  /\ UNCHANGED db

Sees(q, repository) == MayRead(requests[q].ability, repository)

\* Mutant of ManagedRepository: the repository the input names, also for a row it has found.
ManagedRepositoryAsked(q) == IF "repository" \in DOMAIN Input(q) THEN Input(q).repository ELSE Found(q).repository

\* A handler creates in the repository of its input, or changes a row it has found.
ManagedRepository(q) ==
  IF Call(q).op \in {"createChannel", "createRule"} THEN Input(q).repository ELSE Found(q).repository

AssertCanManageRepository(q) ==
  /\ At(q, "AssertCanManage")
  /\ IF MayManage(CreateForUser(UserOf(q), MembershipsOf(db, UserOf(q).id)), ManagedRepository(q))
     THEN Proceed(q, [found |-> Found(q)]) ELSE Refuse(q, "forbidden")
  /\ UNCHANGED db

GetManagedRepositoryIds(q) ==
  /\ At(q, "ManagedIds")
  /\ Proceed(q, [ability |-> CreateForUser(UserOf(q), MembershipsOf(db, UserOf(q).id))])
  /\ UNCHANGED db
-----------------------------------------------------------------------------
(***************************************************************************)
(* Repositories and their configuration.                                   *)
(***************************************************************************)
\* Parts of an answer that are read by several statements.
Part(q, fields) ==
  Answer(q, IF requests[q].reply = None THEN fields ELSE Over(fields, requests[q].reply)) /\ UNCHANGED db

\* The text of a search, where the query has one.
Searched(q, text) == "search" \in DOMAIN Input(q) => Input(q).search \in {None, text}

VisibleRepositories(q) ==
  {r \in DOMAIN db.repositories : Sees(q, r) /\ RepositoryWhere(db, r, Input(q))}
ReadRepositories(q) ==
  At(q, "ReadRepositories")
    /\ Part(q, [items |-> {RepositoryDto(db, r, Call(q).op = "queryRepositories") : r \in VisibleRepositories(q)}])
CountRepositories(q) ==
  At(q, "CountRepositories") /\ Part(q, [total |-> Cardinality(VisibleRepositories(q))])

ReadRepository(q) ==
  LET r == Input(q).repository
  IN /\ At(q, "ReadRepository")
     /\ IF r \in DOMAIN db.repositories /\ Sees(q, r)
        THEN Answer(q, [items |-> {RepositoryDto(db, r, Call(q).op = "findRepository")}]) ELSE Refuse(q, "notFound")
     /\ UNCHANGED db

RequireRepository(q) ==
  At(q, "RequireRepository") /\ Find(q, "repositories", Input(q).repository, "notFound")

OwnRows(t, repository) == {i \in DOMAIN db[t] : db[t][i].repository = repository}
ReadFilters(q) ==
  /\ At(q, "ReadFilters")
  /\ Answer(q, [items |-> {WorkflowFilterDto(db, f) : f \in OwnRows("filters", Input(q).repository)}])
  /\ UNCHANGED db
CreateFilter(q) ==
  /\ At(q, "CreateFilter")
  /\ Create(q, "filters", Given(Input(q), {"repository", "mode", "pattern"}),
         [items |-> {WorkflowFilterDto(db', q)}])

\* The row must belong to the repository of the path.
FindOwn(q, t, id) ==
  /\ IF id \in OwnRows(t, Input(q).repository) THEN Proceed(q, [found |-> db[t][id]]) ELSE Refuse(q, "notFound")
  /\ UNCHANGED db
FindFilter(q) == At(q, "FindFilter") /\ FindOwn(q, "filters", Input(q).id)
DeleteFilter(q) == At(q, "DeleteFilter") /\ Delete(q, "filters", Input(q).id)

MembershipOf(u, repository) ==
  {m \in OwnRows("memberships", repository) : db.memberships[m].user = u}
ReadMemberships(q) ==
  /\ At(q, "ReadMemberships")
  /\ Answer(q, [items |-> {RepositoryMembershipDto(db, m) : m \in OwnRows("memberships", Input(q).repository)}])
  /\ UNCHANGED db
FindMember(q) == At(q, "FindMember") /\ Find(q, "users", Input(q).user, "notFound")
UpsertMembership(q) ==
  LET stored == MembershipOf(Input(q).user, Input(q).repository)
      m == IF stored = {} THEN q ELSE CHOOSE m \in stored : TRUE
  IN /\ At(q, "UpsertMembership")
     /\ Put(q, "memberships", m, Given(Input(q), {"user", "repository", "role"}),
            [items |-> {RepositoryMembershipDto(db', m)}])
FindMembership(q) ==
  LET stored == MembershipOf(Input(q).user, Input(q).repository)
  IN /\ At(q, "FindMembership")
     /\ IF stored = {} THEN Refuse(q, "notFound") ELSE Proceed(q, [found |-> CHOOSE m \in stored : TRUE])
     /\ UNCHANGED db
DeleteMembership(q) == At(q, "DeleteMembership") /\ Delete(q, "memberships", Found(q))

UpdateRepository(q) ==
  /\ At(q, "UpdateRepository")
  /\ Update(q, "repositories", Input(q).repository, Given(Input(q), {"enabled", "retention"}),
            [items |-> {RepositoryDto(db', Input(q).repository, FALSE)}])

\* refreshById: the row is read, the provider is asked, the row is written; the answer is
\* the row that was read with the name that was asked for.
FindWithAccount(q) ==
  LET r == Input(q).repository
  IN /\ At(q, "FindWithAccount")
     /\ IF r \notin DOMAIN db.repositories THEN Refuse(q, "notFound")
        ELSE IF ~db.accounts[db.repositories[r].account].enabled THEN Refuse(q, "badRequest")
        ELSE Proceed(q, [found |-> RepositoryDto(db, r, FALSE)])
     /\ UNCHANGED db
AskProvider(q) ==
  /\ At(q, "AskProvider")
  /\ \/ \E status \in {"notFound", "conflict"} : Refuse(q, status)
     \/ \E name \in setup.names :
          IF name = Found(q).name THEN Return(q, [items |-> {Found(q)}])
          ELSE Proceed(q, [found |-> [Found(q) EXCEPT !.name = name]])
  /\ UNCHANGED db
StoreMetadata(q) ==
  /\ At(q, "StoreMetadata")
  /\ Update(q, "repositories", Input(q).repository, [name |-> Found(q).name], [items |-> {Found(q)}])

\* An immediate request of the queue (SyncQueue has the queue); a repository that is gone
\* fails the insertion, and the error has no status of its own.
EnqueueRepositorySync(q) ==
  LET r == IF Call(q).op = "addRepository" THEN q ELSE Input(q).repository
  IN /\ At(q, "EnqueueSync")
     /\ IF r \notin DOMAIN db.repositories THEN Refuse(q, "error") /\ UNCHANGED db
        ELSE db' = WithRow(db, "queue", r, [repository |-> r]) /\ Answer(q, requests[q].reply)
-----------------------------------------------------------------------------
(***************************************************************************)
(* Notification channels and rules.                                        *)
(***************************************************************************)
\* A list is limited to one repository when the query names it.
Asked(q, repository) == "repository" \in DOMAIN Input(q) => Input(q).repository = repository
ListVisible(q, t) == {i \in DOMAIN db[t] : Sees(q, db[t][i].repository) /\ Asked(q, db[t][i].repository)}
ReadChannels(q) ==
  /\ At(q, "ReadChannels")
  /\ Answer(q, [items |-> {NotificationChannelDto(db, c) : c \in ListVisible(q, "channels")}]) /\ UNCHANGED db
ReadRules(q) ==
  /\ At(q, "ReadRules")
  /\ Answer(q, [items |-> {NotificationRuleDto(db, n) : n \in ListVisible(q, "rules")}]) /\ UNCHANGED db

\* Mutant of ReadDeliveries: a repository that is asked for is not looked up in the managed ones.
ReadDeliveriesAsked(q) ==
  /\ At(q, "ReadDeliveries")
  /\ LET Listed(r) == IF "repository" \in DOMAIN Input(q) THEN Asked(q, r) ELSE MayManage(requests[q].ability, r)
     IN Answer(q, [items |-> {NotificationDeliveryDto(db, n) :
                                n \in {k \in DOMAIN db.deliveries : Listed(db.rules[db.deliveries[k].rule].repository)}}])
  /\ UNCHANGED db

ReadDeliveries(q) ==
  /\ At(q, "ReadDeliveries")
  /\ LET Listed(r) == MayManage(requests[q].ability, r) /\ Asked(q, r)
     IN Answer(q, [items |-> {NotificationDeliveryDto(db, n) :
                                n \in {k \in DOMAIN db.deliveries : Listed(db.rules[db.deliveries[k].rule].repository)}}])
  /\ UNCHANGED db

FindChannel(q) == At(q, "FindChannel") /\ Find(q, "channels", Input(q).id, "notFound")
FindRule(q) == At(q, "FindRule") /\ Find(q, "rules", Input(q).id, "notFound")

CreateChannel(q) ==
  /\ At(q, "CreateChannel")
  /\ Create(q, "channels",
         Over([reconfigure |-> FALSE], Given(Input(q), {"repository", "name", "enabled", "url"})),
         [items |-> {NotificationChannelDto(db', q)}])

\* A channel without its URL is enabled only together with a new one.
UpdateChannel(q) ==
  LET url == "url" \in DOMAIN Input(q)
      enables == "enabled" \in DOMAIN Input(q) /\ Input(q).enabled
  IN /\ At(q, "UpdateChannel")
     /\ IF enables /\ Found(q).reconfigure /\ ~url THEN Refuse(q, "forbidden") /\ UNCHANGED db
        ELSE Update(q, "channels", Input(q).id,
                    Given(Over([reconfigure |-> FALSE], Input(q)),
                          {"name", "enabled"} \cup (IF url THEN {"url", "reconfigure"} ELSE {})),
                    [items |-> {NotificationChannelDto(db', Input(q).id)}])
DeleteChannel(q) == At(q, "DeleteChannel") /\ Delete(q, "channels", Input(q).id)

\* Mutant of ChannelsBelong: channels of any repository.
ChannelsBelongAnywhere(channels, repository) ==
  IsInjective(channels) /\ \A c \in ToSet(channels) : c \in DOMAIN db.channels

ChannelsBelong(channels, repository) ==
  /\ IsInjective(channels)
  /\ \A c \in ToSet(channels) : c \in DOMAIN db.channels /\ db.channels[c].repository = repository

AssertChannelsBelongToRepository(q) ==
  /\ At(q, "CheckChannels")
  /\ IF "channels" \in DOMAIN Input(q) => ChannelsBelong(Input(q).channels, ManagedRepository(q))
     THEN Proceed(q, [found |-> Found(q)]) ELSE Refuse(q, "forbidden")
  /\ UNCHANGED db

\* The rule and its links are written in one statement, which fails as a whole.
PutRule(q, rule, row) ==
  LET Links(n) == {l \in DOMAIN db.links : db.links[l].rule = n}
      channels == IF "channels" \in DOMAIN Input(q) THEN ToSet(Input(q).channels) ELSE {}
      added == [l \in {rule} \X channels |-> [rule |-> l[1], channel |-> l[2]]]
      replaced == IF "channels" \in DOMAIN Input(q) THEN Links(rule) ELSE {}
      d == WithRow(WithoutRows(db, "links", replaced), "rules", rule, row)
  IN IF Violates(db, "rules", rule, row) \/ ~(channels \subseteq DOMAIN db.channels)
     THEN Refuse(q, MapPrismaException.P2003) /\ UNCHANGED db
     ELSE db' = [d EXCEPT !.links = Over(added, @)] /\ Answer(q, [items |-> {NotificationRuleDto(db', rule)}])
CreateRule(q) ==
  At(q, "CreateRule") /\ PutRule(q, q, Given(Input(q), {"repository", "outcome", "enabled"}))
UpdateRule(q) ==
  LET rule == Input(q).id
  IN /\ At(q, "UpdateRule")
     /\ IF rule \notin DOMAIN db.rules THEN Refuse(q, MapPrismaException.P2025) /\ UNCHANGED db
        ELSE PutRule(q, rule, Over(Given(Input(q), {"outcome", "enabled"}), db.rules[rule]))
DeleteRule(q) == At(q, "DeleteRule") /\ Delete(q, "rules", Input(q).id)
-----------------------------------------------------------------------------
(***************************************************************************)
(* Provider accounts.                                                      *)
(***************************************************************************)
ReadAccounts(q) ==
  /\ At(q, "ReadAccounts")
  /\ Answer(q, [items |-> {ProviderAccountDto(db, a) :
                          a \in {k \in DOMAIN db.accounts : Searched(q, db.accounts[k].displayName)}}])
  /\ UNCHANGED db

RequireAccount(q) == At(q, "RequireAccount") /\ Find(q, "accounts", Input(q).account, "notFound")
RequireEnabled(q) ==
  LET a == Input(q).account
  IN /\ At(q, "RequireEnabled")
     /\ IF a \in DOMAIN db.accounts /\ ~db.accounts[a].enabled THEN Refuse(q, "badRequest") /\ UNCHANGED db
        ELSE Find(q, "accounts", a, "notFound")

\* The provider answers, or the call fails.
ProviderAnswers(q, fields) ==
  (Proceed(q, fields) \/ (setup.fails /\ Refuse(q, "badRequest"))) /\ UNCHANGED db

Discover(q) == At(q, "Discover") /\ ProviderAnswers(q, [found |-> setup.remotes[Input(q).account]])
ReadTracked(q) ==
  /\ At(q, "ReadTracked")
  /\ Answer(q, [tracked |-> {db.repositories[r].remote : r \in {k \in DOMAIN db.repositories :
                                                                   db.repositories[k].account = Input(q).account}}])
  /\ UNCHANGED db

ValidateCredentials(q) == At(q, "ValidateCredentials") /\ ProviderAnswers(q, [found |-> Found(q)])

\* From the fields of the body, or from the state of an OAuth authorization.
CreateAccount(q) ==
  LET input == IF Call(q).op = "callback" THEN Found(q) ELSE Input(q)
  IN /\ At(q, "CreateAccount")
     /\ Create(q, "accounts", Over([enabled |-> TRUE, token |-> input.token, webhookSecret |-> None],
                                   Given(input, {"providerType", "displayName"})),
            [items |-> {ProviderAccountDto(db', q)}])
UpdateAccount(q) ==
  /\ At(q, "UpdateAccount")
  /\ Update(q, "accounts", Input(q).account, Given(Input(q), {"displayName", "enabled", "token", "webhookSecret"}),
            [items |-> {ProviderAccountDto(db', Input(q).account)}])

\* A delivery that is not committed yet holds its account.
RemoveAccount(q) ==
  /\ At(q, "RemoveAccount")
  /\ \A p \in DOMAIN requests :
       At(p, "EnqueueWebhook") \/ At(p, "CommitDelivery") => Input(p).account # Input(q).account
  /\ Delete(q, "accounts", Input(q).account)

DiscoverOne(q) ==
  /\ At(q, "DiscoverOne")
  /\ IF Input(q).remote \in setup.remotes[Input(q).account] THEN ProviderAnswers(q, [found |-> Found(q)])
     ELSE Refuse(q, "notFound") /\ UNCHANGED db
CreateRepository(q) ==
  /\ At(q, "CreateRepository")
  /\ Create(q, "repositories",
         [account |-> Input(q).account, remote |-> Input(q).remote, name |-> Input(q).remote,
          enabled |-> TRUE, retention |-> None, retained |-> 0],
         [items |-> {RepositoryDto(db', q, FALSE)}])

\* The state of an authorization is not stored: it travels through the provider, encrypted.
IssueState(q) ==
  /\ At(q, "IssueState")
  /\ Answer(q, [state |-> Over([user |-> UserOf(q).id, expiresAt |-> now + setup.lifetime],
                                Given(Input(q), {"providerType", "displayName"}))])
  /\ UNCHANGED db
ConsumeState(q) ==
  LET p == Input(q).of
      state == requests[p].reply.state
  IN /\ At(q, "ConsumeState")
     /\ Succeeded(p)
     /\ IF state.expiresAt <= now THEN Refuse(q, "badRequest")
        ELSE IF state.user \notin DOMAIN db.users \/ ~IsAdmin(db.users[state.user]) THEN Refuse(q, "forbidden")
        ELSE Proceed(q, [user |-> ToAuthenticatedUser(db, state.user), found |-> Over([token |-> "oauth"], state)])
     /\ UNCHANGED db
ExchangeCode(q) == At(q, "ExchangeCode") /\ ProviderAnswers(q, [found |-> Found(q)])
-----------------------------------------------------------------------------
(***************************************************************************)
(* Webhooks: the delivery and the request of the queue are one transaction. *)
(***************************************************************************)
VerifyWebhook(account, input) == account.webhookSecret # None /\ input.secret = account.webhookSecret

FindAccount(q) ==
  LET a == Input(q).account
  IN /\ At(q, "FindAccount")
     /\ IF a \in DOMAIN db.accounts /\ db.accounts[a].enabled /\ VerifyWebhook(db.accounts[a], Input(q))
        THEN Proceed(q, [found |-> {}]) ELSE Refuse(q, "unauthorized")
     /\ UNCHANGED db

DeliveryRow(q) == [account |-> Input(q).account, delivery |-> Input(q).delivery]
Unfinished(p) == At(p, "EnqueueWebhook") \/ At(p, "CommitDelivery")

\* Mutant of InsertDelivery: the delivery is stored before its request is queued.
InsertDeliveryAtOnce(q) ==
  /\ At(q, "InsertDelivery")
  /\ IF \E w \in DOMAIN db.webhooks : db.webhooks[w] = DeliveryRow(q)
     THEN Return(q, [duplicate |-> TRUE]) /\ UNCHANGED db
     ELSE Put(q, "webhooks", q, DeliveryRow(q), None)

\* A delivery whose number is being stored waits for the other transaction.
InsertDelivery(q) ==
  /\ At(q, "InsertDelivery")
  /\ \A p \in DOMAIN requests : Unfinished(p) => DeliveryRow(p) # DeliveryRow(q)
  /\ IF DeliveryRow(q).account \notin DOMAIN db.accounts THEN Refuse(q, MapPrismaException.P2003)
     ELSE IF Violates(db, "webhooks", q, DeliveryRow(q)) THEN Return(q, [duplicate |-> TRUE])
     ELSE Proceed(q, [found |-> {}])
  /\ UNCHANGED db

EnqueueWebhookRepository(q) ==
  LET Concerned(r) == /\ db.repositories[r].enabled /\ db.repositories[r].account = Input(q).account
                      /\ db.repositories[r].remote = Input(q).remote
                      /\ db.accounts[Input(q).account].enabled
  IN /\ At(q, "EnqueueWebhook")
     /\ Proceed(q, [found |-> {r \in DOMAIN db.repositories : Concerned(r)}])
     /\ UNCHANGED db

CommitDelivery(q) ==
  /\ At(q, "CommitDelivery")
  /\ db' = [WithRow(db, "webhooks", q, DeliveryRow(q)) EXCEPT
              !.queue = Over([r \in Found(q) |-> [repository |-> r]], @)]
  /\ Answer(q, [duplicate |-> FALSE])
-----------------------------------------------------------------------------
(***************************************************************************)
(* Queries of workflow runs.                                               *)
(***************************************************************************)
AbilityOf(q) == requests[q].ability
Dto(q, w) ==
  IF Call(q).op \in {"queryRuns", "needsAttention", "list_workflow_runs", "list_needs_attention"}
  THEN WorkflowRunDto(db, w) ELSE DashboardWorkflowRunDto(db, w)
Items(q, ids) == [items |-> {Dto(q, w) : w \in ids}]
Matching(q, ids) ==
  {w \in ids : /\ "status" \in DOMAIN Input(q) => WorkflowRunWhere(db, w, Input(q))
               /\ Searched(q, db.runs[w].context)}

ReadRuns(q) == At(q, "ReadRuns") /\ Part(q, Items(q, Matching(q, VisibleRuns(db, AbilityOf(q)))))
CountRuns(q) ==
  At(q, "CountRuns") /\ Part(q, [total |-> Cardinality(Matching(q, VisibleRuns(db, AbilityOf(q))))])
ReadLatest(q) ==
  At(q, "ReadLatest") /\ Part(q, Items(q, Newest(db, VisibleRuns(db, AbilityOf(q)), setup.latest)))

\* The identifiers are resolved first; the rows are read by them in a second statement.
FindNeedsAttention(q) ==
  At(q, "NeedsAttentionIds") /\ Proceed(q, [found |-> NeedsAttentionIds(db, AbilityOf(q))]) /\ UNCHANGED db
FindCurrent(q) ==
  At(q, "CurrentIds") /\ Proceed(q, [found |-> CurrentIds(db, AbilityOf(q))]) /\ UNCHANGED db
Waits(q, ids) ==
  {w \in ids : Call(q).op \in {"awaitingApproval", "list_awaiting_approval"} => db.runs[w].approval}
ReadByIds(q) ==
  At(q, "ReadByIds")
    /\ Part(q, Items(q, Waits(q, Matching(q, Found(q) \cap VisibleRuns(db, AbilityOf(q))))))
CountAttention(q) ==
  At(q, "CountAttention")
    /\ Part(q, [total |-> Cardinality(Matching(q, NeedsAttentionIds(db, AbilityOf(q))))])
CountAwaiting(q) ==
  At(q, "CountAwaiting")
    /\ Part(q, [total |-> Cardinality(Waits(q, Matching(q, CurrentIds(db, AbilityOf(q)))))])

\* The reports refuse a period that ends before it begins, before they read.
Reported(q) == RowsOf(db, VisibleRuns(db, AbilityOf(q)))
Report(q, fields) == IF IsPeriod(Input(q)) THEN Part(q, fields) ELSE Refuse(q, "badRequest") /\ UNCHANGED db
ReadCompleted(q) == At(q, "ReadCompleted") /\ Report(q, Summary(Reported(q), Input(q)))
CountActive(q) ==
  LET Active(status) == {w \in Found(q) \cap VisibleRuns(db, AbilityOf(q)) : db.runs[w].status = status}
  IN /\ At(q, "CountActive")
     /\ Report(q, [queuedCount |-> Cardinality(Active("QUEUED")), runningCount |-> Cardinality(Active("RUNNING")),
                   awaitingApprovalCount |->
                     Cardinality({w \in Active("QUEUED") \cup Active("RUNNING") : db.runs[w].approval})])
SumCurrent(q) == At(q, "SumCurrent") /\ Report(q, [durationMs |-> TotalDuration(Reported(q))])
SumRetained(q) ==
  At(q, "SumRetained")
    /\ Report(q, [retainedMs |-> RetainedDuration({RepositoryDto(db, r, FALSE) : r \in {k \in DOMAIN db.repositories : Sees(q, k)}})])
ReadHealth(q) == At(q, "ReadHealth") /\ Report(q, [health |-> RepositoryHealth(Reported(q), Input(q))])
ReadTrend(q) == At(q, "ReadTrend") /\ Report(q, [buckets |-> Trend(Reported(q), Input(q), Input(q).bucket)])
-----------------------------------------------------------------------------
RepositoryStep(q) ==
  \/ GetReadAbility(q) \/ ReadRepositories(q) \/ CountRepositories(q) \/ ReadRepository(q)
  \/ RequireRepository(q) \/ ReadFilters(q) \/ CreateFilter(q) \/ FindFilter(q) \/ DeleteFilter(q)
  \/ ReadMemberships(q) \/ FindMember(q) \/ UpsertMembership(q) \/ FindMembership(q) \/ DeleteMembership(q)
  \/ UpdateRepository(q) \/ FindWithAccount(q) \/ AskProvider(q) \/ StoreMetadata(q) \/ EnqueueRepositorySync(q)
NotificationStep(q) ==
  \/ AssertCanManageRepository(q) \/ GetManagedRepositoryIds(q) \/ ReadChannels(q) \/ ReadRules(q)
  \/ ReadDeliveries(q) \/ FindChannel(q) \/ FindRule(q) \/ CreateChannel(q) \/ UpdateChannel(q)
  \/ DeleteChannel(q) \/ AssertChannelsBelongToRepository(q) \/ CreateRule(q) \/ UpdateRule(q) \/ DeleteRule(q)
AccountStep(q) ==
  \/ ReadAccounts(q) \/ RequireAccount(q) \/ RequireEnabled(q) \/ Discover(q) \/ ReadTracked(q)
  \/ ValidateCredentials(q) \/ CreateAccount(q) \/ UpdateAccount(q) \/ RemoveAccount(q) \/ DiscoverOne(q)
  \/ CreateRepository(q) \/ IssueState(q) \/ ConsumeState(q) \/ ExchangeCode(q)
  \/ FindAccount(q) \/ InsertDelivery(q) \/ EnqueueWebhookRepository(q) \/ CommitDelivery(q)
QueryStep(q) ==
  \/ ReadRuns(q) \/ CountRuns(q) \/ ReadLatest(q) \/ FindNeedsAttention(q) \/ FindCurrent(q) \/ ReadByIds(q)
  \/ CountAttention(q) \/ CountAwaiting(q) \/ ReadCompleted(q) \/ CountActive(q) \/ SumCurrent(q)
  \/ SumRetained(q) \/ ReadHealth(q) \/ ReadTrend(q)
=============================================================================
