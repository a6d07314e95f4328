------------------------------ MODULE ApiTables ------------------------------
(***************************************************************************)
(* The tables of the API as its handlers use them, and what the services   *)
(* make of their rows.  A database d maps the name of a table to its rows, *)
(* a function from identifiers to records.  The one avatar of a user is a  *)
(* field of the user, the links of a rule to its channels are rows.        *)
(***************************************************************************)
EXTENDS Reports

LOCAL INSTANCE FiniteSetsExt
LOCAL INSTANCE SequencesExt

UserRole == {"SYSTEM_ADMIN", "VIEWER", "MANAGER"}
RepositoryRole == {"VIEWER", "MANAGER"}
WorkflowFilterMode == {"ALLOW", "DENY"}

\* Tables, a referenced one before those that refer to it.
Tables ==
  <<"users", "accounts", "repositories", "tokens", "memberships", "filters", "channels", "rules",
    "links", "runs", "deliveries", "webhooks", "queue">>

\* @relation: the fields of a row that name a row of another table.
References ==
  [t \in ToSet(Tables) |->
     CASE t = "tokens" -> {<<"user", "users">>}
       [] t = "repositories" -> {<<"account", "accounts">>}
       [] t = "memberships" -> {<<"user", "users">>, <<"repository", "repositories">>}
       [] t \in {"filters", "channels", "rules", "runs", "queue"} -> {<<"repository", "repositories">>}
       [] t = "links" -> {<<"rule", "rules">>, <<"channel", "channels">>}
       [] t = "deliveries" -> {<<"rule", "rules">>, <<"run", "runs">>}
       [] t = "webhooks" -> {<<"account", "accounts">>}
       [] OTHER -> {}]

\* @unique and @@unique: the fields that no two rows share.
UniqueFields ==
  [t \in ToSet(Tables) |->
     CASE t = "users" -> {"username"}
       [] t = "accounts" -> {"providerType", "displayName"}
       [] t = "repositories" -> {"account", "remote"}
       [] t = "memberships" -> {"user", "repository"}
       [] t = "filters" -> {"repository", "mode", "pattern"}
       [] t = "channels" -> {"repository", "name"}
       [] t = "links" -> {"rule", "channel"}
       [] t = "deliveries" -> {"rule", "run"}
       [] t = "webhooks" -> {"account", "delivery"}
       [] t = "queue" -> {"repository"}
       [] OTHER -> {}]

User(username, password, role) ==
  [username |-> username, password |-> password, authVersion |-> 0, role |-> role,
   name |-> None, avatar |-> None]
-----------------------------------------------------------------------------
(***************************************************************************)
(* Constraints.                                                            *)
(***************************************************************************)
MapPrismaException == [P2002 |-> "conflict", P2003 |-> "conflict", P2025 |-> "notFound"]

\* The rows are there that a row refers to.
Refers(d, t, row) == \A ref \in References[t] : row[ref[1]] \in DOMAIN d[ref[2]]

\* A row whose references dangle or that repeats the unique fields of another one.
Violates(d, t, id, row) ==
  \/ ~Refers(d, t, row)
  \/ /\ UniqueFields[t] # {}
     /\ \E i \in DOMAIN d[t] \ {id} : \A f \in UniqueFields[t] : d[t][i][f] = row[f]

WithRow(d, t, id, row) == [d EXCEPT ![t] = Over([i \in {id} |-> row], @)]

\* Some rows of one table go.
WithoutRowsOnly(d, t, ids) == [d EXCEPT ![t] = [i \in DOMAIN @ \ ids |-> @[i]]]

\* The rows whose references dangle go.
Swept(d) ==
  [t \in DOMAIN d |->
     IF t = "settings" THEN d[t] ELSE [i \in {j \in DOMAIN d[t] : Refers(d, t, d[t][j])} |-> d[t][i]]]

\* onDelete: Cascade, on every relation; they are three deep: account, repository, rule, link.
WithoutRows(d, t, ids) == Swept(Swept(Swept(WithoutRowsOnly(d, t, ids))))

Consistent(d) ==
  \A t \in ToSet(Tables) : \A i \in DOMAIN d[t] : ~Violates(d, t, i, d[t][i])
-----------------------------------------------------------------------------
(***************************************************************************)
(* Authorization.                                                          *)
(***************************************************************************)
IsAdmin(user) == user.role = "SYSTEM_ADMIN"

\* Rights of the roles of a user and of the memberships that were read: the administrator
\* has them on everything, a manager manages where the membership says so as well.
CreateForUser(user, memberships) ==
  [all |-> IsAdmin(user), reads |-> {m.repository : m \in memberships},
   manages |-> IF user.role = "MANAGER"
               THEN {m.repository : m \in {k \in memberships : k.role = "MANAGER"}} ELSE {}]

MembershipsOf(d, u) ==
  {d.memberships[m] : m \in {k \in DOMAIN d.memberships : d.memberships[k].user = u}}
MayRead(ability, repository) == ability.all \/ repository \in ability.reads
MayManage(ability, repository) == ability.all \/ repository \in ability.manages

ToAuthenticatedUser(d, u) ==
  [id |-> u, username |-> d.users[u].username, role |-> d.users[u].role,
   name |-> d.users[u].name, avatar |-> d.users[u].avatar]
-----------------------------------------------------------------------------
(***************************************************************************)
(* What the API shows of a row: its identifier and the fields that are no  *)
(* secret.                                                                 *)
(***************************************************************************)
Shown(d, t, i, secrets) ==
  [f \in {"id"} \cup (DOMAIN d[t][i] \ secrets) |-> IF f = "id" THEN i ELSE d[t][i][f]]

UserDto(d, u) == Shown(d, "users", u, {"password", "authVersion"})
ProviderAccountDto(d, a) == Shown(d, "accounts", a, {"token", "webhookSecret"})
WorkflowFilterDto(d, f) == Shown(d, "filters", f, {})
NotificationChannelDto(d, c) == Shown(d, "channels", c, {"url"})
NotificationDeliveryDto(d, n) ==
  Over([repository |-> d.rules[d.deliveries[n].rule].repository], Shown(d, "deliveries", n, {}))

NotificationRuleDto(d, n) ==
  Over([channels |-> {d.links[l].channel : l \in {k \in DOMAIN d.links : d.links[k].rule = n}}],
       Shown(d, "rules", n, {}))

McpAccessTokenDto(d, t, now) ==
  LET token == d.tokens[t]
      status == IF token.revoked THEN "REVOKED"
                ELSE IF token.expiresAt # None /\ token.expiresAt <= now THEN "EXPIRED" ELSE "ACTIVE"
  IN Over([status |-> status], Shown(d, "tokens", t, {}))

RepositoryMembershipDto(d, m) ==
  Over([username |-> d.users[d.memberships[m].user].username], Shown(d, "memberships", m, {}))

\* The members are there only in the answers of the queries that include them.
RepositoryMemberSummaryDto(d, r) ==
  {[userId |-> m.user, username |-> d.users[m.user].username, avatar |-> d.users[m.user].avatar]
     : m \in {d.memberships[k] : k \in {j \in DOMAIN d.memberships : d.memberships[j].repository = r}}}
RepositoryDto(d, r, included) ==
  Over([members |-> IF included THEN RepositoryMemberSummaryDto(d, r) ELSE {}], Shown(d, "repositories", r, {}))

WorkflowRunDto(d, w) == Shown(d, "runs", w, {"context"})
DashboardWorkflowRunDto(d, w) ==
  Over([repositoryName |-> d.repositories[d.runs[w].repository].name], WorkflowRunDto(d, w))
-----------------------------------------------------------------------------
(***************************************************************************)
(* Workflow runs.                                                          *)
(***************************************************************************)
VisibleRuns(d, ability) == {w \in DOMAIN d.runs : MayRead(ability, d.runs[w].repository)}
RowsOf(d, ids) == {WorkflowRunDto(d, w) : w \in ids}

Latest(d, ids) ==
  {w \in ids : \A v \in ids : d.runs[v].context = d.runs[w].context => d.runs[v].created <= d.runs[w].created}

\* getCurrentWhere; getNeedsAttentionWhere, without change requests (WorkflowViews has them).
CurrentIds(d, ability) == Latest(d, VisibleRuns(d, ability))
NeedsAttentionIds(d, ability) ==
  {w \in Latest(d, {v \in VisibleRuns(d, ability) : d.runs[v].status \in Completed}) :
     d.runs[w].status = "FAILED"}

Newest(d, ids, count) ==
  {w \in ids : Cardinality({v \in ids : d.runs[v].created > d.runs[w].created}) < count}

\* The filters of a list of runs that the tools and the queries offer.
WorkflowRunWhere(d, w, input) ==
  LET run == d.runs[w]
  IN /\ input.repository \in {None, run.repository}
     /\ input.providerType \in {None, d.accounts[d.repositories[run.repository].account].providerType}
     /\ input.status \in {None, run.status}
     /\ input.from = None \/ input.from <= run.created
     /\ input.to = None \/ run.created <= input.to

RepositoryWhere(d, r, input) ==
  /\ input.enabled \in {None, d.repositories[r].enabled}
  /\ input.providerType \in {None, d.accounts[d.repositories[r].account].providerType}
  /\ input.search \in {None, d.repositories[r].name}
=============================================================================
