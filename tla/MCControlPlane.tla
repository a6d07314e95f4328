---------------------------- MODULE MCControlPlane ----------------------------
(***************************************************************************)
(* Instances of the control plane: one installation with two repositories  *)
(* and three users, and the requests that cross in it.  Identifiers are    *)
(* numbers; a row that a request creates has the number of the request.    *)
(***************************************************************************)
EXTENDS ControlPlane, TLC

LOCAL INSTANCE SequencesExt

Admin == 1
Mona == 2
Vera == 3

\* Time 0 is a Sunday, the last day of a week of three days.
Run(repository, context, created, status) ==
  [repository |-> repository, context |-> context, created |-> created, status |-> status,
   approval |-> status = "QUEUED", completedAt |-> IF status \in Completed THEN created + 1 ELSE None,
   durationMs |-> IF status \in Completed THEN 1 ELSE None]
Member(user, repository, role) == [user |-> user, repository |-> repository, role |-> role]
Repository(account, remote, enabled) ==
  [account |-> account, remote |-> remote, name |-> remote, enabled |-> enabled, retention |-> None, retained |-> 1]
Channel(repository, name, enabled, reconfigure) ==
  [repository |-> repository, name |-> name, enabled |-> enabled, url |-> "u", reconfigure |-> reconfigure]

Installation ==
  [users |-> Admin :> User("admin", "a", "SYSTEM_ADMIN") @@ Mona :> User("mona", "m", "MANAGER")
               @@ Vera :> User("vera", "v", "VIEWER"),
   accounts |-> 1 :> [providerType |-> "GITHUB", displayName |-> "gh", enabled |-> TRUE, token |-> "t", webhookSecret |-> "s"]
             @@ 2 :> [providerType |-> "GITEA", displayName |-> "tea", enabled |-> FALSE, token |-> "t", webhookSecret |-> None],
   repositories |-> 1 :> Repository(1, "api", TRUE) @@ 2 :> Repository(1, "web", TRUE) @@ 3 :> Repository(2, "old", TRUE),
   tokens |-> 1 :> [user |-> Mona, expiresAt |-> 1, revoked |-> FALSE, used |-> None]
           @@ 2 :> [user |-> Vera, expiresAt |-> None, revoked |-> TRUE, used |-> None],
   memberships |-> 1 :> Member(Mona, 1, "MANAGER") @@ 2 :> Member(Vera, 1, "VIEWER") @@ 3 :> Member(Mona, 2, "VIEWER"),
   filters |-> 1 :> [repository |-> 1, mode |-> "ALLOW", pattern |-> "ci"],
   channels |-> 1 :> Channel(1, "ops", TRUE, FALSE) @@ 2 :> Channel(2, "ops", FALSE, TRUE) @@ 3 :> Channel(1, "dev", FALSE, TRUE),
   rules |-> 1 :> [repository |-> 1, outcome |-> "FAILED", enabled |-> TRUE]
          @@ 2 :> [repository |-> 2, outcome |-> "FAILED", enabled |-> TRUE],
   links |-> <<1, 1>> :> [rule |-> 1, channel |-> 1] @@ <<2, 2>> :> [rule |-> 2, channel |-> 2],
   runs |-> 1 :> Run(1, "ci", 0, "SUCCESS") @@ 2 :> Run(1, "ci", 2, "FAILED") @@ 3 :> Run(2, "ci", 1, "RUNNING")
         @@ 4 :> Run(1, "deploy", 1, "QUEUED"),
   deliveries |-> 1 :> [rule |-> 1, run |-> 2] @@ 2 :> [rule |-> 2, run |-> 3],
   webhooks |-> <<>>, queue |-> <<>>,
   settings |-> [format |-> "24h", retention |-> 30]]

Empty == [t \in ToSet(Tables) |-> <<>>] @@ [settings |-> Installation.settings]

Session(u) == [user |-> u, version |-> 0]
By(u, op, input) == [op |-> op, token |-> Session(u), input |-> input]
Open(op, input) == [op |-> op, token |-> None, input |-> input]
Tool(t, op, input) == [op |-> op, token |-> [mcp |-> t], input |-> input]

Base ==
  [db |-> Installation, calls |-> <<>>, fails |-> FALSE, until |-> 0,
   names |-> {"api", "api2"}, remotes |-> 1 :> {"api", "new"} @@ 2 :> {"old", "more"}, lifetime |-> 1, latest |-> 2,
   jobs |-> <<>>, listed |-> {}, statuses |-> {}, sockets |-> <<>>,
   session |-> Session(Admin), sends |-> 0, terms |-> {}, pages |-> {}, ranges |-> <<>>, shown |-> {}, opened |-> None, clicks |-> {}]

\* The requests of a surrounding are numbered from 11.
Numbered(calls) == [q \in {10 + i : i \in DOMAIN calls} |-> calls[q - 10]]
Crossing(calls) == [Base EXCEPT !.calls = Numbered(calls)]
-----------------------------------------------------------------------------
\* Inputs.
AnyRepository == [enabled |-> None, providerType |-> None, search |-> None]
AnyRun == [status |-> None, repository |-> None, providerType |-> None, from |-> None, to |-> None]
FailedRuns == [AnyRun EXCEPT !.status = "FAILED", !.repository = 1, !.providerType = "GITHUB", !.from = 1, !.to = 2]
Period == [from |-> 1, to |-> 3]
Buckets(size) == [from |-> 1, to |-> 3, bucket |-> size]

\* What takes rights away, or the rows that a handler has found.
LosesMembership(u) == By(Admin, "deleteMembership", [user |-> u, repository |-> 1])
LosesAccount(u) == By(Admin, "removeUser", [id |-> u])
LosesSession(u) == By(u, "updatePassword", [currentPassword |-> Installation.users[u].password, newPassword |-> "new"])
RemovesAccount == By(Admin, "removeAccount", [account |-> 1])
LosesToken == By(Mona, "revokeToken", [id |-> 1])

ReadsOf(u) ==
  <<By(u, "me", <<>>), By(u, "avatar", [id |-> Admin]), By(u, "signOut", <<>>),
    By(u, "listTokens", <<>>), By(u, "listTokens", [user |-> Mona]), By(u, "getSettings", <<>>),
    By(u, "queryRepositories", AnyRepository),
    By(u, "queryRepositories", [enabled |-> TRUE, providerType |-> "GITHUB", search |-> "api"]),
    By(u, "findRepository", [repository |-> 1]), By(u, "findRepository", [repository |-> 3]),
    By(u, "listChannels", <<>>), By(u, "listChannels", [repository |-> 1]),
    By(u, "listRules", <<>>), By(u, "listRules", [repository |-> 1]),
    By(u, "listDeliveries", <<>>), By(u, "listDeliveries", [repository |-> 2]),
    By(u, "queryRuns", <<>>), By(u, "needsAttention", <<>>), By(u, "awaitingApproval", <<>>),
    By(u, "failures", <<>>), By(u, "latestRuns", <<>>), By(u, "repositoryHealth", Period),
    By(u, "repositoryHealth", [from |-> 3, to |-> 1]),
    By(u, "trend", Buckets("hour")), By(u, "trend", Buckets("day")), By(u, "trend", Buckets("week"))>>

AdminReads(u) ==
  <<By(u, "queryUsers", <<>>), By(u, "queryAccounts", <<>>), By(u, "listAvailable", [account |-> 1]),
    By(u, "listAvailable", [account |-> 2]), By(u, "listFilters", [repository |-> 1]),
    By(u, "listMemberships", [repository |-> 1])>>

Tools ==
  <<Tool(1, "list_repositories", AnyRepository), Tool(1, "get_repository", [repository |-> 1]),
    Tool(1, "list_workflow_runs", FailedRuns), Tool(1, "list_needs_attention", AnyRun),
    Tool(1, "list_awaiting_approval", AnyRun), Tool(1, "get_workflow_trend", Buckets("day")),
    Tool(2, "get_repository", [repository |-> 1])>>

ManagerWrites(u) ==
  <<By(u, "createToken", [expiresAt |-> 1]), By(u, "createToken", [expiresAt |-> 0]),
    By(u, "revokeToken", [id |-> 1]), By(u, "revokeToken", [id |-> 2]), By(u, "updateAvatar", [image |-> "i"]),
    By(u, "deleteAvatar", <<>>), By(u, "updateProfile", [username |-> "vera", name |-> "n", currentPassword |-> None]),
    By(u, "updateProfile", [username |-> "x", name |-> "n", currentPassword |-> "m"]),
    By(u, "createChannel", [repository |-> 1, name |-> "n", enabled |-> TRUE, url |-> "u"]),
    By(u, "createChannel", [repository |-> 2, name |-> "n", enabled |-> TRUE, url |-> "u"]),
    By(u, "updateChannel", [id |-> 1, name |-> "dev"]), By(u, "updateChannel", [id |-> 3, enabled |-> TRUE]),
    By(u, "updateChannel", [id |-> 3, enabled |-> TRUE, url |-> "u2"]), By(u, "deleteChannel", [id |-> 1]),
    By(u, "updateChannel", [id |-> 2, name |-> "n", repository |-> 1]),
    By(u, "createRule", [repository |-> 1, outcome |-> "FAILED", enabled |-> TRUE, channels |-> <<1>>]),
    By(u, "createRule", [repository |-> 1, outcome |-> "FAILED", enabled |-> TRUE, channels |-> <<1, 2>>]),
    By(u, "updateRule", [id |-> 1, enabled |-> FALSE]), By(u, "updateRule", [id |-> 1, channels |-> <<3>>]),
    By(u, "updateRule", [id |-> 1, repository |-> 2, channels |-> <<2>>]), By(u, "deleteRule", [id |-> 1]),
    By(u, "deleteRule", [id |-> 2])>>

AdminWrites(u) ==
  <<By(u, "createUser", [username |-> "new", password |-> "n", role |-> "VIEWER"]),
    By(u, "createUser", [username |-> "vera", password |-> "n", role |-> "VIEWER"]),
    By(u, "removeUser", [id |-> Vera]), By(u, "updateSettings", [format |-> "12h"]),
    By(u, "createFilter", [repository |-> 1, mode |-> "DENY", pattern |-> "ci"]),
    By(u, "createFilter", [repository |-> 1, mode |-> "ALLOW", pattern |-> "ci"]),
    By(u, "deleteFilter", [repository |-> 1, id |-> 1]), By(u, "deleteFilter", [repository |-> 2, id |-> 1]),
    By(u, "upsertMembership", [repository |-> 2, user |-> Vera, role |-> "MANAGER"]),
    By(u, "upsertMembership", [repository |-> 1, user |-> Mona, role |-> "VIEWER"]),
    By(u, "deleteMembership", [repository |-> 1, user |-> Vera]),
    By(u, "updateRepository", [repository |-> 1, enabled |-> FALSE, retention |-> 7]),
    By(u, "refreshRepository", [repository |-> 1]), By(u, "refreshRepository", [repository |-> 3]),
    By(u, "syncRepository", [repository |-> 1]),
    By(u, "createAccount", [providerType |-> "GITHUB", displayName |-> "gh", token |-> "x"]),
    By(u, "createAccount", [providerType |-> "GITLAB", displayName |-> "gh", token |-> "x"]),
    By(u, "addRepository", [account |-> 1, remote |-> "new"]), By(u, "addRepository", [account |-> 1, remote |-> "api"]),
    By(u, "addRepository", [account |-> 1, remote |-> "none"]),
    By(u, "updateAccount", [account |-> 1, enabled |-> FALSE]), RemovesAccount>>
-----------------------------------------------------------------------------
Pairs(calls, other) == [i \in DOMAIN calls |-> Crossing(<<calls[i], other>>)]
Failing(setups) == [i \in DOMAIN setups |-> [setups[i] EXCEPT !.fails = TRUE]]
Lasting(setups, until) == [i \in DOMAIN setups |-> [setups[i] EXCEPT !.until = until]]

\* Passwords, sign-ins, setup and the removal of administrators.
Passwords ==
  <<Crossing(<<By(Mona, "updatePassword", [currentPassword |-> "m", newPassword |-> "b"]),
               By(Mona, "updatePassword", [currentPassword |-> "m", newPassword |-> "c"]),
               Open("signIn", [username |-> "mona", password |-> "b"]),
               Open("resetPassword", [username |-> "mona", password |-> "d"])>>),
    Crossing(<<LosesSession(Mona), LosesAccount(Mona), Open("signIn", [username |-> "mona", password |-> "m"])>>),
    [Crossing(<<Open("setup", [username |-> "x", password |-> "x"]), Open("setup", [username |-> "y", password |-> "y"]),
                Open("setupStatus", <<>>), Open("signIn", [username |-> "x", password |-> "x"])>>)
       EXCEPT !.db = Empty, !.fails = TRUE],
    [Crossing(<<By(Admin, "removeUser", [id |-> Mona]), By(Mona, "removeUser", [id |-> Admin]),
                Open("setup", [username |-> "x", password |-> "x"]),
                Open("resetPassword", [username |-> "admin", password |-> "d"])>>)
       EXCEPT !.db = [Empty EXCEPT !.users = [u \in {Admin, Mona} |->
                                                User(Installation.users[u].username, "a", "SYSTEM_ADMIN")]]],
    Crossing(<<By(Admin, "removeUser", [id |-> Admin]), Open("resetPassword", [username |-> "none", password |-> "d"]),
               By(Vera, "createUser", [username |-> "n", password |-> "n", role |-> "SYSTEM_ADMIN"])>>)>>

\* Webhooks and OAuth.
Hook(delivery, remote, secret) ==
  Open("webhook", [account |-> 1, delivery |-> delivery, remote |-> remote, secret |-> secret])
Intake ==
  <<[Crossing(<<Hook(7, "api", "s"), Hook(7, "api", "s"), RemovesAccount>>) EXCEPT !.fails = TRUE],
    Crossing(<<Hook(7, "api", "x"), Hook(8, "none", "s"), By(Admin, "updateAccount", [account |-> 1, webhookSecret |-> "x"])>>),
    [Crossing(<<By(Admin, "authorize", [providerType |-> "GITLAB", displayName |-> "lab"]), Open("callback", [of |-> 11]),
                Open("callback", [of |-> 11]), By(Mona, "removeUser", [id |-> Admin])>>)
       EXCEPT !.fails = TRUE, !.until = 2, !.db.users[Mona].role = "SYSTEM_ADMIN"]>>

\* Synchronizations that publish the status while clients come and go.
Publishing ==
  <<[Base EXCEPT !.jobs = <<1>>, !.listed = {1, 2}, !.statuses = {"SUCCESS"}, !.sockets = <<Session(Mona)>>],
    [Base EXCEPT !.jobs = <<1, 3>>, !.listed = {1}, !.statuses = {"RUNNING"}, !.sockets = <<Session(Vera)>>, !.fails = TRUE],
    [Crossing(<<LosesSession(Mona)>>) EXCEPT !.jobs = <<2>>, !.listed = {1}, !.statuses = {"FAILED"},
                                             !.sockets = <<Session(Mona), Session(Vera)>>]>>

\* Pages of the web client: the search, the dashboard, the runs that await approval, and
\* the dialogs of repositories.
Page(u, sends) == [Base EXCEPT !.session = Session(u), !.sends = sends]
Ranges == [range \in {"7d", "30d", "90d"} |-> CASE range = "7d" -> 1 [] range = "30d" -> 3 [] range = "90d" -> 5]
Past == 1 :> Run(1, "ci", -1, "SUCCESS") @@ 2 :> Run(1, "ci", -4, "FAILED") @@ 3 :> Run(2, "ci", -2, "SUCCESS")
Pages ==
  <<[Page(Admin, 3) EXCEPT !.terms = {None, "gh"}, !.fails = TRUE],
    [Page(Mona, 4) EXCEPT !.terms = {"api", "ci"}, !.pages = {"api"}],
    [Page(Vera, 11) EXCEPT !.ranges = Ranges, !.db.runs = Past, !.db.deliveries = <<>>],
    [Page(Vera, 8) EXCEPT !.ranges = Restrict(Ranges, {"7d", "30d"}), !.db.runs = Past, !.db.deliveries = <<>>, !.fails = TRUE],
    [Page(Vera, 10) EXCEPT !.ranges = [range \in {"30d"} |-> 1], !.calls = Numbered(<<LosesAccount(Vera)>>)],
    [Page(Mona, 2) EXCEPT !.clicks = {"approvals"}, !.calls = Numbered(<<LosesMembership(Mona)>>), !.fails = TRUE],
    [Page(Mona, 3) EXCEPT !.shown = {1, 2}, !.fails = TRUE],
    [Page(Admin, 5) EXCEPT !.shown = {1}, !.opened = 1, !.clicks = {"members"}],
    [Page(Admin, 5) EXCEPT !.shown = {2}, !.opened = 1, !.clicks = {"refresh"}],
    [Page(Admin, 3) EXCEPT !.opened = 1, !.clicks = {"filters", "save", "sync"}],
    [Page(Admin, 3) EXCEPT !.opened = 1, !.clicks = {"members"}],
    [Page(Admin, 4) EXCEPT !.db.accounts[2].enabled = TRUE, !.clicks = {"adds"}, !.fails = TRUE]>>

\* Where a page sends five requests or more the API serves them one after the other, in
\* any order; how the statements of two requests interleave is explored where setup.calls
\* has them.
OneByOne ==
  setup.sends < 5 \/ Cardinality({q \in DOMAIN requests : q >= First /\ ~Ended(q) /\ requests[q].user # Nobody}) <= 1

MCSetups ==
  Pairs(ReadsOf(Mona), LosesMembership(Mona)) \o Pairs(ReadsOf(Vera), LosesSession(Vera))
    \o Pairs(ReadsOf(Mona), LosesAccount(Mona)) \o Pairs(AdminReads(Admin), RemovesAccount)
    \o Pairs(AdminReads(Vera), LosesAccount(Vera)) \o Pairs(Tools, LosesMembership(Mona))
    \o Lasting(Pairs(Tools, LosesToken), 1) \o Pairs(Tools, LosesAccount(Mona))
    \o Pairs(ManagerWrites(Mona), LosesMembership(Mona)) \o Pairs(ManagerWrites(Vera), LosesAccount(Vera))
    \o Pairs(ManagerWrites(Mona), RemovesAccount) \o Pairs(ManagerWrites(Mona), By(Mona, "deleteChannel", [id |-> 1]))
    \o Pairs(AdminWrites(Admin), RemovesAccount) \o Pairs(AdminWrites(Admin), LosesAccount(Vera))
    \o Pairs(AdminWrites(Mona), LosesMembership(Mona)) \o Failing(Pairs(AdminWrites(Admin), LosesSession(Admin)))
    \o Passwords \o Intake \o Publishing \o Pages
    \o <<Crossing(<<By(Mona, "summary", Period), LosesMembership(Mona)>>),
         Crossing(<<Tool(1, "get_dashboard_summary", Period), LosesAccount(Mona)>>),
         Crossing(<<By(Mona, "deleteRule", [id |-> 1]), By(Mona, "updateRule", [id |-> 1, enabled |-> FALSE])>>)>>
=============================================================================
