----------------------------- MODULE ControlPlane -----------------------------
(***************************************************************************)
(* The control plane: the requests of the API, the synchronizations that   *)
(* publish its status, the sockets, and pages of the web client that send  *)
(* requests of their own, on one database.                                 *)
(***************************************************************************)
EXTENDS WebSearch, WebDashboard, WebApprovals, WebRepositories, WebAddRepositories, SystemStatus

LOCAL INSTANCE SequencesExt

VARIABLES
  witness     \* per request, the rights its user has had since it was authenticated

webVars == <<sent, search, dashboard, approvals, detailsVars, adding>>
vars == <<apiVars, statusVars, webVars, witness>>

NoRights == [live |-> FALSE, admin |-> FALSE, reads |-> {}, manages |-> {}]

Init ==
  /\ \E i \in DOMAIN Setups : setup = Setups[i]
  /\ now = 0
  /\ db = setup.db
  /\ issued = {[user |-> u, version |-> db.users[u].authVersion, password |-> db.users[u].password] : u \in DOMAIN db.users}
  /\ LET calls == setup.calls
         routes == UNION {Routes[calls[q].op] : q \in DOMAIN calls}
     IN \E route \in [DOMAIN calls -> routes] :
          /\ \A q \in DOMAIN calls : route[q] \in Routes[calls[q].op]
          /\ requests = [q \in DOMAIN calls |-> Waiting(calls[q], route[q])]
  /\ witness = [q \in DOMAIN setup.calls |-> NoRights]
  /\ InitSystemStatus
  /\ sent = 0 /\ InitSearch /\ InitDashboard /\ InitApprovals /\ InitDetails /\ InitAdding
-----------------------------------------------------------------------------
(***************************************************************************)
(* What the rights of a request are worth is observed before every step    *)
(* from its authentication to its end.                                     *)
(***************************************************************************)
HasCredential(q) ==
  LET token == Call(q).token
  IN CASE token = None -> FALSE
       [] "mcp" \in DOMAIN token -> IsUsable(db, token.mcp, now)
       [] OTHER -> IsLive(db, token)
RightsNow(q, u) ==
  IF u \notin DOMAIN db.users THEN NoRights
  ELSE LET ability == CreateForUser(db.users[u], MembershipsOf(db, u))
       IN [live |-> HasCredential(q), admin |-> ability.all, reads |-> ability.reads, manages |-> ability.manages]
Joined(a, b) ==
  [live |-> a.live \/ b.live, admin |-> a.admin \/ b.admin,
   reads |-> a.reads \cup b.reads, manages |-> a.manages \cup b.manages]
Observe ==
  witness' = [q \in DOMAIN requests' |->
    IF q \notin DOMAIN requests THEN NoRights
    ELSE IF Ended(q) \/ requests'[q].user = Nobody THEN witness[q]
    ELSE Joined(witness[q], RightsNow(q, requests'[q].user.id))]
-----------------------------------------------------------------------------
RequestStep ==
  \E q \in DOMAIN requests :
    \/ SessionStep(q) \/ Crash(q)
    \/ /\ UNCHANGED issued
       /\ \/ AuthenticateUser(q) \/ AuthenticateAdmin(q) \/ AccessStep(q)
          \/ RepositoryStep(q) \/ NotificationStep(q) \/ AccountStep(q) \/ QueryStep(q)

WebStep ==
  \/ SearchStep /\ UNCHANGED <<dashboard, approvals, detailsVars, adding>>
  \/ DashboardStep /\ UNCHANGED <<search, approvals, detailsVars, adding>>
  \/ ApprovalsStep /\ UNCHANGED <<search, dashboard, detailsVars, adding>>
  \/ DetailsStep /\ UNCHANGED <<search, dashboard, approvals, adding>>
  \/ AddingStep /\ UNCHANGED <<search, dashboard, approvals, detailsVars>>

Next ==
  /\ \/ RequestStep /\ UNCHANGED <<setup, now, statusVars, webVars>>
     \/ TimePasses /\ UNCHANGED <<setup, db, requests, issued, statusVars, webVars>>
     \/ StatusStep /\ UNCHANGED <<setup, now, requests, issued, webVars>>
     \/ WebStep /\ UNCHANGED <<setup, now, db, issued, statusVars>>
  /\ Observe

Spec == Init /\ [][Next]_vars
-----------------------------------------------------------------------------
(***************************************************************************)
(* Properties.                                                             *)
(***************************************************************************)
Statuses ==
  {"ok", "unauthorized", "forbidden", "notFound", "conflict", "badRequest", "error", "crashed"}

\* The types of the variables; no row refers to a row that is gone, and no two rows share
\* what is unique, whatever is removed under the requests and the relations cascade to.
TypeOK ==
  /\ now \in 0..setup.until
  /\ Consistent(db)
  /\ \A q \in DOMAIN requests : requests[q].status \in Statuses
  /\ \A q \in DOMAIN witness : witness[q].reads \cup witness[q].manages \subseteq DOMAIN setup.db.repositories \cup DOMAIN requests
  /\ DOMAIN witness = DOMAIN requests /\ sent \in 0..setup.sends
  /\ \A j \in DOMAIN jobs : jobs[j].todo \in 0..jobs[j].total

\* docs/authentication.md: a password change "invalidates tokens held by every other
\* signed-in session".  An access token that is accepted was issued for the password the
\* user has now, however sign-ins, changes and resets overlap.
SessionsFollowPassword ==
  \A token \in issued : IsLive(db, token) => db.users[token.user].password = token.password

\* First-run setup: two administrators made by it never exist together (AuthService.setup).
SetupOnce ==
  \A p, q \in DOMAIN requests :
    /\ Call(p).op = "setup" /\ Call(q).op = "setup"
    /\ {p, q} \subseteq DOMAIN db.users
    => p = q

\* The repositories whose data an answer shows.
ShownRepositories(reply) ==
  LET Of(item) == IF "repository" \in DOMAIN item THEN {item.repository}
                  ELSE IF "remote" \in DOMAIN item THEN {item.id} ELSE {}
  IN IF reply = None THEN {}
     ELSE IF "items" \in DOMAIN reply THEN UNION {Of(item) : item \in reply.items}
     ELSE IF "health" \in DOMAIN reply THEN {entry.repository : entry \in reply.health} ELSE {}

\* An answer to an authenticated request shows only what its user could see at a moment
\* while the request was under way, with a session or a token that was good then:
\* memberships, users and tokens may go between any two statements of the handler.
ReadsAreAuthorized ==
  \A q \in DOMAIN requests : Succeeded(q) /\ UserOf(q) # Nobody =>
    LET held == witness[q]
        shown == ShownRepositories(requests[q].reply)
    IN /\ Call(q).op # "callback" => held.live
       /\ (\E s \in Routes[Call(q).op] : Head(s) = "AuthenticateAdmin") => held.admin
       /\ held.admin \/ shown \subseteq (IF Call(q).op = "listDeliveries" THEN held.manages ELSE held.reads)
       /\ Call(q).op = "listTokens" => held.admin \/ \A token \in requests[q].reply.items : token.user = UserOf(q).id

\* The repository a row belongs to.
RepositoryOf(d, t, i) ==
  CASE t = "links" -> d.rules[i[1]].repository
    [] t = "deliveries" -> d.rules[d.deliveries[i].rule].repository
    [] OTHER -> d[t][i].repository

Changed(t) ==
  {i \in DOMAIN db[t] \cup DOMAIN db'[t] :
     i \notin DOMAIN db[t] \/ i \notin DOMAIN db'[t] \/ db[t][i] # db'[t][i]}
Either(t, i) == IF i \in DOMAIN db[t] THEN RepositoryOf(db, t, i) ELSE RepositoryOf(db', t, i)

\* The tables a request without a user writes.
Unauthenticated ==
  [setup |-> {"users"}, resetPassword |-> {"users"}, webhook |-> {"webhooks", "queue"}]

\* A request changes the account and the tokens of its own user; the channels and rules, and
\* what hangs on them, of repositories its user manages at a moment of the request;
\* everything else only for an administrator.
ChangesAreAuthorized ==
  [][\A q \in DOMAIN requests \cap DOMAIN requests' : requests'[q].rest # requests[q].rest =>
       \/ witness'[q].admin
       \/ /\ db'.settings = db.settings
          /\ \A t \in ToSet(Tables) : \A i \in Changed(t) :
               \/ Call(q).op \in DOMAIN Unauthenticated /\ t \in Unauthenticated[Call(q).op]
               \/ t = "users" /\ i = UserOf(q).id
               \/ t = "tokens" /\ (IF i \in DOMAIN db.tokens THEN db ELSE db').tokens[i].user = UserOf(q).id
               \/ t \in {"channels", "rules", "links", "deliveries"} /\ Either(t, i) \in witness'[q].manages
    ]_vars

\* A rule notifies only through channels of its own repository, whatever channels are
\* created and deleted while rules are written.
ChannelsStayInRepository ==
  \A l \in DOMAIN db.links : db.channels[db.links[l].channel].repository = db.rules[db.links[l].rule].repository

\* A delivery that is answered as a duplicate has the request of its repository in the
\* queue: a repeated webhook never hides one whose first attempt was rolled back.
DuplicateMeansQueued ==
  \A q \in DOMAIN requests :
    Call(q).op = "webhook" /\ Succeeded(q) /\ requests[q].reply.duplicate =>
      \A r \in DOMAIN db.repositories \cap DOMAIN setup.db.repositories :
        /\ db.repositories[r].account = Input(q).account
        /\ db.repositories[r].remote = Input(q).remote
        => r \in DOMAIN db.queue

\* A client with nothing on its way shows the status as it is, whatever was published while
\* it connected, joined the room and was greeted; progress never passes its total.
ClientsMirrorServer ==
  \A c \in DOMAIN sockets :
    LET progress == Progress(sockets[c].shown.activity)
    IN /\ sockets[c].at = "greeted" /\ sockets[c].inbox = <<>> => sockets[c].shown = GetSnapshot(server)
       /\ progress # None => progress[1] <= progress[2]

\* What the user of the web client may see.
OwnAbility == CreateForUser(db.users[setup.session.user], MembershipsOf(db, setup.session.user))

\* The search: a group shows matches of the query that is typed now, and is loading as long
\* as an answer to that query is under way, in whatever order the answers of earlier and
\* later queries come; and when the overlay says that nothing matches although every group
\* has been asked and has answered, no repository the user sees has that name.
SearchShowsLatest ==
  search.mounted =>
    /\ \A g \in DOMAIN GroupOps :
         LET group == search.groups[g]
             Text(item) == CASE g = "providers" -> item.displayName [] g = "repositories" -> item.name
                             [] OTHER -> setup.db.runs[item.id].context
         IN /\ \A item \in group.items : Text(item) = search.query
            /\ group.loading <=> Batch(<<"search", search.controller, g>>) # {}
    /\ "searchNoResults" \in Overlay /\ search.timer = None /\ FailedGroups = {} /\ db = setup.db =>
         \A r \in DOMAIN db.repositories : MayRead(OwnAbility, r) => db.repositories[r].name # search.query

\* The dashboard: once its reports have loaded and none is marked as failed, all of them are
\* those of the selected range, and the trend counts the runs that the summary counts,
\* whichever parts of the ranges and refreshes before had failed and kept what they showed;
\* the segments of the distribution stay within the bar.  The page of the runs that await
\* approval shows those that do, also when a reload of it has failed.
DashboardAgrees ==
  LET summary == dashboard.summary
      runs == RowsOf(db, VisibleRuns(db, OwnAbility))
      segments == Segments(summary, <<"SUCCESS", "FAILED", "CANCELLED", "SKIPPED", "UNKNOWN">>)
  IN /\ ~dashboard.historicalLoading /\ dashboard.errors \subseteq {"failures", "latestRuns"} /\ db = setup.db =>
          /\ summary # None
          /\ dashboard.period.to - dashboard.period.from = setup.ranges[dashboard.range]
          /\ summary.statuses = Summary(runs, dashboard.period).statuses
          /\ SumOf(dashboard.trend, "successCount") = summary.statuses["SUCCESS"]
          /\ SumOf(dashboard.trend, "errorCount") = summary.statuses["FAILED"]
          /\ Last(segments).offset + Last(segments).percentage <= 1000
          /\ MaximumRuns(dashboard.trend) \in CreateTicks(MaximumRuns(dashboard.trend))
          /\ \A i \in DOMAIN dashboard.trend :
               LET point == ChartPoints(dashboard.trend, 160)[i] IN point.successHeight + point.errorHeight <= 160
     /\ approvals.loaded /\ db = setup.db =>
          LET waiting == {DashboardWorkflowRunDto(db, w) : w \in {v \in CurrentIds(db, OwnAbility) : db.runs[v].approval}}
          IN ApprovalsPage.rows \subseteq waiting /\ (approvals.search = None => ApprovalsPage.rows = waiting)

\* The dialog shows the repository the URL selects, however fast it is switched, unless the
\* answer to a refresh has replaced it.
DialogShowsSelected ==
  /\ details.selected # None /\ ~details.loading /\ ~details.error /\ details.from = "load"
  => details.repository # None /\ details.repository.id = details.selected

\* A card that has loaded and waits for nothing shows every stored row, each once, whatever
\* additions, role changes and removals were under way together once it had loaded.  The
\* code lets three cards show something else ("crossed"): one that was changed while it
\* loaded, whose list replaces the change or repeats it; one that was mounted, the dialog
\* having been closed and opened, while a change of its repository was still under way, whose
\* list may be older; and one that the answer to a refresh gave another repository.
CardsMirrorServer ==
  \A card \in {"filters", "members"} :
    LET r == details.repository.id
        rows == cards[card].rows
        stored == IF card = "filters" THEN {WorkflowFilterDto(db, f) : f \in OwnRows("filters", r)}
                  ELSE {RepositoryMembershipDto(db, m) : m \in OwnRows("memberships", r)}
        waits == \E f \in {"load", "add", "role", "remove"} : Batch(For(card, f)) # {}
    IN /\ cards # None /\ DOMAIN setup.calls = {}
       /\ cards[card].loaded /\ ~cards[card].crossed /\ ~waits
       => ToSet(rows) = stored /\ Len(rows) = Cardinality(stored)

\* The dialog that adds repositories: what is selected belongs to the account that is
\* chosen, and what is marked as tracked is stored, in whatever order lists and additions
\* are answered and whichever of them fail; unless the dialog was closed and opened while
\* additions were under way.
SelectionIsOffered ==
  LET account == adding.account
      offered == {m.remote : m \in adding.available}
      tracked == {m.remote : m \in {k \in adding.available : k.tracked}}
  IN ~adding.crossed =>
       /\ adding.selected \subseteq offered
       /\ account # None => offered \subseteq setup.remotes[account]
       /\ tracked \subseteq {db.repositories[r].remote : r \in {k \in DOMAIN db.repositories : db.repositories[k].account = account}}
=============================================================================
