------------------------------ MODULE WebClient ------------------------------
(***************************************************************************)
(* The web client as a sender of requests.  A component of a page keeps    *)
(* state in the browser, sends requests, and goes on when they are         *)
(* answered; answers come in any order, and may come after the component   *)
(* has moved on.  A request notes what of the component waits for it: the  *)
(* component, the generation of its state, and the function.               *)
(***************************************************************************)
EXTENDS ApiAccess, ApiResources

LOCAL INSTANCE SequencesExt

VARIABLE sent      \* the number of requests the client has sent, at most setup.sends

Controllers ==
  {AuthRoutes, UsersRoutes, McpTokensRoutes, SettingsRoutes, ResetRoutes, RepositoriesRoutes, RefreshRoutes,
   ChannelsRoutes, RulesRoutes, DeliveriesRoutes, AccountsRoutes, CallbackRoutes, WebhookRoutes,
   WorkflowRunsRoutes, DashboardRoutes, McpRoutes}
Routes ==
  [op \in UNION {DOMAIN c : c \in Controllers} |-> (CHOOSE c \in Controllers : op \in DOMAIN c)[op]]

\* Identifiers of the requests a surrounding begins with are smaller.
First == 100

\* The credentials of a request: a session, or the token of an MCP client.
IsSession(token) == token # None /\ DOMAIN token = {"user", "version"}
IsMcpToken(token) == token # None /\ DOMAIN token = {"mcp"}

\* What a surrounding stores: the tables of the schema, whose relations and unique fields
\* hold; a user has a password, a role and the version of its tokens; a link is named by its
\* rule and its channel, which belong to one repository; the fields "repository" and "remote"
\* are those of the schema.
IsInstallation(d) ==
  /\ DOMAIN d = ToSet(Tables) \cup {"settings"} /\ Consistent(d)
  /\ None \notin DOMAIN d.users /\ DOMAIN d.settings \cap {"items", "health"} = {}
  /\ \A u \in DOMAIN d.users :
       {"password", "authVersion", "role"} \subseteq DOMAIN d.users[u] /\ d.users[u].authVersion \in Nat
  /\ \A l \in DOMAIN d.links :
       /\ l = <<d.links[l].rule, d.links[l].channel>>
       /\ d.rules[d.links[l].rule].repository = d.channels[d.links[l].channel].repository
  /\ \A t \in ToSet(Tables) : \A i \in DOMAIN d[t] :
       /\ \A ref \in References[t] : ref[1] \in DOMAIN d[t][i]
       /\ "repository" \in DOMAIN d[t][i] => <<"repository", "repositories">> \in References[t]
       /\ "remote" \in DOMAIN d[t][i] => t = "repositories"

\* A request that creates a row brings a new identifier, and the input its route needs; the
\* operations are those of the controllers, and a client sends the credentials they ask for.
ASSUME SetupsAssumption ==
  \A i \in DOMAIN Setups :
    LET calls == Setups[i].calls
        tables == Setups[i].db
    IN /\ IsInstallation(tables) /\ IsSession(Setups[i].session) /\ None \notin DOMAIN calls
       /\ \A t \in {"users", "tokens", "channels", "rules"} : DOMAIN calls \cap DOMAIN tables[t] = {}
       /\ \A q \in DOMAIN calls :
            /\ calls[q].op \in DOMAIN Routes
            /\ calls[q].op \in {"createChannel", "createRule"} => "repository" \in DOMAIN calls[q].input
            /\ IF calls[q].op \in DOMAIN McpRoutes THEN IsMcpToken(calls[q].token)
               ELSE (\E s \in Routes[calls[q].op] : Head(s) \in {"Authenticate", "AuthenticateAdmin"})
                      => IsSession(calls[q].token)

\* createApiClient: the token is the one that was stored when the component was set up.
CreateApiClient(op, input, for) == [op |-> op, token |-> setup.session, input |-> input, for |-> for]
ShowsAdministration == IsAdmin(setup.db.users[setup.session.user])

\* Answered requests leave, new ones are sent.
Exchange(gone, calls) ==
  LET sendable == {First + sent + i : i \in DOMAIN calls}
      CallOf(q) == calls[q - First - sent]
  IN /\ sent + Len(calls) \in sent..setup.sends
     /\ sent' = sent + Len(calls)
     /\ requests' = [q \in (DOMAIN requests \ gone) \cup sendable |->
          IF q \in sendable THEN Waiting(CallOf(q), CHOOSE s \in Routes[CallOf(q).op] : TRUE) ELSE requests[q]]

Batch(for) == {q \in DOMAIN requests : "for" \in DOMAIN Call(q) /\ Call(q).for = for}
\* Promise.allSettled
Settled(for) == Batch(for) # {} /\ \A q \in Batch(for) : Ended(q)
Answered(q, component, function) ==
  /\ "for" \in DOMAIN Call(q) /\ Ended(q)
  /\ Call(q).for[1] = component /\ Call(q).for[3] = function
Generation(q) == Call(q).for[2]
Rows(q) == requests[q].reply.items
Row(q) == CHOOSE row \in Rows(q) : TRUE
=============================================================================
