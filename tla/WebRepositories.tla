--------------------------- MODULE WebRepositories ---------------------------
(***************************************************************************)
(* The dialog of a repository, which the URL opens, switches and closes    *)
(* whatever is on its way, and the cards of its filters and members, which *)
(* load when they are mounted and then follow the answers to their own     *)
(* requests.                                                               *)
(***************************************************************************)
EXTENDS WebClient

LOCAL INSTANCE SequencesExt

VARIABLES
  details,    \* the dialog, and where the repository it shows comes from
  cards       \* None, or the cards that are mounted

detailsVars == <<details, cards>>

Reset ==
  [selected |-> None, repository |-> None, from |-> "load", loading |-> FALSE, error |-> FALSE,
   refreshing |-> FALSE, syncing |-> FALSE]

\* A card with its rows, in a sequence that may hold a row twice; crossed once a change is
\* made while it loads, or the dialog comes to show another repository around it.
Card(loaded, rows, crossed) ==
  [loading |-> ~loaded, loaded |-> loaded, error |-> FALSE, crossed |-> crossed, rows |-> SetToSeq(rows)]

\* A change that an earlier mount of the card has asked for, and that may still be made.
UnderWay(card, r) ==
  \E q \in DOMAIN requests :
    /\ "for" \in DOMAIN Call(q) /\ Call(q).for[1] = card /\ Call(q).for[3] # "load"
    /\ Input(q).repository = r /\ ~Ended(q)

\* The page may begin with the dialog of setup.opened on the screen.
InitDetails ==
  LET r == setup.opened
      Own(t) == {i \in DOMAIN db[t] : db[t][i].repository = r}
  IN IF r = None THEN details = Reset /\ cards = None
     ELSE /\ details = [Reset EXCEPT !.selected = r, !.repository = RepositoryDto(db, r, TRUE)]
          /\ cards = [mount |-> sent,
                      filters |-> Card(TRUE, {WorkflowFilterDto(db, f) : f \in Own("filters")}, FALSE),
                      members |-> Card(TRUE, {RepositoryMembershipDto(db, m) : m \in Own("memberships")}, FALSE),
                      users |-> {UserDto(db, u) : u \in DOMAIN db.users}]

\* A dialog that is closed renders no body.
ShowsCards(d) ==
  ShowsAdministration /\ d.selected # None /\ ~d.error /\ ~d.loading /\ d.repository # None

LoadCalls(r) ==
  <<CreateApiClient("listFilters", [repository |-> r], <<"filters", sent, "load">>),
    CreateApiClient("listMemberships", [repository |-> r], <<"members", sent, "load">>),
    CreateApiClient("queryUsers", <<>>, <<"members", sent, "load">>)>>

\* The dialog becomes d, and its cards are mounted, kept or unmounted with it.
Become(d, gone, calls) ==
  LET mounts == ShowsCards(d) /\ cards = None
      same == cards # None /\ details.repository.id = d.repository.id
      Loading(card) == Card(FALSE, {}, UnderWay(card, d.repository.id))
  IN /\ details' = d
     /\ cards' = CASE ~ShowsCards(d) -> None
                   [] mounts -> [mount |-> sent, filters |-> Loading("filters"), members |-> Loading("members"), users |-> {}]
                   [] OTHER -> [cards EXCEPT !.filters.crossed = @ \/ ~same, !.members.crossed = @ \/ ~same]
     /\ Exchange(gone, calls \o (IF mounts THEN LoadCalls(d.repository.id) ELSE <<>>))
-----------------------------------------------------------------------------
OpenDetails(r) ==
  /\ r # details.selected
  /\ Become([details EXCEPT !.selected = r, !.loading = TRUE, !.error = FALSE, !.repository = None, !.from = "load"], {},
            <<CreateApiClient("findRepository", [repository |-> r], <<"details", r, "load">>)>>)
CloseDetails == details.selected # None /\ Become(Reset, {}, <<>>)

\* Mutant of IsSelected: every answer is taken.
IsSelectedAlways(r) == details.selected # None

IsSelected(r) == r = details.selected

Loaded(q) ==
  /\ Answered(q, "details", "load")
  /\ Become(IF ~IsSelected(Generation(q)) THEN details
            ELSE IF Succeeded(q) THEN [details EXCEPT !.loading = FALSE, !.repository = Row(q), !.from = "load"]
            ELSE [details EXCEPT !.loading = FALSE, !.error = TRUE], {q}, <<>>)

\* The buttons are the administrator's; setup.clicks bounds what is clicked.
Shows(button) == cards # None /\ button \in setup.clicks
ShownId == details.repository.id

RefreshRepository ==
  /\ Shows("refresh") /\ ~details.refreshing
  /\ Become([details EXCEPT !.refreshing = TRUE], {},
            <<CreateApiClient("refreshRepository", [repository |-> ShownId], <<"details", ShownId, "refresh">>)>>)
Refreshed(q) ==
  /\ Answered(q, "details", "refresh")
  /\ Become(IF Succeeded(q) THEN [details EXCEPT !.refreshing = FALSE, !.repository = Row(q), !.from = "refresh"]
            ELSE [details EXCEPT !.refreshing = FALSE], {q}, <<>>)

SyncWorkflowRuns ==
  /\ Shows("sync") /\ ~details.syncing
  /\ Become([details EXCEPT !.syncing = TRUE], {},
            <<CreateApiClient("syncRepository", [repository |-> ShownId], <<"details", ShownId, "sync">>)>>)
Synced(q) == Answered(q, "details", "sync") /\ Become([details EXCEPT !.syncing = FALSE], {q}, <<>>)
-----------------------------------------------------------------------------
(***************************************************************************)
(* The cards.  A key is pending while its request is on its way.           *)
(***************************************************************************)
For(card, function) == <<card, cards.mount, function>>
Ask(card, function, op, input) ==
  /\ cards' = [cards EXCEPT ![card].error = FALSE, ![card].crossed = @ \/ cards[card].loading]
  /\ Exchange({}, <<CreateApiClient(op, Over([repository |-> ShownId], input), For(card, function))>>)
  /\ UNCHANGED details

SaveRetention(days) ==
  /\ Shows("save") /\ Batch(For("general", "save")) = {}
  /\ Exchange({}, <<CreateApiClient("updateRepository",
                      [repository |-> ShownId, enabled |-> details.repository.enabled, retention |-> days],
                      For("general", "save"))>>)
  /\ UNCHANGED detailsVars

AddWorkflowFilter(mode) ==
  Shows("filters") /\ Batch(For("filters", "add")) = {} /\ Ask("filters", "add", "createFilter", [mode |-> mode, pattern |-> "ci"])
RemoveWorkflowFilter(f) ==
  /\ \A q \in Batch(For("filters", "remove")) : Input(q).id # f
  /\ Ask("filters", "remove", "deleteFilter", [id |-> f])

IsPending(action, u) == \E q \in Batch(For("members", action)) : Input(q).user = u

\* Mutant of IsMembershipPending: an action waits only for its own kind.
IsMembershipPendingOwn(action, u) == IsPending(action, u)

IsMembershipPending(action, u) == IsPending("remove", u) \/ IsPending("role", u)

AvailableUsers == {u.id : u \in {k \in cards.users : ~IsAdmin(k)}} \ {m.user : m \in ToSet(cards.members.rows)}
AddMember(u) ==
  /\ Batch(For("members", "add")) = {}
  /\ Ask("members", "add", "upsertMembership", [user |-> u, role |-> "VIEWER"])
UpdateMemberRole(m, role) ==
  /\ ~IsMembershipPending("role", m.user) /\ role # m.role
  /\ Ask("members", "role", "upsertMembership", [user |-> m.user, role |-> role, row |-> m.id])
RemoveMember(m) ==
  ~IsMembershipPending("remove", m.user) /\ Ask("members", "remove", "deleteMembership", [user |-> m.user])

\* What an answer makes of the rows; their order is left out.
NewRows(q, function, rows) ==
  CASE function = "add" -> Append(rows, Row(q))
    [] function = "role" -> [i \in DOMAIN rows |-> IF rows[i].id = Input(q).row THEN Row(q) ELSE rows[i]]
    [] function = "remove" /\ "user" \in DOMAIN Input(q) -> SelectSeq(rows, LAMBDA m : m.user # Input(q).user)
    [] OTHER -> SelectSeq(rows, LAMBDA f : f.id # Input(q).id)

ActionAnswered(q, card, function) ==
  /\ Answered(q, card, function) /\ cards # None /\ Generation(q) = cards.mount
  /\ cards' = IF Succeeded(q) THEN [cards EXCEPT ![card].rows = NewRows(q, function, @)]
              ELSE [cards EXCEPT ![card].error = TRUE]
  /\ Exchange({q}, <<>>) /\ UNCHANGED details

\* Promise.all: all answers, or the first error.
CardLoaded(card) ==
  LET batch == Batch(For(card, "load"))
      answered == {q \in batch : Ended(q)}
      Of(op) == Rows(CHOOSE q \in batch : Call(q).op = op)
  IN /\ cards # None /\ cards[card].loading
     /\ \/ /\ \E q \in answered : ~Succeeded(q)
           /\ cards' = [cards EXCEPT ![card].loading = FALSE, ![card].error = TRUE]
        \/ /\ \A q \in batch : Succeeded(q)
           /\ LET c == [cards EXCEPT ![card].loading = FALSE, ![card].loaded = TRUE]
              IN cards' = IF card = "filters" THEN [c EXCEPT !.filters.rows = SetToSeq(Of("listFilters"))]
                          ELSE [c EXCEPT !.members.rows = SetToSeq(Of("listMemberships")), !.users = Of("queryUsers")]
     /\ Exchange(answered, <<>>) /\ UNCHANGED details

\* The parent keeps what the card that is mounted tells it was saved.
Saved(q) ==
  /\ Answered(q, "general", "save")
  /\ Become(IF Succeeded(q) /\ cards # None /\ cards.mount = Generation(q)
            THEN [details EXCEPT !.repository.retention = Input(q).retention] ELSE details, {q}, <<>>)

\* An answer to a card that is gone, or whose load has failed already.
Unheard(q) ==
  /\ \E card \in {"filters", "members"}, function \in {"load", "add", "role", "remove"} :
       /\ Answered(q, card, function)
       /\ \/ cards = None
          \/ cards # None /\ Generation(q) # cards.mount
          \/ cards # None /\ function = "load" /\ ~cards[card].loading
  /\ Exchange({q}, <<>>) /\ UNCHANGED detailsVars

DetailsStep ==
  \/ \E r \in setup.shown : OpenDetails(r)
  \/ setup.shown # {} /\ CloseDetails
  \/ RefreshRepository \/ SyncWorkflowRuns
  \/ \E days \in {None, 7} : SaveRetention(days)
  \/ \E mode \in WorkflowFilterMode : AddWorkflowFilter(mode)
  \/ Shows("filters") /\ \E f \in ToSet(cards.filters.rows) : RemoveWorkflowFilter(f.id)
  \/ Shows("members") /\ \/ \E u \in AvailableUsers : AddMember(u)
                         \/ \E m \in ToSet(cards.members.rows), role \in RepositoryRole : UpdateMemberRole(m, role)
                         \/ \E m \in ToSet(cards.members.rows) : RemoveMember(m)
  \/ CardLoaded("filters") \/ CardLoaded("members")
  \/ \E q \in DOMAIN requests :
       \/ Loaded(q) \/ Refreshed(q) \/ Synced(q) \/ Saved(q) \/ Unheard(q)
       \/ \E card \in {"filters", "members"}, function \in {"add", "role", "remove"} : ActionAnswered(q, card, function)
=============================================================================
