------------------------------ MODULE WebSearch ------------------------------
(***************************************************************************)
(* The search over all resources (composables/app/global-search.ts and     *)
(* components/layout/global-search.vue): a query that is long enough waits *)
(* for the debounce, then every group is asked for on its own; typing on   *)
(* ends the generation of requests.  What has come is shown in an overlay. *)
(***************************************************************************)
EXTENDS WebClient

LOCAL INSTANCE SequencesExt

VARIABLE search

GroupOps == [providers |-> "queryAccounts", repositories |-> "queryRepositories", runs |-> "queryRuns"]

CreateSearchGroup(loading) == [error |-> FALSE, items |-> {}, loading |-> loading]
ResetGroups(s, loading) ==
  [s EXCEPT !.groups = [g \in DOMAIN GroupOps |-> CreateSearchGroup(g \in loading)]]
CancelPendingSearch(s) == [s EXCEPT !.timer = None, !.controller = None]

InitSearch ==
  search = [mounted |-> setup.terms # {}, isOpen |-> FALSE, query |-> None, timer |-> None, controller |-> None,
            groups |-> [g \in DOMAIN GroupOps |-> CreateSearchGroup(FALSE)]]

\* A query shorter than globalSearchMinimumLength is None.
Type(term) ==
  /\ search.mounted /\ term # search.query
  /\ search' = [ResetGroups(CancelPendingSearch(search), {}) EXCEPT !.query = term, !.timer = term]
  /\ UNCHANGED <<requests, sent>>

\* The debounce is over.
RunSearch ==
  LET asked == DOMAIN GroupOps \ (IF ShowsAdministration THEN {} ELSE {"providers"})
      Params == [search |-> search.timer, enabled |-> None, providerType |-> None]
      CallFor(g) ==
        CreateApiClient(GroupOps[g], IF g = "repositories" THEN Params ELSE [search |-> search.timer],
                        <<"search", sent, g>>)
      groups == SetToSeq(asked)
  IN /\ search.timer # None
     /\ search' = [ResetGroups(search, asked) EXCEPT !.timer = None, !.controller = sent]
     /\ Exchange({}, [i \in 1..Cardinality(asked) |-> CallFor(groups[i])])

\* Mutant of IsCurrent: every answer is taken.
IsCurrentAlways(q) == search.mounted

IsCurrent(q) == search.controller = Generation(q)

LoadGroup(q, g) ==
  /\ Answered(q, "search", g)
  /\ search' = IF ~IsCurrent(q) THEN search
               ELSE [search EXCEPT !.groups[g] = [error |-> ~Succeeded(q), loading |-> FALSE,
                                                  items |-> IF Succeeded(q) THEN Rows(q) ELSE @.items]]
  /\ Exchange({q}, <<>>)

-----------------------------------------------------------------------------
\* The input gets the focus, by a click or by the slash; escape, a click beside the
\* overlay or on a result closes it.  Neither touches the query.
OpenOverlay ==
  search.mounted /\ ~search.isOpen /\ search' = [search EXCEPT !.isOpen = TRUE] /\ UNCHANGED <<requests, sent>>
CloseOverlay ==
  search.mounted /\ search.isOpen /\ search' = [search EXCEPT !.isOpen = FALSE] /\ UNCHANGED <<requests, sent>>

CanSearch == search.query # None
IsSearching == \E g \in DOMAIN GroupOps : search.groups[g].loading
FilledGroups == {g \in DOMAIN GroupOps : search.groups[g].items # {}}
FailedGroups == {g \in DOMAIN GroupOps : search.groups[g].error}

\* The pages of the navigation are found in the client, without a request.
NavigationResults == {page \in setup.pages : CanSearch /\ page = search.query}
HasResults == NavigationResults # {} \/ FilledGroups # {}

\* The parts of the overlay.
Overlay ==
  IF ~search.isOpen THEN {}
  ELSE IF ~CanSearch THEN {"searchHint"}
  ELSE FilledGroups
         \cup {"navigation" : page \in NavigationResults}
         \cup {"searchPartialError" : g \in FailedGroups}
         \cup (IF ~IsSearching /\ ~HasResults THEN {"searchNoResults"} ELSE {})

Leave == search.mounted /\ search' = [CancelPendingSearch(search) EXCEPT !.mounted = FALSE] /\ UNCHANGED <<requests, sent>>

SearchStep ==
  \/ \E term \in setup.terms : Type(term)
  \/ RunSearch
  \/ \E q \in DOMAIN requests, g \in DOMAIN GroupOps : LoadGroup(q, g)
  \/ OpenOverlay \/ CloseOverlay \/ Leave
=============================================================================
