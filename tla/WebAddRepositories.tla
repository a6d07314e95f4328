-------------------------- MODULE WebAddRepositories --------------------------
(***************************************************************************)
(* The dialog that adds repositories of a provider account: an account is  *)
(* chosen, its repositories are listed, those selected are added together, *)
(* and what could not be added stays selected.  Its state outlives the     *)
(* dialog on the screen, and so do the requests it has sent.               *)
(***************************************************************************)
EXTENDS WebClient

LOCAL INSTANCE SequencesExt

VARIABLE adding

\* crossed while additions are under way that were asked before the dialog was opened, or
\* an account was chosen, anew.
Initial ==
  [open |-> FALSE, step |-> "provider", accounts |-> {}, account |-> None, available |-> {}, selected |-> {},
   accountsLoading |-> FALSE, repositoriesLoading |-> FALSE, errors |-> {}, crossed |-> FALSE]
InitAdding == adding = Initial

Adds == {q \in DOMAIN requests : "for" \in DOMAIN Call(q) /\ Call(q).for[1] = "adding" /\ Call(q).for[3] = "add"}

OpenDialog ==
  /\ "adds" \in setup.clicks /\ ~adding.open
  /\ adding' = [Initial EXCEPT !.open = TRUE, !.accounts = adding.accounts, !.accountsLoading = TRUE,
                               !.repositoriesLoading = adding.repositoriesLoading, !.crossed = Adds # {}]
  /\ Exchange({}, <<CreateApiClient("queryAccounts", <<>>, <<"adding", None, "accounts">>)>>)
AccountsLoaded(q) ==
  /\ Answered(q, "adding", "accounts")
  /\ adding' = IF Succeeded(q) THEN [adding EXCEPT !.accountsLoading = FALSE, !.accounts = {a.id : a \in {k \in Rows(q) : k.enabled}}]
               ELSE [adding EXCEPT !.accountsLoading = FALSE, !.errors = @ \cup {"accounts"}]
  /\ Exchange({q}, <<>>)

\* The close button of the dialog is there while repositories are added.
CloseDialog ==
  adding.open /\ adding' = [adding EXCEPT !.open = FALSE, !.step = "provider"] /\ Exchange({}, <<>>)

SelectAccount(a) ==
  /\ adding.open /\ adding.step = "provider" /\ a # adding.account
  /\ adding' = [adding EXCEPT !.account = a, !.selected = {}, !.available = {}, !.errors = @ \ {"repositories"},
                              !.repositoriesLoading = TRUE, !.crossed = Adds # {}]
  /\ Exchange({}, <<CreateApiClient("listAvailable", [account |-> a], <<"adding", a, "repositories">>)>>)

\* Mutant of IsChosen: the list of any account is shown.
IsChosenAlways(a) == adding.account # None

IsChosen(a) == adding.account = a

LoadAvailableRepositories(q) ==
  LET found == {[remote |-> m, tracked |-> m \in requests[q].reply.tracked] : m \in Found(q)}
  IN /\ Answered(q, "adding", "repositories")
     /\ adding' = IF ~IsChosen(Generation(q)) THEN adding
                  ELSE IF Succeeded(q) THEN [adding EXCEPT !.repositoriesLoading = FALSE, !.available = found]
                  ELSE [adding EXCEPT !.repositoriesLoading = FALSE, !.errors = @ \cup {"repositories"}]
     /\ Exchange({q}, <<>>)

Advance ==
  /\ adding.open /\ adding.step = "provider" /\ adding.account # None
  /\ ~adding.accountsLoading /\ ~adding.repositoriesLoading
  /\ adding' = [adding EXCEPT !.step = "repository"] /\ Exchange({}, <<>>)
Back ==
  /\ adding.step = "repository" /\ Adds = {}
  /\ adding' = [adding EXCEPT !.step = "provider"] /\ Exchange({}, <<>>)

SetRepositorySelected(repository) ==
  /\ adding.step = "repository" /\ ~repository.tracked
  /\ adding' = [adding EXCEPT !.selected = IF repository.remote \in @ THEN @ \ {repository.remote} ELSE @ \cup {repository.remote}]
  /\ Exchange({}, <<>>)

\* All that are visible; without a search in the table, the whole list is.
ToggleVisibleRepositories(selected) ==
  LET visible == {m.remote : m \in {k \in adding.available : ~k.tracked}}
  IN /\ adding.step = "repository"
     /\ adding' = [adding EXCEPT !.selected = IF selected THEN @ \cup visible ELSE @ \ visible]
     /\ Exchange({}, <<>>)

AddRepositories ==
  LET Addition(m) == CreateApiClient("addRepository", [account |-> adding.account, remote |-> m], <<"adding", adding.account, "add">>)
      chosen == SetToSeq(adding.selected)
  IN /\ adding.step = "repository" /\ chosen # <<>> /\ Adds = {}
     /\ adding' = [adding EXCEPT !.errors = @ \ {"add"}]
     /\ Exchange({}, [i \in 1..Cardinality(adding.selected) |-> Addition(chosen[i])])

\* Promise.allSettled: what was added is marked, what was refused stays selected.
Added ==
  LET Remotes(status) == {Input(q).remote : q \in {k \in Adds : Succeeded(k) = status}}
      marked == {[m EXCEPT !.tracked = @ \/ m.remote \in Remotes(TRUE)] : m \in adding.available}
  IN /\ Adds # {} /\ \A q \in Adds : Ended(q)
     /\ adding' = IF Remotes(FALSE) = {}
                  THEN [adding EXCEPT !.available = marked, !.open = FALSE, !.step = "provider"]
                  ELSE [adding EXCEPT !.available = marked, !.selected = Remotes(FALSE), !.errors = @ \cup {"add"}]
     /\ Exchange(Adds, <<>>)

AddingStep ==
  \/ OpenDialog \/ CloseDialog \/ Advance \/ Back \/ AddRepositories \/ Added
  \/ \E a \in adding.accounts : SelectAccount(a)
  \/ \E m \in adding.available : SetRepositorySelected(m)
  \/ \E selected \in BOOLEAN : ToggleVisibleRepositories(selected)
  \/ \E q \in DOMAIN requests : AccountsLoaded(q) \/ LoadAvailableRepositories(q)
=============================================================================
