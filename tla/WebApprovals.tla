----------------------------- MODULE WebApprovals -----------------------------
(***************************************************************************)
(* The page of runs that wait for an approval at their provider            *)
(* (pages/workflows/awaiting-approval.vue): loaded when it is opened and   *)
(* when its button is clicked, searched in the client.                     *)
(***************************************************************************)
EXTENDS WebClient

VARIABLE approvals

InitApprovals == approvals = [loading |-> FALSE, loaded |-> FALSE, loadError |-> FALSE, runs |-> {}, search |-> None]

FilteredRuns ==
  {run \in approvals.runs : approvals.search \in {None, run.repositoryName}}

\* The page: the alert of a failed load stands above the runs there are.
ApprovalsPage == [alert |-> approvals.loadError, busy |-> approvals.loading, rows |-> FilteredRuns]

\* The button waits as long as it shows that it is loading.
LoadApprovals ==
  /\ "approvals" \in setup.clicks /\ ~ApprovalsPage.busy
  /\ approvals' = [approvals EXCEPT !.loading = TRUE, !.loadError = FALSE]
  /\ Exchange({}, <<CreateApiClient("awaitingApproval", <<>>, <<"approvals", sent, "load">>)>>)

\* After an error the runs of the last load stay on the screen.
ApprovalsLoaded(q) ==
  /\ Answered(q, "approvals", "load")
  /\ approvals' = [approvals EXCEPT !.loading = FALSE, !.loaded = @ \/ Succeeded(q), !.loadError = ~Succeeded(q),
                                    !.runs = IF Succeeded(q) THEN Rows(q) ELSE @]
  /\ Exchange({q}, <<>>)

SearchApprovals(text) ==
  /\ approvals.loaded /\ text # approvals.search
  /\ approvals' = [approvals EXCEPT !.search = text]
  /\ UNCHANGED <<requests, sent>>

ApprovalsStep ==
  \/ LoadApprovals
  \/ \E q \in DOMAIN requests : ApprovalsLoaded(q)
  \/ \E text \in {None} \cup setup.names : SearchApprovals(text)
=============================================================================
