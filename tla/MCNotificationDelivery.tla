------------------------ MODULE MCNotificationDelivery ------------------------
(* Small instances of NotificationDelivery for TLC. *)
EXTENDS NotificationDelivery, TLC

CONSTANTS rule1, run1, s1, s2

\* Nobody changes channels, rules or runs.
QuietSpec == Init /\ [][Deliver]_vars

\* Bound: a manager, or the retention, changes at most one thing.
OneChangeSpec == Init /\ [][Deliver \/ (~reconfigured /\ Administer)]_vars

\* All calls of deliverPending are alike.
SenderSymmetry == Permutations(Senders)

FairDeletingSpec == DeletingSpec /\ Fairness
=============================================================================
