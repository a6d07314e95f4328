---------------------------- MODULE MCSyncQueue ----------------------------
(* Small instances of SyncQueue for TLC. *)
EXTENDS SyncQueue, TLC

CONSTANTS r1, r2, a1, w1, w2

OneAccount == [r \in Repositories |-> a1]

\* The queue while nobody enables, disables or removes anything.
UnadministeredNext ==
  Webhook \/ Manual \/ Reconcile \/ ReconciliationAborts \/ Serve \/ Abort \/ Tick
UnadministeredSpec == Init /\ [][UnadministeredNext]_vars

\* Every request is for now, made by an administrator, and no pass aborts.
ImmediateSpec == Init /\ [][Manual \/ Serve \/ Tick]_vars

\* Fair behaviours without administration.
FairNext == Webhook \/ Reconcile \/ Serve \/ Abort \/ Tick
FairQueueSpec == Init /\ [][FairNext]_vars /\ WorkerFairness

WorkerSymmetry == Permutations(Workers)
=============================================================================
