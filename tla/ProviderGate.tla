---------------------------- MODULE ProviderGate ----------------------------
(***************************************************************************)
(* What the leases and rate limits of the queue promise to a provider: a   *)
(* gate in front of each account.  One pass at a time is inside, nobody    *)
(* enters while the account is rate limited, a limit is only announced     *)
(* when there is none, and nothing but time (or the removal of the         *)
(* account) ends it.  SyncQueue implements it.                             *)
(***************************************************************************)
EXTENDS Naturals

CONSTANTS Passes, Accounts

VARIABLES
  using,  \* the passes inside, for each account
  limit   \* ticks until the account's rate limit ends

gate == <<using, limit>>

Init ==
  /\ using = [a \in Accounts |-> {}]
  /\ limit = [a \in Accounts |-> 0]

Enter(w, a) ==
  /\ using[a] = {} /\ limit[a] = 0
  /\ using' = [using EXCEPT ![a] = {w}]
  /\ UNCHANGED limit

Leave(w, a) ==
  /\ w \in using[a]
  /\ using' = [using EXCEPT ![a] = {}]
  /\ UNCHANGED limit

\* The pass inside leaves with the news of a limit, or one brings it that stayed so long
\* that it is not inside any more, as long as nobody has come in since.
Announce(a) ==
  /\ limit[a] = 0
  /\ using' = [using EXCEPT ![a] = {}]
  /\ limit'[a] \in Nat
  /\ limit' = [limit EXCEPT ![a] = limit'[a]]

\* Limits run down; a pass that stays too long loses its place.
TimePasses ==
  /\ limit' = [a \in Accounts |-> IF limit[a] > 0 THEN limit[a] - 1 ELSE 0]
  /\ using' \in [Accounts -> SUBSET Passes]
  /\ \A a \in Accounts : using'[a] \subseteq using[a]

Remove(a) ==
  /\ limit' = [limit EXCEPT ![a] = 0]
  /\ UNCHANGED using

Next ==
  \/ \E w \in Passes, a \in Accounts : Enter(w, a) \/ Leave(w, a)
  \/ \E a \in Accounts : Announce(a) \/ Remove(a)
  \/ TimePasses

Spec == Init /\ [][Next]_gate
=============================================================================
