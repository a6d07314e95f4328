----------------------- MODULE ControlPlaneAccessProofs ----------------------
(***************************************************************************)
(* Proofs about authorization, first part: whatever is removed while a     *)
(* handler runs, the control plane shows and changes only what the user of *)
(* a request could read and manage at a moment of the request, with a      *)
(* credential that was good then.  Here: the tables and their relations,   *)
(* the routes, the invariant, and what the statements keep of it.          *)
(***************************************************************************)
EXTENDS ControlPlaneProofs

LOCAL INSTANCE SequencesExt
LOCAL INSTANCE SequenceTheorems

Names == ToSet(Tables) \cup {"settings"}

\* Every row refers to rows that are there.
Whole(d, ts) == \A t \in ts : \A i \in DOMAIN d[t] : Refers(d, t, d[t][i])

\* The tables of e are parts of those of d.
IsPart(e, d) ==
  /\ DOMAIN e = DOMAIN d /\ e.settings = d.settings
  /\ \A t \in ToSet(Tables) : DOMAIN e[t] \subseteq DOMAIN d[t] /\ \A i \in DOMAIN e[t] : e[t][i] = d[t][i]

LEMMA TablesAre ==
  /\ ToSet(Tables) = {"users", "accounts", "repositories", "tokens", "memberships", "filters", "channels", "rules",
                      "links", "runs", "deliveries", "webhooks", "queue"}
  /\ "settings" \notin ToSet(Tables)
<1>1. ToSet(Tables) = {"users", "accounts", "repositories", "tokens", "memberships", "filters", "channels", "rules",
                       "links", "runs", "deliveries", "webhooks", "queue"}
  <2>1. DOMAIN Tables = 1..13
    BY DEF Tables
  <2>2. /\ Tables[1] = "users" /\ Tables[2] = "accounts" /\ Tables[3] = "repositories" /\ Tables[4] = "tokens"
        /\ Tables[5] = "memberships" /\ Tables[6] = "filters" /\ Tables[7] = "channels" /\ Tables[8] = "rules"
        /\ Tables[9] = "links" /\ Tables[10] = "runs" /\ Tables[11] = "deliveries" /\ Tables[12] = "webhooks"
        /\ Tables[13] = "queue"
    BY DEF Tables
  <2>3. \A i \in 1..13 : \/ i = 1 \/ i = 2 \/ i = 3 \/ i = 4 \/ i = 5 \/ i = 6 \/ i = 7 \/ i = 8 \/ i = 9 \/ i = 10
                         \/ i = 11 \/ i = 12 \/ i = 13
    OBVIOUS
  <2> HIDE DEF Tables
  <2> QED  BY <2>1, <2>2, <2>3 DEF ToSet
<1> QED  BY <1>1

LEMMA ReferencesAre ==
  /\ References["users"] = {} /\ References["accounts"] = {}
  /\ References["tokens"] = {<<"user", "users">>}
  /\ References["repositories"] = {<<"account", "accounts">>}
  /\ References["webhooks"] = {<<"account", "accounts">>}
  /\ References["memberships"] = {<<"user", "users">>, <<"repository", "repositories">>}
  /\ \A t \in {"filters", "channels", "rules", "runs", "queue"} : References[t] = {<<"repository", "repositories">>}
  /\ References["links"] = {<<"rule", "rules">>, <<"channel", "channels">>}
  /\ References["deliveries"] = {<<"rule", "rules">>, <<"run", "runs">>}
BY TablesAre DEF References

\* What a row of each table refers to.
LEMMA RefersTo ==
  ASSUME NEW d, NEW row
  PROVE  /\ Refers(d, "users", row) /\ Refers(d, "accounts", row)
         /\ Refers(d, "tokens", row) <=> row.user \in DOMAIN d.users
         /\ Refers(d, "repositories", row) <=> row.account \in DOMAIN d.accounts
         /\ Refers(d, "webhooks", row) <=> row.account \in DOMAIN d.accounts
         /\ Refers(d, "memberships", row) <=> row.user \in DOMAIN d.users /\ row.repository \in DOMAIN d.repositories
         /\ \A t \in {"filters", "channels", "rules", "runs", "queue"} :
              Refers(d, t, row) <=> row.repository \in DOMAIN d.repositories
         /\ Refers(d, "links", row) <=> row.rule \in DOMAIN d.rules /\ row.channel \in DOMAIN d.channels
         /\ Refers(d, "deliveries", row) <=> row.rule \in DOMAIN d.rules /\ row.run \in DOMAIN d.runs
<1>1. ASSUME NEW t, NEW field, NEW of, References[t] = {<<field, of>>}
      PROVE  Refers(d, t, row) <=> row[field] \in DOMAIN d[of]
  BY <1>1 DEF Refers
<1>2. ASSUME NEW t, NEW field, NEW of, NEW other, NEW to, References[t] = {<<field, of>>, <<other, to>>}
      PROVE  Refers(d, t, row) <=> row[field] \in DOMAIN d[of] /\ row[other] \in DOMAIN d[to]
  BY <1>2 DEF Refers
<1>3. Refers(d, "users", row) /\ Refers(d, "accounts", row)
  BY ReferencesAre DEF Refers
<1>4. /\ Refers(d, "tokens", row) <=> row.user \in DOMAIN d.users
      /\ Refers(d, "repositories", row) <=> row.account \in DOMAIN d.accounts
      /\ Refers(d, "webhooks", row) <=> row.account \in DOMAIN d.accounts
  BY <1>1, ReferencesAre
<1>5. \A t \in {"filters", "channels", "rules", "runs", "queue"} :
        Refers(d, t, row) <=> row.repository \in DOMAIN d.repositories
  BY <1>1, ReferencesAre
<1>6. Refers(d, "memberships", row) <=> row.user \in DOMAIN d.users /\ row.repository \in DOMAIN d.repositories
  BY <1>2, ReferencesAre
<1>7. Refers(d, "links", row) <=> row.rule \in DOMAIN d.rules /\ row.channel \in DOMAIN d.channels
  BY <1>2, ReferencesAre
<1>8. Refers(d, "deliveries", row) <=> row.rule \in DOMAIN d.rules /\ row.run \in DOMAIN d.runs
  BY <1>2, ReferencesAre
<1> QED  BY <1>3, <1>4, <1>5, <1>6, <1>7, <1>8

LEMMA SweptIs ==
  ASSUME NEW d, DOMAIN d = Names
  PROVE  /\ IsPart(Swept(d), d)
         /\ \A t \in ToSet(Tables) : DOMAIN Swept(d)[t] = {i \in DOMAIN d[t] : Refers(d, t, d[t][i])}
BY TablesAre DEF Names, Swept, IsPart

\* The tables in four levels: a table refers to tables of the levels below.
Level0 == {"users", "accounts"}
Level1 == Level0 \cup {"repositories", "tokens", "webhooks"}
Level2 == Level1 \cup {"memberships", "filters", "channels", "rules", "runs", "queue"}

LEMMA LevelsAre ==
  /\ \A t \in Level1 : \A ref \in References[t] : ref[2] \in Level0
  /\ \A t \in Level2 : \A ref \in References[t] : ref[2] \in Level1
  /\ \A t \in ToSet(Tables) : \A ref \in References[t] : ref[2] \in Level2
  /\ Level0 \subseteq ToSet(Tables) /\ Level1 \subseteq ToSet(Tables) /\ Level2 \subseteq ToSet(Tables)
<1>1. /\ Level0 \subseteq ToSet(Tables) /\ Level1 \subseteq ToSet(Tables) /\ Level2 \subseteq ToSet(Tables)
  BY TablesAre DEF Level0, Level1, Level2
<1>2. \A t \in Level1 : \A ref \in References[t] : ref[2] \in Level0
  BY ReferencesAre DEF Level0, Level1
<1>3. \A t \in Level2 : \A ref \in References[t] : ref[2] \in Level1
  BY ReferencesAre DEF Level0, Level1, Level2
<1>4. \A t \in ToSet(Tables) : \A ref \in References[t] : ref[2] \in Level2
  BY ReferencesAre, TablesAre DEF Level0, Level1, Level2
<1> QED  BY <1>1, <1>2, <1>3, <1>4

\* A sweep settles one level more.
LEMMA SweepSettles ==
  ASSUME NEW d, DOMAIN d = Names, NEW below \in SUBSET ToSet(Tables), Whole(d, below),
         NEW ts \in SUBSET ToSet(Tables), \A t \in ts : \A ref \in References[t] : ref[2] \in below
  PROVE  Whole(Swept(d), ts)
<1>1. \A t \in below : DOMAIN Swept(d)[t] = DOMAIN d[t]
  BY SweptIs DEF Whole
<1>2. ASSUME NEW t \in ts, NEW i \in DOMAIN Swept(d)[t]
      PROVE  Refers(Swept(d), t, Swept(d)[t][i])
  <2>1. Refers(d, t, d[t][i]) /\ Swept(d)[t][i] = d[t][i]
    BY SweptIs DEF IsPart
  <2> QED  BY <1>1, <2>1 DEF Refers
<1> QED  BY <1>2 DEF Whole

\* onDelete: Cascade.  What is left is settled; and a row goes only if it is named or if it
\* refers to a row that is gone.
LEMMA Cascades ==
  ASSUME NEW d, DOMAIN d = Names, NEW t \in ToSet(Tables), NEW ids
  PROVE  LET e == WithoutRows(d, t, ids)
         IN /\ IsPart(e, d) /\ Whole(e, ToSet(Tables))
            /\ \A u \in ToSet(Tables) : \A i \in DOMAIN d[u] \ DOMAIN e[u] :
                 \/ u = t /\ i \in ids
                 \/ \E ref \in References[u] : d[u][i][ref[1]] \notin DOMAIN e[ref[2]]
<1> DEFINE e0 == WithoutRowsOnly(d, t, ids)
           e1 == Swept(e0)
           e2 == Swept(e1)
           e3 == Swept(e2)
<1>1. e3 = WithoutRows(d, t, ids)
  BY DEF WithoutRows
<1>2. /\ IsPart(e0, d)
      /\ \A u \in ToSet(Tables) : \A i \in DOMAIN d[u] \ DOMAIN e0[u] : u = t /\ i \in ids
  BY TablesAre DEF WithoutRowsOnly, IsPart, Names
<1> HIDE DEF e0
<1>3. DOMAIN e0 = Names /\ IsPart(e1, e0)
  BY <1>2, SweptIs DEF IsPart
<1>4. DOMAIN e1 = Names /\ IsPart(e2, e1)
  BY <1>3, SweptIs DEF IsPart
<1>5. DOMAIN e2 = Names /\ IsPart(e3, e2)
  BY <1>4, SweptIs DEF IsPart
<1>6. IsPart(e3, d)
  <2> HIDE DEF e1, e2, e3
  <2> QED  BY <1>2, <1>3, <1>4, <1>5 DEF IsPart
<1>7. Whole(e0, Level0)
  BY RefersTo DEF Whole, Level0
<1>8. Whole(e1, Level1)
  BY <1>3, <1>7, SweepSettles, LevelsAre
<1>9. Whole(e2, Level2)
  BY <1>4, <1>8, SweepSettles, LevelsAre
<1>10. Whole(e3, ToSet(Tables))
  BY <1>5, <1>9, SweepSettles, LevelsAre
<1>11. ASSUME NEW f, DOMAIN f = Names, IsPart(f, d), IsPart(e3, Swept(f)), NEW u \in ToSet(Tables),
              NEW i \in DOMAIN f[u] \ DOMAIN Swept(f)[u]
       PROVE  \E ref \in References[u] : d[u][i][ref[1]] \notin DOMAIN e3[ref[2]]
  <2>1. ~Refers(f, u, f[u][i]) /\ f[u][i] = d[u][i]
    BY <1>11, SweptIs DEF IsPart
  <2>2. PICK ref \in References[u] : d[u][i][ref[1]] \notin DOMAIN f[ref[2]]
    BY <2>1 DEF Refers
  <2>3. ref[2] \in ToSet(Tables)
    BY LevelsAre
  <2>4. DOMAIN e3[ref[2]] \subseteq DOMAIN f[ref[2]]
    <3> HIDE DEF e3
    <3> QED  BY <1>11, <2>3, SweptIs DEF IsPart
  <2> QED  BY <2>2, <2>4
<1>12. IsPart(e0, d) /\ IsPart(e1, d) /\ IsPart(e2, d) /\ IsPart(e3, e1) /\ IsPart(e3, e3)
  <2> HIDE DEF e1, e2, e3
  <2> QED  BY <1>2, <1>3, <1>4, <1>5 DEF IsPart
<1>13. ASSUME NEW u \in ToSet(Tables), NEW i \in DOMAIN d[u] \ DOMAIN e3[u]
       PROVE  \/ u = t /\ i \in ids
              \/ \E ref \in References[u] : d[u][i][ref[1]] \notin DOMAIN e3[ref[2]]
  <2>1. CASE i \notin DOMAIN e0[u]
    BY <1>2, <1>13, <2>1
  <2>2. CASE i \in DOMAIN e0[u] \ DOMAIN e1[u]
    BY <1>3, <1>11, <1>12, <2>2
  <2>3. CASE i \in DOMAIN e1[u] \ DOMAIN e2[u]
    BY <1>4, <1>5, <1>11, <1>12, <2>3
  <2>4. CASE i \in DOMAIN e2[u]
    BY <1>5, <1>11, <1>12, <1>13, <2>4
  <2> QED  BY <2>1, <2>2, <2>3, <2>4
<1> QED  BY <1>1, <1>6, <1>10, <1>13

-----------------------------------------------------------------------------
(***************************************************************************)
(* What the tables always are, and what every statement keeps of them.     *)
(***************************************************************************)
\* The field of a row that no statement changes.
Fixed ==
  [users |-> "role", repositories |-> "account", tokens |-> "user", channels |-> "repository", rules |-> "repository"]

\* The fields by which an answer is known to show data of a repository.
WellFormed(t, row) ==
  /\ t \in DOMAIN Fixed => Fixed[t] \in DOMAIN row
  /\ t = "runs" => "repository" \in DOMAIN row
  /\ t = "repositories" => "repository" \notin DOMAIN row
  /\ t = "tokens" => "repository" \notin DOMAIN row /\ "remote" \notin DOMAIN row

\* A link is named by its rule and its channel, which belong to one repository.
IsLink(d, l) ==
  /\ l = <<d.links[l].rule, d.links[l].channel>>
  /\ d.channels[d.links[l].channel].repository = d.rules[d.links[l].rule].repository

Tidy(d) ==
  /\ DOMAIN d = Names /\ DOMAIN d.settings \cap {"items", "health"} = {}
  /\ \A t \in ToSet(Tables) : \A i \in DOMAIN d[t] : Refers(d, t, d[t][i]) /\ WellFormed(t, d[t][i])
  /\ \A l \in DOMAIN d.links : IsLink(d, l)

\* From d to e: what is fixed stays, and a repository goes only with its account.
Keeps(d, e) ==
  /\ \A t \in DOMAIN Fixed : \A i \in DOMAIN d[t] \cap DOMAIN e[t] : e[t][i][Fixed[t]] = d[t][i][Fixed[t]]
  /\ \A r \in DOMAIN d.repositories : d.repositories[r].account \in DOMAIN e.accounts => r \in DOMAIN e.repositories

\* A row of e that d has, or that may be written.
IsSound(d, e, t, i) ==
  \/ i \in DOMAIN d[t] /\ e[t][i] = d[t][i]
  \/ /\ Refers(d, t, e[t][i]) /\ WellFormed(t, e[t][i])
     /\ t \in DOMAIN Fixed /\ i \in DOMAIN d[t] => e[t][i][Fixed[t]] = d[t][i][Fixed[t]]

LEMMA FixedAre ==
  /\ DOMAIN Fixed = {"users", "repositories", "tokens", "channels", "rules"}
  /\ DOMAIN Fixed \subseteq ToSet(Tables)
  /\ Fixed["users"] = "role" /\ Fixed["repositories"] = "account" /\ Fixed["tokens"] = "user"
  /\ Fixed["channels"] = "repository" /\ Fixed["rules"] = "repository"
BY TablesAre DEF Fixed

LEMMA RefersGrows ==
  ASSUME NEW d, NEW e, \A t \in ToSet(Tables) : DOMAIN d[t] \subseteq DOMAIN e[t],
         NEW t \in ToSet(Tables), NEW row, Refers(d, t, row)
  PROVE  Refers(e, t, row)
<1>1. \A ref \in References[t] : ref[2] \in ToSet(Tables)
  BY LevelsAre
<1> QED  BY <1>1 DEF Refers

\* Rows are written where nothing goes and no link changes.
LEMMA RowsTidy ==
  ASSUME NEW d, Tidy(d), NEW e, DOMAIN e = Names, e.links = d.links,
         DOMAIN e.settings \cap {"items", "health"} = {},
         \A t \in ToSet(Tables) : DOMAIN d[t] \subseteq DOMAIN e[t],
         \A t \in ToSet(Tables) : \A i \in DOMAIN e[t] : IsSound(d, e, t, i)
  PROVE  Tidy(e) /\ Keeps(d, e)
<1>1. ASSUME NEW t \in ToSet(Tables), NEW i \in DOMAIN e[t]
      PROVE  Refers(e, t, e[t][i]) /\ WellFormed(t, e[t][i])
  BY RefersGrows DEF IsSound, Tidy
<1>2. ASSUME NEW t \in DOMAIN Fixed, NEW i \in DOMAIN d[t]
      PROVE  e[t][i][Fixed[t]] = d[t][i][Fixed[t]]
  BY FixedAre DEF IsSound
<1>3. ASSUME NEW l \in DOMAIN d.links
      PROVE  IsLink(e, l)
  <2>1. d.links[l].rule \in DOMAIN d.rules /\ d.links[l].channel \in DOMAIN d.channels
    BY RefersTo, TablesAre DEF Tidy
  <2>2. /\ e.rules[d.links[l].rule].repository = d.rules[d.links[l].rule].repository
        /\ e.channels[d.links[l].channel].repository = d.channels[d.links[l].channel].repository
    BY <1>2, <2>1, FixedAre
  <2> QED  BY <2>2 DEF Tidy, IsLink
<1>4. \A r \in DOMAIN d.repositories : r \in DOMAIN e.repositories
  BY TablesAre
<1> QED  BY <1>1, <1>2, <1>3, <1>4 DEF Tidy, Keeps

\* One row is written.
LEMMA RowTidy ==
  ASSUME NEW d, Tidy(d), NEW t \in ToSet(Tables) \ {"links"}, NEW id, NEW row,
         Refers(d, t, row), WellFormed(t, row),
         t \in DOMAIN Fixed /\ id \in DOMAIN d[t] => row[Fixed[t]] = d[t][id][Fixed[t]]
  PROVE  LET e == WithRow(d, t, id, row)
         IN /\ Tidy(e) /\ Keeps(d, e)
            /\ \A u \in Names \ {t} : e[u] = d[u]
            /\ DOMAIN e[t] = DOMAIN d[t] \cup {id} /\ e[t][id] = row
            /\ \A i \in DOMAIN d[t] \ {id} : e[t][i] = d[t][i]
<1> DEFINE e == WithRow(d, t, id, row)
<1>1. /\ DOMAIN e = Names /\ \A u \in Names \ {t} : e[u] = d[u]
      /\ DOMAIN e[t] = DOMAIN d[t] \cup {id} /\ e[t][id] = row
      /\ \A i \in DOMAIN d[t] \ {id} : e[t][i] = d[t][i]
  BY DEF WithRow, Over, Tidy, Names
<1>2. e.links = d.links /\ e.settings = d.settings
  BY <1>1, TablesAre DEF Names
<1> HIDE DEF e
<1>3. \A u \in ToSet(Tables) : DOMAIN d[u] \subseteq DOMAIN e[u]
  BY <1>1 DEF Names
<1>4. ASSUME NEW u \in ToSet(Tables), NEW i \in DOMAIN e[u]
      PROVE  IsSound(d, e, u, i)
  BY <1>1 DEF IsSound, Names
<1>5. Tidy(e) /\ Keeps(d, e)
  BY <1>1, <1>2, <1>3, <1>4, RowsTidy DEF Tidy
<1> QED  BY <1>1, <1>5 DEF e

\* Rows go, with those that refer to them.
LEMMA RemovalTidy ==
  ASSUME NEW d, Tidy(d), NEW t \in ToSet(Tables) \ {"repositories"}, NEW ids
  PROVE  LET e == WithoutRows(d, t, ids)
         IN Tidy(e) /\ Keeps(d, e) /\ IsPart(e, d)
<1> DEFINE e == WithoutRows(d, t, ids)
<1>1. /\ IsPart(e, d) /\ Whole(e, ToSet(Tables))
      /\ \A u \in ToSet(Tables) : \A i \in DOMAIN d[u] \ DOMAIN e[u] :
           \/ u = t /\ i \in ids
           \/ \E ref \in References[u] : d[u][i][ref[1]] \notin DOMAIN e[ref[2]]
  BY Cascades DEF Tidy
<1> HIDE DEF e
<1>2. \A u \in ToSet(Tables) : \A i \in DOMAIN e[u] : Refers(e, u, e[u][i]) /\ WellFormed(u, e[u][i])
  BY <1>1 DEF Whole, Tidy, IsPart
<1>3. ASSUME NEW l \in DOMAIN e.links
      PROVE  IsLink(e, l)
  <2>1. l \in DOMAIN d.links /\ e.links[l] = d.links[l]
    BY <1>1, TablesAre DEF IsPart
  <2>2. e.links[l].rule \in DOMAIN e.rules /\ e.links[l].channel \in DOMAIN e.channels
    BY <1>2, RefersTo, TablesAre
  <2>3. /\ e.rules[e.links[l].rule] = d.rules[e.links[l].rule]
        /\ e.channels[e.links[l].channel] = d.channels[e.links[l].channel]
    BY <1>1, <2>2, TablesAre DEF IsPart
  <2> QED  BY <2>1, <2>3 DEF Tidy, IsLink
<1>4. Tidy(e)
  BY <1>1, <1>2, <1>3 DEF Tidy, IsPart
<1>5. \A r \in DOMAIN d.repositories : d.repositories[r].account \in DOMAIN e.accounts => r \in DOMAIN e.repositories
  BY <1>1, TablesAre, ReferencesAre
<1>6. Keeps(d, e)
  BY <1>1, <1>5, FixedAre DEF Keeps, IsPart
<1> QED  BY <1>1, <1>4, <1>6 DEF e

SameRows(d, e, t) == DOMAIN e[t] = DOMAIN d[t] /\ \A i \in DOMAIN d[t] : e[t][i] = d[t][i]

\* A removal does not reach a table whose references it leaves alone.
LEMMA Unreached ==
  ASSUME NEW d, Tidy(d), NEW t \in ToSet(Tables), NEW ids, NEW u \in ToSet(Tables) \ {t},
         \A ref \in References[u] : DOMAIN d[ref[2]] \subseteq DOMAIN WithoutRows(d, t, ids)[ref[2]]
  PROVE  SameRows(d, WithoutRows(d, t, ids), u)
<1>1. \A i \in DOMAIN d[u] : \A ref \in References[u] : d[u][i][ref[1]] \in DOMAIN d[ref[2]]
  BY DEF Tidy, Refers
<1> DEFINE e == WithoutRows(d, t, ids)
<1>2. /\ IsPart(e, d)
      /\ \A i \in DOMAIN d[u] \ DOMAIN e[u] : \E ref \in References[u] : d[u][i][ref[1]] \notin DOMAIN e[ref[2]]
  BY Cascades DEF Tidy
<1>3. \A ref \in References[u] : DOMAIN d[ref[2]] \subseteq DOMAIN e[ref[2]]
  OBVIOUS
<1> HIDE DEF e
<1>4. DOMAIN d[u] \subseteq DOMAIN e[u]
  BY <1>1, <1>2, <1>3
<1>5. SameRows(d, e, u)
  BY <1>2, <1>4 DEF IsPart, SameRows
<1> QED  BY <1>5 DEF e

\* With channels, rules or links only links go, and with rules their deliveries.
LEMMA ConfigurationRemoval ==
  ASSUME NEW d, Tidy(d), NEW t \in {"channels", "rules", "links"}, NEW ids
  PROVE  LET e == WithoutRows(d, t, ids)
         IN /\ \A u \in ToSet(Tables) \ {t, "links", "deliveries"} : SameRows(d, e, u)
            /\ \A i \in DOMAIN d[t] \ DOMAIN e[t] : i \in ids \/ t = "links"
            /\ \A l \in DOMAIN d.links \ DOMAIN e.links :
                 \/ t = "links" /\ l \in ids
                 \/ t = "channels" /\ d.links[l].channel \in ids
                 \/ t = "rules" /\ d.links[l].rule \in ids
            /\ \A n \in DOMAIN d.deliveries \ DOMAIN e.deliveries : t = "rules" /\ d.deliveries[n].rule \in ids
<1> DEFINE e == WithoutRows(d, t, ids)
<1>1. SameRows(d, e, "users") /\ SameRows(d, e, "accounts")
  BY Unreached, TablesAre, ReferencesAre
<1>2. SameRows(d, e, "repositories") /\ SameRows(d, e, "tokens") /\ SameRows(d, e, "webhooks")
  <2>1. \A u \in {"repositories", "tokens", "webhooks"} : \A ref \in References[u] : DOMAIN d[ref[2]] \subseteq DOMAIN e[ref[2]]
    BY <1>1, ReferencesAre DEF SameRows
  <2> QED  BY <2>1, Unreached, TablesAre
<1>3. /\ \A u \in {"memberships", "filters", "runs", "queue"} : SameRows(d, e, u)
      /\ \A u \in {"channels", "rules"} \ {t} : SameRows(d, e, u)
  <2>1. \A u \in {"memberships", "filters", "runs", "queue", "channels", "rules"} :
          \A ref \in References[u] : DOMAIN d[ref[2]] \subseteq DOMAIN e[ref[2]]
    BY <1>1, <1>2, ReferencesAre DEF SameRows
  <2> QED  BY <2>1, Unreached, TablesAre
<1>4. \A u \in ToSet(Tables) : \A i \in DOMAIN d[u] \ DOMAIN e[u] :
        \/ u = t /\ i \in ids
        \/ \E ref \in References[u] : d[u][i][ref[1]] \notin DOMAIN e[ref[2]]
  BY Cascades, TablesAre DEF Tidy
<1> HIDE DEF e
<1>5. \A u \in ToSet(Tables) \ {t, "links", "deliveries"} : SameRows(d, e, u)
  BY <1>1, <1>2, <1>3, TablesAre
<1>6. \A i \in DOMAIN d[t] \ DOMAIN e[t] : i \in ids \/ t = "links"
  <2> SUFFICES ASSUME t \in {"channels", "rules"}, NEW i \in DOMAIN d[t] \ DOMAIN e[t]
               PROVE  i \in ids
    OBVIOUS
  <2>1. \A ref \in References[t] : d[t][i][ref[1]] \in DOMAIN e[ref[2]]
    BY <1>2, ReferencesAre, TablesAre DEF SameRows, Tidy, Refers
  <2> QED  BY <1>4, <2>1, TablesAre
<1>7. ASSUME NEW l \in DOMAIN d.links \ DOMAIN e.links
      PROVE  \/ t = "links" /\ l \in ids
             \/ t = "channels" /\ d.links[l].channel \in ids
             \/ t = "rules" /\ d.links[l].rule \in ids
  <2>1. d.links[l].rule \in DOMAIN d.rules /\ d.links[l].channel \in DOMAIN d.channels
    BY RefersTo, TablesAre DEF Tidy
  <2>2. \/ t = "links" /\ l \in ids
        \/ d.links[l].rule \notin DOMAIN e.rules \/ d.links[l].channel \notin DOMAIN e.channels
    BY <1>4, ReferencesAre, TablesAre
  <2>3. /\ t # "channels" => d.links[l].channel \in DOMAIN e.channels
        /\ t # "rules" => d.links[l].rule \in DOMAIN e.rules
    BY <1>3, <2>1 DEF SameRows
  <2> QED  BY <1>6, <2>1, <2>2, <2>3
<1>8. ASSUME NEW n \in DOMAIN d.deliveries \ DOMAIN e.deliveries
      PROVE  t = "rules" /\ d.deliveries[n].rule \in ids
  <2>1. d.deliveries[n].rule \in DOMAIN d.rules /\ d.deliveries[n].run \in DOMAIN e.runs
    BY <1>3, RefersTo, TablesAre DEF Tidy, SameRows
  <2>2. d.deliveries[n].rule \notin DOMAIN e.rules
    BY <1>4, <2>1, ReferencesAre, TablesAre
  <2> QED  BY <1>3, <1>6, <2>1, <2>2 DEF SameRows
<1> QED  BY <1>5, <1>6, <1>7, <1>8 DEF e

-----------------------------------------------------------------------------
(***************************************************************************)
(* The operations by whom they are for, and what their handlers do once    *)
(* the request is authenticated.                                           *)
(***************************************************************************)
AnonymousOps == {"signIn", "setupStatus", "setup", "resetPassword", "webhook"}
AdminOps ==
  {"queryUsers", "createUser", "removeUser", "updateSettings", "listFilters", "createFilter", "deleteFilter",
   "listMemberships", "upsertMembership", "deleteMembership", "updateRepository", "refreshRepository",
   "syncRepository", "queryAccounts", "listAvailable", "createAccount", "addRepository", "authorize",
   "updateAccount", "removeAccount"}
ToolOps == DOMAIN McpRoutes
PersonalOps ==
  {"me", "updateProfile", "updateAvatar", "deleteAvatar", "signOut", "updatePassword", "avatar", "getSettings"}
SightOps ==
  {"queryRepositories", "findRepository", "listChannels", "listRules", "queryRuns", "needsAttention",
   "awaitingApproval", "failures", "latestRuns", "summary", "repositoryHealth", "trend"}

\* The operations that change a row they have found, by its table.
Configured == [updateChannel |-> "channels", deleteChannel |-> "channels", updateRule |-> "rules", deleteRule |-> "rules"]

\* Statements that show what the ability allows, and statements that change channels and rules.
Seeing ==
  {"ReadRepositories", "CountRepositories", "ReadRepository", "ReadChannels", "ReadRules", "ReadDeliveries",
   "ReadRuns", "CountRuns", "ReadLatest", "NeedsAttentionIds", "CurrentIds", "ReadByIds", "CountAttention",
   "CountAwaiting", "ReadCompleted", "CountActive", "SumCurrent", "SumRetained", "ReadHealth", "ReadTrend"}
Finding == {"FindChannel", "FindRule"}
Editing == {"CreateChannel", "UpdateChannel", "DeleteChannel", "CreateRule", "UpdateRule", "DeleteRule"}
Closing == {"CreateChannel", "CreateRule", "CreateToken"}

PersonalStatements ==
  {"ReadMe", "FindForProfile", "UpdateProfile", "SaveAvatar", "RemoveAvatar", "FindForPassword", "UpdatePassword",
   "ReadAvatar", "ReadSettings"}
AdminStatements ==
  {"ReadUsers", "CreateUser", "RemoveUser", "UpsertSettings", "RequireRepository", "ReadFilters", "CreateFilter",
   "FindFilter", "DeleteFilter", "ReadMemberships", "FindMember", "UpsertMembership", "FindMembership",
   "DeleteMembership", "UpdateRepository", "FindWithAccount", "AskProvider", "StoreMetadata", "EnqueueSync",
   "ReadAccounts", "RequireEnabled", "Discover", "ReadTracked", "ValidateCredentials", "CreateAccount",
   "DiscoverOne", "CreateRepository", "IssueState", "RequireAccount", "UpdateAccount", "RemoveAccount"}
SightStatements == {"Ability"} \cup (Seeing \ {"ReadDeliveries"})

AuthenticatorOf(op) ==
  CASE op \in AdminOps -> "AuthenticateAdmin" [] op \in ToolOps -> "AuthenticateToken"
    [] op = "callback" -> "ConsumeState" [] OTHER -> "Authenticate"

\* Every statement of an operation, but for the one that authenticates it.
Statements(op) ==
  CASE op \in {"signIn", "setupStatus"} -> {"SignIn", "ReadSetupStatus"}
    [] op = "setup" -> {"LockSetup", "CountUsers", "CreateAdmin"}
    [] op = "resetPassword" -> {"FindByUsername", "ResetPassword"}
    [] op = "webhook" -> {"FindAccount", "InsertDelivery", "EnqueueWebhook", "CommitDelivery"}
    [] op = "callback" -> {"ExchangeCode", "ValidateCredentials", "CreateAccount"}
    [] op \in AdminOps -> AdminStatements
    [] op \in PersonalOps -> PersonalStatements
    [] op = "listTokens" -> {"ReadTokens"}
    [] op = "createToken" -> {"CreateToken"}
    [] op = "revokeToken" -> {"FindToken", "RevokeToken"}
    [] op = "listDeliveries" -> {"ManagedIds", "ReadDeliveries"}
    [] op = "createChannel" -> {"AssertCanManage", "CreateChannel"}
    [] op = "updateChannel" -> {"FindChannel", "AssertCanManage", "UpdateChannel"}
    [] op = "deleteChannel" -> {"FindChannel", "AssertCanManage", "DeleteChannel"}
    [] op = "createRule" -> {"AssertCanManage", "CheckChannels", "CreateRule"}
    [] op = "updateRule" -> {"FindRule", "AssertCanManage", "CheckChannels", "UpdateRule"}
    [] op = "deleteRule" -> {"FindRule", "AssertCanManage", "DeleteRule"}
    [] op \in ToolOps -> {"TouchToken"} \cup SightStatements
    [] OTHER -> SightStatements

\* Statement b comes only after one that has looked at what b relies on; a row is created last.
MayFollow(a, b) ==
  /\ a \notin Closing /\ b \notin Finding
  /\ b \in Seeing => a \in Seeing \cup Sighting
  /\ b = "AssertCanManage" => a \in Finding
  /\ b \in {"CheckChannels", "CreateChannel", "UpdateChannel", "DeleteChannel", "DeleteRule"} => a = "AssertCanManage"
  /\ b \in {"CreateRule", "UpdateRule"} => a = "CheckChannels"
  /\ b = "RevokeToken" => a = "FindToken"
  /\ b = "EnqueueWebhook" => a = "InsertDelivery"
  /\ b = "CommitDelivery" => a = "EnqueueWebhook"
Late == Seeing \cup Editing \cup {"CheckChannels", "RevokeToken", "EnqueueWebhook", "CommitDelivery"}

Follows(s) == \A i \in 1..(Len(s) - 1) : MayFollow(s[i], s[i + 1])

\* What a handler does after the authentication; a route.
IsBody(op, t) ==
  /\ t \in Seq(Statements(op)) /\ Follows(t)
  /\ t # <<>> => Head(t) \notin Late /\ (op \in DOMAIN Configured => Head(t) \in Finding)
  /\ op = "listTokens" => t # <<>>
IsRoute(op, s) ==
  IF op \in AnonymousOps THEN s # <<>> /\ IsBody(op, s)
  ELSE s = <<AuthenticatorOf(op)>> \o Tail(s) /\ IsBody(op, Tail(s))

LEMMA ToolsAre ==
  ToolOps = {"list_repositories", "get_repository", "list_workflow_runs", "list_needs_attention",
             "list_awaiting_approval", "get_dashboard_summary", "get_workflow_trend"}
BY DEF ToolOps, McpRoutes

LEMMA StatementsAre ==
  /\ \A op \in AdminOps : Statements(op) = AdminStatements /\ AuthenticatorOf(op) = "AuthenticateAdmin"
  /\ \A op \in ToolOps : Statements(op) = {"TouchToken"} \cup SightStatements /\ AuthenticatorOf(op) = "AuthenticateToken"
  /\ \A op \in PersonalOps : Statements(op) = PersonalStatements /\ AuthenticatorOf(op) = "Authenticate"
  /\ \A op \in SightOps : Statements(op) = SightStatements /\ AuthenticatorOf(op) = "Authenticate"
  /\ \A op \in {"listTokens", "createToken", "revokeToken", "listDeliveries", "createChannel", "createRule"}
               \cup DOMAIN Configured : AuthenticatorOf(op) = "Authenticate"
  /\ \A op \in AdminOps \cup ToolOps \cup PersonalOps \cup SightOps \cup DOMAIN Configured
               \cup {"callback", "listTokens", "createToken", "revokeToken", "listDeliveries", "createChannel", "createRule"} :
       op \notin AnonymousOps
  /\ AuthenticatorOf("callback") = "ConsumeState"
<1> USE ToolsAre DEF Statements, AuthenticatorOf, AnonymousOps, AdminOps, PersonalOps
<1>1. \A op \in AdminOps : op \notin AnonymousOps /\ Statements(op) = AdminStatements /\ AuthenticatorOf(op) = "AuthenticateAdmin"
  OBVIOUS
<1>2. \A op \in ToolOps :
        op \notin AnonymousOps /\ Statements(op) = {"TouchToken"} \cup SightStatements /\ AuthenticatorOf(op) = "AuthenticateToken"
  OBVIOUS
<1>3. \A op \in PersonalOps : op \notin AnonymousOps /\ Statements(op) = PersonalStatements /\ AuthenticatorOf(op) = "Authenticate"
  OBVIOUS
<1>4. \A op \in SightOps : op \notin AnonymousOps /\ Statements(op) = SightStatements /\ AuthenticatorOf(op) = "Authenticate"
  BY DEF SightOps
<1>5. DOMAIN Configured = {"updateChannel", "deleteChannel", "updateRule", "deleteRule"}
  BY DEF Configured
<1>6. \A op \in {"listTokens", "createToken", "revokeToken", "listDeliveries", "createChannel", "createRule"} \cup DOMAIN Configured :
        op \notin AnonymousOps /\ AuthenticatorOf(op) = "Authenticate"
  BY <1>5
<1>7. "callback" \notin AnonymousOps /\ AuthenticatorOf("callback") = "ConsumeState"
  OBVIOUS
<1> QED  BY <1>1, <1>2, <1>3, <1>4, <1>6, <1>7

LEMMA OwnStatementsAre ==
  /\ Statements("signIn") = {"SignIn", "ReadSetupStatus"} /\ Statements("setupStatus") = {"SignIn", "ReadSetupStatus"}
  /\ Statements("setup") = {"LockSetup", "CountUsers", "CreateAdmin"}
  /\ Statements("resetPassword") = {"FindByUsername", "ResetPassword"}
  /\ Statements("webhook") = {"FindAccount", "InsertDelivery", "EnqueueWebhook", "CommitDelivery"}
  /\ Statements("callback") = {"ExchangeCode", "ValidateCredentials", "CreateAccount"}
  /\ Statements("listTokens") = {"ReadTokens"} /\ Statements("createToken") = {"CreateToken"}
  /\ Statements("revokeToken") = {"FindToken", "RevokeToken"}
  /\ Statements("listDeliveries") = {"ManagedIds", "ReadDeliveries"}
  /\ Statements("createChannel") = {"AssertCanManage", "CreateChannel"}
  /\ Statements("updateChannel") = {"FindChannel", "AssertCanManage", "UpdateChannel"}
  /\ Statements("deleteChannel") = {"FindChannel", "AssertCanManage", "DeleteChannel"}
  /\ Statements("createRule") = {"AssertCanManage", "CheckChannels", "CreateRule"}
  /\ Statements("updateRule") = {"FindRule", "AssertCanManage", "CheckChannels", "UpdateRule"}
  /\ Statements("deleteRule") = {"FindRule", "AssertCanManage", "DeleteRule"}
<1> USE ToolsAre DEF Statements, AnonymousOps, AdminOps, PersonalOps
<1>1. /\ Statements("signIn") = {"SignIn", "ReadSetupStatus"} /\ Statements("setupStatus") = {"SignIn", "ReadSetupStatus"}
      /\ Statements("setup") = {"LockSetup", "CountUsers", "CreateAdmin"}
      /\ Statements("resetPassword") = {"FindByUsername", "ResetPassword"}
      /\ Statements("webhook") = {"FindAccount", "InsertDelivery", "EnqueueWebhook", "CommitDelivery"}
      /\ Statements("callback") = {"ExchangeCode", "ValidateCredentials", "CreateAccount"}
  OBVIOUS
<1>2. /\ Statements("listTokens") = {"ReadTokens"} /\ Statements("createToken") = {"CreateToken"}
      /\ Statements("revokeToken") = {"FindToken", "RevokeToken"}
      /\ Statements("listDeliveries") = {"ManagedIds", "ReadDeliveries"}
      /\ Statements("createChannel") = {"AssertCanManage", "CreateChannel"}
  OBVIOUS
<1>3. /\ Statements("updateChannel") = {"FindChannel", "AssertCanManage", "UpdateChannel"}
      /\ Statements("deleteChannel") = {"FindChannel", "AssertCanManage", "DeleteChannel"}
      /\ Statements("createRule") = {"AssertCanManage", "CheckChannels", "CreateRule"}
      /\ Statements("updateRule") = {"FindRule", "AssertCanManage", "CheckChannels", "UpdateRule"}
      /\ Statements("deleteRule") = {"FindRule", "AssertCanManage", "DeleteRule"}
  OBVIOUS
<1> QED  BY <1>1, <1>2, <1>3

LEMMA PrefixedIs ==
  ASSUME NEW a, NEW S, NEW t \in Seq(S)
  PROVE  LET s == <<a>> \o t
         IN /\ s \in Seq({a} \cup S) /\ s # <<>> /\ Head(s) = a /\ Tail(s) = t /\ Len(s) = 1 + Len(t)
            /\ s[1] = a /\ \A i \in 1..Len(t) : s[i + 1] = t[i]
<1> DEFINE s == <<a>> \o t
<1>1. s \in Seq({a} \cup S) /\ Len(s) = 1 + Len(t) /\ s # <<>>
  OBVIOUS
<1>2. s[1] = a /\ \A i \in 1..Len(t) : s[i + 1] = t[i]
  OBVIOUS
<1>3. Head(s) = a
  BY <1>2
<1>4. Tail(s) = t
  <2>1. Tail(s) \in Seq({a} \cup S) /\ Len(Tail(s)) = Len(t) /\ t \in Seq({a} \cup S)
    BY <1>1
  <2>2. \A i \in 1..Len(Tail(s)) : Tail(s)[i] = t[i]
    BY <1>1, <1>2, <2>1
  <2> HIDE DEF s
  <2> QED  BY <2>1, <2>2, SeqEqual
<1> QED  BY <1>1, <1>2, <1>3, <1>4

\* A statement before a sequence.
LEMMA PrefixFollows ==
  ASSUME NEW a, NEW S, NEW t \in Seq(S), Follows(t), t # <<>> => MayFollow(a, Head(t))
  PROVE  Follows(<<a>> \o t)
<1> DEFINE s == <<a>> \o t
<1>1. Len(s) = 1 + Len(t) /\ s[1] = a /\ \A i \in 1..Len(t) : s[i + 1] = t[i]
  BY PrefixedIs
<1> HIDE DEF s
<1>2. ASSUME NEW i \in 1..(Len(s) - 1)
      PROVE  MayFollow(s[i], s[i + 1])
  <2>1. CASE i = 1
    <3>1. t # <<>> /\ Head(t) = t[1] /\ s[2] = t[1]
      BY <1>1, <1>2, <2>1
    <3> QED  BY <1>1, <2>1, <3>1
  <2>2. CASE i # 1
    <3>1. i - 1 \in 1..(Len(t) - 1) /\ s[i] = t[i - 1] /\ s[i + 1] = t[i]
      BY <1>1, <1>2, <2>2
    <3>2. MayFollow(t[i - 1], t[(i - 1) + 1]) /\ (i - 1) + 1 = i
      BY <1>2, <3>1 DEF Follows
    <3> QED  BY <3>1, <3>2
  <2> QED  BY <2>1, <2>2
<1>3. Follows(s)
  BY <1>2 DEF Follows
<1> QED  BY <1>3 DEF s

\* What is left of a sequence after its first statement.
LEMMA TailFollows ==
  ASSUME NEW S, NEW s \in Seq(S), s # <<>>, Follows(s)
  PROVE  /\ Head(s) \in S /\ Tail(s) \in Seq(S) /\ Follows(Tail(s))
         /\ Tail(s) # <<>> => MayFollow(Head(s), Head(Tail(s)))
<1> DEFINE t == Tail(s)
<1>1. Head(s) = s[1] /\ Len(s) >= 1 /\ Len(t) = Len(s) - 1 /\ t \in Seq(S) /\ Head(s) \in S
  OBVIOUS
<1>2. \A i \in 1..(Len(s) - 1) : t[i] = s[i + 1]
  OBVIOUS
<1> HIDE DEF t
<1>3. t # <<>> => Len(t) >= 1 /\ Head(t) = t[1]
  BY <1>1
<1>4. t # <<>> => MayFollow(Head(s), Head(t))
  <2> SUFFICES ASSUME t # <<>>
               PROVE  MayFollow(Head(s), Head(t))
    OBVIOUS
  <2>1. 1 \in 1..(Len(s) - 1) /\ Head(s) = s[1] /\ Head(t) = s[1 + 1]
    BY <1>1, <1>2, <1>3
  <2> QED  BY <2>1 DEF Follows
<1>5. ASSUME NEW i \in 1..(Len(t) - 1)
      PROVE  MayFollow(t[i], t[i + 1])
  <2>1. Len(t) = Len(s) - 1 /\ Len(s) \in Nat
    BY <1>1
  <2>2. i \in Int /\ i >= 1 /\ i <= Len(t) - 1
    BY <1>5, <2>1
  <2>3. i \in 1..(Len(s) - 1) /\ i + 1 \in 1..(Len(s) - 1)
    BY <2>1, <2>2
  <2>4. t[i] = s[i + 1] /\ t[i + 1] = s[(i + 1) + 1]
    BY <1>2, <2>3
  <2> QED  BY <2>3, <2>4 DEF Follows
<1>6. Follows(t)
  BY <1>5 DEF Follows
<1> QED  BY <1>1, <1>4, <1>6 DEF t

\* A body none of whose statements relies on another one.
LEMMA PlainBody ==
  ASSUME NEW op, op \notin DOMAIN Configured, NEW t \in Seq(Statements(op)), op = "listTokens" => t # <<>>,
         Statements(op) \cap (Late \cup Finding \cup Closing \cup {"AssertCanManage"}) = {}
  PROVE  IsBody(op, t)
<1> DEFINE S == Statements(op)
<1>1. ASSUME NEW i \in 1..(Len(t) - 1)
      PROVE  MayFollow(t[i], t[i + 1])
  <2>1. t[i] \in S /\ t[i + 1] \in S
    BY <1>1
  <2> QED  BY <2>1 DEF MayFollow, Late, Editing
<1>2. t # <<>> => Head(t) \in S
  OBVIOUS
<1> QED  BY <1>1, <1>2 DEF IsBody, Follows

\* A body that begins with the ability; a tool notes the use of its token before.
LEMMA SightBody ==
  ASSUME NEW op \in SightOps \cup ToolOps, NEW x \in Seq(Seeing \ {"ReadDeliveries"})
  PROVE  /\ op \in SightOps => IsBody(op, <<"Ability">> \o x)
         /\ op \in ToolOps => IsBody(op, <<"TouchToken">> \o (<<"Ability">> \o x))
<1> DEFINE t == <<"Ability">> \o x
           u == <<"TouchToken">> \o t
<1>1. t \in Seq(SightStatements) /\ t # <<>> /\ Head(t) = "Ability"
  BY PrefixedIs DEF SightStatements
<1>2. Follows(x)
  <2>1. ASSUME NEW i \in 1..(Len(x) - 1)
        PROVE  MayFollow(x[i], x[i + 1])
    <3>1. x[i] \in Seeing /\ x[i + 1] \in Seeing
      BY <2>1
    <3> QED  BY <3>1 DEF MayFollow, Seeing, Finding, Closing
  <2> QED  BY <2>1 DEF Follows
<1>3. Follows(t)
  <2>1. x # <<>> => Head(x) \in Seeing
    OBVIOUS
  <2>2. \A b \in Seeing : MayFollow("Ability", b)
    BY DEF MayFollow, Seeing, Finding, Closing, Sighting
  <2> QED  BY <1>2, <2>1, <2>2, PrefixFollows
<1> HIDE DEF t
<1>4. u \in Seq({"TouchToken"} \cup SightStatements) /\ u # <<>> /\ Head(u) = "TouchToken"
  BY <1>1, PrefixedIs
<1>5. Follows(u)
  <2>1. MayFollow("TouchToken", "Ability")
    BY DEF MayFollow, Seeing, Finding, Closing
  <2> QED  BY <1>1, <1>3, <2>1, PrefixFollows
<1> HIDE DEF u
<1>6. /\ op \notin DOMAIN Configured
      /\ "Ability" \notin Late /\ "TouchToken" \notin Late
  BY ToolsAre DEF Configured, SightOps, Late, Seeing, Editing
<1> USE DEF SightOps
<1>7. op \in SightOps => IsBody(op, t)
  BY <1>1, <1>3, <1>6, StatementsAre DEF IsBody
<1>8. op \in ToolOps => IsBody(op, u)
  BY <1>4, <1>5, <1>6, StatementsAre DEF IsBody
<1> QED  BY <1>7, <1>8 DEF t, u

\* Bodies of one to four statements.
LEMMA ShortBody ==
  ASSUME NEW op, NEW t \in Seq(Statements(op)), Len(t) \in 1..4,
         Len(t) > 1 => MayFollow(t[1], t[2]), Len(t) > 2 => MayFollow(t[2], t[3]), Len(t) > 3 => MayFollow(t[3], t[4]),
         t[1] \notin Late, op \in DOMAIN Configured => t[1] \in Finding
  PROVE  IsBody(op, t)
<1>1. \A i \in 1..(Len(t) - 1) : i = 1 \/ i = 2 \/ i = 3
  <2> DEFINE n == Len(t)
  <2>1. n \in 1..4
    OBVIOUS
  <2> HIDE DEF n
  <2>2. \A i \in 1..(n - 1) : i = 1 \/ i = 2 \/ i = 3
    BY <2>1
  <2> QED  BY <2>2 DEF n
<1>2. Follows(t)
  <2> SUFFICES ASSUME NEW i \in 1..(Len(t) - 1)
               PROVE  MayFollow(t[i], t[i + 1])
    BY DEF Follows
  <2>1. CASE i = 1
    BY <2>1
  <2>2. CASE i = 2
    BY <2>2
  <2>3. CASE i = 3
    BY <2>3
  <2> QED  BY <1>1, <2>1, <2>2, <2>3
<1>3. t # <<>> => Head(t) = t[1]
  <2> DEFINE S == Statements(op)
  <2>1. t \in Seq(S)
    OBVIOUS
  <2> HIDE DEF S
  <2> QED  BY <2>1
<1> QED  BY <1>2, <1>3 DEF IsBody

LEMMA AuthenticatedRoute ==
  ASSUME NEW op, op \notin AnonymousOps, NEW t, IsBody(op, t)
  PROVE  IsRoute(op, <<AuthenticatorOf(op)>> \o t)
<1>1. Tail(<<AuthenticatorOf(op)>> \o t) = t
  BY PrefixedIs DEF IsBody
<1> QED  BY <1>1 DEF IsRoute

AreRoutes(c) == \A op \in DOMAIN c : \A s \in c[op] : IsRoute(op, s)

LEMMA AdminRoute ==
  ASSUME NEW op \in AdminOps, NEW t \in Seq(AdminStatements)
  PROVE  \A s \in AdminOnly(t) : IsRoute(op, s)
<1>1. /\ op \notin DOMAIN Configured /\ op # "listTokens"
      /\ AdminStatements \cap (Late \cup Finding \cup Closing \cup {"AssertCanManage"}) = {}
  BY DEF AdminOps, Configured, AdminStatements, Late, Seeing, Editing, Finding, Closing
<1>2. IsBody(op, t)
  BY <1>1, PlainBody, StatementsAre
<1>3. op \notin AnonymousOps /\ AuthenticatorOf(op) = "AuthenticateAdmin"
  BY StatementsAre
<1> QED  BY <1>2, <1>3, AuthenticatedRoute DEF AdminOnly

LEMMA PersonalRoute ==
  ASSUME NEW op \in PersonalOps, NEW t \in Seq(PersonalStatements)
  PROVE  \A s \in Guarded(t) : IsRoute(op, s)
<1>1. /\ op \notin DOMAIN Configured /\ op # "listTokens"
      /\ PersonalStatements \cap (Late \cup Finding \cup Closing \cup {"AssertCanManage"}) = {}
  BY DEF PersonalOps, Configured, PersonalStatements, Late, Seeing, Editing, Finding, Closing
<1>2. IsBody(op, t)
  BY <1>1, PlainBody, StatementsAre
<1>3. op \notin AnonymousOps /\ AuthenticatorOf(op) = "Authenticate"
  BY StatementsAre
<1> QED  BY <1>2, <1>3, AuthenticatedRoute DEF Guarded

LEMMA GuardedRoute ==
  ASSUME NEW op, op \notin AnonymousOps, AuthenticatorOf(op) = "Authenticate", NEW t, IsBody(op, t)
  PROVE  \A s \in Guarded(t) : IsRoute(op, s)
BY AuthenticatedRoute DEF Guarded

\* Sequences that begin with two or three given statements.
LEMMA LongPrefix ==
  ASSUME NEW a, NEW b, NEW c, NEW S, NEW x \in Seq(S)
  PROVE  /\ <<a, b>> \o x = <<a>> \o (<<b>> \o x)
         /\ <<a, b, c>> \o x = <<a>> \o (<<b>> \o (<<c>> \o x))
<1> DEFINE T == {a, b, c} \cup S
<1>1. x \in Seq(T) /\ <<a>> \in Seq(T) /\ <<b>> \in Seq(T) /\ <<c>> \in Seq(T) /\ <<b, c>> \in Seq(T)
  OBVIOUS
<1>2. <<a, b>> = <<a>> \o <<b>> /\ <<b, c>> = <<b>> \o <<c>>
  BY PairConcat
<1>3. <<a, b, c>> = <<a>> \o <<b, c>>
  <2> DEFINE s == <<a>> \o <<b, c>>
             t == <<a, b, c>>
  <2>1. s \in Seq(T) /\ t \in Seq(T) /\ Len(s) = Len(t)
    OBVIOUS
  <2>2. \A i \in 1..Len(s) : s[i] = t[i]
    OBVIOUS
  <2>3. s = t
    <3> HIDE DEF s, t
    <3> QED  BY <2>1, <2>2, SeqEqual
  <2> QED  BY <2>3
<1> HIDE DEF T
<1>4. (<<a>> \o <<b>>) \o x = <<a>> \o (<<b>> \o x)
  BY <1>1, ConcatAssociative
<1>5. (<<a>> \o <<b, c>>) \o x = <<a>> \o (<<b, c>> \o x)
  BY <1>1, ConcatAssociative
<1>6. (<<b>> \o <<c>>) \o x = <<b>> \o (<<c>> \o x)
  BY <1>1, ConcatAssociative
<1> QED  BY <1>2, <1>3, <1>4, <1>5, <1>6

LEMMA SightRoute ==
  ASSUME NEW op \in SightOps, NEW tails \in SUBSET Seq(Seeing \ {"ReadDeliveries"})
  PROVE  \A s \in Visible(tails) : IsRoute(op, s)
<1> SUFFICES ASSUME NEW x \in tails
             PROVE  IsRoute(op, <<"Authenticate", "Ability">> \o x)
  BY DEF Visible
<1>1. <<"Authenticate", "Ability">> \o x = <<"Authenticate">> \o (<<"Ability">> \o x)
  BY LongPrefix
<1>2. op \notin AnonymousOps /\ AuthenticatorOf(op) = "Authenticate"
  BY StatementsAre
<1>3. IsBody(op, <<"Ability">> \o x)
  BY SightBody
<1> QED  BY <1>1, <1>2, <1>3, AuthenticatedRoute

LEMMA ToolRoute ==
  ASSUME NEW op \in ToolOps, NEW tails \in SUBSET Seq(Seeing \ {"ReadDeliveries"})
  PROVE  \A s \in Mcp(tails) : IsRoute(op, s)
<1> SUFFICES ASSUME NEW x \in tails
             PROVE  IsRoute(op, <<"AuthenticateToken", "TouchToken", "Ability">> \o x)
  BY DEF Mcp
<1>1. <<"AuthenticateToken", "TouchToken", "Ability">> \o x
        = <<"AuthenticateToken">> \o (<<"TouchToken">> \o (<<"Ability">> \o x))
  BY LongPrefix
<1>2. op \notin AnonymousOps /\ AuthenticatorOf(op) = "AuthenticateToken"
  BY StatementsAre
<1>3. IsBody(op, <<"TouchToken">> \o (<<"Ability">> \o x))
  BY SightBody
<1> QED  BY <1>1, <1>2, <1>3, AuthenticatedRoute

LEMMA AuthAreRoutes == AreRoutes(AuthRoutes) /\ AreRoutes(ResetRoutes) /\ AreRoutes(WebhookRoutes)
<1> USE DEF Late, Seeing, Editing, Finding, Closing
<1>1. DOMAIN Configured = {"updateChannel", "deleteChannel", "updateRule", "deleteRule"}
  BY DEF Configured
<1>2. /\ IsRoute("signIn", <<"SignIn">>) /\ IsRoute("setupStatus", <<"ReadSetupStatus">>)
      /\ IsRoute("setup", <<"LockSetup", "CountUsers", "CreateAdmin">>)
      /\ IsRoute("resetPassword", <<"FindByUsername", "ResetPassword">>)
  <2>1. /\ <<"SignIn">> \in Seq(Statements("signIn")) /\ <<"ReadSetupStatus">> \in Seq(Statements("setupStatus"))
        /\ <<"LockSetup", "CountUsers", "CreateAdmin">> \in Seq(Statements("setup"))
        /\ <<"FindByUsername", "ResetPassword">> \in Seq(Statements("resetPassword"))
    BY OwnStatementsAre
  <2>3. \A op \in {"signIn", "setupStatus", "setup", "resetPassword"} :
          /\ Statements(op) \cap (Late \cup Finding \cup Closing \cup {"AssertCanManage"}) = {}
          /\ op \notin DOMAIN Configured
    BY <1>1, OwnStatementsAre
  <2>4. /\ IsBody("signIn", <<"SignIn">>) /\ IsBody("setupStatus", <<"ReadSetupStatus">>)
        /\ IsBody("setup", <<"LockSetup", "CountUsers", "CreateAdmin">>)
        /\ IsBody("resetPassword", <<"FindByUsername", "ResetPassword">>)
    <3> HIDE DEF Late, Finding, Closing
    <3> QED  BY <2>1, <2>3, PlainBody
  <2> QED  BY <2>4 DEF IsRoute, AnonymousOps
<1>3. AreRoutes(ResetRoutes)
  <2>1. \A op \in DOMAIN ResetRoutes : op = "resetPassword" /\ ResetRoutes[op] = {<<"FindByUsername", "ResetPassword">>}
    BY DEF ResetRoutes
  <2> QED  BY <1>2, <2>1 DEF AreRoutes
<1>4. AreRoutes(WebhookRoutes)
  <2> DEFINE t == <<"FindAccount", "InsertDelivery", "EnqueueWebhook", "CommitDelivery">>
  <2>1. \A op \in DOMAIN WebhookRoutes : op = "webhook" /\ WebhookRoutes[op] = {t}
    BY DEF WebhookRoutes
  <2>2. /\ t \in Seq(Statements("webhook")) /\ Len(t) = 4
        /\ t[1] = "FindAccount" /\ t[2] = "InsertDelivery" /\ t[3] = "EnqueueWebhook" /\ t[4] = "CommitDelivery"
    BY OwnStatementsAre
  <2>3. t # <<>>
    OBVIOUS
  <2> HIDE DEF t
  <2>4. IsBody("webhook", t)
    BY <1>1, <2>2, ShortBody DEF MayFollow
  <2>5. IsRoute("webhook", t)
    BY <2>4, <2>3 DEF IsRoute, AnonymousOps
  <2> QED  BY <2>1, <2>5 DEF AreRoutes
<1> DEFINE T == {<<"ReadMe">>, <<"FindForProfile", "UpdateProfile">>, <<"SaveAvatar">>, <<"RemoveAvatar">>, <<>>,
                 <<"FindForPassword", "UpdatePassword">>}
<1>6. T \subseteq Seq(PersonalStatements)
  BY DEF PersonalStatements
<1>7. \A t \in T : \A op \in PersonalOps : \A s \in Guarded(t) : IsRoute(op, s)
  BY <1>6, PersonalRoute
<1>8. AreRoutes(AuthRoutes)
  BY <1>2, <1>7 DEF AreRoutes, AuthRoutes, PersonalOps
<1> QED  BY <1>3, <1>4, <1>8

LEMMA AdminAreRoutes == AreRoutes(UsersRoutes) /\ AreRoutes(SettingsRoutes) /\ AreRoutes(RefreshRoutes)
<1> DEFINE T == {<<"ReadUsers">>, <<"CreateUser">>, <<"RemoveUser">>, <<"UpsertSettings">>,
                 <<"FindWithAccount", "AskProvider", "StoreMetadata">>, <<"EnqueueSync">>}
<1>1. T \subseteq Seq(AdminStatements)
  BY DEF AdminStatements
<1>2. \A t \in T : \A op \in AdminOps : \A s \in AdminOnly(t) : IsRoute(op, s)
  BY <1>1, AdminRoute
<1>3. <<"ReadAvatar">> \in Seq(PersonalStatements) /\ <<"ReadSettings">> \in Seq(PersonalStatements)
  BY DEF PersonalStatements
<1>4. \A t \in {<<"ReadAvatar">>, <<"ReadSettings">>} : \A op \in PersonalOps : \A s \in Guarded(t) : IsRoute(op, s)
  BY <1>3, PersonalRoute
<1>5. AreRoutes(UsersRoutes)
  BY <1>2, <1>4 DEF AreRoutes, UsersRoutes, PersonalOps, AdminOps
<1>6. AreRoutes(SettingsRoutes)
  BY <1>2, <1>4 DEF AreRoutes, SettingsRoutes, PersonalOps, AdminOps
<1>7. AreRoutes(RefreshRoutes)
  BY <1>2 DEF AreRoutes, RefreshRoutes, AdminOps
<1> QED  BY <1>5, <1>6, <1>7

LEMMA RepositoriesAreRoutes == AreRoutes(RepositoriesRoutes)
<1> DEFINE T == {<<"RequireRepository", "ReadFilters">>, <<"RequireRepository", "CreateFilter">>,
                 <<"FindFilter", "DeleteFilter">>, <<"RequireRepository", "ReadMemberships">>,
                 <<"RequireRepository", "FindMember", "UpsertMembership">>,
                 <<"FindMembership", "DeleteMembership">>, <<"UpdateRepository">>}
           S == Seeing \ {"ReadDeliveries"}
<1>1. T \subseteq Seq(AdminStatements)
  BY DEF AdminStatements
<1>2. \A t \in T : \A op \in AdminOps : \A s \in AdminOnly(t) : IsRoute(op, s)
  BY <1>1, AdminRoute
<1>3. {<<"ReadRepositories">>} \in SUBSET Seq(S) /\ {<<"ReadRepository">>} \in SUBSET Seq(S)
  BY DEF Seeing
<1>4. \A t \in {<<"ReadRepositories">>, <<"ReadRepository">>} : \A op \in SightOps : \A s \in Visible({t}) : IsRoute(op, s)
  BY <1>3, SightRoute
<1> QED  BY <1>2, <1>4 DEF AreRoutes, RepositoriesRoutes, AdminOps, SightOps

LEMMA AccountsAreRoutes == AreRoutes(AccountsRoutes) /\ AreRoutes(CallbackRoutes)
<1> DEFINE T == {<<"ReadAccounts">>, <<"ValidateCredentials", "CreateAccount">>,
                 <<"RequireEnabled", "DiscoverOne", "CreateRepository", "EnqueueSync">>, <<"IssueState">>,
                 <<"RequireAccount", "UpdateAccount">>, <<"RequireAccount", "RemoveAccount">>}
<1>1. T \subseteq Seq(AdminStatements)
  BY DEF AdminStatements
<1>2. \A t \in T : \A op \in AdminOps : \A s \in AdminOnly(t) : IsRoute(op, s)
  BY <1>1, AdminRoute
<1>3. ASSUME NEW x \in Together({"Discover", "ReadTracked"})
      PROVE  IsRoute("listAvailable", <<"AuthenticateAdmin", "RequireEnabled">> \o x)
  <2>1. x \in Seq(AdminStatements)
    <3>1. {"Discover", "ReadTracked"} \in SUBSET AdminStatements
      BY DEF AdminStatements
    <3> QED  BY <3>1, FewAreFinite, TogetherWithin
  <2>2. <<"AuthenticateAdmin", "RequireEnabled">> \o x = <<"AuthenticateAdmin">> \o (<<"RequireEnabled">> \o x)
    BY LongPrefix, <2>1
  <2>3. <<"RequireEnabled">> \o x \in Seq(AdminStatements)
    BY <2>1, PrefixedIs DEF AdminStatements
  <2>4. "listAvailable" \in AdminOps
    BY DEF AdminOps
  <2> QED  BY <2>2, <2>3, <2>4, AdminRoute DEF AdminOnly
<1>4. AreRoutes(AccountsRoutes)
  <2> SUFFICES ASSUME NEW op \in DOMAIN AccountsRoutes, NEW s \in AccountsRoutes[op]
               PROVE  IsRoute(op, s)
    BY DEF AreRoutes
  <2>1. CASE op = "listAvailable"
    BY <1>3, <2>1 DEF AccountsRoutes
  <2>2. CASE op # "listAvailable"
    BY <1>2, <2>2 DEF AccountsRoutes, AdminOps
  <2> QED  BY <2>1, <2>2
<1>5. AreRoutes(CallbackRoutes)
  <2> DEFINE t == <<"ExchangeCode", "ValidateCredentials", "CreateAccount">>
             s == <<"ConsumeState", "ExchangeCode", "ValidateCredentials", "CreateAccount">>
  <2>1. t \in Seq(Statements("callback"))
    BY OwnStatementsAre
  <2>2. IsBody("callback", t)
    BY <2>1, PlainBody, OwnStatementsAre DEF Configured, Late, Seeing, Editing, Finding, Closing
  <2>3. s = <<"ConsumeState">> \o t
    <3> DEFINE u == <<"ConsumeState">> \o t
               S == {"ConsumeState", "ExchangeCode", "ValidateCredentials", "CreateAccount"}
    <3>1. s \in Seq(S) /\ u \in Seq(S) /\ Len(s) = Len(u)
      OBVIOUS
    <3>2. \A i \in 1..Len(s) : s[i] = u[i]
      OBVIOUS
    <3>3. s = u
      <4> HIDE DEF s, u
      <4> QED  BY <3>1, <3>2, SeqEqual
    <3> QED  BY <3>3
  <2> HIDE DEF s, t
  <2>4. IsRoute("callback", s)
    BY <2>2, <2>3, AuthenticatedRoute, StatementsAre
  <2>5. \A op \in DOMAIN CallbackRoutes : op = "callback" /\ CallbackRoutes[op] = {s}
    BY DEF CallbackRoutes, s
  <2> QED  BY <2>4, <2>5 DEF AreRoutes
<1> QED  BY <1>4, <1>5

LEMMA TokensAreRoutes == AreRoutes(McpTokensRoutes)
<1> USE DEF Late, Seeing, Editing, Finding, Closing, Configured
<1>1. IsBody("listTokens", <<"ReadTokens">>)
  <2>1. <<"ReadTokens">> \in Seq(Statements("listTokens")) /\ Statements("listTokens") = {"ReadTokens"}
    BY OwnStatementsAre
  <2> QED  BY <2>1, PlainBody
<1>2. IsBody("createToken", <<"CreateToken">>)
  <2> DEFINE t == <<"CreateToken">>
  <2>1. t \in Seq(Statements("createToken")) /\ Len(t) = 1 /\ t[1] = "CreateToken"
    BY OwnStatementsAre
  <2> HIDE DEF t
  <2>2. IsBody("createToken", t)
    BY <2>1, ShortBody
  <2> QED  BY <2>2 DEF t
<1>3. IsBody("revokeToken", <<"FindToken", "RevokeToken">>)
  <2> DEFINE t == <<"FindToken", "RevokeToken">>
  <2>1. t \in Seq(Statements("revokeToken")) /\ Len(t) = 2 /\ t[1] = "FindToken" /\ t[2] = "RevokeToken"
    BY OwnStatementsAre
  <2> HIDE DEF t
  <2>2. IsBody("revokeToken", t)
    BY <2>1, ShortBody DEF MayFollow
  <2> QED  BY <2>2 DEF t
<1> QED  BY <1>1, <1>2, <1>3, GuardedRoute, StatementsAre DEF AreRoutes, McpTokensRoutes

LEMMA ChannelsAreRoutes == AreRoutes(ChannelsRoutes)
<1> USE DEF Late, Seeing, Editing, Finding, Closing, Configured
<1> DEFINE S == Seeing \ {"ReadDeliveries"}
<1>1. \A s \in Visible({<<"ReadChannels">>}) : IsRoute("listChannels", s)
  <2>1. {<<"ReadChannels">>} \in SUBSET Seq(S) /\ "listChannels" \in SightOps
    BY DEF SightOps
  <2> QED  BY <2>1, SightRoute
<1>2. IsBody("createChannel", <<"AssertCanManage", "CreateChannel">>)
  <2> DEFINE t == <<"AssertCanManage", "CreateChannel">>
  <2>1. t \in Seq(Statements("createChannel")) /\ Len(t) = 2 /\ t[1] = "AssertCanManage" /\ t[2] = "CreateChannel"
    BY OwnStatementsAre
  <2> HIDE DEF t
  <2>2. IsBody("createChannel", t)
    BY <2>1, ShortBody DEF MayFollow
  <2> QED  BY <2>2 DEF t
<1>3. IsBody("updateChannel", <<"FindChannel", "AssertCanManage", "UpdateChannel">>)
  <2> DEFINE t == <<"FindChannel", "AssertCanManage", "UpdateChannel">>
  <2>1. /\ t \in Seq(Statements("updateChannel")) /\ Len(t) = 3
        /\ t[1] = "FindChannel" /\ t[2] = "AssertCanManage" /\ t[3] = "UpdateChannel"
    BY OwnStatementsAre
  <2> HIDE DEF t
  <2>2. IsBody("updateChannel", t)
    BY <2>1, ShortBody DEF MayFollow
  <2> QED  BY <2>2 DEF t
<1>4. IsBody("deleteChannel", <<"FindChannel", "AssertCanManage", "DeleteChannel">>)
  <2> DEFINE t == <<"FindChannel", "AssertCanManage", "DeleteChannel">>
  <2>1. /\ t \in Seq(Statements("deleteChannel")) /\ Len(t) = 3
        /\ t[1] = "FindChannel" /\ t[2] = "AssertCanManage" /\ t[3] = "DeleteChannel"
    BY OwnStatementsAre
  <2> HIDE DEF t
  <2>2. IsBody("deleteChannel", t)
    BY <2>1, ShortBody DEF MayFollow
  <2> QED  BY <2>2 DEF t
<1>5. ASSUME NEW op \in DOMAIN ChannelsRoutes, NEW s \in ChannelsRoutes[op]
      PROVE  IsRoute(op, s)
  BY <1>1, <1>2, <1>3, <1>4, <1>5, GuardedRoute, StatementsAre DEF ChannelsRoutes
<1> QED  BY <1>5 DEF AreRoutes

LEMMA RulesAreRoutes == AreRoutes(RulesRoutes)
<1> USE DEF Late, Seeing, Editing, Finding, Closing, Configured
<1> DEFINE S == Seeing \ {"ReadDeliveries"}
<1>1. \A s \in Visible({<<"ReadRules">>}) : IsRoute("listRules", s)
  <2>1. {<<"ReadRules">>} \in SUBSET Seq(S) /\ "listRules" \in SightOps
    BY DEF SightOps
  <2> QED  BY <2>1, SightRoute
<1>2. IsBody("createRule", <<"AssertCanManage", "CheckChannels", "CreateRule">>)
  <2> DEFINE t == <<"AssertCanManage", "CheckChannels", "CreateRule">>
  <2>1. /\ t \in Seq(Statements("createRule")) /\ Len(t) = 3
        /\ t[1] = "AssertCanManage" /\ t[2] = "CheckChannels" /\ t[3] = "CreateRule"
    BY OwnStatementsAre
  <2> HIDE DEF t
  <2>2. /\ MayFollow("AssertCanManage", "CheckChannels") /\ MayFollow("CheckChannels", "CreateRule")
        /\ "AssertCanManage" \notin Late
    BY DEF MayFollow
  <2>3. IsBody("createRule", t)
    <3> HIDE DEF Late, Finding
    <3> QED  BY <2>1, <2>2, ShortBody
  <2> QED  BY <2>3 DEF t
<1>3. IsBody("updateRule", <<"FindRule", "AssertCanManage", "CheckChannels", "UpdateRule">>)
  <2> DEFINE t == <<"FindRule", "AssertCanManage", "CheckChannels", "UpdateRule">>
  <2>1. /\ t \in Seq(Statements("updateRule")) /\ Len(t) = 4
        /\ t[1] = "FindRule" /\ t[2] = "AssertCanManage" /\ t[3] = "CheckChannels" /\ t[4] = "UpdateRule"
    BY OwnStatementsAre
  <2> HIDE DEF t
  <2>2. /\ MayFollow("FindRule", "AssertCanManage") /\ MayFollow("AssertCanManage", "CheckChannels")
        /\ MayFollow("CheckChannels", "UpdateRule") /\ "FindRule" \notin Late /\ "FindRule" \in Finding
    BY DEF MayFollow
  <2>3. IsBody("updateRule", t)
    <3> HIDE DEF Late, Finding
    <3> QED  BY <2>1, <2>2, ShortBody
  <2> QED  BY <2>3 DEF t
<1>4. IsBody("deleteRule", <<"FindRule", "AssertCanManage", "DeleteRule">>)
  <2> DEFINE t == <<"FindRule", "AssertCanManage", "DeleteRule">>
  <2>1. /\ t \in Seq(Statements("deleteRule")) /\ Len(t) = 3
        /\ t[1] = "FindRule" /\ t[2] = "AssertCanManage" /\ t[3] = "DeleteRule"
    BY OwnStatementsAre
  <2> HIDE DEF t
  <2>2. IsBody("deleteRule", t)
    BY <2>1, ShortBody DEF MayFollow
  <2> QED  BY <2>2 DEF t
<1>5. ASSUME NEW op \in DOMAIN RulesRoutes, NEW s \in RulesRoutes[op]
      PROVE  IsRoute(op, s)
  BY <1>1, <1>2, <1>3, <1>4, <1>5, GuardedRoute, StatementsAre DEF RulesRoutes
<1> QED  BY <1>5 DEF AreRoutes

LEMMA DeliveriesAreRoutes == AreRoutes(DeliveriesRoutes)
<1> USE DEF Late, Seeing, Editing, Finding, Closing, Configured
<1>1. IsBody("listDeliveries", <<"ManagedIds", "ReadDeliveries">>)
  <2> DEFINE t == <<"ManagedIds", "ReadDeliveries">>
  <2>1. t \in Seq(Statements("listDeliveries")) /\ Len(t) = 2 /\ t[1] = "ManagedIds" /\ t[2] = "ReadDeliveries"
    BY OwnStatementsAre
  <2> HIDE DEF t
  <2>2. IsBody("listDeliveries", t)
    BY <2>1, ShortBody DEF MayFollow, Sighting
  <2> QED  BY <2>2 DEF t
<1>2. \A s \in Guarded(<<"ManagedIds", "ReadDeliveries">>) : IsRoute("listDeliveries", s)
  BY <1>1, GuardedRoute, StatementsAre
<1>3. \A op \in DOMAIN DeliveriesRoutes :
        op = "listDeliveries" /\ DeliveriesRoutes[op] = Guarded(<<"ManagedIds", "ReadDeliveries">>)
  BY DEF DeliveriesRoutes
<1> QED  BY <1>2, <1>3 DEF AreRoutes

LEMMA RunsAreRoutes == AreRoutes(WorkflowRunsRoutes) /\ AreRoutes(DashboardRoutes) /\ AreRoutes(McpRoutes)
<1> DEFINE S == Seeing \ {"ReadDeliveries"}
<1>1. /\ \A op \in SightOps : \A tails \in SUBSET Seq(S) : \A s \in Visible(tails) : IsRoute(op, s)
      /\ \A op \in ToolOps : \A tails \in SUBSET Seq(S) : \A s \in Mcp(tails) : IsRoute(op, s)
  BY SightRoute, ToolRoute
<1>2. /\ SummaryOrders \in SUBSET Seq(S)
      /\ Together({"ReadRepositories", "CountRepositories"}) \in SUBSET Seq(S)
      /\ Together({"ReadRuns", "CountRuns"}) \in SUBSET Seq(S)
  <2> DEFINE A == {"ReadCompleted", "CurrentIds", "CountActive", "SumCurrent", "SumRetained"}
  <2>1. /\ A \in SUBSET S /\ {"ReadRepositories", "CountRepositories"} \in SUBSET S
        /\ {"ReadRuns", "CountRuns"} \in SUBSET S
    BY DEF Seeing
  <2> HIDE DEF S
  <2>2. IsFiniteSet(A) /\ IsFiniteSet({"ReadRepositories", "CountRepositories"}) /\ IsFiniteSet({"ReadRuns", "CountRuns"})
    BY FewAreFinite
  <2>3. SummaryOrders \in SUBSET Together(A)
    BY DEF SummaryOrders
  <2> QED  BY <2>1, <2>2, <2>3, TogetherWithin
<1> DEFINE Of(t) == {t}
<1>3. /\ Of(<<"ReadRuns">>) \in SUBSET Seq(S) /\ Of(<<"NeedsAttentionIds", "ReadByIds">>) \in SUBSET Seq(S)
      /\ Of(<<"CurrentIds", "ReadByIds">>) \in SUBSET Seq(S) /\ Of(<<"ReadLatest">>) \in SUBSET Seq(S)
      /\ Of(<<"ReadHealth">>) \in SUBSET Seq(S) /\ Of(<<"ReadTrend">>) \in SUBSET Seq(S)
      /\ Of(<<"ReadRepository">>) \in SUBSET Seq(S)
  BY DEF Seeing
<1>4. /\ {<<"NeedsAttentionIds", "ReadByIds", "CountAttention">>,
          <<"CountAttention", "NeedsAttentionIds", "ReadByIds">>} \in SUBSET Seq(S)
      /\ {<<"CurrentIds", "ReadByIds", "CountAwaiting">>, <<"CountAwaiting", "CurrentIds", "ReadByIds">>} \in SUBSET Seq(S)
  BY DEF Seeing
<1> HIDE DEF S
<1>5. ASSUME NEW op \in DOMAIN WorkflowRunsRoutes, NEW s \in WorkflowRunsRoutes[op]
      PROVE  IsRoute(op, s)
  <2>1. op \in SightOps
    BY DEF WorkflowRunsRoutes, SightOps
  <2>2. /\ op \in {"queryRuns", "needsAttention"}
        /\ WorkflowRunsRoutes["queryRuns"] = Visible(Of(<<"ReadRuns">>))
        /\ WorkflowRunsRoutes["needsAttention"] = Visible(Of(<<"NeedsAttentionIds", "ReadByIds">>))
    BY DEF WorkflowRunsRoutes
  <2> HIDE DEF Of
  <2> QED  BY <1>1, <1>3, <1>5, <2>1, <2>2
<1>6. ASSUME NEW op \in DOMAIN DashboardRoutes, NEW s \in DashboardRoutes[op]
      PROVE  IsRoute(op, s)
  <2>1. op \in SightOps
    BY DEF DashboardRoutes, SightOps
  <2>2. /\ op \in {"awaitingApproval", "failures", "latestRuns", "summary", "repositoryHealth", "trend"}
        /\ DashboardRoutes["awaitingApproval"] = Visible(Of(<<"CurrentIds", "ReadByIds">>))
        /\ DashboardRoutes["failures"] = Visible(Of(<<"NeedsAttentionIds", "ReadByIds">>))
        /\ DashboardRoutes["latestRuns"] = Visible(Of(<<"ReadLatest">>))
        /\ DashboardRoutes["summary"] = Visible(SummaryOrders)
        /\ DashboardRoutes["repositoryHealth"] = Visible(Of(<<"ReadHealth">>))
        /\ DashboardRoutes["trend"] = Visible(Of(<<"ReadTrend">>))
    BY DEF DashboardRoutes
  <2> HIDE DEF Of
  <2> QED  BY <1>1, <1>2, <1>3, <1>6, <2>1, <2>2
<1>7. ASSUME NEW op \in DOMAIN McpRoutes, NEW s \in McpRoutes[op]
      PROVE  IsRoute(op, s)
  <2>1. op \in ToolOps
    BY DEF ToolOps
  <2> DEFINE attention == {<<"NeedsAttentionIds", "ReadByIds", "CountAttention">>,
                           <<"CountAttention", "NeedsAttentionIds", "ReadByIds">>}
             awaiting == {<<"CurrentIds", "ReadByIds", "CountAwaiting">>,
                          <<"CountAwaiting", "CurrentIds", "ReadByIds">>}
             repositories == Together({"ReadRepositories", "CountRepositories"})
             runs == Together({"ReadRuns", "CountRuns"})
  <2>2. /\ McpRoutes["list_repositories"] = Mcp(repositories)
        /\ McpRoutes["get_repository"] = Mcp(Of(<<"ReadRepository">>))
        /\ McpRoutes["list_workflow_runs"] = Mcp(runs)
        /\ McpRoutes["list_needs_attention"] = Mcp(attention)
        /\ McpRoutes["list_awaiting_approval"] = Mcp(awaiting)
        /\ McpRoutes["get_dashboard_summary"] = Mcp(SummaryOrders)
        /\ McpRoutes["get_workflow_trend"] = Mcp(Of(<<"ReadTrend">>))
    BY DEF McpRoutes
  <2>3. /\ attention \in SUBSET Seq(S) /\ awaiting \in SUBSET Seq(S) /\ repositories \in SUBSET Seq(S)
        /\ runs \in SUBSET Seq(S)
    BY <1>2, <1>4
  <2> HIDE DEF Of, attention, awaiting, repositories, runs
  <2> QED  BY <1>1, <1>2, <1>3, <1>7, <2>1, <2>2, <2>3, ToolsAre
<1> QED  BY <1>5, <1>6, <1>7 DEF AreRoutes

\* What every route of every controller is.
LEMMA RoutesAre == \A op \in DOMAIN Routes : \A s \in Routes[op] : IsRoute(op, s)
<1>1. \A c \in Controllers : AreRoutes(c)
  BY AuthAreRoutes, AdminAreRoutes, RepositoriesAreRoutes, AccountsAreRoutes, TokensAreRoutes, ChannelsAreRoutes,
     RulesAreRoutes, DeliveriesAreRoutes, RunsAreRoutes DEF Controllers
<1> SUFFICES ASSUME NEW op \in DOMAIN Routes, NEW s \in Routes[op]
             PROVE  IsRoute(op, s)
  OBVIOUS
<1> DEFINE c == CHOOSE k \in Controllers : op \in DOMAIN k
<1>2. c \in Controllers /\ op \in DOMAIN c /\ Routes[op] = c[op]
  BY DEF Routes
<1> HIDE DEF c
<1> QED  BY <1>1, <1>2 DEF AreRoutes

-----------------------------------------------------------------------------
(***************************************************************************)
(* The invariant.                                                          *)
(***************************************************************************)
Rest(q) == requests[q].rest
Op(q) == Call(q).op

\* A request may still create a row of a table: the identifier is not taken.
Creators ==
  [users |-> CreatingOps, tokens |-> {"createToken"}, channels |-> {"createChannel"}, rules |-> {"createRule"}]
MayCreate(q, t) == Op(q) \in Creators[t] /\ ~Ended(q)
FreshRows ==
  \A t \in DOMAIN Creators : \A q \in DOMAIN requests : MayCreate(q, t) => q \notin DOMAIN db[t]

\* What is fixed of a row has this value as long as the row is there, and no other row gets
\* its identifier.
Stays(t, i, value) ==
  /\ i \in DOMAIN db[t] => db[t][i][Fixed[t]] = value
  /\ \A p \in DOMAIN requests : MayCreate(p, t) => p # i

CallOk(call) ==
  /\ call.op \in DOMAIN Routes
  /\ call.op \in ToolOps => IsMcpToken(call.token)
  /\ call.op \notin AnonymousOps /\ AuthenticatorOf(call.op) \in {"Authenticate", "AuthenticateAdmin"} =>
       IsSession(call.token)
  /\ call.op \in {"createChannel", "createRule"} => "repository" \in DOMAIN call.input

StageOk(q) ==
  /\ IF UserOf(q) = Nobody /\ Op(q) \notin AnonymousOps
     THEN requests[q].reply = None /\ (Ended(q) \/ IsRoute(Op(q), Rest(q)))
     ELSE Rest(q) \in Seq(Statements(Op(q))) /\ Follows(Rest(q))
  /\ Op(q) \in AnonymousOps => UserOf(q) = Nobody

UserOk(q) ==
  /\ Op(q) # "callback" => witness[q].live
  /\ Op(q) \in AdminOps \cup {"callback"} \/ IsAdmin(UserOf(q)) => witness[q].admin
  /\ Stays("users", UserOf(q).id, UserOf(q).role)

\* An ability that was read and is still used.
Within(ability, held) ==
  /\ ability.all => held.admin
  /\ ability.reads \subseteq held.reads /\ ability.manages \subseteq held.manages
SightOk(q) == Head(Rest(q)) \in Seeing => Within(requests[q].ability, witness[q])

Held(q) == IF Op(q) = "listDeliveries" THEN witness[q].manages ELSE witness[q].reads
ReplyOk(q) ==
  /\ witness[q].admin \/ ShownRepositories(requests[q].reply) \subseteq Held(q)
  /\ Op(q) = "listTokens" /\ Succeeded(q) =>
       witness[q].admin \/ \A token \in requests[q].reply.items : token.user = UserOf(q).id

EditOk(q) ==
  /\ Op(q) \in DOMAIN Configured /\ Head(Rest(q)) \notin Finding =>
       Stays(Configured[Op(q)], Input(q).id, Found(q).repository)
  /\ Head(Rest(q)) \in Editing \cup {"CheckChannels"} =>
       witness[q].admin \/ ManagedRepository(q) \in witness[q].manages
  /\ Head(Rest(q)) \in {"CreateRule", "UpdateRule"} /\ "channels" \in DOMAIN Input(q) =>
       \A c \in ToSet(Input(q).channels) : Stays("channels", c, ManagedRepository(q))
  /\ Head(Rest(q)) = "RevokeToken" => witness[q].admin \/ Stays("tokens", Input(q).id, UserOf(q).id)
ToolOk(q) == Op(q) \in ToolOps => Stays("tokens", Call(q).token.mcp, UserOf(q).id)

IntakeOk(q) ==
  /\ Unfinished(q) => Input(q).account \in DOMAIN db.accounts
  /\ At(q, "CommitDelivery") =>
       \A r \in Found(q) : r \in DOMAIN db.repositories /\ db.repositories[r].account = Input(q).account

RequestOk(q) ==
  /\ CallOk(Call(q)) /\ StageOk(q) /\ IntakeOk(q)
  /\ witness[q].manages \subseteq witness[q].reads
  /\ UserOf(q) # Nobody => UserOk(q) /\ ReplyOk(q) /\ ToolOk(q) /\ (~Ended(q) => SightOk(q) /\ EditOk(q))

AccessInv ==
  /\ Tidy(db) /\ FreshRows /\ IsSession(setup.session)
  /\ \A q \in DOMAIN requests : RequestOk(q)

-----------------------------------------------------------------------------
(***************************************************************************)
(* What any step keeps.                                                    *)
(***************************************************************************)
\* The tables stay tidy; rows are created by requests that end with it; and the account of a
\* delivery that is not committed stays.
TablesStep ==
  /\ Tidy(db') /\ Keeps(db, db')
  /\ \A t \in DOMAIN Creators : \A i \in DOMAIN db'[t] \ DOMAIN db[t] :
       /\ i \in DOMAIN requests /\ MayCreate(i, t)
       /\ i \in DOMAIN requests' => requests'[i].rest = <<>>
  /\ \A p \in DOMAIN requests : Unfinished(p) /\ Input(p).account \in DOMAIN db.accounts =>
       Input(p).account \in DOMAIN db'.accounts

\* Requests that are new create no rows.
CreatorsStep ==
  \A p \in DOMAIN requests' : \A t \in DOMAIN Creators : MayCreate(p, t)' => p \in DOMAIN requests /\ MayCreate(p, t)

Grows(p) ==
  /\ witness[p].live => witness'[p].live
  /\ witness[p].admin => witness'[p].admin
  /\ witness[p].reads \subseteq witness'[p].reads /\ witness[p].manages \subseteq witness'[p].manages
  /\ witness'[p].manages \subseteq witness'[p].reads

LEMMA CreatorsAre ==
  /\ DOMAIN Creators = {"users", "tokens", "channels", "rules"} /\ DOMAIN Creators \subseteq DOMAIN Fixed
  /\ Creators["users"] = CreatingOps /\ Creators["tokens"] = {"createToken"}
  /\ Creators["channels"] = {"createChannel"} /\ Creators["rules"] = {"createRule"}
BY FixedAre DEF Creators

LEMMA RightsAre ==
  ASSUME NEW q, NEW u
  PROVE  RightsNow(q, u).manages \subseteq RightsNow(q, u).reads
BY DEF RightsNow, NoRights, CreateForUser

LEMMA WitnessGrows ==
  ASSUME Observe, NEW p \in DOMAIN requests, p \in DOMAIN requests', witness[p].manages \subseteq witness[p].reads
  PROVE  Grows(p)
<1>1. CASE witness'[p] = witness[p]
  BY <1>1 DEF Grows
<1>2. CASE witness'[p] = Joined(witness[p], RightsNow(p, requests'[p].user.id))
  <2> DEFINE b == RightsNow(p, requests'[p].user.id)
  <2>1. b.manages \subseteq b.reads
    BY RightsAre
  <2> HIDE DEF b
  <2>2. /\ witness'[p].live = (witness[p].live \/ b.live) /\ witness'[p].admin = (witness[p].admin \/ b.admin)
        /\ witness'[p].reads = witness[p].reads \cup b.reads /\ witness'[p].manages = witness[p].manages \cup b.manages
    BY <1>2 DEF Joined, b
  <2> QED  BY <2>1, <2>2 DEF Grows
<1> QED  BY <1>1, <1>2 DEF Observe

\* A request that has its user and runs has at least the rights its user has before the step.
LEMMA WitnessHolds ==
  ASSUME Observe, NEW p \in DOMAIN requests, p \in DOMAIN requests', ~Ended(p), requests'[p].user # Nobody
  PROVE  LET b == RightsNow(p, requests'[p].user.id)
         IN /\ b.live => witness'[p].live
            /\ b.admin => witness'[p].admin
            /\ b.reads \subseteq witness'[p].reads /\ b.manages \subseteq witness'[p].manages
<1> DEFINE b == RightsNow(p, requests'[p].user.id)
<1>1. witness'[p] = Joined(witness[p], b)
  BY DEF Observe
<1> HIDE DEF b
<1>2. /\ witness'[p].live = (witness[p].live \/ b.live) /\ witness'[p].admin = (witness[p].admin \/ b.admin)
      /\ witness'[p].reads = witness[p].reads \cup b.reads /\ witness'[p].manages = witness[p].manages \cup b.manages
  BY <1>1 DEF Joined
<1>3. /\ b.live => witness'[p].live
      /\ b.admin => witness'[p].admin
      /\ b.reads \subseteq witness'[p].reads /\ b.manages \subseteq witness'[p].manages
  BY <1>2
<1> QED  BY <1>3 DEF b

LEMMA StaysKept ==
  ASSUME TablesStep, CreatorsStep, NEW t \in DOMAIN Creators, NEW i, NEW value, Stays(t, i, value)
  PROVE  /\ i \in DOMAIN db'[t] => db'[t][i][Fixed[t]] = value
         /\ \A p \in DOMAIN requests' : MayCreate(p, t)' => p # i
<1>1. ASSUME i \in DOMAIN db'[t]
      PROVE  db'[t][i][Fixed[t]] = value
  <2>1. i \in DOMAIN db[t]
    BY <1>1 DEF TablesStep, Stays
  <2> QED  BY <1>1, <2>1, CreatorsAre DEF TablesStep, Keeps, Stays
<1> QED  BY <1>1 DEF CreatorsStep, Stays

LEMMA FreshRowsKept ==
  ASSUME TablesStep, CreatorsStep, FreshRows
  PROVE  FreshRows'
<1>1. ASSUME NEW t \in DOMAIN Creators, NEW p \in DOMAIN requests', MayCreate(p, t)'
      PROVE  p \notin DOMAIN db'[t]
  <2>1. p \in DOMAIN requests /\ p \notin DOMAIN db[t]
    BY <1>1 DEF CreatorsStep, FreshRows
  <2>2. requests'[p].rest # <<>>
    BY <1>1 DEF MayCreate, Ended
  <2> QED  BY <1>1, <2>1, <2>2 DEF TablesStep
<1> QED  BY <1>1 DEF FreshRows, Creators

LEMMA UserKept ==
  ASSUME TablesStep, CreatorsStep, NEW p \in DOMAIN requests, p \in DOMAIN requests', Grows(p), UserOk(p),
         requests'[p].call = requests[p].call, requests'[p].user = requests[p].user
  PROVE  UserOk(p)'
<1> DEFINE user == UserOf(p)
<1>1. Stays("users", user.id, user.role)
  BY DEF UserOk
<1> HIDE DEF user
<1>2. Stays("users", user.id, user.role)'
  <2>1. /\ user.id \in DOMAIN db'["users"] => db'["users"][user.id][Fixed["users"]] = user.role
        /\ \A r \in DOMAIN requests' : MayCreate(r, "users")' => r # user.id
    BY <1>1, CreatorsAre, StaysKept
  <2>2. user' = user
    BY DEF user, UserOf
  <2> QED  BY <2>1, <2>2 DEF Stays
<1>3. Op(p)' = Op(p) /\ UserOf(p)' = UserOf(p)
  BY DEF Op, Call, UserOf
<1> QED  BY <1>2, <1>3 DEF UserOk, Grows, user

LEMMA ReplyKept ==
  ASSUME NEW p \in DOMAIN requests, p \in DOMAIN requests', Grows(p), ReplyOk(p),
         requests'[p].call = requests[p].call, requests'[p].user = requests[p].user,
         requests'[p].reply = requests[p].reply, Op(p) = "listTokens" /\ Succeeded(p)' => Succeeded(p)
  PROVE  ReplyOk(p)'
<1>1. Op(p)' = Op(p) /\ UserOf(p)' = UserOf(p)
  BY DEF Op, Call, UserOf
<1>2. Held(p) \subseteq Held(p)'
  BY <1>1 DEF Held, Grows
<1>3. ShownRepositories(requests'[p].reply) = ShownRepositories(requests[p].reply)
  OBVIOUS
<1>4. witness[p].admin => witness'[p].admin
  BY DEF Grows
<1> QED  BY <1>1, <1>2, <1>3, <1>4 DEF ReplyOk

LEMMA ToolKept ==
  ASSUME TablesStep, CreatorsStep, NEW p \in DOMAIN requests, p \in DOMAIN requests', ToolOk(p),
         requests'[p].call = requests[p].call, requests'[p].user = requests[p].user
  PROVE  ToolOk(p)'
<1>1. Call(p)' = Call(p) /\ Op(p)' = Op(p) /\ UserOf(p)' = UserOf(p)
  BY DEF Op, Call, UserOf
<1> SUFFICES ASSUME Op(p) \in ToolOps
             PROVE  Stays("tokens", Call(p).token.mcp, UserOf(p).id)'
  BY <1>1 DEF ToolOk
<1> DEFINE i == Call(p).token.mcp
           u == UserOf(p).id
<1>2. Stays("tokens", i, u)
  BY DEF ToolOk
<1> HIDE DEF i, u
<1>3. /\ i \in DOMAIN db'["tokens"] => db'["tokens"][i][Fixed["tokens"]] = u
      /\ \A r \in DOMAIN requests' : MayCreate(r, "tokens")' => r # i
  BY <1>2, CreatorsAre, StaysKept
<1>4. i' = i /\ u' = u
  BY <1>1 DEF i, u
<1> QED  BY <1>3, <1>4 DEF Stays, i, u

LEMMA IntakeKept ==
  ASSUME TablesStep, NEW p \in DOMAIN requests, p \in DOMAIN requests', IntakeOk(p), requests'[p] = requests[p]
  PROVE  IntakeOk(p)'
<1>1. Unfinished(p)' = Unfinished(p) /\ At(p, "CommitDelivery")' = At(p, "CommitDelivery")
      /\ Input(p)' = Input(p) /\ Found(p)' = Found(p)
  BY DEF Unfinished, At, Input, Found
<1>2. Unfinished(p) => Input(p).account \in DOMAIN db.accounts /\ Input(p).account \in DOMAIN db'.accounts
  BY DEF IntakeOk, TablesStep
<1>3. ASSUME At(p, "CommitDelivery"), NEW r \in Found(p)
      PROVE  r \in DOMAIN db'.repositories /\ db'.repositories[r].account = Input(p).account
  <2>1. r \in DOMAIN db.repositories /\ db.repositories[r].account = Input(p).account
    BY <1>3 DEF IntakeOk
  <2>2. Unfinished(p)
    BY <1>3 DEF Unfinished
  <2> QED  BY <1>2, <2>1, <2>2, FixedAre DEF TablesStep, Keeps
<1> QED  BY <1>1, <1>2, <1>3 DEF IntakeOk

LEMMA EditKept ==
  ASSUME TablesStep, CreatorsStep, NEW p \in DOMAIN requests, p \in DOMAIN requests', Grows(p), EditOk(p),
         requests'[p] = requests[p]
  PROVE  EditOk(p)'
<1>1. /\ Call(p)' = Call(p) /\ Op(p)' = Op(p) /\ UserOf(p)' = UserOf(p) /\ Input(p)' = Input(p) /\ Found(p)' = Found(p)
      /\ Rest(p)' = Rest(p) /\ ManagedRepository(p)' = ManagedRepository(p)
  BY DEF Op, Call, UserOf, Input, Found, Rest, ManagedRepository
<1>2. ASSUME NEW t \in DOMAIN Creators, NEW i, NEW value, Stays(t, i, value)
      PROVE  /\ i \in DOMAIN db'[t] => db'[t][i][Fixed[t]] = value
             /\ \A r \in DOMAIN requests' : MayCreate(r, t)' => r # i
  BY <1>2, StaysKept
<1>3. \A op \in DOMAIN Configured : Configured[op] \in DOMAIN Creators
  BY CreatorsAre DEF Configured
<1>4. ASSUME Op(p) \in DOMAIN Configured, Head(Rest(p)) \notin Finding
      PROVE  Stays(Configured[Op(p)], Input(p).id, Found(p).repository)'
  <2> DEFINE t == Configured[Op(p)]
  <2>1. Stays(t, Input(p).id, Found(p).repository) /\ t \in DOMAIN Creators /\ t' = t
    BY <1>1, <1>3, <1>4 DEF EditOk
  <2> HIDE DEF t
  <2>2. Stays(t, Input(p).id, Found(p).repository)'
    BY <1>1, <1>2, <2>1 DEF Stays
  <2> QED  BY <2>2 DEF t
<1>5. ASSUME Head(Rest(p)) \in Editing \cup {"CheckChannels"}
      PROVE  witness'[p].admin \/ ManagedRepository(p) \in witness'[p].manages
  BY <1>5 DEF EditOk, Grows
<1>6. ASSUME Head(Rest(p)) \in {"CreateRule", "UpdateRule"}, "channels" \in DOMAIN Input(p), NEW c \in ToSet(Input(p).channels)
      PROVE  Stays("channels", c, ManagedRepository(p))'
  <2>1. Stays("channels", c, ManagedRepository(p)) /\ "channels" \in DOMAIN Creators
    BY <1>6, CreatorsAre DEF EditOk
  <2> QED  BY <1>1, <1>2, <2>1 DEF Stays
<1>7. ASSUME Head(Rest(p)) = "RevokeToken"
      PROVE  witness'[p].admin \/ Stays("tokens", Input(p).id, UserOf(p).id)'
  <2>1. witness[p].admin => witness'[p].admin
    BY DEF Grows
  <2>2. CASE Stays("tokens", Input(p).id, UserOf(p).id)
    <3>1. "tokens" \in DOMAIN Creators
      BY CreatorsAre
    <3>2. Stays("tokens", Input(p).id, UserOf(p).id)'
      BY <1>1, <1>2, <2>2, <3>1 DEF Stays
    <3> QED  BY <3>2
  <2> QED  BY <1>7, <2>1, <2>2 DEF EditOk
<1> QED  BY <1>1, <1>4, <1>5, <1>6, <1>7 DEF EditOk

\* A request that does not run.
LEMMA OthersKept ==
  ASSUME TablesStep, CreatorsStep, NEW p \in DOMAIN requests, p \in DOMAIN requests', Grows(p), RequestOk(p),
         requests'[p] = requests[p]
  PROVE  RequestOk(p)'
<1>1. /\ Call(p)' = Call(p) /\ Op(p)' = Op(p) /\ UserOf(p)' = UserOf(p) /\ Rest(p)' = Rest(p) /\ Ended(p)' = Ended(p)
      /\ Succeeded(p)' = Succeeded(p)
  BY DEF Op, Call, UserOf, Rest, Ended, Succeeded
<1>2. CallOk(Call(p))' /\ StageOk(p)'
  BY <1>1 DEF RequestOk, StageOk, CallOk
<1>3. IntakeOk(p)' /\ witness'[p].manages \subseteq witness'[p].reads
  BY IntakeKept DEF RequestOk, Grows
<1>4. ASSUME UserOf(p) # Nobody
      PROVE  UserOk(p)' /\ ReplyOk(p)' /\ ToolOk(p)'
  BY <1>1, <1>4, UserKept, ReplyKept, ToolKept DEF RequestOk
<1>5. ASSUME UserOf(p) # Nobody, ~Ended(p)
      PROVE  SightOk(p)' /\ EditOk(p)'
  <2>1. SightOk(p) /\ EditOk(p)
    BY <1>5 DEF RequestOk
  <2>2. SightOk(p)'
    BY <1>1, <2>1 DEF SightOk, Grows, Within
  <2> QED  BY <2>1, <2>2, EditKept
<1> QED  BY <1>1, <1>2, <1>3, <1>4, <1>5 DEF RequestOk

-----------------------------------------------------------------------------
(***************************************************************************)
(* What a request keeps that runs.                                         *)
(***************************************************************************)
\* The statements that later ones of a route rely on.
Leading == Finding \cup {"AssertCanManage", "CheckChannels", "FindToken", "InsertDelivery", "EnqueueWebhook"}

LEMMA StatementsOfWhom ==
  /\ \A op : AuthenticatorOf(op) \in Authenticators
  /\ \A op : Statements(op) \cap Authenticators = {}
<1>1. \A op : AuthenticatorOf(op) \in Authenticators
  BY DEF AuthenticatorOf, Authenticators
<1>2. \A op : Statements(op) \cap Authenticators = {}
  BY DEF Statements, Authenticators, AdminStatements, PersonalStatements, SightStatements, Seeing
<1> QED  BY <1>1, <1>2

\* Where a request is: before its authentication, or at a statement of its operation.
LEMMA Placed ==
  ASSUME NEW q \in DOMAIN requests, StageOk(q), ~Ended(q)
  PROVE  LET s == Head(Rest(q))
             t == Tail(Rest(q))
         IN /\ t \in Seq(Statements(Op(q))) /\ Follows(t)
            /\ s \in Authenticators =>
                 /\ UserOf(q) = Nobody /\ Op(q) \notin AnonymousOps /\ s = AuthenticatorOf(Op(q))
                 /\ IsBody(Op(q), t) /\ requests[q].reply = None
            /\ s \notin Authenticators =>
                 /\ s \in Statements(Op(q)) /\ (UserOf(q) = Nobody <=> Op(q) \in AnonymousOps)
                 /\ t # <<>> => MayFollow(s, Head(t)) /\ Head(t) \in Statements(Op(q))
<1> DEFINE s == Head(Rest(q))
           t == Tail(Rest(q))
<1>1. Rest(q) # <<>>
  BY DEF Ended, Rest
<1>2. CASE UserOf(q) = Nobody /\ Op(q) \notin AnonymousOps
  <2>1. IsRoute(Op(q), Rest(q)) /\ requests[q].reply = None
    BY <1>2 DEF StageOk
  <2>2. Rest(q) = <<AuthenticatorOf(Op(q))>> \o t /\ IsBody(Op(q), t)
    BY <1>2, <2>1 DEF IsRoute
  <2>3. t \in Seq(Statements(Op(q))) /\ Follows(t)
    BY <2>2 DEF IsBody
  <2>4. s = AuthenticatorOf(Op(q))
    BY <2>2, <2>3, PrefixedIs
  <2> QED  BY <1>2, <2>1, <2>2, <2>3, <2>4, StatementsOfWhom
<1>3. CASE ~(UserOf(q) = Nobody /\ Op(q) \notin AnonymousOps)
  <2>1. Rest(q) \in Seq(Statements(Op(q))) /\ Follows(Rest(q))
    BY <1>3 DEF StageOk
  <2>2. /\ s \in Statements(Op(q)) /\ t \in Seq(Statements(Op(q))) /\ Follows(t)
        /\ t # <<>> => MayFollow(s, Head(t))
    BY <1>1, <2>1, TailFollows
  <2>3. t # <<>> => Head(t) \in Statements(Op(q))
    BY <2>2
  <2>4. s \notin Authenticators
    BY <2>2, StatementsOfWhom
  <2> QED  BY <1>3, <2>2, <2>3, <2>4 DEF StageOk
<1> QED  BY <1>2, <1>3

LEMMA AdvancesCreators ==
  ASSUME NEW q \in DOMAIN requests, Advances(q), ~Ended(q)
  PROVE  CreatorsStep
BY DEF Advances, CreatorsStep, MayCreate, Ended, Op, Call

LEMMA NothingWritten ==
  ASSUME Tidy(db), UNCHANGED db
  PROVE  TablesStep
BY DEF TablesStep, Keeps

LEMMA EmptyFollows == \A S : <<>> \in Seq(S) /\ Follows(<<>>)
BY DEF Follows

\* A request stays on its route.
LEMMA StageKept ==
  ASSUME NEW q \in DOMAIN requests, StageOk(q), Advances(q), ~Ended(q),
         Head(Rest(q)) \in Authenticators =>
           /\ requests'[q].reply = requests[q].reply
           /\ requests'[q].rest # <<>> => requests'[q].user # Nobody
  PROVE  StageOk(q)'
<1>1. Op(q)' = Op(q) /\ (Rest(q)' = <<>> \/ Rest(q)' = Tail(Rest(q)))
  BY DEF Advances, Op, Call, Rest
<1>2. Rest(q)' \in Seq(Statements(Op(q))) /\ Follows(Rest(q)')
  BY <1>1, Placed, EmptyFollows
<1>3. CASE Head(Rest(q)) \in Authenticators
  <2>1. Op(q) \notin AnonymousOps /\ requests[q].reply = None
    BY <1>3, Placed
  <2> QED  BY <1>1, <1>2, <1>3, <2>1 DEF StageOk, UserOf, Rest, Ended
<1>4. CASE Head(Rest(q)) \notin Authenticators
  <2>1. UserOf(q)' = UserOf(q) /\ (UserOf(q) = Nobody <=> Op(q) \in AnonymousOps)
    BY <1>4, Placed DEF Advances, UserOf, Rest
  <2> QED  BY <1>1, <1>2, <2>1 DEF StageOk
<1> QED  BY <1>3, <1>4

\* Nothing relies on the other statements.
LEMMA OwnEdit ==
  ASSUME NEW q \in DOMAIN requests, StageOk(q), Advances(q), ~Ended(q), Head(Rest(q)) \notin Leading, ~Ended(q)'
  PROVE  EditOk(q)'
<1> DEFINE s == Head(Rest(q))
           t == Tail(Rest(q))
           b == Head(t)
<1>1. Op(q)' = Op(q) /\ Rest(q)' = t /\ t # <<>>
  BY DEF Advances, Op, Call, Rest, Ended
<1>2. CASE s \in Authenticators
  <2>1. IsBody(Op(q), t)
    BY <1>2, Placed
  <2>2. b \notin Late /\ (Op(q) \in DOMAIN Configured => b \in Finding)
    BY <1>1, <2>1 DEF IsBody
  <2>3. b \notin Editing /\ b # "CheckChannels" /\ b # "RevokeToken"
    BY <2>2 DEF Late
  <2>4. {"CreateRule", "UpdateRule"} \subseteq Editing
    BY DEF Editing
  <2> HIDE DEF b, t, s
  <2>5. Head(Rest(q)') = b
    BY <1>1 DEF b
  <2> QED  BY <1>1, <2>2, <2>3, <2>4, <2>5 DEF EditOk
<1>3. CASE s \notin Authenticators
  <2>1. s \in Statements(Op(q)) /\ b \in Statements(Op(q)) /\ MayFollow(s, b)
    BY <1>1, <1>3, Placed
  <2> HIDE DEF b, t, s
  <2>2. Head(Rest(q)') = b /\ s \notin Leading
    BY <1>1 DEF b, s
  <2>3. b \notin Editing \cup {"CheckChannels", "RevokeToken"}
    BY <2>1, <2>2 DEF MayFollow, Leading, Editing
  <2>4. Op(q) \notin DOMAIN Configured
    <3>1. DOMAIN Configured = {"updateChannel", "deleteChannel", "updateRule", "deleteRule"}
      BY DEF Configured
    <3>2. \A op \in DOMAIN Configured : Statements(op) \subseteq Leading \cup Editing
      BY <3>1, OwnStatementsAre DEF Leading, Finding, Editing
    <3>3. ASSUME Op(q) \in DOMAIN Configured
          PROVE  FALSE
      <4>1. b \in Leading /\ s \in Editing
        BY <2>1, <2>2, <2>3, <3>2, <3>3
      <4>2. b \in Finding \cup {"AssertCanManage", "CheckChannels"}
        BY <2>1, <3>1, <3>3, <4>1, OwnStatementsAre DEF Leading, Finding, Editing
      <4> QED  BY <2>1, <4>1, <4>2 DEF MayFollow, Finding, Editing
    <3> QED  BY <3>3
  <2>5. {"CreateRule", "UpdateRule"} \subseteq Editing
    BY DEF Editing
  <2> QED  BY <1>1, <2>2, <2>3, <2>4, <2>5 DEF EditOk
<1> QED  BY <1>2, <1>3

LEMMA OwnIntake ==
  ASSUME NEW q \in DOMAIN requests, StageOk(q), Advances(q), ~Ended(q), Head(Rest(q)) \notin Leading
  PROVE  IntakeOk(q)'
<1> DEFINE s == Head(Rest(q))
           t == Tail(Rest(q))
           b == Head(t)
<1> SUFFICES ASSUME ~Ended(q)'
             PROVE  ~Unfinished(q)'
  BY DEF IntakeOk, Unfinished, At, Ended
<1>1. Op(q)' = Op(q) /\ requests'[q].rest = t /\ t # <<>>
  BY DEF Advances, Op, Call, Rest, Ended
<1>2. b # "EnqueueWebhook" /\ b # "CommitDelivery"
  <2>1. CASE s \in Authenticators
    <3>1. IsBody(Op(q), t)
      BY <2>1, Placed
    <3> QED  BY <1>1, <3>1 DEF IsBody, Late
  <2>2. CASE s \notin Authenticators
    <3>1. MayFollow(s, b)
      BY <1>1, <2>2, Placed
    <3> QED  BY <3>1 DEF MayFollow, Leading
  <2> QED  BY <2>1, <2>2
<1> HIDE DEF t
<1> QED  BY <1>1, <1>2 DEF Unfinished, At

\* A statement of a request that is authenticated, or needs no authentication.
LEMMA OwnKept ==
  ASSUME TablesStep, NEW q \in DOMAIN requests, RequestOk(q), Advances(q), ~Ended(q), Grows(q),
         Head(Rest(q)) \notin Authenticators,
         UserOf(q) # Nobody => ReplyOk(q)',
         UserOf(q) # Nobody /\ Head(Rest(q)) \in Sighting /\ ~Ended(q)' => Within(requests'[q].ability, witness'[q]),
         Head(Rest(q)) \in Leading => IntakeOk(q)' /\ (UserOf(q) # Nobody /\ ~Ended(q)' => EditOk(q)')
  PROVE  RequestOk(q)'
<1> DEFINE s == Head(Rest(q))
           t == Tail(Rest(q))
<1>1. /\ Call(q)' = Call(q) /\ Op(q)' = Op(q) /\ UserOf(q)' = UserOf(q) /\ q \in DOMAIN requests'
      /\ requests'[q].call = requests[q].call /\ requests'[q].user = requests[q].user
      /\ ~Ended(q)' => Rest(q)' = t /\ t # <<>>
  BY DEF Advances, Op, Call, UserOf, Rest, Ended
<1>2. CreatorsStep
  BY AdvancesCreators
<1>3. CallOk(Call(q))' /\ StageOk(q)'
  BY <1>1, StageKept DEF RequestOk, CallOk
<1>4. IntakeOk(q)' /\ witness'[q].manages \subseteq witness'[q].reads
  BY OwnIntake DEF RequestOk, Grows
<1>5. ASSUME UserOf(q) # Nobody
      PROVE  UserOk(q)' /\ ReplyOk(q)' /\ ToolOk(q)'
  BY <1>1, <1>2, <1>5, UserKept, ToolKept DEF RequestOk
<1>6. ASSUME UserOf(q) # Nobody, ~Ended(q)'
      PROVE  SightOk(q)' /\ EditOk(q)'
  <2>1. EditOk(q)'
    BY <1>6, OwnEdit DEF RequestOk
  <2>2. SightOk(q)'
    <3>1. SUFFICES ASSUME Head(t) \in Seeing
                   PROVE  Within(requests'[q].ability, witness'[q])
      BY <1>1, <1>6 DEF SightOk
    <3>2. s \in Seeing \cup Sighting
      <4>1. MayFollow(s, Head(t))
        BY <1>1, <1>6, Placed DEF RequestOk
      <4> QED  BY <3>1, <4>1 DEF MayFollow
    <3>3. CASE s \in Sighting
      BY <1>6, <3>3
    <3>4. CASE s \in Seeing /\ s \notin Sighting
      <4>1. requests'[q].ability = requests[q].ability
        BY <3>4 DEF Advances, Rest
      <4>2. Within(requests[q].ability, witness[q])
        BY <1>6, <3>4 DEF RequestOk, SightOk
      <4> QED  BY <4>1, <4>2 DEF Within, Grows
    <3> QED  BY <3>2, <3>3, <3>4
  <2> QED  BY <2>1, <2>2
<1> QED  BY <1>1, <1>3, <1>4, <1>5, <1>6 DEF RequestOk

LEMMA AuthenticatorsLead ==
  /\ Authenticators \cap Leading = {}
  /\ \A op : AuthenticatorOf(op) = "AuthenticateAdmin" <=> op \in AdminOps
  /\ \A op : op \in AdminOps => op \notin ToolOps /\ op # "callback"
  /\ "callback" \notin ToolOps
<1>1. \A op : op \in AdminOps => op \notin ToolOps /\ op # "callback"
  BY ToolsAre DEF AdminOps
<1> QED  BY <1>1, ToolsAre DEF Authenticators, Leading, Finding, AuthenticatorOf

\* The authentication of a request succeeds.
LEMMA AuthenticatedKept ==
  ASSUME AccessInv, FreshRows', Observe, NEW q \in DOMAIN requests, Advances(q), ~Ended(q), Grows(q), UNCHANGED db,
         Head(Rest(q)) \in Authenticators,
         NEW u \in DOMAIN db.users, requests'[q].user = ToAuthenticatedUser(db, u),
         requests'[q].reply = requests[q].reply, requests'[q].rest = Tail(requests[q].rest),
         Op(q) # "callback" => HasCredential(q),
         Op(q) \in AdminOps \cup {"callback"} => IsAdmin(db.users[u]),
         Op(q) \in ToolOps => Call(q).token.mcp \in DOMAIN db.tokens /\ db.tokens[Call(q).token.mcp].user = u
  PROVE  RequestOk(q)'
<1> DEFINE t == Tail(Rest(q))
           user == ToAuthenticatedUser(db, u)
<1>1. RequestOk(q) /\ q \in DOMAIN requests'
  BY DEF AccessInv, Advances
<1>2. Call(q)' = Call(q) /\ Op(q)' = Op(q) /\ Rest(q)' = t /\ UserOf(q)' = user
  BY DEF Advances, Op, Call, Rest, UserOf
<1>3. user # Nobody /\ user.id = u /\ user.role = db.users[u].role
  <2>1. "role" \in DOMAIN user /\ "role" \notin DOMAIN Nobody
    BY DEF ToAuthenticatedUser, Nobody
  <2> QED  BY <2>1 DEF ToAuthenticatedUser
<1>4. Op(q) \notin AnonymousOps /\ IsBody(Op(q), t) /\ requests[q].reply = None
  BY <1>1, Placed DEF RequestOk
<1>5. CallOk(Call(q))' /\ StageOk(q)'
  BY <1>1, <1>2, <1>3, StageKept DEF RequestOk, CallOk
<1>6. IntakeOk(q)' /\ witness'[q].manages \subseteq witness'[q].reads
  BY <1>1, AuthenticatorsLead, OwnIntake DEF RequestOk, Grows
<1>7. UserOk(q)'
  <2> DEFINE b == RightsNow(q, u)
  <2>1. /\ b.live = HasCredential(q) /\ b.admin = IsAdmin(db.users[u])
    BY DEF RightsNow, CreateForUser
  <2>2. (b.live => witness'[q].live) /\ (b.admin => witness'[q].admin)
    BY <1>1, <1>2, <1>3, WitnessHolds
  <2>3. IsAdmin(user) <=> IsAdmin(db.users[u])
    BY <1>3 DEF IsAdmin
  <2>4. /\ u \in DOMAIN db'["users"] => db'["users"][u][Fixed["users"]] = user.role
        /\ \A p \in DOMAIN requests' : MayCreate(p, "users")' => p # u
    <3>1. Fixed["users"] = "role" /\ "users" \in DOMAIN Creators
      BY FixedAre, CreatorsAre
    <3>2. \A p \in DOMAIN requests' : MayCreate(p, "users")' => p # u
      BY <3>1 DEF FreshRows, Creators
    <3> QED  BY <1>3, <3>1, <3>2
  <2> HIDE DEF user, b
  <2>5. Op(q) # "callback" => witness'[q].live
    BY <2>1, <2>2
  <2>6. Op(q) \in AdminOps \cup {"callback"} \/ IsAdmin(user) => witness'[q].admin
    BY <2>1, <2>2, <2>3
  <2>7. Stays("users", UserOf(q).id, UserOf(q).role)'
    BY <1>2, <1>3, <2>4 DEF Stays
  <2> QED  BY <1>2, <2>5, <2>6, <2>7 DEF UserOk, IsAdmin
<1>8. ReplyOk(q)'
  <2>1. ShownRepositories(None) = {}
    BY DEF ShownRepositories
  <2>2. Op(q) = "listTokens" => ~Ended(q)'
    BY <1>2, <1>4 DEF IsBody, Ended, Rest
  <2> QED  BY <1>2, <1>4, <2>1, <2>2 DEF ReplyOk, Succeeded
<1>9. ToolOk(q)'
  <2>1. SUFFICES ASSUME Op(q) \in ToolOps
                 PROVE  Stays("tokens", Call(q).token.mcp, u)'
    BY <1>2, <1>3 DEF ToolOk
  <2>2. Fixed["tokens"] = "user" /\ "tokens" \in DOMAIN Creators
    BY FixedAre, CreatorsAre
  <2>3. \A p \in DOMAIN requests' : MayCreate(p, "tokens")' => p # Call(q).token.mcp
    BY <2>1, <2>2 DEF FreshRows, Creators
  <2> QED  BY <1>2, <2>1, <2>2, <2>3 DEF Stays
<1>10. ~Ended(q)' => SightOk(q)' /\ EditOk(q)'
  <2>1. ~Ended(q)' => t # <<>>
    BY <1>2 DEF Ended, Rest
  <2>2. t # <<>> => Head(t) \notin Seeing
    BY <1>4 DEF IsBody, Late
  <2>3. ~Ended(q)' => EditOk(q)'
    BY <1>1, AuthenticatorsLead, OwnEdit DEF RequestOk
  <2> QED  BY <1>2, <2>1, <2>2, <2>3 DEF SightOk
<1> QED  BY <1>2, <1>3, <1>5, <1>6, <1>7, <1>8, <1>9, <1>10 DEF RequestOk

\* The authentication of a request fails.
LEMMA RefusedKept ==
  ASSUME NEW q \in DOMAIN requests, RequestOk(q), Advances(q), ~Ended(q), Grows(q),
         Head(Rest(q)) \in Authenticators, requests'[q].user = requests[q].user,
         requests'[q].reply = requests[q].reply, requests'[q].rest = <<>>
  PROVE  RequestOk(q)'
<1>1. Call(q)' = Call(q) /\ UserOf(q)' = Nobody
  BY Placed DEF Advances, Call, UserOf, RequestOk
<1>2. CallOk(Call(q))' /\ StageOk(q)'
  BY <1>1, StageKept DEF RequestOk, CallOk
<1>3. IntakeOk(q)' /\ witness'[q].manages \subseteq witness'[q].reads
  BY AuthenticatorsLead, OwnIntake DEF RequestOk, Grows
<1> QED  BY <1>1, <1>2, <1>3 DEF RequestOk

-----------------------------------------------------------------------------
\* What the lemmas about a step of a request start from.
Runs(q) == IInv /\ AccessInv /\ Observe /\ q \in DOMAIN requests /\ ~Ended(q)

LEMMA RunsGrows ==
  ASSUME NEW q, Runs(q), Advances(q)
  PROVE  Grows(q) /\ RequestOk(q) /\ CreatorsStep /\ (TablesStep => FreshRows')
<1>1. RequestOk(q) /\ CreatorsStep /\ q \in DOMAIN requests'
  BY AdvancesCreators DEF Runs, AccessInv, Advances
<1>2. Grows(q)
  BY <1>1, WitnessGrows DEF Runs, RequestOk
<1> QED  BY <1>1, <1>2, FreshRowsKept DEF Runs, AccessInv

\* The user of a session or of a token that is good.
LEMMA CredentialHolds ==
  ASSUME NEW q
  PROVE  /\ IsSession(Call(q).token) => HasCredential(q) = IsLive(db, Call(q).token)
         /\ IsMcpToken(Call(q).token) => HasCredential(q) = IsUsable(db, Call(q).token.mcp, now)
BY DEF HasCredential, IsSession, IsMcpToken

LEMMA SessionKept ==
  ASSUME NEW q, Runs(q), AuthenticateUser(q) \/ AuthenticateAdmin(q)
  PROVE  UNCHANGED db /\ Advances(q) /\ RequestOk(q)'
<1> DEFINE s == Head(Rest(q))
           token == Call(q).token
<1>1. PICK administrator \in BOOLEAN :
        Authenticate(q, administrator) /\ s = IF administrator THEN "AuthenticateAdmin" ELSE "Authenticate"
  BY DEF AuthenticateUser, AuthenticateAdmin, At, Rest
<1>2. s \in Authenticators /\ UNCHANGED db /\ q \in DOMAIN requests /\ ~Ended(q)
  BY <1>1 DEF Authenticators, Authenticate, Runs
<1>3. Advances(q)
  BY <1>1, <1>2, AuthenticateAdvances DEF Rest, Runs, IInv
<1>4. Grows(q) /\ RequestOk(q) /\ FreshRows'
  BY <1>2, <1>3, RunsGrows, NothingWritten DEF Runs, AccessInv
<1>5. Op(q) \notin AnonymousOps /\ s = AuthenticatorOf(Op(q))
  BY <1>2, <1>4, Placed DEF RequestOk
<1>6. /\ IsSession(token) /\ Op(q) \notin ToolOps /\ Op(q) # "callback"
      /\ Op(q) \in AdminOps => administrator
  <2>1. AuthenticatorOf(Op(q)) \in {"Authenticate", "AuthenticateAdmin"}
    BY <1>1, <1>5
  <2> QED  BY <1>1, <1>4, <1>5, <2>1, AuthenticatorsLead DEF RequestOk, CallOk, Op, AuthenticatorOf
<1>7. CASE \E status : Refuse(q, status)
  <2>1. /\ requests'[q].user = requests[q].user /\ requests'[q].reply = requests[q].reply
        /\ requests'[q].rest = <<>>
    BY <1>2, <1>7 DEF Refuse, IInv, Runs, RequestInv, RequestFields
  <2>2. RequestOk(q)'
    BY <1>2, <1>3, <1>4, <2>1, RefusedKept
  <2> QED  BY <1>2, <1>3, <2>2
<1>8. CASE /\ IsLive(db, token) /\ (administrator => IsAdmin(db.users[token.user]))
           /\ Proceed(q, [user |-> ToAuthenticatedUser(db, token.user)])
  <2>1. PICK u \in DOMAIN db.users : u = token.user
    BY <1>8 DEF IsLive
  <2>2. /\ requests'[q].user = ToAuthenticatedUser(db, u) /\ requests'[q].reply = requests[q].reply
        /\ requests'[q].rest = Tail(requests[q].rest)
    BY <1>2, <1>8, <2>1 DEF Proceed, Over, IInv, Runs, RequestInv, RequestFields
  <2>3. HasCredential(q) /\ (Op(q) \in AdminOps => IsAdmin(db.users[u]))
    BY <1>6, <1>8, <2>1, CredentialHolds
  <2>4. RequestOk(q)'
    BY <1>2, <1>3, <1>4, <1>6, <2>2, <2>3, AuthenticatedKept DEF Runs
  <2> QED  BY <1>2, <1>3, <2>4
<1> QED  BY <1>1, <1>7, <1>8 DEF Authenticate

LEMMA McpTokenKept ==
  ASSUME NEW q, Runs(q), AuthenticateToken(q)
  PROVE  UNCHANGED db /\ Advances(q) /\ RequestOk(q)'
<1> DEFINE s == Head(Rest(q))
           i == Call(q).token.mcp
<1>1. s = "AuthenticateToken" /\ UNCHANGED db /\ q \in DOMAIN requests /\ ~Ended(q)
  BY DEF AuthenticateToken, At, Rest, Runs
<1>2. s \in Authenticators
  BY <1>1 DEF Authenticators
<1>3. Advances(q)
  BY <1>2, UserAdvances, RefuseAdvances DEF AuthenticateToken, Rest, Runs, IInv
<1>4. Grows(q) /\ RequestOk(q) /\ FreshRows'
  BY <1>1, <1>3, RunsGrows, NothingWritten DEF Runs, AccessInv
<1>5. Op(q) \notin AnonymousOps /\ s = AuthenticatorOf(Op(q))
  BY <1>1, <1>2, <1>4, Placed DEF RequestOk
<1>6. Op(q) \in ToolOps /\ Op(q) \notin AdminOps \cup {"callback"} /\ IsMcpToken(Call(q).token)
  BY <1>1, <1>4, <1>5, AuthenticatorsLead DEF AuthenticatorOf, RequestOk, CallOk, Op
<1>7. CASE \E status : Refuse(q, status)
  <2>1. /\ requests'[q].user = requests[q].user /\ requests'[q].reply = requests[q].reply
        /\ requests'[q].rest = <<>>
    BY <1>1, <1>7 DEF Refuse, IInv, Runs, RequestInv, RequestFields
  <2>2. RequestOk(q)'
    BY <1>1, <1>2, <1>3, <1>4, <2>1, RefusedKept
  <2> QED  BY <1>1, <1>3, <2>2
<1>8. CASE IsUsable(db, i, now) /\ Proceed(q, [user |-> ToAuthenticatedUser(db, db.tokens[i].user)])
  <2>1. i \in DOMAIN db.tokens /\ db.tokens[i].user \in DOMAIN db.users
    <3>1. i \in DOMAIN db.tokens
      BY <1>8 DEF IsUsable
    <3> QED  BY <3>1, RefersTo, TablesAre DEF Runs, AccessInv, Tidy
  <2>2. PICK u \in DOMAIN db.users : u = db.tokens[i].user
    BY <2>1
  <2>3. /\ requests'[q].user = ToAuthenticatedUser(db, u) /\ requests'[q].reply = requests[q].reply
        /\ requests'[q].rest = Tail(requests[q].rest)
    BY <1>1, <1>8, <2>2 DEF Proceed, Over, IInv, Runs, RequestInv, RequestFields
  <2>4. HasCredential(q)
    BY <1>6, <1>8, CredentialHolds
  <2>5. RequestOk(q)'
    BY <1>1, <1>2, <1>3, <1>4, <1>6, <2>1, <2>2, <2>3, <2>4, AuthenticatedKept DEF Runs
  <2> QED  BY <1>1, <1>3, <2>5
<1> QED  BY <1>7, <1>8 DEF AuthenticateToken

LEMMA ConsumeStateKept ==
  ASSUME NEW q, Runs(q), ConsumeState(q)
  PROVE  UNCHANGED db /\ Advances(q) /\ RequestOk(q)'
<1> DEFINE s == Head(Rest(q))
           v == requests[Input(q).of].reply.state.user
<1>1. s = "ConsumeState" /\ UNCHANGED db /\ q \in DOMAIN requests /\ ~Ended(q)
  BY DEF ConsumeState, At, Rest, Runs
<1>2. s \in Authenticators
  BY <1>1 DEF Authenticators
<1>3. Advances(q)
  BY AccountAdvances DEF AccountStep, Runs, IInv
<1>4. Grows(q) /\ RequestOk(q) /\ FreshRows'
  BY <1>1, <1>3, RunsGrows, NothingWritten DEF Runs, AccessInv
<1>5. Op(q) \notin AnonymousOps /\ s = AuthenticatorOf(Op(q))
  BY <1>1, <1>2, <1>4, Placed DEF RequestOk
<1>6. Op(q) = "callback" /\ Op(q) \notin ToolOps
  BY <1>1, <1>5, AuthenticatorsLead DEF AuthenticatorOf
<1>7. CASE \E status : Refuse(q, status)
  <2>1. /\ requests'[q].user = requests[q].user /\ requests'[q].reply = requests[q].reply
        /\ requests'[q].rest = <<>>
    BY <1>1, <1>7 DEF Refuse, IInv, Runs, RequestInv, RequestFields
  <2>2. RequestOk(q)'
    BY <1>1, <1>2, <1>3, <1>4, <2>1, RefusedKept
  <2> QED  BY <1>1, <1>3, <2>2
<1>8. CASE /\ v \in DOMAIN db.users /\ IsAdmin(db.users[v])
           /\ \E x : Proceed(q, [user |-> ToAuthenticatedUser(db, v), found |-> x])
  <2>1. PICK u \in DOMAIN db.users : u = v
    BY <1>8
  <2>2. /\ requests'[q].user = ToAuthenticatedUser(db, u) /\ requests'[q].reply = requests[q].reply
        /\ requests'[q].rest = Tail(requests[q].rest)
    <3> DEFINE user == ToAuthenticatedUser(db, u)
    <3>1. DOMAIN requests[q] = RequestFields
      BY <1>1 DEF Runs, IInv, RequestInv
    <3>2. PICK x : Proceed(q, [user |-> user, found |-> x])
      BY <1>8, <2>1
    <3> HIDE DEF user
    <3>3. requests'[q] = Over([user |-> user, found |-> x], Over([rest |-> Tail(requests[q].rest)], requests[q]))
      BY <1>1, <3>2 DEF Proceed
    <3>4. requests'[q].user = user /\ requests'[q].reply = requests[q].reply /\ requests'[q].rest = Tail(requests[q].rest)
      BY <3>1, <3>3 DEF Over, RequestFields
    <3> QED  BY <3>4 DEF user
  <2>3. IsAdmin(db.users[u])
    BY <1>8, <2>1
  <2>4. RequestOk(q)'
    BY <1>1, <1>2, <1>3, <1>4, <1>6, <2>2, <2>3, AuthenticatedKept DEF Runs
  <2> QED  BY <1>1, <1>3, <2>4
<1> QED  BY <1>7, <1>8 DEF ConsumeState

\* Requests for administrators, and those without a user: what they show does not matter.
LEMMA PrivilegedKept ==
  ASSUME NEW q, Runs(q), Advances(q), TablesStep, Op(q) \in AdminOps \cup {"callback"} \cup AnonymousOps,
         Head(Rest(q)) \notin Authenticators, Head(Rest(q)) \in Leading => IntakeOk(q)'
  PROVE  RequestOk(q)'
<1> DEFINE s == Head(Rest(q))
<1>1. Grows(q) /\ RequestOk(q) /\ q \in DOMAIN requests /\ ~Ended(q)
  BY RunsGrows DEF Runs
<1>2. s \in Statements(Op(q)) /\ (UserOf(q) = Nobody <=> Op(q) \in AnonymousOps)
  BY <1>1, Placed DEF RequestOk
<1>3. CASE Op(q) \in AnonymousOps
  BY <1>1, <1>2, <1>3, OwnKept
<1>4. CASE Op(q) \in AdminOps \cup {"callback"}
  <2>1. Op(q) \notin AnonymousOps /\ s \notin Leading /\ s \notin Sighting
    BY <1>2, <1>4, StatementsAre, OwnStatementsAre DEF Leading, Sighting, Finding, AdminStatements
  <2>2. witness'[q].admin
    BY <1>1, <1>2, <1>4, <2>1 DEF RequestOk, UserOk, Grows
  <2>3. ReplyOk(q)'
    <3>1. Op(q)' # "listTokens"
      BY <1>4 DEF Advances, Op, Call, AdminOps
    <3> QED  BY <2>2, <3>1 DEF ReplyOk
  <2> QED  BY <1>1, <2>1, <2>3, OwnKept
<1> QED  BY <1>3, <1>4

-----------------------------------------------------------------------------
\* A statement tells what kind of request runs it.
LEMMA StatementOwners ==
  ASSUME NEW op, NEW s \in Statements(op)
  PROVE  /\ s \in PersonalStatements => op \in PersonalOps
         /\ s \in AdminStatements => op \in AdminOps \cup {"callback"}
         /\ s \in {"SignIn", "ReadSetupStatus", "LockSetup", "CountUsers", "CreateAdmin", "FindByUsername", "ResetPassword",
                   "FindAccount", "InsertDelivery", "EnqueueWebhook", "CommitDelivery"} => op \in AnonymousOps
         /\ s = "ExchangeCode" => op = "callback"
         /\ s \in SightStatements \cup {"TouchToken"} =>
              op \notin AnonymousOps \cup {"listTokens", "listDeliveries", "callback"} \cup DOMAIN Configured
         /\ s = "TouchToken" => op \in ToolOps
         /\ s = "ReadTokens" => op = "listTokens"
         /\ s = "CreateToken" => op = "createToken"
         /\ s \in {"FindToken", "RevokeToken"} => op = "revokeToken"
         /\ s \in {"ManagedIds", "ReadDeliveries"} => op = "listDeliveries"
<1> USE DEF AdminStatements, PersonalStatements, SightStatements, Seeing
<1>1. s \in PersonalStatements => op \in PersonalOps
  BY DEF Statements
<1>2. s \in AdminStatements => op \in AdminOps \cup {"callback"}
  BY DEF Statements
<1>3. s \in {"SignIn", "ReadSetupStatus", "LockSetup", "CountUsers", "CreateAdmin", "FindByUsername", "ResetPassword",
             "FindAccount", "InsertDelivery", "EnqueueWebhook", "CommitDelivery"} => op \in AnonymousOps
  BY DEF Statements, AnonymousOps
<1>4. s = "ExchangeCode" => op = "callback"
  BY DEF Statements
<1>5. s \in SightStatements \cup {"TouchToken"} =>
        op \notin AnonymousOps \cup {"listTokens", "listDeliveries", "callback"} \cup DOMAIN Configured
  <2>1. \A o \in DOMAIN Configured : s \in Statements(o) => s \notin SightStatements \cup {"TouchToken"}
    <3>1. DOMAIN Configured = {"updateChannel", "deleteChannel", "updateRule", "deleteRule"}
      BY DEF Configured
    <3> QED  BY <3>1, OwnStatementsAre
  <2>2. \A o \in AnonymousOps \cup {"listTokens", "listDeliveries", "callback"} :
          s \in Statements(o) => s \notin SightStatements \cup {"TouchToken"}
    BY OwnStatementsAre DEF AnonymousOps
  <2> QED  BY <2>1, <2>2
<1>6. s = "TouchToken" => op \in ToolOps
  BY DEF Statements
<1>7. /\ s = "ReadTokens" => op = "listTokens"
      /\ s = "CreateToken" => op = "createToken"
      /\ s \in {"FindToken", "RevokeToken"} => op = "revokeToken"
  BY DEF Statements
<1>8. s \in {"ManagedIds", "ReadDeliveries"} => op = "listDeliveries"
  BY DEF Statements
<1> QED  BY <1>1, <1>2, <1>3, <1>4, <1>5, <1>6, <1>7, <1>8

\* A statement of notification rules and channels.
LEMMA EditingOwners ==
  ASSUME NEW op, NEW s \in Statements(op)
  PROVE  /\ s = "CreateChannel" => op = "createChannel"
         /\ s = "UpdateChannel" => op = "updateChannel"
         /\ s = "DeleteChannel" => op = "deleteChannel"
         /\ s = "FindChannel" => op \in {"updateChannel", "deleteChannel"}
         /\ s = "CreateRule" => op = "createRule"
         /\ s = "UpdateRule" => op = "updateRule"
         /\ s = "DeleteRule" => op = "deleteRule"
         /\ s = "FindRule" => op \in {"updateRule", "deleteRule"}
         /\ s = "CheckChannels" => op \in {"createRule", "updateRule"}
         /\ s = "AssertCanManage" => op \in {"createChannel", "createRule"} \cup DOMAIN Configured
<1> USE DEF AdminStatements, PersonalStatements, SightStatements, Seeing
<1>1. /\ s = "CreateChannel" => op = "createChannel"
      /\ s = "UpdateChannel" => op = "updateChannel"
      /\ s = "DeleteChannel" => op = "deleteChannel"
      /\ s = "FindChannel" => op \in {"updateChannel", "deleteChannel"}
  BY DEF Statements
<1>2. /\ s = "CreateRule" => op = "createRule"
      /\ s = "UpdateRule" => op = "updateRule"
      /\ s = "DeleteRule" => op = "deleteRule"
      /\ s = "FindRule" => op \in {"updateRule", "deleteRule"}
      /\ s = "CheckChannels" => op \in {"createRule", "updateRule"}
  BY DEF Statements
<1>3. s = "AssertCanManage" => op \in {"createChannel", "createRule"} \cup DOMAIN Configured
  BY DEF Statements, Configured
<1> QED  BY <1>1, <1>2, <1>3

-----------------------------------------------------------------------------
(***************************************************************************)
(* What answers show.                                                      *)
(***************************************************************************)
OfItem(item) ==
  IF "repository" \in DOMAIN item THEN {item.repository}
  ELSE IF "remote" \in DOMAIN item THEN {item.id} ELSE {}
Displays(reply) ==
  IF "items" \in DOMAIN reply THEN UNION {OfItem(item) : item \in reply.items}
  ELSE IF "health" \in DOMAIN reply THEN {entry.repository : entry \in reply.health} ELSE {}

LEMMA ShownAre ==
  ASSUME NEW reply
  PROVE  /\ reply # None => ShownRepositories(reply) = Displays(reply)
         /\ ShownRepositories(reply) \subseteq Displays(reply)
         /\ reply = None => ShownRepositories(reply) = {}
<1>1. UNION {OfItem(item) : item \in reply.items} =
        UNION {IF "repository" \in DOMAIN item THEN {item.repository}
               ELSE IF "remote" \in DOMAIN item THEN {item.id} ELSE {} : item \in reply.items}
  BY DEF OfItem
<1>2. ShownRepositories(reply) = IF reply = None THEN {} ELSE Displays(reply)
  BY <1>1 DEF ShownRepositories, Displays
<1> QED  BY <1>2

LEMMA NothingShown ==
  ASSUME NEW reply, DOMAIN reply \cap {"items", "health"} = {}
  PROVE  Displays(reply) = {}
BY DEF Displays

LEMMA ItemsShown ==
  ASSUME NEW items, NEW held, \A item \in items : OfItem(item) \subseteq held
  PROVE  Displays([items |-> items]) \subseteq held
BY DEF Displays

\* Parts of an answer show what each of them shows.
LEMMA MergedShown ==
  ASSUME NEW fields, NEW reply
  PROVE  Displays(Over(fields, reply)) \subseteq Displays(fields) \cup Displays(reply)
<1> DEFINE both == Over(fields, reply)
<1>1. /\ DOMAIN both = DOMAIN fields \cup DOMAIN reply
      /\ \A x \in DOMAIN fields : both[x] = fields[x]
      /\ \A x \in DOMAIN reply \ DOMAIN fields : both[x] = reply[x]
  BY DEF Over
<1> SUFFICES Displays(both) \subseteq Displays(fields) \cup Displays(reply)
  OBVIOUS
<1> HIDE DEF both
<1>2. CASE "items" \in DOMAIN fields
  BY <1>1, <1>2 DEF Displays
<1>3. CASE "items" \notin DOMAIN fields /\ "items" \in DOMAIN reply
  BY <1>1, <1>3 DEF Displays
<1>4. CASE "items" \notin DOMAIN both
  <2>1. CASE "health" \in DOMAIN fields
    BY <1>1, <1>4, <2>1 DEF Displays
  <2>2. CASE "health" \notin DOMAIN fields /\ "health" \in DOMAIN reply
    BY <1>1, <1>4, <2>2 DEF Displays
  <2>3. CASE "health" \notin DOMAIN both
    BY <1>4, <2>3 DEF Displays
  <2> QED  BY <1>1, <2>1, <2>2, <2>3
<1> QED  BY <1>1, <1>2, <1>3, <1>4

-----------------------------------------------------------------------------
\* The repository that a row of an answer shows.
LEMMA RowsShow ==
  ASSUME NEW d, Tidy(d)
  PROVE  /\ \A r \in DOMAIN d.repositories : \A included : OfItem(RepositoryDto(d, r, included)) \subseteq {r}
         /\ \A c \in DOMAIN d.channels : OfItem(NotificationChannelDto(d, c)) = {d.channels[c].repository}
         /\ \A n \in DOMAIN d.rules : OfItem(NotificationRuleDto(d, n)) = {d.rules[n].repository}
         /\ \A n \in DOMAIN d.deliveries :
              OfItem(NotificationDeliveryDto(d, n)) = {d.rules[d.deliveries[n].rule].repository}
         /\ \A t \in DOMAIN d.tokens : \A at :
              /\ OfItem(McpAccessTokenDto(d, t, at)) = {} /\ McpAccessTokenDto(d, t, at).user = d.tokens[t].user
         /\ \A w \in DOMAIN d.runs :
              /\ "repository" \in DOMAIN WorkflowRunDto(d, w)
              /\ WorkflowRunDto(d, w).repository = d.runs[w].repository
              /\ OfItem(WorkflowRunDto(d, w)) = {d.runs[w].repository}
              /\ OfItem(DashboardWorkflowRunDto(d, w)) = {d.runs[w].repository}
<1>0. \A t \in ToSet(Tables) : \A i \in DOMAIN d[t] : WellFormed(t, d[t][i])
  BY DEF Tidy
<1>1. ASSUME NEW r \in DOMAIN d.repositories, NEW included
      PROVE  OfItem(RepositoryDto(d, r, included)) \subseteq {r}
  <2> DEFINE a == [members |-> IF included THEN RepositoryMemberSummaryDto(d, r) ELSE {}]
             b == Shown(d, "repositories", r, {})
             item == Over(a, b)
  <2>1. "repository" \notin DOMAIN d["repositories"][r]
    BY <1>0, TablesAre DEF WellFormed
  <2>2. DOMAIN a = {"members"}
    OBVIOUS
  <2>3. /\ DOMAIN b = {"id"} \cup DOMAIN d["repositories"][r] /\ b.id = r
        /\ \A f \in DOMAIN d["repositories"][r] \ {"id"} : b[f] = d["repositories"][r][f]
    BY DEF Shown
  <2>4. item = RepositoryDto(d, r, included)
    BY DEF RepositoryDto
  <2> HIDE DEF a, b
  <2>5. /\ DOMAIN item = DOMAIN a \cup DOMAIN b /\ \A x \in DOMAIN a : item[x] = a[x]
        /\ \A x \in DOMAIN b \ DOMAIN a : item[x] = b[x]
    BY DEF Over
  <2> HIDE DEF item
  <2>6. OfItem(item) \subseteq {r}
    BY <2>1, <2>2, <2>3, <2>5 DEF OfItem
  <2> QED  BY <2>4, <2>6
<1>2. ASSUME NEW c \in DOMAIN d.channels
      PROVE  OfItem(NotificationChannelDto(d, c)) = {d.channels[c].repository}
  <2> DEFINE item == NotificationChannelDto(d, c)
  <2>1. "repository" \in DOMAIN d["channels"][c]
    BY <1>0, TablesAre, FixedAre DEF WellFormed
  <2>2. "repository" \in DOMAIN item /\ item.repository = d.channels[c].repository
    BY <2>1 DEF NotificationChannelDto, Shown
  <2> HIDE DEF item
  <2>3. OfItem(item) = {d.channels[c].repository}
    BY <2>2 DEF OfItem
  <2> QED  BY <2>3 DEF item
<1>3. ASSUME NEW n \in DOMAIN d.rules
      PROVE  OfItem(NotificationRuleDto(d, n)) = {d.rules[n].repository}
  <2> DEFINE a == [channels |-> {d.links[l].channel : l \in {k \in DOMAIN d.links : d.links[k].rule = n}}]
             b == Shown(d, "rules", n, {})
             item == Over(a, b)
  <2>1. "repository" \in DOMAIN d["rules"][n]
    BY <1>0, TablesAre, FixedAre DEF WellFormed
  <2>2. DOMAIN a = {"channels"}
    OBVIOUS
  <2>3. /\ DOMAIN b = {"id"} \cup DOMAIN d["rules"][n] /\ b.id = n
        /\ \A f \in DOMAIN d["rules"][n] \ {"id"} : b[f] = d["rules"][n][f]
    BY DEF Shown
  <2>4. item = NotificationRuleDto(d, n)
    BY DEF NotificationRuleDto
  <2> HIDE DEF a, b
  <2>5. /\ DOMAIN item = DOMAIN a \cup DOMAIN b /\ \A x \in DOMAIN a : item[x] = a[x]
        /\ \A x \in DOMAIN b \ DOMAIN a : item[x] = b[x]
    BY DEF Over
  <2> HIDE DEF item
  <2>6. OfItem(item) = {d.rules[n].repository}
    BY <2>1, <2>2, <2>3, <2>5 DEF OfItem
  <2> QED  BY <2>4, <2>6
<1>4. ASSUME NEW n \in DOMAIN d.deliveries
      PROVE  OfItem(NotificationDeliveryDto(d, n)) = {d.rules[d.deliveries[n].rule].repository}
  <2> DEFINE a == [repository |-> d.rules[d.deliveries[n].rule].repository]
             b == Shown(d, "deliveries", n, {})
             item == Over(a, b)
  <2>1. DOMAIN a = {"repository"} /\ a.repository = d.rules[d.deliveries[n].rule].repository
    OBVIOUS
  <2>2. item = NotificationDeliveryDto(d, n)
    BY DEF NotificationDeliveryDto
  <2> HIDE DEF a, b
  <2>3. /\ DOMAIN item = DOMAIN a \cup DOMAIN b /\ \A x \in DOMAIN a : item[x] = a[x]
        /\ \A x \in DOMAIN b \ DOMAIN a : item[x] = b[x]
    BY DEF Over
  <2> HIDE DEF item
  <2>4. OfItem(item) = {d.rules[d.deliveries[n].rule].repository}
    BY <2>1, <2>3 DEF OfItem
  <2> QED  BY <2>2, <2>4
<1>5. ASSUME NEW t \in DOMAIN d.tokens, NEW at
      PROVE  /\ OfItem(McpAccessTokenDto(d, t, at)) = {}
             /\ McpAccessTokenDto(d, t, at).user = d.tokens[t].user
  <2> DEFINE token == d.tokens[t]
             a == [status |-> IF token.revoked THEN "REVOKED"
                              ELSE IF token.expiresAt # None /\ token.expiresAt <= at THEN "EXPIRED" ELSE "ACTIVE"]
             b == Shown(d, "tokens", t, {})
             item == Over(a, b)
  <2>1. "repository" \notin DOMAIN d["tokens"][t] /\ "remote" \notin DOMAIN d["tokens"][t] /\ "user" \in DOMAIN d["tokens"][t]
    BY <1>0, TablesAre, FixedAre DEF WellFormed
  <2>2. DOMAIN a = {"status"}
    OBVIOUS
  <2>3. /\ DOMAIN b = {"id"} \cup DOMAIN d["tokens"][t] /\ b.id = t
        /\ \A f \in DOMAIN d["tokens"][t] \ {"id"} : b[f] = d["tokens"][t][f]
    BY DEF Shown
  <2>4. item = McpAccessTokenDto(d, t, at)
    BY DEF McpAccessTokenDto
  <2> HIDE DEF a, b
  <2>5. /\ DOMAIN item = DOMAIN a \cup DOMAIN b /\ \A x \in DOMAIN a : item[x] = a[x]
        /\ \A x \in DOMAIN b \ DOMAIN a : item[x] = b[x]
    BY DEF Over
  <2> HIDE DEF item
  <2>6. OfItem(item) = {} /\ item.user = d.tokens[t].user
    BY <2>1, <2>2, <2>3, <2>5 DEF OfItem
  <2> QED  BY <2>4, <2>6
<1>6. ASSUME NEW w \in DOMAIN d.runs
      PROVE  /\ "repository" \in DOMAIN WorkflowRunDto(d, w)
             /\ WorkflowRunDto(d, w).repository = d.runs[w].repository
             /\ OfItem(WorkflowRunDto(d, w)) = {d.runs[w].repository}
             /\ OfItem(DashboardWorkflowRunDto(d, w)) = {d.runs[w].repository}
  <2> DEFINE a == [repositoryName |-> d.repositories[d.runs[w].repository].name]
             b == WorkflowRunDto(d, w)
             item == Over(a, b)
  <2>1. "repository" \in DOMAIN d["runs"][w]
    BY <1>0, TablesAre, FixedAre DEF WellFormed
  <2>2. "repository" \in DOMAIN b /\ b.repository = d.runs[w].repository
    BY <2>1 DEF WorkflowRunDto, Shown
  <2>3. item = DashboardWorkflowRunDto(d, w) /\ DOMAIN a = {"repositoryName"}
    BY DEF DashboardWorkflowRunDto
  <2> HIDE DEF a, b
  <2>4. /\ DOMAIN item = DOMAIN a \cup DOMAIN b /\ \A x \in DOMAIN a : item[x] = a[x]
        /\ \A x \in DOMAIN b \ DOMAIN a : item[x] = b[x]
    BY DEF Over
  <2> HIDE DEF item
  <2>5. OfItem(item) = {d.runs[w].repository} /\ OfItem(b) = {d.runs[w].repository}
    BY <2>2, <2>3, <2>4 DEF OfItem
  <2> QED  BY <2>2, <2>3, <2>5 DEF b
<1> QED  BY <1>1, <1>2, <1>3, <1>4, <1>5, <1>6

-----------------------------------------------------------------------------
\* Who runs a statement that does not authenticate, and what is known of the request then.
LEMMA RunsWith ==
  ASSUME NEW q, Runs(q), Advances(q), Head(Rest(q)) \notin Authenticators
  PROVE  /\ Grows(q) /\ RequestOk(q) /\ q \in DOMAIN requests /\ q \in DOMAIN requests' /\ ~Ended(q)
         /\ Head(Rest(q)) \in Statements(Op(q)) /\ (UserOf(q) = Nobody <=> Op(q) \in AnonymousOps)
         /\ requests'[q].call = requests[q].call /\ requests'[q].user = requests[q].user
         /\ Op(q)' = Op(q) /\ UserOf(q)' = UserOf(q)
<1>1. Grows(q) /\ RequestOk(q) /\ q \in DOMAIN requests /\ ~Ended(q)
  BY RunsGrows DEF Runs
<1>2. Head(Rest(q)) \in Statements(Op(q)) /\ (UserOf(q) = Nobody <=> Op(q) \in AnonymousOps)
  BY <1>1, Placed DEF RequestOk
<1>3. /\ requests'[q].call = requests[q].call /\ requests'[q].user = requests[q].user
      /\ q \in DOMAIN requests'
  BY <1>1 DEF Advances, Rest
<1> QED  BY <1>1, <1>2, <1>3 DEF Op, Call, UserOf

\* What a user may do now its request has observed, or is an administrator's who is gone.
LEMMA AbilityHeld ==
  ASSUME NEW q, Runs(q), Advances(q), Head(Rest(q)) \notin Authenticators, UserOf(q) # Nobody
  PROVE  Within(CreateForUser(UserOf(q), MembershipsOf(db, UserOf(q).id)), witness'[q])
<1> DEFINE u == UserOf(q).id
           ability == CreateForUser(UserOf(q), MembershipsOf(db, u))
           b == RightsNow(q, u)
<1>1. /\ Grows(q) /\ UserOk(q) /\ q \in DOMAIN requests /\ q \in DOMAIN requests' /\ ~Ended(q)
      /\ requests'[q].user = UserOf(q)
  BY RunsWith DEF RequestOk, UserOf
<1>2. ability.all => witness'[q].admin
  BY <1>1 DEF CreateForUser, UserOk, Grows
<1>3. CASE u \in DOMAIN db.users
  <2>1. db.users[u].role = UserOf(q).role
    BY <1>1, <1>3, FixedAre DEF UserOk, Stays
  <2>2. b.reads = ability.reads /\ b.manages = ability.manages
    BY <1>3, <2>1 DEF RightsNow, CreateForUser
  <2>3. b.reads \subseteq witness'[q].reads /\ b.manages \subseteq witness'[q].manages
    <3>1. requests'[q].user # Nobody /\ requests'[q].user.id = u
      BY <1>1
    <3> QED  BY <1>1, <3>1, WitnessHolds DEF Runs
  <2> QED  BY <1>2, <2>2, <2>3 DEF Within
<1>4. CASE u \notin DOMAIN db.users
  <2>1. MembershipsOf(db, u) = {}
    <3>1. \A m \in DOMAIN db.memberships : db.memberships[m].user \in DOMAIN db.users
      BY RefersTo, TablesAre DEF Runs, AccessInv, Tidy
    <3> QED  BY <1>4, <3>1 DEF MembershipsOf
  <2>2. ability.reads = {} /\ ability.manages = {}
    BY <2>1 DEF CreateForUser
  <2> QED  BY <1>2, <2>2 DEF Within
<1> QED  BY <1>3, <1>4

HeldThen(q) == IF Op(q) = "listDeliveries" THEN witness'[q].manages ELSE witness'[q].reads

\* An answer stays, or shows what the user has held.
LEMMA ReplyHeld ==
  ASSUME NEW q, Runs(q), Advances(q), Head(Rest(q)) \notin Authenticators, UserOf(q) # Nobody,
         Op(q) # "listTokens" \/ ~Succeeded(q)',
         \/ witness'[q].admin \/ requests'[q].reply = requests[q].reply
         \/ ShownRepositories(requests'[q].reply) \subseteq HeldThen(q)
  PROVE  ReplyOk(q)'
<1>1. Grows(q) /\ ReplyOk(q) /\ Op(q)' = Op(q)
  BY RunsWith DEF RequestOk
<1>2. Held(q)' = HeldThen(q)
  BY <1>1 DEF Held, HeldThen
<1>3. witness'[q].admin \/ ShownRepositories(requests'[q].reply) \subseteq HeldThen(q)
  BY <1>1 DEF ReplyOk, Grows, Held, HeldThen
<1> QED  BY <1>1, <1>2, <1>3 DEF ReplyOk

LEMMA AnsweredKept ==
  ASSUME NEW q, Runs(q), Advances(q), TablesStep, Head(Rest(q)) \notin Authenticators \cup Leading \cup Sighting,
         Op(q) # "listTokens" \/ ~Succeeded(q)',
         \/ witness'[q].admin \/ requests'[q].reply = requests[q].reply
         \/ ShownRepositories(requests'[q].reply) \subseteq HeldThen(q)
  PROVE  RequestOk(q)'
BY RunsWith, ReplyHeld, OwnKept

\* An ability is read.
LEMMA SightKept ==
  ASSUME NEW q, Runs(q), GetReadAbility(q) \/ GetManagedRepositoryIds(q)
  PROVE  UNCHANGED db /\ Advances(q) /\ RequestOk(q)'
<1> DEFINE s == Head(Rest(q))
           ability == CreateForUser(UserOf(q), MembershipsOf(db, UserOf(q).id))
<1>1. UNCHANGED db /\ s \in Sighting /\ Proceed(q, [ability |-> ability])
  BY DEF GetReadAbility, GetManagedRepositoryIds, At, Rest, Sighting
<1>2. s \notin Authenticators \cup Leading
  BY <1>1 DEF Sighting, Authenticators, Leading, Finding
<1>3. Advances(q)
  BY <1>1, AbilityAdvances DEF Rest, Runs, IInv
<1>4. requests'[q].ability = ability /\ requests'[q].reply = requests[q].reply
  BY <1>1 DEF Proceed, Over, IInv, Runs, RequestInv, RequestFields
<1>5. TablesStep
  BY <1>1, NothingWritten DEF Runs, AccessInv
<1>6. ASSUME UserOf(q) # Nobody
      PROVE  ReplyOk(q)' /\ Within(requests'[q].ability, witness'[q])
  <2>1. Op(q) # "listTokens"
    <3>1. s \in Statements(Op(q))
      BY <1>2, <1>3, RunsWith
    <3> QED  BY <1>1, <3>1, OwnStatementsAre DEF Sighting
  <2>2. ReplyOk(q)'
    BY <1>2, <1>3, <1>4, <1>6, <2>1, ReplyHeld
  <2>3. Within(requests'[q].ability, witness'[q])
    BY <1>2, <1>3, <1>4, <1>6, AbilityHeld
  <2> QED  BY <2>2, <2>3
<1>7. RequestOk(q)'
  BY <1>1, <1>2, <1>3, <1>5, <1>6, RunsWith, OwnKept
<1> QED  BY <1>1, <1>3, <1>7

-----------------------------------------------------------------------------
(***************************************************************************)
(* The statements that show what an ability allows.                        *)
(***************************************************************************)
\* The user has held what the ability allows that the statement goes by.
LEMMA SeeingHolds ==
  ASSUME NEW q, Runs(q), Advances(q), Head(Rest(q)) \in Seeing
  PROVE  /\ Head(Rest(q)) \notin Authenticators \cup Leading \cup Sighting
         /\ Op(q) # "listTokens" /\ Within(requests[q].ability, witness'[q])
         /\ HeldThen(q) = IF Head(Rest(q)) = "ReadDeliveries" THEN witness'[q].manages ELSE witness'[q].reads
<1> DEFINE s == Head(Rest(q))
<1>1. s \notin Authenticators \cup Leading \cup Sighting
  BY DEF Seeing, Authenticators, Leading, Finding, Sighting
<1>2. /\ Grows(q) /\ RequestOk(q) /\ ~Ended(q) /\ s \in Statements(Op(q))
      /\ UserOf(q) = Nobody <=> Op(q) \in AnonymousOps
  BY <1>1, RunsWith
<1>3. /\ s # "ReadDeliveries" => Op(q) \notin AnonymousOps \cup {"listTokens", "listDeliveries"}
      /\ s = "ReadDeliveries" => Op(q) = "listDeliveries"
  BY <1>2, StatementOwners DEF SightStatements
<1>4. UserOf(q) # Nobody /\ Op(q) # "listTokens"
  BY <1>2, <1>3 DEF AnonymousOps
<1>5. Within(requests[q].ability, witness'[q])
  BY <1>2, <1>4 DEF RequestOk, SightOk, Within, Grows
<1> QED  BY <1>1, <1>3, <1>4, <1>5 DEF HeldThen

\* A part of an answer that shows what the user has held.
LEMMA PartKept ==
  ASSUME NEW q, Runs(q), NEW fields, Part(q, fields), Head(Rest(q)) \in Seeing,
         Advances(q) => witness'[q].admin \/ Displays(fields) \subseteq HeldThen(q)
  PROVE  UNCHANGED db /\ Advances(q) /\ RequestOk(q)'
<1>1. UNCHANGED db /\ Advances(q)
  BY PartAdvances DEF Part, Runs, IInv
<1>2. Head(Rest(q)) \notin Authenticators \cup Leading \cup Sighting /\ Op(q) # "listTokens"
  BY <1>1, SeeingHolds
<1>3. Grows(q) /\ RequestOk(q) /\ (UserOf(q) # Nobody)
  <2>1. Grows(q) /\ RequestOk(q) /\ Head(Rest(q)) \in Statements(Op(q)) /\ (UserOf(q) = Nobody <=> Op(q) \in AnonymousOps)
    BY <1>1, <1>2, RunsWith
  <2>2. Op(q) \notin AnonymousOps
    BY <2>1, StatementOwners DEF SightStatements, AnonymousOps
  <2> QED  BY <2>1, <2>2
<1>4. requests'[q].reply = IF requests[q].reply = None THEN fields ELSE Over(fields, requests[q].reply)
  <2>1. q \in DOMAIN requests /\ DOMAIN requests[q] = RequestFields
    BY DEF Runs, IInv, RequestInv
  <2> QED  BY <2>1 DEF Part, Answer, Proceed, Over, RequestFields
<1>5. witness'[q].admin \/ ShownRepositories(requests'[q].reply) \subseteq HeldThen(q)
  <2>1. SUFFICES ASSUME ~witness'[q].admin
                 PROVE  ShownRepositories(requests'[q].reply) \subseteq HeldThen(q)
    OBVIOUS
  <2>2. Displays(fields) \subseteq HeldThen(q)
    BY <1>1, <2>1
  <2>3. ShownRepositories(requests[q].reply) \subseteq HeldThen(q)
    BY <1>3, <2>1 DEF RequestOk, ReplyOk, Held, HeldThen, Grows
  <2>4. Displays(requests'[q].reply) \subseteq HeldThen(q)
    <3>1. CASE requests[q].reply = None
      BY <1>4, <2>2, <3>1
    <3>2. CASE requests[q].reply # None
      <4>1. Displays(requests[q].reply) \subseteq HeldThen(q)
        BY <2>3, <3>2, ShownAre
      <4>2. Displays(requests'[q].reply) \subseteq Displays(fields) \cup Displays(requests[q].reply)
        BY <1>4, <3>2, MergedShown
      <4> QED  BY <2>2, <4>1, <4>2
    <3> QED  BY <3>1, <3>2
  <2> QED  BY <2>4, ShownAre
<1>6. RequestOk(q)'
  <2>1. TablesStep
    BY <1>1, NothingWritten DEF Runs, AccessInv
  <2> QED  BY <1>1, <1>2, <1>5, <2>1, AnsweredKept
<1> QED  BY <1>1, <1>6

\* Runs that are visible, as an answer shows them.
LEMMA RunsShown ==
  ASSUME NEW q, Runs(q), Advances(q), Head(Rest(q)) \in Seeing \ {"ReadDeliveries"},
         NEW ids, ids \subseteq VisibleRuns(db, AbilityOf(q))
  PROVE  witness'[q].admin \/ Displays(Items(q, ids)) \subseteq HeldThen(q)
<1>1. SUFFICES ASSUME ~witness'[q].admin
               PROVE  \A item \in {Dto(q, w) : w \in ids} : OfItem(item) \subseteq HeldThen(q)
  BY ItemsShown DEF Items
<1>2. SUFFICES ASSUME NEW w \in ids
               PROVE  OfItem(Dto(q, w)) \subseteq HeldThen(q)
  OBVIOUS
<1>3. w \in DOMAIN db.runs /\ MayRead(AbilityOf(q), db.runs[w].repository)
  BY DEF VisibleRuns
<1>4. OfItem(Dto(q, w)) = {db.runs[w].repository}
  <2>1. /\ OfItem(WorkflowRunDto(db, w)) = {db.runs[w].repository}
        /\ OfItem(DashboardWorkflowRunDto(db, w)) = {db.runs[w].repository}
    BY <1>3, RowsShow DEF Runs, AccessInv
  <2> QED  BY <2>1 DEF Dto
<1>5. db.runs[w].repository \in HeldThen(q)
  BY <1>1, <1>3, SeeingHolds DEF Within, MayRead, AbilityOf
<1> QED  BY <1>4, <1>5

LEMMA VisibleParts ==
  ASSUME NEW q, NEW ids
  PROVE  /\ Matching(q, ids) \subseteq ids /\ Waits(q, ids) \subseteq ids
         /\ \A d, count : Newest(d, ids, count) \subseteq ids
BY DEF Matching, Waits, Newest

\* A report is a part of an answer, or refused.
LEMMA ReportKept ==
  ASSUME NEW q, Runs(q), NEW fields, Report(q, fields), Head(Rest(q)) \in Seeing,
         Advances(q) => witness'[q].admin \/ Displays(fields) \subseteq HeldThen(q)
  PROVE  UNCHANGED db /\ Advances(q) /\ RequestOk(q)'
<1>1. CASE Part(q, fields)
  BY <1>1, PartKept
<1>2. CASE Refuse(q, "badRequest") /\ UNCHANGED db
  <2>1. Advances(q)
    BY <1>2, RefuseAdvances DEF Runs, IInv
  <2>2. requests'[q].reply = requests[q].reply
    <3>1. q \in DOMAIN requests /\ DOMAIN requests[q] = RequestFields
      BY DEF Runs, IInv, RequestInv
    <3> QED  BY <1>2, <3>1 DEF Refuse, RequestFields
  <2>3. TablesStep
    BY <1>2, NothingWritten DEF Runs, AccessInv
  <2>4. RequestOk(q)'
    BY <2>1, <2>2, <2>3, SeeingHolds, AnsweredKept
  <2> QED  BY <1>2, <2>1, <2>4
<1> QED  BY <1>1, <1>2 DEF Report

\* The ranking names repositories of runs that are reported.
LEMMA HealthShown ==
  ASSUME NEW runs, NEW query
  PROVE  \A entry \in RepositoryHealth(runs, query) : \E r \in runs : entry.repository = r.repository
<1> DEFINE completed == CompletedRuns(runs, query, Completed)
           entries == {Health(completed, r.repository) : r \in completed}
           Position(entry) == Cardinality({e \in entries : WorseThan(e, entry)}) + 1
<1>1. ASSUME NEW e \in entries
      PROVE  \E r \in runs : e.repository = r.repository /\ "repository" \in DOMAIN e
  <2>1. PICK r \in completed : e = Health(completed, r.repository)
    BY <1>1
  <2>2. r \in runs
    BY <2>1 DEF CompletedRuns
  <2> HIDE DEF completed, entries
  <2>3. e.repository = r.repository /\ "repository" \in DOMAIN e
    BY <2>1 DEF Health
  <2> QED  BY ONLY <2>2, <2>3
<1>2. ASSUME NEW e, "repository" \in DOMAIN e, NEW n
      PROVE  Over([position |-> n], e).repository = e.repository
  BY <1>2 DEF Over
<1>3. ASSUME NEW entry \in RepositoryHealth(runs, query)
      PROVE  \E e \in entries : \E n : entry = Over([position |-> n], e)
  BY <1>3 DEF RepositoryHealth
<1> HIDE DEF entries
<1>4. ASSUME NEW entry \in RepositoryHealth(runs, query)
      PROVE  \E r \in runs : entry.repository = r.repository
  <2>1. PICK e, n : e \in entries /\ entry = Over([position |-> n], e)
    BY <1>3
  <2>2. PICK r \in runs : e.repository = r.repository /\ "repository" \in DOMAIN e
    BY <1>1, <2>1
  <2>3. entry.repository = e.repository
    BY <1>2, <2>1, <2>2
  <2> QED  BY <2>2, <2>3
<1> QED  BY <1>4

\* The identifiers of runs are read before the runs.
LEMMA IdsKept ==
  ASSUME NEW q, Runs(q), FindNeedsAttention(q) \/ FindCurrent(q)
  PROVE  UNCHANGED db /\ Advances(q) /\ RequestOk(q)'
<1>1. UNCHANGED db /\ Head(Rest(q)) \in Seeing /\ Advances(q)
  BY QueryAdvances DEF FindNeedsAttention, FindCurrent, At, Rest, Seeing, QueryStep, Runs, IInv
<1>2. requests'[q].reply = requests[q].reply
  <2>1. q \in DOMAIN requests /\ DOMAIN requests[q] = RequestFields
    BY DEF Runs, IInv, RequestInv
  <2>2. PICK ids : Proceed(q, [found |-> ids])
    BY DEF FindNeedsAttention, FindCurrent
  <2> QED  BY <2>1, <2>2 DEF Proceed, Over, RequestFields
<1>3. TablesStep
  BY <1>1, NothingWritten DEF Runs, AccessInv
<1> QED  BY <1>1, <1>2, <1>3, SeeingHolds, AnsweredKept

\* The queries of runs.
LEMMA QueryKept ==
  ASSUME NEW q, Runs(q), QueryStep(q)
  PROVE  UNCHANGED db /\ Advances(q) /\ RequestOk(q)'
<1> DEFINE s == Head(Rest(q))
           visible == VisibleRuns(db, AbilityOf(q))
           Ok == UNCHANGED db /\ Advances(q) /\ RequestOk(q)'
<1>1. ASSUME NEW ids, ids \subseteq visible, Part(q, Items(q, ids)), s \in Seeing \ {"ReadDeliveries"}
      PROVE  Ok
  <2>1. Advances(q) => witness'[q].admin \/ Displays(Items(q, ids)) \subseteq HeldThen(q)
    BY <1>1, RunsShown
  <2> QED  BY <1>1, <2>1, PartKept
<1>2. ASSUME NEW fields, DOMAIN fields \cap {"items", "health"} = {}, Part(q, fields) \/ Report(q, fields), s \in Seeing
      PROVE  Ok
  <2>1. Displays(fields) = {}
    BY <1>2, NothingShown
  <2> QED  BY <1>2, <2>1, PartKept, ReportKept
<1> SUFFICES Ok
  OBVIOUS
<1> HIDE DEF Ok
<1>3. CASE ReadRuns(q)
  <2>1. Matching(q, visible) \subseteq visible
    BY VisibleParts
  <2> QED  BY <1>1, <1>3, <2>1 DEF ReadRuns, At, Rest, Seeing
<1>4. CASE ReadLatest(q)
  <2>1. Newest(db, visible, setup.latest) \subseteq visible
    BY VisibleParts
  <2> QED  BY <1>1, <1>4, <2>1 DEF ReadLatest, At, Rest, Seeing
<1>5. CASE ReadByIds(q)
  <2> DEFINE read == Waits(q, Matching(q, Found(q) \cap visible))
  <2>1. read \subseteq visible
    <3>1. Matching(q, Found(q) \cap visible) \subseteq visible
      BY VisibleParts
    <3> QED  BY <3>1, VisibleParts
  <2>2. Part(q, Items(q, read)) /\ s \in Seeing \ {"ReadDeliveries"}
    BY <1>5 DEF ReadByIds, At, Rest, Seeing
  <2> HIDE DEF read
  <2> QED  BY <1>1, <2>1, <2>2
<1>6. CASE CountRuns(q) \/ CountAttention(q) \/ CountAwaiting(q)
  <2>1. PICK total : Part(q, [total |-> total]) /\ s \in Seeing
    BY <1>6 DEF CountRuns, CountAttention, CountAwaiting, At, Rest, Seeing
  <2>2. DOMAIN [total |-> total] \cap {"items", "health"} = {}
    OBVIOUS
  <2> QED  BY <1>2, <2>1, <2>2
<1>7. CASE FindNeedsAttention(q) \/ FindCurrent(q)
  BY <1>7, IdsKept DEF Ok
<1>8. CASE ReadCompleted(q)
  <2> DEFINE fields == Summary(Reported(q), Input(q))
  <2>1. DOMAIN fields \cap {"items", "health"} = {}
    BY DEF Summary
  <2>2. Report(q, fields) /\ s \in Seeing
    BY <1>8 DEF ReadCompleted, At, Rest, Seeing
  <2> HIDE DEF fields
  <2> QED  BY <1>2, <2>1, <2>2
<1>9. CASE CountActive(q)
  <2>1. PICK a, b, c : Report(q, [queuedCount |-> a, runningCount |-> b, awaitingApprovalCount |-> c]) /\ s \in Seeing
    BY <1>9 DEF CountActive, At, Rest, Seeing
  <2>2. DOMAIN [queuedCount |-> a, runningCount |-> b, awaitingApprovalCount |-> c] \cap {"items", "health"} = {}
    OBVIOUS
  <2> QED  BY <1>2, <2>1, <2>2
<1>10. CASE SumCurrent(q)
  <2>1. PICK a : Report(q, [durationMs |-> a]) /\ s \in Seeing
    BY <1>10 DEF SumCurrent, At, Rest, Seeing
  <2>2. DOMAIN [durationMs |-> a] \cap {"items", "health"} = {}
    OBVIOUS
  <2> QED  BY <1>2, <2>1, <2>2
<1>11. CASE SumRetained(q)
  <2>1. PICK a : Report(q, [retainedMs |-> a]) /\ s \in Seeing
    BY <1>11 DEF SumRetained, At, Rest, Seeing
  <2>2. DOMAIN [retainedMs |-> a] \cap {"items", "health"} = {}
    OBVIOUS
  <2> QED  BY <1>2, <2>1, <2>2
<1>12. CASE ReadTrend(q)
  <2>1. PICK a : Report(q, [buckets |-> a]) /\ s \in Seeing
    BY <1>12 DEF ReadTrend, At, Rest, Seeing
  <2>2. DOMAIN [buckets |-> a] \cap {"items", "health"} = {}
    OBVIOUS
  <2> QED  BY <1>2, <2>1, <2>2
<1>13. CASE ReadHealth(q)
  <2> DEFINE health == RepositoryHealth(Reported(q), Input(q))
  <2>1. Report(q, [health |-> health]) /\ s \in Seeing \ {"ReadDeliveries"}
    BY <1>13 DEF ReadHealth, At, Rest, Seeing
  <2>2. ASSUME Advances(q), ~witness'[q].admin, NEW entry \in health
        PROVE  entry.repository \in HeldThen(q)
    <3>1. PICK r \in Reported(q) : entry.repository = r.repository
      BY <2>2, HealthShown
    <3>2. PICK w \in visible : r = WorkflowRunDto(db, w)
      BY <3>1 DEF Reported, RowsOf
    <3>3. w \in DOMAIN db.runs /\ MayRead(AbilityOf(q), db.runs[w].repository)
      BY <3>2 DEF VisibleRuns
    <3>4. r.repository = db.runs[w].repository
      BY <3>2, <3>3, RowsShow DEF Runs, AccessInv
    <3>5. db.runs[w].repository \in HeldThen(q)
      BY <2>1, <2>2, <3>3, SeeingHolds DEF Within, MayRead, AbilityOf
    <3> QED  BY <3>1, <3>4, <3>5
  <2> HIDE DEF health
  <2>3. Displays([health |-> health]) = {entry.repository : entry \in health}
    BY DEF Displays
  <2>4. Advances(q) => witness'[q].admin \/ Displays([health |-> health]) \subseteq HeldThen(q)
    BY <2>2, <2>3
  <2> QED  BY <2>1, <2>4, ReportKept DEF Ok
<1> QED  BY <1>3, <1>4, <1>5, <1>6, <1>7, <1>8, <1>9, <1>10, <1>11, <1>12, <1>13 DEF QueryStep, Ok

-----------------------------------------------------------------------------
\* What becomes of a request.
LEMMA Becomes ==
  ASSUME NEW q, Runs(q)
  PROVE  /\ \A reply : Answer(q, reply) =>
              /\ Advances(q) /\ requests'[q].reply = reply /\ requests'[q].rest = Tail(Rest(q))
              /\ requests'[q].found = requests[q].found
         /\ \A x : Proceed(q, [found |-> x]) =>
              /\ Advances(q) /\ requests'[q].reply = requests[q].reply /\ requests'[q].rest = Tail(Rest(q))
              /\ requests'[q].found = x
         /\ \A status : Refuse(q, status) =>
              Advances(q) /\ requests'[q].reply = requests[q].reply /\ requests'[q].rest = <<>>
         /\ \A reply : Return(q, reply) =>
              Advances(q) /\ requests'[q].reply = reply /\ requests'[q].rest = <<>>
<1>1. q \in DOMAIN requests /\ DOMAIN requests[q] = RequestFields /\ RequestInv
  BY DEF Runs, IInv, RequestInv
<1>2. ASSUME NEW reply, Answer(q, reply)
      PROVE  /\ requests'[q].reply = reply /\ requests'[q].rest = Tail(Rest(q))
             /\ requests'[q].found = requests[q].found
  BY <1>1, <1>2 DEF Answer, Proceed, Over, RequestFields, Rest
<1>3. ASSUME NEW x, Proceed(q, [found |-> x])
      PROVE  /\ requests'[q].reply = requests[q].reply /\ requests'[q].rest = Tail(Rest(q))
             /\ requests'[q].found = x
  BY <1>1, <1>3 DEF Proceed, Over, RequestFields, Rest
<1>4. ASSUME NEW status, Refuse(q, status)
      PROVE  requests'[q].reply = requests[q].reply /\ requests'[q].rest = <<>>
  BY <1>1, <1>4 DEF Refuse, RequestFields
<1>5. ASSUME NEW reply, Return(q, reply)
      PROVE  requests'[q].reply = reply /\ requests'[q].rest = <<>>
  BY <1>1, <1>5 DEF Return, RequestFields
<1> QED  BY <1>1, <1>2, <1>3, <1>4, <1>5, AnswerAdvances, FoundAdvances, RefuseAdvances, ReturnAdvances

\* A statement of a list that shows what the ability allows.
LEMMA ListKept ==
  ASSUME NEW q, Runs(q), UNCHANGED db, Head(Rest(q)) \in Seeing,
         \/ \E status : Refuse(q, status)
         \/ \E items : /\ Answer(q, [items |-> items])
                       /\ Advances(q) /\ ~witness'[q].admin => \A item \in items : OfItem(item) \subseteq HeldThen(q)
  PROVE  Advances(q) /\ RequestOk(q)'
<1>1. TablesStep
  BY NothingWritten DEF Runs, AccessInv
<1>2. Advances(q)
  BY Becomes
<1>3. Head(Rest(q)) \notin Authenticators \cup Leading \cup Sighting /\ Op(q) # "listTokens"
  BY <1>2, SeeingHolds
<1>4. \/ witness'[q].admin \/ requests'[q].reply = requests[q].reply
      \/ ShownRepositories(requests'[q].reply) \subseteq HeldThen(q)
  <2>1. CASE \E status : Refuse(q, status)
    BY <2>1, Becomes
  <2>2. ASSUME NEW items, Answer(q, [items |-> items]), ~witness'[q].admin,
               \A item \in items : OfItem(item) \subseteq HeldThen(q)
        PROVE  ShownRepositories(requests'[q].reply) \subseteq HeldThen(q)
    <3>1. requests'[q].reply = [items |-> items]
      BY <2>2, Becomes
    <3>2. Displays(requests'[q].reply) \subseteq HeldThen(q)
      BY <2>2, <3>1, ItemsShown
    <3> QED  BY <3>2, ShownAre
  <2> QED  BY <1>2, <2>1, <2>2
<1> QED  BY <1>1, <1>2, <1>3, <1>4, AnsweredKept

\* The repositories.
LEMMA RepositoriesKept ==
  ASSUME NEW q, Runs(q), ReadRepositories(q) \/ CountRepositories(q) \/ ReadRepository(q)
  PROVE  UNCHANGED db /\ Advances(q) /\ RequestOk(q)'
<1> DEFINE s == Head(Rest(q))
<1>1. ASSUME NEW r \in DOMAIN db.repositories, Sees(q, r), Advances(q), ~witness'[q].admin,
             s \in Seeing \ {"ReadDeliveries"}, NEW included
      PROVE  OfItem(RepositoryDto(db, r, included)) \subseteq HeldThen(q)
  <2>1. OfItem(RepositoryDto(db, r, included)) \subseteq {r}
    BY RowsShow DEF Runs, AccessInv
  <2>2. r \in HeldThen(q)
    BY <1>1, SeeingHolds DEF Within, MayRead, Sees
  <2> QED  BY <2>1, <2>2
<1>2. CASE ReadRepositories(q)
  <2> DEFINE items == {RepositoryDto(db, r, Call(q).op = "queryRepositories") : r \in VisibleRepositories(q)}
  <2>1. Part(q, [items |-> items]) /\ s \in Seeing \ {"ReadDeliveries"}
    BY <1>2 DEF ReadRepositories, At, Rest, Seeing
  <2>2. ASSUME Advances(q), ~witness'[q].admin
        PROVE  \A item \in items : OfItem(item) \subseteq HeldThen(q)
    BY <1>1, <2>1, <2>2 DEF VisibleRepositories
  <2> HIDE DEF items
  <2>3. Advances(q) => witness'[q].admin \/ Displays([items |-> items]) \subseteq HeldThen(q)
    BY <2>2, ItemsShown
  <2> QED  BY <2>1, <2>3, PartKept
<1>3. CASE CountRepositories(q)
  <2>1. PICK total : Part(q, [total |-> total]) /\ s \in Seeing
    BY <1>3 DEF CountRepositories, At, Rest, Seeing
  <2>2. Displays([total |-> total]) = {}
    BY NothingShown
  <2> QED  BY <2>1, <2>2, PartKept
<1>4. CASE ReadRepository(q)
  <2> DEFINE r == Input(q).repository
             items == {RepositoryDto(db, r, Call(q).op = "findRepository")}
  <2>1. UNCHANGED db /\ s \in Seeing \ {"ReadDeliveries"}
    BY <1>4 DEF ReadRepository, At, Rest, Seeing
  <2>2. CASE \E status : Refuse(q, status)
    BY <2>1, <2>2, ListKept
  <2>3. CASE r \in DOMAIN db.repositories /\ Sees(q, r) /\ Answer(q, [items |-> items])
    <3>1. Advances(q) /\ ~witness'[q].admin => \A item \in items : OfItem(item) \subseteq HeldThen(q)
      BY <1>1, <2>1, <2>3
    <3> HIDE DEF items
    <3> QED  BY <2>1, <2>3, <3>1, ListKept
  <2> QED  BY <1>4, <2>2, <2>3 DEF ReadRepository
<1> QED  BY <1>2, <1>3, <1>4

\* Channels, rules and their deliveries.
LEMMA ListsKept ==
  ASSUME NEW q, Runs(q), ReadChannels(q) \/ ReadRules(q) \/ ReadDeliveries(q)
  PROVE  UNCHANGED db /\ Advances(q) /\ RequestOk(q)'
<1> DEFINE s == Head(Rest(q))
<1>1. CASE ReadChannels(q)
  <2> DEFINE items == {NotificationChannelDto(db, c) : c \in ListVisible(q, "channels")}
  <2>1. UNCHANGED db /\ s \in Seeing \ {"ReadDeliveries"} /\ Answer(q, [items |-> items])
    BY <1>1 DEF ReadChannels, At, Rest, Seeing
  <2>2. ASSUME Advances(q), ~witness'[q].admin, NEW c \in ListVisible(q, "channels")
        PROVE  OfItem(NotificationChannelDto(db, c)) \subseteq HeldThen(q)
    <3>1. c \in DOMAIN db.channels /\ Sees(q, db.channels[c].repository)
      BY <2>2 DEF ListVisible
    <3>2. OfItem(NotificationChannelDto(db, c)) = {db.channels[c].repository}
      BY <3>1, RowsShow DEF Runs, AccessInv
    <3> QED  BY <2>1, <2>2, <3>1, <3>2, SeeingHolds DEF Within, MayRead, Sees
  <2>3. Advances(q) /\ ~witness'[q].admin => \A item \in items : OfItem(item) \subseteq HeldThen(q)
    BY <2>2
  <2> HIDE DEF items
  <2> QED  BY <2>1, <2>3, ListKept
<1>2. CASE ReadRules(q)
  <2> DEFINE items == {NotificationRuleDto(db, n) : n \in ListVisible(q, "rules")}
  <2>1. UNCHANGED db /\ s \in Seeing \ {"ReadDeliveries"} /\ Answer(q, [items |-> items])
    BY <1>2 DEF ReadRules, At, Rest, Seeing
  <2>2. ASSUME Advances(q), ~witness'[q].admin, NEW n \in ListVisible(q, "rules")
        PROVE  OfItem(NotificationRuleDto(db, n)) \subseteq HeldThen(q)
    <3>1. n \in DOMAIN db.rules /\ Sees(q, db.rules[n].repository)
      BY <2>2 DEF ListVisible
    <3>2. OfItem(NotificationRuleDto(db, n)) = {db.rules[n].repository}
      BY <3>1, RowsShow DEF Runs, AccessInv
    <3> QED  BY <2>1, <2>2, <3>1, <3>2, SeeingHolds DEF Within, MayRead, Sees
  <2>3. Advances(q) /\ ~witness'[q].admin => \A item \in items : OfItem(item) \subseteq HeldThen(q)
    BY <2>2
  <2> HIDE DEF items
  <2> QED  BY <2>1, <2>3, ListKept
<1>3. CASE ReadDeliveries(q)
  <2> DEFINE Of(n) == db.rules[db.deliveries[n].rule].repository
             listed == {k \in DOMAIN db.deliveries : MayManage(requests[q].ability, Of(k)) /\ Asked(q, Of(k))}
             items == {NotificationDeliveryDto(db, n) : n \in listed}
  <2>1. UNCHANGED db /\ s \in Seeing /\ s = "ReadDeliveries" /\ Answer(q, [items |-> items])
    BY <1>3 DEF ReadDeliveries, At, Rest, Seeing
  <2>2. ASSUME Advances(q), ~witness'[q].admin, NEW n \in listed
        PROVE  OfItem(NotificationDeliveryDto(db, n)) \subseteq HeldThen(q)
    <3>1. n \in DOMAIN db.deliveries /\ MayManage(requests[q].ability, Of(n))
      BY <2>2
    <3>2. OfItem(NotificationDeliveryDto(db, n)) = {Of(n)}
      BY <3>1, RowsShow DEF Runs, AccessInv
    <3>3. Of(n) \in HeldThen(q)
      BY <2>1, <2>2, <3>1, SeeingHolds DEF Within, MayManage
    <3> QED  BY <3>2, <3>3
  <2>3. Advances(q) /\ ~witness'[q].admin => \A item \in items : OfItem(item) \subseteq HeldThen(q)
    BY <2>2
  <2> HIDE DEF items
  <2> QED  BY <2>1, <2>3, ListKept
<1> QED  BY <1>1, <1>2, <1>3

-----------------------------------------------------------------------------
(***************************************************************************)
(* The statements that look at what a later one relies on.                 *)
(***************************************************************************)
\* A row that is there keeps what is fixed of it.
LEMMA FoundStays ==
  ASSUME FreshRows', UNCHANGED db, NEW t \in DOMAIN Creators, NEW i, i \in DOMAIN db[t],
         NEW value, db[t][i][Fixed[t]] = value
  PROVE  /\ i \in DOMAIN db'[t] => db'[t][i][Fixed[t]] = value
         /\ \A p \in DOMAIN requests' : MayCreate(p, t)' => p # i
BY DEF FreshRows

\* A statement that looks, and the one that comes after it.
LEMMA LookingAt ==
  ASSUME NEW q, Runs(q), Advances(q), Head(Rest(q)) \in Leading, UNCHANGED db
  PROVE  /\ TablesStep /\ CreatorsStep /\ FreshRows' /\ Head(Rest(q)) \notin Authenticators \cup Sighting
         /\ \/ Ended(q)'
            \/ /\ Rest(q)' = Tail(Rest(q)) /\ MayFollow(Head(Rest(q)), Head(Rest(q)'))
               /\ Head(Rest(q)') \in Statements(Op(q))
<1>1. Head(Rest(q)) \notin Authenticators \cup Sighting
  BY DEF Leading, Authenticators, Finding, Sighting
<1>2. TablesStep /\ CreatorsStep /\ FreshRows' /\ RequestOk(q) /\ q \in DOMAIN requests /\ ~Ended(q)
  BY NothingWritten, RunsGrows DEF Runs, AccessInv
<1>3. Ended(q)' \/ (Rest(q)' = Tail(Rest(q)) /\ Tail(Rest(q)) # <<>>)
  BY <1>2 DEF Advances, Ended, Rest
<1> QED  BY <1>1, <1>2, <1>3, Placed DEF RequestOk

LEMMA LookedKept ==
  ASSUME NEW q, Runs(q), Advances(q), Head(Rest(q)) \in Leading, UNCHANGED db,
         requests'[q].reply = requests[q].reply \/ (UserOf(q) = Nobody) \/ ShownRepositories(requests'[q].reply) = {},
         IntakeOk(q)', UserOf(q) # Nobody /\ ~Ended(q)' => EditOk(q)'
  PROVE  RequestOk(q)'
<1>1. TablesStep /\ Head(Rest(q)) \notin Authenticators \cup Sighting
  BY LookingAt
<1>2. Op(q) # "listTokens"
  <2>1. Head(Rest(q)) \in Statements(Op(q))
    BY <1>1, RunsWith
  <2> QED  BY <2>1, OwnStatementsAre DEF Leading, Finding
<1> QED  BY <1>1, <1>2, ReplyHeld, RunsWith, OwnKept

\* Where the intake of deliveries is not concerned.
LEMMA NoIntake ==
  ASSUME NEW q, Runs(q), Advances(q), Head(Rest(q)) \in Leading \ {"InsertDelivery", "EnqueueWebhook"}, UNCHANGED db
  PROVE  IntakeOk(q)'
<1>1. CASE Ended(q)'
  BY <1>1 DEF IntakeOk, Unfinished, At, Ended
<1>2. CASE MayFollow(Head(Rest(q)), Head(Rest(q)'))
  BY <1>2 DEF IntakeOk, Unfinished, At, Rest, MayFollow
<1> QED  BY <1>1, <1>2, LookingAt

LEMMA FindTokenKept ==
  ASSUME NEW q, Runs(q), FindToken(q)
  PROVE  UNCHANGED db /\ Advances(q) /\ RequestOk(q)'
<1> DEFINE i == Input(q).id
           u == UserOf(q).id
<1>1. UNCHANGED db /\ Head(Rest(q)) = "FindToken"
  BY DEF FindToken, At, Rest
<1>2. Head(Rest(q)) \in Leading \ {"InsertDelivery", "EnqueueWebhook"}
  BY <1>1 DEF Leading
<1>3. \/ Return(q, None) \/ Refuse(q, "forbidden")
      \/ /\ i \in DOMAIN db.tokens /\ IsOwnerOrAdmin(q, db.tokens[i].user)
         /\ Proceed(q, [found |-> db.tokens[i]])
  BY DEF FindToken
<1>4. Advances(q)
  BY <1>3, Becomes
<1>5. requests'[q].reply = requests[q].reply \/ ShownRepositories(requests'[q].reply) = {}
  BY <1>3, Becomes, ShownAre
<1>6. /\ Grows(q) /\ RequestOk(q) /\ Op(q)' = Op(q) /\ UserOf(q)' = UserOf(q) /\ Head(Rest(q)) \in Statements(Op(q))
      /\ requests'[q].call = requests[q].call
  BY <1>2, <1>4, LookingAt, RunsWith, <1>1
<1>7. Op(q) = "revokeToken"
  BY <1>1, <1>6, StatementOwners
<1>8. ASSUME UserOf(q) # Nobody, ~Ended(q)'
      PROVE  EditOk(q)'
  <2>1. i \in DOMAIN db.tokens /\ IsOwnerOrAdmin(q, db.tokens[i].user)
    <3>1. ~Return(q, None) /\ ~Refuse(q, "forbidden")
      BY <1>8, Becomes DEF Ended
    <3> QED  BY <1>3, <3>1
  <2>2. Head(Rest(q)') \in {"FindToken", "RevokeToken"}
    BY <1>1, <1>2, <1>4, <1>7, <1>8, LookingAt, OwnStatementsAre
  <2>3. "revokeToken" \notin DOMAIN Configured
    BY DEF Configured
  <2>4. IsAdmin(UserOf(q)) => witness'[q].admin
    BY <1>6, <1>8 DEF RequestOk, UserOk, Grows
  <2>5. db.tokens[i].user = u =>
          /\ i \in DOMAIN db'.tokens => db'.tokens[i].user = u
          /\ \A p \in DOMAIN requests' : MayCreate(p, "tokens")' => p # i
    <3>1. "tokens" \in DOMAIN Creators /\ Fixed["tokens"] = "user" /\ FreshRows'
      BY <1>1, <1>2, <1>4, CreatorsAre, FixedAre, LookingAt
    <3> QED  BY <1>1, <2>1, <3>1, FoundStays
  <2>6. Input(q)' = Input(q)
    BY <1>6 DEF Input
  <2>7. Fixed["tokens"] = "user"
    BY FixedAre
  <2>8. witness'[q].admin \/ Stays("tokens", Input(q).id, UserOf(q).id)'
    BY <1>6, <2>1, <2>4, <2>5, <2>6, <2>7 DEF IsOwnerOrAdmin, Stays
  <2> QED  BY <1>6, <1>7, <2>2, <2>3, <2>8 DEF EditOk, Editing
<1>9. IntakeOk(q)'
  BY <1>1, <1>2, <1>4, NoIntake
<1> QED  BY <1>1, <1>2, <1>4, <1>5, <1>8, <1>9, LookedKept

\* A channel or a rule is found: it stays in its repository.
LEMMA FindConfiguredKept ==
  ASSUME NEW q, Runs(q), FindChannel(q) \/ FindRule(q)
  PROVE  UNCHANGED db /\ Advances(q) /\ RequestOk(q)'
<1> DEFINE i == Input(q).id
           s == Head(Rest(q))
<1>1. PICK t \in {"channels", "rules"} :
        /\ Find(q, t, i, "notFound")
        /\ s = IF t = "channels" THEN "FindChannel" ELSE "FindRule"
  BY DEF FindChannel, FindRule, At, Rest
<1>2. s \in Leading \ {"InsertDelivery", "EnqueueWebhook"} /\ UNCHANGED db
  BY <1>1 DEF Leading, Finding, Find
<1>3. \/ Refuse(q, "notFound")
      \/ i \in DOMAIN db[t] /\ Proceed(q, [found |-> Over([id |-> i], db[t][i])])
  BY <1>1 DEF Find
<1>4. Advances(q) /\ requests'[q].reply = requests[q].reply
  BY <1>3, Becomes
<1>5. /\ Op(q)' = Op(q) /\ s \in Statements(Op(q)) /\ requests'[q].call = requests[q].call
  BY <1>2, <1>4, LookingAt, RunsWith
<1>6. Op(q) \in DOMAIN Configured /\ Configured[Op(q)] = t
  <2>1. Op(q) \in IF t = "channels" THEN {"updateChannel", "deleteChannel"} ELSE {"updateRule", "deleteRule"}
    BY <1>1, <1>5, EditingOwners
  <2> QED  BY <2>1 DEF Configured
<1>7. ASSUME ~Ended(q)'
      PROVE  EditOk(q)'
  <2>1. i \in DOMAIN db[t] /\ requests'[q].found = Over([id |-> i], db[t][i])
    <3>1. ~Refuse(q, "notFound")
      BY <1>7, Becomes DEF Ended
    <3> QED  BY <1>3, <3>1, Becomes
  <2>2. PICK r : r = db[t][i].repository
    OBVIOUS
  <2>3. requests'[q].found.repository = r
    <3>1. "repository" \in DOMAIN db[t][i]
      BY <2>1, TablesAre, FixedAre DEF Runs, AccessInv, Tidy, WellFormed
    <3> QED  BY <2>1, <2>2, <3>1 DEF Over
  <2>4. t \in DOMAIN Creators /\ Fixed[t] = "repository" /\ FreshRows'
    BY <1>2, <1>4, CreatorsAre, FixedAre, LookingAt
  <2>5. /\ i \in DOMAIN db'[t] => db'[t][i][Fixed[t]] = r
        /\ \A p \in DOMAIN requests' : MayCreate(p, t)' => p # i
    BY <1>2, <2>1, <2>2, <2>4, FoundStays
  <2>6. Input(q)' = Input(q) /\ Found(q)'.repository = r
    BY <1>5, <2>3 DEF Input, Found
  <2>7. Stays(Configured[Op(q)], Input(q).id, Found(q).repository)'
    BY <1>5, <1>6, <2>5, <2>6 DEF Stays
  <2>8. Head(Rest(q)') \notin Editing \cup {"CheckChannels", "RevokeToken"}
    <3>1. MayFollow(s, Head(Rest(q)'))
      BY <1>2, <1>4, <1>7, LookingAt
    <3> QED  BY <1>1, <3>1 DEF MayFollow, Editing
  <2> QED  BY <2>7, <2>8 DEF EditOk, Editing
<1>8. IntakeOk(q)'
  BY <1>2, <1>4, NoIntake
<1> QED  BY <1>2, <1>4, <1>7, <1>8, LookedKept

-----------------------------------------------------------------------------
\* What was found stays fixed while the statements run that rely on it.
LEMMA ConfiguredKept ==
  ASSUME NEW q, Runs(q), Advances(q), UNCHANGED db, Head(Rest(q)) \in {"AssertCanManage", "CheckChannels"},
         UserOf(q) # Nobody, requests'[q].found = requests[q].found
  PROVE  /\ Op(q) \in DOMAIN Configured => Stays(Configured[Op(q)], Input(q).id, Found(q).repository)'
         /\ ManagedRepository(q)' = ManagedRepository(q)
<1>1. Head(Rest(q)) \in Leading
  BY DEF Leading
<1>2. /\ TablesStep /\ CreatorsStep /\ RequestOk(q) /\ requests'[q].call = requests[q].call /\ Op(q)' = Op(q)
      /\ ~Ended(q)
  BY <1>1, LookingAt, RunsWith
<1>3. Input(q)' = Input(q) /\ Found(q)' = Found(q) /\ Call(q)' = Call(q)
  BY <1>2 DEF Input, Found, Call
<1>4. ASSUME Op(q) \in DOMAIN Configured
      PROVE  Stays(Configured[Op(q)], Input(q).id, Found(q).repository)'
  <2>1. PICK t, i, r : t = Configured[Op(q)] /\ i = Input(q).id /\ r = Found(q).repository
    OBVIOUS
  <2>2. Stays(t, i, r)
    BY <1>2, <1>4, <2>1 DEF RequestOk, EditOk, Finding
  <2>3. t \in DOMAIN Creators
    BY <1>4, <2>1, CreatorsAre DEF Configured
  <2>4. /\ i \in DOMAIN db'[t] => db'[t][i][Fixed[t]] = r
        /\ \A p \in DOMAIN requests' : MayCreate(p, t)' => p # i
    BY <1>2, <2>2, <2>3, StaysKept
  <2> QED  BY <1>2, <1>3, <2>1, <2>4 DEF Stays
<1> QED  BY <1>3, <1>4 DEF ManagedRepository

LEMMA AssertCanManageKept ==
  ASSUME NEW q, Runs(q), AssertCanManageRepository(q)
  PROVE  UNCHANGED db /\ Advances(q) /\ RequestOk(q)'
<1> DEFINE s == Head(Rest(q))
           ability == CreateForUser(UserOf(q), MembershipsOf(db, UserOf(q).id))
<1>1. s = "AssertCanManage" /\ UNCHANGED db
  BY DEF AssertCanManageRepository, At, Rest
<1>2. s \in Leading \ {"InsertDelivery", "EnqueueWebhook"}
  BY <1>1 DEF Leading
<1>3. \/ Refuse(q, "forbidden")
      \/ MayManage(ability, ManagedRepository(q)) /\ Proceed(q, [found |-> Found(q)])
  BY DEF AssertCanManageRepository
<1>4. Advances(q) /\ requests'[q].reply = requests[q].reply
  BY <1>3, Becomes
<1>5. ASSUME UserOf(q) # Nobody, ~Ended(q)'
      PROVE  EditOk(q)'
  <2>1. MayManage(ability, ManagedRepository(q)) /\ requests'[q].found = requests[q].found
    <3>1. ~Refuse(q, "forbidden")
      BY <1>5, Becomes DEF Ended
    <3> QED  BY <1>3, <3>1, Becomes DEF Found
  <2>2. s \notin Authenticators /\ Op(q)' = Op(q)
    BY <1>1, <1>2, <1>4, LookingAt, RunsWith
  <2>3. Within(ability, witness'[q])
    BY <1>4, <1>5, <2>2, AbilityHeld
  <2>4. witness'[q].admin \/ ManagedRepository(q) \in witness'[q].manages
    BY <2>1, <2>3 DEF Within, MayManage
  <2>5. /\ Op(q) \in DOMAIN Configured => Stays(Configured[Op(q)], Input(q).id, Found(q).repository)'
        /\ ManagedRepository(q)' = ManagedRepository(q)
    BY <1>1, <1>4, <1>5, <2>1, ConfiguredKept
  <2>6. Head(Rest(q)') \notin {"CreateRule", "UpdateRule", "RevokeToken"}
    <3>1. MayFollow(s, Head(Rest(q)'))
      BY <1>1, <1>2, <1>4, <1>5, LookingAt
    <3> QED  BY <1>1, <3>1 DEF MayFollow
  <2> QED  BY <2>2, <2>4, <2>5, <2>6 DEF EditOk
<1>6. IntakeOk(q)'
  BY <1>1, <1>2, <1>4, NoIntake
<1> QED  BY <1>1, <1>2, <1>4, <1>5, <1>6, LookedKept

LEMMA CheckChannelsKept ==
  ASSUME NEW q, Runs(q), AssertChannelsBelongToRepository(q)
  PROVE  UNCHANGED db /\ Advances(q) /\ RequestOk(q)'
<1> DEFINE s == Head(Rest(q))
<1>1. s = "CheckChannels" /\ UNCHANGED db
  BY DEF AssertChannelsBelongToRepository, At, Rest
<1>2. s \in Leading \ {"InsertDelivery", "EnqueueWebhook"}
  BY <1>1 DEF Leading
<1>3. \/ Refuse(q, "forbidden")
      \/ /\ "channels" \in DOMAIN Input(q) => ChannelsBelong(Input(q).channels, ManagedRepository(q))
         /\ Proceed(q, [found |-> Found(q)])
  BY DEF AssertChannelsBelongToRepository
<1>4. Advances(q) /\ requests'[q].reply = requests[q].reply
  BY <1>3, Becomes
<1>5. ASSUME UserOf(q) # Nobody, ~Ended(q)'
      PROVE  EditOk(q)'
  <2>1. /\ "channels" \in DOMAIN Input(q) => ChannelsBelong(Input(q).channels, ManagedRepository(q))
        /\ requests'[q].found = requests[q].found
    <3>1. ~Refuse(q, "forbidden")
      BY <1>5, Becomes DEF Ended
    <3> QED  BY <1>3, <3>1, Becomes DEF Found
  <2>2. /\ s \notin Authenticators /\ Op(q)' = Op(q) /\ RequestOk(q) /\ Grows(q) /\ ~Ended(q)
        /\ requests'[q].call = requests[q].call /\ FreshRows'
    BY <1>1, <1>2, <1>4, LookingAt, RunsWith
  <2>3. witness'[q].admin \/ ManagedRepository(q) \in witness'[q].manages
    BY <1>1, <1>5, <2>2 DEF RequestOk, EditOk, Grows
  <2>4. /\ Op(q) \in DOMAIN Configured => Stays(Configured[Op(q)], Input(q).id, Found(q).repository)'
        /\ ManagedRepository(q)' = ManagedRepository(q)
    BY <1>1, <1>4, <1>5, <2>1, ConfiguredKept
  <2>5. Input(q)' = Input(q)
    BY <2>2 DEF Input
  <2>6. ASSUME "channels" \in DOMAIN Input(q), NEW c \in ToSet(Input(q).channels)
        PROVE  /\ c \in DOMAIN db'["channels"] => db'["channels"][c][Fixed["channels"]] = ManagedRepository(q)
               /\ \A p \in DOMAIN requests' : MayCreate(p, "channels")' => p # c
    <3>1. PICK r : r = ManagedRepository(q)
      OBVIOUS
    <3>2. c \in DOMAIN db["channels"] /\ db["channels"][c][Fixed["channels"]] = r
      BY <2>1, <2>6, <3>1, FixedAre DEF ChannelsBelong
    <3>3. "channels" \in DOMAIN Creators
      BY CreatorsAre
    <3>4. /\ c \in DOMAIN db'["channels"] => db'["channels"][c][Fixed["channels"]] = r
          /\ \A p \in DOMAIN requests' : MayCreate(p, "channels")' => p # c
      BY <1>1, <2>2, <3>2, <3>3, FoundStays
    <3> QED  BY <3>1, <3>4
  <2>7. "channels" \in DOMAIN Input(q)' =>
          \A c \in ToSet(Input(q)'.channels) : Stays("channels", c, ManagedRepository(q))'
    BY <2>4, <2>5, <2>6 DEF Stays
  <2>8. Head(Rest(q)') # "RevokeToken"
    <3>1. MayFollow(s, Head(Rest(q)'))
      BY <1>1, <1>2, <1>4, <1>5, LookingAt
    <3> QED  BY <1>1, <3>1 DEF MayFollow
  <2> QED  BY <2>2, <2>3, <2>4, <2>7, <2>8 DEF EditOk
<1>6. IntakeOk(q)'
  BY <1>1, <1>2, <1>4, NoIntake
<1> QED  BY <1>1, <1>2, <1>4, <1>5, <1>6, LookedKept

\* The intake of a delivery up to its commit.
LEMMA IntakeStepKept ==
  ASSUME NEW q, Runs(q), InsertDelivery(q) \/ EnqueueWebhookRepository(q)
  PROVE  UNCHANGED db /\ Advances(q) /\ RequestOk(q)'
<1> DEFINE s == Head(Rest(q))
<1>1. s \in {"InsertDelivery", "EnqueueWebhook"} /\ UNCHANGED db
  BY DEF InsertDelivery, EnqueueWebhookRepository, At, Rest
<1>2. s \in Leading
  BY <1>1 DEF Leading
<1>3. Advances(q)
  BY AccountAdvances DEF AccountStep, Runs, IInv
<1>4. /\ Op(q)' = Op(q) /\ RequestOk(q) /\ q \in DOMAIN requests /\ q \in DOMAIN requests' /\ ~Ended(q)
      /\ requests'[q].call = requests[q].call /\ s \in Statements(Op(q))
      /\ UserOf(q) = Nobody <=> Op(q) \in AnonymousOps
  BY <1>1, <1>2, <1>3, LookingAt, RunsWith
<1>5. UserOf(q) = Nobody
  BY <1>1, <1>4, StatementOwners
<1>6. Input(q)' = Input(q)
  BY <1>4 DEF Input
<1>7. ASSUME ~Ended(q)'
      PROVE  IntakeOk(q)'
  <2>1. CASE InsertDelivery(q)
    <3>1. Input(q).account \in DOMAIN db.accounts
      <4>1. ~(\E status : Refuse(q, status)) /\ ~(\E reply : Return(q, reply))
        BY <1>7, Becomes DEF Ended
      <4> QED  BY <2>1, <4>1 DEF InsertDelivery, DeliveryRow
    <3>2. Head(Rest(q)') # "CommitDelivery"
      <4>1. s = "InsertDelivery" /\ MayFollow(s, Head(Rest(q)'))
        BY <1>1, <1>2, <1>3, <1>7, <2>1, LookingAt DEF InsertDelivery, At, Rest
      <4> QED  BY <4>1 DEF MayFollow
    <3> QED  BY <1>1, <1>6, <3>1, <3>2 DEF IntakeOk, At, Rest
  <2>2. CASE EnqueueWebhookRepository(q)
    <3>1. Input(q).account \in DOMAIN db.accounts
      <4>1. Unfinished(q)
        BY <2>2 DEF EnqueueWebhookRepository, Unfinished
      <4> QED  BY <1>4, <4>1 DEF RequestOk, IntakeOk
    <3>2. \A r \in Found(q)' : r \in DOMAIN db.repositories /\ db.repositories[r].account = Input(q).account
      <4>1. PICK found : /\ Proceed(q, [found |-> found])
                         /\ \A r \in found : r \in DOMAIN db.repositories /\ db.repositories[r].account = Input(q).account
        BY <2>2 DEF EnqueueWebhookRepository
      <4>2. Found(q)' = found
        BY <4>1, Becomes DEF Found
      <4> QED  BY <4>1, <4>2
    <3> QED  BY <1>1, <1>6, <3>1, <3>2 DEF IntakeOk
  <2> QED  BY <2>1, <2>2
<1>8. IntakeOk(q)'
  BY <1>7 DEF IntakeOk, Unfinished, At, Ended
<1> QED  BY <1>1, <1>2, <1>3, <1>5, <1>8, LookedKept

-----------------------------------------------------------------------------
(***************************************************************************)
(* The statements that write.                                              *)
(***************************************************************************)
\* Nothing but these rows of a table changes.
OnlyRows(t, ids) ==
  /\ db'.settings = db.settings
  /\ \A u \in ToSet(Tables) : \A i \in Changed(u) : u = t /\ i \in ids

\* A row is written.
LEMMA RowWritten ==
  ASSUME NEW q, Runs(q), Advances(q), NEW t \in ToSet(Tables) \ {"links"}, NEW id, NEW row,
         db' = WithRow(db, t, id, row), Refers(db, t, row), WellFormed(t, row),
         t \in DOMAIN Fixed /\ id \in DOMAIN db[t] => row[Fixed[t]] = db[t][id][Fixed[t]],
         t \in DOMAIN Creators /\ id \notin DOMAIN db[t] => id = q /\ MayCreate(q, t) /\ requests'[q].rest = <<>>
  PROVE  TablesStep /\ OnlyRows(t, {id})
<1>1. Tidy(db)
  BY DEF Runs, AccessInv
<1>2. /\ Tidy(db') /\ Keeps(db, db')
      /\ \A u \in Names \ {t} : db'[u] = db[u]
      /\ DOMAIN db'[t] = DOMAIN db[t] \cup {id} /\ db'[t][id] = row
      /\ \A i \in DOMAIN db[t] \ {id} : db'[t][i] = db[t][i]
  BY <1>1, RowTidy
<1>3. \A u \in ToSet(Tables) : DOMAIN db[u] \subseteq DOMAIN db'[u] /\ (u # t => db'[u] = db[u])
  BY <1>2 DEF Names
<1>4. \A u \in DOMAIN Creators : \A i \in DOMAIN db'[u] \ DOMAIN db[u] :
        /\ i \in DOMAIN requests /\ MayCreate(i, u)
        /\ i \in DOMAIN requests' => requests'[i].rest = <<>>
  <2>1. DOMAIN Creators \subseteq ToSet(Tables)
    BY CreatorsAre, FixedAre
  <2>2. q \in DOMAIN requests
    BY DEF Runs
  <2> QED  BY <1>2, <1>3, <2>1, <2>2
<1>5. TablesStep
  <2>1. DOMAIN db.accounts \subseteq DOMAIN db'.accounts
    BY <1>3, TablesAre
  <2> QED  BY <1>2, <1>4, <2>1 DEF TablesStep
<1>6. OnlyRows(t, {id})
  <2>1. "settings" \in Names \ {t}
    BY TablesAre DEF Names
  <2> QED  BY <1>2, <1>3, <2>1 DEF OnlyRows, Changed
<1> QED  BY <1>5, <1>6

LEMMA NoRows ==
  ASSUME UNCHANGED db, NEW t
  PROVE  OnlyRows(t, {})
BY DEF OnlyRows, Changed

LEMMA PutWritten ==
  ASSUME NEW q, Runs(q), NEW t \in ToSet(Tables) \ {"links"}, NEW id, NEW row, NEW reply, Put(q, t, id, row, reply),
         WellFormed(t, row), t \in DOMAIN Fixed /\ id \in DOMAIN db[t] => row[Fixed[t]] = db[t][id][Fixed[t]],
         t \in DOMAIN Creators => id \in DOMAIN db[t]
  PROVE  /\ Advances(q) /\ TablesStep /\ OnlyRows(t, {id})
         /\ requests'[q].reply \in {reply, requests[q].reply}
<1>1. CASE (\E status : Refuse(q, status)) /\ UNCHANGED db
  BY <1>1, Becomes, NothingWritten, NoRows DEF OnlyRows, Runs, AccessInv
<1>2. CASE ~Violates(db, t, id, row) /\ db' = WithRow(db, t, id, row) /\ Answer(q, reply)
  <2>1. Refers(db, t, row)
    BY <1>2 DEF Violates
  <2>2. Advances(q) /\ requests'[q].reply = reply
    BY <1>2, Becomes
  <2> QED  BY <1>2, <2>1, <2>2, RowWritten
<1> QED  BY <1>1, <1>2 DEF Put

LEMMA CreateWritten ==
  ASSUME NEW q, Runs(q), NEW t \in ToSet(Tables) \ {"links"}, NEW row, NEW reply, Create(q, t, row, reply),
         WellFormed(t, row), t \in DOMAIN Creators => Op(q) \in Creators[t] /\ Tail(Rest(q)) = <<>>
  PROVE  /\ Advances(q) /\ TablesStep /\ OnlyRows(t, {q})
         /\ \/ /\ requests'[q].reply = reply /\ requests'[q].rest = Tail(Rest(q))
               /\ q \in DOMAIN db'[t] /\ db'[t][q] = row /\ q \notin DOMAIN db[t]
            \/ requests'[q].reply = requests[q].reply /\ requests'[q].rest = <<>> /\ UNCHANGED db
<1>1. CASE (\E status : Refuse(q, status)) /\ UNCHANGED db
  BY <1>1, Becomes, NothingWritten, NoRows DEF OnlyRows, Runs, AccessInv
<1>2. CASE /\ q \notin DOMAIN db[t] /\ ~Violates(db, t, q, row) /\ db' = WithRow(db, t, q, row)
           /\ Answer(q, reply)
  <2>1. Refers(db, t, row)
    BY <1>2 DEF Violates
  <2>2. Advances(q) /\ requests'[q].reply = reply /\ requests'[q].rest = Tail(Rest(q))
    BY <1>2, Becomes
  <2>3. t \in DOMAIN Creators => MayCreate(q, t)
    BY DEF MayCreate, Runs
  <2>4. q \in DOMAIN db'[t] /\ db'[t][q] = row
    BY <1>2, <2>1, RowTidy DEF Runs, AccessInv
  <2> QED  BY <1>2, <2>1, <2>2, <2>3, <2>4, RowWritten
<1> QED  BY <1>1, <1>2 DEF Create

\* An update of fields that are not fixed.
LEMMA UpdateWritten ==
  ASSUME NEW q, Runs(q), NEW t \in ToSet(Tables) \ {"links"}, NEW id, NEW fields, NEW reply,
         Update(q, t, id, fields, reply), DOMAIN fields \cap {"repository", "remote"} = {},
         t \in DOMAIN Fixed => Fixed[t] \notin DOMAIN fields
  PROVE  /\ Advances(q) /\ TablesStep /\ OnlyRows(t, {id})
         /\ requests'[q].reply \in {reply, requests[q].reply}
         /\ db' = db \/ id \in DOMAIN db[t]
<1>1. CASE (\E status : Refuse(q, status)) /\ UNCHANGED db
  BY <1>1, Becomes, NothingWritten, NoRows DEF OnlyRows, Runs, AccessInv
<1>2. CASE id \in DOMAIN db[t] /\ Put(q, t, id, Over(fields, db[t][id]), reply)
  <2> DEFINE row == Over(fields, db[t][id])
  <2>1. WellFormed(t, db[t][id])
    BY <1>2 DEF Runs, AccessInv, Tidy
  <2>2. /\ DOMAIN row = DOMAIN fields \cup DOMAIN db[t][id]
        /\ \A f \in DOMAIN db[t][id] \ DOMAIN fields : row[f] = db[t][id][f]
    BY DEF Over
  <2> HIDE DEF row
  <2>3. WellFormed(t, row)
    BY <2>1, <2>2 DEF WellFormed
  <2>4. t \in DOMAIN Fixed => row[Fixed[t]] = db[t][id][Fixed[t]]
    BY <2>1, <2>2 DEF WellFormed
  <2>5. Put(q, t, id, row, reply)
    BY <1>2 DEF row
  <2> QED  BY <1>2, <2>3, <2>4, <2>5, PutWritten
<1> QED  BY <1>1, <1>2 DEF Update

LEMMA DeleteWritten ==
  ASSUME NEW q, Runs(q), NEW t \in ToSet(Tables) \ {"repositories"}, NEW id, Delete(q, t, id),
         t = "accounts" => \A p \in DOMAIN requests : Unfinished(p) => Input(p).account # id
  PROVE  /\ Advances(q) /\ TablesStep
         /\ requests'[q].reply \in {None, requests[q].reply}
         /\ db' = db \/ (id \in DOMAIN db[t] /\ db' = WithoutRows(db, t, {id}))
<1>1. CASE (\E status : Refuse(q, status)) /\ UNCHANGED db
  BY <1>1, Becomes, NothingWritten DEF Runs, AccessInv
<1>2. CASE id \in DOMAIN db[t] /\ db' = WithoutRows(db, t, {id}) /\ Answer(q, None)
  <2>1. Tidy(db)
    BY DEF Runs, AccessInv
  <2>2. Tidy(db') /\ Keeps(db, db') /\ IsPart(db', db)
    BY <1>2, <2>1, RemovalTidy
  <2>3. \A i \in DOMAIN db.accounts \ DOMAIN db'.accounts : t = "accounts" /\ i = id
    <3>1. References["accounts"] = {} /\ "accounts" \in ToSet(Tables)
      BY ReferencesAre, TablesAre
    <3>2. CASE t = "accounts"
      BY <1>2, <2>1, <3>1, <3>2, Cascades DEF Tidy
    <3>3. CASE t # "accounts"
      BY <1>2, <2>1, <3>1, <3>3, Unreached DEF SameRows
    <3> QED  BY <3>2, <3>3
  <2>4. \A u \in DOMAIN Creators : DOMAIN db'[u] \subseteq DOMAIN db[u]
    BY <2>2, CreatorsAre, FixedAre DEF IsPart
  <2>5. TablesStep
    BY <2>2, <2>3, <2>4 DEF TablesStep
  <2> QED  BY <1>2, <2>5, Becomes
<1> QED  BY <1>1, <1>2 DEF Delete
=============================================================================
