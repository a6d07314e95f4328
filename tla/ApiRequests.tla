----------------------------- MODULE ApiRequests -----------------------------
(***************************************************************************)
(* Requests to the API and the statements they run.  A request runs the    *)
(* statements of its route one after the other; every statement is one     *)
(* round trip to the database or to the provider, so that the statements   *)
(* of the requests under way interleave.  What a handler computes between  *)
(* two statements belongs to the statement before.  A request that fails   *)
(* keeps its status and runs no further statement.                         *)
(***************************************************************************)
EXTENDS ApiTables

CONSTANT Setups      \* the surroundings explored: what there is, who asks for what

VARIABLES
  setup,      \* the surrounding, one of Setups
  now,        \* the time
  db,         \* the tables
  requests,   \* the requests and what they have read so far
  issued      \* the access tokens that were signed, with the password they were issued for

apiVars == <<setup, now, db, requests, issued>>

\* Before it is authenticated a request has no user.
Nobody == [id |-> None]

Waiting(call, route) ==
  [call |-> call, rest |-> route, user |-> Nobody, found |-> None, ability |-> None,
   status |-> "ok", reply |-> None]
Call(q) == requests[q].call
Input(q) == requests[q].call.input
UserOf(q) == requests[q].user
Found(q) == requests[q].found

At(q, statement) == requests[q].rest # <<>> /\ Head(requests[q].rest) = statement
Ended(q) == requests[q].rest = <<>>
Succeeded(q) == Ended(q) /\ requests[q].status = "ok"

\* The request runs on with what the statement brought.
Proceed(q, fields) ==
  requests' = [requests EXCEPT ![q] = Over(fields, Over([rest |-> Tail(requests[q].rest)], @))]
Answer(q, reply) == Proceed(q, [reply |-> reply])
\* The handler returns before its last statement, or throws.
Return(q, reply) == requests' = [requests EXCEPT ![q].rest = <<>>, ![q].reply = reply]
Refuse(q, status) == requests' = [requests EXCEPT ![q].rest = <<>>, ![q].status = status]

Find(q, t, id, status) ==
  /\ IF id \in DOMAIN db[t] THEN Proceed(q, [found |-> Over([id |-> id], db[t][id])]) ELSE Refuse(q, status)
  /\ UNCHANGED db

\* create, upsert, update and delete of one row.  A row that is created has the identifier of
\* its request, which is @id: no other row has it.  The reply is read in the same statement.
Create(q, t, row, reply) ==
  IF q \in DOMAIN db[t] \/ Violates(db, t, q, row) THEN Refuse(q, MapPrismaException.P2002) /\ UNCHANGED db
  ELSE db' = WithRow(db, t, q, row) /\ Answer(q, reply)
Put(q, t, id, row, reply) ==
  IF Violates(db, t, id, row) THEN Refuse(q, MapPrismaException.P2002) /\ UNCHANGED db
  ELSE db' = WithRow(db, t, id, row) /\ Answer(q, reply)
Update(q, t, id, fields, reply) ==
  IF id \in DOMAIN db[t] THEN Put(q, t, id, Over(fields, db[t][id]), reply)
  ELSE Refuse(q, MapPrismaException.P2025) /\ UNCHANGED db
Delete(q, t, id) ==
  IF id \in DOMAIN db[t] THEN db' = WithoutRows(db, t, {id}) /\ Answer(q, None)
  ELSE Refuse(q, MapPrismaException.P2025) /\ UNCHANGED db

\* The fields of an update that its input has.
Given(input, fields) == [f \in DOMAIN input \cap fields |-> input[f]]
-----------------------------------------------------------------------------
(***************************************************************************)
(* Authentication of a request.                                            *)
(***************************************************************************)
IsLive(d, token) ==
  token.user \in DOMAIN d.users /\ d.users[token.user].authVersion = token.version

\* Mutant of Authenticate: the version of the token is not compared.
AuthenticateById(q, administrator) ==
  LET token == Call(q).token
  IN /\ UNCHANGED db
     /\ IF token.user \notin DOMAIN db.users THEN Refuse(q, "unauthorized")
        ELSE IF administrator /\ ~IsAdmin(db.users[token.user]) THEN Refuse(q, "forbidden")
        ELSE Proceed(q, [user |-> ToAuthenticatedUser(db, token.user)])

\* The handlers for administrators look at the role before their first statement.
Authenticate(q, administrator) ==
  LET token == Call(q).token
  IN /\ UNCHANGED db
     /\ IF ~IsLive(db, token) THEN Refuse(q, "unauthorized")
        ELSE IF administrator /\ ~IsAdmin(db.users[token.user]) THEN Refuse(q, "forbidden")
        ELSE Proceed(q, [user |-> ToAuthenticatedUser(db, token.user)])

AuthenticateUser(q) == At(q, "Authenticate") /\ Authenticate(q, FALSE)
AuthenticateAdmin(q) == At(q, "AuthenticateAdmin") /\ Authenticate(q, TRUE)

\* Routes: the sequences of statements of an operation, several where Promise.all starts
\* statements together, whose order is open.
Guarded(statements) == {<<"Authenticate">> \o statements}
AdminOnly(statements) == {<<"AuthenticateAdmin">> \o statements}

\* The process stops, or a statement fails: what is not committed is rolled back.
Crash(q) == setup.fails /\ ~Ended(q) /\ Refuse(q, "crashed") /\ UNCHANGED <<db, issued>>
TimePasses == now < setup.until /\ now' = now + 1
=============================================================================
