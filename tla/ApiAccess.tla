------------------------------ MODULE ApiAccess ------------------------------
(***************************************************************************)
(* Accounts of users and what gives access: sign-in, first-run setup,      *)
(* passwords, profiles and avatars, the administration of users, MCP       *)
(* tokens, and the settings of the installation.                           *)
(***************************************************************************)
EXTENDS ApiRequests

LOCAL INSTANCE SequencesExt

AuthRoutes ==
  [signIn |-> {<<"SignIn">>},
   setupStatus |-> {<<"ReadSetupStatus">>},
   setup |-> {<<"LockSetup", "CountUsers", "CreateAdmin">>},
   me |-> Guarded(<<"ReadMe">>),
   updateProfile |-> Guarded(<<"FindForProfile", "UpdateProfile">>),
   updateAvatar |-> Guarded(<<"SaveAvatar">>),
   deleteAvatar |-> Guarded(<<"RemoveAvatar">>),
   signOut |-> Guarded(<<>>),
   updatePassword |-> Guarded(<<"FindForPassword", "UpdatePassword">>)]

UsersRoutes ==
  [queryUsers |-> AdminOnly(<<"ReadUsers">>),
   avatar |-> Guarded(<<"ReadAvatar">>),
   createUser |-> AdminOnly(<<"CreateUser">>),
   removeUser |-> AdminOnly(<<"RemoveUser">>)]

McpTokensRoutes ==
  [listTokens |-> Guarded(<<"ReadTokens">>),
   createToken |-> Guarded(<<"CreateToken">>),
   revokeToken |-> Guarded(<<"FindToken", "RevokeToken">>)]

SettingsRoutes ==
  [getSettings |-> Guarded(<<"ReadSettings">>),
   updateSettings |-> AdminOnly(<<"UpsertSettings">>)]

\* scripts/reset-password.ts, run by the operator.
ResetRoutes == [resetPassword |-> {<<"FindByUsername", "ResetPassword">>}]
-----------------------------------------------------------------------------
(***************************************************************************)
(* AuthService.                                                            *)
(***************************************************************************)
\* A token is signed for the row d has of the user.
CreateAccessToken(q, d, u) ==
  LET version == d.users[u].authVersion
  IN /\ issued' = issued \cup {[user |-> u, version |-> version, password |-> d.users[u].password]}
     /\ Answer(q, [token |-> [user |-> u, version |-> version], user |-> ToAuthenticatedUser(d, u)])

Named(username) == {u \in DOMAIN db.users : db.users[u].username = username}

SignIn(q) ==
  LET known == {u \in Named(Input(q).username) : db.users[u].password = Input(q).password}
  IN /\ At(q, "SignIn")
     /\ \/ known = {} /\ Refuse(q, "unauthorized") /\ UNCHANGED issued
        \/ \E u \in known : CreateAccessToken(q, db, u)
     /\ UNCHANGED db

ReadSetupStatus(q) ==
  /\ At(q, "ReadSetupStatus") /\ Answer(q, [initialized |-> DOMAIN db.users # {}])
  /\ UNCHANGED <<db, issued>>

\* Mutant of LockSetup: no lock.
LockSetupNever(q) == At(q, "LockSetup") /\ Proceed(q, [found |-> None]) /\ UNCHANGED <<db, issued>>

\* pg_advisory_xact_lock: held until the transaction ends.
LockSetup(q) ==
  /\ At(q, "LockSetup")
  /\ \A p \in DOMAIN requests : ~At(p, "CountUsers") /\ ~At(p, "CreateAdmin")
  /\ Proceed(q, [found |-> None])
  /\ UNCHANGED <<db, issued>>

CountUsers(q) ==
  /\ At(q, "CountUsers")
  /\ IF DOMAIN db.users = {} THEN Proceed(q, [found |-> None]) ELSE Refuse(q, "conflict")
  /\ UNCHANGED <<db, issued>>

CreateAdmin(q) ==
  LET row == User(Input(q).username, Input(q).password, "SYSTEM_ADMIN")
  IN /\ At(q, "CreateAdmin")
     /\ IF Violates(db, "users", q, row)
        THEN Refuse(q, MapPrismaException.P2002) /\ UNCHANGED <<db, issued>>
        ELSE db' = WithRow(db, "users", q, row) /\ CreateAccessToken(q, db', q)

FindForPassword(q) ==
  LET u == UserOf(q).id
  IN /\ At(q, "FindForPassword")
     /\ IF u \in DOMAIN db.users /\ db.users[u].password = Input(q).currentPassword
        THEN Proceed(q, [found |-> db.users[u]]) ELSE Refuse(q, "unauthorized")
     /\ UNCHANGED <<db, issued>>

\* Mutant of NextVersion: the version is counted up from the row that was read before.
NextVersionRead(q) == Found(q).authVersion + 1

\* authVersion: { increment: 1 }
NextVersion(q) == db.users[UserOf(q).id].authVersion + 1

UpdatePassword(q) ==
  LET u == UserOf(q).id
  IN /\ At(q, "UpdatePassword")
     /\ IF u \notin DOMAIN db.users
        THEN Refuse(q, MapPrismaException.P2025) /\ UNCHANGED <<db, issued>>
        ELSE /\ db' = [db EXCEPT !.users[u].password = Input(q).newPassword,
                                 !.users[u].authVersion = NextVersion(q)]
             /\ CreateAccessToken(q, db', u)

\* A change of the login name needs the current password.
FindForProfile(q) ==
  LET u == UserOf(q).id
      unchanged == Input(q).username = db.users[u].username
  IN /\ At(q, "FindForProfile")
     /\ IF u \in DOMAIN db.users /\ (unchanged \/ Input(q).currentPassword = db.users[u].password)
        THEN Proceed(q, [found |-> None]) ELSE Refuse(q, "unauthorized")
     /\ UNCHANGED db

UpdateProfile(q) ==
  /\ At(q, "UpdateProfile")
  /\ Update(q, "users", UserOf(q).id, Given(Input(q), {"username", "name"}),
            [user |-> ToAuthenticatedUser(db', UserOf(q).id)])

FindByUsername(q) ==
  /\ At(q, "FindByUsername")
  /\ IF Named(Input(q).username) = {} THEN Refuse(q, "notFound")
     ELSE Proceed(q, [found |-> CHOOSE u \in Named(Input(q).username) : TRUE])
  /\ UNCHANGED db

ResetPassword(q) ==
  LET u == Found(q)
  IN /\ At(q, "ResetPassword")
     /\ IF u \notin DOMAIN db.users THEN Refuse(q, MapPrismaException.P2025) /\ UNCHANGED db
        ELSE Put(q, "users", u, [db.users[u] EXCEPT !.password = Input(q).password, !.authVersion = @ + 1], None)
-----------------------------------------------------------------------------
(***************************************************************************)
(* The session's own user and avatar: the answers carry the user as it was *)
(* when the request was authenticated.                                     *)
(***************************************************************************)
ReadMe(q) == At(q, "ReadMe") /\ Answer(q, [user |-> UserOf(q)]) /\ UNCHANGED db

SaveAvatar(q) ==
  LET u == UserOf(q).id
  IN /\ At(q, "SaveAvatar")
     /\ IF u \notin DOMAIN db.users THEN Refuse(q, MapPrismaException.P2003) /\ UNCHANGED db
        ELSE Put(q, "users", u, [db.users[u] EXCEPT !.avatar = Input(q).image],
                 [user |-> [UserOf(q) EXCEPT !.avatar = Input(q).image]])

RemoveAvatar(q) ==
  LET u == UserOf(q).id
  IN /\ At(q, "RemoveAvatar")
     /\ db' = IF u \in DOMAIN db.users THEN [db EXCEPT !.users[u].avatar = None] ELSE db
     /\ Answer(q, [user |-> [UserOf(q) EXCEPT !.avatar = None]])

ReadAvatar(q) ==
  LET u == Input(q).id
  IN /\ At(q, "ReadAvatar")
     /\ IF u \in DOMAIN db.users /\ db.users[u].avatar # None
        THEN Answer(q, None) ELSE Refuse(q, "notFound")
     /\ UNCHANGED db
-----------------------------------------------------------------------------
(***************************************************************************)
(* UsersController, McpTokenService, SettingsService.                      *)
(***************************************************************************)
ReadUsers(q) ==
  At(q, "ReadUsers") /\ Answer(q, [items |-> {UserDto(db, u) : u \in DOMAIN db.users}]) /\ UNCHANGED db

CreateUser(q) ==
  /\ At(q, "CreateUser")
  /\ Create(q, "users", User(Input(q).username, Input(q).password, Input(q).role), [items |-> {UserDto(db', q)}])

RemoveUser(q) ==
  /\ At(q, "RemoveUser")
  /\ IF Input(q).id = UserOf(q).id THEN Refuse(q, "forbidden") /\ UNCHANGED db
     ELSE Delete(q, "users", Input(q).id)

IsOwnerOrAdmin(q, u) == u = UserOf(q).id \/ IsAdmin(UserOf(q))

ReadTokens(q) ==
  LET u == IF "user" \in DOMAIN Input(q) THEN Input(q).user ELSE UserOf(q).id
  IN /\ At(q, "ReadTokens")
     /\ IF IsOwnerOrAdmin(q, u)
        THEN Answer(q, [items |-> {McpAccessTokenDto(db, t, now) :
                                    t \in {k \in DOMAIN db.tokens : db.tokens[k].user = u}}])
        ELSE Refuse(q, "forbidden")
     /\ UNCHANGED db

CreateToken(q) ==
  LET expiresAt == Input(q).expiresAt
  IN /\ At(q, "CreateToken")
     /\ IF expiresAt # None /\ expiresAt <= now THEN Refuse(q, "badRequest") /\ UNCHANGED db
        ELSE Create(q, "tokens", [user |-> UserOf(q).id, expiresAt |-> expiresAt, revoked |-> FALSE, used |-> None],
                 [items |-> {McpAccessTokenDto(db', q, now)}])

FindToken(q) ==
  LET t == Input(q).id
  IN /\ At(q, "FindToken")
     /\ IF t \notin DOMAIN db.tokens THEN Return(q, None)
        ELSE IF ~IsOwnerOrAdmin(q, db.tokens[t].user) THEN Refuse(q, "forbidden")
        ELSE IF db.tokens[t].revoked THEN Return(q, None) ELSE Proceed(q, [found |-> db.tokens[t]])
     /\ UNCHANGED db

RevokeToken(q) ==
  At(q, "RevokeToken") /\ Update(q, "tokens", Input(q).id, [revoked |-> TRUE], None)

IsUsable(d, t, at) ==
  t \in DOMAIN d.tokens /\ ~d.tokens[t].revoked /\ (d.tokens[t].expiresAt = None \/ d.tokens[t].expiresAt > at)

\* The token and its user are read in one statement; the use is noted in the next one.
AuthenticateToken(q) ==
  LET t == Call(q).token.mcp
  IN /\ At(q, "AuthenticateToken")
     /\ IF IsUsable(db, t, now) THEN Proceed(q, [user |-> ToAuthenticatedUser(db, db.tokens[t].user)])
        ELSE Refuse(q, "unauthorized")
     /\ UNCHANGED db

TouchToken(q) ==
  LET t == Call(q).token.mcp
  IN /\ At(q, "TouchToken")
     /\ IF t \notin DOMAIN db.tokens THEN Refuse(q, "unauthorized") /\ UNCHANGED db
        ELSE Put(q, "tokens", t, [db.tokens[t] EXCEPT !.used = now], None)

ReadSettings(q) == At(q, "ReadSettings") /\ Answer(q, db.settings) /\ UNCHANGED db
UpsertSettings(q) ==
  /\ At(q, "UpsertSettings")
  /\ db' = [db EXCEPT !.settings = Over(Given(Input(q), DOMAIN @), @)]
  /\ Answer(q, db'.settings)

SessionStep(q) ==
  \/ SignIn(q) \/ ReadSetupStatus(q) \/ LockSetup(q) \/ CountUsers(q) \/ CreateAdmin(q)
  \/ FindForPassword(q) \/ UpdatePassword(q)
AccessStep(q) ==
  \/ FindForProfile(q) \/ UpdateProfile(q) \/ FindByUsername(q) \/ ResetPassword(q)
  \/ ReadMe(q) \/ SaveAvatar(q) \/ RemoveAvatar(q) \/ ReadAvatar(q)
  \/ ReadUsers(q) \/ CreateUser(q) \/ RemoveUser(q)
  \/ ReadTokens(q) \/ CreateToken(q) \/ FindToken(q) \/ RevokeToken(q)
  \/ AuthenticateToken(q) \/ TouchToken(q) \/ ReadSettings(q) \/ UpsertSettings(q)
=============================================================================
