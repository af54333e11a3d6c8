------------------------------ MODULE Sessions -------------------------------
(***************************************************************************)
(* services/identity: accounts, refresh tokens and logout (service/auth_   *)
(* service.go, pkg/auth/jwt.go).  A refresh token is honoured while its    *)
(* JWT has not expired and its key is in Redis; a refresh deletes the key  *)
(* and stores that of a new token.  An access token is issued with each    *)
(* refresh token and named by it.  A tick is long against a request: none  *)
(* is open at its end.                                                     *)
(***************************************************************************)
EXTENDS Naturals, FiniteSets

CONSTANTS Users, Requests,
          Tokens,       \* refresh tokens; a jti is any unused one
          NoToken,
          RefreshLife, AccessLife,  \* token lifespans in ticks
          MaxFaults

ASSUME SessionsAssumption ==
  /\ NoToken \notin Tokens
  /\ RefreshLife \in Nat /\ AccessLife \in 1..RefreshLife
  /\ MaxFaults \in Nat

VARIABLES
  account,    \* the users table: how each one registered
  store,      \* Redis: the tokens whose key rt:<user>:<jti> exists
  blacklist,  \* Redis: the access tokens under blacklist:<token>
  life,       \* ticks until the JWT of a token expires
  issued,     \* the tokens generated so far
  answered,   \* those of them that clients have been given
  pc,         \* where each request is
  arg,        \* the refresh token it was given
  new,        \* the one it has generated
  faults,
  session,    \* history: the login a token descends from
  held,       \* history: tokens a client was answered, and has not used yet
  ended,      \* history: tokens whose logout was answered
  forked      \* history: sessions two requests used one token of at once, or
              \* whose token could not be deleted

requestVars == <<pc, arg, new>>
history == <<session, held, ended, forked>>
vars == <<account, store, blacklist, life, issued, answered, requestVars, faults, history>>

Init ==
  /\ account = [u \in Users |-> "none"]
  /\ store = {} /\ blacklist = {} /\ issued = {} /\ answered = {}
  /\ life = [t \in Tokens |-> 0]
  /\ pc = [r \in Requests |-> "idle"]
  /\ arg = [r \in Requests |-> NoToken] /\ new = [r \in Requests |-> NoToken]
  /\ faults = 0
  /\ session = [t \in Tokens |-> NoToken]
  /\ held = {} /\ ended = {} /\ forked = {}

At(r, label) == pc[r] = label
Goto(r, label) == pc' = [pc EXCEPT ![r] = label]
Fault == faults < MaxFaults /\ faults' = faults + 1

\* The request is answered, with an error or without.
Answer(r) ==
  /\ Goto(r, "idle")
  /\ arg' = [arg EXCEPT ![r] = NoToken] /\ new' = [new EXCEPT ![r] = NoToken]

\* VerifyToken of a refresh token, and of the access token issued with it.
Valid(t) == life[t] > 0
AccessValid(t) == life[t] > RefreshLife - AccessLife

\* GenerateRefreshToken, of the session from or of a new one.
Generate(t, from) ==
  /\ t \in Tokens \ issued
  /\ issued' = issued \cup {t}
  /\ life' = [life EXCEPT ![t] = RefreshLife]
  /\ session' = [session EXCEPT ![t] = IF from = NoToken THEN t ELSE session[from]]

-----------------------------------------------------------------------------
(* Register, Login, LoginWithGoogle *)

\* The e-mail address is unique.
Register(u) ==
  /\ account[u] = "none"
  /\ account' = [account EXCEPT ![u] = "password"]
  /\ UNCHANGED <<store, blacklist, life, issued, answered, requestVars, faults, history>>

\* An account that Google created has no password to log in with.
Login(r, u) == \E t \in Tokens :
  /\ At(r, "idle") /\ account[u] = "password"
  /\ Generate(t, NoToken)
  /\ Goto(r, "store") /\ new' = [new EXCEPT ![r] = t]
  /\ UNCHANGED <<account, store, blacklist, answered, arg, faults, held, ended, forked>>

\* The account is created on the first login.  The refresh token is answered
\* but never stored, so no refresh ever honours it: it is not in held.
LoginWithGoogle(u) == \E t \in Tokens :
  /\ Generate(t, NoToken)
  /\ account' = [account EXCEPT ![u] = IF @ = "none" THEN "google" ELSE @]
  /\ answered' = answered \cup {t}
  /\ UNCHANGED <<store, blacklist, requestVars, faults, held, ended, forked>>

\* The end of Login and of RefreshToken: the key is set, then the tokens answered.
StoreNew(r) ==
  /\ At(r, "store")
  /\ store' = store \cup {new[r]}
  /\ held' = held \cup {new[r]}
  /\ answered' = answered \cup {new[r]}
  /\ Answer(r)
  /\ UNCHANGED <<account, blacklist, life, issued, faults, session, ended, forked>>

\* Bug: the error of cache.Set is dropped and the token answered all the same.
StoreFails_Ignored(r) ==
  /\ At(r, "store") /\ Fault
  /\ held' = held \cup {new[r]}
  /\ answered' = answered \cup {new[r]}
  /\ Answer(r)
  /\ UNCHANGED <<account, store, blacklist, life, issued, session, ended, forked>>

StoreFails(r) ==
  /\ At(r, "store") /\ Fault
  /\ Answer(r)
  /\ UNCHANGED <<account, store, blacklist, life, issued, answered, history>>

-----------------------------------------------------------------------------
(* RefreshToken: VerifyToken, cache.Get, cache.Delete, GetByID, generate, Set *)

Refresh(r, t) ==
  /\ At(r, "idle") /\ t \in answered /\ Valid(t)
  /\ Goto(r, "get") /\ arg' = [arg EXCEPT ![r] = t]
  /\ held' = held \ {t}
  /\ UNCHANGED <<account, store, blacklist, life, issued, answered, new, faults, session,
                 ended, forked>>

CheckStored(r) ==
  /\ At(r, "get") /\ arg[r] \in store
  /\ Goto(r, "delete")
  /\ UNCHANGED <<account, store, blacklist, life, issued, answered, arg, new, faults, history>>

\* "refresh token expired or reused", or Redis did not answer.
NotStored(r) ==
  /\ At(r, "get")
  /\ IF arg[r] \in store THEN Fault ELSE UNCHANGED faults
  /\ Answer(r)
  /\ UNCHANGED <<account, store, blacklist, life, issued, answered, history>>

Fork(t) == forked' = forked \cup {session[t]}

\* Bug: the old key is left to expire.
DeleteOld_Skipped(r) ==
  /\ At(r, "delete")
  /\ Goto(r, "generate")
  /\ UNCHANGED <<account, store, blacklist, life, issued, answered, arg, new, faults, history>>
\* Whether the key was still there is not looked at.
DeleteOld(r) ==
  /\ At(r, "delete")
  /\ store' = store \ {arg[r]}
  /\ IF arg[r] \in store THEN UNCHANGED forked ELSE Fork(arg[r])
  /\ Goto(r, "generate")
  /\ UNCHANGED <<account, blacklist, life, issued, answered, arg, new, faults, session, held, ended>>

DeleteOldFails(r) ==
  /\ At(r, "delete") /\ Fault
  /\ Fork(arg[r])
  /\ Goto(r, "generate")
  /\ UNCHANGED <<account, store, blacklist, life, issued, answered, arg, new, session, held, ended>>

GenerateNew(r) == \E t \in Tokens :
  /\ At(r, "generate")
  /\ Generate(t, arg[r])
  /\ Goto(r, "store") /\ new' = [new EXCEPT ![r] = t]
  /\ UNCHANGED <<account, store, blacklist, answered, arg, faults, held, ended, forked>>

\* GetByID failed: the old token is gone and there is no new one.
UserNotRead(r) ==
  /\ At(r, "generate") /\ Fault
  /\ Answer(r)
  /\ UNCHANGED <<account, store, blacklist, life, issued, answered, history>>

-----------------------------------------------------------------------------
(* Logout *)

Logout(r, t) ==
  /\ At(r, "idle") /\ t \in answered /\ Valid(t)
  /\ Goto(r, "logout") /\ arg' = [arg EXCEPT ![r] = t]
  /\ held' = held \ {t}
  /\ UNCHANGED <<account, store, blacklist, life, issued, answered, new, faults, session,
                 ended, forked>>

\* The first delete, its error dropped.  The claims of an access token that has
\* expired are nil: reading its expiry panics and the request answers 500.
FirstDelete(r) ==
  /\ At(r, "logout")
  /\ \/ store' = store \ {arg[r]} /\ UNCHANGED faults
     \/ UNCHANGED store /\ Fault
  /\ IF AccessValid(arg[r]) THEN Goto(r, "logoutAgain") /\ UNCHANGED <<arg, new>> ELSE Answer(r)
  /\ UNCHANGED <<account, blacklist, life, issued, answered, history>>

\* Bug: the second delete's error is dropped as well.
LastDeleteFails_Ignored(r) ==
  /\ At(r, "logoutAgain") /\ Fault
  /\ ended' = ended \cup {arg[r]}
  /\ Answer(r)
  /\ UNCHANGED <<account, store, blacklist, life, issued, answered, session, held, forked>>

\* The access token is blacklisted (nothing reads the list), the key deleted
\* again, and this time an error is answered.
LastDelete(r) ==
  /\ At(r, "logoutAgain")
  /\ blacklist' = blacklist \cup {arg[r]}
  /\ store' = store \ {arg[r]}
  /\ ended' = ended \cup {arg[r]}
  /\ Answer(r)
  /\ UNCHANGED <<account, life, issued, answered, faults, session, held, forked>>

LastDeleteFails(r) ==
  /\ At(r, "logoutAgain") /\ Fault
  /\ Answer(r)
  /\ UNCHANGED <<account, store, blacklist, life, issued, answered, history>>

-----------------------------------------------------------------------------
\* Keys expire with the tokens they were set for.
Tick ==
  /\ \A r \in Requests : At(r, "idle")
  /\ \E t \in Tokens : Valid(t)
  /\ life' = [t \in Tokens |-> IF Valid(t) THEN life[t] - 1 ELSE 0]
  /\ store' = {t \in store : life[t] > 1}
  /\ blacklist' = {t \in blacklist : life[t] - 1 > RefreshLife - AccessLife}
  /\ UNCHANGED <<account, issued, answered, requestVars, faults, history>>

\* Redis restarts without its data.
RedisLost ==
  /\ Fault
  /\ store' = {} /\ blacklist' = {} /\ held' = {}
  /\ UNCHANGED <<account, life, issued, answered, requestVars, session, ended, forked>>

LoggingIn == \E u \in Users : \/ Register(u) \/ LoginWithGoogle(u)
                              \/ \E r \in Requests : Login(r, u)
Refreshing(r) ==
  \/ \E t \in Tokens : Refresh(r, t)
  \/ CheckStored(r) \/ NotStored(r) \/ DeleteOld(r) \/ DeleteOldFails(r)
  \/ GenerateNew(r) \/ UserNotRead(r)
LoggingOut(r) ==
  \/ \E t \in Tokens : Logout(r, t)
  \/ FirstDelete(r) \/ LastDelete(r) \/ LastDeleteFails(r)

Next ==
  \/ LoggingIn \/ Tick \/ RedisLost
  \/ \E r \in Requests : StoreNew(r) \/ StoreFails(r) \/ Refreshing(r) \/ LoggingOut(r)
Spec == Init /\ [][Next]_vars

-----------------------------------------------------------------------------
(* Properties *)

TokensOK ==
  /\ issued \subseteq Tokens /\ answered \subseteq issued
  /\ store \subseteq issued /\ blacklist \subseteq issued
  /\ held \subseteq answered /\ ended \subseteq answered /\ forked \subseteq Tokens
  /\ session \in [Tokens -> Tokens \cup {NoToken}]

RequestsOK ==
  /\ pc \in [Requests -> {"idle", "get", "delete", "generate", "store", "logout", "logoutAgain"}]
  /\ arg \in [Requests -> Tokens \cup {NoToken}] /\ new \in [Requests -> Tokens \cup {NoToken}]

\* A token is used, expires and is stored by the name it was issued with.
TypeOK ==
  /\ TokensOK /\ RequestsOK
  /\ account \in [Users -> {"none", "password", "google"}]
  /\ life \in [Tokens -> 0..RefreshLife] /\ faults \in 0..MaxFaults

\* Rotation keeps one token of a session alive, unless two requests used the
\* same token at once or its key could not be deleted: RefreshToken checks with
\* one call and deletes with another.
OneLiveToken ==
  \A t, u \in store : session[t] = session[u] /\ session[t] \notin forked => t = u

\* A token whose logout was answered is never honoured again, whatever requests
\* are in progress and whichever of the two deletes failed (Logout).
LogoutIsFinal == ended \cap store = {}

\* A token that Login or RefreshToken has answered is honoured until it is used,
\* expires or Redis loses its data (the key is stored before the answer).
HeldTokensWork == \A t \in held : Valid(t) => t \in store
=============================================================================
