--------------------------- MODULE Sessions_proofs ---------------------------
(***************************************************************************)
(* Logging in, refreshing and logging out for any number of users, tokens, *)
(* requests and faults: a logout is final, a token that was answered       *)
(* works, and a session has one live token unless it was forked.           *)
(***************************************************************************)
EXTENDS Sessions, TLAPS

\* Where a request works on the token it was given, and where it owes a new one.
Using == {"get", "delete", "generate", "logout", "logoutAgain"}
Owing == {"generate", "store"}

\* The session in which a request that owes a token will put it.
Continues(r) == session[IF At(r, "generate") THEN arg[r] ELSE new[r]]

\* A token in use was answered before, and its client holds it no longer.
ArgsUsed == \A r \in Requests : pc[r] \in Using => arg[r] \in answered \ held

\* A token that is about to be stored is nobody else's.
NewIsFresh ==
  /\ \A r \in Requests : At(r, "store") => new[r] \in issued \ answered
  /\ \A r, q \in Requests : At(r, "store") /\ At(q, "store") /\ new[r] = new[q] => r = q

SessionsIssued == \A t \in issued : session[t] \in issued

\* A request owes a session a token only when the session has none, and alone.
OneSuccessor ==
  /\ \A t \in store, r \in Requests :
       pc[r] \in Owing /\ session[t] = Continues(r) => Continues(r) \in forked
  /\ \A r, q \in Requests :
       pc[r] \in Owing /\ pc[q] \in Owing /\ Continues(r) = Continues(q) /\ r # q
         => Continues(r) \in forked

\* Inductive: the three properties hold because no request has a token of
\* another one, and because what a request owes counts as its session's token.
IInv ==
  /\ TypeOK /\ ArgsUsed /\ NewIsFresh /\ SessionsIssued
  /\ OneLiveToken /\ OneSuccessor
  /\ LogoutIsFinal /\ HeldTokensWork

\* At the start no token has been issued.
LEMMA InitIInv == Init => IInv
  BY SessionsAssumption
  DEF Init, IInv, TypeOK, TokensOK, RequestsOK, ArgsUsed, NewIsFresh, SessionsIssued,
      OneLiveToken, OneSuccessor, LogoutIsFinal, HeldTokensWork, At, Using, Owing

-----------------------------------------------------------------------------
(* Types *)

\* Registering and logging in issue tokens and keep the types.
LEMMA LoggingInTypeOK ==
  ASSUME IInv, LoggingIn PROVE TypeOK'
<1>1. ASSUME NEW u \in Users, Register(u) PROVE TypeOK'
  BY <1>1 DEF IInv, TypeOK, TokensOK, RequestsOK, Register, requestVars, history
<1>2. ASSUME NEW u \in Users, LoginWithGoogle(u) PROVE TypeOK'
  BY <1>2, SessionsAssumption
  DEF IInv, TypeOK, TokensOK, RequestsOK, LoginWithGoogle, Generate, requestVars
<1>3. ASSUME NEW u \in Users, NEW r \in Requests, Login(r, u) PROVE TypeOK'
  BY <1>3, SessionsAssumption
  DEF IInv, TypeOK, TokensOK, RequestsOK, Login, Generate, At, Goto
<1> QED
  BY <1>1, <1>2, <1>3 DEF LoggingIn

\* The calls of a refresh keep the types.
LEMMA RefreshingTypeOK ==
  ASSUME IInv, NEW r \in Requests, Refreshing(r) PROVE TypeOK'
<1>1. ASSUME NEW t \in Tokens, Refresh(r, t) PROVE TypeOK'
  BY <1>1 DEF IInv, TypeOK, TokensOK, RequestsOK, Refresh, At, Goto
<1>2. ASSUME CheckStored(r) \/ NotStored(r) PROVE TypeOK'
  BY <1>2, SessionsAssumption
  DEF IInv, TypeOK, TokensOK, RequestsOK, CheckStored, NotStored, At, Goto, Answer, Fault, history
<1>3. ASSUME DeleteOld(r) PROVE TypeOK'
  <2>1. session[arg[r]] \in Tokens
    BY <1>3 DEF IInv, TypeOK, TokensOK, ArgsUsed, Using, SessionsIssued, DeleteOld, At
  <2> QED
    BY <1>3, <2>1 DEF IInv, TypeOK, TokensOK, RequestsOK, DeleteOld, At, Goto, Fork
<1>4. ASSUME DeleteOldFails(r) PROVE TypeOK'
  <2>1. session[arg[r]] \in Tokens
    BY <1>4 DEF IInv, TypeOK, TokensOK, ArgsUsed, Using, SessionsIssued, DeleteOldFails, At
  <2> QED
    BY <1>4, <2>1, SessionsAssumption
    DEF IInv, TypeOK, TokensOK, RequestsOK, DeleteOldFails, At, Goto, Fork, Fault
<1>5. ASSUME GenerateNew(r) PROVE TypeOK'
  BY <1>5, SessionsAssumption
  DEF IInv, TypeOK, TokensOK, RequestsOK, GenerateNew, Generate, At, Goto
<1>6. ASSUME UserNotRead(r) PROVE TypeOK'
  BY <1>6, SessionsAssumption
  DEF IInv, TypeOK, TokensOK, RequestsOK, UserNotRead, At, Goto, Answer, Fault, history
<1> QED
  BY <1>1, <1>2, <1>3, <1>4, <1>5, <1>6 DEF Refreshing

\* The calls of a logout keep the types.
LEMMA LoggingOutTypeOK ==
  ASSUME IInv, NEW r \in Requests, LoggingOut(r) PROVE TypeOK'
<1>1. ASSUME NEW t \in Tokens, Logout(r, t) PROVE TypeOK'
  BY <1>1 DEF IInv, TypeOK, TokensOK, RequestsOK, Logout, At, Goto
<1>2. ASSUME FirstDelete(r) PROVE TypeOK'
  BY <1>2, SessionsAssumption
  DEF IInv, TypeOK, TokensOK, RequestsOK, FirstDelete, At, Goto, Answer, Fault, history
<1>3. ASSUME LastDelete(r) PROVE TypeOK'
  BY <1>3, SessionsAssumption
  DEF IInv, TypeOK, TokensOK, RequestsOK, ArgsUsed, Using, LastDelete, At, Goto, Answer
<1>4. ASSUME LastDeleteFails(r) PROVE TypeOK'
  BY <1>4, SessionsAssumption
  DEF IInv, TypeOK, TokensOK, RequestsOK, LastDeleteFails, At, Goto, Answer, Fault, history
<1> QED
  BY <1>1, <1>2, <1>3, <1>4 DEF LoggingOut

\* Storing, time and a Redis without its data keep the types.
LEMMA RemainingTypeOK ==
  ASSUME IInv,
         \/ Tick \/ RedisLost \/ \E r \in Requests : StoreNew(r) \/ StoreFails(r)
  PROVE  TypeOK'
<1>1. ASSUME Tick PROVE TypeOK'
  <2>1. life' \in [Tokens -> 0..RefreshLife]
    BY <1>1, SessionsAssumption DEF IInv, TypeOK, Tick, Valid
  <2> QED
    BY <1>1, <2>1 DEF IInv, TypeOK, TokensOK, RequestsOK, Tick, requestVars, history
<1>2. ASSUME RedisLost PROVE TypeOK'
  BY <1>2, SessionsAssumption
  DEF IInv, TypeOK, TokensOK, RequestsOK, RedisLost, Fault, requestVars
<1>3. ASSUME NEW r \in Requests, StoreNew(r) PROVE TypeOK'
  BY <1>3, SessionsAssumption
  DEF IInv, TypeOK, TokensOK, RequestsOK, NewIsFresh, StoreNew, At, Goto, Answer
<1>4. ASSUME NEW r \in Requests, StoreFails(r) PROVE TypeOK'
  BY <1>4, SessionsAssumption
  DEF IInv, TypeOK, TokensOK, RequestsOK, StoreFails, At, Goto, Answer, Fault, history
<1> QED
  BY <1>1, <1>2, <1>3, <1>4

\* Nothing that happens takes a variable out of its range.
LEMMA NextTypeOK == ASSUME IInv, Next PROVE TypeOK'
  BY LoggingInTypeOK, RefreshingTypeOK, LoggingOutTypeOK, RemainingTypeOK DEF Next

-----------------------------------------------------------------------------
(* The tokens requests have in hand *)

\* A refresh works on a token its client has given up.
LEMMA RefreshingArgsUsed ==
  ASSUME IInv, NEW r \in Requests, Refreshing(r) PROVE ArgsUsed'
<1>1. ASSUME NEW t \in Tokens, Refresh(r, t) PROVE ArgsUsed'
  BY <1>1 DEF IInv, TypeOK, RequestsOK, ArgsUsed, Using, Refresh, At, Goto
<1>2. ASSUME CheckStored(r) \/ DeleteOld(r) \/ DeleteOldFails(r) \/ GenerateNew(r) PROVE ArgsUsed'
  BY <1>2 DEF IInv, TypeOK, RequestsOK, ArgsUsed, Using, CheckStored, DeleteOld,
     DeleteOldFails, GenerateNew, At, Goto, history
<1>3. ASSUME NotStored(r) \/ UserNotRead(r) PROVE ArgsUsed'
  BY <1>3 DEF IInv, TypeOK, RequestsOK, ArgsUsed, Using, NotStored, UserNotRead, At, Goto,
     Answer, history
<1> QED
  BY <1>1, <1>2, <1>3 DEF Refreshing

\* A logout works on a token its client has given up.
LEMMA LoggingOutArgsUsed ==
  ASSUME IInv, NEW r \in Requests, LoggingOut(r) PROVE ArgsUsed'
<1>1. ASSUME NEW t \in Tokens, Logout(r, t) PROVE ArgsUsed'
  BY <1>1 DEF IInv, TypeOK, RequestsOK, ArgsUsed, Using, Logout, At, Goto
<1>2. ASSUME FirstDelete(r) \/ LastDelete(r) \/ LastDeleteFails(r) PROVE ArgsUsed'
  BY <1>2 DEF IInv, TypeOK, RequestsOK, ArgsUsed, Using, FirstDelete, LastDelete,
     LastDeleteFails, At, Goto, Answer, history
<1> QED
  BY <1>1, <1>2 DEF LoggingOut

\* StoreNew answers a token that no request was ever given.
LEMMA RemainingArgsUsed ==
  ASSUME IInv,
         \/ LoggingIn \/ Tick \/ RedisLost
         \/ \E r \in Requests : StoreNew(r) \/ StoreFails(r)
  PROVE  ArgsUsed'
<1>1. ASSUME LoggingIn PROVE ArgsUsed'
  BY <1>1 DEF IInv, TypeOK, TokensOK, RequestsOK, ArgsUsed, Using, LoggingIn, Register,
     LoginWithGoogle, Login, Generate, At, Goto, requestVars, history
<1>2. ASSUME Tick \/ RedisLost PROVE ArgsUsed'
  BY <1>2 DEF IInv, ArgsUsed, Tick, RedisLost, requestVars, history
<1>3. ASSUME NEW r \in Requests, StoreNew(r) PROVE ArgsUsed'
  BY <1>3 DEF IInv, TypeOK, RequestsOK, ArgsUsed, Using, NewIsFresh, StoreNew, At, Goto, Answer
<1>4. ASSUME NEW r \in Requests, StoreFails(r) PROVE ArgsUsed'
  BY <1>4 DEF IInv, TypeOK, RequestsOK, ArgsUsed, Using, StoreFails, At, Goto, Answer, history
<1> QED
  BY <1>1, <1>2, <1>3, <1>4

\* A request never works on a token that its client still holds or never had.
LEMMA NextArgsUsed == ASSUME IInv, Next PROVE ArgsUsed'
  BY RefreshingArgsUsed, LoggingOutArgsUsed, RemainingArgsUsed DEF Next

\* A login issues a token nobody has.
LEMMA LoggingInFresh ==
  ASSUME IInv, LoggingIn PROVE (NewIsFresh /\ SessionsIssued)'
<1>1. ASSUME NEW u \in Users, Register(u) PROVE (NewIsFresh /\ SessionsIssued)'
  BY <1>1 DEF IInv, NewIsFresh, SessionsIssued, Register, At, requestVars, history
<1>2. ASSUME NEW u \in Users, LoginWithGoogle(u) PROVE (NewIsFresh /\ SessionsIssued)'
  BY <1>2, SessionsAssumption
  DEF IInv, TypeOK, TokensOK, RequestsOK, NewIsFresh, SessionsIssued, LoginWithGoogle,
      Generate, At, requestVars
<1>3. ASSUME NEW u \in Users, NEW r \in Requests, Login(r, u)
      PROVE  (NewIsFresh /\ SessionsIssued)'
  BY <1>3, SessionsAssumption
  DEF IInv, TypeOK, TokensOK, RequestsOK, NewIsFresh, SessionsIssued, Login, Generate, At, Goto
<1> QED
  BY <1>1, <1>2, <1>3 DEF LoggingIn

\* A refresh issues a token nobody has, in the session of the old one.
LEMMA RefreshingFresh ==
  ASSUME IInv, NEW r \in Requests, Refreshing(r) PROVE (NewIsFresh /\ SessionsIssued)'
<1>1. ASSUME GenerateNew(r) PROVE (NewIsFresh /\ SessionsIssued)'
  <2>1. arg[r] \in issued /\ arg[r] # NoToken
    BY <1>1, SessionsAssumption
    DEF IInv, TypeOK, TokensOK, ArgsUsed, Using, GenerateNew, At
  <2> QED
    BY <1>1, <2>1
    DEF IInv, TypeOK, TokensOK, RequestsOK, NewIsFresh, SessionsIssued, GenerateNew,
        Generate, At, Goto
<1>2. ASSUME \/ \E t \in Tokens : Refresh(r, t)
             \/ CheckStored(r) \/ DeleteOld(r) \/ DeleteOldFails(r)
      PROVE  (NewIsFresh /\ SessionsIssued)'
  BY <1>2
  DEF IInv, TypeOK, RequestsOK, NewIsFresh, SessionsIssued, Refresh, CheckStored,
      DeleteOld, DeleteOldFails, At, Goto, history
<1>3. ASSUME NotStored(r) \/ UserNotRead(r) PROVE (NewIsFresh /\ SessionsIssued)'
  BY <1>3
  DEF IInv, TypeOK, RequestsOK, NewIsFresh, SessionsIssued, NotStored, UserNotRead, At,
      Goto, Answer, history
<1> QED
  BY <1>1, <1>2, <1>3 DEF Refreshing

\* Storing, logging out and time leave the tokens in hand as they are.
LEMMA RemainingFresh ==
  ASSUME IInv,
         \/ Tick \/ RedisLost
         \/ \E r \in Requests : StoreNew(r) \/ StoreFails(r) \/ LoggingOut(r)
  PROVE  (NewIsFresh /\ SessionsIssued)'
<1>1. ASSUME Tick \/ RedisLost PROVE (NewIsFresh /\ SessionsIssued)'
  BY <1>1 DEF IInv, NewIsFresh, SessionsIssued, Tick, RedisLost, At, requestVars, history
<1>2. ASSUME NEW r \in Requests, StoreNew(r) PROVE (NewIsFresh /\ SessionsIssued)'
  BY <1>2
  DEF IInv, TypeOK, RequestsOK, NewIsFresh, SessionsIssued, StoreNew, At, Goto, Answer
<1>3. ASSUME NEW r \in Requests, StoreFails(r) PROVE (NewIsFresh /\ SessionsIssued)'
  BY <1>3
  DEF IInv, TypeOK, RequestsOK, NewIsFresh, SessionsIssued, StoreFails, At, Goto, Answer, history
<1>4. ASSUME NEW r \in Requests, LoggingOut(r) PROVE (NewIsFresh /\ SessionsIssued)'
  BY <1>4
  DEF IInv, TypeOK, RequestsOK, NewIsFresh, SessionsIssued, LoggingOut, Logout, FirstDelete,
      LastDelete, LastDeleteFails, At, Goto, Answer, history
<1> QED
  BY <1>1, <1>2, <1>3, <1>4

\* What a request is about to store was answered to nobody and is stored by no
\* other request.
LEMMA NextFresh == ASSUME IInv, Next PROVE (NewIsFresh /\ SessionsIssued)'
  BY LoggingInFresh, RefreshingFresh, RemainingFresh DEF Next

-----------------------------------------------------------------------------
(* One token of a session *)

LiveOnce == OneLiveToken /\ OneSuccessor

\* A login begins a session of its own.
LEMMA LoggingInLiveOnce ==
  ASSUME IInv, LoggingIn PROVE LiveOnce'
<1>1. ASSUME NEW u \in Users, Register(u) PROVE LiveOnce'
  BY <1>1 DEF IInv, LiveOnce, OneLiveToken, OneSuccessor, Continues, Register, At,
     requestVars, history
<1>2. ASSUME NEW u \in Users, LoginWithGoogle(u) PROVE LiveOnce'
  <2>1. PICK t \in Tokens : Generate(t, NoToken)
    BY <1>2 DEF LoginWithGoogle
  <2>2. \A x \in issued : session'[x] = session[x]
    BY <2>1 DEF IInv, TypeOK, TokensOK, Generate
  <2>3. \A r \in Requests : pc[r] \in Owing => Continues(r)' = Continues(r)
    BY <1>2, <2>2 DEF IInv, TypeOK, TokensOK, ArgsUsed, NewIsFresh, Using, Owing,
       Continues, LoginWithGoogle, At, requestVars
  <2> QED
    BY <1>2, <2>2, <2>3 DEF IInv, TypeOK, TokensOK, LiveOnce, OneLiveToken, OneSuccessor,
       Owing, LoginWithGoogle, requestVars
<1>3. ASSUME NEW u \in Users, NEW r \in Requests, Login(r, u) PROVE LiveOnce'
  <2>1. PICK t \in Tokens : Generate(t, NoToken) /\ new' = [new EXCEPT ![r] = t]
    BY <1>3 DEF Login
  <2>2. \A x \in issued : session'[x] = session[x]
    BY <2>1 DEF IInv, TypeOK, TokensOK, Generate
  <2>3. \A q \in Requests \ {r} : pc[q] \in Owing => Continues(q)' = Continues(q)
    BY <1>3, <2>1, <2>2 DEF IInv, TypeOK, TokensOK, RequestsOK, ArgsUsed, NewIsFresh,
       Using, Owing, Continues, Login, At, Goto
  <2>4. Continues(r)' = t /\ t \notin issued
    BY <1>3, <2>1 DEF IInv, TypeOK, TokensOK, RequestsOK, Continues, Login, Generate, At, Goto
  <2>5. \A q \in Requests : pc[q] \in Owing => Continues(q) \in issued
    BY DEF IInv, TypeOK, TokensOK, ArgsUsed, NewIsFresh, SessionsIssued, Using, Owing,
       Continues, At
  <2> QED
    BY <1>3, <2>2, <2>3, <2>4, <2>5 DEF IInv, TypeOK, TokensOK, RequestsOK, SessionsIssued,
       LiveOnce, OneLiveToken, OneSuccessor, Owing, Login, At, Goto
<1> QED
  BY <1>1, <1>2, <1>3 DEF LoggingIn

\* Deleting the key of a token turns what it was to its session into a debt.
LEMMA DeleteOldLiveOnce ==
  ASSUME IInv, NEW r \in Requests, DeleteOld(r) \/ DeleteOldFails(r) PROVE LiveOnce'
<1>1. /\ Continues(r)' = session[arg[r]]
      /\ \A q \in Requests \ {r} : pc'[q] = pc[q] /\ Continues(q)' = Continues(q)
  BY DEF IInv, TypeOK, RequestsOK, Continues, DeleteOld, DeleteOldFails, At, Goto
<1>2. CASE session[arg[r]] \in forked'
  BY <1>1, <1>2 DEF IInv, LiveOnce, OneLiveToken, OneSuccessor, DeleteOld, DeleteOldFails, Fork
<1>3. CASE session[arg[r]] \notin forked'
  <2>1. arg[r] \in store /\ store' = store \ {arg[r]} /\ forked' = forked
    BY <1>3 DEF DeleteOld, DeleteOldFails, Fork
  <2>2. session' = session
    BY DEF DeleteOld, DeleteOldFails
  <2>3. OneLiveToken'
    BY <2>1, <2>2 DEF IInv, OneLiveToken
  <2> QED
    BY <1>1, <1>3, <2>1, <2>2, <2>3 DEF IInv, LiveOnce, OneLiveToken, OneSuccessor
<1> QED
  BY <1>2, <1>3

\* A refresh owes a token only for the one it deleted, or the session forks.
LEMMA RefreshingLiveOnce ==
  ASSUME IInv, NEW r \in Requests, Refreshing(r) PROVE LiveOnce'
<1>1. ASSUME GenerateNew(r) PROVE LiveOnce'
  <2>1. PICK t \in Tokens : Generate(t, arg[r]) /\ new' = [new EXCEPT ![r] = t]
    BY <1>1 DEF GenerateNew
  <2>2. arg[r] \in issued /\ arg[r] # NoToken
    BY <1>1, SessionsAssumption DEF IInv, TypeOK, TokensOK, ArgsUsed, Using, GenerateNew, At
  <2>3. \A x \in issued : session'[x] = session[x]
    BY <2>1 DEF IInv, TypeOK, TokensOK, Generate
  <2>4. \A q \in Requests \ {r} : pc[q] \in Owing => Continues(q)' = Continues(q)
    BY <1>1, <2>1, <2>3 DEF IInv, TypeOK, TokensOK, RequestsOK, ArgsUsed, NewIsFresh,
       Using, Owing, Continues, GenerateNew, At, Goto
  <2>5. Continues(r)' = Continues(r)
    BY <1>1, <2>1, <2>2 DEF IInv, TypeOK, TokensOK, RequestsOK, Continues, GenerateNew,
       Generate, At, Goto
  <2> QED
    BY <1>1, <2>3, <2>4, <2>5 DEF IInv, TypeOK, TokensOK, RequestsOK, LiveOnce,
       OneLiveToken, OneSuccessor, Owing, GenerateNew, At, Goto
<1>2. ASSUME DeleteOld(r) \/ DeleteOldFails(r) PROVE LiveOnce'
  BY <1>2, DeleteOldLiveOnce
<1>3. ASSUME (\E t \in Tokens : Refresh(r, t)) \/ CheckStored(r) PROVE LiveOnce'
  BY <1>3 DEF IInv, TypeOK, RequestsOK, LiveOnce, OneLiveToken, OneSuccessor, Owing,
     Continues, Refresh, CheckStored, At, Goto, history
<1>4. ASSUME NotStored(r) \/ UserNotRead(r) PROVE LiveOnce'
  BY <1>4 DEF IInv, TypeOK, RequestsOK, LiveOnce, OneLiveToken, OneSuccessor, Owing,
     Continues, NotStored, UserNotRead, At, Goto, Answer, history
<1> QED
  BY <1>1, <1>2, <1>3, <1>4 DEF Refreshing

\* Storing turns the owed token into the live one; the others take tokens away.
LEMMA RemainingLiveOnce ==
  ASSUME IInv,
         \/ Tick \/ RedisLost
         \/ \E r \in Requests : StoreNew(r) \/ StoreFails(r) \/ LoggingOut(r)
  PROVE  LiveOnce'
<1>1. ASSUME Tick \/ RedisLost PROVE LiveOnce'
  BY <1>1 DEF IInv, LiveOnce, OneLiveToken, OneSuccessor, Continues, Tick, RedisLost, At,
     requestVars, history
<1>2. ASSUME NEW r \in Requests, StoreNew(r) PROVE LiveOnce'
  <2>1. Continues(r) = session[new[r]] /\ pc[r] \in Owing
    BY <1>2 DEF Continues, StoreNew, At, Owing
  <2>2. \A q \in Requests \ {r} : pc'[q] = pc[q] /\ Continues(q)' = Continues(q)
    BY <1>2 DEF IInv, TypeOK, RequestsOK, Continues, StoreNew, Answer, At, Goto
  <2>3. pc'[r] \notin Owing
    BY <1>2 DEF IInv, TypeOK, RequestsOK, StoreNew, Answer, Goto, Owing
  <2> QED
    BY <1>2, <2>1, <2>2, <2>3 DEF IInv, LiveOnce, OneLiveToken, OneSuccessor, StoreNew
<1>3. ASSUME NEW r \in Requests, StoreFails(r) PROVE LiveOnce'
  BY <1>3 DEF IInv, TypeOK, RequestsOK, LiveOnce, OneLiveToken, OneSuccessor, Owing,
     Continues, StoreFails, At, Goto, Answer, history
<1>4. ASSUME NEW r \in Requests, LoggingOut(r) PROVE LiveOnce'
  BY <1>4 DEF IInv, TypeOK, RequestsOK, LiveOnce, OneLiveToken, OneSuccessor, Owing,
     Continues, LoggingOut, Logout, FirstDelete, LastDelete, LastDeleteFails, At, Goto,
     Answer, history
<1> QED
  BY <1>1, <1>2, <1>3, <1>4

\* No step gives a session a second token or a second request that owes it one.
LEMMA NextLiveOnce == ASSUME IInv, Next PROVE LiveOnce'
  BY LoggingInLiveOnce, RefreshingLiveOnce, RemainingLiveOnce DEF Next

-----------------------------------------------------------------------------
(* Logout is final, and what was answered works *)

Honoured == LogoutIsFinal /\ HeldTokensWork

\* A login neither honours an ended token nor loses a held one.
LEMMA LoggingInHonoured ==
  ASSUME IInv, LoggingIn PROVE Honoured'
<1>1. ASSUME NEW u \in Users, Register(u) PROVE Honoured'
  BY <1>1 DEF IInv, Honoured, LogoutIsFinal, HeldTokensWork, Valid, Register, history
<1>2. ASSUME NEW t \in Tokens, Generate(t, NoToken), UNCHANGED <<store, held, ended>>
      PROVE  Honoured'
  BY <1>2 DEF IInv, TypeOK, TokensOK, Honoured, LogoutIsFinal, HeldTokensWork, Valid, Generate
<1> QED
  BY <1>1, <1>2 DEF LoggingIn, LoginWithGoogle, Login

\* A refresh neither honours an ended token nor loses a held one.
LEMMA RefreshingHonoured ==
  ASSUME IInv, NEW r \in Requests, Refreshing(r) PROVE Honoured'
<1>1. ASSUME NEW t \in Tokens, Refresh(r, t) PROVE Honoured'
  BY <1>1 DEF IInv, Honoured, LogoutIsFinal, HeldTokensWork, Valid, Refresh
<1>2. ASSUME CheckStored(r) \/ NotStored(r) \/ UserNotRead(r) PROVE Honoured'
  BY <1>2 DEF IInv, Honoured, LogoutIsFinal, HeldTokensWork, Valid, CheckStored, NotStored,
     UserNotRead, history
<1>3. ASSUME DeleteOld(r) \/ DeleteOldFails(r) PROVE Honoured'
  BY <1>3 DEF IInv, ArgsUsed, Using, Honoured, LogoutIsFinal, HeldTokensWork, Valid,
     DeleteOld, DeleteOldFails, At
<1>4. ASSUME GenerateNew(r) PROVE Honoured'
  BY <1>4 DEF IInv, TypeOK, TokensOK, Honoured, LogoutIsFinal, HeldTokensWork, Valid,
     GenerateNew, Generate
<1> QED
  BY <1>1, <1>2, <1>3, <1>4 DEF Refreshing

\* Whoever deletes a key has taken the token out of its client's hand.
LEMMA LoggingOutHonoured ==
  ASSUME IInv, NEW r \in Requests, LoggingOut(r) PROVE Honoured'
<1>1. ASSUME NEW t \in Tokens, Logout(r, t) PROVE Honoured'
  BY <1>1 DEF IInv, Honoured, LogoutIsFinal, HeldTokensWork, Valid, Logout
<1>2. ASSUME FirstDelete(r) \/ LastDelete(r) \/ LastDeleteFails(r) PROVE Honoured'
  BY <1>2 DEF IInv, ArgsUsed, Using, Honoured, LogoutIsFinal, HeldTokensWork, Valid,
     FirstDelete, LastDelete, LastDeleteFails, At, history
<1> QED
  BY <1>1, <1>2 DEF LoggingOut

\* Storing honours a new token; a held one ends only with time or with Redis.
LEMMA RemainingHonoured ==
  ASSUME IInv,
         \/ Tick \/ RedisLost \/ \E r \in Requests : StoreNew(r) \/ StoreFails(r)
  PROVE  Honoured'
<1>1. ASSUME Tick PROVE Honoured'
  <2>1. \A t \in held : life[t] \in Nat /\ life'[t] = IF Valid(t) THEN life[t] - 1 ELSE 0
    BY <1>1, SessionsAssumption DEF IInv, TypeOK, TokensOK, Tick
  <2>2. HeldTokensWork'
    BY <1>1, <2>1 DEF IInv, HeldTokensWork, Valid, Tick, history
  <2> QED
    BY <1>1, <2>2 DEF IInv, Honoured, LogoutIsFinal, Tick, history
<1>2. ASSUME RedisLost PROVE Honoured'
  BY <1>2 DEF Honoured, LogoutIsFinal, HeldTokensWork, RedisLost
<1>3. ASSUME NEW r \in Requests, StoreNew(r) PROVE Honoured'
  BY <1>3 DEF IInv, TypeOK, TokensOK, NewIsFresh, Honoured, LogoutIsFinal, HeldTokensWork,
     Valid, StoreNew, At
<1>4. ASSUME NEW r \in Requests, StoreFails(r) PROVE Honoured'
  BY <1>4 DEF IInv, Honoured, LogoutIsFinal, HeldTokensWork, Valid, StoreFails, history
<1> QED
  BY <1>1, <1>2, <1>3, <1>4

\* No step brings an ended token back or ends one its client still holds.
LEMMA NextHonoured == ASSUME IInv, Next PROVE Honoured'
  BY LoggingInHonoured, RefreshingHonoured, LoggingOutHonoured, RemainingHonoured DEF Next

-----------------------------------------------------------------------------

\* Every step, and every step that changes nothing, keeps the invariant.
LEMMA StepIInv == IInv /\ [Next]_vars => IInv'
<1>1. ASSUME IInv, Next PROVE IInv'
  BY <1>1, NextTypeOK, NextArgsUsed, NextFresh, NextLiveOnce, NextHonoured
  DEF IInv, LiveOnce, Honoured
<1>2. ASSUME IInv, UNCHANGED vars PROVE IInv'
  BY <1>2 DEF vars, requestVars, history, IInv, TypeOK, TokensOK, RequestsOK, ArgsUsed,
     NewIsFresh, SessionsIssued, OneLiveToken, OneSuccessor, Continues, LogoutIsFinal,
     HeldTokensWork, Valid, At
<1> QED
  BY <1>1, <1>2

\* The invariant holds in every reachable state.
LEMMA SessionsInvariant == Spec => []IInv
  BY InitIInv, StepIInv, PTL DEF Spec

\* Keys, tokens and requests stay in their ranges: in particular Redis never
\* holds the key of a token that was not issued.
THEOREM SessionsTypeCorrect == Spec => []TypeOK
<1>1. IInv => TypeOK
  BY DEF IInv
<1> QED
  BY <1>1, SessionsInvariant, PTL

\* Rotation leaves a session one live token, for any number of requests and
\* tokens, unless the session was forked (RefreshToken).
THEOREM SessionsOneLiveToken == Spec => []OneLiveToken
<1>1. IInv => OneLiveToken
  BY DEF IInv
<1> QED
  BY <1>1, SessionsInvariant, PTL

\* A token whose logout was answered is never honoured again (Logout).
THEOREM SessionsLogoutIsFinal == Spec => []LogoutIsFinal
<1>1. IInv => LogoutIsFinal
  BY DEF IInv
<1> QED
  BY <1>1, SessionsInvariant, PTL

\* A token that was answered is honoured until it is used, expires or Redis
\* loses its data (Login, RefreshToken).
THEOREM SessionsHeldTokensWork == Spec => []HeldTokensWork
<1>1. IInv => HeldTokensWork
  BY DEF IInv
<1> QED
  BY <1>1, SessionsInvariant, PTL
=============================================================================
