--------------------------- MODULE NotificationApi ---------------------------
(***************************************************************************)
(* The user endpoints of the notification API (route.go, handler.go): send *)
(* a notification, read and write the preferences, page through the        *)
(* history.  Every request passes the rate limiter first; all of one       *)
(* client and one user, the only ones that share a counter, a cached key   *)
(* or a history.  A tick is half a minute: no request is open at its end.  *)
(***************************************************************************)
EXTENDS RateLimiter, Preferences, FiniteSets

CONSTANTS Ids,            \* notification ids; a UUID is any unused one
          MaxTime,        \* bound: creation times are equal from then on
          DefaultPage, MaxPage,  \* page size when none is asked, and the most
          MaxFaults

ASSUME ApiAssumption ==
  /\ Keys = {"ip", "send"}
  /\ Ids \subseteq Nat /\ MaxTime \in Nat /\ MaxFaults \in Nat
  /\ DefaultPage \in Nat \ {0} /\ MaxPage \in Nat \ {0}

VARIABLES
  pc,      \* where each request is in its handler
  stamp,   \* created_at of the notification it is about to commit
  time,
  notes,   \* the committed notifications
  walk,    \* a client walking through the pages: its cursor, what it got, and
           \* (history) what there was when it began
  faults

apiVars == <<pc, stamp, time, notes, walk, faults>>
vars == <<apiVars, limiterVars, prefVars>>

Note == [at : 0..MaxTime, id : Ids]
NoCursor == [at |-> MaxTime + 1, id |-> 0]
NewWalk == [cursor |-> NoCursor, got |-> {}, due |-> {}]

Init ==
  /\ LimiterInit /\ PrefInit
  /\ pc = [r \in Requests |-> "idle"]
  /\ stamp = [r \in Requests |-> 0]
  /\ time = 0 /\ notes = {} /\ walk = NewWalk /\ faults = 0

Fault == faults < MaxFaults /\ faults' = faults + 1
Goto(r, label) == pc' = [pc EXCEPT ![r] = label]
At(r, label) == pc[r] = label
Inside(label) == {r \in Requests : At(r, label)}

-----------------------------------------------------------------------------
(* The limiter in front of the handlers *)

\* What comes after the limiter of the route group, per route.
Entry == {"sendLimit", "cacheGet", "upsert", "list"}

Arrive(r) == \E entry \in Entry :
  /\ At(r, "idle")
  /\ Allow("ip") /\ Goto(r, entry)
  /\ UNCHANGED <<stamp, time, notes, walk, faults, prefVars>>

TurnedAway(r) ==
  /\ At(r, "idle")
  /\ Refuse("ip")
  /\ UNCHANGED <<apiVars, prefVars>>

SendAllowed(r) ==
  /\ At(r, "sendLimit")
  /\ Allow("send") /\ Goto(r, "prefCheck")
  /\ UNCHANGED <<stamp, time, notes, walk, faults, prefVars>>

SendRefused(r) ==
  /\ At(r, "sendLimit")
  /\ Refuse("send") /\ Goto(r, "idle")
  /\ UNCHANGED <<stamp, time, notes, walk, faults, prefVars>>

\* An error from Redis lets the request through, uncounted.
FailOpen(r) ==
  /\ \/ At(r, "idle") /\ \E entry \in Entry : Goto(r, entry)
     \/ At(r, "sendLimit") /\ Goto(r, "prefCheck")
  /\ Fault
  /\ UNCHANGED <<stamp, time, notes, walk, limiterVars, prefVars>>

-----------------------------------------------------------------------------
(* POST /notifications/send *)

\* createFromTemplate: a missing template, a failed rendering or a bad
\* recipient end the request; so does a preference that is switched off, but
\* not one that could not be read.  gorm stamps created_at before the commit.
CheckAndBuild(r) ==
  /\ At(r, "prefCheck")
  /\ \/ /\ Goto(r, "commit") /\ stamp' = [stamp EXCEPT ![r] = time]
        /\ IF IsEnabled(Cached) THEN UNCHANGED faults ELSE Fault
     \/ Goto(r, "idle") /\ UNCHANGED <<stamp, faults>>
  /\ UNCHANGED <<time, notes, walk, limiterVars, prefVars>>

Commit(r) == \E id \in Ids \ {n.id : n \in notes} :
  /\ At(r, "commit")
  /\ notes' = notes \cup {[at |-> stamp[r], id |-> id]}
  /\ stamp' = [stamp EXCEPT ![r] = 0]
  /\ Goto(r, "idle")
  /\ UNCHANGED <<time, walk, faults, limiterVars, prefVars>>

\* The transaction of the notification and its outbox event is rolled back.
Rollback(r) ==
  /\ At(r, "commit")
  /\ stamp' = [stamp EXCEPT ![r] = 0]
  /\ Goto(r, "idle")
  /\ UNCHANGED <<time, notes, walk, faults, limiterVars, prefVars>>

-----------------------------------------------------------------------------
(* GET and PUT /users/:id/notification-preferences *)

CacheHit(r) ==
  /\ At(r, "cacheGet") /\ Cached
  /\ Goto(r, "idle")
  /\ UNCHANGED <<stamp, time, notes, walk, faults, limiterVars, prefVars>>

CacheMiss(r) ==
  /\ At(r, "cacheGet")
  /\ IF Cached THEN Fault ELSE UNCHANGED faults
  /\ ReadRows(r) /\ Goto(r, "fill")
  /\ UNCHANGED <<stamp, time, notes, walk, limiterVars>>

FillCache(r) ==
  /\ At(r, "fill") /\ Goto(r, "idle")
  /\ \/ Fill(r) /\ UNCHANGED faults
     \/ FillFails(r) /\ Fault
  /\ UNCHANGED <<stamp, time, notes, walk, limiterVars>>

\* A PUT carries one preference or more, upserted one by one.
Upsert(r) == \E asked \in BOOLEAN, next \in {"upsertMore", "invalidate"} :
  /\ At(r, "upsert") \/ At(r, "upsertMore")
  /\ WriteRows(asked, Inside("fill")) /\ Goto(r, next)
  /\ UNCHANGED <<stamp, time, notes, walk, faults, limiterVars>>

\* A PUT that names another event type is refused before anything is written.
UpsertRefused(r) ==
  /\ At(r, "upsert") /\ Goto(r, "idle")
  /\ UNCHANGED <<stamp, time, notes, walk, faults, limiterVars, prefVars>>

UpsertFails(r) ==
  /\ At(r, "upsertMore") /\ Goto(r, "idle")
  /\ GiveUpWrite
  /\ UNCHANGED <<stamp, time, notes, walk, faults, limiterVars>>

DropCached(r) ==
  /\ At(r, "invalidate") /\ Goto(r, "idle")
  /\ \/ Invalidate /\ UNCHANGED faults
     \/ InvalidateFails /\ Fault
  /\ UNCHANGED <<stamp, time, notes, walk, limiterVars>>

-----------------------------------------------------------------------------
(* GET /notifications *)

\* Bug: rows of one creation time are not told apart.
Precedes_ByTime(m, n) == m.at < n.at
\* (created_at, id) < (cursor.created_at, cursor.id), as the rows are ordered.
Precedes(m, n) == m.at < n.at \/ (m.at = n.at /\ m.id < n.id)

Older(m, n) == m.at < n.at \/ (m.at = n.at /\ m.id < n.id)
Newest(S, k) == {n \in S : Cardinality({m \in S : Older(n, m)}) < k}
PageSize(asked) ==
  IF asked = 0 THEN DefaultPage ELSE IF asked > MaxPage THEN MaxPage ELSE asked

\* One row more than the page is read, to learn whether there is a next one.
Page(cursor, asked) ==
  LET rows  == Newest({n \in notes : Precedes(n, cursor)}, PageSize(asked) + 1)
      items == Newest(rows, PageSize(asked))
  IN [items |-> items, hasMore |-> items # rows,
      next |-> CHOOSE n \in items \cup {NoCursor} :
                 items # {} => n \in items /\ \A m \in items : ~Older(m, n)]

\* The client asks for the first page, or follows next_cursor to the end.
ListPage(r, asked) ==
  LET page == Page(walk.cursor, asked)
  IN /\ At(r, "list") /\ Goto(r, "idle")
     /\ walk' = IF page.hasMore
                THEN [cursor |-> page.next, got |-> walk.got \cup page.items,
                      due |-> IF walk.cursor = NoCursor THEN notes ELSE walk.due]
                ELSE NewWalk
     /\ UNCHANGED <<stamp, time, notes, faults, limiterVars, prefVars>>

-----------------------------------------------------------------------------
Tick ==
  /\ \A r \in Requests : At(r, "idle")
  /\ LimiterTick /\ PrefTick
  /\ time' = IF time < MaxTime THEN time + 1 ELSE time
  /\ UNCHANGED <<pc, stamp, notes, walk, faults>>

\* Redis restarts without its data.
RedisLost ==
  /\ Fault
  /\ counter' = [k \in Keys |-> NoKey]
  /\ recent' = [k \in Keys |-> {}]
  /\ Emptied
  /\ UNCHANGED <<pc, stamp, time, notes, walk, prefs, seen, raced>>

Limited(r) == Arrive(r) \/ TurnedAway(r) \/ SendAllowed(r) \/ SendRefused(r) \/ FailOpen(r)
Send(r) == CheckAndBuild(r) \/ Commit(r) \/ Rollback(r)
GetPreferences(r) == CacheHit(r) \/ CacheMiss(r) \/ FillCache(r)
UpsertPreferences(r) == Upsert(r) \/ UpsertRefused(r) \/ UpsertFails(r) \/ DropCached(r)
ListNotifications(r) == \E asked \in 0..(MaxPage + 1) : ListPage(r, asked)

Next ==
  \/ Tick \/ RedisLost
  \/ \E r \in Requests : \/ Limited(r) \/ Send(r)
                         \/ GetPreferences(r) \/ UpsertPreferences(r) \/ ListNotifications(r)
Spec == Init /\ [][Next]_vars

-----------------------------------------------------------------------------
(* Properties *)

\* A client is refused only when the limiter has admitted Limit of its requests
\* within the last window: neither refused requests nor expired windows nor the
\* other counter hold it back (the script's EXPIRE on the first hit only).
RefusedOnlyWhenSpent ==
  [][\A r \in Requests : /\ TurnedAway(r) => Spent("ip") >= Limit["ip"]
                         /\ SendRefused(r) => Spent("send") >= Limit["send"]]_vars

\* The cached preferences are behind the rows only while a PUT is between its
\* upsert and its delete, or after a GET cached rows that a PUT had replaced
\* since it read them, a failed delete, or a PUT that failed after its first
\* upsert; and then for less than the TTL (GetPreferences, UpsertPreferences).
CacheFollowsRows ==
  Stale => /\ excused \/ Inside("upsertMore") \cup Inside("invalidate") # {}
           /\ behind < TTL

\* A client that follows next_cursor to the end gets every notification there
\* was when it began, and none twice, though notifications are created between
\* its pages, share creation times and the page size changes (cursor and limit
\* of ListNotifications and List).
WalksAreComplete ==
  [][\A r \in Requests, asked \in 0..(MaxPage + 1) :
       ListPage(r, asked) =>
         LET page == Page(walk.cursor, asked)
         IN /\ page.items \cap walk.got = {}
            /\ ~page.hasMore /\ walk.cursor # NoCursor => walk.due \subseteq walk.got \cup page.items]_vars
=============================================================================
