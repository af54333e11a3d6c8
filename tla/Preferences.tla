----------------------------- MODULE Preferences -----------------------------
(***************************************************************************)
(* service/preference_service.go with repository/preference_repository.go  *)
(* and pkg/redis/cache.go: the preference rows of one user and their copy  *)
(* in Redis, with the effect of each call on them.  The rows are told      *)
(* apart by a version, their updated_at.                                   *)
(***************************************************************************)
EXTENDS Naturals

CONSTANTS Requests,     \* the API requests in progress
          TTL,          \* prefCacheTTL in ticks
          MaxVersion    \* bound: how often rows are written

ASSUME PreferencesAssumption == TTL \in Nat \ {0} /\ MaxVersion \in Nat

VARIABLES
  prefs,     \* the rows in PostgreSQL
  cache,     \* the key pref:<user>; ttl 0 is a missing key
  seen,      \* the rows each GET has read and is about to cache
  raced,     \* history: GETs whose rows were written since they read them
  excused,   \* history: the cache may be behind the rows
  behind     \* history: for how many ticks it has been

prefVars == <<prefs, cache, seen, raced, excused, behind>>

Rows == [version : 0..MaxVersion, enabled : BOOLEAN]
NoRows == [version |-> 0, enabled |-> TRUE]
Missing == [rows |-> NoRows, ttl |-> 0]
Cached == cache.ttl > 0
Stale == Cached /\ cache.rows # prefs

PrefInit ==
  /\ prefs = NoRows /\ cache = Missing
  /\ seen = [r \in Requests |-> NoRows]
  /\ raced = {} /\ excused = FALSE /\ behind = 0

\* gorm inserts the column's default:true in place of the zero value FALSE,
\* and the conflict clause then takes enabled from the row it could not insert.
ColumnDefault == TRUE
StoredEnabled(asked) == IF asked THEN asked ELSE ColumnDefault

\* One Upsert of a PUT; filling are the GETs that hold rows read before it.
WriteRows(asked, filling) ==
  /\ prefs.version < MaxVersion
  /\ prefs' = [version |-> prefs.version + 1, enabled |-> StoredEnabled(asked)]
  /\ raced' = raced \cup filling
  /\ UNCHANGED <<cache, seen, excused, behind>>

\* A later Upsert of the same PUT failed: it returns without cache.Delete.
GiveUpWrite == /\ excused' = TRUE
               /\ UNCHANGED <<prefs, cache, seen, raced, behind>>

Emptied == cache' = Missing /\ excused' = FALSE /\ behind' = 0

\* Bug: the key deleted is not the one the rows are cached under.
Invalidate_OtherKey == UNCHANGED prefVars
Invalidate == Emptied /\ UNCHANGED <<prefs, seen, raced>>

\* The error of cache.Delete is dropped.
InvalidateFails == /\ excused' = TRUE
                   /\ UNCHANGED <<prefs, cache, seen, raced, behind>>

ReadRows(r) == /\ seen' = [seen EXCEPT ![r] = prefs]
               /\ raced' = raced \ {r}
               /\ UNCHANGED <<prefs, cache, excused, behind>>

\* cache.Set with the TTL, of the rows read before.
Fill(r) == /\ cache' = [rows |-> seen[r], ttl |-> TTL]
           /\ excused' = (r \in raced)
           /\ behind' = 0
           /\ seen' = [seen EXCEPT ![r] = NoRows]
           /\ UNCHANGED <<prefs, raced>>

FillFails(r) == /\ seen' = [seen EXCEPT ![r] = NoRows]
                /\ UNCHANGED <<prefs, cache, raced, excused, behind>>

\* IsNotificationEnabled for the one event type users may toggle: from the
\* cache, else from the rows, TRUE when there is none.
IsEnabled(useCache) == IF useCache THEN cache.rows.enabled ELSE prefs.enabled

PrefTick ==
  /\ IF cache.ttl > 1
     THEN /\ cache' = [cache EXCEPT !.ttl = @ - 1]
          /\ behind' = IF Stale THEN behind + 1 ELSE 0
          /\ UNCHANGED excused
     ELSE Emptied
  /\ UNCHANGED <<prefs, seen, raced>>

\* Rows, and the copies of them in Redis and in requests, keep their shape.
PrefTypeOK ==
  /\ prefs \in Rows /\ cache \in [rows : Rows, ttl : 0..TTL]
  /\ seen \in [Requests -> Rows] /\ raced \subseteq Requests
  /\ excused \in BOOLEAN /\ behind \in 0..TTL
=============================================================================
