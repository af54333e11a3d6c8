----------------------- MODULE NotificationApi_proofs ------------------------
(***************************************************************************)
(* For any number of requests and faults, any limits, window, page sizes   *)
(* and TTL: the preference cache is behind the rows only where it is       *)
(* excused, and briefly; the limiter admits and refuses by its limit; a    *)
(* walk along the pages is complete.                                       *)
(***************************************************************************)
EXTENDS NotificationApi, FiniteSetTheorems, FunctionTheorems, WellFoundedInduction, TLAPS

\* Where a PUT has written rows and not yet deleted the cached ones.
Writing == {"upsertMore", "invalidate"}

Places == {"idle", "sendLimit", "prefCheck", "commit", "list", "cacheGet", "fill",
           "upsert", "upsertMore", "invalidate"}
PlacesOK == pc \in [Requests -> Places]

\* A GET that is about to cache rows has the present ones, unless it raced.
ReadersAreCurrent == \A r \in Requests : At(r, "fill") /\ r \notin raced => seen[r] = prefs

\* Every tick takes from the key's life what it may add to its delay.
DelayIsPaid == behind + cache.ttl <= TTL

\* The cache is behind the rows only during a write, or with an excuse.
StaleIsExcused ==
  Stale => excused \/ \E r \in Requests : pc[r] \in Writing

\* Inductive: what a fill may put into the cache is known when the rows are
\* read, and what a write owes is remembered in its place.
IInv == PrefTypeOK /\ PlacesOK /\ ReadersAreCurrent /\ DelayIsPaid /\ StaleIsExcused

\* A missing key holds no rows.
LEMMA MissingFacts ==
  /\ NoRows \in Rows
  /\ Missing \in [rows : Rows, ttl : 0..TTL] /\ Missing.ttl = 0
<1>1. NoRows \in Rows
  BY PreferencesAssumption DEF NoRows, Rows
<1> QED
  BY <1>1, PreferencesAssumption DEF Missing

\* Deleting the key ends every delay.
LEMMA EmptiedFacts ==
  ASSUME Emptied
  PROVE  /\ cache' \in [rows : Rows, ttl : 0..TTL] /\ excused' \in BOOLEAN
         /\ behind' \in 0..TTL /\ DelayIsPaid' /\ ~Cached'
<1>1. cache' = Missing /\ behind' = 0 /\ excused' = FALSE
  BY DEF Emptied
<1>2. behind' \in 0..TTL
  BY <1>1, PreferencesAssumption
<1>3. cache'.ttl = 0
  BY <1>1, MissingFacts
<1>4. DelayIsPaid' /\ ~Cached'
  BY <1>1, <1>3, PreferencesAssumption DEF DelayIsPaid, Cached
<1> QED
  BY <1>1, <1>2, <1>4, MissingFacts

\* At the start nothing is cached.
LEMMA InitIInv == Init => IInv
<1> SUFFICES ASSUME Init PROVE IInv
  OBVIOUS
<1>1. PrefTypeOK
  BY MissingFacts, PreferencesAssumption DEF Init, PrefInit, PrefTypeOK
<1>2. PlacesOK /\ ReadersAreCurrent
  BY DEF Init, PlacesOK, Places, ReadersAreCurrent, At
<1>3. DelayIsPaid /\ StaleIsExcused
  BY MissingFacts, PreferencesAssumption
  DEF Init, PrefInit, DelayIsPaid, StaleIsExcused, Stale, Cached
<1> QED
  BY <1>1, <1>2, <1>3 DEF IInv

-----------------------------------------------------------------------------
(* Steps that leave rows and cache alone *)

\* A request that moves between places that are nothing to the cache.
LEMMA Elsewhere ==
  ASSUME IInv, UNCHANGED prefVars, NEW r \in Requests, NEW to \in Places,
         Goto(r, to), pc[r] \notin Writing, to # "fill"
  PROVE  IInv'
  BY DEF IInv, PrefTypeOK, PlacesOK, Places, ReadersAreCurrent, DelayIsPaid, StaleIsExcused,
     Stale, Cached, Rows, At, Goto, prefVars, Writing

\* The limiter, sending and listing do not touch the preferences.
LEMMA OthersIInv ==
  ASSUME IInv, NEW r \in Requests, Limited(r) \/ Send(r) \/ ListNotifications(r)
  PROVE  IInv'
<1>1. ASSUME Arrive(r) PROVE IInv'
  BY <1>1, Elsewhere DEF Arrive, Entry, At, Writing, Places
<1>2. ASSUME TurnedAway(r) PROVE IInv'
  BY <1>2 DEF TurnedAway, IInv, PrefTypeOK, PlacesOK, Places, ReadersAreCurrent, DelayIsPaid,
     StaleIsExcused, Stale, Cached, Rows, At, apiVars, prefVars
<1>3. ASSUME SendAllowed(r) \/ SendRefused(r) PROVE IInv'
  BY <1>3, Elsewhere DEF SendAllowed, SendRefused, At, Writing, Places
<1>4. ASSUME FailOpen(r) PROVE IInv'
  BY <1>4, Elsewhere DEF FailOpen, Entry, At, Writing, Places
<1>5. ASSUME Send(r) PROVE IInv'
  BY <1>5, Elsewhere DEF Send, CheckAndBuild, Commit, Rollback, At, Writing, Places
<1>6. ASSUME ListNotifications(r) PROVE IInv'
  BY <1>6, Elsewhere DEF ListNotifications, ListPage, At, Writing, Places
<1> QED
  BY <1>1, <1>2, <1>3, <1>4, <1>5, <1>6 DEF Limited

-----------------------------------------------------------------------------
(* The preferences *)

\* What a GET caches are the present rows, or it raced and leaves an excuse.
LEMMA GetIInv == ASSUME IInv, NEW r \in Requests, GetPreferences(r) PROVE IInv'
<1> USE DEF IInv, PrefTypeOK, PlacesOK, Places, ReadersAreCurrent, DelayIsPaid, StaleIsExcused,
        Stale, Cached, At, Goto, Writing
<1>1. ASSUME CacheHit(r) PROVE IInv'
  BY <1>1, Elsewhere DEF CacheHit
<1>2. ASSUME CacheMiss(r) PROVE IInv'
  BY <1>2 DEF CacheMiss, ReadRows, Rows
<1>3. ASSUME FillCache(r), Fill(r) PROVE IInv'
  <2>1. /\ PrefTypeOK' /\ PlacesOK' /\ DelayIsPaid'
    BY <1>3, PreferencesAssumption DEF FillCache, Fill, Rows, NoRows
  <2>2. ReadersAreCurrent'
    BY <1>3 DEF FillCache, Fill
  <2>3. StaleIsExcused'
    BY <1>3 DEF FillCache, Fill
  <2> QED
    BY <2>1, <2>2, <2>3
<1>4. ASSUME FillCache(r), FillFails(r) PROVE IInv'
  <2>1. PrefTypeOK' /\ PlacesOK' /\ DelayIsPaid'
    BY <1>4, MissingFacts DEF FillCache, FillFails, Places
  <2>2. ReadersAreCurrent' /\ StaleIsExcused'
    BY <1>4 DEF FillCache, FillFails
  <2> QED
    BY <2>1, <2>2
<1> QED
  BY <1>1, <1>2, <1>3, <1>4 DEF GetPreferences, FillCache

\* A PUT owes the delete from its first write on; where it gives up, it leaves
\* an excuse.
LEMMA UpsertIInv == ASSUME IInv, NEW r \in Requests, UpsertPreferences(r) PROVE IInv'
<1> USE DEF IInv, PrefTypeOK, PlacesOK, Places, ReadersAreCurrent, DelayIsPaid, StaleIsExcused,
        Stale, Cached, At, Goto, Writing
<1>1. ASSUME Upsert(r) PROVE IInv'
  <2>1. PICK asked \in BOOLEAN, next \in {"upsertMore", "invalidate"} :
          WriteRows(asked, Inside("fill")) /\ Goto(r, next)
    BY <1>1 DEF Upsert
  <2>2. prefs' \in Rows
    <3>1. prefs.version + 1 \in 0..MaxVersion
      BY <2>1, PreferencesAssumption DEF WriteRows, Rows
    <3>2. StoredEnabled(asked) \in BOOLEAN
      BY DEF StoredEnabled, ColumnDefault
    <3> QED
      BY <2>1, <3>1, <3>2 DEF WriteRows, Rows
  <2>3. PrefTypeOK' /\ PlacesOK' /\ DelayIsPaid' /\ StaleIsExcused'
    BY <2>1, <2>2 DEF WriteRows, Inside
  <2>4. ReadersAreCurrent'
    BY <2>1 DEF WriteRows, Inside
  <2> QED
    BY <2>3, <2>4
<1>2. ASSUME UpsertRefused(r) PROVE IInv'
  BY <1>2, Elsewhere DEF UpsertRefused
<1>3. ASSUME UpsertFails(r) PROVE IInv'
  BY <1>3 DEF UpsertFails, GiveUpWrite, Rows
<1>4. ASSUME DropCached(r), Invalidate PROVE IInv'
  <2>1. PrefTypeOK' /\ PlacesOK' /\ DelayIsPaid'
    BY <1>4, EmptiedFacts DEF DropCached, Invalidate
  <2>2. ReadersAreCurrent' /\ StaleIsExcused'
    BY <1>4, EmptiedFacts DEF DropCached, Invalidate
  <2> QED
    BY <2>1, <2>2
<1>5. ASSUME DropCached(r), InvalidateFails PROVE IInv'
  BY <1>5 DEF DropCached, InvalidateFails, Rows
<1> QED
  BY <1>1, <1>2, <1>3, <1>4, <1>5 DEF UpsertPreferences, DropCached

-----------------------------------------------------------------------------
(* Time and restarts *)

\* A tick passes between requests, so what is stale then has an excuse.
LEMMA TimeIInv == ASSUME IInv, Tick \/ RedisLost PROVE IInv'
<1> USE DEF IInv, PrefTypeOK, PlacesOK, Places, ReadersAreCurrent, DelayIsPaid,
        StaleIsExcused, Stale, Cached, At, Writing
<1>1. ASSUME Emptied, UNCHANGED <<pc, prefs, seen, raced>> PROVE IInv'
  <2>1. PrefTypeOK' /\ PlacesOK' /\ DelayIsPaid'
    BY <1>1, EmptiedFacts
  <2>2. ReadersAreCurrent' /\ StaleIsExcused'
    BY <1>1, EmptiedFacts
  <2> QED
    BY <2>1, <2>2
<1>2. ASSUME Tick, cache.ttl > 1 PROVE IInv'
  <2>1. /\ cache' = [cache EXCEPT !.ttl = @ - 1]
        /\ behind' = (IF Stale THEN behind + 1 ELSE 0)
        /\ UNCHANGED <<excused, pc, prefs, seen, raced>>
    BY <1>2 DEF Tick, PrefTick
  <2>2. cache'.rows = cache.rows /\ cache'.ttl = cache.ttl - 1
    BY <2>1
  <2>3. DelayIsPaid'
    BY <2>1, <2>2, PreferencesAssumption
  <2>4. PrefTypeOK' /\ PlacesOK'
    BY <1>2, <2>1, <2>3, PreferencesAssumption
  <2>5. ReadersAreCurrent' /\ StaleIsExcused'
    BY <1>2, <2>1, <2>2 DEF Tick
  <2> QED
    BY <2>3, <2>4, <2>5
<1> QED
  BY <1>1, <1>2 DEF Tick, PrefTick, RedisLost

\* A step that changes nothing keeps the invariant.
LEMMA StutterIInv == ASSUME IInv, UNCHANGED vars PROVE IInv'
  BY DEF vars, apiVars, prefVars, IInv, PrefTypeOK, PlacesOK, Places, ReadersAreCurrent,
     DelayIsPaid, StaleIsExcused, Stale, Cached, Rows, At

\* The invariant holds in every reachable state.
LEMMA PreferencesInvariant == Spec => []IInv
<1>1. IInv /\ [Next]_vars => IInv'
  BY OthersIInv, GetIInv, UpsertIInv, TimeIInv, StutterIInv DEF Next
<1> QED
  BY InitIInv, <1>1, PTL DEF Spec

\* The rows, the cached ones and those GETs have in hand keep their shape.
THEOREM PreferencesTypeCorrect == Spec => []PrefTypeOK
<1>1. IInv => PrefTypeOK
  BY DEF IInv
<1> QED
  BY PreferencesInvariant, <1>1, PTL

\* The cached preferences are behind the rows only while a PUT is between its
\* upsert and its delete, or after a raced GET, a failed delete or a failed PUT,
\* and then for less than the TTL: GetPreferences and UpsertPreferences.
THEOREM PreferencesCacheFollowsRows == Spec => []CacheFollowsRows
<1>1. IInv => CacheFollowsRows
  <2>1. ASSUME IInv, Stale PROVE behind < TTL
    BY <2>1, PreferencesAssumption DEF IInv, PrefTypeOK, DelayIsPaid, Stale, Cached
  <2>2. ASSUME IInv, Stale
        PROVE  excused \/ Inside("upsertMore") \cup Inside("invalidate") # {}
    BY <2>2 DEF IInv, StaleIsExcused, Inside, At, Writing
  <2> QED
    BY <2>1, <2>2 DEF CacheFollowsRows
<1> QED
  BY PreferencesInvariant, <1>1, PTL

-----------------------------------------------------------------------------
(* The limiter *)

\* The admissions of the window that is open, and those of earlier windows.
Opened(k) == Window - counter[k].ttl
Current(k) == {a \in recent[k] : counter[k].count > 0 /\ a.age <= Opened(k)}
Before(k) == recent[k] \ Current(k)

Admission(k) == [age : Ages, hit : 1..Limit[k]]

\* The key's life and its count.
CounterOK(k) ==
  /\ counter[k] \in [count : 0..(Limit[k] + 1), ttl : 0..Window]
  /\ counter[k].count = 0 <=> counter[k].ttl = 0

\* The open window has admitted what was counted, up to the limit; the hit that
\* opened it was admitted, and nothing is as old that it does not count.
WindowOK(k) ==
  /\ recent[k] \subseteq Admission(k) /\ IsFiniteSet(recent[k])
  /\ \A a \in Current(k) : a.hit <= counter[k].count
  /\ Cardinality(Current(k)) =
       IF counter[k].count <= Limit[k] THEN counter[k].count ELSE Limit[k]
  /\ counter[k].count = 0 => \A a \in recent[k] : a.age > 0
  /\ counter[k].count > 0 => \E a \in recent[k] : a.age = Opened(k)

\* Of the window before, the hit that opened it is out of the last Window ticks.
BeforeOK(k) == Cardinality(Before(k)) < Limit[k]

LimiterOK(k) == CounterOK(k) /\ WindowOK(k) /\ BeforeOK(k)
LimiterInv ==
  /\ DOMAIN counter = Keys /\ DOMAIN recent = Keys
  /\ \A k \in Keys : LimiterOK(k)

\* The limit of a key, and the length of a window.
LEMMA LimitIs ==
  ASSUME NEW k \in Keys
  PROVE  Limit[k] \in Nat /\ Limit[k] > 0 /\ Window \in Nat /\ Window > 0 /\ 0 \in Ages
  BY LimiterAssumption DEF Ages

\* What was admitted is what the open window admitted and what earlier ones did.
LEMMA SpentIs ==
  ASSUME NEW k \in Keys, WindowOK(k)
  PROVE  /\ IsFiniteSet(Current(k)) /\ Cardinality(Current(k)) \in Nat
         /\ IsFiniteSet(Before(k)) /\ Cardinality(Before(k)) \in Nat
         /\ Spent(k) = Cardinality(Current(k)) + Cardinality(Before(k))
<1>1. IsFiniteSet(Current(k)) /\ IsFiniteSet(Before(k))
  BY FS_Subset DEF WindowOK, Current, Before
<1>2. Current(k) \cap Before(k) = {} /\ Current(k) \cup Before(k) = recent[k]
  BY DEF Current, Before
<1>3. Cardinality(Current(k)) \in Nat /\ Cardinality(Before(k)) \in Nat
  BY <1>1, FS_CardinalityType
<1>4. Cardinality(recent[k]) =
        Cardinality(Current(k)) + Cardinality(Before(k)) - Cardinality({})
  BY <1>1, <1>2, FS_Union
<1> QED
  BY <1>1, <1>3, <1>4, FS_EmptySet DEF Spent

\* Nothing was admitted and no key exists.
LEMMA NothingAdmitted ==
  ASSUME counter' = [k \in Keys |-> NoKey], recent' = [k \in Keys |-> {}]
  PROVE  LimiterInv'
<1>1. ASSUME NEW k \in Keys PROVE LimiterOK(k)'
  <2>1. counter'[k].count = 0 /\ counter'[k].ttl = 0 /\ recent'[k] = {}
    BY DEF NoKey
  <2>2. CounterOK(k)'
    BY LimitIs DEF CounterOK, NoKey
  <2>3. Current(k)' = {} /\ Before(k)' = {}
    BY <2>1 DEF Current, Before
  <2>4. WindowOK(k)' /\ BeforeOK(k)'
    BY <2>1, <2>3, LimitIs, FS_EmptySet DEF WindowOK, BeforeOK
  <2> QED
    BY <2>2, <2>4 DEF LimiterOK
<1> QED
  BY <1>1 DEF LimiterInv

\* A hit that is admitted counts in the open window, or opens one.
LEMMA AllowKeeps ==
  ASSUME LimiterInv, NEW k \in Keys, Allow(k)
  PROVE  LimiterInv'
<1> DEFINE new == [age |-> 0, hit |-> Hit(k).count]
<1>1. LimiterOK(k) /\ CounterOK(k) /\ WindowOK(k) /\ BeforeOK(k)
  BY DEF LimiterInv, LimiterOK
<1>2. /\ counter[k].count \in Nat /\ counter[k].ttl \in 0..Window
      /\ Limit[k] \in Nat /\ Limit[k] > 0 /\ Window \in Nat /\ Window > 0 /\ 0 \in Ages
  BY <1>1, LimitIs DEF CounterOK
<1>3. /\ Hit(k).count = counter[k].count + 1 /\ counter[k].count + 1 <= Limit[k]
      /\ Hit(k).ttl = IF counter[k].count = 0 THEN Window ELSE counter[k].ttl
  BY <1>1, <1>2 DEF Allow, WithinLimit, Hit, Incremented
<1>4. /\ counter'[k] = Hit(k) /\ recent'[k] = recent[k] \cup {new}
      /\ DOMAIN counter' = Keys /\ DOMAIN recent' = Keys
      /\ \A j \in Keys \ {k} : counter'[j] = counter[j] /\ recent'[j] = recent[j]
  BY DEF LimiterInv, Allow
<1>5. CounterOK(k)'
  <2>1. counter'[k] = [count |-> Hit(k).count, ttl |-> Hit(k).ttl]
    BY <1>4 DEF Hit
  <2> QED
    BY <1>1, <1>2, <1>3, <2>1 DEF CounterOK
<1>6. /\ Current(k)' = Current(k) \cup {new} /\ new \notin Current(k)
      /\ Before(k)' \subseteq Before(k)
  <2>1. new.age = 0 /\ new.hit = counter[k].count + 1
    BY <1>3
  <2> HIDE DEF new
  <2>2. \A a \in recent[k] : a.age \in Nat /\ a.hit \in Nat
    BY <1>1, <1>2 DEF WindowOK, Admission, Ages
  <2>3. new \notin Current(k)
    BY <1>1, <1>2, <2>1, <2>2 DEF WindowOK, Current
  <2>4. CASE counter[k].count = 0
    <3>1. Current(k) = {} /\ \A a \in recent[k] : a.age > 0
      BY <1>1, <1>2, <2>4 DEF Current, WindowOK
    <3>2. counter'[k].count > 0 /\ Opened(k)' = 0
      BY <1>2, <1>3, <1>4, <2>4 DEF Opened
    <3>3. Current(k)' = {new}
      BY <1>4, <2>1, <2>2, <3>1, <3>2 DEF Current
    <3> QED
      BY <1>4, <2>3, <3>1, <3>3 DEF Before
  <2>5. CASE counter[k].count > 0
    <3>1. counter'[k].count > 0 /\ Opened(k)' = Opened(k) /\ Opened(k) >= 0
      BY <1>2, <1>3, <1>4, <2>5 DEF Opened
    <3>2. Current(k)' = Current(k) \cup {new}
      BY <1>4, <2>1, <2>2, <2>5, <3>1 DEF Current
    <3> QED
      BY <1>4, <2>3, <3>2 DEF Before
  <2> QED
    BY <1>2, <2>4, <2>5
<1>7. WindowOK(k)'
  <2>1. new \in Admission(k) /\ new.age = 0 /\ new.hit = counter[k].count + 1
    BY <1>2, <1>3 DEF Admission
  <2> HIDE DEF new
  <2>2. recent'[k] \subseteq Admission(k) /\ IsFiniteSet(recent'[k])
    BY <1>1, <1>4, <2>1, FS_AddElement DEF WindowOK
  <2>3. /\ Cardinality(Current(k)') = Cardinality(Current(k)) + 1
        /\ Cardinality(Current(k)) = counter[k].count
    <3>1. IsFiniteSet(Current(k)) /\ Cardinality(Current(k)) = counter[k].count
      BY <1>1, <1>2, <1>3, SpentIs DEF WindowOK
    <3>2. Cardinality(Current(k) \cup {new}) = Cardinality(Current(k)) + 1
      BY <1>6, <3>1, FS_AddElement
    <3> QED
      BY <1>6, <3>1, <3>2
  <2>4. \A a \in Current(k)' : a.hit <= counter'[k].count
    <3>1. \A a \in Current(k) : a.hit \in Nat /\ a.hit <= counter[k].count
      BY <1>1, <1>2 DEF WindowOK, Current, Admission
    <3> QED
      BY <1>2, <1>3, <1>4, <1>6, <2>1, <3>1
  <2>5. \E a \in recent'[k] : a.age = Opened(k)'
    <3>1. CASE counter[k].count = 0
      <4>1. Opened(k)' = 0
        BY <1>2, <1>3, <1>4, <3>1 DEF Opened
      <4> QED
        BY <1>4, <2>1, <4>1
    <3>2. CASE counter[k].count > 0
      BY <1>1, <1>2, <1>3, <1>4, <3>2 DEF Opened, WindowOK
    <3> QED
      BY <1>2, <3>1, <3>2
  <2>6. counter'[k].count = counter[k].count + 1
    BY <1>3, <1>4
  <2> QED
    BY <1>2, <1>3, <2>2, <2>3, <2>4, <2>5, <2>6 DEF WindowOK, Admission
<1>8. BeforeOK(k)'
  <2>1. Cardinality(Before(k)') <= Cardinality(Before(k)) /\ Cardinality(Before(k)') \in Nat
    BY <1>1, <1>6, SpentIs, FS_Subset, FS_CardinalityType
  <2> QED
    BY <1>1, <1>2, <2>1, SpentIs DEF BeforeOK
<1>9. ASSUME NEW j \in Keys, j # k PROVE LimiterOK(j)'
  <2>1. counter'[j] = counter[j] /\ recent'[j] = recent[j] /\ LimiterOK(j)
    BY <1>4, <1>9 DEF LimiterInv
  <2>2. Opened(j)' = Opened(j) /\ Current(j)' = Current(j) /\ Before(j)' = Before(j)
    BY <2>1 DEF Opened, Current, Before
  <2> QED
    BY <2>1, <2>2 DEF LimiterOK, CounterOK, WindowOK, BeforeOK, Admission
<1> QED
  BY <1>4, <1>5, <1>7, <1>8, <1>9 DEF LimiterInv, LimiterOK

\* A hit that is refused changes nothing but a count at its limit.
LEMMA RefuseKeeps ==
  ASSUME LimiterInv, NEW k \in Keys, Refuse(k)
  PROVE  LimiterInv' /\ counter[k].count >= Limit[k]
<1>1. LimiterOK(k) /\ CounterOK(k) /\ WindowOK(k) /\ BeforeOK(k)
  BY DEF LimiterInv, LimiterOK
<1>2. /\ counter[k].count \in 0..(Limit[k] + 1) /\ counter[k].ttl \in 0..Window
      /\ Limit[k] \in Nat /\ Limit[k] > 0 /\ Window \in Nat
  BY <1>1, LimitIs DEF CounterOK
<1>3. /\ Hit(k).count > Limit[k] /\ counter[k].count >= Limit[k]
      /\ Hit(k).ttl = counter[k].ttl /\ Hit(k).count = Limit[k] + 1
  BY <1>1, <1>2 DEF Refuse, WithinLimit, Hit, Incremented
<1>4. /\ counter'[k] = Hit(k) /\ recent' = recent
      /\ DOMAIN counter' = Keys /\ DOMAIN recent' = Keys
      /\ \A j \in Keys \ {k} : counter'[j] = counter[j]
  BY DEF LimiterInv, Refuse
<1>5. CounterOK(k)'
  <2>1. counter'[k] = [count |-> Hit(k).count, ttl |-> Hit(k).ttl]
    BY <1>4 DEF Hit
  <2> QED
    BY <1>1, <1>2, <1>3, <2>1 DEF CounterOK
<1>6. Opened(k)' = Opened(k) /\ Current(k)' = Current(k) /\ Before(k)' = Before(k)
  BY <1>2, <1>3, <1>4 DEF Opened, Current, Before
<1>7. WindowOK(k)'
  <2>1. \A a \in Current(k) : a.hit <= counter'[k].count
    <3>1. \A a \in Current(k) : a.hit \in 1..Limit[k]
      BY <1>1 DEF WindowOK, Current, Admission
    <3> QED
      BY <1>2, <1>3, <1>4, <3>1
  <2>2. Cardinality(Current(k)) = Limit[k]
    BY <1>1, <1>2, <1>3 DEF WindowOK
  <2> QED
    BY <1>1, <1>2, <1>3, <1>4, <1>6, <2>1, <2>2 DEF WindowOK, Admission
<1>8. BeforeOK(k)'
  BY <1>1, <1>6 DEF BeforeOK
<1>9. ASSUME NEW j \in Keys, j # k PROVE LimiterOK(j)'
  BY <1>4, <1>9
  DEF LimiterInv, LimiterOK, CounterOK, WindowOK, BeforeOK, Current, Before, Opened, Admission
<1> QED
  BY <1>3, <1>4, <1>5, <1>7, <1>8, <1>9 DEF LimiterInv, LimiterOK

\* What a tick leaves of admissions, all of them or some.
LEMMA AgedIs ==
  ASSUME NEW k \in Keys, NEW A \in SUBSET Admission(k), IsFiniteSet(A)
  PROVE  /\ Aged(A) \subseteq Admission(k) /\ IsFiniteSet(Aged(A))
         /\ Cardinality(Aged(A)) \in Nat /\ Cardinality(Aged(A)) <= Cardinality(A)
         /\ (\A a \in A : a.age + 1 \in Ages) => Cardinality(Aged(A)) = Cardinality(A)
<1> DEFINE B == {b \in A : b.age + 1 \in Ages}
           f == [a \in B |-> [age |-> a.age + 1, hit |-> a.hit]]
<1>1. IsFiniteSet(B) /\ Cardinality(B) <= Cardinality(A) /\ B \subseteq Admission(k)
  BY FS_Subset
<1>2. Aged(A) = {[age |-> a.age + 1, hit |-> a.hit] : a \in B}
  BY DEF Aged
<1>3. \A a \in Admission(k) : a.age \in Nat /\ a = [age |-> a.age, hit |-> a.hit]
  BY LimitIs DEF Admission, Ages
<1>4. f \in [B -> Aged(A)] /\ \A t \in Aged(A) : \E a \in B : f[a] = t
  BY <1>2
<1>5. f \in Surjection(B, Aged(A))
  BY <1>4, Fun_IsSurj
<1>6. \A a, b \in B : f[a] = f[b] => a = b
  BY <1>1, <1>3
<1>7. f \in Injection(B, Aged(A))
  BY <1>4, <1>6, Fun_IsInj
<1>8. /\ IsFiniteSet(Aged(A)) /\ Cardinality(Aged(A)) <= Cardinality(B)
      /\ Cardinality(Aged(A)) = Cardinality(B)
  BY <1>1, <1>5, <1>7, FS_Surjection
<1>9. Aged(A) \subseteq Admission(k)
  BY <1>1, <1>2 DEF Admission
<1>10. (\A a \in A : a.age + 1 \in Ages) => B = A
  OBVIOUS
<1>11. Cardinality(A) \in Nat /\ Cardinality(B) \in Nat
  BY <1>1, FS_CardinalityType
<1> QED
  BY <1>1, <1>8, <1>9, <1>10, <1>11

\* A tick ages the open window or ends it; its first admission is then out of sight.
LEMMA TickKeeps ==
  ASSUME LimiterInv, LimiterTick
  PROVE  LimiterInv'
<1>1. ASSUME NEW k \in Keys PROVE LimiterOK(k)'
  <2>1. CounterOK(k) /\ WindowOK(k) /\ BeforeOK(k)
    BY DEF LimiterInv, LimiterOK
  <2>2. /\ counter[k].count \in 0..(Limit[k] + 1) /\ counter[k].ttl \in 0..Window
        /\ Limit[k] \in Nat /\ Limit[k] > 0 /\ Window \in Nat /\ Window > 0
    BY <2>1, LimitIs DEF CounterOK
  <2>3. counter'[k] = Expire(counter[k]) /\ recent'[k] = Aged(recent[k])
    BY DEF LimiterTick
  <2>4. /\ recent[k] \in SUBSET Admission(k) /\ IsFiniteSet(recent[k])
        /\ \A a \in recent[k] : a.age \in 0..(Window - 1) /\ a.hit \in 1..Limit[k]
    BY <2>1 DEF WindowOK, Admission, Ages
  <2>5. recent'[k] \subseteq Admission(k) /\ IsFiniteSet(recent'[k])
    BY <2>3, <2>4, AgedIs
  <2>6. \A t : t \in recent'[k] <=>
          \E a \in recent[k] : a.age + 1 < Window /\ t = [age |-> a.age + 1, hit |-> a.hit]
    BY <2>2, <2>3, <2>4 DEF Aged, Ages
  <2>7. CASE counter[k].ttl > 1
    <3>1. /\ counter'[k].count = counter[k].count /\ counter'[k].ttl = counter[k].ttl - 1
          /\ counter[k].count > 0 /\ Opened(k)' = Opened(k) + 1 /\ Opened(k) + 1 < Window
      BY <2>1, <2>2, <2>3, <2>7 DEF Expire, Opened, CounterOK
    <3>2. CounterOK(k)'
      <4>1. counter'[k] = [count |-> counter[k].count, ttl |-> counter[k].ttl - 1]
        BY <2>1, <2>3, <2>7 DEF Expire, CounterOK
      <4> QED
        BY <2>1, <2>2, <2>7, <4>1 DEF CounterOK
    <3>3. Current(k)' = Aged(Current(k)) /\ \A a \in Current(k) : a.age + 1 \in Ages
      BY <2>2, <2>3, <2>4, <3>1 DEF Current, Aged, Ages, Opened
    <3>4. Before(k)' = Aged(Before(k))
      BY <2>2, <2>3, <2>4, <3>1 DEF Current, Before, Aged, Ages, Opened
    <3>5. /\ Current(k) \in SUBSET Admission(k) /\ IsFiniteSet(Current(k))
          /\ Before(k) \in SUBSET Admission(k) /\ IsFiniteSet(Before(k))
      BY <2>1, <2>4, SpentIs DEF Current, Before
    <3>6. Cardinality(Current(k)') = Cardinality(Current(k))
      BY <3>3, <3>5, AgedIs
    <3>7. /\ Cardinality(Before(k)') \in Nat /\ Cardinality(Before(k)) \in Nat
          /\ Cardinality(Before(k)') <= Cardinality(Before(k))
      BY <2>1, <3>4, <3>5, AgedIs, SpentIs
    <3>8. \A a \in Current(k)' : a.hit <= counter'[k].count
      BY <2>1, <3>1, <3>3 DEF WindowOK, Aged
    <3>9. \E a \in recent'[k] : a.age = Opened(k)'
      <4>1. PICK a \in recent[k] : a.age = Opened(k)
        BY <2>1, <3>1 DEF WindowOK
      <4>2. [age |-> a.age + 1, hit |-> a.hit] \in recent'[k]
        BY <2>6, <3>1, <4>1
      <4> QED
        BY <3>1, <4>1, <4>2
    <3>10. WindowOK(k)'
      BY <2>1, <2>5, <3>1, <3>6, <3>8, <3>9 DEF WindowOK, Admission
    <3>11. BeforeOK(k)'
      BY <2>1, <2>2, <3>7 DEF BeforeOK
    <3> QED
      BY <3>2, <3>10, <3>11 DEF LimiterOK
  <2>8. CASE counter[k].ttl <= 1
    <3>1. counter'[k] = NoKey /\ counter'[k].count = 0 /\ counter'[k].ttl = 0
      BY <2>2, <2>3, <2>8 DEF Expire, NoKey
    <3>2. CounterOK(k)'
      BY <2>2, <3>1 DEF CounterOK, NoKey
    <3>3. Current(k)' = {} /\ Before(k)' = recent'[k]
      BY <3>1 DEF Current, Before
    <3>4. \A a \in recent'[k] : a.age > 0
      BY <2>4, <2>6
    <3>5. WindowOK(k)'
      BY <2>2, <2>5, <3>1, <3>3, <3>4, FS_EmptySet DEF WindowOK, Admission
    <3>6. CASE counter[k].count = 0
      <4>1. Before(k) = recent[k]
        BY <2>2, <3>6 DEF Before, Current
      <4>2. /\ Cardinality(recent'[k]) <= Cardinality(recent[k])
            /\ Cardinality(recent'[k]) \in Nat /\ Cardinality(recent[k]) \in Nat
        BY <2>3, <2>4, AgedIs, FS_CardinalityType
      <4>3. BeforeOK(k)'
        BY <2>1, <2>2, <3>3, <4>1, <4>2 DEF BeforeOK
      <4> QED
        BY <3>2, <3>5, <4>3 DEF LimiterOK
    <3>7. CASE counter[k].count > 0
      <4>1. Opened(k) = Window - 1 /\ Current(k) = recent[k]
        BY <2>1, <2>2, <2>4, <2>8, <3>7 DEF CounterOK, Opened, Current
      <4>2. PICK first \in recent[k] : first.age = Window - 1
        BY <2>1, <3>7, <4>1 DEF WindowOK
      <4> DEFINE rest == recent[k] \ {first}
      <4>3. Aged(recent[k]) = Aged(rest)
        BY <2>2, <4>2 DEF Aged, Ages
      <4>4. IsFiniteSet(rest) /\ Cardinality(rest) = Cardinality(recent[k]) - 1
        BY <2>4, <4>2, FS_RemoveElement
      <4>5. Cardinality(recent[k]) <= Limit[k] /\ Cardinality(recent[k]) \in Nat
        BY <2>1, <2>2, <2>4, <4>1, FS_CardinalityType DEF WindowOK
      <4>6. rest \in SUBSET Admission(k)
        BY <2>4
      <4> HIDE DEF rest
      <4>7. /\ Cardinality(Aged(rest)) <= Cardinality(rest) /\ Cardinality(Aged(rest)) \in Nat
        BY <4>4, <4>6, AgedIs
      <4>8. BeforeOK(k)'
        BY <2>2, <2>3, <3>3, <4>3, <4>4, <4>5, <4>7 DEF BeforeOK
      <4> QED
        BY <3>2, <3>5, <4>8 DEF LimiterOK
    <3> QED
      BY <2>2, <3>6, <3>7
  <2> QED
    BY <2>2, <2>7, <2>8
<1>2. DOMAIN counter' = Keys /\ DOMAIN recent' = Keys
  BY DEF LimiterTick
<1> QED
  BY <1>1, <1>2 DEF LimiterInv

-----------------------------------------------------------------------------
\* Nothing is counted before the first request.
LEMMA LimiterInitially == Init => LimiterInv
<1> SUFFICES ASSUME Init PROVE LimiterInv
  OBVIOUS
<1>1. ASSUME NEW k \in Keys PROVE LimiterOK(k)
  <2>1. counter[k].count = 0 /\ counter[k].ttl = 0 /\ recent[k] = {}
    BY DEF Init, LimiterInit, NoKey
  <2>2. CounterOK(k)
    BY LimitIs DEF Init, LimiterInit, CounterOK, NoKey
  <2>3. Current(k) = {} /\ Before(k) = {}
    BY <2>1 DEF Current, Before
  <2> QED
    BY <2>1, <2>2, <2>3, LimitIs, FS_EmptySet DEF LimiterOK, WindowOK, BeforeOK
<1> QED
  BY <1>1 DEF LimiterInv, Init, LimiterInit

\* Only the limiter's two hits, the clock and a restart of Redis touch its keys.
LEMMA LimiterStep == LimiterInv /\ [Next]_vars => LimiterInv'
<1> SUFFICES ASSUME LimiterInv, [Next]_vars PROVE LimiterInv'
  OBVIOUS
<1>1. CASE UNCHANGED limiterVars
  BY <1>1 DEF limiterVars, LimiterInv, LimiterOK, CounterOK, WindowOK, BeforeOK, Current, Before,
              Opened, Admission
<1>2. "ip" \in Keys /\ "send" \in Keys
  BY ApiAssumption
<1>3. ASSUME NEW r \in Requests, Limited(r) PROVE LimiterInv'
  BY <1>1, <1>2, <1>3, AllowKeeps, RefuseKeeps
  DEF Limited, Arrive, TurnedAway, SendAllowed, SendRefused, FailOpen
<1>4. CASE Tick
  BY <1>4, TickKeeps DEF Tick
<1>5. CASE RedisLost
  BY <1>5, NothingAdmitted DEF RedisLost
<1>6. ASSUME NEW r \in Requests, Send(r) PROVE LimiterInv'
  BY <1>1, <1>6 DEF Send, CheckAndBuild, Commit, Rollback
<1>7. ASSUME NEW r \in Requests, GetPreferences(r) \/ UpsertPreferences(r) PROVE LimiterInv'
  BY <1>1, <1>7
  DEF GetPreferences, UpsertPreferences, CacheHit, CacheMiss, FillCache, Upsert, UpsertRefused,
      UpsertFails, DropCached
<1>8. ASSUME NEW r \in Requests, ListNotifications(r) PROVE LimiterInv'
  BY <1>1, <1>8 DEF ListNotifications, ListPage
<1>9. CASE UNCHANGED vars
  BY <1>1, <1>9 DEF vars
<1> QED
  BY <1>3, <1>4, <1>5, <1>6, <1>7, <1>8, <1>9 DEF Next

\* The limiter's invariant holds in every reachable state.
LEMMA LimiterInvariant == Spec => []LimiterInv
  BY LimiterInitially, LimiterStep, PTL DEF Spec

\* In no span of a window's length are 2 * Limit requests admitted, whatever mix of
\* requests, restarts of Redis and ticks: the INCR of every hit and the EXPIRE of
\* the first in the script.
THEOREM LimiterAdmissionIsBounded == Spec => []AdmissionIsBounded
<1>1. LimiterInv => AdmissionIsBounded
  <2> SUFFICES ASSUME LimiterInv, NEW k \in Keys PROVE Spent(k) < 2 * Limit[k]
    BY DEF AdmissionIsBounded
  <2>1. CounterOK(k) /\ WindowOK(k) /\ BeforeOK(k)
    BY DEF LimiterInv, LimiterOK
  <2>2. Cardinality(Current(k)) <= Limit[k]
    BY <2>1, LimitIs DEF WindowOK, CounterOK
  <2> QED
    BY <2>1, <2>2, SpentIs, LimitIs DEF BeforeOK
<1> QED
  BY <1>1, LimiterInvariant, PTL

\* A request is answered 429 only when its key has admitted Limit requests in the
\* last Window ticks: refused requests do not prolong a window.
THEOREM LimiterRefusesOnlyWhenSpent == Spec => RefusedOnlyWhenSpent
<1> DEFINE Spending ==
      \A r \in Requests : /\ TurnedAway(r) => Spent("ip") >= Limit["ip"]
                          /\ SendRefused(r) => Spent("send") >= Limit["send"]
<1>1. ASSUME LimiterInv, NEW k \in Keys, Refuse(k) PROVE Spent(k) >= Limit[k]
  <2>1. CounterOK(k) /\ WindowOK(k)
    BY <1>1 DEF LimiterInv, LimiterOK
  <2>2. counter[k].count >= Limit[k] /\ counter[k].count \in Nat
    BY <1>1, <2>1, RefuseKeeps, LimitIs DEF CounterOK
  <2>3. Cardinality(Current(k)) = Limit[k]
    BY <2>1, <2>2, LimitIs DEF WindowOK
  <2> QED
    BY <2>1, <2>3, SpentIs, LimitIs
<1>2. LimiterInv => Spending
  BY <1>1, ApiAssumption DEF TurnedAway, SendRefused
<1>3. Spec => [][Spending]_vars
  BY LimiterInvariant, <1>2, PTL
<1> QED
  BY <1>3 DEF RefusedOnlyWhenSpent

-----------------------------------------------------------------------------
(* Pages *)

\* The rows of a set that are newer, or older, than one.
NewerIn(S, n) == {m \in S : Older(n, m)}
OlderIn(S, n) == {m \in S : Older(m, n)}

\* created_at, then id: no two notifications are equally old.
LEMMA OlderIsTotal ==
  ASSUME NEW n \in Note, NEW m \in Note
  PROVE  ~Older(n, n) /\ (n = m \/ Older(n, m) \/ Older(m, n))
<1>1. n = [at |-> n.at, id |-> n.id] /\ m = [at |-> m.at, id |-> m.id]
  BY DEF Note
<1>2. n.at \in 0..MaxTime /\ m.at \in 0..MaxTime /\ n.id \in Nat /\ m.id \in Nat
  BY ApiAssumption DEF Note
<1> QED
  BY <1>1, <1>2 DEF Older

Cursors == Note \cup {NoCursor}

\* The cursor of the first page is newer than all.
LEMMA CursorIs ==
  /\ \A n \in Cursors : n.at \in Nat /\ n.id \in Nat
  /\ NoCursor \notin Note /\ \A n \in Note : Precedes(n, NoCursor)
<1>1. \A n \in Note : n.at \in 0..MaxTime /\ n.id \in Nat
  BY ApiAssumption DEF Note
<1>2. NoCursor.at = MaxTime + 1 /\ NoCursor.id = 0 /\ MaxTime \in Nat
  BY ApiAssumption DEF NoCursor
<1>3. NoCursor \notin Note
  BY <1>1, <1>2
<1> QED
  BY <1>1, <1>2, <1>3 DEF Cursors, Precedes

\* What is older than an older one is older, cursors included.
LEMMA OlderIsTransitive ==
  ASSUME NEW l \in Cursors, NEW m \in Cursors, NEW n \in Cursors, Older(l, m), Older(m, n)
  PROVE  Older(l, n)
  BY CursorIs DEF Older

\* What is newer than a row is newer than an older one, and so is the row itself.
LEMMA Nested ==
  ASSUME NEW S \in SUBSET Note, NEW n \in S, NEW m \in S, Older(n, m)
  PROVE  /\ NewerIn(S, m) \subseteq NewerIn(S, n) /\ NewerIn(S, m) # NewerIn(S, n)
         /\ OlderIn(S, n) \subseteq OlderIn(S, m) /\ OlderIn(S, n) # OlderIn(S, m)
<1>1. ~Older(m, m) /\ ~Older(n, n)
  BY OlderIsTotal
<1>2. \A l \in S : /\ Older(m, l) => Older(n, l)
                   /\ Older(l, n) => Older(l, m)
  BY OlderIsTransitive DEF Cursors
<1>3. m \in NewerIn(S, n) /\ m \notin NewerIn(S, m) /\ n \in OlderIn(S, m) /\ n \notin OlderIn(S, n)
  BY <1>1 DEF NewerIn, OlderIn
<1> QED
  BY <1>2, <1>3 DEF NewerIn, OlderIn

\* What is older has more that is newer.
LEMMA Ranks ==
  ASSUME NEW S \in SUBSET Note, IsFiniteSet(S), NEW n \in S
  PROVE  /\ IsFiniteSet(NewerIn(S, n)) /\ Cardinality(NewerIn(S, n)) \in Nat
         /\ \A m \in S : Older(n, m) =>
              Cardinality(NewerIn(S, m)) < Cardinality(NewerIn(S, n))
<1>1. \A m \in S : IsFiniteSet(NewerIn(S, m)) /\ Cardinality(NewerIn(S, m)) \in Nat
  BY FS_Subset, FS_CardinalityType DEF NewerIn
<1>2. ASSUME NEW m \in S, Older(n, m)
      PROVE  Cardinality(NewerIn(S, m)) < Cardinality(NewerIn(S, n))
  BY <1>1, <1>2, Nested, FS_Subset
<1> QED
  BY <1>1, <1>2

\* Some notifications have a newest and an oldest.
LEMMA EndsExist ==
  ASSUME NEW S \in SUBSET Note, IsFiniteSet(S), S # {}
  PROVE  /\ \E n \in S : \A m \in S : ~Older(n, m)
         /\ \E n \in S : \A m \in S : ~Older(m, n)
<1>1. \E n \in S : \A m \in S : ~Older(n, m)
  <2> DEFINE T == {NewerIn(S, n) : n \in S}
  <2>1. T \subseteq FiniteSubsetsOf(S) /\ T # {}
    <3>1. \A n \in S : NewerIn(S, n) \in SUBSET S
      BY DEF NewerIn
    <3>2. \A n \in S : IsFiniteSet(NewerIn(S, n))
      BY <3>1, FS_Subset
    <3> QED
      BY <3>1, <3>2 DEF FiniteSubsetsOf
  <2>2. PICK n \in S : \A m \in S : <<NewerIn(S, m), NewerIn(S, n)>> \notin StrictSubsetOrdering(S)
    <3>1. PICK x \in T : \A y \in T : <<y, x>> \notin StrictSubsetOrdering(S)
      BY <2>1, FS_StrictSubsetOrderingWellFounded, WFMin
    <3> QED
      BY <3>1
  <2>3. ASSUME NEW m \in S, Older(n, m) PROVE FALSE
    <3>1. NewerIn(S, m) \subseteq NewerIn(S, n) /\ NewerIn(S, m) # NewerIn(S, n)
      BY <2>3, Nested
    <3>2. NewerIn(S, m) \in SUBSET S /\ NewerIn(S, n) \in SUBSET S
      BY DEF NewerIn
    <3>3. <<NewerIn(S, m), NewerIn(S, n)>> \in StrictSubsetOrdering(S)
      BY <3>1, <3>2 DEF StrictSubsetOrdering
    <3> QED
      BY <2>2, <3>3
  <2> QED
    BY <2>3
<1>2. \E n \in S : \A m \in S : ~Older(m, n)
  <2> DEFINE T == {OlderIn(S, n) : n \in S}
  <2>1. T \subseteq FiniteSubsetsOf(S) /\ T # {}
    <3>1. \A n \in S : OlderIn(S, n) \in SUBSET S
      BY DEF OlderIn
    <3>2. \A n \in S : IsFiniteSet(OlderIn(S, n))
      BY <3>1, FS_Subset
    <3> QED
      BY <3>1, <3>2 DEF FiniteSubsetsOf
  <2>2. PICK n \in S : \A m \in S : <<OlderIn(S, m), OlderIn(S, n)>> \notin StrictSubsetOrdering(S)
    <3>1. PICK x \in T : \A y \in T : <<y, x>> \notin StrictSubsetOrdering(S)
      BY <2>1, FS_StrictSubsetOrderingWellFounded, WFMin
    <3> QED
      BY <3>1
  <2>3. ASSUME NEW m \in S, Older(m, n) PROVE FALSE
    <3>1. OlderIn(S, m) \subseteq OlderIn(S, n) /\ OlderIn(S, m) # OlderIn(S, n)
      BY <2>3, Nested
    <3>2. OlderIn(S, m) \in SUBSET S /\ OlderIn(S, n) \in SUBSET S
      BY DEF OlderIn
    <3>3. <<OlderIn(S, m), OlderIn(S, n)>> \in StrictSubsetOrdering(S)
      BY <3>1, <3>2 DEF StrictSubsetOrdering
    <3> QED
      BY <2>2, <3>3
  <2> QED
    BY <2>3
<1> QED
  BY <1>1, <1>2

\* The newest k are some if there are any, and all that are newer than one of them.
LEMMA NewestIs ==
  ASSUME NEW S \in SUBSET Note, IsFiniteSet(S), NEW k \in Nat \ {0}
  PROVE  /\ Newest(S, k) \subseteq S /\ IsFiniteSet(Newest(S, k))
         /\ S # {} => Newest(S, k) # {}
         /\ \A n \in Newest(S, k), m \in S : Older(n, m) => m \in Newest(S, k)
<1>1. Newest(S, k) = {n \in S : Cardinality(NewerIn(S, n)) < k}
  BY DEF Newest, NewerIn
<1>2. Newest(S, k) \subseteq S /\ IsFiniteSet(Newest(S, k))
  BY <1>1, FS_Subset
<1>3. ASSUME S # {} PROVE Newest(S, k) # {}
  <2>1. PICK n \in S : \A m \in S : ~Older(n, m)
    BY <1>3, EndsExist
  <2>2. NewerIn(S, n) = {}
    BY <2>1 DEF NewerIn
  <2>3. Cardinality(NewerIn(S, n)) = 0
    BY <2>2, FS_EmptySet
  <2> QED
    BY <1>1, <2>3
<1>4. ASSUME NEW n \in Newest(S, k), NEW m \in S, Older(n, m) PROVE m \in Newest(S, k)
  <2>1. n \in S /\ Cardinality(NewerIn(S, n)) < k
    BY <1>1
  <2>2. /\ Cardinality(NewerIn(S, m)) \in Nat /\ Cardinality(NewerIn(S, n)) \in Nat
        /\ Cardinality(NewerIn(S, m)) < Cardinality(NewerIn(S, n))
    BY <1>4, <2>1, Ranks
  <2> QED
    BY <1>1, <2>1, <2>2
<1> QED
  BY <1>2, <1>3, <1>4

\* If the page holds all of one row more than a page, those are all the rows.
LEMMA LastPage ==
  ASSUME NEW S \in SUBSET Note, IsFiniteSet(S), NEW k \in Nat \ {0},
         Newest(Newest(S, k + 1), k) = Newest(S, k + 1)
  PROVE  Newest(S, k + 1) = S
<1> DEFINE rows == Newest(S, k + 1)
<1>1. k + 1 \in Nat \ {0} /\ rows = {n \in S : Cardinality(NewerIn(S, n)) < k + 1}
  BY DEF Newest, NewerIn
<1>2. rows \subseteq S /\ IsFiniteSet(rows)
  BY <1>1, NewestIs
<1>3. \A n \in rows : Cardinality(NewerIn(rows, n)) < k
  BY DEF Newest, NewerIn
<1> HIDE DEF rows
<1>4. ASSUME S \ rows # {} PROVE FALSE
  <2>1. IsFiniteSet(S \ rows) /\ S \ rows \in SUBSET Note
    BY FS_Difference
  <2>2. PICK n \in S \ rows : \A m \in S \ rows : ~Older(n, m)
    BY <1>4, <2>1, EndsExist
  <2> DEFINE N == NewerIn(S, n)
  <2>3. N \subseteq rows /\ N \subseteq S /\ N \subseteq Note
    BY <2>2 DEF NewerIn
  <2>4. IsFiniteSet(N) /\ Cardinality(N) \in Nat /\ Cardinality(N) >= k + 1
    BY <1>1, <2>2, Ranks
  <2> HIDE DEF N
  <2>5. N # {}
    BY <2>4, FS_EmptySet
  <2>6. PICK o \in N : \A m \in N : ~Older(m, o)
    BY <2>3, <2>4, <2>5, EndsExist
  <2>7. N \ {o} \subseteq NewerIn(rows, o)
    BY <2>3, <2>6, OlderIsTotal DEF NewerIn
  <2>8. IsFiniteSet(N \ {o}) /\ Cardinality(N \ {o}) = Cardinality(N) - 1
    BY <2>4, <2>6, FS_RemoveElement
  <2>9. o \in rows /\ rows \in SUBSET Note
    BY <1>2, <2>3, <2>6
  <2>10. /\ IsFiniteSet(NewerIn(rows, o)) /\ Cardinality(NewerIn(rows, o)) \in Nat
         /\ Cardinality(NewerIn(rows, o)) < k
    BY <1>2, <1>3, <2>9, Ranks
  <2>11. Cardinality(N \ {o}) <= Cardinality(NewerIn(rows, o))
    BY <2>7, <2>10, FS_Subset
  <2> QED
    BY <2>4, <2>8, <2>10, <2>11
<1> QED
  BY <1>2, <1>4 DEF rows

\* The oldest row of the page, from which the next page goes on.
Last(items) ==
  CHOOSE n \in items \cup {NoCursor} :
    items # {} => n \in items /\ \A m \in items : ~Older(m, n)

\* What a page holds, and where the next one begins: its rows are before the cursor,
\* with all that lies between; if there is a next page, the rest is beyond its end;
\* if there is none, there is no rest.
LEMMA PageIs ==
  ASSUME notes \subseteq Note, IsFiniteSet(notes), NEW cursor \in Cursors,
         NEW asked \in 0..(MaxPage + 1), NEW page, page = Page(cursor, asked)
  PROVE  /\ page.items \subseteq notes /\ \A n \in page.items : Precedes(n, cursor)
         /\ page.hasMore =>
              /\ page.next \in page.items /\ \A n \in page.items : ~Precedes(n, page.next)
              /\ \A n \in notes :
                   Precedes(n, cursor) => n \in page.items \/ Precedes(n, page.next)
         /\ ~page.hasMore => \A n \in notes : Precedes(n, cursor) => n \in page.items
<1> DEFINE S == {n \in notes : Precedes(n, cursor)}
           k == PageSize(asked)
           rows == Newest(S, k + 1)
           items == Newest(rows, k)
<1>1. k \in Nat \ {0} /\ k + 1 \in Nat \ {0}
  BY ApiAssumption DEF PageSize
<1>2. S \in SUBSET Note /\ IsFiniteSet(S)
  BY FS_Subset
<1>3. page.items = items /\ page.hasMore = (items # rows) /\ page.next = Last(items)
  BY DEF Page, Last
<1> HIDE DEF k
<1>4. /\ rows \subseteq S /\ IsFiniteSet(rows) /\ (S # {} => rows # {})
      /\ \A n \in rows, m \in S : Older(n, m) => m \in rows
  BY <1>1, <1>2, NewestIs
<1>5. rows \in SUBSET Note
  BY <1>2, <1>4
<1>6. /\ items \subseteq rows /\ IsFiniteSet(items) /\ (rows # {} => items # {})
      /\ \A n \in items, m \in rows : Older(n, m) => m \in items
  BY <1>1, <1>4, <1>5, NewestIs
<1>7. items = rows => rows = S
  BY <1>1, <1>2, LastPage
<1> HIDE DEF rows, items
<1>8. page.items \subseteq notes /\ \A n \in page.items : Precedes(n, cursor)
  BY <1>3, <1>4, <1>6
<1>9. ASSUME ~page.hasMore, NEW n \in notes, Precedes(n, cursor) PROVE n \in page.items
  BY <1>3, <1>7, <1>9
<1>10. ASSUME page.hasMore
       PROVE  /\ page.next \in page.items /\ \A n \in page.items : ~Precedes(n, page.next)
              /\ \A n \in notes :
                   Precedes(n, cursor) => n \in page.items \/ Precedes(n, page.next)
  <2>1. items # {} /\ items \in SUBSET Note
    BY <1>3, <1>5, <1>6, <1>10
  <2>2. \E n \in items : \A m \in items : ~Older(m, n)
    BY <1>6, <2>1, EndsExist
  <2>3. Last(items) \in items /\ \A m \in items : ~Older(m, Last(items))
    BY <2>1, <2>2 DEF Last
  <2>4. ASSUME NEW n \in notes, Precedes(n, cursor), n \notin items
        PROVE  Older(n, Last(items))
    <3>1. n \in S /\ n \in Note /\ Last(items) \in rows /\ Last(items) \in Note
      BY <1>6, <2>1, <2>3, <2>4
    <3>2. ~Older(Last(items), n)
      BY <1>4, <1>6, <2>3, <2>4, <3>1
    <3> QED
      BY <2>3, <2>4, <3>1, <3>2, OlderIsTotal
  <2>5. \A n, m : Precedes(n, m) <=> Older(n, m)
    BY DEF Precedes, Older
  <2> QED
    BY <1>3, <2>3, <2>4, <2>5
<1> QED
  BY <1>8, <1>9, <1>10

-----------------------------------------------------------------------------
(* A walk along next_cursor *)

\* Notifications and the time they were created at.
NotesOK ==
  /\ notes \subseteq Note /\ IsFiniteSet(notes)
  /\ time \in 0..MaxTime /\ stamp \in [Requests -> 0..MaxTime]

\* A walk has got nothing from beyond its cursor, and all it was due from before it.
WalkOK ==
  /\ walk \in [cursor : Cursors, got : SUBSET notes, due : SUBSET notes]
  /\ walk.cursor = NoCursor => walk.got = {}
  /\ \A n \in walk.got : ~Precedes(n, walk.cursor)
  /\ \A n \in walk.due : n \in walk.got \/ Precedes(n, walk.cursor)

WalkInv == NotesOK /\ WalkOK

\* At the start there are no notifications and no walk.
LEMMA WalkInit == Init => WalkInv
<1> SUFFICES ASSUME Init PROVE WalkInv
  OBVIOUS
<1>1. NotesOK
  BY FS_EmptySet, ApiAssumption DEF Init, NotesOK
<1>2. WalkOK
  BY DEF Init, NewWalk, WalkOK, Cursors
<1> QED
  BY <1>1, <1>2 DEF WalkInv

\* A page moves the cursor past what it brings.
LEMMA WalkListPage ==
  ASSUME WalkInv, NEW r \in Requests, NEW asked \in 0..(MaxPage + 1), ListPage(r, asked)
  PROVE  WalkInv'
<1> DEFINE page == Page(walk.cursor, asked)
<1>1. /\ walk' = IF page.hasMore
                 THEN [cursor |-> page.next, got |-> walk.got \cup page.items,
                       due |-> IF walk.cursor = NoCursor THEN notes ELSE walk.due]
                 ELSE NewWalk
      /\ UNCHANGED <<stamp, time, notes>>
  BY DEF ListPage
<1>2. /\ page.items \subseteq notes /\ \A n \in page.items : Precedes(n, walk.cursor)
      /\ page.hasMore =>
           /\ page.next \in page.items /\ \A n \in page.items : ~Precedes(n, page.next)
           /\ \A n \in notes :
                Precedes(n, walk.cursor) => n \in page.items \/ Precedes(n, page.next)
  BY PageIs DEF WalkInv, NotesOK, WalkOK
<1> HIDE DEF page
<1>3. NotesOK'
  BY <1>1 DEF WalkInv, NotesOK
<1>4. CASE ~page.hasMore
  <2>1. walk' = NewWalk /\ WalkOK'
    BY <1>1, <1>4 DEF NewWalk, WalkOK, Cursors
  <2> QED
    BY <1>3, <2>1 DEF WalkInv
<1>5. CASE page.hasMore
  <2> DEFINE got == walk.got \cup page.items
             due == IF walk.cursor = NoCursor THEN notes ELSE walk.due
  <2>1. walk' = [cursor |-> page.next, got |-> got, due |-> due] /\ notes' = notes
    BY <1>1, <1>5
  <2>2. /\ page.next \in Note /\ page.next \in notes /\ page.next # NoCursor
        /\ got \subseteq notes /\ due \subseteq notes
    BY <1>2, <1>5, CursorIs DEF WalkInv, NotesOK, WalkOK
  <2>3. ASSUME NEW n \in got PROVE ~Precedes(n, page.next)
    <3>1. CASE n \in page.items
      BY <1>2, <1>5, <3>1
    <3>2. CASE n \in walk.got
      <4>1. /\ n \in Cursors /\ page.next \in Cursors /\ walk.cursor \in Cursors
            /\ ~Precedes(n, walk.cursor) /\ Precedes(page.next, walk.cursor)
        BY <1>2, <1>5, <2>2, <3>2 DEF WalkInv, NotesOK, WalkOK, Cursors
      <4> QED
        BY <4>1, OlderIsTransitive DEF Precedes, Older
    <3> QED
      BY <3>1, <3>2
  <2>4. ASSUME NEW n \in due PROVE n \in got \/ Precedes(n, page.next)
    <3>1. n \in notes /\ n \in Note
      BY <2>2 DEF WalkInv, NotesOK
    <3>2. n \in walk.got \/ Precedes(n, walk.cursor)
      BY <3>1, CursorIs DEF WalkInv, WalkOK
    <3> QED
      BY <1>2, <1>5, <3>1, <3>2
  <2> HIDE DEF got, due
  <2>5. WalkOK'
    BY <2>1, <2>2, <2>3, <2>4 DEF WalkOK, Cursors
  <2> QED
    BY <1>3, <2>5 DEF WalkInv
<1> QED
  BY <1>4, <1>5

\* A new notification is not due to a walk that has begun.
LEMMA WalkCommit ==
  ASSUME WalkInv, NEW r \in Requests, Commit(r)
  PROVE  WalkInv'
<1>1. PICK id \in Ids : notes' = notes \cup {[at |-> stamp[r], id |-> id]}
  BY DEF Commit
<1>2. [at |-> stamp[r], id |-> id] \in Note
  BY DEF WalkInv, NotesOK, Note
<1>3. notes' \subseteq Note /\ IsFiniteSet(notes')
  BY <1>1, <1>2, FS_AddElement DEF WalkInv, NotesOK
<1>4. /\ UNCHANGED <<time, walk>> /\ stamp' \in [Requests -> 0..MaxTime]
  BY ApiAssumption DEF Commit, WalkInv, NotesOK
<1>5. WalkOK'
  BY <1>1, <1>4 DEF WalkInv, WalkOK
<1> QED
  BY <1>3, <1>4, <1>5 DEF WalkInv, NotesOK

\* Nothing else touches the notifications or the walk.
LEMMA WalkOthers ==
  ASSUME WalkInv, UNCHANGED <<notes, walk>>, time' \in 0..MaxTime,
         stamp' \in [Requests -> 0..MaxTime]
  PROVE  WalkInv'
  BY DEF WalkInv, NotesOK, WalkOK

\* Only a page and a commit touch the walk or the notifications.
LEMMA WalkStep == WalkInv /\ [Next]_vars => WalkInv'
<1> SUFFICES ASSUME WalkInv, [Next]_vars PROVE WalkInv'
  OBVIOUS
<1>1. time \in 0..MaxTime /\ stamp \in [Requests -> 0..MaxTime] /\ MaxTime \in Nat
  BY ApiAssumption DEF WalkInv, NotesOK
<1>2. CASE Tick \/ RedisLost \/ UNCHANGED vars
  BY <1>1, <1>2, WalkOthers DEF Tick, RedisLost, vars, apiVars
<1>3. ASSUME NEW r \in Requests, Limited(r) PROVE WalkInv'
  BY <1>1, <1>3, WalkOthers
  DEF Limited, Arrive, TurnedAway, SendAllowed, SendRefused, FailOpen, apiVars
<1>4. ASSUME NEW r \in Requests, Send(r) PROVE WalkInv'
  <2>1. CASE CheckAndBuild(r)
    BY <1>1, <2>1, WalkOthers DEF CheckAndBuild
  <2>2. CASE Rollback(r)
    BY <1>1, <2>2, WalkOthers DEF Rollback
  <2> QED
    BY <1>4, <2>1, <2>2, WalkCommit DEF Send
<1>5. ASSUME NEW r \in Requests, GetPreferences(r) PROVE WalkInv'
  BY <1>1, <1>5, WalkOthers DEF GetPreferences, CacheHit, CacheMiss, FillCache
<1>6. ASSUME NEW r \in Requests, UpsertPreferences(r) PROVE WalkInv'
  BY <1>1, <1>6, WalkOthers
  DEF UpsertPreferences, Upsert, UpsertRefused, UpsertFails, DropCached
<1>7. ASSUME NEW r \in Requests, ListNotifications(r) PROVE WalkInv'
  BY <1>7, WalkListPage DEF ListNotifications
<1> QED
  BY <1>2, <1>3, <1>4, <1>5, <1>6, <1>7 DEF Next

\* The walk's invariant holds in every reachable state.
LEMMA WalkInvariant == Spec => []WalkInv
  BY WalkInit, WalkStep, PTL DEF Spec

\* A client that follows next_cursor to the last page gets no notification twice and
\* every one that was listed when it began: created_at DESC, id DESC against the
\* cursor's (created_at, id) <, and the row fetched beyond the page.
THEOREM ListingWalksAreComplete == Spec => WalksAreComplete
<1> DEFINE Complete ==
      \A r \in Requests, asked \in 0..(MaxPage + 1) :
        ListPage(r, asked) =>
          LET page == Page(walk.cursor, asked)
          IN /\ page.items \cap walk.got = {}
             /\ ~page.hasMore /\ walk.cursor # NoCursor =>
                  walk.due \subseteq walk.got \cup page.items
<1>1. WalkInv => Complete
  <2> SUFFICES ASSUME WalkInv, NEW asked \in 0..(MaxPage + 1), NEW page,
                      page = Page(walk.cursor, asked)
               PROVE  /\ page.items \cap walk.got = {}
                      /\ ~page.hasMore => walk.due \subseteq walk.got \cup page.items
    OBVIOUS
  <2>1. /\ page.items \subseteq notes /\ \A n \in page.items : Precedes(n, walk.cursor)
        /\ ~page.hasMore => \A n \in notes : Precedes(n, walk.cursor) => n \in page.items
    BY PageIs DEF WalkInv, NotesOK, WalkOK
  <2> QED
    BY <2>1 DEF WalkInv, WalkOK
<1>2. Spec => [][Complete]_vars
  BY WalkInvariant, <1>1, PTL
<1> QED
  BY <1>2 DEF WalksAreComplete
=============================================================================
