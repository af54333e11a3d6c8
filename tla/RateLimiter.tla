----------------------------- MODULE RateLimiter -----------------------------
(***************************************************************************)
(* pkg/ratelimit: the fixed-window counters of one client address, kept in *)
(* Redis and changed by an atomic script.  A key expires Window ticks      *)
(* after its first hit.                                                    *)
(***************************************************************************)
EXTENDS Naturals, FiniteSets

CONSTANTS Keys,    \* rl:ip:<address> and rl:send:<address>
          Limit,   \* how many requests a window admits, per key
          Window   \* the window in ticks, the same for both keys

ASSUME LimiterAssumption ==
  /\ Limit \in [Keys -> Nat \ {0}]
  /\ Window \in Nat \ {0}

VARIABLES
  counter,  \* the Redis keys; count saturates one above the limit
  recent    \* history: admissions of each key in the last Window ticks, by their
            \* age and the number of the hit

limiterVars == <<counter, recent>>

NoKey == [count |-> 0, ttl |-> 0]
Ages == 0..(Window - 1)
Spent(k) == Cardinality(recent[k])

LimiterInit ==
  /\ counter = [k \in Keys |-> NoKey]
  /\ recent = [k \in Keys |-> {}]

Incremented(k) == IF counter[k].count > Limit[k] THEN counter[k].count ELSE counter[k].count + 1

\* Bug: every hit renews the expiry.
Hit_Renews(k) == [count |-> Incremented(k), ttl |-> Window]
\* The script: INCR, and EXPIRE on the first hit of a window only.
Hit(k) == [count |-> Incremented(k),
           ttl |-> IF counter[k].count = 0 THEN Window ELSE counter[k].ttl]

\* Bug: the count before this hit is compared.
WithinLimit_Before(k) == counter[k].count <= Limit[k]
WithinLimit(k) == Hit(k).count <= Limit[k]

Allow(k) ==
  /\ WithinLimit(k)
  /\ counter' = [counter EXCEPT ![k] = Hit(k)]
  /\ recent' = [recent EXCEPT ![k] = @ \cup {[age |-> 0, hit |-> Hit(k).count]}]

\* 429 Too Many Requests; the hit is counted all the same.
Refuse(k) ==
  /\ ~WithinLimit(k)
  /\ counter' = [counter EXCEPT ![k] = Hit(k)]
  /\ UNCHANGED recent

Expire(key) == IF key.ttl > 1 THEN [key EXCEPT !.ttl = @ - 1] ELSE NoKey

Aged(admissions) ==
  {[age |-> a.age + 1, hit |-> a.hit] : a \in {b \in admissions : b.age + 1 \in Ages}}

LimiterTick ==
  /\ counter' = [k \in Keys |-> Expire(counter[k])]
  /\ recent' = [k \in Keys |-> Aged(recent[k])]

-----------------------------------------------------------------------------
\* A fixed window lets bursts meet at its edge, but the hit that opened the
\* earlier window is then a whole window old: in no span of one window's length
\* are 2 * Limit requests admitted (the INCR and EXPIRE of the script).
AdmissionIsBounded == \A k \in Keys : Spent(k) < 2 * Limit[k]
=============================================================================
