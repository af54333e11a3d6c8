--------------------------- MODULE CircuitBreaker ----------------------------
(***************************************************************************)
(* worker/circuit_breaker.go: one breaker, shared by the goroutines of the *)
(* email worker pod (one per subscription), each of which calls Execute    *)
(* with an SMTP send.  The mutex is held from the first line of Execute to *)
(* its return, the operation included.  Time is a tick counter since       *)
(* lastFailureTime, saturating where the code stops distinguishing values. *)
(***************************************************************************)
EXTENDS Naturals

CONSTANTS Callers,       \* the goroutines that call Execute
          NoCaller,      \* the mutex is free
          MaxFailures,   \* cb.maxFailures
          OpenDuration   \* cb.openDuration, in ticks

ASSUME BreakerAssumption ==
  /\ NoCaller \notin Callers
  /\ MaxFailures \in Nat \ {0}
  /\ OpenDuration \in Nat

VARIABLES
  state,         \* cb.state
  failureCount,  \* cb.failureCount
  cool,          \* time.Since(cb.lastFailureTime), saturating at OpenDuration + 1
  holder,        \* which caller holds cb.mu
  pc,            \* where each caller is in Execute
  ret,           \* what its last Execute returned, and whether the operation ran
  smtp,          \* the environment: the mail server is up or down
  streak, quiet  \* history: what the contract counts

breakerVars == <<state, failureCount, cool>>
history == <<streak, quiet>>
vars == <<breakerVars, holder, pc, ret, smtp, history>>

\* The contract's "busy" is the mutex: it is held exactly while an operation runs.
Contract == INSTANCE BreakerContract WITH busy <- holder # NoCaller

NoReturn == [err |-> "none", ran |-> FALSE]

Init ==
  /\ state = "closed" /\ failureCount = 0 /\ cool = OpenDuration + 1
  /\ holder = NoCaller
  /\ pc = [c \in Callers |-> "idle"]
  /\ ret = [c \in Callers |-> NoReturn]
  /\ smtp \in {"up", "down"}
  /\ streak = 0 /\ quiet = OpenDuration + 1

Return(c, err, ran) ==
  /\ pc' = [pc EXCEPT ![c] = "idle"]
  /\ ret' = [ret EXCEPT ![c] = [err |-> err, ran |-> ran]]

\* A message handler calls Execute and queues up for cb.mu.
Call(c) ==
  /\ pc[c] = "idle"
  /\ pc' = [pc EXCEPT ![c] = "waiting"]
  /\ ret' = [ret EXCEPT ![c] = NoReturn]
  /\ UNCHANGED <<breakerVars, holder, smtp, history>>

MutexFree == holder = NoCaller

\* Bug: the deadline itself already counts as elapsed.
Elapsed_AtDeadline == cool >= OpenDuration
Elapsed == cool > OpenDuration

\* Bug: a rejected call restarts the cool-down.
Reject_RestartsCoolDown(c) ==
  /\ pc[c] = "waiting" /\ MutexFree
  /\ state = "open" /\ ~Elapsed
  /\ cool' = 0
  /\ Return(c, "ErrCircuitBreakerOpen", FALSE)
  /\ UNCHANGED <<state, failureCount, holder, smtp, history>>

\* Open, and openDuration has not passed: ErrCircuitBreakerOpen.
Reject(c) ==
  /\ pc[c] = "waiting" /\ MutexFree
  /\ state = "open" /\ ~Elapsed
  /\ Return(c, "ErrCircuitBreakerOpen", FALSE)
  /\ UNCHANGED <<breakerVars, holder, smtp, history>>

\* Open, and openDuration has passed: the state becomes half-open and the
\* switch is left, so this call returns nil without running its operation.
HalfOpen(c) ==
  /\ pc[c] = "waiting" /\ MutexFree
  /\ state = "open" /\ Elapsed
  /\ state' = "half-open"
  /\ Return(c, "nil", FALSE)
  /\ UNCHANGED <<failureCount, cool, holder, smtp, history>>

\* Half-open or closed: the operation starts, with cb.mu held.
Begin(c) ==
  /\ pc[c] = "waiting" /\ MutexFree
  /\ state \in {"half-open", "closed"}
  /\ holder' = c
  /\ pc' = [pc EXCEPT ![c] = "running"]
  /\ UNCHANGED <<breakerVars, ret, smtp, history>>

\* Bug: reaching maxFailures does not open the breaker.
OnFailure_NeverTrips ==
  /\ failureCount' = failureCount + 1
  /\ UNCHANGED <<state, cool>>

\* What Execute assigns when the operation failed: half-open trips at once,
\* closed counts and trips at maxFailures; lastFailureTime is set on tripping.
OnFailure ==
  \/ /\ state = "half-open"
     /\ state' = "open" /\ cool' = 0
     /\ UNCHANGED failureCount
  \/ /\ state = "closed"
     /\ failureCount' = failureCount + 1
     /\ IF failureCount' >= MaxFailures
        THEN state' = "open" /\ cool' = 0
        ELSE UNCHANGED <<state, cool>>

\* Bug: a success leaves the failures counted so far.
OnSuccess_KeepsCount == state' = "closed" /\ UNCHANGED <<failureCount, cool>>
OnSuccess == state' = "closed" /\ failureCount' = 0 /\ UNCHANGED cool

\* Bug: Execute returns without unlocking.
Unlock_Forgotten == UNCHANGED holder
Unlock == holder' = NoCaller

EndOk(c) ==
  /\ pc[c] = "running" /\ smtp = "up"
  /\ OnSuccess
  /\ Return(c, "nil", TRUE)
  /\ Unlock
  /\ streak' = 0
  /\ UNCHANGED <<smtp, quiet>>

EndFailed(c) ==
  /\ pc[c] = "running" /\ smtp = "down"
  /\ OnFailure
  /\ Return(c, "smtp error", TRUE)
  /\ Unlock
  /\ streak' = Contract!AtMost(streak + 1, MaxFailures) /\ quiet' = 0
  /\ UNCHANGED smtp

Tick ==
  /\ cool' = Contract!AtMost(cool + 1, OpenDuration + 1)
  /\ quiet' = Contract!AtMost(quiet + 1, OpenDuration + 1)
  /\ UNCHANGED <<state, failureCount, holder, pc, ret, smtp, streak>>

\* The mail server goes down or comes back.
SmtpChanges ==
  /\ smtp' = IF smtp = "up" THEN "down" ELSE "up"
  /\ UNCHANGED <<breakerVars, holder, pc, ret, history>>

Acquire(c) == Reject(c) \/ HalfOpen(c) \/ Begin(c)
End(c) == EndOk(c) \/ EndFailed(c)

Next == (\E c \in Callers : Call(c) \/ Acquire(c) \/ End(c)) \/ Tick \/ SmtpChanges

Spec == Init /\ [][Next]_vars

\* Handlers keep calling (traffic does not dry up, and the broker redelivers
\* what was rejected), the mutex is granted in turn (sync.Mutex is starvation
\* free), the mail server answers, time passes.
Fairness ==
  /\ \A c \in Callers : WF_vars(Call(c)) /\ SF_vars(Acquire(c)) /\ WF_vars(End(c))
  /\ WF_vars(Tick)

FairSpec == Spec /\ Fairness
-----------------------------------------------------------------------------
\* The fields of the breaker and what the history counts.
CountersOK ==
  /\ state \in {"closed", "open", "half-open"}
  /\ failureCount \in 0..MaxFailures
  /\ cool \in 0..OpenDuration + 1
  /\ streak \in 0..MaxFailures
  /\ quiet \in 0..OpenDuration + 1

\* The mutex, the goroutines and the mail server.
CallersOK ==
  /\ holder \in Callers \cup {NoCaller}
  /\ pc \in [Callers -> {"idle", "waiting", "running"}]
  /\ ret \in [Callers -> [err : {"none", "nil", "smtp error", "ErrCircuitBreakerOpen"},
                          ran : BOOLEAN]]
  /\ smtp \in {"up", "down"}

\* Every variable of Execute's model stays in its range, failureCount within
\* maxFailures although nothing in the code caps it.
TypeOK == CountersOK /\ CallersOK

\* cb.state and cb.failureCount against the history: the breaker is closed
\* exactly when fewer than MaxFailures operations failed in a row, however
\* rejections, probes and cool-downs interleaved with them, and failureCount is
\* then that number; while it is not closed, lastFailureTime is the last failure.
ClosedIffShortStreak ==
  IF state = "closed"
  THEN streak < MaxFailures /\ failureCount = streak
  ELSE streak = MaxFailures /\ cool = quiet

\* Execute runs one operation at a time and never while the breaker is open:
\* whoever runs holds the mutex, and nobody trips the breaker meanwhile.
OneOperationNeverOpen ==
  /\ \A c \in Callers : pc[c] = "running" <=> holder = c
  /\ holder # NoCaller => state # "open"

\* A half-open breaker has waited out the whole openDuration since the failure.
HalfOpenAfterCoolDown == state = "half-open" => cool > OpenDuration

\* Execute implements the contract: an operation starts only on a short streak
\* of failures or after the cool-down, and one at a time.
ImplementsContract == Contract!Spec

\* Once the mail server stays up the breaker closes for good: no rejection
\* restarts the cool-down, and no probe leaves the breaker half-open.
Recovers == <>[](smtp = "up") => <>[](state = "closed")

\* Every call of Execute gets the mutex and returns.
CallsReturn == \A c \in Callers : pc[c] = "waiting" ~> pc[c] = "idle"

\* implement-circuit-breaker.md:200: after openDuration the breaker goes
\* half-open and lets one request THROUGH; so a nil from Execute says that the
\* operation ran (and succeeded).
NilMeansTheOperationRan ==
  \A c \in Callers : ret[c].err = "nil" => ret[c].ran
=============================================================================
