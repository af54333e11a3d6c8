--------------------------- MODULE BreakerContract ---------------------------
(***************************************************************************)
(* What a circuit breaker promises the mail server behind it, with no      *)
(* state machine: it counts the consecutive failures and the time since    *)
(* the last one, and lets an operation start only while fewer than         *)
(* MaxFailures operations have failed in a row, or once more than          *)
(* OpenDuration has passed since the last failure.  At most one operation  *)
(* runs at a time.  CircuitBreaker implements this module.                 *)
(***************************************************************************)
EXTENDS Naturals

CONSTANTS MaxFailures,   \* consecutive failures that trip the breaker
          OpenDuration   \* ticks a tripped breaker stays shut

VARIABLES streak,  \* failures since the last success, saturating at MaxFailures
          quiet,   \* ticks since the last failure, saturating at OpenDuration + 1
          busy     \* an operation is running

vars == <<streak, quiet, busy>>

AtMost(n, bound) == IF n > bound THEN bound ELSE n

\* An operation may start: the streak is short, or the cool-down is over.
Permitted == streak < MaxFailures \/ quiet > OpenDuration

Init == streak = 0 /\ quiet = OpenDuration + 1 /\ busy = FALSE

Start ==
  /\ ~busy
  /\ Permitted
  /\ busy' = TRUE
  /\ UNCHANGED <<streak, quiet>>

Succeed == busy /\ busy' = FALSE /\ streak' = 0 /\ UNCHANGED quiet

Fail ==
  /\ busy
  /\ busy' = FALSE
  /\ streak' = AtMost(streak + 1, MaxFailures)
  /\ quiet' = 0

PassTime ==
  /\ quiet' = AtMost(quiet + 1, OpenDuration + 1)
  /\ UNCHANGED <<streak, busy>>

Next == Start \/ Succeed \/ Fail \/ PassTime

Spec == Init /\ [][Next]_vars
=============================================================================
