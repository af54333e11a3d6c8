-------------------------- MODULE MailWorker_proofs --------------------------
(***************************************************************************)
(* What the email worker's process consists of beside the pipeline.  The   *)
(* SMTP circuit breaker: its invariants for any set of callers, any        *)
(* threshold and any open duration, and that it implements its contract.   *)
(* The RabbitMQ client: for any number of subscriptions, lost connections  *)
(* and failing channels, a subscription has a second consumer only when a  *)
(* reconnect copied it before its worker had subscribed.  The campaign     *)
(* handler: for any number of users and tasks, any prefetch and any        *)
(* faults, RabbitMQ holds one copy of a task until its user was mailed;    *)
(* without faults each user is mailed and counted once.  The three share   *)
(* no state, so each keeps its own specification.                          *)
(***************************************************************************)
EXTENDS CircuitBreaker, RabbitClient, CampaignMailer,
        FiniteSetTheorems, FunctionTheorems, SequenceTheorems, TLAPS

-----------------------------------------------------------------------------
(* The circuit breaker *)

\* Inductive: the counter agrees with the history only because a half-open
\* breaker has waited and because whoever runs an operation holds the mutex.
IInv ==
  /\ TypeOK
  /\ ClosedIffShortStreak
  /\ OneOperationNeverOpen
  /\ HalfOpenAfterCoolDown

\* The initial state of the breaker satisfies the inductive invariant.
LEMMA InitIInv == Init => IInv
  BY BreakerAssumption
  DEF Init, IInv, TypeOK, CountersOK, CallersOK, ClosedIffShortStreak,
      OneOperationNeverOpen, HalfOpenAfterCoolDown, NoReturn

\* Every step of Execute, of the clock and of the mail server preserves it.
LEMMA NextIInv == IInv /\ [Next]_vars => IInv'
<1> SUFFICES ASSUME IInv, [Next]_vars PROVE IInv'
  OBVIOUS
<1> USE BreakerAssumption DEF IInv, TypeOK
<1>1. ASSUME NEW c \in Callers, Call(c) PROVE IInv'
  <2>1. CountersOK'
    BY <1>1 DEF Call, breakerVars, history, CountersOK
  <2>2. CallersOK'
    BY <1>1 DEF Call, NoReturn, CallersOK
  <2>3. ClosedIffShortStreak'
    BY <1>1 DEF Call, breakerVars, history, CountersOK, ClosedIffShortStreak
  <2>4. OneOperationNeverOpen'
    BY <1>1 DEF Call, breakerVars, history, NoReturn, CallersOK, OneOperationNeverOpen
  <2>5. HalfOpenAfterCoolDown'
    BY <1>1 DEF Call, breakerVars, history, CountersOK, HalfOpenAfterCoolDown
  <2> QED
    BY <2>1, <2>2, <2>3, <2>4, <2>5
<1>2. ASSUME NEW c \in Callers, Reject(c) PROVE IInv'
  <2>1. CountersOK'
    BY <1>2 DEF Reject, breakerVars, history, CountersOK
  <2>2. CallersOK'
    BY <1>2 DEF Reject, Return, CallersOK
  <2>3. ClosedIffShortStreak'
    BY <1>2 DEF Reject, breakerVars, history, CountersOK, ClosedIffShortStreak
  <2>4. OneOperationNeverOpen'
    BY <1>2 DEF Reject, breakerVars, history, Return, CallersOK, OneOperationNeverOpen
  <2>5. HalfOpenAfterCoolDown'
    BY <1>2 DEF Reject, breakerVars, history, CountersOK, HalfOpenAfterCoolDown
  <2> QED
    BY <2>1, <2>2, <2>3, <2>4, <2>5
<1>3. ASSUME NEW c \in Callers, HalfOpen(c) PROVE IInv'
  <2>1. CountersOK'
    BY <1>3 DEF HalfOpen, Elapsed, history, CountersOK
  <2>2. CallersOK'
    BY <1>3 DEF HalfOpen, Return, MutexFree, CallersOK
  <2>3. ClosedIffShortStreak'
    BY <1>3 DEF HalfOpen, Elapsed, history, CountersOK, ClosedIffShortStreak
  <2>4. OneOperationNeverOpen'
    BY <1>3 DEF HalfOpen, Elapsed, history, Return, MutexFree, CallersOK,
       OneOperationNeverOpen
  <2>5. HalfOpenAfterCoolDown'
    BY <1>3 DEF HalfOpen, Elapsed, history, CountersOK, HalfOpenAfterCoolDown
  <2> QED
    BY <2>1, <2>2, <2>3, <2>4, <2>5
<1>4. ASSUME NEW c \in Callers, Begin(c) PROVE IInv'
  <2>1. CountersOK'
    BY <1>4 DEF Begin, breakerVars, history, CountersOK
  <2>2. CallersOK'
    BY <1>4 DEF Begin, MutexFree, CallersOK
  <2>3. ClosedIffShortStreak'
    BY <1>4 DEF Begin, breakerVars, history, CountersOK, ClosedIffShortStreak
  <2>4. OneOperationNeverOpen'
    BY <1>4 DEF Begin, breakerVars, history, MutexFree, CallersOK, OneOperationNeverOpen
  <2>5. HalfOpenAfterCoolDown'
    BY <1>4 DEF Begin, breakerVars, history, CountersOK, HalfOpenAfterCoolDown
  <2> QED
    BY <2>1, <2>2, <2>3, <2>4, <2>5
<1>5. ASSUME NEW c \in Callers, EndOk(c) PROVE IInv'
  <2>1. CountersOK'
    BY <1>5 DEF EndOk, OnSuccess, CountersOK
  <2>2. CallersOK'
    BY <1>5 DEF EndOk, Return, Unlock, CallersOK
  <2>3. ClosedIffShortStreak'
    BY <1>5 DEF EndOk, OnSuccess, CountersOK, ClosedIffShortStreak
  <2>4. OneOperationNeverOpen'
    BY <1>5 DEF EndOk, OnSuccess, Return, Unlock, CallersOK, OneOperationNeverOpen
  <2>5. HalfOpenAfterCoolDown'
    BY <1>5 DEF EndOk, OnSuccess, CountersOK, HalfOpenAfterCoolDown
  <2> QED
    BY <2>1, <2>2, <2>3, <2>4, <2>5
<1>6. ASSUME NEW c \in Callers, EndFailed(c) PROVE IInv'
  <2>0. state # "open"
    BY <1>6 DEF EndFailed, OneOperationNeverOpen, CallersOK
  <2>1. CountersOK' /\ ClosedIffShortStreak'
    <3>1. /\ OnFailure
          /\ quiet' = 0
          /\ streak' = IF streak + 1 > MaxFailures THEN MaxFailures ELSE streak + 1
      BY <1>6 DEF EndFailed, Contract!AtMost
    <3>2. CASE state = "half-open"
      BY <3>1, <3>2 DEF OnFailure, CountersOK, ClosedIffShortStreak
    <3>3. CASE state = "closed"
      BY <3>1, <3>3 DEF OnFailure, CountersOK, ClosedIffShortStreak
    <3> QED
      BY <2>0, <3>2, <3>3 DEF CountersOK
  <2>2. CallersOK'
    BY <1>6 DEF EndFailed, Return, Unlock, CallersOK
  <2>3. OneOperationNeverOpen'
    BY <1>6 DEF EndFailed, OnFailure, Contract!AtMost, Return, Unlock,
       CallersOK, OneOperationNeverOpen
  <2>4. HalfOpenAfterCoolDown'
    BY <1>6, <2>0 DEF EndFailed, OnFailure, Contract!AtMost, CountersOK,
       HalfOpenAfterCoolDown
  <2> QED
    BY <2>1, <2>2, <2>3, <2>4
<1>7. CASE Tick
  <2>1. CountersOK'
    BY <1>7 DEF Tick, Contract!AtMost, CountersOK
  <2>2. CallersOK'
    BY <1>7 DEF Tick, CallersOK
  <2>3. ClosedIffShortStreak'
    BY <1>7 DEF Tick, Contract!AtMost, CountersOK, ClosedIffShortStreak
  <2>4. OneOperationNeverOpen'
    BY <1>7 DEF Tick, Contract!AtMost, CallersOK, OneOperationNeverOpen
  <2>5. HalfOpenAfterCoolDown'
    BY <1>7 DEF Tick, Contract!AtMost, CountersOK, HalfOpenAfterCoolDown
  <2> QED
    BY <2>1, <2>2, <2>3, <2>4, <2>5
<1>8. CASE SmtpChanges
  <2>1. CountersOK'
    BY <1>8 DEF SmtpChanges, breakerVars, history, CountersOK
  <2>2. CallersOK'
    BY <1>8 DEF SmtpChanges, CallersOK
  <2>3. ClosedIffShortStreak'
    BY <1>8 DEF SmtpChanges, breakerVars, history, CountersOK, ClosedIffShortStreak
  <2>4. OneOperationNeverOpen'
    BY <1>8 DEF SmtpChanges, breakerVars, history, CallersOK, OneOperationNeverOpen
  <2>5. HalfOpenAfterCoolDown'
    BY <1>8 DEF SmtpChanges, breakerVars, history, CountersOK, HalfOpenAfterCoolDown
  <2> QED
    BY <2>1, <2>2, <2>3, <2>4, <2>5
<1>9. CASE UNCHANGED vars
  <2>1. CountersOK'
    BY <1>9 DEF vars, breakerVars, history, CountersOK
  <2>2. CallersOK'
    BY <1>9 DEF vars, CallersOK
  <2>3. ClosedIffShortStreak'
    BY <1>9 DEF vars, breakerVars, history, CountersOK, ClosedIffShortStreak
  <2>4. OneOperationNeverOpen'
    BY <1>9 DEF vars, breakerVars, history, CallersOK, OneOperationNeverOpen
  <2>5. HalfOpenAfterCoolDown'
    BY <1>9 DEF vars, breakerVars, history, CountersOK, HalfOpenAfterCoolDown
  <2> QED
    BY <2>1, <2>2, <2>3, <2>4, <2>5
<1> QED
  BY <1>1, <1>2, <1>3, <1>4, <1>5, <1>6, <1>7, <1>8, <1>9 DEF Next, Acquire, End

\* The inductive invariant holds in every state of every behaviour.
LEMMA IInvAlways == Spec => []IInv
<1>1. Init => IInv
  BY InitIInv
<1>2. IInv /\ [Next]_vars => IInv'
  BY NextIInv
<1> QED
  BY <1>1, <1>2, PTL DEF Spec

\* Execute keeps its state in range, for every number of callers.
THEOREM BreakerTypeCorrect == Spec => []TypeOK
  BY IInvAlways, PTL DEF IInv

\* cb.state and cb.failureCount always agree with the failures seen in a row.
THEOREM BreakerCountsTheStreak == Spec => []ClosedIffShortStreak
  BY IInvAlways, PTL DEF IInv

\* The mutex serialises the operations, and none runs in the open state.
THEOREM BreakerOneOperation == Spec => []OneOperationNeverOpen
  BY IInvAlways, PTL DEF IInv

\* A breaker that probes the server has waited out openDuration since the failure.
THEOREM BreakerWaitsBeforeProbe == Spec => []HalfOpenAfterCoolDown
  BY IInvAlways, PTL DEF IInv

\* Each step of the breaker is a step of the contract or leaves it unchanged.
LEMMA StepImplements ==
  IInv /\ [Next]_vars => [Contract!Next]_(Contract!vars)
<1> SUFFICES ASSUME IInv, [Next]_vars PROVE [Contract!Next]_(Contract!vars)
  OBVIOUS
<1> USE BreakerAssumption DEF IInv, TypeOK, CountersOK, Contract!vars
<1>1. ASSUME NEW c \in Callers, Call(c) \/ Reject(c) \/ HalfOpen(c)
      PROVE  UNCHANGED Contract!vars
  BY <1>1 DEF Call, Reject, HalfOpen, history
<1>2. ASSUME NEW c \in Callers, Begin(c) PROVE Contract!Start
  BY <1>2 DEF Begin, MutexFree, history, ClosedIffShortStreak,
     HalfOpenAfterCoolDown, Contract!Start, Contract!Permitted
<1>3. ASSUME NEW c \in Callers, EndOk(c) PROVE Contract!Succeed
  BY <1>3 DEF EndOk, Unlock, OneOperationNeverOpen, Contract!Succeed
<1>4. ASSUME NEW c \in Callers, EndFailed(c) PROVE Contract!Fail
  BY <1>4 DEF EndFailed, Unlock, OneOperationNeverOpen, Contract!Fail
<1>5. ASSUME Tick PROVE Contract!PassTime
  BY <1>5 DEF Tick, Contract!PassTime
<1>6. ASSUME SmtpChanges \/ UNCHANGED vars PROVE UNCHANGED Contract!vars
  BY <1>6 DEF SmtpChanges, history, vars
<1> QED
  BY <1>1, <1>2, <1>3, <1>4, <1>5, <1>6 DEF Next, Acquire, End, Contract!Next

\* The breaker implements its contract: an operation starts only on a streak
\* shorter than maxFailures or after openDuration, and one at a time.
THEOREM BreakerImplementsContract == Spec => ImplementsContract
<1>1. Init => Contract!Init
  BY DEF Init, Contract!Init
<1>2. IInv /\ [Next]_vars => [Contract!Next]_(Contract!vars)
  BY StepImplements
<1> QED
  BY <1>1, <1>2, IInvAlways, PTL DEF Spec, ImplementsContract, Contract!Spec

-----------------------------------------------------------------------------
(* The RabbitMQ client: what its invariant says *)

In(s, q) == \E i \in 1..Len(q) : q[i] = s
NoRepeats(q) == \A i, j \in 1..Len(q) : q[i] = q[j] => i = j

\* Consumers live and end with the link, and so does what they are excused by.
DownIsQuiet == link = "down" => raced = {} /\ \A s \in Subs : consumers[s] = 0

\* The watcher dials only a link that was lost.
OnlyLostIsDialled == notice \/ watcher \in {"checking", "sleeping", "dialling"} => link = "down"

\* What is restored was copied from r.subs, which has each subscription once.
CopyIsRegistered ==
  /\ watcher # "restoring" => todo = <<>>
  /\ NoRepeats(subs) /\ NoRepeats(todo)
  /\ \A s \in Subs : In(s, subs) \/ In(s, todo) => call[s] # "none"

\* Of a subscription that did not race, only one can still start a consumer: its
\* worker or the watcher, and neither while it has one.
OneStarter ==
  \A s \in Subs \ raced :
    /\ consumers[s] <= 1
    /\ call[s] # "returned" => consumers[s] = 0
    /\ link = "up" /\ In(s, todo) => consumers[s] = 0 /\ call[s] = "returned"

ClientInv ==
  /\ ClientTypeOK /\ DownIsQuiet /\ OnlyLostIsDialled /\ CopyIsRegistered /\ OneStarter

-----------------------------------------------------------------------------
(* Sequences *)

\* Nothing is in an empty copy.
LEMMA NoCopyFacts == NoRepeats(<<>>) /\ \A t : ~In(t, <<>>)
  BY DEF In, NoRepeats

\* A registration is appended to r.subs.
LEMMA RegisterFacts ==
  ASSUME NEW q \in Seq(Subs), NEW s \in Subs
  PROVE  /\ Append(q, s) \in Seq(Subs)
         /\ \A t \in Subs : In(t, Append(q, s)) <=> In(t, q) \/ t = s
         /\ NoRepeats(q) /\ ~In(s, q) => NoRepeats(Append(q, s))
  BY DEF In, NoRepeats

\* The watcher takes the first of what is left to restore.
LEMMA RestoreFacts ==
  ASSUME NEW q \in Seq(Subs), q # <<>>, NoRepeats(q)
  PROVE  /\ Head(q) \in Subs /\ In(Head(q), q) /\ Tail(q) \in Seq(Subs)
         /\ NoRepeats(Tail(q)) /\ ~In(Head(q), Tail(q))
         /\ \A t \in Subs : In(t, Tail(q)) => In(t, q)
<1>1. /\ Head(q) \in Subs /\ Tail(q) \in Seq(Subs) /\ Len(q) \in Nat \ {0}
      /\ Len(Tail(q)) = Len(q) - 1 /\ Head(q) = q[1]
      /\ \A i \in 1..Len(Tail(q)) : Tail(q)[i] = q[i + 1]
  BY HeadTailProperties
<1>2. Head(q) \in Subs /\ Tail(q) \in Seq(Subs) /\ In(Head(q), q)
  BY <1>1 DEF In
<1>3. \A i \in 1..Len(Tail(q)) : i + 1 \in 1..Len(q)
  BY <1>1
<1>4. NoRepeats(Tail(q))
  <2> SUFFICES ASSUME NEW i \in 1..Len(Tail(q)), NEW j \in 1..Len(Tail(q)),
                      Tail(q)[i] = Tail(q)[j]
               PROVE  i = j
    BY DEF NoRepeats
  <2>1. q[i + 1] = q[j + 1] /\ i + 1 \in 1..Len(q) /\ j + 1 \in 1..Len(q)
    BY <1>1, <1>3
  <2>2. i + 1 = j + 1
    BY <2>1 DEF NoRepeats
  <2> QED
    BY <1>1, <2>2
<1>5. ~In(Head(q), Tail(q))
  <2> SUFFICES ASSUME NEW i \in 1..Len(Tail(q)), Tail(q)[i] = Head(q) PROVE FALSE
    BY DEF In
  <2>1. q[i + 1] = q[1] /\ i + 1 \in 1..Len(q) /\ 1 \in 1..Len(q)
    BY <1>1, <1>3
  <2>2. i + 1 = 1
    BY <2>1 DEF NoRepeats
  <2> QED
    BY <1>1, <2>2
<1>6. \A t \in Subs : In(t, Tail(q)) => In(t, q)
  BY <1>1, <1>3 DEF In
<1> QED
  BY <1>2, <1>4, <1>5, <1>6

\* The process starts connected, with nothing registered.
LEMMA ClientStart == ClientInit => ClientInv
<1> SUFFICES ASSUME ClientInit PROVE ClientInv
  OBVIOUS
<1>1. subs = <<>> /\ todo = <<>> /\ raced = {} /\ broken = {}
  BY DEF ClientInit
<1>2. subs \in Seq(Subs) /\ todo \in Seq(Subs)
  BY <1>1
<1>3. call \in [Subs -> {"none", "registered", "returned"}] /\ consumers \in [Subs -> Nat]
  BY DEF ClientInit
<1>4. losses \in 0..MaxLosses /\ channelFaults \in 0..MaxChannelFaults
  BY RabbitAssumption DEF ClientInit
<1>5. ClientTypeOK
  BY <1>1, <1>2, <1>3, <1>4 DEF ClientInit, ClientTypeOK
<1>6. DownIsQuiet /\ OnlyLostIsDialled
  BY DEF ClientInit, DownIsQuiet, OnlyLostIsDialled
<1>7. /\ NoRepeats(subs) /\ NoRepeats(todo)
      /\ \A s \in Subs : ~In(s, subs) /\ ~In(s, todo)
  BY <1>1, NoCopyFacts
<1>8. CopyIsRegistered
  BY <1>1, <1>7 DEF CopyIsRegistered
<1>9. OneStarter
  <2>1. \A s \in Subs : consumers[s] = 0
    BY DEF ClientInit
  <2>2. ASSUME NEW s \in Subs PROVE consumers[s] <= 1
    <3>1. consumers[s] = 0
      BY <2>1
    <3>2. 0 <= 1
      OBVIOUS
    <3> QED
      BY <3>1, <3>2
  <2> QED
    BY <1>7, <2>1, <2>2, Zenon DEF OneStarter
<1> QED
  BY <1>5, <1>6, <1>8, <1>9 DEF ClientInv

-----------------------------------------------------------------------------
(* The environment *)

\* The end of a connection or of a channel takes consumers away.
LEMMA ClientEnvironment ==
  ASSUME ClientInv, Environment \/ Close
  PROVE  ClientInv'
<1> USE RabbitAssumption
    DEF ClientInv, ClientTypeOK, DownIsQuiet, OnlyLostIsDialled, CopyIsRegistered, OneStarter,
        In, NoRepeats
<1>1. ASSUME ReachableChanges PROVE ClientInv'
  BY <1>1 DEF ReachableChanges
<1>2. ASSUME LinkBreaks PROVE ClientInv'
  BY <1>2 DEF LinkBreaks
<1>3. ASSUME NEW s \in Subs, ChannelBreaks(s) PROVE ClientInv'
  <2>1. consumers[s] - 1 \in Nat
    BY <1>3 DEF ChannelBreaks
  <2> QED
    BY <1>3, <2>1 DEF ChannelBreaks, ChannelFault, connVars
<1>4. ASSUME Close PROVE ClientInv'
  BY <1>4 DEF Close
<1> QED
  BY <1>1, <1>2, <1>3, <1>4 DEF Environment

-----------------------------------------------------------------------------
(* Workers and the watcher *)

\* A worker registers once and subscribes once.
LEMMA ClientWorker ==
  ASSUME ClientInv, NEW s \in Subs, Worker(s)
  PROVE  ClientInv'
<1> USE DEF ClientInv, ClientTypeOK, DownIsQuiet, OnlyLostIsDialled, CopyIsRegistered, OneStarter
<1>1. ASSUME Register(s) PROVE ClientInv'
  <2>1. ~In(s, subs) /\ ~In(s, todo)
    BY <1>1 DEF Register
  <2>2. /\ subs' \in Seq(Subs) /\ NoRepeats(subs')
        /\ \A t \in Subs : In(t, subs') <=> In(t, subs) \/ t = s
    BY <1>1, <2>1, RegisterFacts DEF Register
  <2>3. ClientTypeOK'
    BY <1>1, <2>2 DEF Register, connVars
  <2>4. DownIsQuiet' /\ OnlyLostIsDialled'
    BY <1>1 DEF Register, connVars
  <2>5. CopyIsRegistered'
    BY <1>1, <2>2 DEF Register, In, NoRepeats
  <2>6. OneStarter'
    BY <1>1, <2>1 DEF Register, connVars, In
  <2> QED
    BY <2>3, <2>4, <2>5, <2>6
<1>2. ASSUME Subscribe(s) PROVE ClientInv'
  <2>1. /\ call[s] = "registered" /\ call' = [call EXCEPT ![s] = "returned"]
        /\ UNCHANGED <<connVars, subs, watcher, todo, losses, raced>>
    BY <1>2 DEF Subscribe
  <2>2. CASE Consume(s) /\ UNCHANGED <<channelFaults, broken>>
    <3>1. ClientTypeOK' /\ DownIsQuiet' /\ OnlyLostIsDialled'
      BY <2>1, <2>2 DEF Consume, connVars
    <3>2. CopyIsRegistered'
      BY <2>1 DEF connVars, In, NoRepeats
    <3>3. OneStarter'
      <4>1. ASSUME NEW t \in Subs, In(t, todo') PROVE In(t, todo)
        BY <2>1, <4>1
      <4> QED
        BY <2>1, <2>2, <4>1 DEF Consume, connVars
    <3> QED
      BY <3>1, <3>2, <3>3
  <2>3. CASE ConsumeFails(s)
    BY RabbitAssumption, <2>1, <2>3
    DEF ConsumeFails, ChannelFault, connVars, In, NoRepeats
  <2> QED
    BY <1>2, <2>2, <2>3 DEF Subscribe
<1> QED
  BY <1>1, <1>2 DEF Worker

\* The watcher restores what it copied, each subscription once.
LEMMA ClientWatcher ==
  ASSUME ClientInv, Watcher
  PROVE  ClientInv'
<1> USE DEF ClientInv, ClientTypeOK, DownIsQuiet, OnlyLostIsDialled, CopyIsRegistered, OneStarter
<1>1. ASSUME \/ NoticeLoss \/ CheckClosed \/ WakeUp
             \/ Dialled \/ DialFails
      PROVE  ClientInv'
  <2>1. /\ todo = <<>> /\ watcher' # "restoring"
        /\ UNCHANGED <<subs, todo, call, consumers, raced>>
    <3>1. CASE NoticeLoss \/ CheckClosed
      BY <3>1 DEF NoticeLoss, CheckClosed, WatcherAt
    <3>2. CASE WakeUp \/ Dialled \/ DialFails
      BY <3>2 DEF WakeUp, Dialled, DialFails, WatcherAt
    <3> QED
      BY <1>1, <3>1, <3>2
  <2>2. CopyIsRegistered'
    BY <2>1 DEF In, NoRepeats
  <2>3. ClientTypeOK'
    BY <1>1, <2>1
    DEF NoticeLoss, CheckClosed, WakeUp, Dialled,
        DialFails, WatcherAt, connVars
  <2>4. DownIsQuiet' /\ OnlyLostIsDialled'
    BY <1>1, <2>1
    DEF NoticeLoss, CheckClosed, WakeUp, Dialled,
        DialFails, WatcherAt, connVars
  <2>5. OneStarter'
    BY <2>1, NoCopyFacts
  <2> QED
    BY <2>2, <2>3, <2>4, <2>5
<1>2. ASSUME CopySubs PROVE ClientInv'
  BY <1>2 DEF CopySubs, WatcherAt, connVars, In, NoRepeats
<1>3. ASSUME Restore PROVE ClientInv'
  <2> DEFINE s == Head(todo)
  <2>1. /\ watcher = "restoring" /\ todo # <<>> /\ todo' = Tail(todo)
        /\ UNCHANGED <<connVars, watcher, call, losses, raced, subs>>
    BY <1>3 DEF Restore, Restored
  <2>2. /\ s \in Subs /\ In(s, todo) /\ todo' \in Seq(Subs)
        /\ NoRepeats(todo') /\ ~In(s, todo')
        /\ \A t \in Subs : In(t, todo') => In(t, todo)
    BY <2>1, RestoreFacts
  <2> HIDE DEF s
  <2>3. CopyIsRegistered' /\ OnlyLostIsDialled'
    BY <2>1, <2>2 DEF connVars, In, NoRepeats
  <2>4. CASE Consume(s) /\ UNCHANGED <<channelFaults, broken>>
    <3>1. ClientTypeOK' /\ DownIsQuiet'
      BY <2>1, <2>2, <2>4 DEF Consume, connVars
    <3>2. OneStarter'
      BY <2>1, <2>2, <2>4 DEF Consume, connVars
    <3> QED
      BY <2>3, <3>1, <3>2
  <2>5. CASE ConsumeFails(s)
    <3>1. ClientTypeOK' /\ DownIsQuiet'
      BY RabbitAssumption, <2>1, <2>2, <2>5 DEF ConsumeFails, ChannelFault, connVars
    <3>2. OneStarter'
      BY <2>1, <2>2, <2>5 DEF ConsumeFails, connVars
    <3> QED
      BY <2>3, <3>1, <3>2
  <2> QED
    BY <1>3, <2>4, <2>5 DEF Restore, s
<1>4. ASSUME WatchAgain PROVE ClientInv'
  BY <1>4 DEF WatchAgain, WatcherAt, connVars, In, NoRepeats
<1> QED
  BY <1>1, <1>2, <1>3, <1>4 DEF Watcher

-----------------------------------------------------------------------------
(* The theorems *)

\* A step that changes nothing keeps the invariant.
LEMMA ClientStutter == ASSUME ClientInv, UNCHANGED clientVars PROVE ClientInv'
  BY DEF clientVars, connVars, ClientInv, ClientTypeOK, DownIsQuiet,
     OnlyLostIsDialled, CopyIsRegistered, OneStarter, In, NoRepeats

\* The invariant holds in every reachable state.
LEMMA RabbitInvariant == ClientSpec => []ClientInv
<1>1. ClientInit => ClientInv
  BY ClientStart
<1>2. ClientInv /\ [ClientNext]_clientVars => ClientInv'
  BY ClientEnvironment, ClientWorker, ClientWatcher, ClientStutter DEF ClientNext
<1> QED
  BY <1>1, <1>2, PTL DEF ClientSpec

\* The client's state keeps its types: what is restored are registrations, and
\* no consumer is taken away that was not there.
THEOREM RabbitTypeCorrect == ClientSpec => []ClientTypeOK
<1>1. ClientInv => ClientTypeOK
  BY DEF ClientInv
<1>2. ClientSpec => []ClientInv
  BY RabbitInvariant
<1> QED
  BY <1>1, <1>2, PTL

\* A subscription has one consumer at a time, unless a reconnect copied its
\* registration before its worker had subscribed: QueueSubscribeWithOptions
\* against reestablish.
THEOREM RabbitOneConsumer == ClientSpec => []OneConsumer
<1>1. ClientInv => OneConsumer
  BY DEF ClientInv, ClientTypeOK, OneStarter, OneConsumer
<1>2. ClientSpec => []ClientInv
  BY RabbitInvariant
<1> QED
  BY <1>1, <1>2, PTL

-----------------------------------------------------------------------------
(* Campaign mails: the copies in the queue, the buffer and the handler add *)
(* up, so every requeue and redelivery only moves them.                    *)

\* Where a list of tasks has one of a user.
Positions(u, s) == {k \in DOMAIN s : s[k] = u}

\* A list of tasks is finite, so its copies of a task can be counted.
LEMMA OccurrencesIsNat ==
  ASSUME NEW s \in Seq(UserIds), NEW u
  PROVE  IsFiniteSet(Positions(u, s)) /\ Occurrences(u, s) \in Nat
<1>1. IsFiniteSet(1..Len(s))
  BY FS_Interval, Len(s) \in Nat
<1>2. Positions(u, s) \in SUBSET (1..Len(s))
  BY DEF Positions
<1>3. IsFiniteSet(Positions(u, s))
  BY <1>1, <1>2, FS_Subset
<1> QED
  BY <1>3, FS_CardinalityType DEF Occurrences, Positions

\* The copies in a list are those of its two parts: a redelivery puts what was not
\* handled before what is queued.
LEMMA OccurrencesAdd ==
  ASSUME NEW s \in Seq(UserIds), NEW t \in Seq(UserIds), NEW u
  PROVE  Occurrences(u, s \o t) = Occurrences(u, s) + Occurrences(u, t)
<1> DEFINE Later == {Len(s) + k : k \in Positions(u, t)}
           f == [k \in Positions(u, t) |-> Len(s) + k]
<1>1. /\ s \o t \in Seq(UserIds) /\ Len(s \o t) = Len(s) + Len(t)
      /\ Len(s) \in Nat /\ Len(t) \in Nat
      /\ \A k \in 1..Len(s) : (s \o t)[k] = s[k]
      /\ \A k \in 1..Len(t) : (s \o t)[Len(s) + k] = t[k]
  OBVIOUS
<1>2. /\ Positions(u, s) \subseteq 1..Len(s) /\ Positions(u, t) \subseteq 1..Len(t)
      /\ \A k \in 1..Len(s) : k \in Positions(u, s) <=> s[k] = u
      /\ \A k \in 1..Len(t) : k \in Positions(u, t) <=> t[k] = u
  BY DEF Positions
<1>3. Positions(u, s \o t) = Positions(u, s) \cup Later
  <2>1. ASSUME NEW k \in Positions(u, s \o t) PROVE k \in Positions(u, s) \cup Later
    <3>1. k \in 1..(Len(s) + Len(t)) /\ (s \o t)[k] = u
      BY <1>1 DEF Positions
    <3>2. CASE k <= Len(s)
      BY <1>1, <1>2, <3>1, <3>2
    <3>3. CASE k > Len(s)
      <4>1. k - Len(s) \in 1..Len(t) /\ k = Len(s) + (k - Len(s))
        BY <1>1, <3>1, <3>3
      <4>2. t[k - Len(s)] = u
        BY <1>1, <3>1, <4>1
      <4> QED
        BY <1>2, <4>1, <4>2
    <3> QED
      BY <1>1, <3>1, <3>2, <3>3
  <2>2. ASSUME NEW k \in Positions(u, s) PROVE k \in Positions(u, s \o t)
    <3>1. k \in 1..Len(s) /\ k \in 1..Len(s \o t) /\ (s \o t)[k] = u
      BY <1>1, <1>2
    <3> QED
      BY <3>1, <1>1 DEF Positions
  <2>3. ASSUME NEW k \in Positions(u, t) PROVE Len(s) + k \in Positions(u, s \o t)
    <3>1. k \in 1..Len(t) /\ t[k] = u
      BY <1>2
    <3>2. Len(s) + k \in 1..Len(s \o t) /\ (s \o t)[Len(s) + k] = u
      BY <1>1, <3>1
    <3> QED
      BY <3>2, <1>1 DEF Positions
  <2> QED
    BY <2>1, <2>2, <2>3
<1>4. IsFiniteSet(Positions(u, s)) /\ IsFiniteSet(Positions(u, t))
  BY OccurrencesIsNat
<1>5. f \in Bijection(Positions(u, t), Later)
  <2>1. f \in [Positions(u, t) -> Later]
    OBVIOUS
  <2>2. \A x, y \in Positions(u, t) : f[x] = f[y] => x = y
    BY <1>1, <1>2
  <2>3. \A y \in Later : \E x \in Positions(u, t) : f[x] = y
    OBVIOUS
  <2> QED
    BY <2>1, <2>2, <2>3, Fun_IsBij
<1>6. IsFiniteSet(Later) /\ Cardinality(Later) = Cardinality(Positions(u, t))
  BY <1>4, <1>5, FS_Bijection DEF ExistsBijection
<1>7. Positions(u, s) \cap Later = {}
  BY <1>1, <1>2
<1>8. /\ Cardinality(Positions(u, s) \cup Later)
           = Cardinality(Positions(u, s)) + Cardinality(Later)
               - Cardinality(Positions(u, s) \cap Later)
      /\ Cardinality(Positions(u, s) \cap Later) = 0
  BY <1>4, <1>6, <1>7, FS_Union, FS_EmptySet
<1>9. Cardinality(Positions(u, s)) \in Nat /\ Cardinality(Later) \in Nat
  BY <1>4, <1>6, FS_CardinalityType
<1> HIDE DEF Later
<1>10. Cardinality(Positions(u, s \o t))
         = Cardinality(Positions(u, s)) + Cardinality(Positions(u, t))
  BY <1>3, <1>6, <1>8, <1>9
<1> QED
  BY <1>10 DEF Occurrences, Positions

\* An empty queue holds no copy.
LEMMA OccurrencesOfNone == <<>> \in Seq(UserIds) /\ \A u : Occurrences(u, <<>>) = 0
<1>1. \A u : Positions(u, <<>>) = {}
  BY DEF Positions
<1> QED
  BY <1>1, EmptySeq, FS_EmptySet DEF Occurrences, Positions

\* A task alone is one copy, of its own user.
LEMMA OccurrencesOfOne ==
  ASSUME NEW v \in UserIds, NEW u
  PROVE  Occurrences(u, <<v>>) = IF u = v THEN 1 ELSE 0
<1>1. CASE u = v
  <2>1. Positions(u, <<v>>) = {1}
    BY <1>1 DEF Positions
  <2> QED
    BY <1>1, <2>1, FS_Singleton DEF Occurrences, Positions
<1>2. CASE u # v
  <2>1. Positions(u, <<v>>) = {}
    BY <1>2 DEF Positions
  <2> QED
    BY <1>2, <2>1, FS_EmptySet DEF Occurrences, Positions
<1> QED
  BY <1>1, <1>2

\* A task published, delivered, taken or returned is one copy at one end.
LEMMA OccurrencesAtTheEnds ==
  ASSUME NEW s \in Seq(UserIds), NEW v \in UserIds
  PROVE  /\ Append(s, v) \in Seq(UserIds) /\ <<v>> \o s \in Seq(UserIds)
         /\ \A u : /\ Occurrences(u, Append(s, v)) = Occurrences(u, s) + (IF u = v THEN 1 ELSE 0)
                   /\ Occurrences(u, <<v>> \o s) = Occurrences(u, s) + (IF u = v THEN 1 ELSE 0)
<1>1. <<v>> \in Seq(UserIds) /\ Append(s, v) = s \o <<v>>
  OBVIOUS
<1>2. Append(s, v) \in Seq(UserIds) /\ <<v>> \o s \in Seq(UserIds)
  BY <1>1, ConcatProperties
<1>3. ASSUME NEW u
      PROVE  /\ Occurrences(u, s \o <<v>>) = Occurrences(u, s) + Occurrences(u, <<v>>)
             /\ Occurrences(u, <<v>> \o s) = Occurrences(u, <<v>>) + Occurrences(u, s)
             /\ Occurrences(u, <<v>>) = IF u = v THEN 1 ELSE 0
             /\ Occurrences(u, s) \in Nat
  BY <1>1, OccurrencesAdd, OccurrencesOfOne, OccurrencesIsNat
<1>4. ASSUME NEW u
      PROVE  /\ Occurrences(u, Append(s, v)) = Occurrences(u, s) + (IF u = v THEN 1 ELSE 0)
             /\ Occurrences(u, <<v>> \o s) = Occurrences(u, s) + (IF u = v THEN 1 ELSE 0)
  BY <1>1, <1>3
<1> QED
  BY <1>2, <1>4

\* A task is published or delivered at the tail of a list.
LEMMA OccurrencesAppended ==
  ASSUME NEW s \in Seq(UserIds), NEW v \in UserIds, NEW u \in UserIds
  PROVE  Occurrences(u, Append(s, v)) = Occurrences(u, s) + (IF u = v THEN 1 ELSE 0)
  BY OccurrencesAtTheEnds, Zenon

\* Deliver and Take remove the first task of a list, and with it one copy of its user.
LEMMA OccurrencesOfHead ==
  ASSUME NEW s \in Seq(UserIds), s # <<>>
  PROVE  /\ Head(s) \in UserIds /\ Tail(s) \in Seq(UserIds)
         /\ \A u : Occurrences(u, s)
                     = Occurrences(u, Tail(s)) + (IF u = Head(s) THEN 1 ELSE 0)
<1> DEFINE t == <<Head(s)>> \o Tail(s)
<1>1. /\ Head(s) \in UserIds /\ Tail(s) \in Seq(UserIds) /\ Head(s) = s[1]
      /\ <<Head(s)>> \in Seq(UserIds) /\ Len(s) \in Nat \ {0} /\ Len(Tail(s)) = Len(s) - 1
      /\ \A i \in 1..Len(Tail(s)) : Tail(s)[i] = s[i + 1]
  BY HeadTailProperties
<1>2. /\ t \in Seq(UserIds) /\ Len(t) = 1 + Len(Tail(s))
      /\ \A i \in 1..(1 + Len(Tail(s))) :
            t[i] = IF i <= 1 THEN <<Head(s)>>[i] ELSE Tail(s)[i - 1]
  BY <1>1, ConcatProperties
<1>3. ASSUME NEW i \in 1..Len(s) PROVE t[i] = s[i]
  <2> HIDE DEF t
  <2>1. CASE i = 1
    BY <1>1, <1>2, <2>1
  <2>2. CASE i # 1
    <3>1. i - 1 \in 1..Len(Tail(s)) /\ t[i] = Tail(s)[i - 1]
      BY <1>1, <1>2, <2>2
    <3>2. Tail(s)[i - 1] = s[(i - 1) + 1] /\ (i - 1) + 1 = i
      BY <1>1, <3>1
    <3> QED
      BY <3>1, <3>2
  <2> QED
    BY <2>1, <2>2
<1>4. Head(s) \in UserIds /\ Tail(s) \in Seq(UserIds) /\ s = <<Head(s)>> \o Tail(s)
  <2> HIDE DEF t
  <2>1. Len(t) = Len(s)
    BY <1>1, <1>2
  <2>2. t = s
    BY <2>1, <1>2, <1>3, SeqEqual
  <2> QED
    BY <1>1, <2>2 DEF t
<1>5. \A u : Occurrences(u, <<Head(s)>> \o Tail(s))
              = Occurrences(u, Tail(s)) + (IF u = Head(s) THEN 1 ELSE 0)
  BY <1>4, OccurrencesAtTheEnds
<1> QED
  BY <1>4, <1>5

\* Where HandleCampaignMessage can be.
Steps == {"idle", "send", "sent", "failed", "count sent", "count failed", "ack", "nack"}

\* The lists are lists of users, and a task is at hand while the handler runs.
DeliveryOK ==
  /\ queue \in Seq(UserIds) /\ buffer \in Seq(UserIds) /\ arrived \subseteq UserIds
  /\ step \in Steps /\ task \in UserIds \cup {NoUser}
  /\ (step = "idle") = (task = NoUser)

\* Rows, counters and mails are numbers.
RecordsOK ==
  /\ rows \in [UserIds -> [sent : Nat, failed : Nat]]
  /\ sentCount \in Nat /\ failedCount \in Nat
  /\ mails \in [UserIds -> Nat] /\ swallowed \subseteq UserIds
  /\ faults \in Nat

\* Counters saturate.
LEMMA Plus1Is ==
  ASSUME NEW n \in Nat
  PROVE  Plus1(n) \in Nat /\ Plus1(n) <= n + 1 /\ Plus1(n) > 0 /\ (n = 0 => Plus1(n) = 1)
  BY MailerAssumption DEF Plus1

\* Nack with requeue returns the task at hand to the queue: one more copy of it there.
LEMMA NackFacts ==
  ASSUME DeliveryOK, step # "idle", Nack
  PROVE  /\ DeliveryOK' /\ task \in UserIds
         /\ \A u \in UserIds : Occurrences(u, queue')
                                 = Occurrences(u, queue) + (IF u = task THEN 1 ELSE 0)
<1>1. task \in UserIds
  BY DEF DeliveryOK
<1> QED
  BY <1>1, OccurrencesAtTheEnds DEF DeliveryOK, Nack, Steps

\* What a crash gives back is the buffer and the task at hand.
LEMMA UnhandledIs ==
  ASSUME DeliveryOK
  PROVE  /\ Unhandled \in Seq(UserIds)
         /\ \A u \in UserIds : Occurrences(u, Unhandled)
                                 = Occurrences(u, buffer) + (IF u = task THEN 1 ELSE 0)
<1>1. CASE step = "idle"
  <2>1. \A u \in UserIds : Occurrences(u, buffer) \in Nat /\ u # task
    BY <1>1, MailerAssumption, OccurrencesIsNat DEF DeliveryOK
  <2> QED
    BY <1>1, <2>1 DEF DeliveryOK, Unhandled
<1>2. CASE step # "idle"
  <2>1. task \in UserIds
    BY <1>2 DEF DeliveryOK
  <2> QED
    BY <1>2, <2>1, OccurrencesAtTheEnds DEF DeliveryOK, Unhandled
<1> QED
  BY <1>1, <1>2

\* Every step keeps the lists lists of users, and a task at hand exactly while
\* HandleCampaignMessage runs.
LEMMA DeliveryStep == DeliveryOK /\ [MailerNext]_mailerVars => DeliveryOK'
<1> SUFFICES ASSUME DeliveryOK, [MailerNext]_mailerVars PROVE DeliveryOK'
  OBVIOUS
<1>1. ASSUME NEW u \in UserIds, TaskPublished(u) PROVE DeliveryOK'
  <2>1. queue' \in Seq(UserIds)
    BY <1>1, OccurrencesAtTheEnds DEF TaskPublished, DeliveryOK
  <2> QED
    BY <1>1, <2>1 DEF TaskPublished, handler, DeliveryOK
<1>2. ASSUME NEW u \in UserIds, Deliver(u) PROVE DeliveryOK'
  <2>1. queue' \in Seq(UserIds) /\ buffer' \in Seq(UserIds)
    BY <1>2, OccurrencesAtTheEnds, OccurrencesOfHead DEF Deliver, DeliveryOK
  <2> QED
    BY <1>2, <2>1 DEF Deliver, handler, DeliveryOK
<1>3. CASE Take
  <2>1. buffer' \in Seq(UserIds) /\ task' \in UserIds
    BY <1>3, OccurrencesOfHead DEF Take, DeliveryOK
  <2> QED
    BY <1>3, <2>1, MailerAssumption DEF Take, DeliveryOK, Steps
<1>4. CASE CircuitOpen \/ SendError
  BY <1>4, NackFacts DEF CircuitOpen, SendError
<1>5. CASE Ack
  BY <1>5 DEF Ack, delivery, DeliveryOK, Steps
<1>6. CASE Crash
  <2>1. queue' \in Seq(UserIds) /\ buffer' \in Seq(UserIds)
    BY <1>6, UnhandledIs, EmptySeq, ConcatProperties DEF Crash, DeliveryOK
  <2> QED
    BY <1>6, <2>1 DEF Crash, DeliveryOK, Steps
<1>7. ASSUME UNCHANGED delivery, task' = task, step' \in Steps, (step' = "idle") = (step = "idle")
      PROVE  DeliveryOK'
  BY <1>7 DEF delivery, DeliveryOK
<1>8. CASE InsertRecipient \/ IncrementCounter \/ SendFails \/ Swallow
  BY <1>7, <1>8 DEF InsertRecipient, IncrementCounter, SendFails, Swallow, Steps
<1>9. ASSUME NEW u \in UserIds, SendOk(u) PROVE DeliveryOK'
  BY <1>7, <1>9 DEF SendOk, Steps
<1>10. CASE UNCHANGED mailerVars
  BY <1>7, <1>10 DEF mailerVars, handler, DeliveryOK
<1> QED
  BY <1>1, <1>2, <1>3, <1>4, <1>5, <1>6, <1>8, <1>9, <1>10 DEF MailerNext, Handle

\* Every step keeps the rows, the counters and the mails natural numbers.
LEMMA RecordsStep == DeliveryOK /\ RecordsOK /\ [MailerNext]_mailerVars => RecordsOK'
<1> SUFFICES ASSUME DeliveryOK, RecordsOK, [MailerNext]_mailerVars PROVE RecordsOK'
  OBVIOUS
<1>1. ASSUME NEW u \in UserIds, SendOk(u) PROVE RecordsOK'
  <2>1. Plus1(mails[u]) \in Nat
    BY Plus1Is DEF RecordsOK
  <2>2. mails' \in [UserIds -> Nat]
    BY <1>1, <2>1 DEF SendOk, RecordsOK
  <2> QED
    BY <1>1, <2>2 DEF SendOk, NoFault, Fault, counters, RecordsOK
<1>2. CASE Swallow
  BY <1>2, MailerAssumption DEF Swallow, counters, RecordsOK, DeliveryOK
<1>3. CASE InsertRecipient
  <2>1. task \in UserIds
    BY <1>3 DEF InsertRecipient, DeliveryOK
  <2>2. rows[task].sent \in Nat /\ rows[task].failed \in Nat
    BY <2>1 DEF RecordsOK
  <2>3. Plus1(rows[task].sent) \in Nat /\ Plus1(rows[task].failed) \in Nat
    BY <2>2, Plus1Is
  <2>4. /\ [rows EXCEPT ![task].sent = Plus1(@)] \in [UserIds -> [sent : Nat, failed : Nat]]
        /\ [rows EXCEPT ![task].failed = Plus1(@)] \in [UserIds -> [sent : Nat, failed : Nat]]
    BY <2>1, <2>3 DEF RecordsOK
  <2>5. rows' \in [UserIds -> [sent : Nat, failed : Nat]]
    BY <1>3, <2>4 DEF InsertRecipient, RecordsOK
  <2>6. faults' \in Nat
    <3>1. NoFault \/ Fault
      BY <1>3 DEF InsertRecipient
    <3> QED
      BY <3>1 DEF NoFault, Fault, RecordsOK
  <2> QED
    BY <1>3, <2>5, <2>6 DEF InsertRecipient, counters, RecordsOK
<1>4. CASE IncrementCounter
  <2>1. Plus1(sentCount) \in Nat /\ Plus1(failedCount) \in Nat
    BY Plus1Is DEF RecordsOK
  <2>2. sentCount' \in Nat /\ failedCount' \in Nat
    BY <1>4, <2>1 DEF IncrementCounter, RecordsOK
  <2>3. faults' \in Nat
    <3>1. NoFault \/ Fault
      BY <1>4 DEF IncrementCounter
    <3> QED
      BY <3>1 DEF NoFault, Fault, RecordsOK
  <2> QED
    BY <1>4, <2>2, <2>3 DEF IncrementCounter, RecordsOK
<1>5. CASE Crash
  BY <1>5 DEF Crash, Fault, counters, RecordsOK
<1>6. ASSUME UNCHANGED <<rows, counters, mails, swallowed, faults>> PROVE RecordsOK'
  BY <1>6 DEF counters, RecordsOK
<1>7. CASE SendFails \/ CircuitOpen \/ SendError \/ Ack \/ Take \/ UNCHANGED mailerVars
  BY <1>6, <1>7 DEF SendFails, CircuitOpen, SendError, Ack, Take, mailerVars
<1>8. ASSUME NEW u \in UserIds, TaskPublished(u) \/ Deliver(u) PROVE RecordsOK'
  BY <1>6, <1>8 DEF TaskPublished, Deliver
<1> QED
  BY <1>1, <1>2, <1>3, <1>4, <1>5, <1>7, <1>8 DEF MailerNext, Handle

\* Tasks come with TaskPublished and go with Ack; every other step moves copies.
CopiesMove ==
  \A u \in UserIds :
    /\ Copies(u) \in Nat /\ Copies(u)' \in Nat
    /\ Copies(u)'
         + (IF step = "ack" /\ step' = "idle" /\ faults' = faults /\ u = task THEN 1 ELSE 0)
         = Copies(u) + (IF u \in arrived' \ arrived THEN 1 ELSE 0)

\* Deliver, Take, Nack and Crash move copies; TaskPublished makes one, Ack ends one.
LEMMA CopiesStep ==
  ASSUME DeliveryOK, RecordsOK, [MailerNext]_mailerVars
  PROVE  CopiesMove
<1>0. /\ \A u \in UserIds : Occurrences(u, queue) \in Nat /\ Occurrences(u, buffer) \in Nat
      /\ \A u \in UserIds : Occurrences(u, queue') \in Nat /\ Occurrences(u, buffer') \in Nat
      /\ \A u \in UserIds : Occurrences(u, <<>>) = 0 /\ u # NoUser
      /\ (step = "idle") = (task = NoUser)
  BY DeliveryStep, OccurrencesIsNat, OccurrencesOfNone, MailerAssumption DEF DeliveryOK
<1>1. ASSUME NEW u \in UserIds, TaskPublished(u) PROVE CopiesMove
  <2>1. \A v \in UserIds : Occurrences(v, queue')
            = Occurrences(v, queue) + (IF v = u THEN 1 ELSE 0)
    <3>1. \A v \in UserIds : Occurrences(v, Append(queue, u))
                               = Occurrences(v, queue) + (IF v = u THEN 1 ELSE 0)
      BY OccurrencesAppended, Zenon DEF DeliveryOK
    <3> QED
      BY <1>1, <3>1 DEF TaskPublished
  <2>2. /\ buffer' = buffer /\ task' = task /\ step' = step
        /\ \A v \in UserIds : v \in arrived' \ arrived <=> v = u
    BY <1>1 DEF TaskPublished, handler
  <2> QED
    BY <1>0, <2>1, <2>2 DEF CopiesMove, Copies
<1>2. ASSUME NEW u \in UserIds, Deliver(u) PROVE CopiesMove
  <2>1. \A v \in UserIds : Occurrences(v, buffer')
            = Occurrences(v, buffer) + (IF v = u THEN 1 ELSE 0)
    <3>1. \A v \in UserIds : Occurrences(v, Append(buffer, u))
                               = Occurrences(v, buffer) + (IF v = u THEN 1 ELSE 0)
      BY OccurrencesAppended, Zenon DEF DeliveryOK
    <3> QED
      BY <1>2, <3>1 DEF Deliver
  <2>2. \A v \in UserIds : Occurrences(v, queue)
            = Occurrences(v, queue') + (IF v = u THEN 1 ELSE 0)
    BY <1>2, OccurrencesOfHead DEF Deliver, DeliveryOK
  <2>3. arrived' = arrived /\ task' = task /\ step' = step
    BY <1>2 DEF Deliver, handler
  <2>4. ASSUME NEW v \in UserIds
        PROVE  /\ Occurrences(v, queue') + Occurrences(v, buffer')
                    = Occurrences(v, queue) + Occurrences(v, buffer)
               /\ v \notin arrived' \ arrived
    BY <1>0, <2>1, <2>2, <2>3
  <2> QED
    BY <1>0, <2>3, <2>4 DEF CopiesMove, Copies
<1>3. CASE Take
  <2>1. \A v \in UserIds : Occurrences(v, buffer)
            = Occurrences(v, buffer') + (IF v = task' THEN 1 ELSE 0)
    BY <1>3, OccurrencesOfHead DEF Take, DeliveryOK
  <2>2. arrived' = arrived /\ queue' = queue /\ task = NoUser /\ step = "idle"
    BY <1>0, <1>3 DEF Take
  <2> QED
    BY <1>0, <2>1, <2>2 DEF CopiesMove, Copies
<1>4. CASE CircuitOpen \/ SendError
  <2>1. \A v \in UserIds : Occurrences(v, queue')
            = Occurrences(v, queue) + (IF v = task THEN 1 ELSE 0)
    BY <1>4, NackFacts DEF CircuitOpen, SendError
  <2>2. arrived' = arrived /\ buffer' = buffer /\ task' = NoUser /\ step # "ack"
    BY <1>4 DEF CircuitOpen, SendError, Nack
  <2> QED
    BY <1>0, <2>1, <2>2 DEF CopiesMove, Copies
<1>5. CASE Ack
  <2>1. /\ UNCHANGED <<queue, buffer, arrived>> /\ task' = NoUser /\ faults' = faults
        /\ step = "ack" /\ step' = "idle"
    BY <1>5 DEF Ack, delivery
  <2> QED
    BY <1>0, <2>1 DEF CopiesMove, Copies
<1>6. CASE Crash
  <2>1. \A u \in UserIds : Occurrences(u, queue')
            = Occurrences(u, buffer) + (IF u = task THEN 1 ELSE 0) + Occurrences(u, queue)
    <3>1. \A u \in UserIds : Occurrences(u, Unhandled \o queue)
                               = Occurrences(u, Unhandled) + Occurrences(u, queue)
      BY UnhandledIs, OccurrencesAdd DEF DeliveryOK
    <3> QED
      BY <1>6, <3>1, UnhandledIs DEF Crash
  <2>2. arrived' = arrived /\ buffer' = <<>> /\ task' = NoUser /\ faults' # faults
    BY <1>6 DEF Crash, Fault, RecordsOK
  <2> QED
    BY <1>0, <2>1, <2>2 DEF CopiesMove, Copies
<1>7. ASSUME UNCHANGED delivery, task' = task, step # "ack" \/ step' # "idle" PROVE CopiesMove
  BY <1>0, <1>7 DEF delivery, CopiesMove, Copies
<1>8. CASE InsertRecipient \/ IncrementCounter \/ SendFails \/ Swallow
  BY <1>7, <1>8 DEF InsertRecipient, IncrementCounter, SendFails, Swallow
<1>9. ASSUME NEW u \in UserIds, SendOk(u) PROVE CopiesMove
  BY <1>7, <1>9 DEF SendOk
<1>10. CASE UNCHANGED mailerVars
  BY <1>7, <1>10 DEF mailerVars, handler
<1> QED
  BY <1>1, <1>2, <1>3, <1>4, <1>5, <1>6, <1>8, <1>9, <1>10 DEF MailerNext, Handle

\* The mail was sent, or swallowed.
Done == {"sent", "count sent", "ack"}

\* A task exists once its user arrived, and leaves RabbitMQ only when its mail was sent.
KeptUser(u) ==
  /\ Copies(u) <= 1
  /\ u \notin arrived => Copies(u) = 0
  /\ u \in arrived /\ mails[u] = 0 /\ u \notin swallowed => Copies(u) = 1
  /\ task = u /\ step \in Done => mails[u] > 0 \/ u \in swallowed

CopyKept == \A u \in UserIds : KeptUser(u)

\* Without faults a task that was not handled to the end left no trace.
Untouched(u) == mails[u] = 0 /\ rows[u].sent = 0

\* What a user got and what was recorded, by how far the task came.
CalmUser(u) ==
  /\ mails[u] <= 1 /\ rows[u].sent <= 1
  /\ rows[u].sent = 1 => mails[u] = 1 \/ u \in swallowed
  /\ u \notin arrived => Untouched(u)
  /\ Copies(u) = 1 /\ ~(task = u /\ step \in Done) => Untouched(u)
  /\ task = u /\ step = "sent" => rows[u].sent = 0
  /\ task = u /\ step \in {"count sent", "ack"} => rows[u].sent = 1
  /\ u \in arrived /\ Copies(u) = 0 => rows[u].sent = 1

\* The users with one sent row.
Counted == {u \in UserIds : rows[u].sent = 1}

\* A sent row precedes each increment of sent_count.
CountIsEarned ==
  /\ IsFiniteSet(Counted)
  /\ sentCount + (IF step = "count sent" THEN 1 ELSE 0) <= Cardinality(Counted)

\* As long as nothing failed, each user is calm and the counter earned.
Calm == faults = 0 => (\A u \in UserIds : CalmUser(u)) /\ CountIsEarned

\* Inductive: OneCopy needs what was mailed behind an Ack, MailedAndCountedOnce needs
\* OneCopy, since a second copy would be mailed again.
MailerInv == DeliveryOK /\ RecordsOK /\ CopyKept /\ Calm

\* The task at hand is one of the copies.
LEMMA TaskHasCopy ==
  ASSUME DeliveryOK
  PROVE  \A u \in UserIds : Copies(u) \in Nat /\ (task = u => Copies(u) >= 1)
  BY OccurrencesIsNat DEF DeliveryOK, Copies

\* A record that is written, or tried in vain, is that of the task at hand.
LEMMA InsertFacts ==
  ASSUME DeliveryOK, RecordsOK, InsertRecipient
  PROVE  /\ UNCHANGED <<queue, buffer, arrived, task, sentCount, mails, swallowed>>
         /\ task \in UserIds
         /\ \/ /\ step = "sent" /\ step' = "count sent"
               /\ \/ faults' = faults
                     /\ \A u \in UserIds :
                          rows'[u].sent = IF u = task THEN Plus1(rows[u].sent) ELSE rows[u].sent
                  \/ Fault
            \/ /\ step = "failed" /\ step' = "count failed"
               /\ \/ faults' = faults /\ \A u \in UserIds : rows'[u].sent = rows[u].sent
                  \/ Fault
<1>1. task \in UserIds
  BY DEF InsertRecipient, DeliveryOK
<1>2. UNCHANGED <<queue, buffer, arrived, task, sentCount, mails, swallowed>>
  BY DEF InsertRecipient, delivery, counters
<1>3. CASE step = "sent"
  <2>1. /\ step' = "count sent"
        /\ \/ rows' = [rows EXCEPT ![task].sent = Plus1(@)] /\ NoFault
           \/ Fault
    BY <1>3 DEF InsertRecipient
  <2>2. CASE rows' = [rows EXCEPT ![task].sent = Plus1(@)] /\ NoFault
    <3> DEFINE n == Plus1(rows[task].sent)
    <3>1. rows' = [rows EXCEPT ![task].sent = n] /\ faults' = faults
      BY <2>2 DEF NoFault
    <3> HIDE DEF n
    <3>2. \A u \in UserIds : rows'[u].sent = IF u = task THEN n ELSE rows[u].sent
      BY <1>1, <3>1 DEF RecordsOK
    <3> QED
      BY <1>1, <1>2, <1>3, <2>1, <3>1, <3>2 DEF n
  <2> QED
    BY <1>1, <1>2, <1>3, <2>1, <2>2
<1>4. CASE step # "sent"
  <2>1. /\ step = "failed" /\ step' = "count failed"
        /\ \/ rows' = [rows EXCEPT ![task].failed = Plus1(@)] /\ NoFault
           \/ Fault
    BY <1>4 DEF InsertRecipient
  <2>2. CASE rows' = [rows EXCEPT ![task].failed = Plus1(@)] /\ NoFault
    <3> DEFINE n == Plus1(rows[task].failed)
    <3>1. rows' = [rows EXCEPT ![task].failed = n] /\ faults' = faults
      BY <2>2 DEF NoFault
    <3> HIDE DEF n
    <3>2. \A u \in UserIds : rows'[u].sent = rows[u].sent
      BY <1>1, <3>1 DEF RecordsOK
    <3> QED
      BY <1>1, <1>2, <2>1, <3>1, <3>2
  <2> QED
    BY <1>1, <1>2, <2>1, <2>2
<1> QED
  BY <1>3, <1>4

\* A counter is incremented, or tried in vain, once the record is behind the task.
LEMMA IncrementFacts ==
  ASSUME IncrementCounter
  PROVE  /\ UNCHANGED <<queue, buffer, arrived, task, rows, mails, swallowed>>
         /\ \/ /\ step = "count sent" /\ step' = "ack"
               /\ (sentCount' = Plus1(sentCount) /\ faults' = faults) \/ Fault
            \/ /\ step = "count failed" /\ step' = "nack"
               /\ sentCount' = sentCount
               /\ faults' = faults \/ Fault
  BY DEF IncrementCounter, NoFault, delivery

\* Every step keeps the promise to each user: one copy, and a mail behind an Ack.
LEMMA CopyKeptStep ==
  ASSUME DeliveryOK, RecordsOK, CopyKept, [MailerNext]_mailerVars PROVE CopyKept'
<1> SUFFICES ASSUME NEW u \in UserIds
             PROVE  KeptUser(u)'
  BY DEF CopyKept
<1>1. /\ Copies(u) <= 1
      /\ u \notin arrived => Copies(u) = 0
      /\ u \in arrived /\ mails[u] = 0 /\ u \notin swallowed => Copies(u) = 1
      /\ task = u /\ step \in Done => mails[u] > 0 \/ u \in swallowed
  BY DEF CopyKept, KeptUser
<1>2. /\ Copies(u) \in Nat /\ Copies(u)' \in Nat
      /\ Copies(u)'
           + (IF step = "ack" /\ step' = "idle" /\ faults' = faults /\ u = task THEN 1 ELSE 0)
           = Copies(u) + (IF u \in arrived' \ arrived THEN 1 ELSE 0)
  BY CopiesStep DEF CopiesMove
<1>3. mails[u] \in Nat /\ u # NoUser
  BY MailerAssumption DEF RecordsOK
<1>4. task = u => Copies(u) = 1
  BY <1>1, <1>2, TaskHasCopy
<1>5. ASSUME mails' = mails, swallowed' = swallowed, arrived' = arrived,
             step' \notin Done \/ (step \in Done /\ task' = task),
             ~(step = "ack" /\ step' = "idle" /\ faults' = faults)
      PROVE  KeptUser(u)'
  BY <1>1, <1>2, <1>5 DEF KeptUser
<1>6. CASE \/ Take \/ SendFails \/ CircuitOpen \/ InsertRecipient \/ IncrementCounter
           \/ SendError \/ Crash \/ UNCHANGED mailerVars
  <2>1. mails' = mails /\ swallowed' = swallowed /\ arrived' = arrived
    BY <1>6 DEF Take, SendFails, CircuitOpen, InsertRecipient, IncrementCounter, SendError,
                Nack, Crash, delivery, mailerVars
  <2>2. CASE InsertRecipient
    BY <1>5, <2>1, <2>2, InsertFacts DEF Done
  <2>3. CASE IncrementCounter
    BY <1>5, <2>1, <2>3, IncrementFacts DEF Done
  <2>4. CASE Crash
    <3>1. step' \notin Done
      BY <2>4 DEF Crash, Done
    <3>2. faults' # faults
      BY <2>4 DEF Crash, Fault, RecordsOK
    <3>3. ~(step = "ack" /\ step' = "idle" /\ faults' = faults)
      BY <3>2
    <3> QED
      BY <1>5, <2>1, <3>1, <3>3
  <2>5. CASE Take \/ SendFails \/ CircuitOpen \/ SendError \/ UNCHANGED mailerVars
    <3>1. CASE UNCHANGED mailerVars
      BY <1>5, <2>1, <3>1 DEF mailerVars, handler
    <3>2. CASE Take \/ SendFails \/ CircuitOpen \/ SendError
      <4>1. step' \notin Done /\ step # "ack"
        BY <3>2 DEF Take, SendFails, CircuitOpen, SendError, Nack, Done
      <4> QED
        BY <1>5, <2>1, <4>1
    <3> QED
      BY <2>5, <3>1, <3>2
  <2> QED
    BY <1>6, <2>2, <2>3, <2>4, <2>5
<1>7. ASSUME NEW v \in UserIds, TaskPublished(v)
      PROVE  KeptUser(u)'
  BY <1>1, <1>2, <1>7 DEF TaskPublished, handler, KeptUser
<1>8. ASSUME NEW v \in UserIds, Deliver(v)
      PROVE  KeptUser(u)'
  BY <1>1, <1>2, <1>8 DEF Deliver, handler, KeptUser
<1>9. ASSUME NEW v \in UserIds, SendOk(v)
      PROVE  KeptUser(u)'
  <2>1. mails'[u] = IF u = v THEN Plus1(mails[u]) ELSE mails[u]
    BY <1>9 DEF SendOk, RecordsOK
  <2>2. Plus1(mails[u]) > 0
    BY <1>3, Plus1Is
  <2>3. mails'[u] = 0 => mails[u] = 0 /\ u # v
    BY <1>3, <2>1, <2>2
  <2>4. task = v /\ task' = v /\ arrived' = arrived /\ swallowed' = swallowed /\ step = "send"
    BY <1>9 DEF SendOk, delivery
  <2> QED
    BY <1>1, <1>2, <1>3, <2>1, <2>2, <2>3, <2>4 DEF KeptUser
<1>10. CASE Swallow
  <2>1. /\ task' = task /\ mails' = mails /\ arrived' = arrived /\ step = "send" /\ step' = "sent"
        /\ swallowed' = swallowed \cup {task}
    BY <1>10 DEF Swallow, delivery
  <2> QED
    BY <1>1, <1>2, <2>1 DEF KeptUser
<1>11. CASE Ack
  <2>1. /\ mails' = mails /\ swallowed' = swallowed /\ arrived' = arrived
        /\ step = "ack" /\ step' = "idle" /\ task' = NoUser
    BY <1>11 DEF Ack, delivery
  <2> QED
    BY <1>1, <1>2, <1>3, <1>4, <2>1 DEF Done, KeptUser
<1> QED
  BY <1>6, <1>7, <1>8, <1>9, <1>10, <1>11 DEF MailerNext, Handle

\* As long as nothing fails, mail and row of a user go together, stage by stage.
LEMMA CalmUserStep ==
  ASSUME DeliveryOK, RecordsOK, CopyKept, [MailerNext]_mailerVars, faults = 0, faults' = 0,
         NEW u \in UserIds, CalmUser(u)
  PROVE  CalmUser(u)'
<1>1. /\ Copies(u) \in Nat /\ Copies(u)' \in Nat
      /\ Copies(u)' + (IF step = "ack" /\ step' = "idle" /\ u = task THEN 1 ELSE 0)
           = Copies(u) + (IF u \in arrived' \ arrived THEN 1 ELSE 0)
  BY CopiesStep DEF CopiesMove
<1>2. /\ Copies(u) <= 1
      /\ u \notin arrived => Copies(u) = 0
      /\ task = u => Copies(u) = 1
      /\ task = u /\ step \in Done => mails[u] > 0 \/ u \in swallowed
  BY <1>1, TaskHasCopy DEF CopyKept, KeptUser
<1>3. mails[u] \in Nat /\ rows[u].sent \in Nat /\ u # NoUser
  BY MailerAssumption DEF RecordsOK
<1>4. ~Fault
  BY DEF Fault
<1>0. ASSUME arrived' = arrived, step # "ack" \/ step' # "idle" \/ u # task
      PROVE  Copies(u)' = Copies(u)
  <2>1. u \notin arrived' \ arrived
    BY <1>0
  <2> QED
    BY <1>0, <1>1, <2>1
<1>5. ASSUME mails' = mails, swallowed' = swallowed, arrived' = arrived,
             rows'[u].sent = rows[u].sent, Copies(u)' = Copies(u),
             \/ step \notin Done /\ step' \notin Done
             \/ task' = task /\ step' = step
             \/ task' = task /\ step = "count sent" /\ step' = "ack"
             \/ task # u /\ task' # u
      PROVE  CalmUser(u)'
  BY <1>5 DEF CalmUser, Untouched, Done
<1>6. ASSUME NEW v \in UserIds, TaskPublished(v) PROVE CalmUser(u)'
  <2>1. /\ mails' = mails /\ swallowed' = swallowed /\ rows' = rows /\ task' = task
        /\ step' = step /\ v \notin arrived /\ arrived' = arrived \cup {v}
    BY <1>6 DEF TaskPublished, handler
  <2>2. CASE u = v
    <3>0. Untouched(u) /\ Copies(u) = 0 /\ task # u
      <4>1. u \notin arrived
        BY <2>1, <2>2
      <4>2. Copies(u) = 0 /\ task # u
        BY <1>2, <4>1
      <4> QED
        BY <4>1, <4>2 DEF CalmUser
    <3>1. /\ u \in arrived' /\ Untouched(u) /\ Copies(u) = 0 /\ task # u
          /\ mails'[u] = mails[u] /\ rows'[u] = rows[u]
      BY <2>1, <2>2, <3>0
    <3>2. Copies(u)' = 1
      BY <1>1, <2>1, <2>2, <3>1
    <3> QED
      BY <2>1, <3>1, <3>2 DEF CalmUser, Untouched
  <2>3. CASE u # v
    <3>1. u \in arrived' <=> u \in arrived
      BY <2>1, <2>3
    <3>2. Copies(u)' = Copies(u)
      <4>1. u \notin arrived' \ arrived
        BY <3>1
      <4>2. ~(step = "ack" /\ step' = "idle")
        BY <2>1
      <4> QED
        BY <1>1, <4>1, <4>2
    <3> QED
      BY <2>1, <3>1, <3>2 DEF CalmUser, Untouched
  <2> QED
    BY <2>2, <2>3
<1>7. ASSUME NEW v \in UserIds, Deliver(v) PROVE CalmUser(u)'
  BY <1>1, <1>5, <1>7 DEF Deliver, handler
<1>8. CASE Take \/ SendFails \/ CircuitOpen \/ SendError \/ UNCHANGED mailerVars
  <2>1. mails' = mails /\ swallowed' = swallowed /\ arrived' = arrived /\ rows' = rows
    BY <1>8 DEF Take, SendFails, CircuitOpen, SendError, Nack, mailerVars, delivery
  <2>2. CASE UNCHANGED mailerVars
    BY <1>0, <1>5, <2>1, <2>2 DEF mailerVars, handler
  <2>3. CASE Take \/ SendFails \/ CircuitOpen \/ SendError
    <3>1. step \notin Done /\ step' \notin Done
      BY <2>3 DEF Take, SendFails, CircuitOpen, SendError, Nack, Done
    <3>2. Copies(u)' = Copies(u)
      BY <1>0, <2>1, <3>1 DEF Done
    <3> QED
      BY <1>5, <2>1, <3>1, <3>2
  <2> QED
    BY <1>8, <2>2, <2>3
<1>9. ASSUME NEW v \in UserIds, SendOk(v) PROVE CalmUser(u)'
  <2>1. /\ swallowed' = swallowed /\ rows' = rows /\ task' = task /\ arrived' = arrived
        /\ step = "send" /\ step' = "sent" /\ task = v
        /\ mails' = [mails EXCEPT ![v] = Plus1(@)]
    BY <1>4, <1>9 DEF SendOk, delivery
  <2>2. Copies(u)' = Copies(u)
    BY <1>0, <2>1
  <2>3. CASE u = v
    <3>1. mails[u] = 0 /\ rows[u].sent = 0
      BY <1>2, <2>1, <2>3 DEF CalmUser, Untouched, Done
    <3>2. mails'[u] = 1
      BY <2>1, <2>3, <3>1, Plus1Is DEF RecordsOK
    <3> QED
      BY <1>2, <2>1, <2>2, <2>3, <3>1, <3>2 DEF CalmUser, Done
  <2>4. CASE u # v
    <3>1. mails'[u] = mails[u]
      BY <2>1, <2>4 DEF RecordsOK
    <3> QED
      BY <2>1, <2>2, <2>4, <3>1 DEF CalmUser, Untouched, Done
  <2> QED
    BY <2>3, <2>4
<1>10. CASE Swallow
  <2>1. /\ mails' = mails /\ rows' = rows /\ task' = task /\ arrived' = arrived
        /\ step = "send" /\ step' = "sent"
        /\ swallowed' = swallowed \cup {task}
    BY <1>10 DEF Swallow, delivery
  <2>2. Copies(u)' = Copies(u)
    BY <1>0, <2>1
  <2> QED
    BY <1>2, <2>1, <2>2 DEF CalmUser, Untouched, Done
<1>11. CASE InsertRecipient
  <2>0. /\ mails' = mails /\ swallowed' = swallowed /\ arrived' = arrived
        /\ task' = task /\ step # "ack"
    BY <1>11, InsertFacts
  <2>1. /\ Copies(u)' = Copies(u) /\ mails' = mails /\ swallowed' = swallowed
        /\ arrived' = arrived /\ task' = task
    BY <1>0, <2>0
  <2>2. CASE step = "sent" /\ task = u
    <3>1. step' = "count sent" /\ rows'[u].sent = Plus1(rows[u].sent)
      BY <1>4, <1>11, <2>2, InsertFacts
    <3>2. rows'[u].sent = 1
      BY <1>3, <2>2, <3>1, Plus1Is DEF CalmUser
    <3>3. mails[u] = 1 \/ u \in swallowed
      BY <1>2, <1>3, <2>2 DEF CalmUser, Done
    <3> QED
      BY <1>2, <2>1, <2>2, <3>1, <3>2, <3>3 DEF CalmUser, Untouched, Done
  <2>3. CASE ~(step = "sent" /\ task = u)
    <3>1. rows'[u].sent = rows[u].sent /\ (task = u => step \notin Done /\ step' \notin Done)
      BY <1>4, <1>11, <2>3, InsertFacts DEF Done
    <3> QED
      BY <1>5, <2>1, <3>1
  <2> QED
    BY <2>2, <2>3
<1>12. CASE IncrementCounter
  <2>1. /\ mails' = mails /\ swallowed' = swallowed /\ arrived' = arrived
        /\ rows' = rows /\ task' = task
        /\ \/ step = "count sent" /\ step' = "ack"
           \/ step = "count failed" /\ step' = "nack"
    BY <1>12, IncrementFacts
  <2>2. Copies(u)' = Copies(u)
    BY <1>0, <2>1
  <2> QED
    BY <1>5, <2>1, <2>2 DEF Done
<1>13. CASE Ack
  <2>1. /\ mails' = mails /\ swallowed' = swallowed /\ arrived' = arrived /\ rows' = rows
        /\ step = "ack" /\ step' = "idle" /\ task' = NoUser
    BY <1>13 DEF Ack, delivery
  <2>2. CASE u = task
    BY <1>1, <1>2, <1>3, <2>1, <2>2 DEF CalmUser, Untouched, Done
  <2>3. CASE u # task
    BY <1>0, <1>3, <1>5, <2>1, <2>3
  <2> QED
    BY <2>2, <2>3
<1>14. ~Crash
  BY <1>4 DEF Crash
<1> QED
  BY <1>6, <1>7, <1>8, <1>9, <1>10, <1>11, <1>12, <1>13, <1>14 DEF MailerNext, Handle

\* As long as nothing fails, sent_count is incremented only after a new sent row.
LEMMA CountStep ==
  ASSUME DeliveryOK, RecordsOK, [MailerNext]_mailerVars, faults = 0, faults' = 0,
         \A u \in UserIds : CalmUser(u), CountIsEarned
  PROVE  CountIsEarned'
<1>1. IsFiniteSet(Counted) /\ Cardinality(Counted) \in Nat /\ sentCount \in Nat
  BY FS_CardinalityType DEF CountIsEarned, RecordsOK
<1>2. ~Fault
  BY DEF Fault
<1>3. ASSUME \A u \in UserIds : rows'[u].sent = rows[u].sent
      PROVE  Counted' = Counted
  BY <1>3 DEF Counted
<1>4. ASSUME rows' = rows, sentCount' = sentCount, step # "count sent", step' # "count sent"
      PROVE  CountIsEarned'
  BY <1>3, <1>4 DEF CountIsEarned
<1>5. ASSUME rows' = rows, sentCount' = sentCount, step' = step PROVE CountIsEarned'
  BY <1>3, <1>5 DEF CountIsEarned
<1>6. CASE InsertRecipient
  <2>1. task \in UserIds /\ sentCount' = sentCount
    BY <1>6, InsertFacts
  <2>2. CASE step = "sent"
    <3>0. rows[task].sent = 0
      BY <2>1, <2>2 DEF CalmUser
    <3>1. /\ step' = "count sent"
          /\ \A u \in UserIds :
               rows'[u].sent = IF u = task THEN Plus1(rows[u].sent) ELSE rows[u].sent
      BY <1>2, <1>6, <2>2, InsertFacts
    <3>2. rows'[task].sent = 1
      <4>1. Plus1(0) = 1
        BY Plus1Is
      <4> QED
        BY <2>1, <3>0, <3>1, <4>1
    <3>3. Counted' = Counted \cup {task} /\ task \notin Counted
      <4>1. \A u \in UserIds : rows'[u].sent = 1 <=> rows[u].sent = 1 \/ u = task
        BY <2>1, <3>0, <3>1, <3>2
      <4>2. task \notin Counted
        BY <2>1, <3>0 DEF Counted
      <4>3. Counted' = {u \in UserIds : rows'[u].sent = 1}
        BY DEF Counted
      <4>4. Counted' = Counted \cup {task}
        BY <2>1, <4>1, <4>3 DEF Counted
      <4> QED
        BY <4>2, <4>4
    <3>4. /\ IsFiniteSet(Counted \cup {task})
          /\ Cardinality(Counted \cup {task}) = Cardinality(Counted) + 1
      BY <1>1, <3>3, FS_AddElement
    <3>5. sentCount' + 1 <= Cardinality(Counted) + 1
      BY <1>1, <2>1, <2>2 DEF CountIsEarned
    <3>6. IsFiniteSet(Counted') /\ Cardinality(Counted') = Cardinality(Counted) + 1
      BY <3>3, <3>4
    <3> QED
      BY <3>1, <3>5, <3>6 DEF CountIsEarned
  <2>3. CASE step # "sent"
    <3>1. /\ step = "failed" /\ step' = "count failed"
          /\ \A u \in UserIds : rows'[u].sent = rows[u].sent
      BY <1>2, <1>6, <2>3, InsertFacts
    <3> QED
      BY <1>3, <2>1, <3>1 DEF CountIsEarned
  <2> QED
    BY <2>2, <2>3
<1>7. CASE IncrementCounter
  <2>1. CASE step = "count sent"
    <3>1. rows' = rows /\ step' = "ack" /\ sentCount' = Plus1(sentCount)
      BY <1>2, <1>7, <2>1, IncrementFacts
    <3>2. sentCount' \in Nat /\ sentCount' <= sentCount + 1
      BY <1>1, <3>1, Plus1Is
    <3>3. Counted' = Counted
      BY <1>3, <3>1
    <3>4. sentCount + 1 <= Cardinality(Counted)
      BY <2>1 DEF CountIsEarned
    <3>5. sentCount' + 0 <= Cardinality(Counted)
      BY <1>1, <3>2, <3>4
    <3> QED
      BY <1>1, <3>1, <3>3, <3>5 DEF CountIsEarned
  <2>2. CASE step # "count sent"
    BY <1>4, <1>7, <2>2, IncrementFacts
  <2> QED
    BY <2>1, <2>2
<1>8. CASE Take \/ SendFails \/ Swallow \/ CircuitOpen \/ SendError \/ Ack
  BY <1>4, <1>8 DEF Take, SendFails, Swallow, CircuitOpen, SendError, Nack, Ack, counters
<1>9. ASSUME NEW u \in UserIds, SendOk(u) PROVE CountIsEarned'
  BY <1>4, <1>9 DEF SendOk, counters
<1>10. ASSUME NEW u \in UserIds, TaskPublished(u) \/ Deliver(u) PROVE CountIsEarned'
  BY <1>5, <1>10 DEF TaskPublished, Deliver, counters, handler
<1>11. CASE UNCHANGED mailerVars
  BY <1>5, <1>11 DEF mailerVars, counters, handler
<1>12. ~Crash
  BY <1>2 DEF Crash
<1> QED
  BY <1>6, <1>7, <1>8, <1>9, <1>10, <1>11, <1>12 DEF MailerNext, Handle

\* Nothing was published yet.
LEMMA MailInit == MailerInit => MailerInv
<1> SUFFICES ASSUME MailerInit PROVE MailerInv
  OBVIOUS
<1>1. DeliveryOK
  BY EmptySeq DEF MailerInit, DeliveryOK, Steps
<1>2. RecordsOK
  BY DEF MailerInit, RecordsOK
<1>3. \A u \in UserIds : Copies(u) = 0 /\ mails[u] = 0 /\ rows[u].sent = 0 /\ task # u
  BY OccurrencesOfNone, MailerAssumption DEF MailerInit, Copies
<1>4. CopyKept
  BY <1>3 DEF MailerInit, CopyKept, KeptUser
<1>5. Counted = {}
  BY <1>3 DEF Counted
<1>6. \A u \in UserIds : CalmUser(u)
  BY <1>3 DEF MailerInit, CalmUser, Untouched
<1>7. CountIsEarned
  BY <1>5, FS_EmptySet DEF MailerInit, CountIsEarned
<1> QED
  BY <1>1, <1>2, <1>4, <1>6, <1>7 DEF MailerInv, Calm

\* Every step of RabbitMQ, the handler and a crash keeps the invariant.
LEMMA MailStep == MailerInv /\ [MailerNext]_mailerVars => MailerInv'
<1> SUFFICES ASSUME MailerInv, [MailerNext]_mailerVars PROVE MailerInv'
  OBVIOUS
<1>1. DeliveryOK /\ RecordsOK /\ CopyKept /\ Calm
  BY DEF MailerInv
<1>2. DeliveryOK' /\ RecordsOK' /\ CopyKept'
  BY <1>1, DeliveryStep, RecordsStep, CopyKeptStep
<1>3. faults' = 0 => faults = 0
  <2>1. Fault \/ faults' = faults
    <3>1. CASE InsertRecipient
      BY <1>1, <3>1, InsertFacts
    <3>2. CASE IncrementCounter
      BY <3>2, IncrementFacts
    <3>3. ASSUME NEW u \in UserIds, TaskPublished(u) \/ Deliver(u) \/ SendOk(u)
          PROVE  Fault \/ faults' = faults
      BY <3>3 DEF TaskPublished, Deliver, SendOk, NoFault
    <3> QED
      BY <3>1, <3>2, <3>3
      DEF MailerNext, mailerVars, Handle, Take, SendFails, Swallow, CircuitOpen, Ack, SendError, Crash
  <2> QED
    BY <1>1, <2>1 DEF Fault, RecordsOK
<1>4. Calm'
  BY <1>1, <1>3, CalmUserStep, CountStep DEF Calm
<1> QED
  BY <1>2, <1>4 DEF MailerInv

\* The invariant holds in every reachable state.
LEMMA MailInvariant == MailerSpec => []MailerInv
  BY MailInit, MailStep, PTL DEF MailerSpec

\* Requeues, redeliveries and crashes neither lose nor multiply a task: RabbitMQ holds
\* at most one copy of it, and holds it until HandleCampaignMessage sent the mail (or
\* the breaker swallowed it).
THEOREM OneCopyEach == MailerSpec => []OneCopy
<1>1. MailerInv => OneCopy
  BY DEF MailerInv, CopyKept, KeptUser, OneCopy
<1> QED
  BY <1>1, MailInvariant, PTL

\* sent_count is not ahead of the rows.
LEMMA EarnedCount == RecordsOK /\ CountIsEarned => sentCount <= Cardinality(Counted)
<1> SUFFICES ASSUME RecordsOK, CountIsEarned PROVE sentCount <= Cardinality(Counted)
  OBVIOUS
<1> DEFINE n == Cardinality(Counted)
<1>1. n \in Nat /\ sentCount \in Nat
  BY FS_CardinalityType DEF CountIsEarned, RecordsOK
<1>2. \E b \in {0, 1} : sentCount + b <= n
  BY DEF CountIsEarned
<1> HIDE DEF n
<1>3. sentCount <= n
  BY <1>1, <1>2
<1> QED
  BY <1>3 DEF n

\* Without faults HandleCampaignMessage mails a user once, writes one sent row for whom
\* it mailed, and increments sent_count no more often than there are such rows.
THEOREM MailsAreCounted == MailerSpec => []MailedAndCountedOnce
<1>1. MailerInv => MailedAndCountedOnce
  <2> SUFFICES ASSUME MailerInv, faults = 0 PROVE MailedAndCountedOnce
    BY DEF MailedAndCountedOnce
  <2>1. sentCount <= Cardinality(Counted)
    BY EarnedCount DEF MailerInv, Calm
  <2>2. \A u \in UserIds : CalmUser(u)
    BY DEF MailerInv, Calm
  <2> QED
    BY <2>1, <2>2 DEF MailedAndCountedOnce, CalmUser, Counted
<1> QED
  BY <1>1, MailInvariant, PTL
=============================================================================
