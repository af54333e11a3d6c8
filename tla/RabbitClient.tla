---------------------------- MODULE RabbitClient -----------------------------
(***************************************************************************)
(* pkg/broker/rabbitmq.go: one process's connection to RabbitMQ, the       *)
(* goroutine that watches it, and the subscriptions the workers register   *)
(* (the email worker: one goroutine each).  A connection or a channel can  *)
(* be lost at any moment and the broker be out of reach for a while.       *)
(***************************************************************************)
EXTENDS Naturals, Sequences

CONSTANTS Subs,             \* the subscriptions the process makes, one call each
          MaxLosses,        \* bound: connections that break
          MaxChannelFaults  \* bound: channel operations that fail, channels closed

ASSUME RabbitAssumption == MaxLosses \in Nat /\ MaxChannelFaults \in Nat

VARIABLES
  reachable,  \* the environment: the broker accepts connections
  link,       \* r.conn: "up" or "down"
  notice,     \* r.closeChan holds the error of the connection that was lost
  closed,     \* r.closed
  subs,       \* r.subs, in the order of registration
  watcher,    \* handleReconnect and reestablish
  todo,       \* the copy of r.subs being restored
  call,       \* where each worker's QueueSubscribeWithOptions is
  consumers,  \* how many handleMessages goroutines consume, per subscription
  losses, channelFaults,
  raced,      \* history: registered, but not yet subscribed, when r.subs was copied
  broken      \* history: subscriptions a channel failure has ended on this link

connVars == <<reachable, link, notice, closed>>
clientVars == <<connVars, subs, watcher, todo, call, consumers, losses, channelFaults,
                raced, broken>>

\* NewRabbitMQ has connected and started the watcher.
ClientInit ==
  /\ reachable = TRUE /\ link = "up" /\ notice = FALSE /\ closed = FALSE
  /\ subs = <<>> /\ watcher = "waiting" /\ todo = <<>>
  /\ call = [s \in Subs |-> "none"]
  /\ consumers = [s \in Subs |-> 0]
  /\ losses = 0 /\ channelFaults = 0 /\ raced = {} /\ broken = {}

ChannelFault == channelFaults < MaxChannelFaults /\ channelFaults' = channelFaults + 1

\* amqp.Dial runs with r.mu write-locked: everyone else waits for its outcome.
LockFree == watcher # "dialling"

-----------------------------------------------------------------------------
(* The environment *)

ReachableChanges ==
  /\ reachable' = ~reachable
  /\ ~reachable \/ link = "down"
  /\ UNCHANGED <<link, notice, closed, subs, watcher, todo, call, consumers, losses, channelFaults,
                 raced, broken>>

\* Every consumer ends with its channel; the close notification is buffered.
LinkBreaks ==
  /\ link = "up" /\ losses < MaxLosses
  /\ losses' = losses + 1
  /\ link' = "down" /\ notice' = TRUE
  /\ consumers' = [s \in Subs |-> 0]
  /\ raced' = {} /\ broken' = {}
  /\ UNCHANGED <<reachable, closed, subs, watcher, todo, call, channelFaults>>

\* One channel is closed, by the broker or by a failed acknowledgement: its
\* consumer ends, the connection stays and nothing subscribes it again.
ChannelBreaks(s) ==
  /\ consumers[s] > 0 /\ ChannelFault
  /\ consumers' = [consumers EXCEPT ![s] = @ - 1]
  /\ broken' = broken \cup {s}
  /\ UNCHANGED <<connVars, subs, watcher, todo, call, losses, raced>>

-----------------------------------------------------------------------------
(* QueueSubscribeWithOptions, called once per subscription by a worker *)

Register(s) ==
  /\ call[s] = "none" /\ LockFree
  /\ subs' = Append(subs, s)
  /\ call' = [call EXCEPT ![s] = "registered"]
  /\ UNCHANGED <<connVars, watcher, todo, consumers, losses, channelFaults, raced, broken>>

\* subscribeQueue: channel, declarations, prefetch, Consume, and a goroutine.
Consume(s) == consumers' = [consumers EXCEPT ![s] = @ + 1] /\ link = "up"
ConsumeFails(s) ==
  /\ UNCHANGED consumers
  /\ IF link = "up" THEN ChannelFault /\ broken' = broken \cup {s}
                    ELSE UNCHANGED <<channelFaults, broken>>

\* The worker logs an error and does not call again.
Subscribe(s) ==
  /\ call[s] = "registered" /\ LockFree
  /\ call' = [call EXCEPT ![s] = "returned"]
  /\ \/ Consume(s) /\ UNCHANGED <<channelFaults, broken>>
     \/ ConsumeFails(s)
  /\ UNCHANGED <<connVars, subs, watcher, todo, losses, raced>>

-----------------------------------------------------------------------------
(* handleReconnect and reestablish *)

WatcherAt(from, to) == watcher = from /\ watcher' = to

\* closeChan delivers the error, or is closed by Close.
NoticeLoss ==
  /\ notice
  /\ IF closed THEN WatcherAt("waiting", "gone") ELSE WatcherAt("waiting", "checking")
  /\ notice' = FALSE
  /\ UNCHANGED <<reachable, link, closed, subs, todo, call, consumers, losses,
                 channelFaults, raced, broken>>

\* r.closed is read before the back-off, and not again after it.
CheckClosed ==
  /\ IF closed THEN WatcherAt("checking", "gone") ELSE WatcherAt("checking", "sleeping")
  /\ UNCHANGED <<connVars, subs, todo, call, consumers, losses, channelFaults, raced, broken>>

WakeUp ==
  /\ WatcherAt("sleeping", "dialling")
  /\ UNCHANGED <<connVars, subs, todo, call, consumers, losses, channelFaults, raced, broken>>

\* connect: a new connection with a new closeChan, or the next round.
Dialled ==
  /\ reachable /\ WatcherAt("dialling", "connected")
  /\ link' = "up" /\ notice' = FALSE
  /\ UNCHANGED <<reachable, closed, subs, todo, call, consumers, losses, channelFaults,
                 raced, broken>>

DialFails ==
  /\ ~reachable /\ WatcherAt("dialling", "checking")
  /\ UNCHANGED <<connVars, subs, todo, call, consumers, losses, channelFaults, raced, broken>>

\* A subscription whose worker has yet to subscribe it is copied as well, and
\* both will; that of a link lost since is of no account.
CopySubs ==
  /\ WatcherAt("connected", "restoring")
  /\ todo' = subs
  /\ raced' = IF link = "up" THEN {s \in Subs : call[s] = "registered" \/ consumers[s] > 0} ELSE {}
  /\ UNCHANGED <<connVars, subs, call, consumers, losses, channelFaults, broken>>

\* Bug: the restored subscription is registered once more.
Restored_Registered == todo' = Tail(todo) /\ subs' = Append(subs, Head(todo))
Restored == todo' = Tail(todo) /\ UNCHANGED subs

\* One failure is logged and the next subscription tried.
Restore ==
  /\ watcher = "restoring" /\ todo # <<>>
  /\ LET s == Head(todo) IN
       \/ Consume(s) /\ UNCHANGED <<channelFaults, broken>>
       \/ ConsumeFails(s)
  /\ Restored
  /\ UNCHANGED <<connVars, watcher, call, losses, raced>>

\* Bug: reestablish returns without a goroutine to watch the new connection.
WatchAgain_Forgotten ==
  /\ todo = <<>> /\ WatcherAt("restoring", "gone")
  /\ UNCHANGED <<connVars, subs, todo, call, consumers, losses, channelFaults, raced, broken>>
WatchAgain ==
  /\ todo = <<>> /\ WatcherAt("restoring", "waiting")
  /\ UNCHANGED <<connVars, subs, todo, call, consumers, losses, channelFaults, raced, broken>>

-----------------------------------------------------------------------------
\* Close closes the connection, and with it closeChan.
Close ==
  /\ ~closed /\ LockFree
  /\ closed' = TRUE
  /\ link' = "down" /\ notice' = (notice \/ link = "up")
  /\ consumers' = [s \in Subs |-> 0]
  /\ raced' = {} /\ broken' = {}
  /\ UNCHANGED <<reachable, subs, watcher, todo, call, losses, channelFaults>>

Environment == ReachableChanges \/ LinkBreaks \/ \E s \in Subs : ChannelBreaks(s)
Worker(s) == Register(s) \/ Subscribe(s)
Watcher == \/ NoticeLoss \/ CheckClosed \/ WakeUp \/ Dialled \/ DialFails
           \/ CopySubs \/ Restore \/ WatchAgain

ClientNext == Environment \/ Close \/ Watcher \/ \E s \in Subs : Worker(s)
ClientSpec == ClientInit /\ [][ClientNext]_clientVars

\* The goroutines of the process run; nothing is assumed of the broker.
ClientFairSpec == ClientSpec /\ WF_clientVars(Watcher) /\ \A s \in Subs : WF_clientVars(Worker(s))

-----------------------------------------------------------------------------
(* Properties *)

ClientTypeOK ==
  /\ reachable \in BOOLEAN /\ link \in {"up", "down"} /\ notice \in BOOLEAN /\ closed \in BOOLEAN
  /\ subs \in Seq(Subs) /\ todo \in Seq(Subs)
  /\ watcher \in {"waiting", "checking", "sleeping", "dialling", "connected", "restoring", "gone"}
  /\ call \in [Subs -> {"none", "registered", "returned"}]
  /\ consumers \in [Subs -> Nat]
  /\ losses \in 0..MaxLosses /\ channelFaults \in 0..MaxChannelFaults
  /\ raced \subseteq Subs /\ broken \subseteq Subs

\* A subscription has one consumer at a time, however often the connection is
\* lost, also while subscriptions are being restored: the second one exists only
\* when a worker subscribed a registration that a reconnect had copied (r.subs
\* is appended to before the channel is opened).
OneConsumer == \A s \in Subs : consumers[s] > 1 => s \in raced

\* While the broker can be reached and the client is open, every subscription a
\* worker has asked for is consumed in the end, also the one whose first attempt
\* met a lost connection; only a failure of its own channel on a live connection
\* ends it, until the next loss (handleReconnect, reestablish).
SubscriptionsComeBack ==
  \A s \in Subs :
    <>[](reachable /\ ~closed) => <>[](consumers[s] > 0 \/ s \in broken)
=============================================================================
