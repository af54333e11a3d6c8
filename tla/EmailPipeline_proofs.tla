------------------------ MODULE EmailPipeline_proofs -------------------------
(***************************************************************************)
(* For any number of notifications, retries, faults, replays and admins:   *)
(* no notification is lost in silence, its attempts are bounded, its       *)
(* status is earned, and without faults and replays it has one outcome.    *)
(***************************************************************************)
EXTENDS EmailPipeline, SequenceTheorems, FunctionTheorems, FiniteSetTheorems, TLAPS

\* The queues a mail's message goes through, and those it is tried from.
TryQueues == {"email", "email.retry"}
MailQueues == TryQueues \cup {"email.dlq"}

Has(s, m) == \E k \in 1..Len(s) : s[k] = m
OneEach(s) == \A j, k \in 1..Len(s) : s[j].id = s[k].id => j = k
Holds(q, i) == \E m \in Task : m.id = i /\ Has(queue[q], m)
InHand(i, steps) == worker.step \in steps /\ task.id = i

QueuesOK == queue \in [Queues -> Seq(Task)]

TablesOK ==
  /\ status \in [Ids -> {"none", "pending", "delivering", "sent", "failed"}]
  /\ mails \in [Ids -> Nat] /\ posted \in [Ids -> Nat] /\ attempts \in [Ids -> Nat]
  /\ lost \subseteq Ids /\ swallowed \subseteq Ids /\ arrived \subseteq Ids
  /\ faults \in Nat /\ replays \in Nat

ConsumersOK ==
  /\ worker = Idle \/ worker \in [step : {"send", "sent", "failed", "ack", "reject"}, task : Task]
  /\ pc \in [Callers -> {"idle", "waiting", "running"}]
  /\ hook \in Task \cup {NoHook}
  /\ held \in Task \cup {NoHeld}

RowsOK ==
  /\ rows \in Seq([id : Ids, status : {"pending", "replayed"}])
  /\ republished \in Seq(Nat) /\ Len(republished) = Len(rows)

AdminsOK ==
  /\ admin \in [Admins -> [step : {"idle", "publish", "mark", "reset"}, row : Nat]]
  /\ \A a \in Admins :
       admin[a].step # "idle" => admin[a].row \in 1..Len(rows) /\ replays > 0

\* The types; a request that has begun works on a row that is there.
TypeOK == QueuesOK /\ TablesOK /\ ConsumersOK /\ RowsOK /\ AdminsOK

\* Once its outcome is known a notification needs no copy any more; until then one
\* is in a queue or with the worker, which has not acknowledged it.
Safe(i) == mails[i] > 0 \/ Parked(i) # {} \/ i \in lost \cup swallowed

CopyIsKept ==
  \A i \in arrived :
    \/ Safe(i)
    \/ \E q \in MailQueues : Holds(q, i)
    \/ InHand(i, {"send", "failed", "reject"})

\* A webhook is about a stored mail, and the worker only marks what was sent.
WebhooksAreTrue ==
  /\ \A m \in Task : Has(queue["webhook_mailpit"], m) => mails[m.id] > 0
  /\ hook # NoHook => mails[hook.id] > 0
  /\ worker.step = "sent" => mails[task.id] > 0 \/ task.id \in swallowed

\* retryCount counts attempts that were made: no copy is ahead of its history.
CountsAreAttempts ==
  /\ \A m \in Task : (\E q \in TryQueues : Has(queue[q], m)) => attempts[m.id] >= m.retryCount
  /\ worker # Idle => attempts[task.id] >= task.retryCount
  /\ \/ worker.step = "failed"
     \/ worker.step = "send" /\ pc[Email] = "running"
     => attempts[task.id] > task.retryCount

\* A request past its publish has published its row.
MarkedAfterPublish ==
  \A a \in Admins :
    admin[a].step \in {"mark", "reset"} => republished[admin[a].row] > 0

\* Without faults and replays: one copy of each notification, and by where it is,
\* what happened to the notification so far.
ToTry(i) == \E q \in TryQueues : Holds(q, i)
Dead(i) == Holds("email.dlq", i)
Copied(i) == \E q \in MailQueues : Holds(q, i)
Working == {"send", "sent", "failed", "reject"}
MailedOnce(i) == mails[i] = IF i \in swallowed THEN 0 ELSE 1
Unmailed(i, s) == status[i] = s /\ mails[i] = 0 /\ i \notin swallowed

OneCopyEach ==
  /\ \A q \in MailQueues : OneEach(queue[q])
  /\ \A i \in Ids : \A p, q \in MailQueues : Holds(p, i) /\ Holds(q, i) => p = q

StageOf(i) ==
  /\ ToTry(i) \/ Dead(i) => ~InHand(i, Working)
  /\ i \notin arrived => /\ ~ToTry(i) /\ ~Dead(i) /\ ~InHand(i, Working)
                        /\ mails[i] = 0 /\ i \notin swallowed /\ Parked(i) = {}
  /\ ToTry(i) \/ InHand(i, {"send", "failed"}) => Unmailed(i, "pending") /\ Parked(i) = {}
  /\ Dead(i) \/ InHand(i, {"reject"}) => Unmailed(i, "failed") /\ Parked(i) = {}
  /\ InHand(i, {"sent"}) => MailedOnce(i) /\ Parked(i) = {}
  /\ i \in arrived /\ ~ToTry(i) /\ ~Dead(i) /\ ~InHand(i, Working) =>
       \/ status[i] \in {"delivering", "sent"} /\ MailedOnce(i) /\ Parked(i) = {}
       \/ Unmailed(i, "failed") /\ \E k \in 1..Len(rows) : Parked(i) = {k}

StageIsKnown == \A i \in Ids : StageOf(i)

CalmIsOrderly == replays = 0 /\ faults = 0 => OneCopyEach /\ StageIsKnown

\* What may still be tried: by each copy, the worker, the replays that are about to
\* publish, and the hand-over to come.  Crashes and failed publishes pay for more.
Tries == MaxRetries + 1
Cells(s, i) ==
  {c \in (1..Len(s)) \X (0..MaxRetries) : s[c[1]].id = i /\ c[2] >= s[c[1]].retryCount}
Left(q, i) == Cardinality(Cells(queue[q], i))
LeftInHand(i) ==
  IF InHand(i, {"send"}) /\ pc[Email] # "running" THEN Tries - task.retryCount
  ELSE IF InHand(i, {"send", "failed"}) THEN MaxRetries - task.retryCount ELSE 0
Due(i) == {a \in Admins : admin[a].step = "publish" /\ IdOf(a) = i}
ToCome(i) == IF i \in arrived THEN 0 ELSE Tries

Queued(i) == Left("email", i) + Left("email.retry", i)
Used(i) == attempts[i] + Queued(i) + LeftInHand(i) + ToCome(i)

WithinBudget(i) == Used(i) + Tries * Cardinality(Due(i)) <= Tries * (1 + replays + faults)

BudgetKept == \A i \in Ids : IsFiniteSet(Due(i)) /\ WithinBudget(i)

IInv ==
  /\ TypeOK /\ CopyIsKept /\ WebhooksAreTrue /\ CountsAreAttempts /\ MarkedAfterPublish
  /\ StatusIsEarned /\ ReplayedWasPublished /\ CalmIsOrderly /\ BudgetKept

-----------------------------------------------------------------------------
(* Queues *)

\* An empty queue holds nothing and leaves nothing to try.
LEMMA EmptyFacts ==
  /\ <<>> \in Seq(Task) /\ OneEach(<<>>)
  /\ \A m : ~Has(<<>>, m)
  /\ \A i : Cells(<<>>, i) = {}
<1>1. Len(<<>>) = 0 /\ <<>> \in Seq(Task)
  OBVIOUS
<1>2. 1..Len(<<>>) = {}
  BY <1>1
<1> QED
  BY <1>1, <1>2, Zenon DEF Has, OneEach, Cells

\* A publish appends its message.
LEMMA AppendFacts ==
  ASSUME NEW s \in Seq(Task), NEW m \in Task
  PROVE  /\ Append(s, m) \in Seq(Task)
         /\ \A x \in Task : Has(Append(s, m), x) <=> Has(s, x) \/ x = m
         /\ OneEach(s) /\ (\A x \in Task : Has(s, x) => x.id # m.id) => OneEach(Append(s, m))
<1>1. /\ Append(s, m) \in Seq(Task) /\ Len(s) \in Nat
      /\ Len(Append(s, m)) = Len(s) + 1 /\ Append(s, m)[Len(s) + 1] = m
      /\ \A k \in 1..Len(s) : Append(s, m)[k] = s[k] /\ s[k] \in Task
  BY AppendProperties, LenProperties, ElementOfSeq
<1>2. \A x \in Task : Has(Append(s, m), x) <=> Has(s, x) \/ x = m
  BY <1>1 DEF Has
<1>3. ASSUME OneEach(s), \A x \in Task : Has(s, x) => x.id # m.id
      PROVE  OneEach(Append(s, m))
  <2>1. \A k \in 1..Len(s) : s[k].id # m.id
    BY <1>1, <1>3 DEF Has
  <2> QED
    BY <1>1, <1>3, <2>1 DEF OneEach
<1> QED
  BY <1>1, <1>2, <1>3

\* A consumer takes the head of a queue.
LEMMA HeadFacts ==
  ASSUME NEW s \in Seq(Task), s # <<>>
  PROVE  /\ Head(s) \in Task /\ Tail(s) \in Seq(Task)
         /\ \A x \in Task : Has(s, x) <=> x = Head(s) \/ Has(Tail(s), x)
         /\ OneEach(s) => OneEach(Tail(s)) /\ \A x \in Task : Has(Tail(s), x) => x.id # Head(s).id
<1>1. /\ Head(s) \in Task /\ Tail(s) \in Seq(Task) /\ Len(s) \in Nat \ {0}
      /\ Len(Tail(s)) = Len(s) - 1 /\ Head(s) = s[1]
      /\ \A k \in 1..Len(Tail(s)) : Tail(s)[k] = s[k + 1]
  BY HeadTailProperties, EmptySeq
<1>2. \A k \in 1..Len(Tail(s)) : k + 1 \in 1..Len(s)
  BY <1>1
<1>3. ASSUME NEW x \in Task PROVE Has(s, x) <=> x = Head(s) \/ Has(Tail(s), x)
  <2>1. ASSUME NEW k \in 1..Len(s), s[k] = x, k # 1 PROVE Has(Tail(s), x)
    <3>1. k - 1 \in 1..Len(Tail(s)) /\ (k - 1) + 1 = k
      BY <1>1, <2>1
    <3>2. Tail(s)[k - 1] = x
      BY <1>1, <2>1, <3>1
    <3> QED
      BY <3>1, <3>2 DEF Has
  <2>2. Has(Tail(s), x) => Has(s, x)
    BY <1>1, <1>2 DEF Has
  <2>3. Has(s, Head(s))
    BY <1>1 DEF Has
  <2>4. ASSUME Has(s, x), x # Head(s) PROVE Has(Tail(s), x)
    <3>1. PICK k \in 1..Len(s) : s[k] = x
      BY <2>4 DEF Has
    <3> QED
      BY <1>1, <2>1, <2>4, <3>1
  <2> QED
    BY <2>2, <2>3, <2>4
<1>4. ASSUME OneEach(s) PROVE OneEach(Tail(s))
  <2> SUFFICES ASSUME NEW j \in 1..Len(Tail(s)), NEW k \in 1..Len(Tail(s)),
                      Tail(s)[j].id = Tail(s)[k].id
               PROVE  j = k
    BY DEF OneEach
  <2>1. s[j + 1].id = s[k + 1].id /\ j + 1 \in 1..Len(s) /\ k + 1 \in 1..Len(s)
    BY <1>1, <1>2
  <2>2. j + 1 = k + 1
    BY <1>4, <2>1 DEF OneEach
  <2> QED
    BY <1>1, <2>2
<1>5. ASSUME OneEach(s), NEW x \in Task, Has(Tail(s), x) PROVE x.id # Head(s).id
  <2>1. PICK k \in 1..Len(Tail(s)) : Tail(s)[k] = x
    BY <1>5 DEF Has
  <2>2. s[k + 1] = x /\ k + 1 \in 1..Len(s) /\ 1 \in 1..Len(s) /\ s[1] = Head(s)
    BY <1>1, <1>2, <2>1
  <2>3. s[k + 1].id = s[1].id => k + 1 = 1
    BY <1>5, <2>2 DEF OneEach
  <2>4. k + 1 # 1
    BY <1>1, <2>1
  <2> QED
    BY <2>2, <2>3, <2>4
<1> QED
  BY <1>1, <1>3, <1>4, <1>5

\* A requeued message returns to the head.
LEMMA PrependShape ==
  ASSUME NEW s \in Seq(Task), NEW m \in Task
  PROVE  /\ <<m>> \o s \in Seq(Task) /\ <<m>> \o s # <<>>
         /\ Head(<<m>> \o s) = m /\ Tail(<<m>> \o s) = s
<1>1. <<m>> \in Seq(Task) /\ Len(<<m>>) = 1 /\ <<m>>[1] = m /\ Len(s) \in Nat
  BY LenProperties
<1> DEFINE p == <<m>> \o s
<1>2. /\ p \in Seq(Task) /\ Len(p) = 1 + Len(s)
      /\ \A k \in 1..(1 + Len(s)) : p[k] = IF k <= 1 THEN <<m>>[k] ELSE s[k - 1]
  BY <1>1, ConcatProperties
<1>3. p # <<>> /\ p[1] = m
  BY <1>1, <1>2
<1>4. /\ Tail(p) \in Seq(Task) /\ Len(Tail(p)) = Len(p) - 1 /\ Head(p) = p[1]
      /\ \A k \in 1..Len(Tail(p)) : Tail(p)[k] = p[k + 1]
  BY <1>2, <1>3, HeadTailProperties
<1>5. \A k \in 1..Len(s) : Tail(p)[k] = s[k]
  BY <1>1, <1>2, <1>4
<1>6. Tail(p) = s
  BY <1>1, <1>2, <1>4, <1>5, SeqEqual
<1> QED
  BY <1>2, <1>3, <1>4, <1>6

\* So it does to the content of the queue what a publish does.
LEMMA PrependFacts ==
  ASSUME NEW s \in Seq(Task), NEW m \in Task
  PROVE  /\ <<m>> \o s \in Seq(Task)
         /\ \A x \in Task : Has(<<m>> \o s, x) <=> Has(s, x) \/ x = m
         /\ OneEach(s) /\ (\A x \in Task : Has(s, x) => x.id # m.id) => OneEach(<<m>> \o s)
<1> DEFINE p == <<m>> \o s
<1>1. p \in Seq(Task) /\ p # <<>> /\ Head(p) = m /\ Tail(p) = s
  BY PrependShape
<1>2. \A x \in Task : Has(p, x) <=> Has(s, x) \/ x = m
  BY <1>1, HeadFacts
<1>3. ASSUME OneEach(s), \A x \in Task : Has(s, x) => x.id # m.id
      PROVE  OneEach(p)
  <2>1. /\ Len(p) \in Nat /\ Len(s) = Len(p) - 1 /\ p[1] = m
        /\ \A k \in 1..Len(s) : s[k] = p[k + 1] /\ s[k] \in Task
    BY <1>1, HeadTailProperties, LenProperties, ElementOfSeq
  <2>2. \A k \in 1..Len(p) : k # 1 => k - 1 \in 1..Len(s) /\ p[k] = s[k - 1]
    <3> TAKE k \in 1..Len(p)
    <3> HAVE k # 1
    <3>1. k - 1 \in 1..Len(s) /\ (k - 1) + 1 = k
      BY <2>1
    <3> QED
      BY <2>1, <3>1
  <2>3. \A k \in 1..Len(s) : s[k].id # m.id
    BY <1>3, <2>1 DEF Has
  <2> SUFFICES ASSUME NEW j \in 1..Len(p), NEW k \in 1..Len(p), p[j].id = p[k].id
               PROVE  j = k
    BY DEF OneEach
  <2>4. CASE j = 1 \/ k = 1
    BY <2>1, <2>2, <2>3, <2>4
  <2>5. CASE j # 1 /\ k # 1
    <3>1. j - 1 = k - 1
      BY <1>3, <2>2, <2>5 DEF OneEach
    <3> QED
      BY <2>1, <3>1
  <2> QED
    BY <2>4, <2>5
<1> QED
  BY <1>1, <1>2, <1>3

\* A message that has c retries behind it has the tries from c to MaxRetries left.
LEMMA ColumnSize ==
  ASSUME NEW k, NEW c \in 0..MaxRetries
  PROVE  /\ IsFiniteSet({k} \X (c..MaxRetries))
         /\ Cardinality({k} \X (c..MaxRetries)) = Tries - c
<1>1. MaxRetries \in Nat
  BY BrokerAssumption
<1>2. IsFiniteSet(c..MaxRetries) /\ Cardinality(c..MaxRetries) = Tries - c
  BY <1>1, FS_Interval DEF Tries
<1> DEFINE T == {k} \X (c..MaxRetries)
           f == [r \in c..MaxRetries |-> <<k, r>>]
<1>3. f \in Bijection(c..MaxRetries, T)
  <2>1. f \in [c..MaxRetries -> T] /\ \A a, b \in c..MaxRetries : f[a] = f[b] => a = b
    OBVIOUS
  <2>2. \A d \in T : \E r \in c..MaxRetries : f[r] = d
    OBVIOUS
  <2> HIDE DEF f, T
  <2> QED
    BY <2>1, <2>2, Fun_IsBij
<1>4. ExistsBijection(c..MaxRetries, T)
  BY <1>3 DEF ExistsBijection
<1> QED
  BY <1>2, <1>4, FS_Bijection

\* A queue has finitely many tries left.
LEMMA CellsFinite ==
  ASSUME NEW s \in Seq(Task), NEW i
  PROVE  IsFiniteSet(Cells(s, i)) /\ Cardinality(Cells(s, i)) \in Nat
<1>1. Len(s) \in Nat /\ MaxRetries \in Nat
  BY LenProperties, BrokerAssumption
<1>2. IsFiniteSet(1..Len(s)) /\ IsFiniteSet(0..MaxRetries)
  BY <1>1, FS_Interval
<1>3. IsFiniteSet((1..Len(s)) \X (0..MaxRetries))
  BY <1>2, FS_Product
<1>4. Cells(s, i) \in SUBSET ((1..Len(s)) \X (0..MaxRetries))
  BY DEF Cells
<1>5. IsFiniteSet(Cells(s, i))
  BY <1>3, <1>4, FS_Subset
<1> QED
  BY <1>5, FS_CardinalityType

\* A publish adds the tries of its message.
LEMMA AppendCells ==
  ASSUME NEW s \in Seq(Task), NEW m \in Task, NEW i
  PROVE  Cardinality(Cells(Append(s, m), i)) =
           Cardinality(Cells(s, i)) + (IF m.id = i THEN Tries - m.retryCount ELSE 0)
<1> DEFINE n == Len(s) + 1
           new == {n} \X (m.retryCount..MaxRetries)
<1>1. /\ Append(s, m) \in Seq(Task) /\ Len(s) \in Nat
      /\ Len(Append(s, m)) = n /\ Append(s, m)[n] = m
      /\ \A k \in 1..Len(s) : Append(s, m)[k] = s[k]
  BY AppendProperties, LenProperties
<1>2. m.retryCount \in 0..MaxRetries /\ MaxRetries \in Nat
  BY BrokerAssumption DEF Task
<1>3. IsFiniteSet(Cells(s, i)) /\ Cardinality(Cells(s, i)) \in Nat
  BY CellsFinite
<1>4. CASE m.id = i
  <2>1. Cells(Append(s, m), i) = Cells(s, i) \cup new
    BY <1>1, <1>2, <1>4 DEF Cells
  <2>2. Cells(s, i) \cap new = {}
    BY <1>1 DEF Cells
  <2>3. IsFiniteSet(new) /\ Cardinality(new) = Tries - m.retryCount
    BY <1>2, ColumnSize
  <2>4. Tries - m.retryCount \in Nat
    BY <1>2 DEF Tries
  <2> HIDE DEF new
  <2>5. Cardinality(Cells(s, i) \cup new)
          = Cardinality(Cells(s, i)) + Cardinality(new) - Cardinality({})
    BY <1>3, <2>2, <2>3, FS_Union
  <2> QED
    BY <1>3, <1>4, <2>1, <2>3, <2>4, <2>5, FS_EmptySet
<1>5. CASE m.id # i
  <2>1. Cells(Append(s, m), i) = Cells(s, i)
    BY <1>1, <1>5 DEF Cells
  <2> QED
    BY <1>3, <1>5, <2>1
<1> QED
  BY <1>4, <1>5

\* A delivery takes the tries of the head away.
LEMMA HeadCells ==
  ASSUME NEW s \in Seq(Task), s # <<>>, NEW i
  PROVE  Cardinality(Cells(s, i)) =
           Cardinality(Cells(Tail(s), i)) + (IF Head(s).id = i THEN Tries - Head(s).retryCount ELSE 0)
<1> DEFINE t == Tail(s)
           first == {1} \X (s[1].retryCount..MaxRetries)
           rest == {c \in Cells(s, i) : c[1] # 1}
           f == [c \in Cells(t, i) |-> <<c[1] + 1, c[2]>>]
<1>1. /\ Head(s) \in Task /\ t \in Seq(Task) /\ Len(s) \in Nat \ {0}
      /\ Len(t) = Len(s) - 1 /\ Head(s) = s[1]
      /\ \A k \in 1..Len(t) : t[k] = s[k + 1]
  BY HeadTailProperties, EmptySeq
<1>2. s[1].retryCount \in 0..MaxRetries /\ MaxRetries \in Nat
  BY <1>1, BrokerAssumption DEF Task
<1>3. IsFiniteSet(Cells(t, i)) /\ Cardinality(Cells(t, i)) \in Nat
  BY <1>1, CellsFinite
<1>4. f \in Bijection(Cells(t, i), rest)
  <2>1. ASSUME NEW c \in Cells(t, i) PROVE <<c[1] + 1, c[2]>> \in rest
    <3>1. /\ c[1] \in 1..Len(t) /\ c[2] \in 0..MaxRetries
          /\ t[c[1]].id = i /\ c[2] >= t[c[1]].retryCount
      BY DEF Cells
    <3>2. c[1] + 1 \in 1..Len(s) /\ c[1] + 1 # 1 /\ t[c[1]] = s[c[1] + 1]
      BY <1>1, <3>1
    <3> QED
      BY <3>1, <3>2 DEF Cells
  <2>2. f \in [Cells(t, i) -> rest]
    BY <2>1
  <2>3. ASSUME NEW a \in Cells(t, i), NEW b \in Cells(t, i), f[a] = f[b] PROVE a = b
    <3>1. a[1] + 1 = b[1] + 1 /\ a[2] = b[2]
      BY <2>3
    <3>2. a \in (1..Len(t)) \X (0..MaxRetries) /\ b \in (1..Len(t)) \X (0..MaxRetries)
      BY DEF Cells
    <3> QED
      BY <3>1, <3>2, <1>1
  <2>4. ASSUME NEW d \in rest PROVE \E c \in Cells(t, i) : f[c] = d
    <3>1. /\ d \in (1..Len(s)) \X (0..MaxRetries) /\ d[1] # 1
          /\ s[d[1]].id = i /\ d[2] >= s[d[1]].retryCount
      BY DEF Cells
    <3>2. d[1] - 1 \in 1..Len(t) /\ (d[1] - 1) + 1 = d[1] /\ d = <<d[1], d[2]>>
      BY <1>1, <3>1
    <3>3. t[d[1] - 1] = s[d[1]]
      BY <1>1, <3>2
    <3>4. <<d[1] - 1, d[2]>> \in Cells(t, i)
      BY <3>1, <3>2, <3>3 DEF Cells
    <3>5. f[<<d[1] - 1, d[2]>>] = d
      BY <3>2, <3>4
    <3> QED
      BY <3>4, <3>5
  <2> HIDE DEF f, rest
  <2> QED
    BY <2>2, <2>3, <2>4, Fun_IsBij
<1>5. IsFiniteSet(rest) /\ Cardinality(rest) = Cardinality(Cells(t, i))
  BY <1>3, <1>4, FS_Bijection DEF ExistsBijection
<1>6. CASE s[1].id = i
  <2>1. Cells(s, i) = rest \cup first
    BY <1>1, <1>2, <1>6 DEF Cells
  <2>2. rest \cap first = {}
    OBVIOUS
  <2>3. IsFiniteSet(first) /\ Cardinality(first) = Tries - s[1].retryCount
    BY <1>2, ColumnSize
  <2>4. Tries - s[1].retryCount \in Nat
    BY <1>2 DEF Tries
  <2> HIDE DEF first, rest
  <2>5. Cardinality(rest \cup first) = Cardinality(rest) + Cardinality(first) - Cardinality({})
    BY <1>5, <2>2, <2>3, FS_Union
  <2> QED
    BY <1>1, <1>3, <1>5, <1>6, <2>1, <2>3, <2>4, <2>5, FS_EmptySet
<1>7. CASE s[1].id # i
  <2>1. \A c \in Cells(s, i) : c[1] # 1
    BY <1>7 DEF Cells
  <2>2. Cells(s, i) = rest
    BY <2>1
  <2>3. Head(s).id # i
    BY <1>1, <1>7
  <2> HIDE DEF rest
  <2> QED
    BY <1>3, <1>5, <2>2, <2>3
<1> QED
  BY <1>6, <1>7

\* A requeue gives them back.
LEMMA PrependCells ==
  ASSUME NEW s \in Seq(Task), NEW m \in Task, NEW i
  PROVE  Cardinality(Cells(<<m>> \o s, i)) =
           Cardinality(Cells(s, i)) + (IF m.id = i THEN Tries - m.retryCount ELSE 0)
<1> DEFINE p == <<m>> \o s
<1>1. p \in Seq(Task) /\ p # <<>> /\ Head(p) = m /\ Tail(p) = s
  BY PrependShape
<1> HIDE DEF p
<1>2. Cardinality(Cells(p, i)) =
           Cardinality(Cells(Tail(p), i)) + (IF Head(p).id = i THEN Tries - Head(p).retryCount ELSE 0)
  BY <1>1, HeadCells
<1> QED
  BY <1>1, <1>2 DEF p

Others(q) == \A p \in Queues \ {q} : queue'[p] = queue[p]

\* What a publish or a requeue of m does to queue q, and what a delivery of m does.
Put(q, m) ==
  /\ QueuesOK' /\ lost' = lost /\ Others(q)
  /\ \A x \in Task : Has(queue'[q], x) <=> Has(queue[q], x) \/ x = m
  /\ OneEach(queue[q]) /\ (\A x \in Task : Has(queue[q], x) => x.id # m.id) => OneEach(queue'[q])
Got(q, m) ==
  /\ QueuesOK' /\ lost' = lost /\ Others(q) /\ m \in Task
  /\ \A x \in Task : Has(queue[q], x) <=> Has(queue'[q], x) \/ x = m
  /\ OneEach(queue[q]) => OneEach(queue'[q]) /\ \A x \in Task : Has(queue'[q], x) => x.id # m.id

TriesOf(m, i) == IF m.id = i THEN Tries - m.retryCount ELSE 0

\* Publishes and requeues add one message, and its tries.
LEMMA PutFacts ==
  ASSUME QueuesOK, NEW q \in Queues, NEW m \in Task, Enqueue(q, m) \/ Requeue(q, m)
  PROVE  Put(q, m) /\ \A i : Left(q, i)' = Left(q, i) + TriesOf(m, i)
<1>1. queue[q] \in Seq(Task) /\ DOMAIN queue = Queues
  BY DEF QueuesOK
<1>2. CASE Enqueue(q, m)
  <2>1. queue' = [queue EXCEPT ![q] = Append(queue[q], m)] /\ lost' = lost
    BY <1>2 DEF Enqueue
  <2>2. queue'[q] = Append(queue[q], m) /\ Others(q)
    BY <1>1, <2>1 DEF Others
  <2>3. QueuesOK'
    BY <1>1, <2>1, AppendFacts DEF QueuesOK
  <2>4. \A i : Left(q, i)' = Left(q, i) + TriesOf(m, i)
    BY <1>1, <2>2, AppendCells DEF Left, TriesOf
  <2> QED
    BY <1>1, <2>1, <2>2, <2>3, <2>4, AppendFacts DEF Put
<1>3. CASE Requeue(q, m)
  <2>1. queue' = [queue EXCEPT ![q] = <<m>> \o queue[q]] /\ lost' = lost
    BY <1>3 DEF Requeue
  <2>2. queue'[q] = <<m>> \o queue[q] /\ Others(q)
    BY <1>1, <2>1 DEF Others
  <2>3. QueuesOK'
    BY <1>1, <2>1, PrependFacts DEF QueuesOK
  <2>4. \A i : Left(q, i)' = Left(q, i) + TriesOf(m, i)
    BY <1>1, <2>2, PrependCells DEF Left, TriesOf
  <2> QED
    BY <1>1, <2>1, <2>2, <2>3, <2>4, PrependFacts DEF Put
<1> QED
  BY <1>2, <1>3

\* A delivery takes one message away, and its tries.
LEMMA GotFacts ==
  ASSUME QueuesOK, NEW q \in Queues, NEW m, Take(q, m)
  PROVE  Got(q, m) /\ \A i : Left(q, i) = Left(q, i)' + TriesOf(m, i)
<1>1. queue[q] \in Seq(Task) /\ DOMAIN queue = Queues /\ queue[q] # <<>> /\ m = Head(queue[q])
  BY DEF QueuesOK, Take
<1>2. queue' = [queue EXCEPT ![q] = Tail(queue[q])] /\ lost' = lost
  BY DEF Take
<1>3. queue'[q] = Tail(queue[q]) /\ Others(q)
  BY <1>1, <1>2 DEF Others
<1>4. m \in Task /\ Tail(queue[q]) \in Seq(Task)
  BY <1>1, HeadFacts
<1>5. QueuesOK'
  BY <1>1, <1>2, <1>4 DEF QueuesOK
<1>6. \A i : Left(q, i) = Left(q, i)' + TriesOf(m, i)
  BY <1>1, <1>3, HeadCells DEF Left, TriesOf
<1> QED
  BY <1>1, <1>2, <1>3, <1>4, <1>5, <1>6, HeadFacts DEF Got

\* The end of a TTL moves the head of email.retry to the end of email.
LEMMA ExpiryFacts ==
  ASSUME QueuesOK, RetryExpires
  PROVE  /\ QueuesOK'
         /\ \A q \in Queues \ TryQueues : queue'[q] = queue[q]
         /\ \E m \in Task :
              /\ \A x \in Task :
                   /\ Has(queue["email.retry"], x) <=> Has(queue'["email.retry"], x) \/ x = m
                   /\ Has(queue'["email"], x) <=> Has(queue["email"], x) \/ x = m
              /\ OneEach(queue["email.retry"]) =>
                   /\ OneEach(queue'["email.retry"])
                   /\ \A x \in Task : Has(queue'["email.retry"], x) => x.id # m.id
              /\ OneEach(queue["email"]) /\ (\A x \in Task : Has(queue["email"], x) => x.id # m.id)
                   => OneEach(queue'["email"])
              /\ \A i : /\ Left("email.retry", i) = Left("email.retry", i)' + TriesOf(m, i)
                        /\ Left("email", i)' = Left("email", i) + TriesOf(m, i)
<1> DEFINE e == queue["email"]  r == queue["email.retry"]  m == Head(r)
<1>1. /\ e \in Seq(Task) /\ r \in Seq(Task) /\ DOMAIN queue = Queues /\ r # <<>>
      /\ {"email", "email.retry"} \subseteq Queues
  BY DEF QueuesOK, RetryExpires, Queues
<1>2. queue' = [queue EXCEPT !["email.retry"] = Tail(r), !["email"] = Append(e, m)]
  BY <1>1 DEF RetryExpires
<1>3. /\ queue'["email"] = Append(e, m) /\ queue'["email.retry"] = Tail(r)
      /\ \A q \in Queues \ TryQueues : queue'[q] = queue[q]
  BY <1>1, <1>2 DEF TryQueues
<1>4. m \in Task /\ Tail(r) \in Seq(Task)
  BY <1>1, HeadFacts
<1>5. Append(e, m) \in Seq(Task)
  BY <1>1, <1>4, AppendFacts
<1>6. QueuesOK'
  BY <1>1, <1>2, <1>4, <1>5 DEF QueuesOK
<1>7. ASSUME NEW i
      PROVE  /\ Left("email.retry", i) = Left("email.retry", i)' + TriesOf(m, i)
             /\ Left("email", i)' = Left("email", i) + TriesOf(m, i)
  BY <1>1, <1>3, <1>4, HeadCells, AppendCells DEF Left, TriesOf
<1> HIDE DEF m
<1>8. \A x \in Task : /\ Has(r, x) <=> Has(queue'["email.retry"], x) \/ x = m
                      /\ Has(queue'["email"], x) <=> Has(e, x) \/ x = m
  BY <1>1, <1>3, <1>4, HeadFacts, AppendFacts DEF m
<1>9. /\ OneEach(r) => /\ OneEach(queue'["email.retry"])
                       /\ \A x \in Task : Has(queue'["email.retry"], x) => x.id # m.id
      /\ OneEach(e) /\ (\A x \in Task : Has(e, x) => x.id # m.id) => OneEach(queue'["email"])
  BY <1>1, <1>3, <1>4, HeadFacts, AppendFacts DEF m
<1> QED
  BY <1>3, <1>4, <1>6, <1>7, <1>8, <1>9

-----------------------------------------------------------------------------
(* Types *)

\* A worker that is not idle holds a message; IDs and counts are in range.
LEMMA WorkerFacts ==
  ASSUME ConsumersOK, worker.step # "idle"
  PROVE  /\ worker \in [step : {"send", "sent", "failed", "ack", "reject"}, task : Task]
         /\ task \in Task /\ task.id \in Ids /\ task.retryCount \in 0..MaxRetries
         /\ \A s \in {"send", "sent", "failed", "ack", "reject"} :
              Goto(s) => /\ worker' \in [step : {"send", "sent", "failed", "ack", "reject"}, task : Task]
                         /\ worker'.step = s /\ task' = task
<1>1. worker # Idle
  BY DEF Idle
<1>2. worker \in [step : {"send", "sent", "failed", "ack", "reject"}, task : Task]
  BY <1>1 DEF ConsumersOK
<1> QED
  BY <1>2 DEF task, Task, Goto

\* What an attempt passes on is a message again, and so is a replay's.
LEMMA NewTasks ==
  /\ \A m \in Task : RetriesLeft(m) =>
       /\ NextAttempt(m) \in Task /\ NextAttempt(m).id = m.id
       /\ NextAttempt(m).retryCount = m.retryCount + 1
  /\ \A i \in Ids : Fresh(i) \in Task /\ Fresh(i).id = i /\ Fresh(i).retryCount = 0
  BY BrokerAssumption DEF Task, RetriesLeft, NextAttempt, Fresh

\* Every queue stays a sequence of messages.
LEMMA QueuesStep ==
  ASSUME TypeOK, [Next]_vars
  PROVE  QueuesOK'
<1> USE DEF shared, TypeOK
<1>1. QueuesOK /\ ConsumersOK
  OBVIOUS
<1>2. ASSUME NEW q \in Queues, NEW m \in Task, Enqueue(q, m) \/ Requeue(q, m) PROVE QueuesOK'
  BY <1>1, <1>2, PutFacts DEF Put
<1>3. ASSUME NEW q \in Queues, NEW m, Take(q, m) PROVE QueuesOK'
  BY <1>1, <1>3, GotFacts DEF Got
<1>4. CASE UNCHANGED queue
  BY <1>1, <1>4 DEF QueuesOK
<1>5. {"email", "email.retry", "email.dlq", "webhook_mailpit"} \subseteq Queues
  BY DEF Queues
<1>6. ASSUME NEW i \in Ids, HandOver(i) PROVE QueuesOK'
  BY <1>2, <1>5, <1>6, NewTasks DEF HandOver
<1>7. CASE WorkerNext
  <2>1. CASE Receive
    BY <1>3, <1>5, <2>1 DEF Receive
  <2>2. CASE CircuitOpen
    BY <1>1, <1>2, <1>5, <2>2, WorkerFacts DEF CircuitOpen, At
  <2>3. CASE Retry
    BY <1>1, <1>2, <1>4, <1>5, <2>3, WorkerFacts, NewTasks DEF Retry, At, PublishDropped
  <2>4. CASE RejectToDLQ
    BY <1>1, <1>2, <1>5, <2>4, WorkerFacts DEF RejectToDLQ, At
  <2>5. CASE CrashWorker
    BY <1>1, <1>2, <1>4, <1>5, <2>5, WorkerFacts DEF CrashWorker, At
  <2>6. CASE RetryExpires
    BY <1>1, <2>6, ExpiryFacts
  <2>7. CASE \/ CircuitHalfOpens \/ StartSend \/ SendOk \/ SendFails \/ MarkDelivering \/ MarkFailed
             \/ Ack \/ OtherCall \/ OtherReturns \/ Time \/ SmtpChanges
    BY <1>4, <2>7 DEF CircuitHalfOpens, StartSend, SendOk, SendFails, MarkDelivering,
       MarkFailed, Ack, OtherCall, OtherReturns, Time, SmtpChanges
  <2> QED
    BY <1>7, <2>1, <2>2, <2>3, <2>4, <2>5, <2>6, <2>7 DEF WorkerNext, HandleMessage
<1>8. CASE WebhookNext
  <2>1. ASSUME NEW i \in Ids, PostWebhook(i) PROVE QueuesOK'
    <3>1. [id |-> i, retryCount |-> 0] \in Task
      BY NewTasks DEF Fresh
    <3> QED
      BY <1>2, <1>4, <1>5, <2>1, <3>1 DEF PostWebhook
  <2>2. CASE HandleWebhook
    BY <1>3, <1>5, <2>2 DEF HandleWebhook
  <2>3. CASE AckWebhook
    BY <1>4, <2>3 DEF AckWebhook
  <2>4. CASE CrashWebhook
    BY <1>1, <1>2, <1>5, <2>4 DEF CrashWebhook, ConsumersOK
  <2> QED
    BY <1>8, <2>1, <2>2, <2>3, <2>4 DEF WebhookNext, WebhookWork
<1>9. CASE DeadNext
  <2>1. CASE SaveToDLQ
    BY <1>3, <1>5, <2>1 DEF SaveToDLQ
  <2>2. CASE AckDead
    BY <1>4, <2>2 DEF AckDead
  <2>3. CASE CrashDead
    BY <1>1, <1>2, <1>5, <2>3 DEF CrashDead, ConsumersOK
  <2>4. ASSUME NEW a \in Admins, PublishReplay(a) PROVE QueuesOK'
    <3>1. IdOf(a) \in Ids
      <4>1. RowOf(a) \in 1..Len(rows)
        BY <2>4 DEF PublishReplay, AdminsOK, RowOf
      <4>2. rows[RowOf(a)] \in [id : Ids, status : {"pending", "replayed"}]
        BY <4>1, ElementOfSeq DEF RowsOK
      <4> QED
        BY <4>2 DEF IdOf
    <3> QED
      BY <1>2, <1>4, <1>5, <2>4, <3>1, NewTasks DEF PublishReplay, PublishDropped
  <2>5. ASSUME NEW a \in Admins, LoadRow(a) \/ MarkReplayed(a) \/ ResetStatus(a) \/ CrashApi(a)
        PROVE  QueuesOK'
    BY <1>4, <2>5 DEF LoadRow, MarkReplayed, ResetStatus, CrashApi
  <2> QED
    BY <1>9, <2>1, <2>2, <2>3, <2>4, <2>5 DEF DeadNext, DeadWork, Replay
<1>10. CASE UNCHANGED vars
  BY <1>4, <1>10 DEF vars
<1> QED
  BY <1>6, <1>7, <1>8, <1>9, <1>10 DEF Next

\* What the steps of the breaker do to where its callers are.
LEMMA BreakerFacts ==
  ASSUME NEW c
  PROVE  /\ B!Call(c) => pc' = [pc EXCEPT ![c] = "waiting"]
         /\ B!Begin(c) => pc[c] = "waiting" /\ pc' = [pc EXCEPT ![c] = "running"]
         /\ B!Reject(c) \/ B!HalfOpen(c) => pc[c] = "waiting" /\ pc' = [pc EXCEPT ![c] = "idle"]
         /\ B!EndOk(c) \/ B!EndFailed(c) => pc[c] = "running" /\ pc' = [pc EXCEPT ![c] = "idle"]
         /\ B!Tick \/ B!SmtpChanges => pc' = pc
  BY DEF B!Call, B!Begin, B!Reject, B!HalfOpen, B!EndOk, B!EndFailed, B!Return, B!Tick, B!SmtpChanges

\* Workers hold messages they took, and callers are somewhere in Execute.
LEMMA ConsumersStep ==
  ASSUME TypeOK, [Next]_vars
  PROVE  ConsumersOK'
<1> DEFINE W == [step : {"send", "sent", "failed", "ack", "reject"}, task : Task]
           P == [Callers -> {"idle", "waiting", "running"}]
<1>1. /\ QueuesOK /\ ConsumersOK /\ Email \in Callers /\ OtherCallers \subseteq Callers
      /\ {"email", "email.dlq", "webhook_mailpit"} \subseteq Queues
  BY DEF TypeOK, Callers, Queues
<1>2. pc \in P /\ \A c \in Callers, s \in {"idle", "waiting", "running"} : [pc EXCEPT ![c] = s] \in P
  BY <1>1 DEF ConsumersOK
<1>3. CASE UNCHANGED <<worker, pc, hook, held>>
  BY <1>1, <1>3 DEF ConsumersOK, Idle
<1>4. ASSUME NEW i \in Ids, HandOver(i) PROVE ConsumersOK'
  BY <1>3, <1>4 DEF HandOver, workerVars, webhookVars, deadVars, breaker
<1>5. CASE WorkerNext /\ UNCHANGED <<webhookVars, deadVars, arrived>>
  <2> SUFFICES (worker' = Idle \/ worker' \in W) /\ pc' \in P
    BY <1>1, <1>5 DEF ConsumersOK, webhookVars, deadVars, Idle
  <2> USE DEF workerVars, workerHistory, breaker
  <2>1. CASE Receive
    <3>1. PICK m \in Task : worker' = [step |-> "send", task |-> m] /\ B!Call(Email)
      BY <2>1 DEF Receive
    <3> QED
      BY <1>1, <1>2, <3>1, BreakerFacts
  <2>2. CASE CircuitOpen
    BY <1>1, <1>2, <2>2, BreakerFacts DEF CircuitOpen, Done
  <2>3. CASE CircuitHalfOpens
    BY <1>1, <1>2, <2>3, BreakerFacts, WorkerFacts DEF CircuitHalfOpens, At
  <2>4. CASE StartSend
    BY <1>1, <1>2, <2>4, BreakerFacts DEF StartSend, ConsumersOK
  <2>5. CASE SendOk
    BY <1>1, <1>2, <2>5, BreakerFacts, WorkerFacts DEF SendOk, At
  <2>6. CASE SendFails
    BY <1>1, <1>2, <2>6, BreakerFacts, WorkerFacts DEF SendFails, At
  <2>7. CASE MarkDelivering
    BY <1>1, <1>2, <2>7, WorkerFacts DEF MarkDelivering, At
  <2>8. CASE Retry
    BY <1>1, <1>2, <2>8, WorkerFacts DEF Retry, At, Done
  <2>9. CASE MarkFailed
    BY <1>1, <1>2, <2>9, WorkerFacts DEF MarkFailed, At
  <2>10. CASE Ack \/ RejectToDLQ
    BY <1>1, <1>2, <2>10 DEF Ack, RejectToDLQ, Done
  <2>11. CASE CrashWorker
    BY <1>1, <2>11 DEF CrashWorker, Done
  <2>12. CASE RetryExpires
    BY <1>1, <2>12 DEF RetryExpires, ConsumersOK
  <2>13. CASE OtherCall \/ OtherReturns
    BY <1>1, <1>2, <2>13, BreakerFacts DEF OtherCall, OtherReturns, ConsumersOK, B!Acquire, B!End
  <2>14. CASE Time \/ SmtpChanges
    BY <1>1, <2>14, BreakerFacts DEF Time, SmtpChanges, ConsumersOK
  <2> QED
    BY <1>5, <2>1, <2>2, <2>3, <2>4, <2>5, <2>6, <2>7, <2>8, <2>9, <2>10, <2>11, <2>12, <2>13,
       <2>14 DEF WorkerNext, HandleMessage
<1>6. CASE WebhookNext /\ UNCHANGED <<workerVars, deadVars, arrived>>
  <2> SUFFICES hook' \in Task \cup {NoHook}
    BY <1>1, <1>6 DEF ConsumersOK, workerVars, breaker, deadVars, Idle
  <2>1. ASSUME NEW i \in Ids, PostWebhook(i) PROVE hook' = hook
    BY <2>1 DEF PostWebhook
  <2> QED
    BY <1>1, <1>6, <2>1 DEF WebhookNext, WebhookWork, HandleWebhook, AckWebhook, CrashWebhook, ConsumersOK
<1>7. CASE DeadNext /\ UNCHANGED <<workerVars, webhookVars, arrived>>
  <2> SUFFICES held' \in Task \cup {NoHeld}
    BY <1>1, <1>7 DEF ConsumersOK, workerVars, breaker, webhookVars, Idle
  <2>1. ASSUME NEW a \in Admins, LoadRow(a) \/ Replay(a) \/ CrashApi(a) PROVE held' = held
    BY <2>1 DEF LoadRow, Replay, PublishReplay, MarkReplayed, ResetStatus, CrashApi
  <2> QED
    BY <1>1, <1>7, <2>1 DEF DeadNext, DeadWork, SaveToDLQ, AckDead, CrashDead, ConsumersOK
<1>8. CASE UNCHANGED vars
  BY <1>3, <1>8 DEF vars, workerVars, breaker, webhookVars, deadVars
<1> QED
  BY <1>4, <1>5, <1>6, <1>7, <1>8 DEF Next

RowSet == [id : Ids, status : {"pending", "replayed"}]

\* Rows are appended and marked; their number only grows and their IDs stay.
LEMMA RowsStep ==
  ASSUME TypeOK, [Next]_vars
  PROVE  /\ RowsOK' /\ Len(rows) \in Nat /\ Len(rows') \in Nat
         /\ \A k \in 1..Len(rows) : k \in 1..Len(rows') /\ rows'[k].id = rows[k].id
         /\ \/ rows' = rows
            \/ Len(rows') = Len(rows) /\ republished' = republished
            \/ SaveToDLQ /\ Len(rows') = Len(rows) + 1
<1>1. /\ rows \in Seq(RowSet) /\ republished \in Seq(Nat) /\ Len(republished) = Len(rows)
      /\ Len(rows) \in Nat
  BY LenProperties DEF TypeOK, RowsOK, RowSet
<1>2. ASSUME rows' = rows, republished' = republished
      PROVE  RowsOK' /\ Len(rows') \in Nat /\ \A k \in 1..Len(rows) : k \in 1..Len(rows')
  BY <1>1, <1>2 DEF RowsOK, RowSet
<1>3. CASE SaveToDLQ
  <2>1. PICK m \in Task : /\ rows' = Append(rows, [id |-> m.id, status |-> "pending"])
                          /\ republished' = Append(republished, 0)
    BY <1>3 DEF SaveToDLQ
  <2>2. [id |-> m.id, status |-> "pending"] \in RowSet
    BY DEF Task, RowSet
  <2>3. /\ rows' \in Seq(RowSet) /\ Len(rows') = Len(rows) + 1
        /\ \A k \in 1..Len(rows) : rows'[k] = rows[k]
    BY <1>1, <2>1, <2>2, AppendProperties
  <2>4. republished' \in Seq(Nat) /\ Len(republished') = Len(republished) + 1
    BY <1>1, <2>1, AppendProperties
  <2> QED
    BY <1>1, <1>3, <2>3, <2>4 DEF RowsOK, RowSet
<1>4. ASSUME NEW a \in Admins, PublishReplay(a) PROVE RowsOK' /\ rows' = rows
  <2>1. RowOf(a) \in 1..Len(republished)
    BY <1>1, <1>4 DEF PublishReplay, RowOf, TypeOK, AdminsOK
  <2>2. republished[RowOf(a)] \in Nat
    BY <1>1, <2>1, ElementOfSeq
  <2>3. \/ republished' = [republished EXCEPT ![RowOf(a)] = republished[RowOf(a)] + 1]
        \/ republished' = republished
    BY <1>4 DEF PublishReplay
  <2>4. republished[RowOf(a)] + 1 \in Nat
    BY <2>2
  <2>5. republished' \in Seq(Nat) /\ Len(republished') = Len(republished)
    BY <1>1, <2>1, <2>3, <2>4, ExceptSeq
  <2>6. rows' = rows
    BY <1>4 DEF PublishReplay
  <2> QED
    BY <1>1, <2>5, <2>6 DEF RowsOK, RowSet
<1>5. ASSUME NEW a \in Admins, MarkReplayed(a)
      PROVE  /\ RowsOK' /\ republished' = republished /\ Len(rows') = Len(rows)
             /\ \A k \in 1..Len(rows) : rows'[k].id = rows[k].id
  <2>1. RowOf(a) \in 1..Len(rows)
    BY <1>5 DEF MarkReplayed, RowOf, TypeOK, AdminsOK
  <2> DEFINE r == [rows[RowOf(a)] EXCEPT !.status = "replayed"]
  <2>2. rows[RowOf(a)] \in RowSet
    BY <1>1, <2>1, ElementOfSeq
  <2>3. r \in RowSet /\ r.id = rows[RowOf(a)].id
    BY <2>2 DEF RowSet
  <2>4. rows' = [rows EXCEPT ![RowOf(a)] = r] \/ rows' = rows
    BY <1>5 DEF MarkReplayed
  <2> HIDE DEF r
  <2>5. /\ rows' \in Seq(RowSet) /\ Len(rows') = Len(rows)
        /\ \A k \in 1..Len(rows) : rows'[k].id = rows[k].id
    <3>1. CASE rows' = rows
      BY <1>1, <3>1
    <3>2. CASE rows' = [rows EXCEPT ![RowOf(a)] = r]
      BY <1>1, <2>1, <2>3, <3>2, ExceptSeq
    <3> QED
      BY <2>4, <3>1, <3>2
  <2>6. republished' = republished
    BY <1>5 DEF MarkReplayed
  <2> QED
    BY <1>1, <2>5, <2>6 DEF RowsOK, RowSet
<1>6. ASSUME NEW a \in Admins, LoadRow(a) \/ ResetStatus(a) \/ CrashApi(a)
      PROVE  rows' = rows /\ republished' = republished
  BY <1>6 DEF LoadRow, ResetStatus, CrashApi
<1>7. ASSUME AckDead \/ CrashDead PROVE rows' = rows /\ republished' = republished
  BY <1>7 DEF AckDead, CrashDead
<1>8. CASE DeadNext
  <2>1. CASE \E a \in Admins : LoadRow(a) \/ Replay(a) \/ CrashApi(a)
    <3>1. PICK a \in Admins : LoadRow(a) \/ Replay(a) \/ CrashApi(a)
      BY <2>1
    <3>2. CASE PublishReplay(a)
      BY <1>1, <1>4, <3>2
    <3>3. CASE MarkReplayed(a)
      BY <1>1, <1>5, <3>3
    <3>4. CASE LoadRow(a) \/ ResetStatus(a) \/ CrashApi(a)
      BY <1>1, <1>2, <1>6, <3>4
    <3> QED
      BY <3>1, <3>2, <3>3, <3>4 DEF Replay
  <2>2. CASE AckDead \/ CrashDead
    BY <1>1, <1>2, <1>7, <2>2
  <2>3. CASE SaveToDLQ
    BY <1>1, <1>3, <2>3
  <2> QED
    BY <1>8, <2>1, <2>2, <2>3 DEF DeadNext, DeadWork
<1>9. CASE UNCHANGED deadVars
  BY <1>1, <1>2, <1>9 DEF deadVars
<1> QED
  BY <1>8, <1>9 DEF Next, HandOver, vars

\* A request works on the row it loaded.
LEMMA AdminsStep ==
  ASSUME TypeOK, [Next]_vars
  PROVE  AdminsOK'
<1>1. /\ AdminsOK /\ replays \in Nat /\ Len(rows) \in Nat /\ DOMAIN rows = 1..Len(rows)
  BY LenProperties DEF TypeOK, TablesOK, RowsOK
<1>2. Len(rows') \in Nat /\ \A k \in 1..Len(rows) : k \in 1..Len(rows')
  BY RowsStep
<1>3. CASE admin' = admin /\ replays' = replays
  BY <1>1, <1>2, <1>3 DEF AdminsOK
<1>4. ASSUME NEW a \in Admins, LoadRow(a) PROVE AdminsOK'
  <2>1. PICK k \in 1..Len(rows) :
          /\ admin' = [admin EXCEPT ![a] = [step |-> "publish", row |-> k]]
          /\ replays' = replays + 1
    BY <1>1, <1>4 DEF LoadRow
  <2> QED
    BY <1>1, <1>2, <2>1 DEF AdminsOK
<1>5. ASSUME NEW a \in Admins, Finish(a), replays' = replays PROVE AdminsOK'
  BY <1>1, <1>2, <1>5 DEF AdminsOK, Finish, NoRequest
<1>6. ASSUME NEW a \in Admins, NEW s \in {"mark", "reset"}, Step(a, s), admin[a].step # "idle",
             replays' = replays
      PROVE  AdminsOK'
  BY <1>1, <1>2, <1>6 DEF AdminsOK, Step
<1>7. ASSUME NEW a \in Admins, Replay(a) \/ CrashApi(a) PROVE AdminsOK'
  <2>1. replays' = replays
    BY <1>7 DEF Replay, PublishReplay, MarkReplayed, ResetStatus, CrashApi
  <2> QED
    BY <1>5, <1>6, <1>7, <2>1 DEF Replay, PublishReplay, MarkReplayed, ResetStatus, CrashApi
<1>8. CASE DeadNext
  BY <1>3, <1>4, <1>7, <1>8 DEF DeadNext, DeadWork, SaveToDLQ, AckDead, CrashDead
<1>9. CASE UNCHANGED deadVars
  BY <1>3, <1>9 DEF deadVars
<1> QED
  BY <1>8, <1>9 DEF Next, HandOver, vars

\* The row of a request that has begun names a notification.
LEMMA AdminFacts ==
  ASSUME TypeOK, NEW a \in Admins, admin[a].step # "idle"
  PROVE  RowOf(a) \in 1..Len(rows) /\ rows[RowOf(a)] \in RowSet /\ IdOf(a) \in Ids
<1>1. RowOf(a) \in 1..Len(rows) /\ rows \in Seq(RowSet)
  BY DEF TypeOK, AdminsOK, RowsOK, RowOf, RowSet
<1>2. rows[RowOf(a)] \in RowSet
  BY <1>1, ElementOfSeq
<1> QED
  BY <1>1, <1>2 DEF IdOf, RowSet

Grows ==
  /\ \A i \in Ids : mails'[i] >= mails[i] /\ attempts'[i] >= attempts[i]
  /\ lost \subseteq lost' /\ swallowed \subseteq swallowed' /\ arrived \subseteq arrived'
  /\ faults' >= faults /\ replays' >= replays

\* The columns keep their ranges, and what happened is never forgotten.
LEMMA TablesStep ==
  ASSUME TypeOK, [Next]_vars
  PROVE  TablesOK' /\ Grows
<1> USE DEF shared, workerHistory
<1>1. TablesOK /\ ConsumersOK /\ QueuesOK
  BY DEF TypeOK
<1>2. ASSUME UNCHANGED <<status, mails, posted, attempts, swallowed, arrived, replays>>,
             lost \subseteq lost' /\ lost' \subseteq Ids,
             faults' = faults \/ faults' = faults + 1
      PROVE  TablesOK' /\ Grows
  BY <1>1, <1>2 DEF TablesOK, Grows
<1>3. ASSUME NEW i \in Ids, NEW s \in {"pending", "delivering", "sent", "failed"},
             status' = status \/ UpdateDeliveryStatus(i, s),
             UNCHANGED <<mails, posted, attempts, swallowed, lost, replays>>,
             arrived' = arrived \/ arrived' = arrived \cup {i},
             faults' = faults \/ faults' = faults + 1
      PROVE  TablesOK' /\ Grows
  BY <1>1, <1>3 DEF TablesOK, Grows, UpdateDeliveryStatus
<1>4. ASSUME NEW i, mails' = mails \/ mails' = [mails EXCEPT ![i] = mails[i] + 1],
             UNCHANGED <<status, posted, attempts, swallowed, arrived, lost, replays>>,
             faults' = faults \/ faults' = faults + 1
      PROVE  TablesOK' /\ Grows
  BY <1>1, <1>4 DEF TablesOK, Grows
<1>5. ASSUME NEW i \in Ids, HandOver(i) PROVE TablesOK' /\ Grows
  BY <1>3, <1>5 DEF HandOver, Enqueue, UpdateDeliveryStatus, workerVars, webhookVars, deadVars, breaker
<1>6. CASE WorkerNext /\ UNCHANGED <<webhookVars, deadVars, arrived>>
  <2> USE <1>6 DEF webhookVars, deadVars, Fault, NoFault, workerVars
  <2>1. CASE Receive
    BY <1>1, <1>2, <2>1 DEF Receive, Take, TablesOK
  <2>2. CASE CircuitOpen
    BY <1>1, <1>2, <2>2 DEF CircuitOpen, Requeue, TablesOK
  <2>3. CASE CircuitHalfOpens
    <3>1. swallowed' = swallowed \cup {task.id} /\ task.id \in Ids
      BY <1>1, <2>3, WorkerFacts DEF CircuitHalfOpens, At
    <3> QED
      BY <1>1, <2>3, <3>1 DEF CircuitHalfOpens, TablesOK, Grows
  <2>4. CASE StartSend
    <3>1. attempts' = [attempts EXCEPT ![task.id] = attempts[task.id] + 1] /\ task.id \in Ids
      BY <1>1, <2>4, WorkerFacts DEF StartSend, At
    <3> QED
      BY <1>1, <2>4, <3>1 DEF StartSend, TablesOK, Grows
  <2>5. CASE SendOk \/ SendFails
    BY <1>4, <2>5 DEF SendOk, SendFails
  <2>6. CASE MarkDelivering \/ MarkFailed
    <3>1. task.id \in Ids
      BY <1>1, <2>6, WorkerFacts DEF MarkDelivering, MarkFailed, At
    <3> QED
      BY <1>3, <2>6, <3>1 DEF MarkDelivering, MarkFailed
  <2>7. CASE Retry
    <3>1. task.id \in Ids
      BY <1>1, <2>7, WorkerFacts DEF Retry, At
    <3> QED
      BY <1>1, <1>2, <2>7, <3>1 DEF Retry, Enqueue, Requeue, PublishDropped, TablesOK
  <2>8. CASE Ack \/ RejectToDLQ \/ RetryExpires
    BY <1>1, <1>2, <2>8 DEF Ack, RejectToDLQ, RetryExpires, Enqueue, TablesOK
  <2>9. CASE CrashWorker
    BY <1>4, <2>9 DEF CrashWorker, Requeue
  <2>10. CASE OtherCall \/ OtherReturns \/ Time \/ SmtpChanges
    BY <1>1, <1>2, <2>10 DEF OtherCall, OtherReturns, Time, SmtpChanges, TablesOK
  <2> QED
    BY <1>6, <2>1, <2>2, <2>3, <2>4, <2>5, <2>6, <2>7, <2>8, <2>9, <2>10 DEF WorkerNext, HandleMessage
<1>7. CASE WebhookNext /\ UNCHANGED <<workerVars, deadVars, arrived>>
  <2> USE <1>7 DEF workerVars, deadVars, Fault, NoFault
  <2>1. ASSUME NEW i \in Ids, PostWebhook(i) PROVE TablesOK' /\ Grows
    <3>1. posted' = [posted EXCEPT ![i] = posted[i] + 1] /\ lost' = lost
      BY <2>1 DEF PostWebhook, Enqueue
    <3> QED
      BY <1>1, <2>1, <3>1 DEF PostWebhook, TablesOK, Grows
  <2>2. CASE HandleWebhook
    <3>1. PICK m \in Task : /\ UpdateDeliveryStatus(m.id, "sent") /\ lost' = lost
                            /\ UNCHANGED <<mails, posted, faults>>
      BY <2>2 DEF HandleWebhook, Take
    <3>2. m.id \in Ids
      BY DEF Task
    <3> QED
      BY <1>3, <3>1, <3>2
  <2>3. CASE AckWebhook \/ CrashWebhook
    BY <1>1, <1>2, <2>3 DEF AckWebhook, CrashWebhook, Requeue, TablesOK
  <2> QED
    BY <1>7, <2>1, <2>2, <2>3 DEF WebhookNext, WebhookWork
<1>8. CASE DeadNext /\ UNCHANGED <<workerVars, webhookVars, arrived>>
  <2> USE <1>8 DEF workerVars, webhookVars, Fault, NoFault
  <2>1. CASE SaveToDLQ \/ AckDead \/ CrashDead
    BY <1>1, <1>2, <2>1 DEF SaveToDLQ, AckDead, CrashDead, Take, Requeue, TablesOK
  <2>2. ASSUME NEW a \in Admins, LoadRow(a) PROVE TablesOK' /\ Grows
    BY <1>1, <2>2 DEF LoadRow, TablesOK, Grows
  <2>3. ASSUME NEW a \in Admins, PublishReplay(a) PROVE TablesOK' /\ Grows
    <3>1. IdOf(a) \in Ids
      BY <2>3, AdminFacts DEF PublishReplay
    <3>2. Fresh(IdOf(a)).id \in Ids
      BY <3>1, NewTasks
    <3>3. lost \subseteq lost' /\ lost' \subseteq Ids
      BY <1>1, <2>3, <3>2 DEF PublishReplay, Enqueue, PublishDropped, TablesOK
    <3>4. /\ UNCHANGED <<status, mails, replays>>
          /\ faults' = faults \/ faults' = faults + 1
      BY <2>3 DEF PublishReplay, PublishDropped
    <3> QED
      BY <1>2, <3>3, <3>4
  <2>4. ASSUME NEW a \in Admins, MarkReplayed(a) \/ CrashApi(a) PROVE TablesOK' /\ Grows
    BY <1>1, <1>2, <2>4 DEF MarkReplayed, CrashApi, TablesOK
  <2>5. ASSUME NEW a \in Admins, ResetStatus(a) PROVE TablesOK' /\ Grows
    <3>1. IdOf(a) \in Ids
      BY <2>5, AdminFacts DEF ResetStatus
    <3> QED
      BY <1>3, <2>5, <3>1 DEF ResetStatus
  <2> QED
    BY <1>8, <2>1, <2>2, <2>3, <2>4, <2>5 DEF DeadNext, DeadWork, Replay
<1>9. CASE UNCHANGED vars
  BY <1>1, <1>2, <1>9 DEF vars, workerVars, webhookVars, deadVars, TablesOK
<1> QED
  BY <1>5, <1>6, <1>7, <1>8, <1>9 DEF Next

\* TypeOK is inductive by itself.
LEMMA TypeStep == TypeOK /\ [Next]_vars => TypeOK'
  BY QueuesStep, TablesStep, ConsumersStep, RowsStep, AdminsStep DEF TypeOK

\* Everything starts empty.
LEMMA InitTypes == Init => TypeOK
<1> SUFFICES ASSUME Init PROVE TypeOK
  OBVIOUS
<1>1. QueuesOK
  BY EmptyFacts DEF Init, InitShared, QueuesOK
<1>2. TablesOK
  BY DEF Init, InitShared, InitWorker, InitWebhook, InitDead, TablesOK
<1>3. ConsumersOK
  BY DEF Init, InitWorker, InitWebhook, InitDead, B!Init, ConsumersOK
<1>4. rows = <<>> /\ republished = <<>>
  BY DEF Init, InitDead
<1>5. RowsOK
  BY <1>4 DEF RowsOK
<1>6. AdminsOK
  BY DEF Init, InitDead, NoRequest, AdminsOK
<1> QED
  BY <1>1, <1>2, <1>3, <1>5, <1>6 DEF TypeOK

\* The worker, the queues, the tables and the requests keep the types they have in
\* the code: a message is one of a notification and counts at most MaxRetries.
THEOREM TypesHold == Spec => []TypeOK
<1>1. Spec => []TypeOK
  BY InitTypes, TypeStep, PTL DEF Spec
<1> QED
  BY <1>1

-----------------------------------------------------------------------------
(* Where the copies are *)

\* Which notifications a queue holds after a publish or a requeue.
LEMMA PutHolds ==
  ASSUME NEW q \in Queues, NEW m \in Task, Put(q, m), NEW p \in Queues, NEW i
  PROVE  Holds(p, i)' <=> Holds(p, i) \/ (p = q /\ m.id = i)
  BY DEF Put, Others, Holds


\* The same for a delivery, which takes one away.
LEMMA GotHolds ==
  ASSUME NEW q \in Queues, NEW m, Got(q, m), NEW p \in Queues, NEW i
  PROVE  Holds(p, i) <=> Holds(p, i)' \/ (p = q /\ m.id = i)
  BY DEF Got, Others, Holds

\* An expiry only moves a copy.
LEMMA ExpiryHolds ==
  ASSUME QueuesOK, RetryExpires, NEW i
  PROVE  /\ (\E q \in TryQueues : Holds(q, i)) <=> (\E q \in TryQueues : Holds(q, i)')
         /\ \A q \in Queues \ TryQueues : Holds(q, i)' <=> Holds(q, i)
<1>1. PICK m \in Task : \A x \in Task :
        /\ Has(queue["email.retry"], x) <=> Has(queue'["email.retry"], x) \/ x = m
        /\ Has(queue'["email"], x) <=> Has(queue["email"], x) \/ x = m
  BY ExpiryFacts
<1>2. (\E q \in TryQueues : Holds(q, i)) <=> (\E q \in TryQueues : Holds(q, i)')
  BY <1>1 DEF Holds, TryQueues
<1>3. \A q \in Queues \ TryQueues : Holds(q, i)' <=> Holds(q, i)
  BY ExpiryFacts DEF Holds
<1> QED
  BY <1>2, <1>3

\* An outcome is for ever.
LEMMA SafeStays ==
  ASSUME TypeOK, [Next]_vars, NEW i \in Ids
  PROVE  (Safe(i) => Safe(i)') /\ Parked(i) \subseteq Parked(i)'
<1>1. Parked(i) \subseteq Parked(i)'
  <2>1. /\ DOMAIN rows = 1..Len(rows) /\ DOMAIN rows' = 1..Len(rows')
        /\ \A k \in 1..Len(rows) : k \in 1..Len(rows') /\ rows'[k].id = rows[k].id
    <3>1. RowsOK /\ RowsOK'
      BY RowsStep DEF TypeOK
    <3> QED
      BY <3>1, RowsStep, LenProperties DEF RowsOK
  <2> QED
    BY <2>1 DEF Parked
<1>2. mails'[i] >= mails[i] /\ mails[i] \in Nat /\ mails'[i] \in Nat
  BY TablesStep DEF Grows, TypeOK, TablesOK
<1>3. lost \subseteq lost' /\ swallowed \subseteq swallowed'
  BY TablesStep DEF Grows
<1> QED
  BY <1>1, <1>2, <1>3 DEF Safe

\* HandleMessage acknowledges only what it published on, stored or sent, and whatever
\* dies in between gives its copy back.
LEMMA CopyIsKeptStep ==
  ASSUME TypeOK, CopyIsKept, [Next]_vars
  PROVE  CopyIsKept'
<1> DEFINE Kept(i) == Copied(i) \/ InHand(i, {"send", "failed", "reject"})
<1>1. QueuesOK /\ ConsumersOK /\ arrived \subseteq Ids /\ arrived' \subseteq Ids
  BY TablesStep DEF TypeOK, TablesOK
<1>2. \A i \in arrived : Safe(i) \/ Kept(i)
  BY DEF CopyIsKept, Copied
<1>3. \A i \in Ids : Safe(i) => Safe(i)'
  BY SafeStays
<1> SUFFICES ASSUME NEW i \in arrived', ~Safe(i)' PROVE Kept(i)'
  BY DEF CopyIsKept, Copied
<1>4. i \in Ids /\ ~Safe(i) /\ (i \in arrived => Kept(i))
  BY <1>1, <1>2, <1>3
<1>5. MailQueues \subseteq Queues /\ {"email", "email.retry", "email.dlq"} \subseteq MailQueues
      /\ "webhook_mailpit" \in Queues \ MailQueues
  BY DEF Queues, MailQueues, TryQueues
<1>6. ASSUME NEW q \in Queues, NEW m \in Task, Enqueue(q, m) \/ Requeue(q, m)
      PROVE  Copied(i)' <=> Copied(i) \/ (q \in MailQueues /\ m.id = i)
  BY <1>1, <1>5, <1>6, PutFacts, PutHolds DEF Copied
<1>7. ASSUME NEW q \in Queues, NEW m, Take(q, m)
      PROVE  (Copied(i) => Copied(i)' \/ (q \in MailQueues /\ m.id = i)) /\ m \in Task
  <2>1. Got(q, m) /\ m \in Task
    BY <1>1, <1>7, GotFacts DEF Got
  <2> QED
    BY <1>5, <2>1, GotHolds DEF Copied
<1>8. ASSUME UNCHANGED queue PROVE Copied(i)' <=> Copied(i)
  BY <1>8 DEF Copied, Holds
<1>9. ASSUME UNCHANGED <<worker, arrived>>, Copied(i) => Copied(i)' PROVE Kept(i)'
  BY <1>4, <1>9 DEF InHand, task
<1> HIDE DEF Kept
<1>10. ASSUME NEW j \in Ids, HandOver(j) PROVE Kept(i)'
  <2>1. Copied(i)' <=> Copied(i) \/ j = i
    BY <1>5, <1>6, <1>10, NewTasks DEF HandOver
  <2>2. arrived' = arrived \cup {j} /\ worker' = worker
    BY <1>10 DEF HandOver, workerVars
  <2> QED
    BY <1>4, <2>1, <2>2 DEF Kept, InHand, task
<1>11. CASE WorkerNext /\ UNCHANGED <<webhookVars, deadVars, arrived>>
  <2>1. i \in arrived /\ Kept(i)
    BY <1>4, <1>11
  <2> USE DEF At, shared
  <2>2. CASE Receive
    <3>1. PICK m : /\ Take("email", m) /\ worker.step = "idle"
                   /\ worker' = [step |-> "send", task |-> m]
      BY <2>2 DEF Receive
    <3>2. worker'.step = "send" /\ task' = m
      BY <3>1 DEF task
    <3> QED
      BY <1>5, <1>7, <2>1, <3>1, <3>2 DEF Kept, InHand
  <2>3. CASE CircuitOpen
    <3>1. worker.step = "send" /\ Requeue("email", task)
      BY <2>3 DEF CircuitOpen
    <3> QED
      BY <1>1, <1>5, <1>6, <2>1, <3>1, WorkerFacts DEF Kept, InHand
  <2>4. CASE CircuitHalfOpens
    <3>1. swallowed' = swallowed \cup {task.id} /\ worker.step = "send" /\ queue' = queue
      BY <2>4 DEF CircuitHalfOpens
    <3>2. task.id # i
      BY <3>1 DEF Safe
    <3> QED
      BY <1>8, <2>1, <3>1, <3>2 DEF Kept, InHand
  <2>5. CASE StartSend
    BY <1>8, <1>9, <1>11, <2>5 DEF StartSend, Kept
  <2>6. CASE SendOk
    <3>1. /\ mails' = [mails EXCEPT ![task.id] = mails[task.id] + 1]
          /\ worker.step = "send" /\ queue' = queue
      BY <2>6 DEF SendOk
    <3>2. task.id # i
      BY <1>4, <3>1 DEF Safe, TypeOK, TablesOK
    <3> QED
      BY <1>8, <2>1, <3>1, <3>2 DEF Kept, InHand
  <2>7. CASE SendFails
    BY <1>1, <1>8, <2>1, <2>7, WorkerFacts DEF SendFails, Kept, InHand
  <2>8. CASE MarkDelivering
    BY <1>1, <1>8, <2>1, <2>8, WorkerFacts DEF MarkDelivering, Kept, InHand
  <2>9. CASE Retry
    <3>1. worker.step = "failed" /\ RetriesLeft(task) /\ task \in Task
      BY <1>1, <2>9, WorkerFacts DEF Retry
    <3>2. CASE Enqueue("email.retry", NextAttempt(task))
      BY <1>5, <1>6, <2>1, <3>1, <3>2, NewTasks DEF Kept, InHand
    <3>3. CASE PublishDropped(task)
      <4>1. i # task.id /\ queue' = queue
        BY <3>3 DEF PublishDropped, Safe
      <4> QED
        BY <1>8, <2>1, <4>1 DEF Kept, InHand
    <3>4. CASE Requeue("email", task)
      BY <1>5, <1>6, <2>1, <3>1, <3>4 DEF Kept, InHand
    <3> QED
      BY <2>9, <3>2, <3>3, <3>4 DEF Retry
  <2>10. CASE MarkFailed
    BY <1>1, <1>8, <2>1, <2>10, WorkerFacts DEF MarkFailed, Kept, InHand
  <2>11. CASE Ack
    BY <1>8, <2>1, <2>11 DEF Ack, Kept, InHand
  <2>12. CASE RejectToDLQ
    <3>1. worker.step = "reject" /\ Enqueue("email.dlq", task)
      BY <2>12 DEF RejectToDLQ
    <3> QED
      BY <1>1, <1>5, <1>6, <2>1, <3>1, WorkerFacts DEF Kept, InHand
  <2>13. CASE CrashWorker
    <3>1. CASE worker.step = "idle"
      BY <1>8, <2>1, <2>13, <3>1 DEF CrashWorker, Kept, InHand
    <3>2. CASE worker.step # "idle"
      BY <1>1, <1>5, <1>6, <2>1, <2>13, <3>2, WorkerFacts DEF CrashWorker, Kept, InHand
    <3> QED
      BY <3>1, <3>2
  <2>14. CASE RetryExpires
    <3>1. Copied(i) => Copied(i)'
      BY <1>1, <2>14, ExpiryHolds DEF Copied, MailQueues, TryQueues, Queues
    <3> QED
      BY <1>9, <1>11, <2>14, <3>1 DEF RetryExpires, workerVars, Kept
  <2>15. CASE OtherCall \/ OtherReturns \/ Time \/ SmtpChanges
    BY <1>8, <1>9, <1>11, <2>15 DEF OtherCall, OtherReturns, Time, SmtpChanges, Kept
  <2> QED
    BY <1>11, <2>2, <2>3, <2>4, <2>5, <2>6, <2>7, <2>8, <2>9, <2>10, <2>11, <2>12, <2>13, <2>14,
       <2>15 DEF WorkerNext, HandleMessage
<1>12. CASE WebhookNext /\ UNCHANGED <<workerVars, deadVars, arrived>>
  <2> SUFFICES Copied(i) => Copied(i)'
    BY <1>9, <1>12 DEF workerVars, Kept
  <2>1. ASSUME NEW j \in Ids, PostWebhook(j) PROVE Copied(i) => Copied(i)'
    <3>1. [id |-> j, retryCount |-> 0] \in Task
      BY NewTasks DEF Fresh
    <3> QED
      BY <1>5, <1>6, <1>8, <2>1, <3>1 DEF PostWebhook
  <2>2. CASE HandleWebhook
    BY <1>5, <1>7, <2>2 DEF HandleWebhook
  <2>3. CASE AckWebhook
    BY <1>8, <2>3 DEF AckWebhook, shared
  <2>4. CASE CrashWebhook
    BY <1>1, <1>5, <1>6, <2>4 DEF CrashWebhook, ConsumersOK
  <2> QED
    BY <1>12, <2>1, <2>2, <2>3, <2>4 DEF WebhookNext, WebhookWork
<1>13. CASE DeadNext /\ UNCHANGED <<workerVars, webhookVars, arrived>>
  <2> SUFFICES Copied(i) => Copied(i)'
    BY <1>9, <1>13 DEF workerVars, Kept
  <2>1. CASE SaveToDLQ
    <3>1. PICK m : /\ Take("email.dlq", m)
                   /\ rows' = Append(rows, [id |-> m.id, status |-> "pending"])
      BY <2>1 DEF SaveToDLQ
    <3>2. m \in Task /\ [id |-> m.id, status |-> "pending"] \in RowSet /\ rows \in Seq(RowSet)
      BY <1>5, <1>7, <3>1 DEF Task, RowSet, TypeOK, RowsOK
    <3>3. /\ Len(rows) + 1 \in DOMAIN rows' /\ rows'[Len(rows) + 1].id = m.id
      <4>1. /\ Len(rows') = Len(rows) + 1 /\ Len(rows) \in Nat /\ rows' \in Seq(RowSet)
            /\ rows'[Len(rows) + 1] = [id |-> m.id, status |-> "pending"]
        BY <3>1, <3>2, AppendProperties, LenProperties
      <4>2. DOMAIN rows' = 1..Len(rows')
        BY <4>1, LenProperties
      <4> QED
        BY <4>1, <4>2
    <3>4. m.id # i
      BY <3>3 DEF Safe, Parked
    <3> QED
      BY <1>5, <1>7, <3>1, <3>4
  <2>2. CASE AckDead
    BY <1>8, <2>2 DEF AckDead, shared
  <2>3. CASE CrashDead
    BY <1>1, <1>5, <1>6, <2>3 DEF CrashDead, ConsumersOK
  <2>4. ASSUME NEW a \in Admins, PublishReplay(a) PROVE Copied(i) => Copied(i)'
    <3>1. Fresh(IdOf(a)) \in Task
      BY <2>4, AdminFacts, NewTasks DEF PublishReplay
    <3> QED
      BY <1>5, <1>6, <1>8, <2>4, <3>1 DEF PublishReplay, PublishDropped
  <2>5. ASSUME NEW a \in Admins, LoadRow(a) \/ MarkReplayed(a) \/ ResetStatus(a) \/ CrashApi(a)
        PROVE  Copied(i) => Copied(i)'
    BY <1>8, <2>5 DEF LoadRow, MarkReplayed, ResetStatus, CrashApi, shared
  <2> QED
    BY <1>13, <2>1, <2>2, <2>3, <2>4, <2>5 DEF DeadNext, DeadWork, Replay
<1>14. CASE UNCHANGED vars
  BY <1>8, <1>9, <1>14 DEF vars, shared, workerVars, Kept
<1> QED
  BY <1>10, <1>11, <1>12, <1>13, <1>14 DEF Next

-----------------------------------------------------------------------------
(* What the status and the counts are worth *)

\* Nobody but Mailpit's calls and the webhook worker touches the webhook queue, and
\* they touch no other.
LEMMA QueuesApart ==
  ASSUME TypeOK
  PROVE  /\ (\E i \in Ids : HandOver(i)) \/ WorkerNext \/ DeadNext
              => queue'["webhook_mailpit"] = queue["webhook_mailpit"]
         /\ WebhookNext => \A q \in MailQueues : queue'[q] = queue[q]
<1>1. DOMAIN queue = Queues /\ MailQueues \subseteq Queues /\ "webhook_mailpit" \in Queues \ MailQueues
      /\ {"email", "email.retry", "email.dlq"} \subseteq MailQueues
  BY DEF TypeOK, QueuesOK, Queues, MailQueues, TryQueues
<1>2. ASSUME NEW q \in MailQueues, NEW m, Enqueue(q, m) \/ Requeue(q, m) \/ Take(q, m)
      PROVE  queue'["webhook_mailpit"] = queue["webhook_mailpit"]
  BY <1>1, <1>2 DEF Enqueue, Requeue, Take
<1>3. ASSUME NEW m, \/ Enqueue("webhook_mailpit", m) \/ Requeue("webhook_mailpit", m)
                    \/ Take("webhook_mailpit", m)
      PROVE  \A q \in MailQueues : queue'[q] = queue[q]
  BY <1>1, <1>3 DEF Enqueue, Requeue, Take
<1>4. ASSUME NEW i \in Ids, HandOver(i) PROVE queue'["webhook_mailpit"] = queue["webhook_mailpit"]
  BY <1>1, <1>2, <1>4 DEF HandOver
<1>5. ASSUME WorkerNext PROVE queue'["webhook_mailpit"] = queue["webhook_mailpit"]
  <2>1. CASE Receive \/ CircuitOpen \/ Retry \/ RejectToDLQ \/ CrashWorker
    BY <1>1, <1>2, <2>1 DEF Receive, CircuitOpen, Retry, RejectToDLQ, CrashWorker, PublishDropped
  <2>2. CASE RetryExpires
    BY <1>1, <2>2 DEF RetryExpires
  <2>3. CASE ~(Receive \/ CircuitOpen \/ Retry \/ RejectToDLQ \/ CrashWorker \/ RetryExpires)
    BY <1>5, <2>3 DEF WorkerNext, HandleMessage, CircuitHalfOpens, StartSend, SendOk, SendFails,
       MarkDelivering, MarkFailed, Ack, OtherCall, OtherReturns, Time, SmtpChanges, shared
  <2> QED
    BY <2>1, <2>2, <2>3
<1>6. ASSUME DeadNext PROVE queue'["webhook_mailpit"] = queue["webhook_mailpit"]
  <2>1. CASE SaveToDLQ \/ CrashDead \/ \E a \in Admins : PublishReplay(a)
    BY <1>1, <1>2, <2>1 DEF SaveToDLQ, CrashDead, PublishReplay, PublishDropped
  <2>2. CASE \/ AckDead
             \/ \E a \in Admins : LoadRow(a) \/ MarkReplayed(a) \/ ResetStatus(a) \/ CrashApi(a)
    BY <2>2 DEF AckDead, LoadRow, MarkReplayed, ResetStatus, CrashApi, shared
  <2> QED
    BY <1>6, <2>1, <2>2 DEF DeadNext, DeadWork, Replay
<1>7. ASSUME WebhookNext PROVE \A q \in MailQueues : queue'[q] = queue[q]
  BY <1>3, <1>7 DEF WebhookNext, WebhookWork, PostWebhook, HandleWebhook, AckWebhook, CrashWebhook, shared
<1> QED
  BY <1>4, <1>5, <1>6, <1>7

\* Mailpit posts only for stored mails, and a mail once stored stays.
LEMMA WebhooksStep ==
  ASSUME TypeOK, WebhooksAreTrue, [Next]_vars
  PROVE  WebhooksAreTrue'
<1>1. QueuesOK /\ ConsumersOK /\ "webhook_mailpit" \in Queues /\ \A m \in Task : m.id \in Ids
  BY DEF TypeOK, Queues, Task
<1>2. ASSUME NEW i \in Ids PROVE mails[i] > 0 => mails'[i] > 0
  BY TablesStep DEF Grows, TypeOK, TablesOK
<1>3. ASSUME NEW i \in Ids PROVE i \in swallowed => i \in swallowed'
  BY TablesStep DEF Grows
<1> DEFINE QueueTrue == \A m \in Task : Has(queue["webhook_mailpit"], m) => mails[m.id] > 0
           HookTrue == hook # NoHook => mails[hook.id] > 0
           SentTrue == worker.step = "sent" => mails[task.id] > 0 \/ task.id \in swallowed
<1>4. QueueTrue /\ HookTrue /\ SentTrue
  BY DEF WebhooksAreTrue
<1>5. QueueTrue'
  <2>1. CASE queue'["webhook_mailpit"] = queue["webhook_mailpit"]
    BY <1>1, <1>2, <1>4, <2>1
  <2>2. ASSUME NEW m \in Task, mails[m.id] > 0,
               Enqueue("webhook_mailpit", m) \/ Requeue("webhook_mailpit", m)
        PROVE  QueueTrue'
    <3>1. Put("webhook_mailpit", m)
      BY <1>1, <2>2, PutFacts
    <3>2. \A x \in Task : Has(queue'["webhook_mailpit"], x) <=> Has(queue["webhook_mailpit"], x) \/ x = m
      BY <3>1 DEF Put
    <3> QED
      BY <1>1, <1>2, <1>4, <2>2, <3>2
  <2>3. ASSUME NEW i \in Ids, PostWebhook(i) PROVE QueueTrue'
    <3>1. [id |-> i, retryCount |-> 0] \in Task /\ [id |-> i, retryCount |-> 0].id = i
      BY NewTasks DEF Fresh
    <3>2. mails[i] > 0
      BY <2>3 DEF PostWebhook, TypeOK, TablesOK
    <3> QED
      BY <2>1, <2>2, <2>3, <3>1, <3>2 DEF PostWebhook
  <2>4. CASE HandleWebhook
    <3>1. PICK m : Take("webhook_mailpit", m)
      BY <2>4 DEF HandleWebhook
    <3>2. \A x \in Task : Has(queue'["webhook_mailpit"], x) => Has(queue["webhook_mailpit"], x)
      BY <1>1, <3>1, GotFacts DEF Got
    <3> QED
      BY <1>1, <1>2, <1>4, <3>2
  <2>5. CASE CrashWebhook
    BY <1>1, <1>4, <2>2, <2>5 DEF CrashWebhook, ConsumersOK
  <2>6. CASE AckWebhook \/ UNCHANGED vars
    BY <2>1, <2>6 DEF AckWebhook, vars, shared
  <2> QED
    BY <2>1, <2>3, <2>4, <2>5, <2>6, QueuesApart DEF Next, WebhookNext, WebhookWork
<1>6. HookTrue'
  <2>1. CASE hook' = hook
    BY <1>1, <1>2, <1>4, <2>1 DEF ConsumersOK
  <2>2. CASE HandleWebhook
    <3>1. PICK m : Take("webhook_mailpit", m) /\ hook' = m
      BY <2>2 DEF HandleWebhook
    <3>2. m \in Task /\ Has(queue["webhook_mailpit"], m)
      BY <1>1, <3>1, GotFacts DEF Got
    <3> QED
      BY <1>1, <1>2, <1>4, <3>1, <3>2
  <2>3. CASE AckWebhook \/ CrashWebhook
    BY <2>3 DEF AckWebhook, CrashWebhook
  <2>4. CASE WebhookNext
    BY <2>1, <2>2, <2>3, <2>4 DEF WebhookNext, WebhookWork, PostWebhook
  <2> QED
    BY <2>1, <2>4 DEF Next, HandOver, webhookVars, vars
<1>7. SentTrue'
  <2>1. CASE worker' = worker
    <3>1. ASSUME worker.step = "sent" PROVE mails'[task.id] > 0 \/ task.id \in swallowed'
      BY <1>1, <1>2, <1>3, <1>4, <3>1, WorkerFacts
    <3> QED
      BY <2>1, <3>1 DEF task
  <2>2. CASE worker'.step # "sent"
    BY <2>2
  <2>3. CASE CircuitHalfOpens
    <3>1. swallowed' = swallowed \cup {task.id} /\ task' = task
      BY <1>1, <2>3, WorkerFacts DEF CircuitHalfOpens, At
    <3> QED
      BY <3>1
  <2>4. CASE SendOk
    <3>1. /\ mails' = [mails EXCEPT ![task.id] = mails[task.id] + 1]
          /\ task' = task /\ task.id \in Ids
      BY <1>1, <2>4, WorkerFacts DEF SendOk, At
    <3> QED
      BY <3>1 DEF TypeOK, TablesOK
  <2>5. CASE WorkerNext
    <3>1. CASE Receive \/ CircuitOpen \/ Ack \/ RejectToDLQ \/ CrashWorker
      BY <2>2, <3>1 DEF Receive, CircuitOpen, Ack, RejectToDLQ, CrashWorker, Done, Idle
    <3>2. CASE SendFails \/ MarkDelivering \/ Retry \/ MarkFailed
      BY <1>1, <2>2, <3>2, WorkerFacts DEF SendFails, MarkDelivering, Retry, MarkFailed, At, Done, Idle
    <3>3. CASE StartSend \/ RetryExpires \/ OtherCall \/ OtherReturns \/ Time \/ SmtpChanges
      BY <2>1, <3>3 DEF StartSend, RetryExpires, OtherCall, OtherReturns, Time, SmtpChanges, workerVars
    <3> QED
      BY <2>3, <2>4, <2>5, <3>1, <3>2, <3>3 DEF WorkerNext, HandleMessage
  <2> QED
    BY <2>1, <2>5 DEF Next, HandOver, workerVars, vars
<1> QED
  BY <1>5, <1>6, <1>7 DEF WebhooksAreTrue

\* Every attempt a message counts was made: StartSend counts it before its outcome.
LEMMA CountsStep ==
  ASSUME TypeOK, CountsAreAttempts, [Next]_vars
  PROVE  CountsAreAttempts'
<1> DEFINE Behind(m) == attempts[m.id] >= m.retryCount
           Ahead == \/ worker.step = "failed"
                    \/ worker.step = "send" /\ pc[Email] = "running"
           QueuedTrue == \A m \in Task : (\E q \in TryQueues : Has(queue[q], m)) => Behind(m)
           HeldTrue == worker # Idle => Behind(task)
           AheadTrue == Ahead => attempts[task.id] > task.retryCount
<1>1. /\ QueuesOK /\ ConsumersOK /\ \A m \in Task : m.id \in Ids /\ m.retryCount \in Nat
      /\ TryQueues \subseteq MailQueues /\ MailQueues \subseteq Queues /\ Email \in DOMAIN pc
      /\ {"email", "email.retry"} = TryQueues /\ "email.dlq" \in Queues \ TryQueues
      /\ attempts \in [Ids -> Nat] /\ attempts' \in [Ids -> Nat]
  BY BrokerAssumption, TablesStep
     DEF TypeOK, TablesOK, ConsumersOK, Task, TryQueues, MailQueues, Queues, Callers
<1>2. \A i \in Ids : attempts'[i] >= attempts[i]
  BY TablesStep DEF Grows
<1>3. QueuedTrue /\ HeldTrue /\ AheadTrue
  BY DEF CountsAreAttempts
<1>4. \A m \in Task : Behind(m) => Behind(m)'
  BY <1>1, <1>2
<1>5. worker.step # "idle" => worker # Idle /\ task \in Task
  BY <1>1, WorkerFacts DEF Idle
<1>6. QueuedTrue'
  <2>1. CASE \A q \in TryQueues : queue'[q] = queue[q]
    BY <1>1, <1>3, <1>4, <2>1
  <2>2. ASSUME NEW q \in Queues, NEW m \in Task, Enqueue(q, m) \/ Requeue(q, m),
               q \in TryQueues => Behind(m)'
        PROVE  QueuedTrue'
    <3>1. Put(q, m)
      BY <1>1, <2>2, PutFacts
    <3>2. \A p \in TryQueues, x \in Task :
            Has(queue'[p], x) => Has(queue[p], x) \/ (p = q /\ x = m)
      BY <1>1, <3>1 DEF Put, Others
    <3> QED
      BY <1>1, <1>3, <1>4, <2>2, <3>2
  <2>3. ASSUME NEW q \in Queues, NEW m, Take(q, m) PROVE QueuedTrue'
    <3>1. \A p \in TryQueues, x \in Task : Has(queue'[p], x) => Has(queue[p], x)
      BY <1>1, <2>3, GotFacts DEF Got, Others
    <3> QED
      BY <1>1, <1>3, <1>4, <3>1
  <2>4. CASE UNCHANGED queue
    BY <2>1, <2>4
  <2> HIDE DEF QueuedTrue
  <2>5. ASSUME NEW i \in Ids, HandOver(i) PROVE QueuedTrue'
    <3>1. Fresh(i) \in Task /\ Fresh(i).retryCount = 0 /\ Fresh(i).id = i
      BY NewTasks
    <3> QED
      BY <1>1, <2>2, <2>5, <3>1 DEF HandOver
  <2>6. CASE WorkerNext
    <3>1. CASE Receive
      BY <1>1, <2>3, <3>1 DEF Receive
    <3>2. CASE CircuitOpen
      BY <1>1, <1>3, <1>4, <1>5, <2>2, <3>2 DEF CircuitOpen, At
    <3>3. CASE Retry
      <4>1. /\ worker.step = "failed" /\ RetriesLeft(task) /\ task \in Task
            /\ attempts[task.id] > task.retryCount /\ attempts' = attempts
        BY <1>3, <1>5, <3>3 DEF Retry, At, workerHistory
      <4>2. /\ NextAttempt(task) \in Task /\ NextAttempt(task).id = task.id
            /\ NextAttempt(task).retryCount = task.retryCount + 1
        BY <4>1, NewTasks
      <4>3. /\ attempts'[NextAttempt(task).id] >= NextAttempt(task).retryCount
            /\ attempts'[task.id] >= task.retryCount
        BY <1>1, <4>1, <4>2
      <4> QED
        BY <1>1, <2>2, <2>4, <3>3, <4>1, <4>2, <4>3 DEF Retry, PublishDropped
    <3>4. CASE RejectToDLQ
      BY <1>1, <1>5, <2>2, <3>4 DEF RejectToDLQ, At
    <3>5. CASE CrashWorker
      BY <1>1, <1>3, <1>4, <1>5, <2>2, <2>4, <3>5 DEF CrashWorker, At
    <3>6. CASE RetryExpires
      <4>1. \A p \in TryQueues, x \in Task :
              Has(queue'[p], x) => \E q \in TryQueues : Has(queue[q], x)
        BY <1>1, <3>6, ExpiryFacts
      <4> QED
        BY <1>1, <1>3, <1>4, <4>1 DEF QueuedTrue
    <3>7. CASE ~(Receive \/ CircuitOpen \/ Retry \/ RejectToDLQ \/ CrashWorker \/ RetryExpires)
      BY <2>4, <2>6, <3>7 DEF WorkerNext, HandleMessage, CircuitHalfOpens, StartSend, SendOk, SendFails,
         MarkDelivering, MarkFailed, Ack, OtherCall, OtherReturns, Time, SmtpChanges, shared
    <3> QED
      BY <3>1, <3>2, <3>3, <3>4, <3>5, <3>6, <3>7
  <2>7. CASE WebhookNext
    BY <1>1, <2>1, <2>7, QueuesApart
  <2>8. CASE DeadNext
    <3>1. CASE SaveToDLQ
      BY <1>1, <2>3, <3>1 DEF SaveToDLQ
    <3>2. CASE CrashDead
      BY <1>1, <2>2, <3>2 DEF CrashDead, ConsumersOK
    <3>3. ASSUME NEW a \in Admins, PublishReplay(a) PROVE QueuedTrue'
      <4>1. IdOf(a) \in Ids
        BY <3>3, AdminFacts DEF PublishReplay
      <4>2. Fresh(IdOf(a)) \in Task /\ Fresh(IdOf(a)).retryCount = 0 /\ Fresh(IdOf(a)).id = IdOf(a)
        BY <4>1, NewTasks
      <4>3. attempts'[IdOf(a)] \in Nat
        BY <1>1, <4>1
      <4>4. attempts'[Fresh(IdOf(a)).id] >= Fresh(IdOf(a)).retryCount
        BY <4>2, <4>3
      <4> QED
        BY <1>1, <2>2, <2>4, <3>3, <4>2, <4>4 DEF PublishReplay, PublishDropped
    <3>4. CASE \/ AckDead
               \/ \E a \in Admins : LoadRow(a) \/ MarkReplayed(a) \/ ResetStatus(a) \/ CrashApi(a)
      BY <2>4, <3>4 DEF AckDead, LoadRow, MarkReplayed, ResetStatus, CrashApi, shared
    <3> QED
      BY <2>8, <3>1, <3>2, <3>3, <3>4 DEF DeadNext, DeadWork, Replay
  <2>9. CASE UNCHANGED vars
    BY <2>4, <2>9 DEF vars, shared
  <2> QED
    BY <2>5, <2>6, <2>7, <2>8, <2>9 DEF Next
<1>7. HeldTrue' /\ AheadTrue'
  <2>1. CASE worker' = worker /\ pc'[Email] = pc[Email]
    <3>1. Idle.step = "idle" /\ (worker.step = "idle" => worker = Idle)
      BY <1>1 DEF Idle, ConsumersOK
    <3>2. worker # Idle => task \in Task /\ worker.step # "idle"
      BY <1>5, <3>1
    <3>3. task' = task
      BY <2>1 DEF task
    <3>4. worker # Idle => attempts'[task.id] >= attempts[task.id] /\ attempts[task.id] \in Nat
                           /\ attempts'[task.id] \in Nat /\ task.retryCount \in Nat
      BY <1>1, <1>2, <3>2
    <3> QED
      BY <1>3, <2>1, <3>1, <3>3, <3>4
  <2>2. CASE worker' = Idle
    BY <2>2 DEF Idle
  <2>3. ASSUME NEW s \in {"sent", "ack", "reject", "failed"}, worker.step \in {"send", "sent", "failed"}, Goto(s),
               s = "failed" => attempts'[task.id] > task.retryCount
        PROVE  HeldTrue' /\ AheadTrue'
    <3>1. worker'.step = s /\ task' = task /\ task \in Task /\ worker # Idle
      BY <1>1, <1>5, <2>3, WorkerFacts
    <3> QED
      BY <1>3, <1>4, <2>3, <3>1
  <2>4. CASE WorkerNext
    <3>1. CASE Receive
      <4>1. PICK m : /\ Take("email", m) /\ worker' = [step |-> "send", task |-> m]
                     /\ B!Call(Email) /\ attempts' = attempts
        BY <3>1 DEF Receive, workerHistory
      <4>2. m \in Task /\ Has(queue["email"], m)
        BY <1>1, <4>1, GotFacts DEF Got
      <4>3. pc'[Email] = "waiting" /\ worker'.step = "send" /\ task' = m
        BY <1>1, <4>1, BreakerFacts DEF task
      <4> QED
        BY <1>1, <1>3, <1>4, <4>2, <4>3
    <3>2. CASE CircuitOpen \/ Ack \/ RejectToDLQ \/ CrashWorker
      BY <2>2, <3>2 DEF CircuitOpen, Ack, RejectToDLQ, CrashWorker, Done
    <3>3. CASE CircuitHalfOpens \/ SendOk \/ MarkDelivering \/ MarkFailed
      BY <2>3, <3>3 DEF CircuitHalfOpens, SendOk, MarkDelivering, MarkFailed, At
    <3>4. CASE StartSend
      <4>1. /\ worker.step = "send" /\ worker' = worker /\ task \in Task /\ worker # Idle
            /\ attempts' = [attempts EXCEPT ![task.id] = attempts[task.id] + 1]
        BY <1>5, <3>4 DEF StartSend, At
      <4>2. attempts'[task.id] = attempts[task.id] + 1 /\ task' = task
        BY <1>1, <4>1 DEF task
      <4>3. attempts[task.id] >= task.retryCount /\ attempts[task.id] \in Nat /\ task.retryCount \in Nat
        BY <1>1, <1>3, <4>1
      <4> QED
        BY <4>2, <4>3
    <3>5. CASE SendFails
      <4>1. worker.step = "send" /\ pc[Email] = "running" /\ Goto("failed") /\ attempts' = attempts
        BY <3>5, BreakerFacts DEF SendFails, At, workerHistory
      <4> QED
        BY <1>3, <2>3, <4>1
    <3>6. CASE Retry
      BY <2>2, <2>3, <3>6 DEF Retry, At, Done
    <3>7. CASE RetryExpires \/ Time \/ SmtpChanges
      BY <2>1, <3>7, BreakerFacts DEF RetryExpires, Time, SmtpChanges, workerVars, breaker
    <3>8. CASE OtherCall \/ OtherReturns
      <4>1. PICK c \in OtherCallers : B!Call(c) \/ B!Acquire(c) \/ B!End(c)
        BY <3>8 DEF OtherCall, OtherReturns
      <4>2. \E s : pc' = [pc EXCEPT ![c] = s]
        BY <4>1, BreakerFacts DEF B!Acquire, B!End
      <4>3. pc'[Email] = pc[Email] /\ worker' = worker
        BY <1>1, <3>8, <4>1, <4>2, GoroutinesAssumption DEF OtherCall, OtherReturns
      <4> QED
        BY <2>1, <4>3
    <3> QED
      BY <2>4, <3>1, <3>2, <3>3, <3>4, <3>5, <3>6, <3>7, <3>8 DEF WorkerNext, HandleMessage
  <2> QED
    BY <2>1, <2>4 DEF Next, HandOver, workerVars, breaker, vars
<1> QED
  BY <1>6, <1>7 DEF CountsAreAttempts

\* Each update of notifications.status is earned by what came before it.
LEMMA StatusStep ==
  ASSUME TypeOK, WebhooksAreTrue, CountsAreAttempts, StatusIsEarned, [Next]_vars
  PROVE  StatusIsEarned'
<1> DEFINE Earned(i, s) ==
             /\ s = "sent" => mails'[i] > 0
             /\ s = "delivering" => mails'[i] > 0 \/ i \in swallowed'
             /\ s = "failed" => attempts'[i] > MaxRetries
<1>1. /\ QueuesOK /\ ConsumersOK /\ status \in [Ids -> {"none", "pending", "delivering", "sent", "failed"}]
      /\ MaxRetries \in Nat /\ "webhook_mailpit" \in Queues
  BY BrokerAssumption DEF TypeOK, TablesOK, Queues
<1>2. ASSUME NEW i \in Ids
      PROVE  /\ mails[i] > 0 => mails'[i] > 0
             /\ attempts[i] > MaxRetries => attempts'[i] > MaxRetries
             /\ i \in swallowed => i \in swallowed'
  BY <1>1, TablesStep DEF Grows, TypeOK, TablesOK
<1>3. \A i \in Ids : Earned(i, status[i])
  BY <1>2 DEF StatusIsEarned
<1>4. CASE status' = status
  BY <1>3, <1>4 DEF StatusIsEarned
<1>5. ASSUME NEW i \in Ids, NEW s, UpdateDeliveryStatus(i, s), Earned(i, s) PROVE StatusIsEarned'
  BY <1>1, <1>3, <1>5 DEF StatusIsEarned, UpdateDeliveryStatus
<1>6. CASE MarkDelivering
  <2>1. worker.step = "sent" /\ task.id \in Ids
    BY <1>1, <1>6, WorkerFacts DEF MarkDelivering, At
  <2>2. Earned(task.id, "delivering")
    BY <1>2, <2>1 DEF WebhooksAreTrue
  <2> QED
    BY <1>4, <1>5, <1>6, <2>1, <2>2 DEF MarkDelivering
<1>7. CASE MarkFailed
  <2>1. worker.step = "failed" /\ task.id \in Ids /\ task.retryCount \in 0..MaxRetries /\ ~RetriesLeft(task)
    BY <1>1, <1>7, WorkerFacts DEF MarkFailed, At
  <2>2. attempts[task.id] > task.retryCount /\ task.retryCount = MaxRetries
    BY <1>1, <2>1 DEF CountsAreAttempts, RetriesLeft
  <2>3. Earned(task.id, "failed")
    BY <1>2, <2>1, <2>2
  <2> QED
    BY <1>4, <1>5, <1>7, <2>1, <2>3 DEF MarkFailed
<1>8. CASE HandleWebhook
  <2>1. PICK m : Take("webhook_mailpit", m) /\ UpdateDeliveryStatus(m.id, "sent")
    BY <1>8 DEF HandleWebhook
  <2>2. m \in Task /\ Has(queue["webhook_mailpit"], m) /\ m.id \in Ids
    BY <1>1, <2>1, GotFacts DEF Got, Task
  <2>3. Earned(m.id, "sent")
    BY <1>2, <2>2 DEF WebhooksAreTrue
  <2> QED
    BY <1>5, <2>1, <2>2, <2>3
<1>9. ASSUME NEW a \in Admins, ResetStatus(a) PROVE StatusIsEarned'
  <2>1. IdOf(a) \in Ids
    BY <1>9, AdminFacts DEF ResetStatus
  <2> QED
    BY <1>4, <1>5, <1>9, <2>1 DEF ResetStatus
<1>10. ASSUME NEW i \in Ids, HandOver(i) PROVE StatusIsEarned'
  BY <1>5, <1>10 DEF HandOver, UpdateDeliveryStatus
<1>11. CASE WorkerNext
  <2>1. status' = status \/ MarkDelivering \/ MarkFailed
    BY <1>11 DEF WorkerNext, HandleMessage, Receive, CircuitOpen, CircuitHalfOpens, StartSend, SendOk,
       SendFails, Retry, Ack, RejectToDLQ, CrashWorker, RetryExpires, OtherCall, OtherReturns, Time,
       SmtpChanges, shared
  <2> QED
    BY <1>4, <1>6, <1>7, <2>1
<1>12. CASE WebhookNext
  <2>1. status' = status \/ HandleWebhook
    BY <1>12 DEF WebhookNext, WebhookWork, PostWebhook, AckWebhook, CrashWebhook, shared
  <2> QED
    BY <1>4, <1>8, <2>1
<1>13. CASE DeadNext
  <2>1. status' = status \/ \E a \in Admins : ResetStatus(a)
    BY <1>13 DEF DeadNext, DeadWork, SaveToDLQ, AckDead, CrashDead, LoadRow, Replay, PublishReplay,
       MarkReplayed, CrashApi, shared
  <2> QED
    BY <1>4, <1>9, <2>1
<1>14. CASE UNCHANGED vars
  BY <1>4, <1>14 DEF vars, shared
<1> QED
  BY <1>10, <1>11, <1>12, <1>13, <1>14 DEF Next

\* PublishReplay comes before MarkReplayed in every request, whatever fails.
LEMMA ReplayStep ==
  ASSUME TypeOK, MarkedAfterPublish, ReplayedWasPublished, [Next]_vars
  PROVE  MarkedAfterPublish' /\ ReplayedWasPublished'
<1>1. /\ DOMAIN rows = 1..Len(rows) /\ DOMAIN rows' = 1..Len(rows') /\ Len(rows) \in Nat
      /\ republished \in Seq(Nat) /\ Len(republished) = Len(rows) /\ rows \in Seq(RowSet)
      /\ \A k \in 1..Len(rows) : republished[k] \in Nat
      /\ AdminsOK
  <2>1. RowsOK /\ RowsOK'
    BY RowsStep DEF TypeOK
  <2> QED
    BY <2>1, LenProperties, ElementOfSeq DEF TypeOK, RowsOK, RowSet
<1>2. /\ \A a \in Admins : admin[a].step # "idle" => admin[a].row \in 1..Len(rows)
      /\ \A a \in Admins : admin[a].step \in {"mark", "reset"} => republished[admin[a].row] > 0
      /\ \A k \in 1..Len(rows) : rows[k].status = "replayed" => republished[k] > 0
  BY <1>1 DEF AdminsOK, MarkedAfterPublish, ReplayedWasPublished
<1>3. ASSUME UNCHANGED <<rows, republished, admin>> PROVE MarkedAfterPublish' /\ ReplayedWasPublished'
  BY <1>1, <1>2, <1>3 DEF MarkedAfterPublish, ReplayedWasPublished
<1>4. CASE SaveToDLQ
  <2>1. PICK m \in Task : /\ rows' = Append(rows, [id |-> m.id, status |-> "pending"])
                          /\ republished' = Append(republished, 0) /\ admin' = admin
    BY <1>4 DEF SaveToDLQ
  <2>2. [id |-> m.id, status |-> "pending"] \in RowSet
    BY DEF Task, RowSet
  <2>3. /\ Len(rows') = Len(rows) + 1 /\ rows'[Len(rows) + 1].status = "pending"
        /\ \A k \in 1..Len(rows) : rows'[k] = rows[k]
    BY <1>1, <2>1, <2>2, AppendProperties
  <2>4. \A k \in 1..Len(rows) : republished'[k] = republished[k]
    BY <1>1, <2>1, AppendProperties
  <2>5. \A k \in DOMAIN rows' : k \in 1..Len(rows) \/ k = Len(rows) + 1
    BY <1>1, <2>3
  <2>6. MarkedAfterPublish'
    BY <1>2, <2>1, <2>4 DEF MarkedAfterPublish
  <2>7. ReplayedWasPublished'
    BY <1>2, <2>3, <2>4, <2>5 DEF ReplayedWasPublished
  <2> QED
    BY <2>6, <2>7
<1>5. ASSUME NEW a \in Admins, PublishReplay(a) PROVE MarkedAfterPublish' /\ ReplayedWasPublished'
  <2>1. admin[a].row \in 1..Len(rows) /\ rows' = rows /\ RowOf(a) = admin[a].row
    BY <1>2, <1>5 DEF PublishReplay, RowOf
  <2>2. CASE republished' = [republished EXCEPT ![RowOf(a)] = republished[RowOf(a)] + 1] /\ Step(a, "mark")
    <3>1. republished'[admin[a].row] > 0 /\ \A k \in 1..Len(rows) : republished[k] > 0 => republished'[k] > 0
      BY <1>1, <2>1, <2>2, LenProperties
    <3>2. /\ admin'[a].row = admin[a].row /\ \A b \in Admins \ {a} : admin'[b] = admin[b]
      BY <1>1, <2>2 DEF Step, AdminsOK
    <3> QED
      BY <1>1, <1>2, <2>1, <3>1, <3>2 DEF MarkedAfterPublish, ReplayedWasPublished
  <2>3. CASE republished' = republished /\ Finish(a)
    <3>1. /\ admin'[a].step = "idle" /\ \A b \in Admins \ {a} : admin'[b] = admin[b]
      BY <1>1, <2>3 DEF Finish, NoRequest, AdminsOK
    <3> QED
      BY <1>1, <1>2, <2>1, <2>3, <3>1 DEF MarkedAfterPublish, ReplayedWasPublished
  <2> QED
    BY <1>5, <2>2, <2>3 DEF PublishReplay
<1>6. ASSUME NEW a \in Admins, MarkReplayed(a) PROVE MarkedAfterPublish' /\ ReplayedWasPublished'
  <2>1. /\ admin[a].row \in 1..Len(rows) /\ republished' = republished /\ RowOf(a) = admin[a].row
        /\ republished[admin[a].row] > 0
    BY <1>2, <1>6 DEF MarkReplayed, RowOf
  <2>2. /\ \A b \in Admins : admin'[b].step \in {"mark", "reset"} =>
                               admin'[b].row = admin[b].row /\ admin[b].step \in {"mark", "reset"}
    <3>1. admin[a].step = "mark" /\ (Step(a, "reset") \/ Finish(a))
      BY <1>6 DEF MarkReplayed
    <3>2. CASE Step(a, "reset")
      BY <1>1, <3>1, <3>2 DEF Step, AdminsOK
    <3>3. CASE Finish(a)
      BY <1>1, <3>3 DEF Finish, NoRequest, AdminsOK
    <3> QED
      BY <3>1, <3>2, <3>3
  <2>3. \A k \in DOMAIN rows' : k \in 1..Len(rows) /\ (k = admin[a].row \/ rows'[k] = rows[k])
    BY <1>1, <1>6, <2>1 DEF MarkReplayed
  <2>4. MarkedAfterPublish'
    BY <1>2, <2>1, <2>2 DEF MarkedAfterPublish
  <2>5. ReplayedWasPublished'
    BY <1>2, <2>1, <2>3 DEF ReplayedWasPublished
  <2> QED
    BY <2>4, <2>5
<1>7. ASSUME NEW a \in Admins, LoadRow(a) \/ ResetStatus(a) \/ CrashApi(a)
      PROVE  MarkedAfterPublish' /\ ReplayedWasPublished'
  <2>1. /\ rows' = rows /\ republished' = republished /\ \A b \in Admins \ {a} : admin'[b] = admin[b]
        /\ admin'[a].step \in {"idle", "publish"}
    BY <1>1, <1>7 DEF LoadRow, ResetStatus, CrashApi, Finish, NoRequest, AdminsOK
  <2> QED
    BY <1>1, <1>2, <2>1 DEF MarkedAfterPublish, ReplayedWasPublished
<1>8. CASE AckDead \/ CrashDead \/ UNCHANGED deadVars
  BY <1>3, <1>8 DEF AckDead, CrashDead, deadVars
<1> QED
  BY <1>4, <1>5, <1>6, <1>7, <1>8 DEF Next, HandOver, DeadNext, DeadWork, Replay, vars

-----------------------------------------------------------------------------
(* One outcome each *)

\* A message of a notification that has no copy may be published: it has one then.
LEMMA OnePut ==
  ASSUME OneCopyEach, NEW q \in MailQueues, NEW m \in Task, Put(q, m), ~ToTry(m.id), ~Dead(m.id)
  PROVE  /\ OneCopyEach'
         /\ \A i : ToTry(i)' <=> ToTry(i) \/ (q \in TryQueues /\ i = m.id)
         /\ \A i : Dead(i)' <=> Dead(i) \/ (q \notin TryQueues /\ i = m.id)
<1>1. MailQueues \subseteq Queues /\ TryQueues \subseteq MailQueues /\ "email.dlq" \in MailQueues \ TryQueues
      /\ MailQueues = TryQueues \cup {"email.dlq"}
  BY DEF Queues, MailQueues, TryQueues
<1>2. \A p \in MailQueues : \A i : Holds(p, i)' <=> Holds(p, i) \/ (p = q /\ m.id = i)
  BY <1>1, PutHolds
<1>3. \A p \in MailQueues : ~Holds(p, m.id)
  BY <1>1 DEF ToTry, Dead
<1>4. \A x \in Task : Has(queue[q], x) => x.id # m.id
  BY <1>3 DEF Holds
<1>5. \A p \in MailQueues : OneEach(queue'[p])
  BY <1>1, <1>4 DEF OneCopyEach, Put, Others
<1>6. OneCopyEach'
  BY <1>2, <1>3, <1>5 DEF OneCopyEach
<1> QED
  BY <1>1, <1>2, <1>6 DEF ToTry, Dead

\* A delivery takes the only copy.
LEMMA OneGot ==
  ASSUME OneCopyEach, NEW q \in MailQueues, NEW m, Got(q, m)
  PROVE  /\ OneCopyEach'
         /\ q \in TryQueues => ToTry(m.id)
         /\ q \notin TryQueues => Dead(m.id)
         /\ ~ToTry(m.id)' /\ ~Dead(m.id)'
         /\ \A i : i # m.id => (ToTry(i)' <=> ToTry(i)) /\ (Dead(i)' <=> Dead(i))
<1>1. MailQueues \subseteq Queues /\ TryQueues \subseteq MailQueues /\ "email.dlq" \in MailQueues \ TryQueues
      /\ MailQueues = TryQueues \cup {"email.dlq"} /\ m \in Task /\ m.id \in Ids
  BY DEF Queues, MailQueues, TryQueues, Got, Task
<1>2. \A p \in MailQueues : \A i : Holds(p, i) <=> Holds(p, i)' \/ (p = q /\ m.id = i)
  BY <1>1, GotHolds
<1>3. ~Holds(q, m.id)'
  BY DEF Got, OneCopyEach, Holds
<1>4. \A p \in MailQueues : ~Holds(p, m.id)'
  BY <1>1, <1>2, <1>3 DEF OneCopyEach
<1>5. \A p \in MailQueues : OneEach(queue'[p])
  BY <1>1 DEF OneCopyEach, Got, Others
<1>6. OneCopyEach'
  BY <1>2, <1>5 DEF OneCopyEach
<1> QED
  BY <1>1, <1>2, <1>4, <1>6 DEF ToTry, Dead

\* An expiry leaves the copy where it is tried again.
LEMMA OneExpiry ==
  ASSUME QueuesOK, OneCopyEach, RetryExpires
  PROVE  OneCopyEach' /\ \A i : (ToTry(i)' <=> ToTry(i)) /\ (Dead(i)' <=> Dead(i))
<1>1. \A i : (ToTry(i)' <=> ToTry(i)) /\ (Dead(i)' <=> Dead(i))
  BY ExpiryHolds DEF ToTry, Dead, Queues, TryQueues
<1>2. PICK m \in Task :
        /\ \A x \in Task :
             /\ Has(queue["email.retry"], x) <=> Has(queue'["email.retry"], x) \/ x = m
             /\ Has(queue'["email"], x) <=> Has(queue["email"], x) \/ x = m
        /\ OneEach(queue["email.retry"]) =>
             /\ OneEach(queue'["email.retry"])
             /\ \A x \in Task : Has(queue'["email.retry"], x) => x.id # m.id
        /\ OneEach(queue["email"]) /\ (\A x \in Task : Has(queue["email"], x) => x.id # m.id)
             => OneEach(queue'["email"])
  BY ExpiryFacts
<1>3. queue'["email.dlq"] = queue["email.dlq"] /\ m.id \in Ids
      /\ MailQueues = {"email", "email.retry", "email.dlq"}
  BY ExpiryFacts DEF Queues, TryQueues, MailQueues, Task
<1>4. OneEach(queue["email"]) /\ OneEach(queue["email.retry"]) /\ OneEach(queue["email.dlq"])
  BY <1>3 DEF OneCopyEach
<1>5. Holds("email.retry", m.id)
  BY <1>2 DEF Holds
<1>6. ~Holds("email", m.id) /\ ~Holds("email.dlq", m.id)
  BY <1>3, <1>5 DEF OneCopyEach
<1>7. OneEach(queue'["email"])
  BY <1>2, <1>4, <1>6 DEF Holds
<1>8. \A i : /\ Holds("email", i)' <=> Holds("email", i) \/ i = m.id
             /\ Holds("email.retry", i)' <=> Holds("email.retry", i) /\ i # m.id
             /\ Holds("email.dlq", i)' <=> Holds("email.dlq", i)
  BY <1>2, <1>3, <1>4 DEF Holds
<1>9. \A p \in MailQueues : OneEach(queue'[p])
  BY <1>2, <1>3, <1>4, <1>7
<1>10. \A i \in Ids : \A p, q \in MailQueues : Holds(p, i)' /\ Holds(q, i)' => p = q
  <2> SUFFICES ASSUME NEW i \in Ids, NEW p \in MailQueues, NEW q \in MailQueues,
                      Holds(p, i)', Holds(q, i)', p # q
               PROVE  FALSE
    OBVIOUS
  <2>1. CASE i = m.id
    BY <1>3, <1>6, <1>8, <2>1
  <2>2. CASE i # m.id
    <3>1. Holds(p, i) /\ Holds(q, i)
      BY <1>3, <1>8, <2>2
    <3> QED
      BY <3>1 DEF OneCopyEach
  <2> QED
    BY <2>1, <2>2
<1> QED
  BY <1>1, <1>9, <1>10 DEF OneCopyEach

\* A notification nothing happens to stays in its stage.
LEMMA Untouched ==
  ASSUME NEW i, StageOf(i), i \in arrived' <=> i \in arrived,
         ToTry(i)' <=> ToTry(i), Dead(i)' <=> Dead(i),
         \/ worker' = worker
         \/ ~InHand(i, Working) /\ ~InHand(i, Working)',
         status'[i] = status[i], mails'[i] = mails[i], i \in swallowed' <=> i \in swallowed,
         rows' = rows
  PROVE  StageOf(i)'
<1>1. /\ InHand(i, Working)' <=> InHand(i, Working)
      /\ InHand(i, {"send", "failed"})' <=> InHand(i, {"send", "failed"})
      /\ InHand(i, {"reject"})' <=> InHand(i, {"reject"})
      /\ InHand(i, {"sent"})' <=> InHand(i, {"sent"})
  BY DEF InHand, Working, task
<1>2. Parked(i)' = Parked(i)
  BY DEF Parked
<1>3. (MailedOnce(i)' <=> MailedOnce(i)) /\ \A s : Unmailed(i, s)' <=> Unmailed(i, s)
  BY DEF MailedOnce, Unmailed
<1> HIDE DEF ToTry, Dead, InHand, Parked, MailedOnce, Unmailed
<1> QED
  BY <1>1, <1>2, <1>3 DEF StageOf

\* Where nothing fails, a copy only changes hands: at each place it is known what
\* happened to the notification, and at its last place that is one outcome.
LEMMA CalmStep ==
  ASSUME TypeOK, WebhooksAreTrue, CalmIsOrderly, [Next]_vars
  PROVE  CalmIsOrderly'
<1> SUFFICES ASSUME replays' = 0, faults' = 0 PROVE OneCopyEach' /\ StageIsKnown'
  BY DEF CalmIsOrderly
<1>1. /\ QueuesOK /\ ConsumersOK /\ arrived \subseteq Ids /\ faults \in Nat /\ replays \in Nat
      /\ mails \in [Ids -> Nat] /\ DOMAIN status = Ids
  BY DEF TypeOK, TablesOK
<1>2. replays = 0 /\ faults = 0 /\ ~Fault
  BY <1>1, TablesStep DEF Grows, Fault
<1>3. OneCopyEach /\ \A i \in Ids : StageOf(i)
  BY <1>2 DEF CalmIsOrderly, StageIsKnown
<1>4. /\ TryQueues \subseteq MailQueues /\ MailQueues \subseteq Queues
      /\ {"email", "email.retry"} \subseteq TryQueues
      /\ "email.dlq" \in MailQueues \ TryQueues /\ "webhook_mailpit" \in Queues \ MailQueues
  BY DEF Queues, MailQueues, TryQueues
<1>5. ASSUME NEW q \in MailQueues, NEW m \in Task, Enqueue(q, m) \/ Requeue(q, m),
             ~ToTry(m.id), ~Dead(m.id)
      PROVE  /\ OneCopyEach'
             /\ \A i : ToTry(i)' <=> ToTry(i) \/ (q \in TryQueues /\ i = m.id)
             /\ \A i : Dead(i)' <=> Dead(i) \/ (q \notin TryQueues /\ i = m.id)
  BY <1>1, <1>3, <1>4, <1>5, PutFacts, OnePut
<1>6. ASSUME NEW q \in MailQueues, NEW m, Take(q, m)
      PROVE  /\ OneCopyEach' /\ m \in Task /\ m.id \in Ids
             /\ q \in TryQueues => ToTry(m.id)
             /\ q \notin TryQueues => Dead(m.id)
             /\ ~ToTry(m.id)' /\ ~Dead(m.id)'
             /\ \A i : i # m.id => (ToTry(i)' <=> ToTry(i)) /\ (Dead(i)' <=> Dead(i))
  <2>1. Got(q, m) /\ m \in Task /\ m.id \in Ids
    BY <1>1, <1>4, <1>6, GotFacts DEF Got, Task
  <2> QED
    BY <1>3, <2>1, OneGot
<1>7. ASSUME \A q \in MailQueues : queue'[q] = queue[q]
      PROVE  OneCopyEach' /\ \A i : (ToTry(i)' <=> ToTry(i)) /\ (Dead(i)' <=> Dead(i))
  <2>1. \A q \in MailQueues : \A i : Holds(q, i)' <=> Holds(q, i)
    BY <1>7 DEF Holds
  <2> QED
    BY <1>3, <1>4, <1>7, <2>1 DEF OneCopyEach, ToTry, Dead
<1>8. ASSUME NEW i \in Ids,
             \/ worker' = worker
             \/ ~InHand(i, Working) /\ ~InHand(i, Working)',
             ToTry(i)' <=> ToTry(i), Dead(i)' <=> Dead(i), i \in arrived' <=> i \in arrived,
             status'[i] = status[i], mails'[i] = mails[i], i \in swallowed' <=> i \in swallowed,
             rows' = rows
      PROVE  StageOf(i)'
  BY <1>3, <1>8, Untouched
<1>9. \A i : rows' = rows => Parked(i)' = Parked(i)
  BY DEF Parked
<1>10. ASSUME NEW j \in Ids, HandOver(j) PROVE OneCopyEach' /\ StageIsKnown'
  <2>1. /\ j \notin arrived /\ arrived' = arrived \cup {j}
        /\ status' = [status EXCEPT ![j] = "pending"]
        /\ UNCHANGED <<mails, worker, swallowed, rows>>
    BY <1>10 DEF HandOver, workerVars, deadVars
  <2>2. /\ ~ToTry(j) /\ ~Dead(j) /\ ~InHand(j, Working)
        /\ mails[j] = 0 /\ j \notin swallowed /\ Parked(j) = {}
    BY <1>3, <2>1 DEF StageOf
  <2>3. /\ OneCopyEach'
        /\ \A i : (ToTry(i)' <=> ToTry(i) \/ i = j) /\ (Dead(i)' <=> Dead(i))
    BY <1>4, <1>5, <1>10, <2>2, NewTasks DEF HandOver
  <2>4. ASSUME NEW i \in Ids, i # j PROVE StageOf(i)'
    BY <1>1, <1>8, <2>1, <2>3, <2>4
  <2>5. StageOf(j)'
    <3>1. ~InHand(j, Working)' /\ ToTry(j)' /\ ~Dead(j)' /\ Unmailed(j, "pending")' /\ Parked(j)' = {}
      BY <1>1, <1>9, <2>1, <2>2, <2>3 DEF InHand, task, Unmailed
    <3>2. ~InHand(j, {"reject"})' /\ ~InHand(j, {"sent"})' /\ j \in arrived'
      BY <2>1, <3>1 DEF InHand, Working
    <3> QED
      BY <3>1, <3>2 DEF StageOf
  <2> QED
    BY <2>3, <2>4, <2>5 DEF StageIsKnown
<1>11. ASSUME WorkerNext, UNCHANGED <<webhookVars, deadVars, arrived>>
       PROVE  OneCopyEach' /\ StageIsKnown'
  <2>1. rows' = rows /\ arrived' = arrived /\ \A i : Parked(i)' = Parked(i)
    BY <1>9, <1>11 DEF deadVars
  <2>2. PICK t : t = task.id
    OBVIOUS
  <2>3. worker.step # "idle" => /\ t \in Ids /\ task \in Task /\ worker.step \in Working \cup {"ack"}
                                /\ \A s \in {"sent", "failed", "ack", "reject"} :
                                     Goto(s) => worker'.step = s /\ task' = task
    BY <1>1, <2>2, WorkerFacts DEF Working
  <2>4. \A i, S : InHand(i, S) <=> worker.step \in S /\ i = t
    BY <2>2 DEF InHand
  <2>5. ASSUME task' = task
        PROVE  /\ \A i, S : InHand(i, S)' <=> worker'.step \in S /\ i = t
               /\ InHand(t, Working)' <=> worker'.step \in {"send", "sent", "failed", "reject"}
               /\ InHand(t, {"send", "failed"})' <=> worker'.step \in {"send", "failed"}
               /\ InHand(t, {"reject"})' <=> worker'.step = "reject"
               /\ InHand(t, {"sent"})' <=> worker'.step = "sent"
    BY <2>2, <2>5 DEF InHand, Working
  <2>6. ASSUME worker' = Idle PROVE \A i : ~InHand(i, Working)' /\ \A s : ~InHand(i, {"send", "failed"})'
                                    /\ ~InHand(i, {"reject"})' /\ ~InHand(i, {"sent"})'
    BY <2>6 DEF InHand, Idle, Working
  <2>7. ASSUME worker.step \in {"send", "failed"}
        PROVE  /\ ~ToTry(t) /\ ~Dead(t) /\ t \in arrived /\ Parked(t) = {}
               /\ status[t] = "pending" /\ mails[t] = 0 /\ t \notin swallowed
    BY <1>3, <2>3, <2>4, <2>7 DEF StageOf, Working, Unmailed
  \* What a step of the worker with its message leaves alone.
  <2>8. ASSUME worker.step # "idle", worker' = Idle \/ task' = task,
               \A i \in Ids \ {t} :
                 /\ (ToTry(i)' <=> ToTry(i)) /\ (Dead(i)' <=> Dead(i))
                 /\ status'[i] = status[i] /\ mails'[i] = mails[i]
                 /\ i \in swallowed' <=> i \in swallowed,
               StageOf(t)'
        PROVE  StageIsKnown'
    <3>1. ASSUME NEW i \in Ids, i # t PROVE StageOf(i)'
      <4>1. ~InHand(i, Working) /\ ~InHand(i, Working)'
        BY <2>4, <2>5, <2>6, <2>8, <3>1
      <4> QED
        BY <1>8, <2>1, <2>8, <3>1, <4>1
    <3> QED
      BY <2>8, <3>1 DEF StageIsKnown
  <2>9. CASE Receive
    <3>1. PICK m : /\ Take("email", m) /\ worker.step = "idle"
                   /\ worker' = [step |-> "send", task |-> m]
                   /\ UNCHANGED <<status, mails, swallowed>>
      BY <2>9 DEF Receive, At, workerHistory
    <3>2. /\ OneCopyEach' /\ m.id \in Ids /\ ToTry(m.id) /\ ~ToTry(m.id)' /\ ~Dead(m.id)'
          /\ \A i : i # m.id => (ToTry(i)' <=> ToTry(i)) /\ (Dead(i)' <=> Dead(i))
      BY <1>4, <1>6, <3>1
    <3>3. \A i, S : InHand(i, S)' <=> "send" \in S /\ i = m.id
      BY <3>1 DEF InHand, task
    <3>4. \A i : ~InHand(i, Working)
      BY <2>4, <3>1 DEF Working
    <3>5. ASSUME NEW i \in Ids, i # m.id PROVE StageOf(i)'
      BY <1>8, <2>1, <3>1, <3>2, <3>3, <3>4, <3>5
    <3>6. m.id \in arrived /\ Unmailed(m.id, "pending") /\ Parked(m.id) = {}
      BY <1>3, <3>2 DEF StageOf
    <3>7. PICK j : j = m.id
      OBVIOUS
    <3>8. Unmailed(j, "pending")' /\ Parked(j)' = {} /\ j \in arrived'
      BY <2>1, <3>1, <3>6, <3>7 DEF Unmailed
    <3>9. StageOf(j)'
      BY <3>2, <3>3, <3>7, <3>8 DEF StageOf, Working
    <3> QED
      BY <3>2, <3>5, <3>7, <3>9 DEF StageIsKnown
  <2>10. CASE CircuitOpen
    <3>1. /\ worker.step = "send" /\ Requeue("email", task) /\ worker' = Idle
          /\ UNCHANGED <<status, mails, swallowed>>
      BY <2>10 DEF CircuitOpen, At, Done, workerHistory
    <3>2. /\ OneCopyEach' /\ \A i : (ToTry(i)' <=> ToTry(i) \/ i = t) /\ (Dead(i)' <=> Dead(i))
      BY <1>4, <1>5, <2>2, <2>3, <2>7, <3>1
    <3>3. Unmailed(t, "pending")' /\ Parked(t)' = {} /\ t \in arrived'
      BY <2>1, <2>7, <3>1 DEF Unmailed
    <3>4. StageOf(t)'
      BY <2>6, <2>7, <3>1, <3>2, <3>3 DEF StageOf
    <3> QED
      BY <2>8, <3>1, <3>2, <3>4
  <2>11. CASE CircuitHalfOpens
    <3>1. /\ worker.step = "send" /\ Goto("sent") /\ swallowed' = swallowed \cup {t}
          /\ UNCHANGED <<queue, status, mails>>
      BY <2>2, <2>11 DEF CircuitHalfOpens, At, shared
    <3>2. /\ worker'.step = "sent" /\ task' = task /\ OneCopyEach'
          /\ \A i : (ToTry(i)' <=> ToTry(i)) /\ (Dead(i)' <=> Dead(i))
      BY <1>7, <2>3, <3>1
    <3>3. MailedOnce(t)' /\ Parked(t)' = {} /\ t \in arrived'
      BY <2>1, <2>7, <3>1 DEF MailedOnce
    <3>4. StageOf(t)'
      <4>1. /\ InHand(t, {"sent"})' /\ ~InHand(t, {"send", "failed"})'
            /\ ~InHand(t, {"reject"})' /\ InHand(t, Working)'
        BY <2>5, <3>2
      <4> QED
        BY <2>7, <3>1, <3>2, <3>3, <4>1 DEF StageOf
    <3> QED
      BY <2>8, <3>1, <3>2, <3>4
  <2>12. CASE StartSend \/ OtherCall \/ OtherReturns \/ Time \/ SmtpChanges
    <3>1. UNCHANGED <<queue, status, mails, worker, swallowed>>
      BY <2>12 DEF StartSend, OtherCall, OtherReturns, Time, SmtpChanges, shared, workerHistory
    <3>2. OneCopyEach' /\ \A i : (ToTry(i)' <=> ToTry(i)) /\ (Dead(i)' <=> Dead(i))
      BY <1>7, <3>1
    <3> QED
      BY <1>8, <2>1, <3>1, <3>2 DEF StageIsKnown
  <2>13. CASE SendOk
    <3>1. /\ worker.step = "send" /\ Goto("sent") /\ mails' = [mails EXCEPT ![t] = mails[t] + 1]
          /\ UNCHANGED <<queue, status, swallowed>>
      BY <2>2, <2>13 DEF SendOk, At, workerHistory
    <3>2. /\ worker'.step = "sent" /\ task' = task /\ OneCopyEach'
          /\ \A i : (ToTry(i)' <=> ToTry(i)) /\ (Dead(i)' <=> Dead(i))
      BY <1>7, <2>3, <3>1
    <3>3. mails'[t] = 1
      BY <1>1, <2>3, <2>7, <3>1
    <3>4. MailedOnce(t)' /\ Parked(t)' = {} /\ t \in arrived'
      BY <2>1, <2>7, <3>1, <3>3 DEF MailedOnce
    <3>5. StageOf(t)'
      <4>1. /\ InHand(t, {"sent"})' /\ ~InHand(t, {"send", "failed"})'
            /\ ~InHand(t, {"reject"})' /\ InHand(t, Working)'
        BY <2>5, <3>2
      <4> QED
        BY <2>7, <3>1, <3>2, <3>4, <4>1 DEF StageOf
    <3> QED
      BY <1>1, <2>8, <3>1, <3>2, <3>5
  <2>14. CASE SendFails
    <3>1. /\ worker.step = "send" /\ Goto("failed") /\ UNCHANGED <<queue, status, mails, swallowed>>
      BY <1>2, <2>14 DEF SendFails, At, workerHistory
    <3>2. /\ worker'.step = "failed" /\ task' = task /\ OneCopyEach'
          /\ \A i : (ToTry(i)' <=> ToTry(i)) /\ (Dead(i)' <=> Dead(i))
      BY <1>7, <2>3, <3>1
    <3>3. Unmailed(t, "pending")' /\ Parked(t)' = {} /\ t \in arrived'
      BY <2>1, <2>7, <3>1 DEF Unmailed
    <3>4. StageOf(t)'
      <4>1. /\ ~InHand(t, {"sent"})' /\ InHand(t, {"send", "failed"})'
            /\ ~InHand(t, {"reject"})' /\ InHand(t, Working)'
        BY <2>5, <3>2
      <4> QED
        BY <2>7, <3>1, <3>2, <3>3, <4>1 DEF StageOf
    <3> QED
      BY <2>8, <3>1, <3>2, <3>4
  <2>15. CASE MarkDelivering
    <3>1. /\ worker.step = "sent" /\ Goto("ack") /\ status' = [status EXCEPT ![t] = "delivering"]
          /\ UNCHANGED <<queue, mails, swallowed>>
      BY <1>2, <2>2, <2>15 DEF MarkDelivering, At, UpdateDeliveryStatus, workerHistory
    <3>2. /\ worker'.step = "ack" /\ task' = task /\ OneCopyEach'
          /\ \A i : (ToTry(i)' <=> ToTry(i)) /\ (Dead(i)' <=> Dead(i))
      BY <1>7, <2>3, <3>1
    <3>3. /\ ~ToTry(t) /\ ~Dead(t) /\ t \in arrived /\ MailedOnce(t) /\ Parked(t) = {}
      BY <1>3, <2>3, <2>4, <3>1 DEF StageOf, Working
    <3>4. MailedOnce(t)' /\ Parked(t)' = {} /\ t \in arrived' /\ status'[t] = "delivering"
      BY <1>1, <2>1, <2>3, <3>1, <3>3 DEF MailedOnce
    <3>5. StageOf(t)'
      BY <2>5, <3>2, <3>3, <3>4 DEF StageOf, Working
    <3> QED
      BY <1>1, <2>8, <3>1, <3>2, <3>5
  <2>16. CASE Retry
    <3>1. /\ worker.step = "failed" /\ RetriesLeft(task) /\ Goto("ack")
          /\ Enqueue("email.retry", NextAttempt(task)) /\ UNCHANGED <<status, mails, swallowed>>
      BY <1>2, <2>16 DEF Retry, At, PublishDropped, workerHistory
    <3>2. NextAttempt(task) \in Task /\ NextAttempt(task).id = t
      BY <2>2, <2>3, <3>1, NewTasks
    <3>3. /\ worker'.step = "ack" /\ task' = task /\ OneCopyEach'
          /\ \A i : (ToTry(i)' <=> ToTry(i) \/ i = t) /\ (Dead(i)' <=> Dead(i))
      BY <1>4, <1>5, <2>3, <2>7, <3>1, <3>2
    <3>4. Unmailed(t, "pending")' /\ Parked(t)' = {} /\ t \in arrived'
      BY <2>1, <2>7, <3>1 DEF Unmailed
    <3>5. StageOf(t)'
      <4>1. /\ ~InHand(t, {"sent"})' /\ ~InHand(t, {"send", "failed"})'
            /\ ~InHand(t, {"reject"})' /\ ~InHand(t, Working)'
        BY <2>5, <3>3
      <4> QED
        BY <2>7, <3>1, <3>3, <3>4, <4>1 DEF StageOf
    <3> QED
      BY <2>8, <3>1, <3>3, <3>5
  <2>17. CASE MarkFailed
    <3>1. /\ worker.step = "failed" /\ Goto("reject") /\ status' = [status EXCEPT ![t] = "failed"]
          /\ UNCHANGED <<queue, mails, swallowed>>
      BY <1>2, <2>2, <2>17 DEF MarkFailed, At, UpdateDeliveryStatus, workerHistory
    <3>2. /\ worker'.step = "reject" /\ task' = task /\ OneCopyEach'
          /\ \A i : (ToTry(i)' <=> ToTry(i)) /\ (Dead(i)' <=> Dead(i))
      BY <1>7, <2>3, <3>1
    <3>3. Unmailed(t, "failed")' /\ Parked(t)' = {} /\ t \in arrived'
      BY <1>1, <2>1, <2>3, <2>7, <3>1 DEF Unmailed
    <3>4. StageOf(t)'
      <4>1. /\ ~InHand(t, {"sent"})' /\ ~InHand(t, {"send", "failed"})'
            /\ InHand(t, {"reject"})' /\ InHand(t, Working)'
        BY <2>5, <3>2
      <4> QED
        BY <2>7, <3>1, <3>2, <3>3, <4>1 DEF StageOf
    <3> QED
      BY <1>1, <2>8, <3>1, <3>2, <3>4
  <2>18. CASE Ack
    <3>1. worker.step = "ack" /\ worker' = Idle /\ UNCHANGED <<queue, status, mails, swallowed>>
      BY <2>18 DEF Ack, At, Done, shared, workerHistory
    <3>2. OneCopyEach' /\ \A i : (ToTry(i)' <=> ToTry(i)) /\ (Dead(i)' <=> Dead(i))
      BY <1>7, <3>1
    <3>3. \A i : ~InHand(i, Working) /\ ~InHand(i, Working)'
      BY <2>4, <2>6, <3>1 DEF Working
    <3> QED
      BY <1>8, <2>1, <3>1, <3>2, <3>3 DEF StageIsKnown
  <2>19. CASE RejectToDLQ
    <3>1. /\ worker.step = "reject" /\ Enqueue("email.dlq", task) /\ worker' = Idle
          /\ UNCHANGED <<status, mails, swallowed>>
      BY <2>19 DEF RejectToDLQ, At, Done, workerHistory
    <3>2. /\ ~ToTry(t) /\ ~Dead(t) /\ t \in arrived /\ Unmailed(t, "failed") /\ Parked(t) = {}
      BY <1>3, <2>3, <2>4, <3>1 DEF StageOf, Working
    <3>3. /\ OneCopyEach' /\ \A i : (ToTry(i)' <=> ToTry(i)) /\ (Dead(i)' <=> Dead(i) \/ i = t)
      BY <1>4, <1>5, <2>2, <2>3, <3>1, <3>2
    <3>4. Unmailed(t, "failed")' /\ Parked(t)' = {} /\ t \in arrived'
      BY <2>1, <3>1, <3>2 DEF Unmailed
    <3>5. StageOf(t)'
      BY <2>6, <3>1, <3>2, <3>3, <3>4 DEF StageOf
    <3> QED
      BY <2>8, <3>1, <3>3, <3>5
  <2>20. CASE RetryExpires
    <3>1. UNCHANGED <<status, mails, worker, swallowed>>
      BY <2>20 DEF RetryExpires, workerVars
    <3>2. OneCopyEach' /\ \A i : (ToTry(i)' <=> ToTry(i)) /\ (Dead(i)' <=> Dead(i))
      BY <1>1, <1>3, <2>20, OneExpiry
    <3> QED
      BY <1>8, <2>1, <3>1, <3>2 DEF StageIsKnown
  <2> QED
    BY <1>2, <1>11, <2>9, <2>10, <2>11, <2>12, <2>13, <2>14, <2>15, <2>16, <2>17, <2>18, <2>19, <2>20
       DEF WorkerNext, HandleMessage, CrashWorker
<1>12. ASSUME WebhookNext, UNCHANGED <<workerVars, deadVars, arrived>>
       PROVE  OneCopyEach' /\ StageIsKnown'
  <2>1. UNCHANGED <<worker, swallowed, rows, arrived>>
    BY <1>12 DEF workerVars, deadVars
  <2>2. OneCopyEach' /\ \A i : (ToTry(i)' <=> ToTry(i)) /\ (Dead(i)' <=> Dead(i))
    BY <1>7, <1>12, QueuesApart
  <2>3. mails' = mails
    BY <1>12 DEF WebhookNext, WebhookWork, PostWebhook, HandleWebhook, AckWebhook, CrashWebhook, shared
  <2>4. CASE status' = status
    BY <1>8, <2>1, <2>2, <2>3, <2>4 DEF StageIsKnown
  <2>5. CASE HandleWebhook
    <3>1. PICK m : Take("webhook_mailpit", m) /\ UpdateDeliveryStatus(m.id, "sent")
      BY <2>5 DEF HandleWebhook
    <3>2. m \in Task /\ m.id \in Ids /\ mails[m.id] > 0
      BY <1>1, <1>4, <3>1, GotFacts DEF Got, Task, WebhooksAreTrue
    <3>3. PICK j : j = m.id
      OBVIOUS
    <3>4. status' = [status EXCEPT ![j] = "sent"] /\ j \in Ids /\ mails[j] # 0
      BY <1>1, <3>1, <3>2, <3>3 DEF UpdateDeliveryStatus
    <3>5. ASSUME NEW i \in Ids, i # j PROVE StageOf(i)'
      BY <1>1, <1>8, <2>1, <2>2, <2>3, <3>4, <3>5
    <3>6. /\ \A S : InHand(j, S)' <=> InHand(j, S)
          /\ MailedOnce(j)' <=> MailedOnce(j)
          /\ Parked(j)' = Parked(j) /\ arrived' = arrived /\ status'[j] = "sent"
      BY <1>1, <1>9, <2>1, <2>3, <3>4 DEF InHand, task, MailedOnce
    <3>7. StageOf(j) /\ ~Unmailed(j, "pending") /\ ~Unmailed(j, "failed")
      BY <1>3, <3>4 DEF Unmailed
    <3>8. StageOf(j)'
      BY <2>2, <3>4, <3>6, <3>7 DEF StageOf
    <3> QED
      BY <2>2, <3>5, <3>8 DEF StageIsKnown
  <2> QED
    BY <1>12, <2>4, <2>5 DEF WebhookNext, WebhookWork, PostWebhook, AckWebhook, CrashWebhook, shared
<1>13. ASSUME DeadNext, UNCHANGED <<workerVars, webhookVars, arrived>>
       PROVE  OneCopyEach' /\ StageIsKnown'
  <2>1. UNCHANGED <<worker, swallowed, arrived>>
    BY <1>13 DEF workerVars
  <2>2. CASE SaveToDLQ
    <3>1. PICK m : /\ Take("email.dlq", m) /\ UNCHANGED <<status, mails>>
                   /\ rows' = Append(rows, [id |-> m.id, status |-> "pending"])
      BY <2>2 DEF SaveToDLQ
    <3>2. PICK j : j = m.id
      OBVIOUS
    <3>3. /\ OneCopyEach' /\ m \in Task /\ j \in Ids /\ Dead(j) /\ ~ToTry(j)' /\ ~Dead(j)'
          /\ \A i : i # j => (ToTry(i)' <=> ToTry(i)) /\ (Dead(i)' <=> Dead(i))
      BY <1>4, <1>6, <3>1, <3>2
    <3>4. /\ ~InHand(j, Working) /\ Unmailed(j, "failed") /\ Parked(j) = {} /\ j \in arrived
      BY <1>3, <3>3 DEF StageOf
    <3>5. /\ Len(rows) \in Nat /\ DOMAIN rows = 1..Len(rows) /\ DOMAIN rows' = 1..(Len(rows) + 1)
          /\ Len(rows') = Len(rows) + 1
          /\ \A k \in 1..Len(rows) : rows'[k] = rows[k] /\ rows'[Len(rows) + 1].id = j
          /\ rows'[Len(rows) + 1].id = j
      <4>1. rows \in Seq(RowSet) /\ [id |-> m.id, status |-> "pending"] \in RowSet
        BY <3>3 DEF TypeOK, RowsOK, RowSet, Task
      <4>2. /\ Len(rows') = Len(rows) + 1 /\ rows' \in Seq(RowSet) /\ Len(rows) \in Nat
            /\ rows'[Len(rows) + 1] = [id |-> m.id, status |-> "pending"]
            /\ \A k \in 1..Len(rows) : rows'[k] = rows[k]
        BY <3>1, <4>1, AppendProperties, LenProperties
      <4>3. DOMAIN rows' = 1..Len(rows') /\ DOMAIN rows = 1..Len(rows)
        BY <4>1, <4>2, LenProperties
      <4> QED
        BY <3>2, <4>2, <4>3
    <3>6. \A i : i # j => Parked(i)' = Parked(i)
      BY <3>5 DEF Parked
    <3>7. Parked(j)' = {Len(rows')} /\ Len(rows') \in 1..Len(rows')
      BY <3>4, <3>5 DEF Parked
    <3>8. \A i : /\ \A S : InHand(i, S)' <=> InHand(i, S)
                 /\ MailedOnce(i)' <=> MailedOnce(i)
                 /\ \A s : Unmailed(i, s)' <=> Unmailed(i, s)
      BY <2>1, <3>1 DEF InHand, task, MailedOnce, Unmailed
    <3>9. StageOf(j)'
      <4>1. ~InHand(j, {"send", "failed"}) /\ ~InHand(j, {"reject"}) /\ ~InHand(j, {"sent"})
        BY <3>4 DEF InHand, Working
      <4> QED
        BY <2>1, <3>3, <3>4, <3>7, <3>8, <4>1 DEF StageOf
    <3>10. ASSUME NEW i \in Ids, i # j PROVE StageOf(i)'
      <4>1. (\E k \in 1..Len(rows) : Parked(i) = {k}) => \E k \in 1..Len(rows') : Parked(i)' = {k}
        BY <3>5, <3>6, <3>10
      <4>2. StageOf(i) /\ Parked(i)' = Parked(i) /\ (ToTry(i)' <=> ToTry(i)) /\ (Dead(i)' <=> Dead(i))
        BY <1>3, <3>3, <3>6, <3>10
      <4> QED
        BY <2>1, <3>1, <3>8, <4>1, <4>2 DEF StageOf
    <3> QED
      BY <3>3, <3>9, <3>10 DEF StageIsKnown
  <2>3. CASE AckDead
    <3>1. UNCHANGED <<queue, status, mails, rows>>
      BY <2>3 DEF AckDead, shared
    <3>2. OneCopyEach' /\ \A i : (ToTry(i)' <=> ToTry(i)) /\ (Dead(i)' <=> Dead(i))
      BY <1>7, <3>1
    <3> QED
      BY <1>8, <2>1, <3>1, <3>2 DEF StageIsKnown
  <2>4. ~CrashDead
    BY <1>2 DEF CrashDead
  <2>5. ASSUME NEW a \in Admins, LoadRow(a) \/ Replay(a) \/ CrashApi(a) PROVE FALSE
    <3>1. admin[a].step = "idle"
      BY <1>2, <2>5 DEF TypeOK, AdminsOK
    <3>2. LoadRow(a)
      BY <2>5, <3>1 DEF Replay, PublishReplay, MarkReplayed, ResetStatus, CrashApi
    <3> QED
      BY <1>2, <3>2 DEF LoadRow
  <2> QED
    BY <1>13, <2>2, <2>3, <2>4, <2>5 DEF DeadNext, DeadWork
<1>14. CASE UNCHANGED vars
  <2>1. UNCHANGED <<queue, status, mails, worker, swallowed, rows, arrived>>
    BY <1>14 DEF vars, shared, workerVars, deadVars
  <2>2. OneCopyEach' /\ \A i : (ToTry(i)' <=> ToTry(i)) /\ (Dead(i)' <=> Dead(i))
    BY <1>7, <2>1
  <2> QED
    BY <1>8, <2>1, <2>2 DEF StageIsKnown
<1> QED
  BY <1>10, <1>11, <1>12, <1>13, <1>14 DEF Next

-----------------------------------------------------------------------------
(* The budget of attempts *)

\* What is left to try in the two queues is a number, and changes with their messages.
LEMMA QueuedIs ==
  ASSUME QueuesOK
  PROVE  \A i : Left("email", i) \in Nat /\ Left("email.retry", i) \in Nat /\ Queued(i) \in Nat
<1>1. queue["email"] \in Seq(Task) /\ queue["email.retry"] \in Seq(Task)
  BY DEF QueuesOK, Queues
<1>2. \A i : Left("email", i) \in Nat /\ Left("email.retry", i) \in Nat
  BY <1>1, CellsFinite DEF Left
<1> QED
  BY <1>2 DEF Queued

LeftIn(q, m, i) == IF q \in TryQueues THEN TriesOf(m, i) ELSE 0

\* A publish or a requeue adds the tries of its message to those two queues only.
LEMMA QueuedPut ==
  ASSUME QueuesOK, NEW q \in Queues, NEW m \in Task, Enqueue(q, m) \/ Requeue(q, m)
  PROVE  \A i : Queued(i)' = Queued(i) + LeftIn(q, m, i)
<1>1. Others(q) /\ \A i : Left(q, i)' = Left(q, i) + TriesOf(m, i)
  BY PutFacts DEF Put
<1>2. \A p \in Queues \ {q} : \A i : Left(p, i)' = Left(p, i)
  BY <1>1 DEF Others, Left
<1>3. MaxRetries \in Nat /\ \A i : TriesOf(m, i) \in Nat
  BY BrokerAssumption DEF TriesOf, Tries, Task
<1>4. \A i : Left("email", i) \in Nat /\ Left("email.retry", i) \in Nat
  BY QueuedIs
<1>5. "email" \in Queues /\ "email.retry" \in Queues
  BY DEF Queues
<1>6. CASE q = "email"
  BY <1>1, <1>2, <1>3, <1>4, <1>5, <1>6 DEF Queued, LeftIn, TryQueues
<1>7. CASE q = "email.retry"
  BY <1>1, <1>2, <1>3, <1>4, <1>5, <1>7 DEF Queued, LeftIn, TryQueues
<1>8. CASE q \notin {"email", "email.retry"}
  BY <1>1, <1>2, <1>4, <1>5, <1>8 DEF Queued, LeftIn, TryQueues
<1> QED
  BY <1>6, <1>7, <1>8

\* A delivery takes them away.
LEMMA QueuedGot ==
  ASSUME QueuesOK, NEW q \in Queues, NEW m, Take(q, m)
  PROVE  m \in Task /\ \A i : Queued(i)' = Queued(i) - LeftIn(q, m, i)
<1>1. Others(q) /\ QueuesOK' /\ m \in Task /\ \A i : Left(q, i) = Left(q, i)' + TriesOf(m, i)
  BY GotFacts DEF Got
<1>2. \A p \in Queues \ {q} : \A i : Left(p, i)' = Left(p, i)
  BY <1>1 DEF Others, Left
<1>3. MaxRetries \in Nat /\ \A i : TriesOf(m, i) \in Nat
  BY <1>1, BrokerAssumption DEF TriesOf, Tries, Task
<1>4. \A i : Left("email", i) \in Nat /\ Left("email.retry", i) \in Nat
  BY QueuedIs
<1>5. "email" \in Queues /\ "email.retry" \in Queues
  BY DEF Queues
<1>6. queue'["email"] \in Seq(Task) /\ queue'["email.retry"] \in Seq(Task)
  BY <1>1, <1>5 DEF QueuesOK
<1>7. \A i : Left("email", i)' \in Nat /\ Left("email.retry", i)' \in Nat
  BY <1>6, CellsFinite DEF Left
<1>8. CASE q = "email"
  BY <1>1, <1>2, <1>3, <1>4, <1>5, <1>7, <1>8 DEF Queued, LeftIn, TryQueues
<1>9. CASE q = "email.retry"
  BY <1>1, <1>2, <1>3, <1>4, <1>5, <1>7, <1>9 DEF Queued, LeftIn, TryQueues
<1>10. CASE q \notin {"email", "email.retry"}
  BY <1>1, <1>2, <1>4, <1>5, <1>10 DEF Queued, LeftIn, TryQueues
<1> QED
  BY <1>1, <1>8, <1>9, <1>10

\* An expiry changes nothing about them.
LEMMA QueuedExpiry ==
  ASSUME QueuesOK, RetryExpires
  PROVE  \A i : Queued(i)' = Queued(i)
<1>1. PICK m \in Task : \A i : /\ Left("email.retry", i) = Left("email.retry", i)' + TriesOf(m, i)
                               /\ Left("email", i)' = Left("email", i) + TriesOf(m, i)
  BY ExpiryFacts
<1>2. MaxRetries \in Nat /\ \A i : TriesOf(m, i) \in Nat
  BY BrokerAssumption DEF TriesOf, Tries, Task
<1>3. QueuesOK' /\ "email.retry" \in Queues
  BY ExpiryFacts DEF Queues
<1>4. queue'["email.retry"] \in Seq(Task)
  BY <1>3 DEF QueuesOK
<1>5. \A i : Left("email.retry", i)' \in Nat
  BY <1>4, CellsFinite DEF Left
<1>6. \A i : Left("email", i) \in Nat /\ Left("email.retry", i) \in Nat
  BY QueuedIs
<1> QED
  BY <1>1, <1>2, <1>5, <1>6 DEF Queued

\* What the worker has still to try of its message, by where it is.
LEMMA LeftInHandIs ==
  ASSUME ConsumersOK
  PROVE  /\ \A i : LeftInHand(i) \in Nat
         /\ worker.step = "idle" => \A i : LeftInHand(i) = 0
         /\ worker.step # "idle" =>
              /\ task \in Task /\ task.id \in Ids /\ task.retryCount \in 0..MaxRetries
              /\ \A i : i # task.id => LeftInHand(i) = 0
              /\ LeftInHand(task.id) =
                   CASE worker.step = "send" /\ pc[Email] # "running" -> Tries - task.retryCount
                     [] worker.step = "send" /\ pc[Email] = "running" -> MaxRetries - task.retryCount
                     [] worker.step = "failed" -> MaxRetries - task.retryCount
                     [] OTHER -> 0
<1>1. MaxRetries \in Nat /\ Tries = MaxRetries + 1
  BY BrokerAssumption DEF Tries
<1>2. CASE worker.step = "idle"
  BY <1>2 DEF LeftInHand, InHand
<1>3. CASE worker.step # "idle"
  <2>1. /\ task \in Task /\ task.id \in Ids /\ task.retryCount \in 0..MaxRetries
        /\ worker.step \in {"send", "sent", "failed", "ack", "reject"}
    BY <1>3, WorkerFacts
  <2> QED
    BY <1>1, <1>3, <2>1 DEF LeftInHand, InHand
<1> QED
  BY <1>2, <1>3

\* Multiplying by the number of tries keeps an order.
LEMMA TriesTimes ==
  ASSUME NEW a \in Nat, NEW b \in Nat
  PROVE  /\ Tries \in Nat /\ Tries * a \in Nat /\ Tries * (a + 1) = Tries * a + Tries
         /\ Tries * (a + b) = Tries * a + Tries * b
         /\ a <= b => Tries * a <= Tries * b
<1>1. Tries \in Nat
  BY BrokerAssumption DEF Tries
<1>2. \A c \in Nat : Tries * c \in Nat
  BY <1>1
<1>3. \A c, d \in Nat : Tries * (c + d) = Tries * c + Tries * d
  BY <1>1
<1>4. ASSUME a <= b PROVE Tries * a <= Tries * b
  <2>1. PICK c \in Nat : b = a + c
    <3>1. b - a \in Nat /\ b = a + (b - a)
      BY <1>4
    <3> QED
      BY <3>1
  <2>2. Tries * b = Tries * a + Tries * c
    BY <1>3, <2>1
  <2> QED
    BY <1>2, <2>2
<1>5. Tries * 1 = Tries
  BY <1>1
<1> QED
  BY <1>1, <1>2, <1>3, <1>4, <1>5

\* A step keeps the budget when what it adds is paid by a fault, by a replay that
\* begins, or by one that is no longer due.
LEMMA BudgetSum ==
  ASSUME NEW u \in Nat, NEW v \in Nat, NEW d \in Nat, NEW e \in Nat, NEW b \in Nat, NEW c \in Nat,
         NEW k \in Nat, u + Tries * d <= Tries * b, v <= u + Tries * k, k + e + b <= d + c
  PROVE  v + Tries * e <= Tries * c
<1>1. k + e \in Nat /\ (k + e) + b \in Nat /\ d + c \in Nat /\ (k + e) + b <= d + c
  OBVIOUS
<1>2. Tries * (k + e) = Tries * k + Tries * e
  BY TriesTimes
<1>3. Tries * ((k + e) + b) = Tries * (k + e) + Tries * b
  BY <1>1, TriesTimes
<1>4. Tries * (d + c) = Tries * d + Tries * c
  BY TriesTimes
<1>5. Tries * ((k + e) + b) <= Tries * (d + c)
  BY <1>1, TriesTimes
<1>6. /\ Tries * k \in Nat /\ Tries * e \in Nat /\ Tries * b \in Nat
      /\ Tries * d \in Nat /\ Tries * c \in Nat
  BY TriesTimes
<1> DEFINE tk == Tries * k  te == Tries * e  tb == Tries * b  td == Tries * d  tc == Tries * c
<1>7. /\ tk \in Nat /\ te \in Nat /\ tb \in Nat /\ td \in Nat /\ tc \in Nat
      /\ tk + te + tb <= td + tc /\ u + td <= tb /\ v <= u + tk
  BY <1>2, <1>3, <1>4, <1>5, <1>6
<1> HIDE DEF tk, te, tb, td, tc
<1>8. v + te <= tc
  BY <1>7
<1> QED
  BY <1>8 DEF te, tc

\* The email subscription spends what it takes, and only a fault gives some back.
LEMMA WorkerSpends ==
  ASSUME TypeOK, WorkerNext, UNCHANGED <<webhookVars, deadVars, arrived>>, NEW i \in Ids
  PROVE  \/ Used(i)' <= Used(i)
         \/ Used(i)' <= Used(i) + Tries /\ faults' = faults + 1
<1>1. /\ QueuesOK /\ ConsumersOK /\ QueuesOK' /\ ConsumersOK' /\ attempts \in [Ids -> Nat]
      /\ MaxRetries \in Nat /\ Tries = MaxRetries + 1 /\ arrived' = arrived /\ Email \in DOMAIN pc
      /\ {"email", "email.retry", "email.dlq"} \subseteq Queues /\ faults \in Nat
  <2>1. [Next]_vars
    BY DEF Next
  <2> QED
    BY <2>1, BrokerAssumption, QueuesStep, ConsumersStep
       DEF TypeOK, TablesOK, ConsumersOK, Callers, Queues, Tries
<1>2. PICK t, r : t = task.id /\ r = task.retryCount
  OBVIOUS
<1>3. /\ attempts[i] \in Nat /\ Queued(i) \in Nat /\ LeftInHand(i) \in Nat /\ ToCome(i) \in Nat
      /\ ToCome(i)' = ToCome(i)
  BY <1>1, QueuedIs, LeftInHandIs DEF ToCome
\* What it held.
<1>4. ASSUME worker.step # "idle"
      PROVE  /\ task \in Task /\ t \in Ids /\ r \in 0..MaxRetries
             /\ TriesOf(task, i) = (IF t = i THEN Tries - r ELSE 0) /\ TriesOf(task, i) \in Nat
             /\ worker.step = "send" /\ pc[Email] # "running" => LeftInHand(i) = TriesOf(task, i)
             /\ (worker.step = "send" /\ pc[Email] = "running") \/ worker.step = "failed" =>
                  LeftInHand(i) = IF t = i THEN MaxRetries - r ELSE 0
             /\ worker.step \in {"sent", "ack", "reject"} => LeftInHand(i) = 0
  BY <1>1, <1>2, <1>4, WorkerFacts DEF LeftInHand, InHand, TriesOf
\* What it holds after the step.
<1>5. ASSUME worker' = Idle \/ \E s \in {"sent", "ack", "reject"} : worker'.step = s
      PROVE  LeftInHand(i)' = 0
  BY <1>5 DEF LeftInHand, InHand, Idle
<1>6. ASSUME worker.step # "idle", Goto("failed")
      PROVE  LeftInHand(i)' = IF t = i THEN MaxRetries - r ELSE 0
  <2>1. worker'.step = "failed" /\ task' = task
    BY <1>1, <1>6, WorkerFacts
  <2> QED
    BY <1>2, <2>1 DEF LeftInHand, InHand
<1>7. ASSUME worker.step # "idle", NEW s \in {"sent", "ack", "reject"}, Goto(s) PROVE LeftInHand(i)' = 0
  BY <1>1, <1>5, <1>7, WorkerFacts
<1>8. ASSUME NEW q \in Queues, worker.step # "idle", Enqueue(q, task) \/ Requeue(q, task)
      PROVE  Queued(i)' = Queued(i) + (IF q \in TryQueues THEN TriesOf(task, i) ELSE 0)
  BY <1>1, <1>4, <1>8, QueuedPut DEF LeftIn
<1>9. ASSUME UNCHANGED queue PROVE Queued(i)' = Queued(i)
  BY <1>9 DEF Queued, Left
<1>10. "email" \in TryQueues /\ "email.retry" \in TryQueues /\ "email.dlq" \notin TryQueues
  BY DEF TryQueues
<1>11. CASE Receive
  <2>1. PICK m : /\ Take("email", m) /\ worker.step = "idle" /\ attempts' = attempts
                 /\ worker' = [step |-> "send", task |-> m] /\ B!Call(Email)
    BY <1>11 DEF Receive, At, workerHistory
  <2>2. m \in Task /\ Queued(i)' = Queued(i) - TriesOf(m, i)
    BY <1>1, <1>10, <2>1, QueuedGot DEF LeftIn
  <2>3. pc'[Email] = "waiting"
    BY <1>1, <2>1, BreakerFacts
  <2>4. LeftInHand(i)' = TriesOf(m, i) /\ TriesOf(m, i) \in Nat
    BY <1>1, <2>1, <2>2, <2>3 DEF LeftInHand, InHand, task, TriesOf, Task
  <2> QED
    BY <1>3, <2>1, <2>2, <2>4 DEF Used
<1>12. CASE CircuitOpen
  <2>1. /\ worker.step = "send" /\ pc[Email] # "running" /\ Requeue("email", task)
        /\ worker' = Idle /\ attempts' = attempts
    BY <1>12, BreakerFacts DEF CircuitOpen, At, Done, workerHistory
  <2> QED
    BY <1>1, <1>3, <1>4, <1>5, <1>8, <1>10, <2>1 DEF Used
<1>13. CASE CircuitHalfOpens \/ SendOk \/ MarkDelivering \/ MarkFailed
  <2>1. /\ worker.step # "idle" /\ UNCHANGED queue /\ attempts' = attempts
        /\ Goto("sent") \/ Goto("ack") \/ Goto("reject")
    BY <1>13 DEF CircuitHalfOpens, SendOk, MarkDelivering, MarkFailed, At, shared, workerHistory
  <2> QED
    BY <1>3, <1>7, <1>9, <2>1 DEF Used
<1>14. CASE StartSend
  <2>1. /\ worker.step = "send" /\ B!Begin(Email) /\ UNCHANGED queue /\ worker' = worker
        /\ attempts' = [attempts EXCEPT ![t] = attempts[t] + 1]
    BY <1>2, <1>14 DEF StartSend, At, shared
  <2>2. pc[Email] # "running" /\ pc'[Email] = "running"
    BY <1>1, <2>1, BreakerFacts
  <2>3. LeftInHand(i)' = IF t = i THEN MaxRetries - r ELSE 0
    BY <1>2, <2>1, <2>2 DEF LeftInHand, InHand, task
  <2>4. attempts'[i] = attempts[i] + (IF t = i THEN 1 ELSE 0)
    BY <1>1, <2>1
  <2> QED
    BY <1>1, <1>3, <1>4, <1>9, <2>1, <2>2, <2>3, <2>4 DEF Used
<1>15. CASE SendFails
  <2>1. /\ worker.step = "send" /\ pc[Email] = "running" /\ UNCHANGED queue /\ Goto("failed")
        /\ attempts' = attempts
    BY <1>15, BreakerFacts DEF SendFails, At, workerHistory
  <2> QED
    BY <1>3, <1>4, <1>6, <1>9, <2>1 DEF Used
<1>16. CASE Retry
  <2>1. worker.step = "failed" /\ RetriesLeft(task) /\ attempts' = attempts
    BY <1>16 DEF Retry, At, workerHistory
  <2>2. CASE Enqueue("email.retry", NextAttempt(task)) /\ Goto("ack")
    <3>1. /\ NextAttempt(task) \in Task
          /\ TriesOf(NextAttempt(task), i) = (IF t = i THEN Tries - (r + 1) ELSE 0)
      BY <1>2, <1>4, <2>1, NewTasks DEF TriesOf
    <3>2. Queued(i)' = Queued(i) + TriesOf(NextAttempt(task), i)
      BY <1>1, <1>10, <2>2, <3>1, QueuedPut DEF LeftIn
    <3> QED
      BY <1>1, <1>3, <1>4, <1>7, <2>1, <2>2, <3>1, <3>2 DEF Used
  <2>3. CASE PublishDropped(task) /\ Goto("ack")
    BY <1>3, <1>7, <1>9, <2>1, <2>3 DEF Used, PublishDropped
  <2>4. CASE Requeue("email", task) /\ Done /\ Fault
    BY <1>1, <1>3, <1>4, <1>5, <1>8, <1>10, <2>1, <2>4 DEF Used, Done, Fault
  <2> QED
    BY <1>16, <2>2, <2>3, <2>4 DEF Retry
<1>17. CASE Ack
  BY <1>3, <1>5, <1>9, <1>17 DEF Ack, Done, shared, workerHistory, Used
<1>18. CASE RejectToDLQ
  BY <1>1, <1>3, <1>5, <1>8, <1>10, <1>18 DEF RejectToDLQ, At, Done, workerHistory, Used
<1>19. CASE CrashWorker
  <2>1. worker' = Idle /\ attempts' = attempts /\ faults' = faults + 1
    BY <1>19 DEF CrashWorker, Done, Fault, workerHistory
  <2>2. CASE worker.step = "idle"
    BY <1>1, <1>3, <1>5, <1>9, <1>19, <2>1, <2>2 DEF CrashWorker, At, Used
  <2>3. CASE worker.step # "idle"
    <3>1. Queued(i)' = Queued(i) + TriesOf(task, i)
      BY <1>1, <1>8, <1>10, <1>19, <2>3 DEF CrashWorker, At
    <3> QED
      BY <1>1, <1>3, <1>4, <1>5, <2>1, <2>3, <3>1 DEF Used
  <2> QED
    BY <2>2, <2>3
<1>20. ASSUME worker' = worker, pc'[Email] = pc[Email], attempts' = attempts, Queued(i)' = Queued(i)
       PROVE  Used(i)' <= Used(i)
  <2>1. LeftInHand(i)' = LeftInHand(i)
    BY <1>20 DEF LeftInHand, InHand, task
  <2> QED
    BY <1>3, <1>20, <2>1 DEF Used
<1>21. CASE RetryExpires
  BY <1>1, <1>20, <1>21, QueuedExpiry DEF RetryExpires, workerVars, breaker
<1>22. CASE Time \/ SmtpChanges
  BY <1>9, <1>20, <1>22, BreakerFacts DEF Time, SmtpChanges, shared, workerHistory
<1>23. CASE OtherCall \/ OtherReturns
  <2>1. PICK c \in OtherCallers : B!Call(c) \/ B!Acquire(c) \/ B!End(c)
    BY <1>23 DEF OtherCall, OtherReturns
  <2>2. \E s : pc' = [pc EXCEPT ![c] = s]
    BY <2>1, BreakerFacts DEF B!Acquire, B!End
  <2>3. pc'[Email] = pc[Email]
    BY <1>1, <2>1, <2>2, GoroutinesAssumption
  <2> QED
    BY <1>9, <1>20, <1>23, <2>3 DEF OtherCall, OtherReturns, shared, workerHistory
<1> QED
  BY <1>11, <1>12, <1>13, <1>14, <1>15, <1>16, <1>17, <1>18, <1>19, <1>21, <1>22, <1>23
     DEF WorkerNext, HandleMessage

\* A replay is due until it publishes or ends, and only LoadRow makes one due.
LEMMA DueStep ==
  ASSUME TypeOK, [Next]_vars, NEW i
  PROVE  /\ (\A a \in Admins : ~LoadRow(a)) => Due(i)' \subseteq Due(i)
         /\ \A a \in Admins : LoadRow(a) => Due(i)' \subseteq Due(i) \cup {a}
         /\ \A a \in Admins : PublishReplay(a) => Due(i)' \subseteq Due(i) \ {a}
<1> DEFINE Kept(x) == admin'[x].step = "publish" => admin'[x] = admin[x]
<1>1. admin \in [Admins -> [step : {"idle", "publish", "mark", "reset"}, row : Nat]]
  BY DEF TypeOK, AdminsOK
<1>2. ASSUME NEW x \in Admins, Kept(x), x \in Due(i)' PROVE x \in Due(i)
  <2>1. admin[x].step = "publish" /\ admin'[x].row = admin[x].row /\ IdOf(x)' = i
    BY <1>2 DEF Due
  <2>2. RowOf(x)' = RowOf(x) /\ RowOf(x) \in 1..Len(rows)
    BY <2>1, AdminFacts DEF RowOf
  <2>3. IdOf(x) = i
    BY <2>1, <2>2, RowsStep DEF IdOf
  <2> QED
    BY <2>1, <2>3 DEF Due
<1>3. ASSUME NEW a \in Admins, LoadRow(a) PROVE \A x \in Admins \ {a} : Kept(x)
  BY <1>1, <1>3 DEF LoadRow
<1>4. ASSUME NEW a \in Admins, NEW s \in {"mark", "reset"}, Finish(a) \/ Step(a, s)
      PROVE  admin'[a].step # "publish" /\ \A x \in Admins : Kept(x)
  BY <1>1, <1>4 DEF Finish, Step, NoRequest
<1>5. ASSUME NEW a \in Admins, Replay(a) \/ CrashApi(a)
      PROVE  admin'[a].step # "publish" /\ \A x \in Admins : Kept(x)
  <2>1. \E s \in {"mark", "reset"} : Finish(a) \/ Step(a, s)
    BY <1>5 DEF Replay, PublishReplay, MarkReplayed, ResetStatus, CrashApi
  <2> QED
    BY <1>4, <2>1
<1>6. ASSUME \A a \in Admins : ~(LoadRow(a) \/ Replay(a) \/ CrashApi(a)) PROVE \A x \in Admins : Kept(x)
  <2>1. admin' = admin
    BY <1>6 DEF Next, HandOver, DeadNext, DeadWork, SaveToDLQ, AckDead, CrashDead, deadVars, vars
  <2> QED
    BY <2>1
<1>7. ASSUME NEW a \in Admins, LoadRow(a) PROVE Due(i)' \subseteq Due(i) \cup {a}
  <2>1. \A x \in Due(i)' : x \in Admins
    BY DEF Due
  <2> QED
    BY <1>2, <1>3, <1>7, <2>1
<1>8. ASSUME \A a \in Admins : ~LoadRow(a) PROVE Due(i)' \subseteq Due(i)
  <2>1. \A x \in Admins : Kept(x)
    BY <1>5, <1>6, <1>8
  <2>2. \A x \in Due(i)' : x \in Admins
    BY DEF Due
  <2> QED
    BY <1>2, <2>1, <2>2
<1>9. ASSUME NEW a \in Admins, PublishReplay(a) PROVE Due(i)' \subseteq Due(i) \ {a}
  <2>1. admin'[a].step # "publish" /\ \A x \in Admins : Kept(x)
    BY <1>5, <1>9 DEF Replay
  <2>2. \A x \in Due(i)' : x \in Admins /\ x # a
    BY <2>1 DEF Due
  <2> QED
    BY <1>2, <2>1, <2>2
<1> QED
  BY <1>7, <1>8, <1>9

UsedIsNat == \A i \in Ids : Used(i) \in Nat

\* These are numbers, in this state and in the next.
LEMMA UsedIs == (TypeOK => UsedIsNat) /\ (TypeOK' => UsedIsNat')
<1>1. TypeOK => UsedIsNat
  <2> SUFFICES ASSUME TypeOK, NEW i \in Ids PROVE Used(i) \in Nat
    BY DEF UsedIsNat
  <2>1. attempts[i] \in Nat /\ Queued(i) \in Nat /\ LeftInHand(i) \in Nat
    BY QueuedIs, LeftInHandIs DEF TypeOK, TablesOK
  <2>2. ToCome(i) \in Nat
    BY BrokerAssumption DEF ToCome, Tries
  <2> QED
    BY <2>1, <2>2 DEF Used
<1> QED
  BY <1>1, PTL

\* Hand-overs, replays and faults pay for all attempts.
LEMMA BudgetStep ==
  ASSUME TypeOK, BudgetKept, [Next]_vars
  PROVE  BudgetKept'
<1> SUFFICES ASSUME NEW i \in Ids
             PROVE  IsFiniteSet(Due(i)') /\ WithinBudget(i)'
  BY DEF BudgetKept
<1>1. /\ TypeOK' /\ QueuesOK /\ ConsumersOK /\ AdminsOK /\ replays \in Nat /\ faults \in Nat
      /\ replays' \in Nat /\ faults' \in Nat /\ replays' >= replays /\ faults' >= faults
      /\ attempts \in [Ids -> Nat] /\ arrived \subseteq Ids
      /\ {"email", "email.dlq"} \subseteq Queues /\ "email" \in TryQueues /\ "email.dlq" \notin TryQueues
  BY TypeStep, TablesStep DEF TypeOK, TablesOK, Grows, Queues, TryQueues
<1>2. Used(i) \in Nat /\ Used(i)' \in Nat /\ Queued(i) \in Nat /\ LeftInHand(i) \in Nat
  BY <1>1, UsedIs, QueuedIs, LeftInHandIs DEF UsedIsNat
<1>3. Tries \in Nat /\ Tries * 1 = Tries /\ Tries * 0 = 0
  BY BrokerAssumption DEF Tries
<1>4. /\ IsFiniteSet(Due(i)) /\ Cardinality(Due(i)) \in Nat
      /\ WithinBudget(i)
  BY FS_CardinalityType DEF BudgetKept
<1>5. IsFiniteSet(Due(i)') /\ Cardinality(Due(i)') \in Nat
      /\ Cardinality(Due(i)') <= Cardinality(Due(i)) + (replays' - replays)
  <2>1. CASE \A a \in Admins : ~LoadRow(a)
    <3>1. Due(i)' \in SUBSET Due(i)
      BY <2>1, DueStep
    <3>2. IsFiniteSet(Due(i)') /\ Cardinality(Due(i)') <= Cardinality(Due(i))
      BY <1>4, <3>1, FS_Subset
    <3> QED
      BY <1>1, <1>4, <3>2, FS_CardinalityType
  <2>2. ASSUME NEW a \in Admins, LoadRow(a)
        PROVE  /\ IsFiniteSet(Due(i)')
               /\ Cardinality(Due(i)') <= Cardinality(Due(i)) + (replays' - replays)
    <3>1. replays' = replays + 1
      BY <2>2 DEF LoadRow
    <3>2. Due(i)' \in SUBSET (Due(i) \cup {a})
      BY <2>2, DueStep
    <3>3. IsFiniteSet(Due(i) \cup {a}) /\ Cardinality(Due(i) \cup {a}) \in Nat
          /\ Cardinality(Due(i) \cup {a}) <= Cardinality(Due(i)) + 1
      <4>1. /\ IsFiniteSet(Due(i) \cup {a})
            /\ Cardinality(Due(i) \cup {a}) =
                 IF a \in Due(i) THEN Cardinality(Due(i)) ELSE Cardinality(Due(i)) + 1
        BY <1>4, FS_AddElement
      <4> QED
        BY <1>4, <4>1
    <3>4. IsFiniteSet(Due(i)') /\ Cardinality(Due(i)') <= Cardinality(Due(i) \cup {a})
      BY <3>2, <3>3, FS_Subset
    <3>5. Cardinality(Due(i)') \in Nat
      BY <3>4, FS_CardinalityType
    <3> QED
      BY <1>1, <1>4, <3>1, <3>3, <3>4, <3>5
  <2> QED
    BY <2>1, <2>2, FS_CardinalityType
<1> SUFFICES WithinBudget(i)'
  BY <1>5
\* What a step must show: that k more rounds of tries are paid for.
<1>6. ASSUME NEW k \in {0, 1}, Used(i)' <= Used(i) + Tries * k,
             k + Cardinality(Due(i)') + (1 + replays + faults)
               <= Cardinality(Due(i)) + (1 + replays' + faults')
      PROVE  WithinBudget(i)'
  <2> DEFINE u == Used(i)  d == Cardinality(Due(i))   b == 1 + replays + faults
             v == Used(i)' e == Cardinality(Due(i)')  c == 1 + replays' + faults'
  <2>1. u \in Nat /\ v \in Nat
    BY <1>2
  <2>2. d \in Nat /\ e \in Nat
    BY <1>4, <1>5
  <2>3. k \in Nat
    OBVIOUS
  <2>4. b \in Nat /\ c \in Nat
    <3>1. \A m, n \in Nat : 1 + m + n \in Nat
      OBVIOUS
    <3> QED
      BY <1>1, <3>1
  <2>5. v <= u + Tries * k /\ k + e + b <= d + c
    BY <1>6
  <2>6. u + Tries * d <= Tries * b
    BY <1>4 DEF WithinBudget
  <2>7. (v + Tries * e <= Tries * c) => WithinBudget(i)'
    BY DEF WithinBudget
  <2> HIDE DEF u, v, d, e, b, c
  <2>8. v + Tries * e <= Tries * c
    BY <2>1, <2>2, <2>3, <2>4, <2>5, <2>6, BudgetSum
  <2> QED
    BY <2>7, <2>8
<1>7. ASSUME Used(i)' <= Used(i)
      PROVE  WithinBudget(i)'
  BY <1>1, <1>2, <1>3, <1>4, <1>5, <1>6, <1>7
\* A step that leaves the worker alone and the attempts with it.
<1>8. ASSUME UNCHANGED workerVars, arrived' = arrived
      PROVE  Used(i)' = attempts[i] + Queued(i)' + LeftInHand(i) + ToCome(i) /\ ToCome(i) \in Nat
  <2>1. worker' = worker /\ pc' = pc /\ attempts' = attempts
    BY <1>8 DEF workerVars, breaker
  <2>2. LeftInHand(i)' = LeftInHand(i) /\ ToCome(i)' = ToCome(i) /\ ToCome(i) \in Nat
    BY <1>3, <1>8, <2>1 DEF LeftInHand, InHand, task, ToCome
  <2> QED
    BY <2>1, <2>2 DEF Used
<1>9. ASSUME UNCHANGED workerVars, arrived' = arrived, Queued(i)' = Queued(i)
      PROVE  Used(i)' <= Used(i)
  BY <1>1, <1>2, <1>8, <1>9 DEF Used
<1>10. (\A q \in TryQueues : queue'[q] = queue[q]) => Queued(i)' = Queued(i)
  BY DEF Queued, Left, TryQueues
<1>11. ASSUME NEW j \in Ids, HandOver(j)
       PROVE  Used(i)' <= Used(i)
  <2>1. /\ j \notin arrived /\ arrived' = arrived \cup {j} /\ Enqueue("email", Fresh(j))
        /\ worker' = worker /\ pc' = pc /\ attempts' = attempts
    BY <1>11 DEF HandOver, workerVars, breaker
  <2>2. Fresh(j) \in Task /\ TriesOf(Fresh(j), i) = IF j = i THEN Tries ELSE 0
    BY <1>3, NewTasks DEF TriesOf
  <2>3. Queued(i)' = Queued(i) + (IF j = i THEN Tries ELSE 0)
    BY <1>1, <2>1, <2>2, QueuedPut DEF LeftIn
  <2>4. LeftInHand(i)' = LeftInHand(i)
    BY <2>1 DEF LeftInHand, InHand, task
  <2>5. ToCome(i) \in Nat /\ ToCome(i) = ToCome(i)' + (IF j = i THEN Tries ELSE 0) /\ ToCome(i)' \in Nat
    BY <1>3, <2>1 DEF ToCome
  <2> QED
    BY <1>1, <1>2, <1>3, <2>1, <2>3, <2>4, <2>5 DEF Used
<1>12. CASE WorkerNext /\ UNCHANGED <<webhookVars, deadVars, arrived>>
  <2>1. replays' = replays
    BY <1>12 DEF deadVars
  <2>2. CASE Used(i)' <= Used(i)
    BY <1>7, <2>2
  <2>3. CASE Used(i)' <= Used(i) + Tries /\ faults' = faults + 1
    BY <1>1, <1>3, <1>4, <1>5, <1>6, <2>1, <2>3
  <2> QED
    BY <1>12, <2>2, <2>3, WorkerSpends
<1>13. CASE WebhookNext /\ UNCHANGED <<workerVars, deadVars, arrived>>
  <2>1. Queued(i)' = Queued(i)
    BY <1>10, <1>13, QueuesApart DEF MailQueues
  <2> QED
    BY <1>7, <1>9, <1>13, <2>1
<1>14. CASE DeadNext /\ UNCHANGED <<workerVars, webhookVars, arrived>>
  <2>1. CASE SaveToDLQ
    <3>1. Queued(i)' = Queued(i) - 0
      BY <1>1, <2>1, QueuedGot DEF SaveToDLQ, LeftIn
    <3> QED
      BY <1>2, <1>7, <1>9, <1>14, <3>1
  <2>2. CASE CrashDead
    <3>1. held \in Task
      BY <1>1, <2>2 DEF CrashDead, ConsumersOK
    <3>2. Queued(i)' = Queued(i) + 0
      BY <1>1, <2>2, <3>1, QueuedPut DEF CrashDead, LeftIn
    <3> QED
      BY <1>2, <1>7, <1>9, <1>14, <3>2
  <2>3. ASSUME NEW a \in Admins, PublishReplay(a)
        PROVE  WithinBudget(i)'
    <3>1. admin[a].step = "publish" /\ IdOf(a) \in Ids /\ replays' = replays
      BY <2>3, AdminFacts DEF PublishReplay
    <3>2. CASE UNCHANGED queue
      BY <1>7, <1>9, <1>10, <1>14, <3>2
    <3>3. CASE Enqueue("email", Fresh(IdOf(a)))
      <4>1. /\ Fresh(IdOf(a)) \in Task
            /\ TriesOf(Fresh(IdOf(a)), i) = IF IdOf(a) = i THEN Tries ELSE 0
        BY <1>3, <3>1, NewTasks DEF TriesOf
      <4>2. Queued(i)' = Queued(i) + (IF IdOf(a) = i THEN Tries ELSE 0)
        BY <1>1, <3>3, <4>1, QueuedPut DEF LeftIn
      <4>3. CASE IdOf(a) # i
        BY <1>2, <1>7, <1>9, <1>14, <4>2, <4>3
      <4>4. CASE IdOf(a) = i
        <5>1. Used(i)' <= Used(i) + Tries * 1
          BY <1>1, <1>2, <1>3, <1>8, <1>14, <4>2, <4>4 DEF Used
        <5>2. a \in Due(i) /\ Due(i)' \in SUBSET (Due(i) \ {a})
          BY <2>3, <3>1, <4>4, DueStep DEF Due
        <5>3. IsFiniteSet(Due(i) \ {a}) /\ Cardinality(Due(i) \ {a}) = Cardinality(Due(i)) - 1
          BY <1>4, <5>2, FS_RemoveElement
        <5>4. Cardinality(Due(i)') <= Cardinality(Due(i)) - 1
          BY <5>2, <5>3, FS_Subset
        <5> QED
          BY <1>1, <1>4, <1>5, <1>6, <3>1, <5>1, <5>4
      <4> QED
        BY <4>3, <4>4
    <3> QED
      BY <2>3, <3>2, <3>3 DEF PublishReplay, PublishDropped
  <2>4. CASE \/ AckDead
             \/ \E a \in Admins : LoadRow(a) \/ MarkReplayed(a) \/ ResetStatus(a) \/ CrashApi(a)
    <3>1. UNCHANGED queue
      BY <2>4 DEF AckDead, LoadRow, MarkReplayed, ResetStatus, CrashApi, shared
    <3>2. Queued(i)' = Queued(i)
      BY <1>10, <3>1
    <3> QED
      BY <1>7, <1>9, <1>14, <3>2
  <2> QED
    BY <1>14, <2>1, <2>2, <2>3, <2>4 DEF DeadNext, DeadWork, Replay
<1>15. CASE UNCHANGED vars
  BY <1>7, <1>9, <1>10, <1>15 DEF vars, shared
<1> QED
  BY <1>5, <1>7, <1>11, <1>12, <1>13, <1>14, <1>15 DEF Next

-----------------------------------------------------------------------------
(* The theorems *)

\* Nothing has been handed over yet, and every budget is whole.
LEMMA InitInvariant == Init => IInv
<1> SUFFICES ASSUME Init PROVE IInv
  OBVIOUS
<1>1. /\ queue = [q \in Queues |-> <<>>] /\ arrived = {} /\ rows = <<>> /\ worker = Idle
      /\ mails = [i \in Ids |-> 0] /\ attempts = [i \in Ids |-> 0] /\ status = [i \in Ids |-> "none"]
      /\ hook = NoHook /\ swallowed = {} /\ replays = 0 /\ faults = 0
      /\ admin = [a \in Admins |-> NoRequest]
  BY DEF Init, InitShared, InitWorker, InitWebhook, InitDead
<1>2. TypeOK
  BY InitTypes
<1>3. \A q \in Queues : /\ queue[q] = <<>> /\ OneEach(queue[q])
                        /\ \A m : ~Has(queue[q], m)
                        /\ \A i : ~Holds(q, i)
  BY <1>1, EmptyFacts DEF Holds
<1>4. MailQueues \subseteq Queues /\ TryQueues \subseteq MailQueues /\ "webhook_mailpit" \in Queues
      /\ "email.dlq" \in MailQueues /\ "email" \in Queues /\ "email.retry" \in Queues
  BY DEF Queues, MailQueues, TryQueues
<1>5. worker.step = "idle" /\ \A i, S : "idle" \notin S => ~InHand(i, S)
  BY <1>1 DEF Idle, InHand
<1>6. \A i : Parked(i) = {}
  <2>1. DOMAIN rows = 1..Len(rows) /\ Len(rows) = 0
    BY <1>1, <1>2, LenProperties DEF TypeOK, RowsOK
  <2> QED
    BY <2>1 DEF Parked
<1>7. CopyIsKept
  BY <1>1 DEF CopyIsKept
<1>8. WebhooksAreTrue
  BY <1>1, <1>3, <1>4, <1>5 DEF WebhooksAreTrue
<1>9. CountsAreAttempts
  BY <1>1, <1>3, <1>4, <1>5 DEF CountsAreAttempts
<1>10. MarkedAfterPublish
  BY <1>1 DEF MarkedAfterPublish, NoRequest
<1>11. StatusIsEarned
  BY <1>1 DEF StatusIsEarned
<1>12. ReplayedWasPublished
  BY <1>1 DEF ReplayedWasPublished
<1>13. CalmIsOrderly
  <2>1. OneCopyEach
    BY <1>3, <1>4 DEF OneCopyEach
  <2>2. \A i : ~ToTry(i) /\ ~Dead(i)
    BY <1>3, <1>4 DEF ToTry, Dead
  <2>3. /\ "idle" \notin Working /\ "idle" \notin {"send", "failed"}
        /\ "idle" \notin {"reject"} /\ "idle" \notin {"sent"}
    BY DEF Working
  <2>4. \A i : /\ ~InHand(i, Working) /\ ~InHand(i, {"send", "failed"})
               /\ ~InHand(i, {"reject"}) /\ ~InHand(i, {"sent"})
    BY <1>5, <2>3
  <2>5. ASSUME NEW i \in Ids PROVE StageOf(i)
    BY <1>1, <1>6, <2>2, <2>4 DEF StageOf
  <2> QED
    BY <2>1, <2>5 DEF CalmIsOrderly, StageIsKnown
<1>14. BudgetKept
  <2>1. Tries \in Nat /\ Tries * 0 = 0 /\ Tries * (1 + 0 + 0) = Tries
    BY BrokerAssumption DEF Tries
  <2> SUFFICES ASSUME NEW i \in Ids PROVE IsFiniteSet(Due(i)) /\ WithinBudget(i)
    BY DEF BudgetKept
  <2>2. Due(i) = {} /\ IsFiniteSet(Due(i)) /\ Cardinality(Due(i)) = 0
    <3>1. Due(i) = {}
      BY <1>1 DEF Due, NoRequest
    <3> QED
      BY <3>1, FS_EmptySet
  <2>3. Queued(i) = 0
    <3>1. Cells(queue["email"], i) = {} /\ Cells(queue["email.retry"], i) = {}
      BY <1>3, <1>4, EmptyFacts
    <3> QED
      BY <3>1, FS_EmptySet DEF Queued, Left
  <2>4. LeftInHand(i) = 0
    BY <1>5 DEF LeftInHand, InHand
  <2>5. ToCome(i) = Tries
    BY <1>1 DEF ToCome
  <2>6. Used(i) = Tries
    BY <1>1, <2>1, <2>3, <2>4, <2>5 DEF Used
  <2> QED
    BY <1>1, <2>1, <2>2, <2>6 DEF WithinBudget
<1> QED
  BY <1>2, <1>7, <1>8, <1>9, <1>10, <1>11, <1>12, <1>13, <1>14 DEF IInv

\* The inductive invariant of the pipeline.
LEMMA PipelineInvariant == Spec => []IInv
<1>1. IInv /\ [Next]_vars => IInv'
  BY TypeStep, CopyIsKeptStep, WebhooksStep, CountsStep, StatusStep, ReplayStep, CalmStep, BudgetStep
     DEF IInv
<1> QED
  BY <1>1, InitInvariant, PTL DEF Spec

\* Whatever crashes, fails or is dropped: a notification handed to the broker is
\* mailed, or has a copy in a queue, in the email worker's hand or in dlq_messages,
\* or was dropped by a publish that returned nil or swallowed by the breaker.
THEOREM NothingIsLostInSilence == Spec => []NoSilentLoss
<1>1. IInv => NoSilentLoss
  <2> SUFFICES ASSUME TypeOK, CopyIsKept, NEW i \in arrived, ~Safe(i) PROVE Moving(i)
    BY DEF IInv, NoSilentLoss, Safe
  <2>1. CASE InHand(i, {"send", "failed", "reject"})
    BY <2>1 DEF InHand, Idle, Moving
  <2>2. CASE \E q \in MailQueues : Holds(q, i)
    <3>1. PICK q \in MailQueues, m \in Task : m.id = i /\ Has(queue[q], m)
      BY <2>2 DEF Holds
    <3>2. queue[q] \in Seq(Task) /\ q \in {"email", "email.retry", "email.dlq"}
      BY DEF TypeOK, QueuesOK, Queues, MailQueues, TryQueues
    <3>3. DOMAIN queue[q] = 1..Len(queue[q])
      BY <3>2, LenProperties
    <3>4. Messages(q, i) # {}
      BY <3>1, <3>3 DEF Has, Messages
    <3> QED
      BY <3>2, <3>4 DEF Moving
  <2> QED
    BY <2>1, <2>2 DEF CopyIsKept
<1> QED
  BY <1>1, PipelineInvariant, PTL

\* Retries do not multiply: SMTP sends of one notification are bounded by its
\* hand-over, the replays begun and the faults that happened, MaxRetries + 1 for each.
THEOREM AttemptsAreBounded == Spec => []AttemptsBounded
<1>1. IInv => AttemptsBounded
  <2> SUFFICES ASSUME TypeOK, BudgetKept, NEW i \in Ids
               PROVE  attempts[i] <= Tries * (1 + replays + faults)
    BY DEF IInv, AttemptsBounded, Tries
  <2>1. IsFiniteSet(Due(i)) /\ Used(i) + Tries * Cardinality(Due(i)) <= Tries * (1 + replays + faults)
    BY DEF BudgetKept, WithinBudget
  <2>2. Cardinality(Due(i)) \in Nat
    BY <2>1, FS_CardinalityType
  <2>3. Tries * Cardinality(Due(i)) \in Nat
    BY <2>2, TriesTimes
  <2>4. attempts[i] \in Nat /\ Queued(i) \in Nat /\ LeftInHand(i) \in Nat /\ ToCome(i) \in Nat
    BY QueuedIs, LeftInHandIs, BrokerAssumption DEF TypeOK, TablesOK, ToCome, Tries
  <2>5. attempts[i] <= Used(i) /\ Used(i) \in Nat
    BY <2>4 DEF Used
  <2>6. 1 + replays + faults \in Nat
    BY DEF TypeOK, TablesOK
  <2>7. Tries * (1 + replays + faults) \in Nat
    BY <2>6, TriesTimes
  <2> QED
    BY <2>1, <2>3, <2>4, <2>5, <2>7
<1> QED
  BY <1>1, PipelineInvariant, PTL

\* notifications.status never claims more than happened: a mail stored for "sent", a
\* send that succeeded or was swallowed for "delivering", all attempts for "failed".
THEOREM StatusesAreEarned == Spec => []StatusIsEarned
<1>1. IInv => StatusIsEarned
  BY DEF IInv
<1> QED
  BY <1>1, PipelineInvariant, PTL

\* No row of dlq_messages is marked replayed whose message was not published again.
THEOREM ReplaysArePublished == Spec => []ReplayedWasPublished
<1>1. IInv => ReplayedWasPublished
  BY DEF IInv
<1> QED
  BY <1>1, PipelineInvariant, PTL

\* Where nothing fails and nobody replays, a notification at rest has one mail and
\* no row in dlq_messages, or status failed, no mail and one row.
THEOREM OneOutcomeEach == Spec => []OneOutcome
<1>1. IInv => OneOutcome
  <2> SUFFICES ASSUME TypeOK, CalmIsOrderly, replays = 0, faults = 0, NEW i \in arrived, ~Moving(i)
               PROVE  \/ /\ status[i] \in {"delivering", "sent"}
                         /\ mails[i] + Cardinality({i} \cap swallowed) = 1
                         /\ Parked(i) = {}
                      \/ /\ status[i] = "failed"
                         /\ mails[i] = 0 /\ i \notin swallowed
                         /\ Cardinality(Parked(i)) = 1
    BY DEF IInv, OneOutcome
  <2>1. i \in Ids /\ StageOf(i)
    BY DEF TypeOK, TablesOK, CalmIsOrderly, StageIsKnown
  <2>2. ~InHand(i, Working)
    BY DEF Moving, InHand, Idle, Working
  <2>3. ASSUME NEW q \in {"email", "email.retry", "email.dlq"} PROVE ~Holds(q, i)
    <3>1. queue[q] \in Seq(Task)
      BY DEF TypeOK, QueuesOK, Queues
    <3>2. DOMAIN queue[q] = 1..Len(queue[q])
      BY <3>1, LenProperties
    <3>3. Messages(q, i) = {}
      BY DEF Moving
    <3> QED
      BY <3>2, <3>3 DEF Holds, Has, Messages
  <2>4. ~ToTry(i) /\ ~Dead(i)
    BY <2>3 DEF ToTry, Dead, TryQueues
  <2>5. \/ status[i] \in {"delivering", "sent"} /\ MailedOnce(i) /\ Parked(i) = {}
        \/ Unmailed(i, "failed") /\ \E k \in 1..Len(rows) : Parked(i) = {k}
    BY <2>1, <2>2, <2>4 DEF StageOf
  <2>6. {i} \cap swallowed = IF i \in swallowed THEN {i} ELSE {}
    OBVIOUS
  <2>7. Cardinality({i} \cap swallowed) = IF i \in swallowed THEN 1 ELSE 0
    BY <2>6, FS_EmptySet, FS_Singleton
  <2>8. MailedOnce(i) => mails[i] + Cardinality({i} \cap swallowed) = 1
    BY <2>7 DEF MailedOnce
  <2>9. (\E k \in 1..Len(rows) : Parked(i) = {k}) => Cardinality(Parked(i)) = 1
    BY FS_Singleton
  <2> QED
    BY <2>5, <2>8, <2>9 DEF Unmailed
<1> QED
  BY <1>1, PipelineInvariant, PTL
=============================================================================
