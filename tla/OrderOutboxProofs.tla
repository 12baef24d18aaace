-------------------------- MODULE OrderOutboxProofs --------------------------
(***************************************************************************)
(* Theorems about OrderOutbox, for every set of servers and faults, every  *)
(* number of tasks, and every size of a batch and of the channel.          *)
(***************************************************************************)
EXTENDS OrderOutbox, SequenceTheorems, FiniteSetTheorems, TLAPS

-----------------------------------------------------------------------------
(* Facts about sequences and batches.                                      *)

LEMMA RangeEmpty == Range(<<>>) = {}
BY DEF Range

LEMMA RangeAppend ==
  ASSUME NEW S, NEW seq \in Seq(S), NEW e \in S
  PROVE  Range(Append(seq, e)) = Range(seq) \cup {e}
<1>1. /\ Append(seq, e) \in Seq(S)
      /\ Len(Append(seq, e)) = Len(seq) + 1
      /\ \A k \in 1 .. Len(seq) : Append(seq, e)[k] = seq[k]
      /\ Append(seq, e)[Len(seq) + 1] = e
  BY AppendProperties
<1>2. Range(seq) = {seq[k] : k \in 1 .. Len(seq)}
  BY RangeEquality
<1>3. Range(Append(seq, e)) = {Append(seq, e)[k] : k \in 1 .. Len(seq) + 1}
  BY <1>1, RangeEquality
<1>4. Len(seq) \in Nat
  BY LenProperties
<1>5. 1 .. Len(seq) + 1 = (1 .. Len(seq)) \cup {Len(seq) + 1}
  BY <1>4
<1>6. QED
  BY <1>1, <1>2, <1>3, <1>4, <1>5

LEMMA RangeTail ==
  ASSUME NEW S, NEW seq \in Seq(S), seq # <<>>
  PROVE  Range(seq) = {Head(seq)} \cup Range(Tail(seq))
<1>1. /\ Tail(seq) \in Seq(S)
      /\ Len(Tail(seq)) = Len(seq) - 1
      /\ \A k \in 1 .. Len(Tail(seq)) : Tail(seq)[k] = seq[k + 1]
  BY HeadTailProperties
<1>2. Len(seq) \in Nat \ {0} /\ Head(seq) = seq[1]
  BY EmptySeq
<1>3. Range(seq) = {seq[k] : k \in 1 .. Len(seq)}
  BY RangeEquality
<1>4. Range(Tail(seq)) = {Tail(seq)[k] : k \in 1 .. Len(seq) - 1}
  BY <1>1, RangeEquality
<1>5. ASSUME NEW x \in Range(seq)
      PROVE  x \in {Head(seq)} \cup Range(Tail(seq))
  <2>1. PICK k \in 1 .. Len(seq) : x = seq[k]
    BY <1>3
  <2>2. k # 1 => k - 1 \in 1 .. Len(seq) - 1 /\ x = Tail(seq)[k - 1]
    BY <1>1, <1>2, <2>1
  <2>3. QED
    BY <1>2, <1>4, <2>1, <2>2
<1>6. ASSUME NEW x \in {Head(seq)} \cup Range(Tail(seq))
      PROVE  x \in Range(seq)
  <2>1. CASE x = Head(seq)
    BY <1>2, <1>3, <2>1
  <2>2. CASE x \in Range(Tail(seq))
    <3>1. PICK k \in 1 .. Len(seq) - 1 : x = Tail(seq)[k]
      BY <1>4, <2>2
    <3>2. k + 1 \in 1 .. Len(seq) /\ x = seq[k + 1]
      BY <1>1, <1>2, <3>1
    <3>3. QED
      BY <1>3, <3>2
  <2>3. QED
    BY <1>6, <2>1, <2>2
<1>7. QED
  BY <1>5, <1>6

LEMMA EmptyBatch == <<>> \in Batch
<1>1. <<>> \in Seq(Tasks) /\ Len(<<>>) = 0 /\ DOMAIN <<>> = {}
  BY EmptySeq
<1>2. QED
  BY <1>1, OutboxAssumption DEF Batch, OutboxAssumption

LEMMA BatchRange ==
  ASSUME NEW b \in Batch
  PROVE  b \in Seq(Tasks) /\ Range(b) \subseteq Tasks
BY RangeOfSeq DEF Batch

(* The loop over a batch takes its first task off.                         *)
LEMMA BatchTail ==
  ASSUME NEW b \in Batch, b # <<>>
  PROVE  /\ Head(b) \in Tasks
         /\ Tail(b) \in Batch
         /\ Range(b) = {Head(b)} \cup Range(Tail(b))
         /\ Head(b) \notin Range(Tail(b))
<1>1. /\ b \in Seq(Tasks)
      /\ Len(b) <= BatchLimit
      /\ \A j, k \in DOMAIN b : b[j] = b[k] => j = k
  BY DEF Batch
<1>2. /\ Head(b) \in Tasks
      /\ Tail(b) \in Seq(Tasks)
      /\ Len(Tail(b)) = Len(b) - 1
      /\ \A k \in 1 .. Len(Tail(b)) : Tail(b)[k] = b[k + 1]
  BY <1>1, HeadTailProperties
<1>3. Len(b) \in Nat \ {0} /\ DOMAIN b = 1 .. Len(b) /\ Head(b) = b[1]
  BY <1>1, EmptySeq, LenProperties
<1>4. DOMAIN Tail(b) = 1 .. Len(b) - 1
  BY <1>2, LenProperties
<1>5. ASSUME NEW j \in DOMAIN Tail(b), NEW k \in DOMAIN Tail(b),
             Tail(b)[j] = Tail(b)[k]
      PROVE  j = k
  <2>1. /\ j + 1 \in 1 .. Len(b) /\ k + 1 \in 1 .. Len(b)
        /\ b[j + 1] = b[k + 1]
    BY <1>2, <1>3, <1>4, <1>5
  <2>2. j + 1 = k + 1
    BY <1>1, <1>3, <2>1
  <2>3. QED
    BY <1>3, <1>4, <2>2
<1>6. Tail(b) \in Batch
  <2>1. Len(Tail(b)) <= BatchLimit
    BY <1>1, <1>2, <1>3, OutboxAssumption DEF OutboxAssumption
  <2>2. QED
    BY <1>2, <1>5, <2>1 DEF Batch
<1>7. Head(b) \notin Range(Tail(b))
  <2>1. SUFFICES ASSUME NEW k \in DOMAIN Tail(b), Tail(b)[k] = Head(b)
                 PROVE  FALSE
    BY DEF Range
  <2>2. k + 1 \in 1 .. Len(b) /\ b[k + 1] = b[1] /\ k + 1 # 1 /\ 1 \in 1 .. Len(b)
    BY <1>2, <1>3, <1>4, <2>1
  <2>3. QED
    BY <1>1, <1>3, <2>2
<1>8. QED
  BY <1>1, <1>2, <1>6, <1>7, RangeTail

LEMMA TasksFinite ==
  ASSUME NEW S \in SUBSET Tasks
  PROVE  IsFiniteSet(S) /\ Cardinality(S) \in Nat
<1>1. IsFiniteSet(Tasks)
  BY FS_Interval, OutboxAssumption DEF Tasks, OutboxAssumption
<1>2. IsFiniteSet(S)
  BY <1>1, FS_Subset
<1>3. QED
  BY <1>2, FS_CardinalityType

(* RETURNING gives every claimed row once.                                 *)
LEMMA OrderingIsBatch ==
  ASSUME NEW S \in SUBSET Tasks, Cardinality(S) <= BatchLimit,
         NEW b \in Orderings(S)
  PROVE  b \in Batch /\ Range(b) = S
<1>1. IsFiniteSet(S) /\ Cardinality(S) \in Nat
  BY TasksFinite
<1>2. b \in [1 .. Cardinality(S) -> S] /\ Range(b) = S
  BY DEF Orderings
<1>3. b \in Surjection(1 .. Cardinality(S), S)
  BY <1>2 DEF Surjection, Range
<1>4. /\ IsFiniteSet(1 .. Cardinality(S))
      /\ Cardinality(1 .. Cardinality(S)) = Cardinality(S)
  BY <1>1, FS_Interval
<1>5. b \in Injection(1 .. Cardinality(S), S)
  BY <1>3, <1>4, FS_SurjSameCardinalityImpliesInj
<1>6. \A j, k \in 1 .. Cardinality(S) : b[j] = b[k] => j = k
  BY <1>5 DEF Injection, IsInjective
<1>7. b \in Seq(Tasks) /\ Len(b) = Cardinality(S)
  BY <1>1, <1>2
<1>8. DOMAIN b = 1 .. Cardinality(S)
  BY <1>2
<1>9. QED
  BY <1>2, <1>6, <1>7, <1>8 DEF Batch

-----------------------------------------------------------------------------
(* Facts about the channel.                                                *)

LEMMA ContentsEmpty == Contents(<<>>) = {} /\ Apart(<<>>)
BY DEF Contents, Apart, Range

LEMMA ContentsType ==
  ASSUME NEW ch \in Seq(Batch)
  PROVE  Contents(ch) \subseteq Tasks
BY BatchRange, RangeOfSeq DEF Contents

LEMMA ContentsAppend ==
  ASSUME NEW ch \in Seq(Batch), NEW b \in Batch
  PROVE  /\ Append(ch, b) \in Seq(Batch)
         /\ Contents(Append(ch, b)) = Contents(ch) \cup Range(b)
BY RangeAppend, AppendProperties DEF Contents

LEMMA ApartAppend ==
  ASSUME NEW ch \in Seq(Batch), NEW b \in Batch,
         Apart(ch), Range(b) \cap Contents(ch) = {}
  PROVE  Apart(Append(ch, b))
<1> DEFINE new == Append(ch, b)
<1>1. /\ new \in Seq(Batch)
      /\ Len(new) = Len(ch) + 1
      /\ \A k \in 1 .. Len(ch) : new[k] = ch[k]
      /\ new[Len(ch) + 1] = b
  BY AppendProperties
<1>2. /\ Len(ch) \in Nat
      /\ DOMAIN ch = 1 .. Len(ch)
      /\ DOMAIN new = 1 .. Len(ch) + 1
  BY <1>1, LenProperties
<1>3. ASSUME NEW m \in 1 .. Len(ch)
      PROVE  Range(new[m]) \cap Range(b) = {}
  BY <1>1, <1>2 DEF Contents, Range
<1> HIDE DEF new
<1>4. ASSUME NEW m \in DOMAIN new, NEW n \in DOMAIN new, m # n
      PROVE  Range(new[m]) \cap Range(new[n]) = {}
  <2>1. CASE m \in 1 .. Len(ch) /\ n \in 1 .. Len(ch)
    BY <1>1, <1>2, <1>4, <2>1 DEF Apart
  <2>2. CASE m \in 1 .. Len(ch) /\ n = Len(ch) + 1
    BY <1>1, <1>3, <2>2
  <2>3. CASE m = Len(ch) + 1 /\ n \in 1 .. Len(ch)
    BY <1>1, <1>3, <2>3
  <2>4. QED
    BY <1>2, <1>4, <2>1, <2>2, <2>3
<1>5. QED
  BY <1>4 DEF Apart, new

LEMMA ContentsTail ==
  ASSUME NEW ch \in Seq(Batch), ch # <<>>
  PROVE  /\ Head(ch) \in Batch
         /\ Tail(ch) \in Seq(Batch)
         /\ Contents(ch) = Range(Head(ch)) \cup Contents(Tail(ch))
BY RangeTail, HeadTailProperties DEF Contents

LEMMA ApartTail ==
  ASSUME NEW ch \in Seq(Batch), ch # <<>>, Apart(ch)
  PROVE  /\ Apart(Tail(ch))
         /\ Range(Head(ch)) \cap Contents(Tail(ch)) = {}
<1>1. /\ Tail(ch) \in Seq(Batch)
      /\ Len(Tail(ch)) = Len(ch) - 1
      /\ \A k \in 1 .. Len(Tail(ch)) : Tail(ch)[k] = ch[k + 1]
  BY HeadTailProperties
<1>2. /\ Len(ch) \in Nat \ {0}
      /\ DOMAIN ch = 1 .. Len(ch)
      /\ DOMAIN Tail(ch) = 1 .. Len(ch) - 1
      /\ Head(ch) = ch[1]
  BY <1>1, EmptySeq, LenProperties
<1>3. ASSUME NEW m \in DOMAIN Tail(ch), NEW n \in DOMAIN Tail(ch), m # n
      PROVE  Range(Tail(ch)[m]) \cap Range(Tail(ch)[n]) = {}
  <2>1. /\ m + 1 \in DOMAIN ch /\ n + 1 \in DOMAIN ch /\ m + 1 # n + 1
        /\ Tail(ch)[m] = ch[m + 1] /\ Tail(ch)[n] = ch[n + 1]
    BY <1>1, <1>2, <1>3
  <2>2. QED
    BY <2>1 DEF Apart
<1>4. ASSUME NEW m \in DOMAIN Tail(ch)
      PROVE  Range(Head(ch)) \cap Range(Tail(ch)[m]) = {}
  <2>1. /\ m + 1 \in DOMAIN ch /\ 1 \in DOMAIN ch /\ m + 1 # 1
        /\ Tail(ch)[m] = ch[m + 1]
    BY <1>1, <1>2
  <2>2. QED
    BY <1>2, <2>1 DEF Apart
<1>5. ASSUME NEW t \in Range(Head(ch)), t \in Contents(Tail(ch))
      PROVE  FALSE
  <2>1. PICK m \in DOMAIN Tail(ch) : t \in Range(Tail(ch)[m])
    BY <1>5 DEF Contents, Range
  <2>2. QED
    BY <1>4, <2>1
<1>6. QED
  BY <1>3, <1>5 DEF Apart

-----------------------------------------------------------------------------
(* The type invariant.                                                     *)

MessageType == [id : Tasks, status : TaskStatus, order_status : OrderStatus]

LEMMA TypeInit == Init => TypeOK
<1>1. Cardinality({}) = 0
  BY FS_EmptySet
<1>2. <<>> \in Seq(MessageType) /\ <<>> \in Seq(Tasks) /\ <<>> \in Seq(SUBSET Tasks)
      /\ <<>> \in Seq(Batch) /\ Len(<<>>) = 0
  BY EmptySeq
<1>3. QED
  BY <1>1, <1>2, EmptyBatch, OutboxAssumption
    DEF Init, TypeOK, TaskStatus, OutboxAssumption, MessageType

(* A message for a task is added to the topic, once or twice.              *)
LEMMA PublishType ==
  ASSUME log \in Seq(MessageType), NEW t \in Tasks, NEW n \in {1, 2},
         Publish(t, n)
  PROVE  /\ log' \in Seq(MessageType)
         /\ Len(log') >= Len(log)
         /\ Published' = Published \cup {t}
<1> DEFINE new == [k \in 1 .. n |-> Message(t)]
<1>1. Message(t) \in MessageType /\ Message(t).id = t
  BY DEF Message, MessageType, TaskStatus, OrderStatus
<1>2. new \in Seq(MessageType) /\ Len(new) = n
  BY <1>1
<1>3. \A k \in 1 .. n : new[k].id = t
  BY <1>1
<1> HIDE DEF new
<1>4. log' = log \o new
  BY DEF Publish, new
<1>5. /\ log' \in Seq(MessageType)
      /\ Len(log') = Len(log) + n
      /\ \A k \in 1 .. Len(log) + n :
           log'[k] = IF k <= Len(log) THEN log[k] ELSE new[k - Len(log)]
  BY <1>2, <1>4, ConcatProperties
<1>6. /\ Len(log) \in Nat
      /\ DOMAIN log = 1 .. Len(log) /\ DOMAIN log' = 1 .. Len(log) + n
  BY <1>5, LenProperties
<1>7. ASSUME NEW x \in Published'
      PROVE  x \in Published \cup {t}
  <2>1. PICK k \in 1 .. Len(log) + n : x = log'[k].id
    BY <1>6, <1>7 DEF Published
  <2>2. CASE k <= Len(log)
    BY <1>5, <1>6, <2>1, <2>2 DEF Published
  <2>3. CASE k > Len(log)
    <3>1. k - Len(log) \in 1 .. n
      BY <1>6, <2>3
    <3>2. QED
      BY <1>3, <1>5, <1>6, <2>1, <2>3, <3>1
  <2>4. QED
    BY <1>6, <2>2, <2>3
<1>8. ASSUME NEW x \in Published
      PROVE  x \in Published'
  <2>1. PICK k \in 1 .. Len(log) : x = log[k].id
    BY <1>6, <1>8 DEF Published
  <2>2. k \in DOMAIN log' /\ log'[k] = log[k]
    BY <1>5, <1>6, <2>1
  <2>3. QED
    BY <2>1, <2>2 DEF Published
<1>9. t \in Published'
  <2>1. /\ Len(log) + 1 \in DOMAIN log'
        /\ log'[Len(log) + 1] = new[1]
    BY <1>5, <1>6
  <2>2. QED
    BY <1>3, <2>1 DEF Published
<1>10. QED
  BY <1>5, <1>6, <1>7, <1>8, <1>9

(* What SendMessage leaves in the topic, and where the producer goes.      *)
LEMMA SendOutcome ==
  ASSUME TypeOK, NEW i \in Instances, SendMessage(i)
  PROVE  LET t == Head(current[i]) IN
         \/ /\ producer' = [producer EXCEPT ![i] = "delete"]
            /\ Publish(t, 1) \/ Publish(t, 2)
         \/ /\ producer' = [producer EXCEPT ![i] = "markFailed"]
            /\ Publish(t, 1) \/ UNCHANGED log
BY DEF SendMessage

LEMMA TypeStep ==
  ASSUME IInv, [Next]_vars
  PROVE  TypeOK'
<1> USE DEF IInv
<1>1. ASSUME NEW t \in Tasks, AddTask(t)
      PROVE  TypeOK'
  BY <1>1 DEF AddTask, TypeOK, TaskStatus, pollerVars, producerVars, consumerVars, Published
<1>2. ASSUME NEW i \in Instances, PickTasks(i)
      PROVE  TypeOK'
  <2>1. PICK S \in SUBSET Pending :
          IsFirst(S, Pending) /\ picked' = [picked EXCEPT ![i] = S]
    BY <1>2 DEF PickTasks
  <2>2. S \subseteq Tasks /\ Cardinality(S) <= BatchLimit
    BY <2>1 DEF Pending, IsFirst
  <2>3. QED
    BY <1>2, <2>1, <2>2
      DEF PickTasks, TypeOK, producerVars, consumerVars, Published
<1>3. ASSUME NEW i \in Instances, Claim(i)
      PROVE  /\ table' \in [Tasks -> TaskStatus]
             /\ picked' \in [Instances -> SUBSET Tasks]
             /\ \A j \in Instances : Cardinality(picked'[j]) <= BatchLimit
             /\ batches' \in Seq(SUBSET Tasks)
  <2>1. Cardinality({}) <= BatchLimit
    BY FS_EmptySet, OutboxAssumption DEF OutboxAssumption
  <2>2. batches' \in Seq(SUBSET Tasks)
    BY <1>3, AppendProperties DEF Claim, TypeOK
  <2>3. QED
    BY <1>3, <2>1, <2>2 DEF Claim, TypeOK, TaskStatus
<1>4. ASSUME NEW i \in Instances, LockPending(i)
      PROVE  TypeOK'
  <2>1. PICK b \in Orderings(picked[i]) : polled' = [polled EXCEPT ![i] = b]
    BY <1>4 DEF LockPending
  <2>2. b \in Batch
    BY OrderingIsBatch DEF TypeOK
  <2>3. QED
    BY <1>3, <1>4, <2>1, <2>2
      DEF LockPending, TypeOK, producerVars, consumerVars, Published
<1>5. ASSUME NEW i \in Instances, FailLockPending(i)
      PROVE  TypeOK'
  <2>1. Cardinality({}) <= BatchLimit
    BY FS_EmptySet, OutboxAssumption DEF OutboxAssumption
  <2>2. CASE Claim(i)
    BY <1>3, <1>5, <2>2
      DEF FailLockPending, TypeOK, producerVars, consumerVars, Published
  <2>3. CASE picked' = [picked EXCEPT ![i] = {}] /\ UNCHANGED <<table, batches>>
    BY <1>5, <2>1, <2>3
      DEF FailLockPending, TypeOK, producerVars, consumerVars, Published
  <2>4. QED
    BY <1>5, <2>2, <2>3 DEF FailLockPending
<1>6. ASSUME NEW i \in Instances, SendBatch(i)
      PROVE  TypeOK'
  <2>1. /\ Append(channel[i], polled[i]) \in Seq(Batch)
        /\ Len(Append(channel[i], polled[i])) <= JobsCount
    BY <1>6, AppendProperties, LenProperties, OutboxAssumption
      DEF SendBatch, TypeOK, OutboxAssumption
  <2>2. QED
    BY <1>6, <2>1, EmptyBatch
      DEF SendBatch, TypeOK, tableVars, producerVars, consumerVars, Published
<1>7. ASSUME NEW i \in Instances, StopPoller(i)
      PROVE  TypeOK'
  BY <1>7 DEF StopPoller, TypeOK, tableVars, producerVars, consumerVars, Published
<1>8. ASSUME NEW i \in Instances, NEW rest \in Batch, Continue(i, rest)
      PROVE  /\ current' \in [Instances -> Batch]
             /\ producer' \in [Instances ->
                     {"waiting", "send", "delete", "markFailed", "stopped"}]
  BY <1>8 DEF Continue, TypeOK
<1>9. ASSUME NEW i \in Instances, ReceiveBatch(i)
      PROVE  TypeOK'
  <2>1. /\ Head(channel[i]) \in Batch
        /\ Tail(channel[i]) \in Seq(Batch)
        /\ Len(Tail(channel[i])) <= JobsCount
    BY <1>9, HeadTailProperties, LenProperties, EmptySeq, OutboxAssumption
      DEF ReceiveBatch, TypeOK, OutboxAssumption
  <2>2. QED
    BY <1>8, <1>9, <2>1
      DEF ReceiveBatch, TypeOK, tableVars, pollerVars, consumerVars, Published
<1>10. ASSUME NEW i \in Instances, SendMessage(i)
       PROVE  TypeOK'
  <2> DEFINE t == Head(current[i])
  <2>1. t \in Tasks
    BY <1>10, BatchTail DEF SendMessage, TypeOK, Control
  <2>2. /\ sent' \in Seq(Tasks)
        /\ producer' \in [Instances ->
                     {"waiting", "send", "delete", "markFailed", "stopped"}]
    BY <1>10, <2>1, AppendProperties DEF SendMessage, TypeOK
  <2>3. /\ log' \in Seq(MessageType)
        /\ Len(log) \in Nat /\ Len(log') \in Nat /\ Len(log') >= Len(log)
        /\ Published \subseteq Published'
    <3>1. log \in Seq(MessageType)
      BY DEF TypeOK, MessageType
    <3>2. CASE UNCHANGED log
      BY <3>1, <3>2, LenProperties DEF Published
    <3>3. CASE Publish(t, 1) \/ Publish(t, 2)
      BY <2>1, <3>1, <3>3, PublishType, LenProperties
    <3>4. QED
      BY <1>10, <3>2, <3>3, SendOutcome
  <2>4. offset' \in [Instances -> 0 .. Len(log')]
    BY <1>10, <2>3 DEF SendMessage, TypeOK, consumerVars
  <2>5. logged' \subseteq Published'
    BY <1>10, <2>3 DEF SendMessage, TypeOK, consumerVars
  <2>6. QED
    BY <1>10, <2>2, <2>3, <2>4, <2>5
      DEF SendMessage, TypeOK, tableVars, pollerVars, consumerVars, MessageType
<1>11. ASSUME NEW i \in Instances, NEW s \in {"deleted", "failed"},
              HeadTried(i), Settle(i, s)
       PROVE  TypeOK'
  <2>1. Head(current[i]) \in Tasks /\ Tail(current[i]) \in Batch
    BY <1>11, BatchTail DEF HeadTried, Control, TypeOK
  <2>2. table' \in [Tasks -> TaskStatus]
    BY <1>11, <2>1 DEF Settle, SetStatus, TypeOK, TaskStatus
  <2>3. QED
    BY <1>8, <1>11, <2>1, <2>2
      DEF Settle, TypeOK, pollerVars, consumerVars, Published
<1>12. ASSUME NEW i \in Instances, DeleteTask(i) \/ MarkTaskAsFailed(i)
       PROVE  TypeOK'
  BY <1>11, <1>12 DEF DeleteTask, MarkTaskAsFailed, HeadTried
<1>13. ASSUME NEW i \in Instances, StopProducer(i)
       PROVE  TypeOK'
  BY <1>13 DEF StopProducer, TypeOK, tableVars, pollerVars, consumerVars, Published
<1>14. ASSUME NEW i \in Instances, Consume(i)
       PROVE  TypeOK'
  <2>1. Len(log) \in Nat /\ offset[i] \in 0 .. Len(log)
    BY LenProperties DEF TypeOK
  <2>2. offset[i] + 1 \in DOMAIN log
    BY <1>14, <2>1, LenProperties DEF Consume, TypeOK
  <2>3. log[offset[i] + 1].id \in Published
    BY <2>2 DEF Published
  <2>4. offset' \in [Instances -> 0 .. Len(log)]
    BY <1>14, <2>1 DEF Consume, TypeOK
  <2>5. logged' \subseteq Published
    BY <1>14, <2>3 DEF Consume, TypeOK
  <2>6. QED
    BY <1>14, <2>4, <2>5
      DEF Consume, TypeOK, tableVars, pollerVars, producerVars, Published
<1>15. ASSUME NEW i \in Instances, StopConsumer(i) \/ Signal(i)
       PROVE  TypeOK'
  <2>1. CASE StopConsumer(i)
    BY <2>1 DEF StopConsumer, TypeOK, tableVars, pollerVars, producerVars, Published
  <2>2. CASE Signal(i)
    BY <2>2 DEF Signal, TypeOK, tableVars, pollerVars, producerVars, consumerVars,
                Published
  <2>3. QED
    BY <1>15, <2>1, <2>2
<1>16. ASSUME NEW i \in Instances, Discard(i)
       PROVE  TypeOK'
  <2>1. Cardinality({}) <= BatchLimit /\ <<>> \in Seq(Batch) /\ Len(<<>>) <= JobsCount
    BY FS_EmptySet, EmptySeq, OutboxAssumption DEF OutboxAssumption
  <2>2. QED
    BY <1>16, <2>1, EmptyBatch DEF Discard, TypeOK, Published
<1>17. ASSUME NEW i \in Instances, Start(i)
       PROVE  TypeOK'
  <2>1. Len(log) \in 0 .. Len(log)
    BY LenProperties DEF TypeOK
  <2>2. QED
    BY <1>17, <2>1 DEF Start, TypeOK, tableVars, Published
<1>18. CASE UNCHANGED vars
  BY <1>18 DEF vars, TypeOK, tableVars, pollerVars, producerVars, consumerVars,
               Published
<1>19. QED
  BY <1>1, <1>2, <1>4, <1>5, <1>6, <1>7, <1>9, <1>10, <1>12, <1>13, <1>14,
     <1>15, <1>16, <1>17, <1>18
  DEF Next, PollerStep, ProducerStep, ConsumerStep, Exit, Crash

-----------------------------------------------------------------------------
(* What a server has in hand.                                              *)

HandsOf(i) == <<polled[i], channel[i], current[i], producer[i]>>

LEMMA HeldType ==
  ASSUME TypeOK, NEW i \in Instances
  PROVE  Held(i) \subseteq Tasks /\ Unsent(i) \subseteq Held(i)
<1>1. /\ Range(polled[i]) \subseteq Tasks /\ Contents(channel[i]) \subseteq Tasks
      /\ Range(current[i]) \subseteq Tasks
  BY BatchRange, ContentsType DEF TypeOK
<1>2. current[i] # <<>> => Range(Tail(current[i])) \subseteq Range(current[i])
  BY BatchTail DEF TypeOK
<1>3. current[i] = <<>> => Tail(current[i]) = <<>>
  OBVIOUS
<1>4. QED
  BY <1>1, <1>2, <1>3 DEF Held, Unsent

LEMMA HeldSame ==
  ASSUME NEW i, UNCHANGED HandsOf(i)
  PROVE  /\ Held(i)' = Held(i)
         /\ Unsent(i)' = Unsent(i)
         /\ HeadTried(i)' = HeadTried(i)
BY DEF HandsOf, Held, Unsent, HeadTried

(* A server that does nothing keeps its part of the invariant as long as   *)
(* others leave the rows it holds alone and send none of its tasks.        *)
LEMMA ProgressSame ==
  ASSUME NEW i \in Instances, Progress(i), UNCHANGED HandsOf(i),
         \A t \in Held(i) : table'[t] = table[t],
         Range(sent) \subseteq Range(sent'),
         Unsent(i) \cap Range(sent') = {},
         Published \subseteq Published'
  PROVE  Progress(i)'
BY HeldSame DEF Progress, HandsOf, HeadTried

LEMMA ControlSame ==
  ASSUME NEW i \in Instances, Control(i),
         UNCHANGED <<poller[i], picked[i], HandsOf(i)>>
  PROVE  Control(i)'
BY DEF Control, HandsOf

LEMMA OneHandSame ==
  ASSUME OneHand, \A i \in Instances : UNCHANGED HandsOf(i)
  PROVE  OneHand'
<1>1. \A i \in Instances : Held(i)' = Held(i)
  BY HeldSame
<1>2. \A i \in Instances : /\ polled'[i] = polled[i]
                           /\ channel'[i] = channel[i]
                           /\ current'[i] = current[i]
  BY DEF HandsOf
<1>3. QED
  BY <1>1, <1>2 DEF OneHand

(* One server rearranges what it holds, or lets go of some.                *)
LEMMA OneHandLess ==
  ASSUME OneHand, NEW i \in Instances,
         \A j \in Instances : j # i => UNCHANGED HandsOf(j),
         Held(i)' \subseteq Held(i),
         Apart(channel'[i]),
         Range(polled'[i]) \cap Contents(channel'[i]) = {},
         Range(polled'[i]) \cap Range(current'[i]) = {},
         Contents(channel'[i]) \cap Range(current'[i]) = {}
  PROVE  OneHand'
<1>1. \A j \in Instances : j # i => Held(j)' = Held(j)
  BY HeldSame
<1>2. \A j \in Instances : j # i => /\ polled'[j] = polled[j]
                                    /\ channel'[j] = channel[j]
                                    /\ current'[j] = current[j]
  BY DEF HandsOf
<1>3. \A j, k \in Instances : j # k => Held(j)' \cap Held(k)' = {}
  BY <1>1 DEF OneHand
<1>4. ASSUME NEW j \in Instances
      PROVE  /\ Apart(channel'[j])
             /\ Range(polled'[j]) \cap Contents(channel'[j]) = {}
             /\ Range(polled'[j]) \cap Range(current'[j]) = {}
             /\ Contents(channel'[j]) \cap Range(current'[j]) = {}
  BY <1>2 DEF OneHand
<1>5. QED
  BY <1>3, <1>4 DEF OneHand

(* No row, message or hand changes.                                        *)
Quiet ==
  /\ \A i \in Instances : UNCHANGED HandsOf(i)
  /\ UNCHANGED <<table, sent, log>>

LEMMA QuietKeeps ==
  ASSUME IInv, Quiet
  PROVE  /\ \A i \in Instances : Progress(i)'
         /\ OneHand' /\ UnclaimedUnsent' /\ SentOnce' /\ DeletedMeansPublished'
<1>1. Published' = Published
  BY DEF Quiet, Published
<1>2. ASSUME NEW i \in Instances
      PROVE  Progress(i)'
  BY <1>1, ProgressSame DEF Quiet, IInv, Progress
<1>3. OneHand'
  BY OneHandSame DEF Quiet, IInv
<1>4. QED
  BY <1>1, <1>2, <1>3
    DEF Quiet, IInv, UnclaimedUnsent, SentOnce, DeletedMeansPublished

-----------------------------------------------------------------------------
(* IInv is inductive: one lemma per group of actions.                      *)

(* The part of IInv that the steps below preserve, but for TypeOK and      *)
(* DownIsStopped.                                                          *)
Safe ==
  /\ \A i \in Instances : Control(i) /\ Progress(i)
  /\ LocksExclude
  /\ OneHand
  /\ UnclaimedUnsent
  /\ SentOnce
  /\ DeletedMeansPublished

LEMMA AddTaskKeeps ==
  ASSUME IInv, NEW t \in Tasks, AddTask(t)
  PROVE  Safe'
<1> USE DEF IInv
<1>1. /\ table' = [table EXCEPT ![t] = "created"]
      /\ table[t] = "absent"
      /\ UNCHANGED <<picked, poller, polled, channel, producer, current, log, sent>>
  BY DEF AddTask, pollerVars, producerVars
<1>2. \A u \in Tasks : table'[u] = IF u = t THEN "created" ELSE table[u]
  BY <1>1 DEF TypeOK
<1>3. Published' = Published
  BY <1>1 DEF Published
<1>4. ASSUME NEW i \in Instances
      PROVE  UNCHANGED HandsOf(i)
  BY <1>1 DEF HandsOf
<1>5. ASSUME NEW i \in Instances
      PROVE  Control(i)' /\ Progress(i)'
  <2>1. Control(i)'
    BY <1>1, <1>4, ControlSame
  <2>2. \A u \in Held(i) : table'[u] = table[u]
    BY <1>1, <1>2, HeldType DEF Progress
  <2>3. Progress(i)'
    BY <1>1, <1>3, <1>4, <2>2, ProgressSame DEF Progress
  <2>4. QED
    BY <2>1, <2>3
<1>6. LocksExclude'
  BY <1>1, <1>2 DEF LocksExclude, TypeOK
<1>7. OneHand'
  BY <1>4, OneHandSame
<1>8. UnclaimedUnsent' /\ DeletedMeansPublished' /\ SentOnce'
  BY <1>1, <1>2, <1>3 DEF UnclaimedUnsent, DeletedMeansPublished, SentOnce
<1>9. QED
  BY <1>5, <1>6, <1>7, <1>8 DEF Safe

LEMMA PickTasksKeeps ==
  ASSUME IInv, NEW i \in Instances, PickTasks(i)
  PROVE  Safe'
<1> USE DEF IInv
<1>1. PICK S \in SUBSET Pending : picked' = [picked EXCEPT ![i] = S]
  BY DEF PickTasks
<1>2. /\ poller[i] = "waiting" /\ poller' = [poller EXCEPT ![i] = "locking"]
      /\ UNCHANGED <<table, polled, channel, producer, current, log, sent>>
  BY DEF PickTasks, producerVars
<1>3. Quiet
  BY <1>2 DEF Quiet, HandsOf
<1>4. ASSUME NEW j \in Instances
      PROVE  Control(j)'
  BY <1>1, <1>2 DEF Control, TypeOK
<1>5. LocksExclude'
  <2>1. \A j \in Instances : picked'[j] = IF j = i THEN S ELSE picked[j]
    BY <1>1 DEF TypeOK
  <2>2. QED
    BY <1>2, <2>1 DEF LocksExclude, Pending
<1>6. QED
  BY <1>3, <1>4, <1>5, QuietKeeps DEF Safe

(* The rows an instance has locked are nobody's yet.                       *)
LEMMA PickedIsFree ==
  ASSUME IInv, NEW i \in Instances, NEW t \in picked[i]
  PROVE  /\ t \in Tasks
         /\ table[t] = "created"
         /\ t \notin Range(sent)
         /\ \A j \in Instances : t \notin Held(j)
BY DEF IInv, TypeOK, LocksExclude, Progress, UnclaimedUnsent

(* The claim itself, whatever becomes of the batch.                        *)
LEMMA ClaimKeeps ==
  ASSUME IInv, NEW i \in Instances, Claim(i), UNCHANGED <<sent, log>>
  PROVE  /\ LocksExclude'
         /\ UnclaimedUnsent' /\ SentOnce' /\ DeletedMeansPublished'
         /\ \A t \in picked[i] : table'[t] = "processing"
         /\ \A t \in Tasks \ picked[i] : table'[t] = table[t]
         /\ \A j \in Instances : UNCHANGED HandsOf(j) => Progress(j)'
<1> USE DEF IInv
<1>1. /\ \A t \in picked[i] : t \in Tasks /\ table'[t] = "processing"
      /\ \A t \in Tasks \ picked[i] : table'[t] = table[t]
      /\ \A j \in Instances : picked'[j] = IF j = i THEN {} ELSE picked[j]
  BY PickedIsFree DEF Claim, TypeOK
<1>2. Published' = Published
  BY DEF Published
<1>3. LocksExclude'
  <2>1. ASSUME NEW j \in Instances, NEW t \in picked'[j]
        PROVE  table'[t] = "created"
    <3>1. j # i /\ t \in picked[j] /\ t \notin picked[i]
      BY <1>1, <2>1 DEF LocksExclude
    <3>2. QED
      BY <1>1, <3>1, PickedIsFree
  <2>2. \A j, k \in Instances : j # k => picked'[j] \cap picked'[k] = {}
    BY <1>1 DEF LocksExclude
  <2>3. QED
    BY <2>1, <2>2 DEF LocksExclude
<1>4. UnclaimedUnsent' /\ DeletedMeansPublished' /\ SentOnce'
  BY <1>1, <1>2 DEF UnclaimedUnsent, DeletedMeansPublished, SentOnce
<1>5. ASSUME NEW j \in Instances, UNCHANGED HandsOf(j)
      PROVE  Progress(j)'
  <2>1. \A t \in Held(j) : table'[t] = table[t]
    BY <1>1, HeldType, PickedIsFree
  <2>2. QED
    BY <1>2, <1>5, <2>1, ProgressSame DEF Progress
<1>6. QED
  BY <1>1, <1>3, <1>4, <1>5

LEMMA LockPendingKeeps ==
  ASSUME IInv, NEW i \in Instances, LockPending(i)
  PROVE  Safe'
<1> USE DEF IInv
<1>1. PICK b \in Orderings(picked[i]) : polled' = [polled EXCEPT ![i] = b]
  BY DEF LockPending
<1>2. /\ poller[i] = "locking" /\ poller' = [poller EXCEPT ![i] = "sending"]
      /\ Claim(i)
      /\ UNCHANGED <<channel, producer, current, log, sent>>
  BY DEF LockPending, producerVars
<1>3. Range(b) = picked[i]
  BY OrderingIsBatch DEF TypeOK
<1>4. polled[i] = <<>>
  BY <1>2 DEF Control
<1>5. \A j \in Instances : j # i => UNCHANGED HandsOf(j)
  BY <1>1 , <1>2 DEF HandsOf, TypeOK
<1>6. /\ polled'[i] = b /\ channel'[i] = channel[i]
      /\ current'[i] = current[i] /\ producer'[i] = producer[i]
  BY <1>1, <1>2 DEF TypeOK
<1>7. /\ Held(i)' = Held(i) \cup picked[i]
      /\ Unsent(i)' = Unsent(i) \cup picked[i]
  BY <1>3, <1>4, <1>6, RangeEmpty DEF Held, Unsent, HeadTried
<1>8. ASSUME NEW j \in Instances
      PROVE  Control(j)'
  BY <1>1, <1>2 DEF Control, TypeOK, Claim
<1>9. ASSUME NEW j \in Instances
      PROVE  Progress(j)'
  <2>1. CASE j # i
    BY <1>2, <1>5, <2>1, ClaimKeeps
  <2>2. CASE j = i
    <3>1. \A t \in Held(i)' : table'[t] = "processing"
      BY <1>2, <1>7, ClaimKeeps, HeldType DEF Progress
    <3>2. Unsent(i)' \cap Range(sent') = {}
      BY <1>2, <1>7, PickedIsFree DEF Progress
    <3>3. /\ HeadTried(i)' => Head(current'[i]) \in Range(sent')
          /\ producer'[i] = "delete" => Head(current'[i]) \in Published'
      BY <1>2, <1>6 DEF Progress, HeadTried, Published
    <3>4. QED
      BY <2>2, <3>1, <3>2, <3>3 DEF Progress
  <2>3. QED
    BY <2>1, <2>2
<1>10. OneHand'
  <2>1. ASSUME NEW j \in Instances, NEW k \in Instances, j # k
        PROVE  Held(j)' \cap Held(k)' = {}
    <3>1. \A l \in Instances : l # i => Held(l)' = Held(l)
      BY <1>5, HeldSame
    <3>2. \A l \in Instances : picked[i] \cap Held(l) = {}
      BY PickedIsFree
    <3>3. QED
      BY <1>7, <2>1, <3>1, <3>2 DEF OneHand
  <2>2. ASSUME NEW j \in Instances
        PROVE  /\ Apart(channel'[j])
               /\ Range(polled'[j]) \cap Contents(channel'[j]) = {}
               /\ Range(polled'[j]) \cap Range(current'[j]) = {}
               /\ Contents(channel'[j]) \cap Range(current'[j]) = {}
    <3>1. picked[i] \cap Held(i) = {}
      BY PickedIsFree
    <3>2. picked[i] \cap Contents(channel[i]) = {} /\ picked[i] \cap Range(current[i]) = {}
      BY <3>1 DEF Held
    <3>3. CASE j = i
      BY <1>3, <1>6, <3>2, <3>3 DEF OneHand
    <3>4. CASE j # i
      BY <1>5, <3>4 DEF OneHand, HandsOf
    <3>5. QED
      BY <3>3, <3>4
  <2>3. QED
    BY <2>1, <2>2 DEF OneHand
<1>11. QED
  BY <1>2, <1>8, <1>9, <1>10, ClaimKeeps DEF Safe

LEMMA FailLockPendingKeeps ==
  ASSUME IInv, NEW i \in Instances, FailLockPending(i)
  PROVE  Safe'
<1> USE DEF IInv
<1>1. /\ poller[i] = "locking" /\ poller' = [poller EXCEPT ![i] = "stopped"]
      /\ Claim(i) \/ (picked' = [picked EXCEPT ![i] = {}] /\ UNCHANGED table)
      /\ UNCHANGED <<polled, channel, producer, current, log, sent>>
  BY DEF FailLockPending, producerVars
<1>2. picked' = [picked EXCEPT ![i] = {}]
  BY <1>1 DEF Claim
<1>3. \A j \in Instances : UNCHANGED HandsOf(j)
  BY <1>1 DEF HandsOf
<1>4. \A j \in Instances : Control(j)'
  BY <1>1, <1>2 DEF Control, TypeOK
<1>5. OneHand'
  BY <1>3, OneHandSame
<1>6. CASE Claim(i)
  BY <1>1, <1>3, <1>4, <1>5, <1>6, ClaimKeeps DEF Safe
<1>7. CASE UNCHANGED table
  <2>1. Quiet
    BY <1>1, <1>3, <1>7 DEF Quiet
  <2>2. LocksExclude'
    BY <1>2, <1>7 DEF LocksExclude, TypeOK
  <2>3. QED
    BY <1>4, <2>1, <2>2, QuietKeeps DEF Safe
<1>8. QED
  BY <1>1, <1>6, <1>7

LEMMA SendBatchKeeps ==
  ASSUME IInv, NEW i \in Instances, SendBatch(i)
  PROVE  Safe'
<1> USE DEF IInv
<1>1. /\ poller[i] = "sending" /\ poller' = [poller EXCEPT ![i] = "waiting"]
      /\ channel' = [channel EXCEPT ![i] = Append(channel[i], polled[i])]
      /\ polled' = [polled EXCEPT ![i] = <<>>]
      /\ UNCHANGED <<table, picked, producer, current, log, sent>>
  BY DEF SendBatch, tableVars, producerVars
<1>2. \A j \in Instances : j # i => UNCHANGED HandsOf(j)
  BY <1>1 DEF HandsOf, TypeOK
<1>3. /\ polled'[i] = <<>> /\ channel'[i] = Append(channel[i], polled[i])
      /\ current'[i] = current[i] /\ producer'[i] = producer[i]
  BY <1>1 DEF TypeOK
<1>4. Contents(channel'[i]) = Contents(channel[i]) \cup Range(polled[i])
  BY <1>3, ContentsAppend DEF TypeOK
<1>5. Held(i)' = Held(i) /\ Unsent(i)' = Unsent(i)
  BY <1>3, <1>4, RangeEmpty DEF Held, Unsent, HeadTried
<1>6. Published' = Published
  BY <1>1 DEF Published
<1>7. ASSUME NEW j \in Instances
      PROVE  Control(j)' /\ Progress(j)'
  <2>1. Control(j)'
    BY <1>1 DEF Control, TypeOK
  <2>2. CASE j # i
    BY <1>1, <1>2, <1>6, <2>1, <2>2, ProgressSame DEF Progress
  <2>3. CASE j = i
    BY <1>1, <1>3, <1>5, <1>6, <2>1, <2>3 DEF Progress, HeadTried
  <2>4. QED
    BY <2>1, <2>2, <2>3
<1>8. OneHand'
  <2>1. /\ Apart(channel[i])
        /\ Range(polled[i]) \cap Contents(channel[i]) = {}
        /\ Range(polled[i]) \cap Range(current[i]) = {}
        /\ Contents(channel[i]) \cap Range(current[i]) = {}
    BY DEF OneHand
  <2>2. Apart(channel'[i])
    BY <1>3, <2>1, ApartAppend DEF TypeOK
  <2>3. QED
    BY <1>2, <1>3, <1>4, <1>5, <2>1, <2>2, RangeEmpty, OneHandLess
<1>9. QED
  BY <1>1, <1>6, <1>7, <1>8
    DEF Safe, LocksExclude, UnclaimedUnsent, SentOnce, DeletedMeansPublished

LEMMA ReceiveBatchKeeps ==
  ASSUME IInv, NEW i \in Instances, ReceiveBatch(i)
  PROVE  Safe'
<1> USE DEF IInv
<1> DEFINE b == Head(channel[i])
<1>1. /\ producer[i] = "waiting" /\ channel[i] # <<>>
      /\ channel' = [channel EXCEPT ![i] = Tail(channel[i])]
      /\ current' = [current EXCEPT ![i] = b]
      /\ producer' = [producer EXCEPT ![i] = IF b = <<>> THEN "waiting" ELSE "send"]
      /\ UNCHANGED <<table, picked, poller, polled, log, sent>>
  BY DEF ReceiveBatch, Continue, tableVars, pollerVars
<1>2. \A j \in Instances : j # i => UNCHANGED HandsOf(j)
  BY <1>1 DEF HandsOf, TypeOK
<1>3. /\ polled'[i] = polled[i] /\ channel'[i] = Tail(channel[i])
      /\ current'[i] = b /\ producer'[i] \in {"waiting", "send"}
      /\ current[i] = <<>>
  BY <1>1 DEF TypeOK, Control
<1>4. /\ Contents(channel[i]) = Range(b) \cup Contents(channel'[i])
      /\ channel[i] \in Seq(Batch)
  BY <1>1, <1>3, ContentsTail DEF TypeOK
<1> HIDE DEF b
<1>5. Held(i)' = Held(i) /\ Unsent(i)' = Held(i) /\ Unsent(i) = Held(i)
  BY <1>1, <1>3, <1>4, RangeEmpty DEF Held, Unsent, HeadTried
<1>6. Published' = Published
  BY <1>1 DEF Published
<1>7. ASSUME NEW j \in Instances
      PROVE  Control(j)' /\ Progress(j)'
  <2>1. Control(j)'
    BY <1>1 DEF Control, TypeOK
  <2>2. CASE j # i
    BY <1>1, <1>2, <1>6, <2>1, <2>2, ProgressSame DEF Progress
  <2>3. CASE j = i
    BY <1>1, <1>3, <1>5, <2>1, <2>3 DEF Progress, HeadTried
  <2>4. QED
    BY <2>1, <2>2, <2>3
<1>8. OneHand'
  <2>1. /\ Apart(channel[i])
        /\ Range(polled[i]) \cap Contents(channel[i]) = {}
    BY DEF OneHand
  <2>2. Apart(channel'[i]) /\ Range(b) \cap Contents(channel'[i]) = {}
    BY <1>1, <1>3, <1>4, <2>1, ApartTail DEF b
  <2>3. QED
    BY <1>2, <1>3, <1>4, <1>5, <2>1, <2>2, OneHandLess
<1>9. QED
  BY <1>1, <1>6, <1>7, <1>8
    DEF Safe, LocksExclude, UnclaimedUnsent, SentOnce, DeletedMeansPublished

(* SendMessage is called for a task that was never sent.                   *)
LEMMA SendMessageSends ==
  ASSUME IInv, NEW i \in Instances, SendMessage(i)
  PROVE  LET t == Head(current[i]) IN
         /\ t \in Tasks /\ t \in Held(i) /\ t \notin Range(sent)
         /\ t \notin Range(Tail(current[i]))
         /\ table[t] = "processing"
         /\ sent' = Append(sent, t)
         /\ Range(sent') = Range(sent) \cup {t}
         /\ Published' = Published \/ Published' = Published \cup {t}
         /\ producer'[i] = "delete" => t \in Published'
<1> USE DEF IInv
<1> DEFINE t == Head(current[i])
<1>1. /\ producer[i] = "send" /\ current[i] # <<>> /\ current[i] \in Batch
      /\ sent' = Append(sent, t)
  BY DEF SendMessage, Control, TypeOK
<1>2. /\ t \in Tasks /\ t \notin Range(Tail(current[i]))
      /\ t \in Range(current[i])
  BY <1>1, BatchTail
<1>3. t \in Held(i) /\ t \in Unsent(i)
  BY <1>1, <1>2 DEF Held, Unsent, HeadTried
<1>4. table[t] = "processing" /\ t \notin Range(sent)
  BY <1>3 DEF Progress
<1>5. Range(sent') = Range(sent) \cup {t}
  BY <1>1, <1>2, RangeAppend DEF TypeOK
<1>6. log \in Seq(MessageType)
  BY DEF TypeOK, MessageType
<1>7. /\ Published' = Published \/ Published' = Published \cup {t}
      /\ producer'[i] = "delete" => t \in Published'
  <2>1. CASE UNCHANGED log /\ producer' = [producer EXCEPT ![i] = "markFailed"]
    BY <2>1 DEF Published, TypeOK
  <2>2. CASE Publish(t, 1) \/ Publish(t, 2)
    BY <1>2, <1>6, <2>2, PublishType
  <2>3. QED
    BY <2>1, <2>2, SendOutcome
<1>8. QED
  BY <1>1, <1>2, <1>3, <1>4, <1>5, <1>7

LEMMA AppendOnce ==
  ASSUME NEW seq \in Seq(Tasks), NEW t \in Tasks \ Range(seq),
         \A j, k \in DOMAIN seq : seq[j] = seq[k] => j = k
  PROVE  \A j, k \in DOMAIN Append(seq, t) :
           Append(seq, t)[j] = Append(seq, t)[k] => j = k
<1>1. /\ Len(Append(seq, t)) = Len(seq) + 1
      /\ \A k \in 1 .. Len(seq) : Append(seq, t)[k] = seq[k]
      /\ Append(seq, t)[Len(seq) + 1] = t
      /\ Append(seq, t) \in Seq(Tasks)
  BY AppendProperties
<1>2. /\ Len(seq) \in Nat /\ DOMAIN seq = 1 .. Len(seq)
      /\ DOMAIN Append(seq, t) = 1 .. Len(seq) + 1
  BY <1>1, LenProperties
<1>3. \A k \in 1 .. Len(seq) : seq[k] # t
  BY <1>2 DEF Range
<1>4. QED
  BY <1>1, <1>2, <1>3

LEMMA SendMessageKeeps ==
  ASSUME IInv, NEW i \in Instances, SendMessage(i)
  PROVE  Safe'
<1> USE DEF IInv
<1> DEFINE t == Head(current[i])
<1>1. /\ producer[i] = "send"
      /\ producer' \in {[producer EXCEPT ![i] = "delete"],
                        [producer EXCEPT ![i] = "markFailed"]}
      /\ UNCHANGED <<table, picked, poller, polled, channel, current>>
  BY DEF SendMessage, tableVars, pollerVars
<1>2. \A j \in Instances : j # i => UNCHANGED HandsOf(j)
  BY <1>1 DEF HandsOf, TypeOK
<1>3. /\ polled'[i] = polled[i] /\ channel'[i] = channel[i]
      /\ current'[i] = current[i] /\ producer'[i] \in {"delete", "markFailed"}
  BY <1>1 DEF TypeOK
<1>4. /\ t \in Held(i) /\ t \in Tasks
      /\ table[t] = "processing"
      /\ Range(sent') = Range(sent) \cup {t}
      /\ Published \subseteq Published'
      /\ producer'[i] = "delete" => t \in Published'
  BY SendMessageSends
<1>5. /\ Held(i)' = Held(i)
      /\ Unsent(i)' \subseteq Unsent(i)
      /\ t \notin Unsent(i)'
  <2>1. /\ current[i] # <<>> /\ current[i] \in Batch
        /\ Range(current[i]) = {t} \cup Range(Tail(current[i]))
        /\ t \notin Range(Tail(current[i]))
    BY <1>1, BatchTail DEF Control, TypeOK
  <2>2. /\ Unsent(i) = Range(polled[i]) \cup Contents(channel[i]) \cup Range(current[i])
        /\ Unsent(i)' = Range(polled[i]) \cup Contents(channel[i])
                          \cup Range(Tail(current[i]))
    BY <1>1, <1>3 DEF Unsent, HeadTried
  <2>3. t \notin Range(polled[i]) /\ t \notin Contents(channel[i])
    BY <2>1 DEF OneHand
  <2>4. QED
    BY <1>3, <2>1, <2>2, <2>3 DEF Held
<1> HIDE DEF t
<1>6. ASSUME NEW j \in Instances
      PROVE  Control(j)' /\ Progress(j)'
  <2>1. Control(j)'
    BY <1>1 DEF Control, TypeOK
  <2>2. CASE j # i
    <3>1. t \notin Unsent(j)
      BY <1>4, <2>2, HeldType DEF OneHand
    <3>2. QED
      BY <1>1, <1>2, <1>4, <2>1, <2>2, <3>1, ProgressSame DEF Progress
  <2>3. CASE j = i
    <3>1. Unsent(i)' \cap Range(sent') = {}
      BY <1>4, <1>5 DEF Progress
    <3>2. Head(current'[i]) = t
      BY <1>3 DEF t
    <3>3. QED
      BY <1>1, <1>3, <1>4, <1>5, <2>1, <2>3, <3>1, <3>2 DEF Progress, HeadTried
  <2>4. QED
    BY <2>1, <2>2, <2>3
<1>7. OneHand'
  <2>1. /\ Apart(channel[i])
        /\ Range(polled[i]) \cap Contents(channel[i]) = {}
        /\ Range(polled[i]) \cap Range(current[i]) = {}
        /\ Contents(channel[i]) \cap Range(current[i]) = {}
    BY DEF OneHand
  <2>2. QED
    BY <1>2, <1>3, <1>5, <2>1, OneHandLess
<1>8. SentOnce'
  <2>1. t \in Tasks \ Range(sent) /\ sent' = Append(sent, t) /\ sent \in Seq(Tasks)
    BY SendMessageSends DEF t, TypeOK
  <2>2. \A j, k \in DOMAIN sent : sent[j] = sent[k] => j = k
    BY DEF SentOnce
  <2>3. QED
    BY <2>1, <2>2, AppendOnce DEF SentOnce
<1>9. UnclaimedUnsent' /\ DeletedMeansPublished' /\ LocksExclude'
  BY <1>1, <1>4 DEF UnclaimedUnsent, DeletedMeansPublished, LocksExclude
<1>10. QED
  BY <1>6, <1>7, <1>8, <1>9 DEF Safe

(* A row is settled: the message is dealt with, or the error is logged.    *)
LEMMA SettleKeeps ==
  ASSUME IInv, NEW i \in Instances, NEW s \in {"deleted", "failed"},
         HeadTried(i), s = "deleted" => producer[i] = "delete", Settle(i, s)
  PROVE  Safe'
<1> USE DEF IInv
<1> DEFINE t == Head(current[i])
           rest == Tail(current[i])
<1>1. /\ current' = [current EXCEPT ![i] = rest]
      /\ producer' = [producer EXCEPT ![i] = IF rest = <<>> THEN "waiting" ELSE "send"]
      /\ table' = [table EXCEPT ![t] = s] \/ UNCHANGED table
      /\ UNCHANGED <<picked, poller, polled, channel, log, sent>>
  BY DEF Settle, Continue, SetStatus, pollerVars
<1>2. /\ current[i] # <<>> /\ t \in Tasks /\ rest \in Batch
      /\ Range(current[i]) = {t} \cup Range(rest) /\ t \notin Range(rest)
  BY BatchTail DEF HeadTried, Control, TypeOK
<1>3. /\ t \in Held(i) /\ t \in Range(sent) /\ table[t] = "processing"
      /\ s = "deleted" => t \in Published
  BY <1>2 DEF Progress, Held
<1>4. \A j \in Instances : j # i => UNCHANGED HandsOf(j)
  BY <1>1 DEF HandsOf, TypeOK
<1>5. /\ polled'[i] = polled[i] /\ channel'[i] = channel[i]
      /\ current'[i] = rest /\ producer'[i] \in {"waiting", "send"}
  BY <1>1 DEF TypeOK
<1>6. \A u \in Tasks : u # t => table'[u] = table[u]
  BY <1>1 DEF TypeOK
<1>7. table'[t] \in {"processing", "failed"}
        \/ (table'[t] = "deleted" /\ t \in Published)
  BY <1>1, <1>2, <1>3 DEF TypeOK
<1>8. Published' = Published
  BY <1>1 DEF Published
<1>9. /\ Unsent(i) = Range(polled[i]) \cup Contents(channel[i]) \cup Range(rest)
      /\ Unsent(i)' = Unsent(i) /\ Held(i)' = Unsent(i)
      /\ Held(i) = Unsent(i) \cup {t}
  BY <1>2, <1>5 DEF Unsent, Held, HeadTried
<1>10. /\ t \notin Range(polled[i]) /\ t \notin Contents(channel[i])
       /\ t \notin Unsent(i)
  BY <1>2, <1>9 DEF OneHand
<1>11. ASSUME NEW j \in Instances
       PROVE  Control(j)'
  BY <1>1 DEF Control, TypeOK
<1> HIDE DEF t, rest
<1>12. ASSUME NEW j \in Instances
       PROVE  Progress(j)'
  <2>1. CASE j # i
    <3>1. t \notin Held(j)
      BY <1>3, <2>1 DEF OneHand
    <3>2. \A u \in Held(j) : table'[u] = table[u]
      BY <1>6, <3>1, HeldType
    <3>3. QED
      BY <1>1, <1>4, <1>8, <2>1, <3>2, ProgressSame DEF Progress
  <2>2. CASE j = i
    <3>1. \A u \in Held(i)' : table'[u] = "processing"
      BY <1>6, <1>9, <1>10, HeldType DEF Progress
    <3>2. Unsent(i)' \cap Range(sent') = {}
      BY <1>1, <1>9 DEF Progress
    <3>3. QED
      BY <1>5, <2>2, <3>1, <3>2 DEF Progress, HeadTried
  <2>3. QED
    BY <2>1, <2>2
<1>13. OneHand'
  <2>1. /\ Apart(channel[i])
        /\ Range(polled[i]) \cap Contents(channel[i]) = {}
        /\ Range(polled[i]) \cap Range(current[i]) = {}
        /\ Contents(channel[i]) \cap Range(current[i]) = {}
    BY DEF OneHand
  <2>2. QED
    BY <1>2, <1>4, <1>5, <1>9, <2>1, OneHandLess
<1>14. LocksExclude'
  <2>1. \A j \in Instances : t \notin picked[j]
    BY <1>3, PickedIsFree
  <2>2. \A j \in Instances : \A u \in picked[j] : table'[u] = "created"
    BY <1>6, <2>1, PickedIsFree
  <2>3. QED
    BY <1>1, <2>2 DEF LocksExclude
<1>15. UnclaimedUnsent' /\ DeletedMeansPublished' /\ SentOnce'
  BY <1>1, <1>2, <1>6, <1>7, <1>8 DEF UnclaimedUnsent, DeletedMeansPublished, SentOnce
<1>16. QED
  BY <1>11, <1>12, <1>13, <1>14, <1>15 DEF Safe

(* A goroutine or the process stops, is told to, or reads the topic.       *)
LEMMA IdleKeeps ==
  ASSUME IInv, NEW i \in Instances,
         StopPoller(i) \/ Consume(i) \/ StopConsumer(i) \/ Signal(i)
  PROVE  Safe'
<1> USE DEF IInv
<1>1. /\ poller' = poller \/ poller' = [poller EXCEPT ![i] = "stopped"]
      /\ poller' # poller => poller[i] = "waiting"
      /\ UNCHANGED <<table, picked, polled, channel, producer, current, log, sent>>
  BY DEF StopPoller, Consume, StopConsumer, Signal, tableVars, pollerVars, producerVars
<1>2. Quiet
  BY <1>1 DEF Quiet, HandsOf
<1>3. \A j \in Instances : Control(j)'
  BY <1>1 DEF Control, TypeOK
<1>4. QED
  BY <1>1, <1>2, <1>3, QuietKeeps DEF Safe, LocksExclude

LEMMA StopProducerKeeps ==
  ASSUME IInv, NEW i \in Instances, StopProducer(i)
  PROVE  Safe'
<1> USE DEF IInv
<1>1. /\ producer[i] = "waiting" /\ producer' = [producer EXCEPT ![i] = "stopped"]
      /\ UNCHANGED <<table, picked, poller, polled, channel, current, log, sent>>
  BY DEF StopProducer, tableVars, pollerVars
<1>2. Published' = Published
  BY <1>1 DEF Published
<1>3. \A j \in Instances : HeadTried(j)' = HeadTried(j)
  BY <1>1 DEF HeadTried, TypeOK
<1>4. \A j \in Instances : Held(j)' = Held(j) /\ Unsent(j)' = Unsent(j)
  BY <1>1, <1>3 DEF Held, Unsent
<1>5. ASSUME NEW j \in Instances
      PROVE  Control(j)' /\ Progress(j)'
  BY <1>1, <1>2, <1>3, <1>4 DEF Control, Progress, TypeOK
<1>6. OneHand'
  BY <1>1, <1>4 DEF OneHand
<1>7. QED
  BY <1>1, <1>2, <1>5, <1>6
    DEF Safe, LocksExclude, UnclaimedUnsent, SentOnce, DeletedMeansPublished

(* What a dead process held is nobody's any more.                          *)
LEMMA DiscardKeeps ==
  ASSUME IInv, NEW i \in Instances, Discard(i)
  PROVE  Safe'
<1> USE DEF IInv
<1>1. /\ picked' = [picked EXCEPT ![i] = {}]
      /\ poller' = [poller EXCEPT ![i] = "stopped"]
      /\ polled' = [polled EXCEPT ![i] = <<>>]
      /\ channel' = [channel EXCEPT ![i] = <<>>]
      /\ producer' = [producer EXCEPT ![i] = "stopped"]
      /\ current' = [current EXCEPT ![i] = <<>>]
      /\ UNCHANGED <<table, log, sent>>
  BY DEF Discard
<1>2. /\ picked'[i] = {} /\ polled'[i] = <<>> /\ channel'[i] = <<>>
      /\ current'[i] = <<>> /\ producer'[i] = "stopped"
  BY <1>1 DEF TypeOK
<1>3. \A j \in Instances : j # i => UNCHANGED HandsOf(j)
  BY <1>1 DEF HandsOf, TypeOK
<1>4. Held(i)' = {} /\ Unsent(i)' = {} /\ ~HeadTried(i)'
  BY <1>2, RangeEmpty, ContentsEmpty DEF Held, Unsent, HeadTried
<1>5. Published' = Published
  BY <1>1 DEF Published
<1>6. ASSUME NEW j \in Instances
      PROVE  Control(j)' /\ Progress(j)'
  <2>1. Control(j)'
    BY <1>1 DEF Control, TypeOK
  <2>2. CASE j # i
    BY <1>1, <1>3, <1>5, <2>1, <2>2, ProgressSame DEF Progress
  <2>3. CASE j = i
    BY <1>2, <1>4, <2>1, <2>3 DEF Progress
  <2>4. QED
    BY <2>1, <2>2, <2>3
<1>7. OneHand'
  BY <1>2, <1>3, <1>4, RangeEmpty, ContentsEmpty, OneHandLess
<1>8. LocksExclude'
  BY <1>1 DEF LocksExclude, TypeOK
<1>9. QED
  BY <1>1, <1>5, <1>6, <1>7, <1>8
    DEF Safe, UnclaimedUnsent, SentOnce, DeletedMeansPublished

LEMMA StartKeeps ==
  ASSUME IInv, NEW i \in Instances, Start(i)
  PROVE  Safe'
<1> USE DEF IInv
<1>1. /\ poller[i] = "stopped" /\ producer[i] = "stopped"
      /\ poller' = [poller EXCEPT ![i] = "waiting"]
      /\ producer' = [producer EXCEPT ![i] = "waiting"]
      /\ UNCHANGED <<table, picked, polled, channel, current, log, sent>>
  BY DEF Start, DownIsStopped, Stopped, tableVars
<1>2. Published' = Published
  BY <1>1 DEF Published
<1>3. \A j \in Instances : HeadTried(j)' = HeadTried(j)
  BY <1>1 DEF HeadTried, TypeOK
<1>4. \A j \in Instances : Held(j)' = Held(j) /\ Unsent(j)' = Unsent(j)
  BY <1>1, <1>3 DEF Held, Unsent
<1>5. ASSUME NEW j \in Instances
      PROVE  Control(j)' /\ Progress(j)'
  BY <1>1, <1>2, <1>3, <1>4 DEF Control, Progress, TypeOK
<1>6. OneHand'
  BY <1>1, <1>4 DEF OneHand
<1>7. QED
  BY <1>1, <1>2, <1>5, <1>6
    DEF Safe, LocksExclude, UnclaimedUnsent, SentOnce, DeletedMeansPublished

(* A goroutine of a process that is down never moves.                      *)
LEMMA DownIsStoppedStep ==
  ASSUME IInv, [Next]_vars
  PROVE  DownIsStopped'
<1> USE DEF IInv, DownIsStopped, Stopped, TypeOK
<1>1. ASSUME NEW t \in Tasks, AddTask(t)
      PROVE  DownIsStopped'
  BY <1>1 DEF AddTask, pollerVars, producerVars, consumerVars
<1>2. ASSUME NEW i \in Instances, PollerStep(i)
      PROVE  DownIsStopped'
  <2>1. /\ UNCHANGED <<up, producer, consumer>>
        /\ poller[i] # "stopped"
        /\ \A j \in Instances : j # i => poller'[j] = poller[j]
    BY <1>2 DEF PollerStep, PickTasks, LockPending, FailLockPending, SendBatch,
                StopPoller, producerVars, consumerVars
  <2>2. QED
    BY <2>1
<1>3. ASSUME NEW i \in Instances, ProducerStep(i)
      PROVE  DownIsStopped'
  <2>1. /\ UNCHANGED <<up, poller, consumer>>
        /\ producer[i] # "stopped"
        /\ \A j \in Instances : j # i => producer'[j] = producer[j]
    BY <1>3 DEF ProducerStep, ReceiveBatch, SendMessage, DeleteTask,
                MarkTaskAsFailed, Settle, Continue, StopProducer, pollerVars,
                consumerVars
  <2>2. QED
    BY <2>1
<1>4. ASSUME NEW i \in Instances, ConsumerStep(i)
      PROVE  DownIsStopped'
  BY <1>4 DEF ConsumerStep, Consume, StopConsumer, pollerVars, producerVars
<1>5. ASSUME NEW i \in Instances, Signal(i)
      PROVE  DownIsStopped'
  BY <1>5 DEF Signal, pollerVars, producerVars, consumerVars
<1>6. ASSUME NEW i \in Instances, Discard(i)
      PROVE  DownIsStopped'
  BY <1>6 DEF Discard
<1>7. ASSUME NEW i \in Instances, Start(i)
      PROVE  DownIsStopped'
  BY <1>7 DEF Start
<1>8. CASE UNCHANGED vars
  BY <1>8 DEF vars, pollerVars, producerVars, consumerVars
<1>9. QED
  BY <1>1, <1>2, <1>3, <1>4, <1>5, <1>6, <1>7, <1>8 DEF Next, Exit, Crash

LEMMA InvInit == Init => IInv
<1> SUFFICES ASSUME Init PROVE IInv
  OBVIOUS
<1>1. \A i \in Instances :
        /\ picked[i] = {} /\ polled[i] = <<>> /\ channel[i] = <<>>
        /\ current[i] = <<>> /\ producer[i] = "waiting" /\ up[i] = "running"
  BY DEF Init
<1>2. \A i \in Instances : Held(i) = {} /\ Unsent(i) = {} /\ ~HeadTried(i)
  BY <1>1, RangeEmpty, ContentsEmpty DEF Held, Unsent, HeadTried
<1>3. Range(sent) = {} /\ DOMAIN sent = {}
  BY RangeEmpty DEF Init
<1>4. \A i \in Instances : Control(i) /\ Progress(i)
  BY <1>1, <1>2, <1>3 DEF Control, Progress, HeadTried
<1>5. OneHand
  BY <1>1, <1>2, RangeEmpty, ContentsEmpty DEF OneHand
<1>6. DownIsStopped /\ LocksExclude
  BY <1>1 DEF DownIsStopped, LocksExclude
<1>7. UnclaimedUnsent /\ SentOnce
  BY <1>3 DEF UnclaimedUnsent, SentOnce
<1>8. DeletedMeansPublished
  BY DEF Init, DeletedMeansPublished
<1>9. QED
  BY <1>4, <1>5, <1>6, <1>7, <1>8, TypeInit DEF IInv

LEMMA InvStep ==
  ASSUME IInv, [Next]_vars
  PROVE  IInv'
<1>1. ASSUME NEW t \in Tasks, AddTask(t)
      PROVE  Safe'
  BY <1>1, AddTaskKeeps
<1>2. ASSUME NEW i \in Instances, PollerStep(i)
      PROVE  Safe'
  BY <1>2, PickTasksKeeps, LockPendingKeeps, FailLockPendingKeeps,
     SendBatchKeeps, IdleKeeps DEF PollerStep
<1>3. ASSUME NEW i \in Instances, ProducerStep(i)
      PROVE  Safe'
  <2>1. CASE DeleteTask(i)
    BY <2>1, SettleKeeps DEF DeleteTask, HeadTried
  <2>2. CASE MarkTaskAsFailed(i)
    BY <2>2, SettleKeeps DEF MarkTaskAsFailed, HeadTried
  <2>3. QED
    BY <1>3, <2>1, <2>2, ReceiveBatchKeeps, SendMessageKeeps, StopProducerKeeps
      DEF ProducerStep
<1>4. ASSUME NEW i \in Instances, ConsumerStep(i) \/ Signal(i)
      PROVE  Safe'
  BY <1>4, IdleKeeps DEF ConsumerStep
<1>5. ASSUME NEW i \in Instances, Exit(i) \/ Crash(i)
      PROVE  Safe'
  BY <1>5, DiscardKeeps DEF Exit, Crash
<1>6. ASSUME NEW i \in Instances, Start(i)
      PROVE  Safe'
  BY <1>6, StartKeeps
<1>7. ASSUME UNCHANGED vars
      PROVE  Safe'
  <2>1. Quiet
    BY <1>7 DEF vars, tableVars, pollerVars, producerVars, Quiet, HandsOf
  <2>2. \A j \in Instances : Control(j)'
    BY <1>7 DEF vars, tableVars, pollerVars, producerVars, Control, IInv
  <2>3. QED
    <3>1. LocksExclude'
      BY <1>7 DEF vars, tableVars, LocksExclude, IInv
    <3>2. QED
      BY <2>1, <2>2, <3>1, QuietKeeps DEF Safe
<1>8. Safe'
  BY <1>1, <1>2, <1>3, <1>4, <1>5, <1>6, <1>7 DEF Next
<1>9. QED
  <2>1. TypeOK' /\ DownIsStopped'
    BY TypeStep, DownIsStoppedStep
  <2>2. QED
    BY <1>8, <2>1 DEF IInv, Safe

-----------------------------------------------------------------------------
(* The theorems.                                                           *)

(* The variables hold what they may hold in every reachable state: in      *)
(* particular a batch never exceeds LIMIT of LockPending nor the channel   *)
(* jobsCount batches, and the consumer is never past the end of the topic. *)
THEOREM RelayTypeCorrect == Spec => []TypeOK
<1>1. IInv => TypeOK
  BY DEF IInv
<1>2. QED
  BY <1>1, InvInit, InvStep, PTL DEF Spec

(* The invariant behind the rest: locks exclude, a claimed task is in one  *)
(* place of one server at most, and what waits there has not been sent.    *)
THEOREM RelayInvariant == Spec => []IInv
BY InvInit, InvStep, PTL DEF Spec

(* OrderOutbox.LockPending and OrderAuditLogProducer.work together call    *)
(* SendMessage at most once for a task, whatever fails, crashes or starts. *)
THEOREM RelaySendsOnce == Spec => []SentOnce
<1>1. IInv => SentOnce
  BY DEF IInv
<1>2. QED
  BY <1>1, RelayInvariant, PTL

(* DeleteTask only ever deletes rows whose message is in the topic.        *)
THEOREM RelayDeletesPublished == Spec => []DeletedMeansPublished
<1>1. IInv => DeletedMeansPublished
  BY DEF IInv
<1>2. QED
  BY <1>1, RelayInvariant, PTL

LEMMA RelayInit == Init => Relay!Init
BY DEF Init, Relay!Init, Published

(* What AuditRelay does not see.                                           *)
LEMMA RelayStutter ==
  ASSUME UNCHANGED <<table, sent, log>>
  PROVE  UNCHANGED <<table, sent, Published>>
BY DEF Published

LEMMA RelayClaim ==
  ASSUME IInv, NEW i \in Instances, Claim(i), UNCHANGED <<sent, log>>
  PROVE  Relay!Next
<1>1. picked[i] \in SUBSET Tasks /\ \A t \in picked[i] : table[t] = "created"
  BY DEF IInv, TypeOK, LocksExclude
<1>2. table' = [t \in Tasks |-> IF t \in picked[i] THEN "processing" ELSE table[t]]
  BY DEF Claim
<1>3. Relay!Claim(picked[i])
  BY <1>1, <1>2 DEF Relay!Claim, Published
<1>4. QED
  BY <1>1, <1>3 DEF Relay!Next

LEMMA RelaySend ==
  ASSUME IInv, NEW i \in Instances, SendMessage(i)
  PROVE  Relay!Next
<1> DEFINE t == Head(current[i])
<1>1. /\ t \in Tasks /\ t \notin Range(sent) /\ table[t] = "processing"
      /\ sent' = Append(sent, t)
      /\ Published' \in {Published, Published \cup {t}}
  BY SendMessageSends
<1>2. UNCHANGED table
  BY DEF SendMessage, tableVars
<1>3. Relay!Send(t)
  BY <1>1, <1>2 DEF Relay!Send, Relay!Sent, Range
<1>4. QED
  BY <1>1, <1>3 DEF Relay!Next

LEMMA RelaySettle ==
  ASSUME IInv, NEW i \in Instances, NEW s \in {"deleted", "failed"},
         HeadTried(i), s = "deleted" => producer[i] = "delete", Settle(i, s)
  PROVE  Relay!Next \/ UNCHANGED <<table, sent, Published>>
<1> DEFINE t == Head(current[i])
<1>1. current[i] # <<>> /\ current[i] \in Batch
  BY DEF HeadTried, IInv, Control, TypeOK
<1>2. t \in Tasks /\ t \in Held(i)
  BY <1>1, BatchTail DEF Held
<1>3. table[t] = "processing" /\ t \in Range(sent) /\ (s = "deleted" => t \in Published)
  BY <1>2 DEF IInv, Progress
<1>4. UNCHANGED <<sent, log>> /\ (table' = [table EXCEPT ![t] = s] \/ UNCHANGED table)
  BY DEF Settle, SetStatus
<1>5. UNCHANGED Published
  BY <1>4 DEF Published
<1>6. CASE table' = [table EXCEPT ![t] = s]
  <2>1. Relay!Settle(t, s)
    BY <1>3, <1>4, <1>5, <1>6 DEF Relay!Settle, Relay!Sent, Range
  <2>2. QED
    BY <1>2, <2>1 DEF Relay!Next
<1>7. QED
  BY <1>4, <1>5, <1>6

(* OrderOutbox implements AuditRelay: no overlap of polls, lost answer,    *)
(* crash or restart takes a task back, hands it over twice, deletes it     *)
(* unpublished or gives it up untried.                                     *)
THEOREM OutboxImplementsRelay == Spec => ImplementsRelay
<1>1. ASSUME IInv, [Next]_vars
      PROVE  Relay!Next \/ UNCHANGED <<table, sent, Published>>
  <2>1. ASSUME NEW t \in Tasks, AddTask(t)
        PROVE  Relay!Next
    <3>1. Relay!Add(t)
      BY <2>1 DEF AddTask, Relay!Add, Published
    <3>2. QED
      BY <3>1 DEF Relay!Next
  <2>2. ASSUME NEW i \in Instances, LockPending(i) \/ FailLockPending(i)
        PROVE  Relay!Next \/ UNCHANGED <<table, sent, log>>
    <3>1. Claim(i) \/ UNCHANGED table
      BY <2>2 DEF LockPending, FailLockPending
    <3>2. UNCHANGED <<sent, log>>
      BY <2>2 DEF LockPending, FailLockPending
    <3>3. QED
      BY <1>1, <3>1, <3>2, RelayClaim
  <2>3. ASSUME NEW i \in Instances, DeleteTask(i) \/ MarkTaskAsFailed(i)
        PROVE  Relay!Next \/ UNCHANGED <<table, sent, Published>>
    BY <1>1, <2>3, RelaySettle DEF DeleteTask, MarkTaskAsFailed, HeadTried
  <2>4. ASSUME NEW i \in Instances,
               PickTasks(i) \/ SendBatch(i) \/ StopPoller(i) \/ ReceiveBatch(i)
                 \/ StopProducer(i) \/ ConsumerStep(i) \/ Signal(i)
        PROVE  UNCHANGED <<table, sent, log>>
    BY <2>4 DEF PickTasks, SendBatch, StopPoller, ReceiveBatch, StopProducer,
                ConsumerStep, Consume, StopConsumer, Signal, tableVars
  <2>5. ASSUME NEW i \in Instances, Exit(i) \/ Crash(i) \/ Start(i)
        PROVE  UNCHANGED <<table, sent, log>>
    BY <2>5 DEF Exit, Crash, Discard, Start, tableVars
  <2>6. CASE UNCHANGED vars
    BY <2>6, RelayStutter DEF vars, tableVars
  <2>7. QED
    BY <1>1, <2>1, <2>2, <2>3, <2>4, <2>5, <2>6, RelaySend, RelayStutter
      DEF Next, PollerStep, ProducerStep
<1>2. QED
  BY <1>1, RelayInit, RelayInvariant, PTL DEF Spec, ImplementsRelay, Relay!Spec

-----------------------------------------------------------------------------
(* Servers that keep running over a database that answers.                 *)

Steady == Faults \cap {"database", "signal", "crash"} = {}

AllRunning == \A i \in Instances : up[i] = "running"

LEMMA RunningStep ==
  ASSUME Steady, IInv, AllRunning, [Next]_vars
  PROVE  AllRunning'
<1>1. UNCHANGED up
  BY DEF Next, vars, AddTask, PollerStep, ProducerStep, ConsumerStep, PickTasks,
         LockPending, FailLockPending, SendBatch, StopPoller, ReceiveBatch,
         SendMessage, DeleteTask, MarkTaskAsFailed, Settle, StopProducer,
         Consume, StopConsumer, Signal, Exit, Crash, Start, Steady, AllRunning
<1>2. QED
  BY <1>1 DEF AllRunning

LEMMA HeldStep ==
  ASSUME Steady, IInv, AllRunning, [Next]_vars, NEW t \in Tasks,
         table[t] = "processing" => \E i \in Instances : t \in Held(i),
         table'[t] = "processing"
  PROVE  \E i \in Instances : t \in Held(i)'
<1> USE DEF IInv
<1>1. ASSUME NEW i \in Instances, LockPending(i)
      PROVE  \E j \in Instances : t \in Held(j)'
  <2>1. PICK b \in Orderings(picked[i]) : polled' = [polled EXCEPT ![i] = b]
    BY <1>1 DEF LockPending
  <2>2. /\ Claim(i) /\ UNCHANGED <<channel, current>>
        /\ polled[i] = <<>> /\ Range(b) = picked[i]
    BY <1>1, OrderingIsBatch DEF LockPending, producerVars, Control, TypeOK
  <2>3. Held(i)' = Held(i) \cup picked[i]
    BY <2>1, <2>2, RangeEmpty DEF Held, TypeOK
  <2>4. \A j \in Instances : j # i => Held(j)' = Held(j)
    BY <2>1, <2>2 DEF Held, TypeOK
  <2>5. t \in picked[i] \/ table[t] = "processing"
    BY <2>2 DEF Claim
  <2>6. QED
    BY <2>3, <2>4, <2>5
<1>2. ASSUME NEW i \in Instances, SendBatch(i)
      PROVE  \E j \in Instances : t \in Held(j)'
  <2>1. /\ channel' = [channel EXCEPT ![i] = Append(channel[i], polled[i])]
        /\ polled' = [polled EXCEPT ![i] = <<>>]
        /\ UNCHANGED <<table, current>>
    BY <1>2 DEF SendBatch, tableVars, producerVars
  <2>2. Contents(channel'[i]) = Contents(channel[i]) \cup Range(polled[i])
    BY <2>1, ContentsAppend DEF TypeOK
  <2>3. \A j \in Instances : Held(j)' = Held(j)
    BY <2>1, <2>2, RangeEmpty DEF Held, TypeOK
  <2>4. QED
    BY <2>1, <2>3
<1>3. ASSUME NEW i \in Instances, ReceiveBatch(i)
      PROVE  \E j \in Instances : t \in Held(j)'
  <2>1. /\ channel[i] # <<>> /\ current[i] = <<>>
        /\ channel' = [channel EXCEPT ![i] = Tail(channel[i])]
        /\ current' = [current EXCEPT ![i] = Head(channel[i])]
        /\ UNCHANGED <<table, polled>>
    BY <1>3 DEF ReceiveBatch, Continue, Control, tableVars, pollerVars
  <2>2. Contents(channel[i]) = Range(Head(channel[i])) \cup Contents(channel'[i])
    BY <2>1, ContentsTail DEF TypeOK
  <2>3. \A j \in Instances : Held(j)' = Held(j)
    BY <2>1, <2>2, RangeEmpty DEF Held, TypeOK
  <2>4. QED
    BY <2>1, <2>3
<1>4. ASSUME NEW i \in Instances, NEW s \in {"deleted", "failed"},
             HeadTried(i), Settle(i, s)
      PROVE  \E j \in Instances : t \in Held(j)'
  <2>1. current[i] # <<>> /\ current[i] \in Batch
    BY <1>4 DEF HeadTried, Control, TypeOK
  <2>2. /\ table' = [table EXCEPT ![Head(current[i])] = s]
        /\ current' = [current EXCEPT ![i] = Tail(current[i])]
        /\ UNCHANGED <<polled, channel>>
    BY <1>4 DEF Settle, SetStatus, Continue, Steady, AllRunning, pollerVars
  <2>3. t # Head(current[i]) /\ table[t] = "processing"
    BY <2>1, <2>2, BatchTail DEF TypeOK
  <2>4. \A j \in Instances : Held(j) \ {Head(current[i])} \subseteq Held(j)'
    BY <2>1, <2>2, BatchTail DEF Held, TypeOK
  <2>5. QED
    BY <2>3, <2>4
<1>5. ASSUME NEW u \in Tasks, AddTask(u)
      PROVE  \E j \in Instances : t \in Held(j)'
  <2>1. table[t] = "processing" /\ UNCHANGED <<polled, channel, current>>
    BY <1>5 DEF AddTask, TypeOK, pollerVars, producerVars
  <2>2. QED
    BY <2>1 DEF Held
<1>6. ASSUME UNCHANGED <<table, polled, channel, current>>
      PROVE  \E j \in Instances : t \in Held(j)'
  BY <1>6 DEF Held
<1>7. ASSUME NEW i \in Instances,
             PickTasks(i) \/ StopPoller(i) \/ SendMessage(i) \/ StopProducer(i)
               \/ ConsumerStep(i)
      PROVE  UNCHANGED <<table, polled, channel, current>>
  BY <1>7 DEF PickTasks, StopPoller, SendMessage, StopProducer, ConsumerStep,
              Consume, StopConsumer, tableVars, pollerVars, producerVars
<1>8. ASSUME NEW i \in Instances
      PROVE  /\ ~FailLockPending(i) /\ ~Signal(i) /\ ~Exit(i)
             /\ ~Crash(i) /\ ~Start(i)
  BY DEF FailLockPending, Signal, Exit, Crash, Start, Steady, AllRunning
<1>9. CASE UNCHANGED vars
  BY <1>6, <1>9 DEF vars, tableVars, pollerVars, producerVars
<1>10. QED
  BY <1>1, <1>2, <1>3, <1>4, <1>5, <1>6, <1>7, <1>8, <1>9
    DEF Next, PollerStep, ProducerStep, DeleteTask, MarkTaskAsFailed, HeadTried

(* When statements do not fail and no server stops, a claimed row is always *)
(* in the hands of a server, whatever the broker does: the loop of work    *)
(* never drops a task.                                                     *)
THEOREM ClaimedIsHeld ==
  ASSUME Steady
  PROVE  Spec => []ClaimsHeld
<1>1. Init => AllRunning /\ ClaimsHeld
  BY DEF Init, AllRunning, ClaimsHeld
<1>2. ASSUME IInv, AllRunning, ClaimsHeld, [Next]_vars
      PROVE  AllRunning' /\ ClaimsHeld'
  BY <1>2, RunningStep, HeldStep DEF ClaimsHeld
<1>3. QED
  BY <1>1, <1>2, RelayInvariant, PTL DEF Spec

=============================================================================
