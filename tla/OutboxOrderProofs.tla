-------------------------- MODULE OutboxOrderProofs --------------------------
(***************************************************************************)
(* One server keeps the changes of an order in order from one batch to the *)
(* next: OrderAcrossBatches, for every number of tasks, every LIMIT and    *)
(* every failure, when there is a single instance.                         *)
(***************************************************************************)
EXTENDS OrderOutboxProofs

Waiting(t) == table[t] \in {"absent", "created"}

(* Two tasks of one order that no LockPending has claimed together: the    *)
(* earlier one must go first.                                              *)
Precedes(s, t) ==
  /\ s < t /\ OrderOf[s] = OrderOf[t]
  /\ \A b \in Range(batches) : ~({s, t} \subseteq b)

(* The places between the table and the broker, from its end to its start: *)
(* a task is not behind one that it precedes.                              *)
NotBehind(i, s, t) ==
  /\ ~Waiting(t) => ~Waiting(s)
  /\ t \in picked[i] => s \in picked[i] \/ ~Waiting(s)
  /\ t \in Range(sent) \cup Range(current[i]) \cup Contents(channel[i])
       => s \notin Range(polled[i])
  /\ t \in Range(sent) \cup Range(current[i]) => s \notin Contents(channel[i])
  /\ t \in Range(sent) => s \notin Unsent(i)

(* The batches of a channel follow each other.                             *)
InLine(ch) ==
  \A m, n \in DOMAIN ch : m < n =>
    \A t \in Range(ch[m]), s \in Range(ch[n]) : ~Precedes(s, t)

(* What a batch holds, or is left of it, was claimed together.             *)
Together(seq) == Range(seq) = {} \/ \E b \in Range(batches) : Range(seq) \subseteq b

AddedInOrder ==
  \A s, t \in Tasks :
    s < t /\ OrderOf[s] = OrderOf[t] /\ table[t] # "absent" => table[s] # "absent"

LineInv(i) ==
  /\ OrderAcrossBatches
  /\ AddedInOrder
  /\ \A s, t \in Tasks : Precedes(s, t) => NotBehind(i, s, t)
  /\ InLine(channel[i])
  /\ Together(polled[i]) /\ Together(current[i])
  /\ \A b \in Range(channel[i]) : Together(b)

-----------------------------------------------------------------------------
(* Lines of batches.                                                       *)

LEMMA InLineAppend ==
  ASSUME NEW ch \in Seq(Batch), NEW b \in Batch, InLine(ch),
         \A t \in Contents(ch), s \in Range(b) : ~Precedes(s, t)
  PROVE  InLine(Append(ch, b))
<1> DEFINE new == Append(ch, b)
<1>1. /\ new \in Seq(Batch)
      /\ Len(new) = Len(ch) + 1
      /\ \A k \in 1 .. Len(ch) : new[k] = ch[k]
      /\ new[Len(ch) + 1] = b
  BY AppendProperties
<1>2. /\ Len(ch) \in Nat /\ DOMAIN ch = 1 .. Len(ch)
      /\ DOMAIN new = 1 .. Len(ch) + 1
  BY <1>1, LenProperties
<1>3. SUFFICES ASSUME NEW m \in DOMAIN new, NEW n \in DOMAIN new, m < n,
                      NEW t \in Range(new[m]), NEW s \in Range(new[n])
               PROVE  ~Precedes(s, t)
  BY DEF InLine
<1>4. m \in 1 .. Len(ch) /\ new[m] = ch[m]
  BY <1>1, <1>2, <1>3
<1>5. CASE n \in 1 .. Len(ch)
  BY <1>1, <1>2, <1>3, <1>4, <1>5 DEF InLine
<1>6. CASE n = Len(ch) + 1
  <2>1. ch[m] \in Range(ch)
    BY <1>2, <1>4 DEF Range
  <2>2. t \in Contents(ch)
    BY <1>3, <1>4, <2>1 DEF Contents
  <2>3. QED
    BY <1>1, <1>3, <1>6, <2>2
<1>7. QED
  BY <1>2, <1>3, <1>5, <1>6

LEMMA InLineTail ==
  ASSUME NEW ch \in Seq(Batch), ch # <<>>, InLine(ch)
  PROVE  /\ InLine(Tail(ch))
         /\ \A t \in Range(Head(ch)), s \in Contents(Tail(ch)) : ~Precedes(s, t)
<1>1. /\ Tail(ch) \in Seq(Batch)
      /\ Len(Tail(ch)) = Len(ch) - 1
      /\ \A k \in 1 .. Len(Tail(ch)) : Tail(ch)[k] = ch[k + 1]
  BY HeadTailProperties
<1>2. /\ Len(ch) \in Nat \ {0} /\ Head(ch) = ch[1]
      /\ DOMAIN ch = 1 .. Len(ch) /\ DOMAIN Tail(ch) = 1 .. Len(ch) - 1
  BY <1>1, EmptySeq, LenProperties
<1>3. InLine(Tail(ch))
  <2>1. SUFFICES ASSUME NEW m \in 1 .. Len(ch) - 1, NEW n \in 1 .. Len(ch) - 1, m < n,
                        NEW t \in Range(Tail(ch)[m]), NEW s \in Range(Tail(ch)[n])
                 PROVE  ~Precedes(s, t)
    BY <1>2 DEF InLine
  <2>2. /\ m + 1 \in DOMAIN ch /\ n + 1 \in DOMAIN ch /\ m + 1 < n + 1
        /\ Tail(ch)[m] = ch[m + 1] /\ Tail(ch)[n] = ch[n + 1]
    BY <1>1, <1>2, <2>1
  <2>3. QED
    BY <2>1, <2>2 DEF InLine
<1>4. ASSUME NEW t \in Range(Head(ch)), NEW s \in Contents(Tail(ch))
      PROVE  ~Precedes(s, t)
  <2>1. PICK b \in Range(Tail(ch)) : s \in Range(b)
    BY <1>4 DEF Contents
  <2>2. PICK k \in 1 .. Len(ch) - 1 : b = Tail(ch)[k]
    BY <1>2 DEF Range
  <2>3. /\ 1 \in DOMAIN ch /\ k + 1 \in DOMAIN ch /\ 1 < k + 1
        /\ ch[k + 1] = b
    BY <1>1, <1>2, <2>2
  <2>4. QED
    BY <1>2, <1>4, <2>1, <2>3 DEF InLine
<1>5. QED
  BY <1>3, <1>4

LEMMA NothingInLine == InLine(<<>>)
BY DEF InLine

(* More batches, fewer tasks that were claimed apart.                      *)
LEMMA ClaimedTogether ==
  ASSUME Range(batches) \subseteq Range(batches')
  PROVE  /\ \A s, t : Precedes(s, t)' => Precedes(s, t)
         /\ \A ch : InLine(ch) => InLine(ch)'
         /\ \A seq : Together(seq) => Together(seq)'
<1>1. ASSUME NEW s, NEW t, Precedes(s, t)'
      PROVE  Precedes(s, t)
  BY <1>1 DEF Precedes
<1>2. ASSUME NEW ch, InLine(ch)
      PROVE  InLine(ch)'
  BY <1>1, <1>2 DEF InLine
<1>3. ASSUME NEW seq, Together(seq)
      PROVE  Together(seq)'
  BY <1>3 DEF Together
<1>4. QED
  BY <1>1, <1>2, <1>3

LEMMA BatchesGrow ==
  ASSUME TypeOK, NEW i \in Instances, Claim(i)
  PROVE  /\ Range(batches) \subseteq Range(batches')
         /\ Together(<<>>)'
         /\ picked[i] # {} => picked[i] \in Range(batches')
<1>1. batches \in Seq(SUBSET Tasks) /\ picked[i] \in SUBSET Tasks
  BY DEF TypeOK
<1>2. Range(Append(batches, picked[i])) = Range(batches) \cup {picked[i]}
  BY <1>1, RangeAppend
<1>3. QED
  BY <1>2, RangeEmpty DEF Claim, Together

-----------------------------------------------------------------------------
(* The steps.                                                              *)

(* Nothing moves forward: tasks stay where they are or are lost.           *)
LEMMA NothingAdvances ==
  ASSUME NEW i \in Instances, LineInv(i), UNCHANGED <<sent, batches>>,
         \A t \in Tasks : Waiting(t)' <=> Waiting(t),
         AddedInOrder',
         picked'[i] = picked[i] \/ picked'[i] = {},
         polled'[i] = polled[i] \/ polled'[i] = <<>>,
         channel'[i] = channel[i] \/ channel'[i] = <<>>,
         Range(current'[i]) \subseteq Range(current[i]),
         Unsent(i)' \subseteq Unsent(i)
  PROVE  LineInv(i)'
<1>1. OrderAcrossBatches'
  BY DEF LineInv, OrderAcrossBatches
<1>2. /\ \A s, t : Precedes(s, t)' => Precedes(s, t)
      /\ \A ch : InLine(ch) => InLine(ch)'
      /\ \A seq : Together(seq) => Together(seq)'
  BY ClaimedTogether
<1>3. /\ Range(polled'[i]) \subseteq Range(polled[i])
      /\ Contents(channel'[i]) \subseteq Contents(channel[i])
  BY RangeEmpty, ContentsEmpty
<1>4. ASSUME NEW s \in Tasks, NEW t \in Tasks, Precedes(s, t)'
      PROVE  NotBehind(i, s, t)'
  <2>1. NotBehind(i, s, t)
    BY <1>2, <1>4 DEF LineInv
  <2>2. QED
    BY <1>3, <2>1 DEF NotBehind
<1>5. InLine(channel[i])'
  <2>1. CASE channel'[i] = channel[i]
    BY <1>2, <2>1 DEF LineInv, InLine
  <2>2. CASE channel'[i] = <<>>
    BY <2>2 DEF InLine
  <2>3. QED
    BY <2>1, <2>2
<1>6. Together(polled[i])' /\ Together(current[i])'
  BY <1>3 DEF LineInv, Together
<1>7. (\A b \in Range(channel[i]) : Together(b))'
  <2>1. Range(channel'[i]) \subseteq Range(channel[i])
    BY RangeEmpty
  <2>2. QED
    BY <2>1 DEF LineInv, Together
<1>8. QED
  BY <1>1, <1>4, <1>5, <1>6, <1>7 DEF LineInv

LEMMA AddTaskInLine ==
  ASSUME IInv, NEW i \in Instances, LineInv(i), NEW u \in Tasks, AddTask(u)
  PROVE  LineInv(i)'
<1>1. /\ \A t \in Tasks : table'[t] = IF t = u THEN "created" ELSE table[t]
      /\ table[u] = "absent"
      /\ \A s \in Tasks : s < u /\ OrderOf[s] = OrderOf[u] => table[s] # "absent"
      /\ UNCHANGED <<picked, polled, channel, producer, current, sent, batches>>
  <2>1. \A s \in Tasks : s < u => s \in 1 .. u - 1
    BY OutboxAssumption DEF Tasks, OutboxAssumption
  <2>2. QED
    BY <2>1 DEF IInv, TypeOK, AddTask, pollerVars, producerVars
<1>2. AddedInOrder'
  BY <1>1 DEF LineInv, AddedInOrder
<1>3. Unsent(i)' = Unsent(i)
  BY <1>1 DEF Unsent, HeadTried
<1>4. \A t \in Tasks : Waiting(t)' <=> Waiting(t)
  BY <1>1 DEF Waiting
<1>5. QED
  BY <1>1, <1>2, <1>3, <1>4, NothingAdvances

(* One server: a row that is free to be locked is in nobody's hands.       *)
LEMMA PickInLine ==
  ASSUME IInv, NEW i \in Instances, Instances = {i}, LineInv(i), PickTasks(i)
  PROVE  LineInv(i)'
<1>1. PICK S \in SUBSET Pending :
        IsFirst(S, Pending) /\ picked' = [picked EXCEPT ![i] = S]
  BY DEF PickTasks
<1>2. /\ picked'[i] = S /\ picked[i] = {} /\ S \subseteq Tasks
      /\ UNCHANGED <<table, polled, channel, producer, current, sent, batches>>
  BY <1>1 DEF IInv, TypeOK, Control, PickTasks, Pending, producerVars
<1>3. ASSUME NEW s \in Tasks, NEW t \in S, Precedes(s, t)
      PROVE  s \in S \/ ~Waiting(s)
  <2>1. table[t] = "created"
    BY <1>1 DEF Pending
  <2>2. s < t /\ table[s] # "absent"
    BY <1>2, <1>3, <2>1 DEF LineInv, AddedInOrder, Precedes
  <2>3. table[s] = "created" => s \in Pending
    BY <1>2 DEF Pending
  <2>4. s \in Pending \ S => t < s
    BY <1>1 DEF IsFirst
  <2>5. s \in Nat /\ t \in Nat
    BY <1>2, OutboxAssumption DEF Tasks, OutboxAssumption
  <2>6. QED
    BY <2>2, <2>3, <2>4, <2>5 DEF Waiting
<1>4. ASSUME NEW s \in Tasks, NEW t \in Tasks, Precedes(s, t)'
      PROVE  NotBehind(i, s, t)'
  <2>1. Precedes(s, t) /\ NotBehind(i, s, t)
    BY <1>2, <1>4 DEF LineInv, Precedes
  <2>2. QED
    BY <1>2, <1>3, <2>1 DEF NotBehind, Waiting, Unsent, HeadTried
<1>5. QED
  BY <1>2, <1>4
  DEF LineInv, OrderAcrossBatches, AddedInOrder, InLine, Precedes, Together

(* A row that is claimed now precedes none that was claimed before.        *)
LEMMA ClaimInLine ==
  ASSUME IInv, NEW i \in Instances, LineInv(i), Claim(i)
  PROVE  /\ \A t \in Tasks : Waiting(t)' <=> Waiting(t) /\ t \notin picked[i]
         /\ AddedInOrder'
         /\ \A s \in picked[i], t \in Tasks : Precedes(s, t) =>
              t \notin Range(sent) \cup Held(i)
         /\ \A s, t : Precedes(s, t)' => Precedes(s, t)
<1>1. \A t \in Tasks : table'[t] = IF t \in picked[i] THEN "processing" ELSE table[t]
  BY DEF Claim
<1>2. \A t \in Tasks : Waiting(t)' <=> Waiting(t) /\ t \notin picked[i]
  BY <1>1 DEF Waiting
<1>3. AddedInOrder'
  <2>1. \A t \in Tasks : table'[t] = "absent" <=> table[t] = "absent"
    BY <1>1, PickedIsFree
  <2>2. QED
    BY <2>1 DEF LineInv, AddedInOrder
<1>4. ASSUME NEW s \in picked[i], NEW t \in Tasks, Precedes(s, t),
             t \in Range(sent) \cup Held(i)
      PROVE  FALSE
  <2>1. s \in Tasks /\ Waiting(s)
    BY PickedIsFree DEF Waiting
  <2>2. ~Waiting(t)
    BY <1>4 DEF Waiting, IInv, UnclaimedUnsent, Progress
  <2>3. QED
    BY <1>4, <2>1, <2>2 DEF LineInv, NotBehind
<1>5. QED
  BY <1>2, <1>3, <1>4, BatchesGrow, ClaimedTogether DEF IInv

LEMMA LockInLine ==
  ASSUME IInv, NEW i \in Instances, LineInv(i), LockPending(i)
  PROVE  LineInv(i)'
<1>1. PICK b \in Orderings(picked[i]) : polled' = [polled EXCEPT ![i] = b]
  BY DEF LockPending
<1>2. /\ Claim(i) /\ polled[i] = <<>> /\ polled'[i] = b
      /\ Range(b) = picked[i] /\ picked'[i] = {}
      /\ UNCHANGED <<channel, producer, current, sent>>
  BY <1>1, OrderingIsBatch
  DEF LockPending, Claim, producerVars, IInv, Control, TypeOK
<1>3. /\ \A t \in Tasks : Waiting(t)' <=> Waiting(t) /\ t \notin picked[i]
      /\ AddedInOrder'
      /\ \A s \in picked[i], t \in Tasks : Precedes(s, t) =>
           t \notin Range(sent) \cup Held(i)
      /\ \A s, t : Precedes(s, t)' => Precedes(s, t)
  BY <1>2, ClaimInLine
<1>4. /\ Range(batches) \subseteq Range(batches')
      /\ picked[i] # {} => picked[i] \in Range(batches')
  BY <1>2, BatchesGrow DEF IInv
<1>5. Unsent(i)' = Unsent(i) \cup picked[i]
  BY <1>2, RangeEmpty DEF Unsent, HeadTried
<1>6. ASSUME NEW s \in Tasks, NEW t \in Tasks, Precedes(s, t)'
      PROVE  NotBehind(i, s, t)'
  <2>1. Precedes(s, t) /\ NotBehind(i, s, t)
    BY <1>3, <1>6 DEF LineInv
  <2>2. s \in picked[i] => t \notin Range(sent) \cup Range(current[i]) \cup Contents(channel[i])
    BY <1>3, <2>1 DEF Held
  <2>3. QED
    BY <1>2, <1>3, <1>5, <2>1, <2>2 DEF NotBehind
<1>7. OrderAcrossBatches' /\ InLine(channel[i])'
  BY <1>2, <1>3, <1>4 DEF LineInv, OrderAcrossBatches, InLine
<1>8. Together(polled[i])' /\ Together(current[i])'
  BY <1>2, <1>4 DEF LineInv, Together
<1>9. (\A c \in Range(channel[i]) : Together(c))'
  BY <1>2, <1>4 DEF LineInv, Together
<1>10. QED
  BY <1>3, <1>6, <1>7, <1>8, <1>9 DEF LineInv

(* The claimed rows are lost, and so behind nothing.                       *)
LEMMA FailLockInLine ==
  ASSUME IInv, NEW i \in Instances, LineInv(i), FailLockPending(i)
  PROVE  LineInv(i)'
<1>1. /\ picked'[i] = {}
      /\ Claim(i) \/ UNCHANGED <<table, batches>>
      /\ UNCHANGED <<polled, channel, producer, current, sent>>
  BY DEF FailLockPending, Claim, producerVars, IInv, TypeOK
<1>2. Unsent(i)' = Unsent(i)
  BY <1>1 DEF Unsent, HeadTried
<1>3. CASE UNCHANGED <<table, batches>>
  <2>1. AddedInOrder' /\ \A t \in Tasks : Waiting(t)' <=> Waiting(t)
    BY <1>3 DEF LineInv, AddedInOrder, Waiting
  <2>2. QED
    BY <1>1, <1>2, <1>3, <2>1, NothingAdvances
<1>4. CASE Claim(i)
  <2>1. /\ \A t \in Tasks : Waiting(t)' <=> Waiting(t) /\ t \notin picked[i]
        /\ AddedInOrder'
        /\ \A s, t : Precedes(s, t)' => Precedes(s, t)
        /\ Range(batches) \subseteq Range(batches')
    BY <1>4, ClaimInLine, BatchesGrow DEF IInv
  <2>2. ASSUME NEW s \in Tasks, NEW t \in Tasks, Precedes(s, t)'
        PROVE  NotBehind(i, s, t)'
    <3>1. NotBehind(i, s, t)
      BY <2>1, <2>2 DEF LineInv
    <3>2. QED
      BY <1>1, <1>2, <2>1, <3>1 DEF NotBehind
  <2>3. OrderAcrossBatches' /\ InLine(channel[i])'
    BY <1>1, <2>1 DEF LineInv, OrderAcrossBatches, InLine
  <2>4. /\ Together(polled[i])' /\ Together(current[i])'
        /\ (\A c \in Range(channel[i]) : Together(c))'
    BY <1>1, <2>1 DEF LineInv, Together
  <2>5. QED
    BY <2>1, <2>2, <2>3, <2>4 DEF LineInv
<1>5. QED
  BY <1>1, <1>3, <1>4

LEMMA SendBatchInLine ==
  ASSUME IInv, NEW i \in Instances, LineInv(i), SendBatch(i)
  PROVE  LineInv(i)'
<1>1. /\ channel'[i] = Append(channel[i], polled[i])
      /\ polled'[i] = <<>> /\ picked'[i] = picked[i]
      /\ UNCHANGED <<table, producer, current, sent, batches>>
  BY DEF SendBatch, tableVars, producerVars, IInv, TypeOK
<1>2. channel[i] \in Seq(Batch) /\ polled[i] \in Batch
  BY DEF IInv, TypeOK
<1>3. /\ Contents(channel'[i]) = Contents(channel[i]) \cup Range(polled[i])
      /\ Range(channel'[i]) = Range(channel[i]) \cup {polled[i]}
  BY <1>1, <1>2, ContentsAppend, RangeAppend
<1>4. Unsent(i)' = Unsent(i)
  BY <1>1, <1>3, RangeEmpty DEF Unsent, HeadTried
<1>5. /\ \A t \in Tasks : Waiting(t)' <=> Waiting(t)
      /\ OrderAcrossBatches' /\ AddedInOrder'
      /\ \A s, t : Precedes(s, t)' <=> Precedes(s, t)
  BY <1>1 DEF Waiting, LineInv, OrderAcrossBatches, AddedInOrder, Precedes
<1>6. ASSUME NEW s \in Tasks, NEW t \in Tasks, Precedes(s, t)'
      PROVE  NotBehind(i, s, t)'
  <2>1. NotBehind(i, s, t)
    BY <1>5, <1>6 DEF LineInv
  <2>2. QED
    BY <1>1, <1>3, <1>4, <1>5, <2>1, RangeEmpty DEF NotBehind
<1>7. InLine(channel[i])'
  <2>1. \A t \in Contents(channel[i]), s \in Range(polled[i]) : ~Precedes(s, t)
    <3>1. Contents(channel[i]) \subseteq Tasks /\ Range(polled[i]) \subseteq Tasks
      BY <1>2, ContentsType, BatchRange
    <3>2. QED
      BY <3>1 DEF LineInv, NotBehind
  <2>2. InLine(Append(channel[i], polled[i]))
    BY <1>2, <2>1, InLineAppend DEF LineInv
  <2>3. QED
    BY <1>1, <1>5, <2>2 DEF InLine
<1>8. /\ Together(polled[i])' /\ Together(current[i])'
      /\ (\A c \in Range(channel[i]) : Together(c))'
  BY <1>1, <1>3, RangeEmpty DEF LineInv, Together
<1>9. QED
  BY <1>5, <1>6, <1>7, <1>8 DEF LineInv

LEMMA ReceiveInLine ==
  ASSUME IInv, NEW i \in Instances, LineInv(i), ReceiveBatch(i)
  PROVE  LineInv(i)'
<1>1. /\ channel[i] # <<>> /\ channel[i] \in Seq(Batch)
      /\ producer[i] = "waiting" /\ current[i] = <<>>
      /\ channel'[i] = Tail(channel[i]) /\ current'[i] = Head(channel[i])
      /\ picked'[i] = picked[i] /\ polled'[i] = polled[i]
      /\ producer'[i] \in {"waiting", "send"}
      /\ UNCHANGED <<table, sent, batches>>
  BY DEF ReceiveBatch, Continue, tableVars, pollerVars, IInv, TypeOK, Control
<1>2. /\ Contents(channel[i]) = Range(current'[i]) \cup Contents(channel'[i])
      /\ Range(channel[i]) = {current'[i]} \cup Range(channel'[i])
  BY <1>1, ContentsTail, RangeTail
<1>3. Unsent(i)' = Unsent(i)
  BY <1>1, <1>2, RangeEmpty DEF Unsent, HeadTried
<1>4. /\ \A t \in Tasks : Waiting(t)' <=> Waiting(t)
      /\ OrderAcrossBatches' /\ AddedInOrder'
      /\ \A s, t : Precedes(s, t)' <=> Precedes(s, t)
  BY <1>1 DEF Waiting, LineInv, OrderAcrossBatches, AddedInOrder, Precedes
<1>5. /\ InLine(Tail(channel[i]))
      /\ \A t \in Range(Head(channel[i])), s \in Contents(Tail(channel[i])) :
           ~Precedes(s, t)
  BY <1>1, InLineTail DEF LineInv
<1>6. ASSUME NEW s \in Tasks, NEW t \in Tasks, Precedes(s, t)'
      PROVE  NotBehind(i, s, t)'
  <2>1. Precedes(s, t) /\ NotBehind(i, s, t)
    BY <1>4, <1>6 DEF LineInv
  <2>2. t \in Range(current'[i]) => s \notin Contents(channel'[i])
    BY <1>1, <1>5, <2>1
  <2>3. QED
    BY <1>1, <1>2, <1>3, <1>4, <2>1, <2>2 DEF NotBehind
<1>7. InLine(channel[i])'
  BY <1>1, <1>4, <1>5 DEF InLine
<1>8. /\ Together(polled[i])' /\ Together(current[i])'
      /\ (\A c \in Range(channel[i]) : Together(c))'
  BY <1>1, <1>2 DEF LineInv, Together
<1>9. QED
  BY <1>4, <1>6, <1>7, <1>8 DEF LineInv

(* The first task of the batch is sent: none that precedes it is left.     *)
LEMMA SendInLine ==
  ASSUME IInv, NEW i \in Instances, LineInv(i), SendMessage(i)
  PROVE  LineInv(i)'
<1> DEFINE h == Head(current[i])
<1>1. /\ h \in Tasks /\ sent \in Seq(Tasks) /\ sent' = Append(sent, h)
      /\ Range(sent') = Range(sent) \cup {h}
      /\ producer[i] = "send" /\ producer'[i] \in {"delete", "markFailed"}
      /\ UNCHANGED <<table, picked, polled, channel, current, batches>>
  <2>1. producer'[i] \in {"delete", "markFailed"}
    BY SendOutcome DEF IInv, TypeOK
  <2>2. QED
    BY <2>1, SendMessageSends DEF SendMessage, tableVars, pollerVars, IInv, TypeOK
<1>2. /\ current[i] \in Batch /\ current[i] # <<>>
      /\ Range(current[i]) = {h} \cup Range(Tail(current[i]))
  BY <1>1, BatchTail DEF IInv, TypeOK, Control
<1>3. /\ Unsent(i) = Unsent(i)' \cup {h}
      /\ Unsent(i)' \subseteq Held(i)
      /\ Unsent(i)' = Range(polled[i]) \cup Contents(channel[i])
                        \cup Range(Tail(current[i]))
  BY <1>1, <1>2 DEF Unsent, HeadTried, Held
<1>4. /\ \A t \in Tasks : Waiting(t)' <=> Waiting(t)
      /\ AddedInOrder'
      /\ \A s, t : Precedes(s, t)' <=> Precedes(s, t)
  BY <1>1 DEF Waiting, LineInv, AddedInOrder, Precedes
<1>5. \A s \in Range(current[i]), t \in Range(current[i]) : ~Precedes(s, t)
  BY DEF LineInv, Together, Precedes
<1>6. ASSUME NEW s \in Tasks, NEW t \in Tasks, Precedes(s, t)'
      PROVE  NotBehind(i, s, t)'
  <2>1. Precedes(s, t) /\ NotBehind(i, s, t)
    BY <1>4, <1>6 DEF LineInv
  <2>2. t = h => s \notin Unsent(i)'
    BY <1>2, <1>3, <1>5, <2>1 DEF NotBehind
  <2>3. QED
    BY <1>1, <1>2, <1>3, <1>4, <2>1, <2>2 DEF NotBehind
<1>7. OrderAcrossBatches'
  <2>1. /\ Len(sent') = Len(sent) + 1 /\ Len(sent) \in Nat
        /\ \A k \in 1 .. Len(sent) : sent'[k] = sent[k]
        /\ sent'[Len(sent) + 1] = h
        /\ DOMAIN sent = 1 .. Len(sent) /\ DOMAIN sent' = 1 .. Len(sent) + 1
    BY <1>1, AppendProperties, LenProperties
  <2>2. SUFFICES ASSUME NEW j \in 1 .. Len(sent) + 1, NEW k \in 1 .. Len(sent) + 1,
                        j < k, sent'[k] < sent'[j],
                        OrderOf[sent'[j]] = OrderOf[sent'[k]]
                 PROVE  \E b \in Range(batches) : {sent'[j], sent'[k]} \subseteq b
    BY <1>1, <2>1 DEF OrderAcrossBatches
  <2>3. j \in 1 .. Len(sent) /\ sent'[j] = sent[j]
    BY <2>1, <2>2
  <2>4. CASE k \in 1 .. Len(sent)
    BY <2>1, <2>2, <2>3, <2>4 DEF LineInv, OrderAcrossBatches
  <2>5. CASE k = Len(sent) + 1
    <3>1. sent[j] \in Range(sent) /\ sent[j] \in Tasks
      BY <1>1, <2>1, <2>3 DEF Range
    <3>2. sent'[k] = h
      BY <2>1, <2>5
    <3>3. ~NotBehind(i, h, sent[j])
      BY <1>3, <3>1 DEF NotBehind
    <3>4. ~Precedes(h, sent[j])
      BY <1>1, <3>1, <3>3 DEF LineInv
    <3>5. QED
      BY <2>2, <2>3, <3>2, <3>4 DEF Precedes
  <2>6. QED
    BY <2>1, <2>2, <2>4, <2>5
<1>8. InLine(channel[i])'
  BY <1>1, <1>4 DEF LineInv, InLine
<1>9. /\ Together(polled[i])' /\ Together(current[i])'
      /\ (\A c \in Range(channel[i]) : Together(c))'
  BY <1>1 DEF LineInv, Together
<1>10. QED
  BY <1>4, <1>6, <1>7, <1>8, <1>9 DEF LineInv

LEMMA SettleInLine ==
  ASSUME IInv, NEW i \in Instances, LineInv(i), NEW status \in {"deleted", "failed"},
         HeadTried(i), Settle(i, status)
  PROVE  LineInv(i)'
<1>1. /\ current[i] \in Batch /\ current[i] # <<>>
      /\ current'[i] = Tail(current[i])
      /\ producer'[i] \in {"waiting", "send"}
      /\ table' = [table EXCEPT ![Head(current[i])] = status] \/ UNCHANGED table
      /\ UNCHANGED <<picked, polled, channel, sent, batches>>
  BY DEF Settle, SetStatus, Continue, HeadTried, IInv, Control, TypeOK, pollerVars
<1>2. Head(current[i]) \in Range(current[i])
      /\ Range(current'[i]) \subseteq Range(current[i])
  BY <1>1, BatchTail
<1>3. table[Head(current[i])] = "processing"
  BY <1>2 DEF IInv, Progress, Held
<1>4. \A t \in Tasks : /\ table'[t] = "absent" <=> table[t] = "absent"
                       /\ table'[t] = "created" <=> table[t] = "created"
  BY <1>1, <1>3 DEF IInv, TypeOK
<1>5. AddedInOrder' /\ \A t \in Tasks : Waiting(t)' <=> Waiting(t)
  BY <1>4 DEF LineInv, AddedInOrder, Waiting
<1>6. Unsent(i)' = Unsent(i)
  BY <1>1 DEF Unsent, HeadTried
<1>7. QED
  BY <1>1, <1>2, <1>5, <1>6, NothingAdvances

LEMMA DiscardInLine ==
  ASSUME IInv, NEW i \in Instances, LineInv(i), Discard(i)
  PROVE  LineInv(i)'
<1>1. /\ picked'[i] = {} /\ polled'[i] = <<>> /\ channel'[i] = <<>>
      /\ current'[i] = <<>> /\ producer'[i] = "stopped"
      /\ UNCHANGED <<table, sent, batches>>
  BY DEF Discard, IInv, TypeOK
<1>2. Unsent(i)' = {}
  BY <1>1, RangeEmpty, ContentsEmpty DEF Unsent, HeadTried
<1>3. AddedInOrder' /\ \A t \in Tasks : Waiting(t)' <=> Waiting(t)
  BY <1>1 DEF LineInv, AddedInOrder, Waiting
<1>4. QED
  BY <1>1, <1>2, <1>3, RangeEmpty, NothingAdvances

LEMMA StillInLine ==
  ASSUME NEW i \in Instances, LineInv(i), UNCHANGED <<table, sent, batches>>,
         UNCHANGED <<picked, polled, channel, current>>,
         HeadTried(i)' <=> HeadTried(i)
  PROVE  LineInv(i)'
<1>1. Unsent(i)' = Unsent(i)
  BY DEF Unsent
<1>2. AddedInOrder' /\ \A t \in Tasks : Waiting(t)' <=> Waiting(t)
  BY DEF LineInv, AddedInOrder, Waiting
<1>3. QED
  BY <1>1, <1>2, NothingAdvances

LEMMA LineStep ==
  ASSUME IInv, NEW i \in Instances, Instances = {i}, LineInv(i), [Next]_vars
  PROVE  LineInv(i)'
<1>1. ASSUME NEW t \in Tasks, AddTask(t)
      PROVE  LineInv(i)'
  BY <1>1, AddTaskInLine
<1>2. CASE PollerStep(i) /\ ~StopPoller(i)
  BY <1>2, PickInLine, LockInLine, FailLockInLine, SendBatchInLine DEF PollerStep
<1>3. CASE DeleteTask(i) \/ MarkTaskAsFailed(i)
  BY <1>3, SettleInLine DEF DeleteTask, MarkTaskAsFailed, HeadTried
<1>4. CASE ReceiveBatch(i) \/ SendMessage(i)
  BY <1>4, ReceiveInLine, SendInLine
<1>5. CASE Exit(i) \/ Crash(i)
  BY <1>5, DiscardInLine DEF Exit, Crash
<1>6. CASE StopPoller(i) \/ StopProducer(i) \/ ConsumerStep(i) \/ Signal(i) \/ Start(i)
             \/ UNCHANGED vars
  <2>1. UNCHANGED <<table, sent, batches, picked, polled, channel, current>>
    BY <1>6
    DEF StopPoller, StopProducer, ConsumerStep, Consume, StopConsumer, Signal, Start,
        vars, tableVars, pollerVars, producerVars
  <2>2. producer' = producer \/ (producer[i] = "waiting" /\ producer'[i] = "stopped")
          \/ (producer[i] = "stopped" /\ producer'[i] = "waiting")
    BY <1>6
    DEF StopPoller, StopProducer, ConsumerStep, Consume, StopConsumer, Signal, Start,
        vars, pollerVars, producerVars, IInv, TypeOK, DownIsStopped, Stopped
  <2>3. QED
    BY <2>1, <2>2, StillInLine DEF HeadTried
<1>7. QED
  BY <1>1, <1>2, <1>3, <1>4, <1>5, <1>6 DEF Next, ProducerStep

(* ORDER BY created_at of LockPending, the channel and the two loops: with *)
(* one server, the changes of an order are sent in the order they were     *)
(* made, but for those one statement claimed together.                     *)
THEOREM OrderIsKept ==
  ASSUME NEW i, Instances = {i}
  PROVE  Spec => []OrderAcrossBatches
<1>1. i \in Instances
  OBVIOUS
<1>2. Init => LineInv(i)
  <2>1. SUFFICES ASSUME Init PROVE LineInv(i)
    OBVIOUS
  <2>2. /\ polled[i] = <<>> /\ channel[i] = <<>> /\ current[i] = <<>>
        /\ producer[i] = "waiting" /\ picked[i] = {} /\ sent = <<>>
        /\ \A t \in Tasks : table[t] = "absent"
    BY <1>1, <2>1 DEF Init
  <2>3. OrderAcrossBatches /\ AddedInOrder
    BY <2>2 DEF OrderAcrossBatches, AddedInOrder
  <2>4. /\ Range(<<>>) = {} /\ Contents(channel[i]) = {} /\ Unsent(i) = {}
    BY <2>2, RangeEmpty, ContentsEmpty DEF Unsent, HeadTried
  <2>5. \A s, t \in Tasks : NotBehind(i, s, t)
    BY <2>2, <2>4 DEF NotBehind, Waiting
  <2>6. InLine(channel[i])
    BY <2>2, NothingInLine
  <2>7. Together(<<>>)
    BY <2>4 DEF Together
  <2>8. QED
    BY <2>2, <2>3, <2>4, <2>5, <2>6, <2>7 DEF LineInv
<1>3. IInv /\ LineInv(i) /\ [Next]_vars => LineInv(i)'
  BY <1>1, LineStep
<1>4. LineInv(i) => OrderAcrossBatches
  BY DEF LineInv
<1>5. QED
  BY <1>2, <1>3, <1>4, RelayInvariant, PTL DEF Spec
=============================================================================
