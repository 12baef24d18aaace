------------------------- MODULE OrderAnswersProofs -------------------------
(***************************************************************************)
(* Theorems about what OrderService tells its callers, through the cache   *)
(* and through its answers.                                                *)
(***************************************************************************)
EXTENDS OrderCallsProofs

(* The statuses announced for an order.                                    *)
Told(i) == {enqueued[i][k] : k \in DOMAIN enqueued[i]}

LEMMA AuditedIsTold ==
  ASSUME NEW i, NEW S
  PROVE  Audited(i, S) <=> Told(i) \cap S # {}
BY DEF Audited, Told

LEMMA ToldByAppend ==
  ASSUME NEW T, NEW seq \in Seq(T), NEW e \in T
  PROVE  {Append(seq, e)[k] : k \in DOMAIN Append(seq, e)}
            = {seq[k] : k \in DOMAIN seq} \cup {e}
<1>1. /\ Len(seq) \in Nat /\ DOMAIN seq = 1 .. Len(seq)
      /\ Append(seq, e) \in Seq(T)
      /\ Len(Append(seq, e)) = Len(seq) + 1
      /\ \A k \in 1 .. Len(seq) : Append(seq, e)[k] = seq[k]
      /\ Append(seq, e)[Len(seq) + 1] = e
  BY AppendProperties, LenProperties
<1>2. DOMAIN Append(seq, e) = (1 .. Len(seq)) \cup {Len(seq) + 1}
  BY <1>1, LenProperties
<1>3. QED
  BY <1>1, <1>2

(* What a commit makes of the row, by kind of call.                        *)
LEMMA CommitWrites ==
  ASSUME IInv, NEW w \in Workers, pc[w] = "commit", ApplyTx(w),
         NEW i \in OrderId, i = Id(w)
  PROVE  LET op == req[w].op IN
         /\ version[i] \in Nat /\ version'[i] = version[i] + 1
         /\ op \in {"accept", "deliver", "refund", "return"}
         /\ op = "return" => orders'[i] = NoOrder /\ enqueued'[i] = enqueued[i]
         /\ op # "return" =>
              /\ mem[w] \in Order /\ orders'[i] = mem[w]
              /\ Told(i)' = Told(i) \cup {mem[w].status}
         /\ op = "accept" => mem[w].status = "received"
         /\ op = "deliver" =>
              /\ mem[w].status \in {"delivered", "storage_ended"}
              /\ orders[i] # NoOrder /\ orders[i].status = "received"
         /\ op = "refund" =>
              /\ mem[w].status = "refunded"
              /\ orders[i] # NoOrder /\ orders[i].status = "delivered"
         /\ op = "return" => orders[i] # NoOrder
<1>1. /\ version[i] \in Nat
      /\ version' = [version EXCEPT ![i] = version[i] + 1]
  BY CommittedRow
<1>2. version'[i] = version[i] + 1
  BY <1>1, LocalInvParts DEF IInv, LocalInv, DataTypes
<1>3. /\ orders'[i] = IF tx[w].lock = "delete" THEN NoOrder ELSE mem[w]
      /\ enqueued'[i] = Logged(enqueued[i], tx[w].task)
  BY <1>1, LocalInvParts DEF IInv, DataTypes, ApplyTx
<1>4. TxShape(w) /\ RowKnown(w) /\ pc[w] \in InTx
  BY DEF IInv, LocalInv, Snapshots, RowKnown, InTx
<1>5. mem[w] \in Order /\ req[w].op \in {"accept", "deliver", "refund", "return"}
  BY <1>4 DEF TxShape
<1>6. CASE req[w].op = "return"
  <2>1. tx[w].lock = "delete" /\ tx[w].task = "none"
    BY <1>4, <1>6 DEF TxShape, ReturnShape
  <2>2. RowAsRead(w)
    BY <1>4, <1>6 DEF RowKnown
  <2>3. orders[i] # NoOrder
    BY <2>1, <2>2 DEF RowAsRead, Exclusive
  <2>4. QED
    BY <1>1, <1>2, <1>3, <1>6, <2>1, <2>3 DEF Logged
<1>7. CASE req[w].op # "return"
  <2>1. tx[w].task = mem[w].status
    BY <1>4, <1>7 DEF TxShape, WriteShape
  <2>2. /\ tx[w].lock \in {"insert", "update"}
        /\ req[w].op = "accept" => mem[w].status = "received"
        /\ req[w].op = "deliver" => mem[w].status \in {"delivered", "storage_ended"}
        /\ req[w].op = "refund" => mem[w].status = "refunded"
    BY <1>4, <1>5, <1>7 DEF TxShape, AcceptShape, DeliverShape, RefundShape
  <2>3. mem[w].status # "none"
    BY <1>5, <1>7, <2>2
  <2>4. enqueued'[i] = Append(enqueued[i], mem[w].status)
    BY <1>3, <2>1, <2>3 DEF Logged
  <2>5. enqueued[i] \in Seq(OrderStatus) /\ mem[w].status \in OrderStatus
    BY <1>1, <1>5, LocalInvParts DEF IInv, DataTypes, Order
  <2>6. Told(i)' = Told(i) \cup {mem[w].status}
    <3>1. {enqueued'[i][k] : k \in DOMAIN enqueued'[i]}
            = {enqueued[i][k] : k \in DOMAIN enqueued[i]} \cup {mem[w].status}
      BY <2>4, <2>5, ToldByAppend
    <3>2. QED
      BY <3>1 DEF Told
  <2>7. req[w].op # "accept" => RowAsRead(w) /\ version[i] = tx[w].ver
    BY <1>4, <1>7, <2>2 DEF RowKnown, RowAsRead, Exclusive
  <2>8. /\ req[w].op = "deliver" =>
             orders[i] # NoOrder /\ orders[i].status = "received"
        /\ req[w].op = "refund" =>
             orders[i] # NoOrder /\ orders[i].status = "delivered"
    BY <2>7 DEF RowAsRead
  <2>9. QED
    BY <1>1, <1>2, <1>3, <1>5, <1>7, <2>2, <2>6, <2>8
<1>8. QED
  BY <1>6, <1>7

(* A commit leaves the other rows as they are.                             *)
LEMMA OtherRows ==
  ASSUME IInv, NEW w \in Workers, ApplyTx(w), NEW k \in OrderId, k # Id(w)
  PROVE  /\ orders'[k] = orders[k] /\ version'[k] = version[k]
         /\ Told(k)' = Told(k)
BY LocalInvParts DEF IInv, DataTypes, ApplyTx, Told

(* Tasks are never taken back.                                             *)
LEMMA ToldGrows ==
  ASSUME IInv, [Next]_vars, NEW i \in OrderId
  PROVE  Told(i) \subseteq Told(i)'
<1>1. CASE UNCHANGED dbVars
  BY <1>1 DEF dbVars, Told
<1>2. ASSUME NEW w \in Workers, pc[w] = "commit", ApplyTx(w)
      PROVE  Told(i) \subseteq Told(i)'
  <2>1. CASE i = Id(w) /\ req[w].op = "return"
    <3>1. enqueued'[i] = enqueued[i]
      BY <1>2, <2>1, CommitWrites
    <3>2. QED
      BY <3>1 DEF Told
  <2>2. CASE i = Id(w) /\ req[w].op # "return"
    BY <1>2, <2>2, CommitWrites
  <2>3. CASE i # Id(w)
    BY <1>2, <2>3, OtherRows
  <2>4. QED
    BY <2>1, <2>2, <2>3
<1>3. QED
  BY <1>1, <1>2, OnlyCommitsWrite

-----------------------------------------------------------------------------
(* The cache.                                                              *)

(* What is in a row, in the cache or about to be cached was announced.     *)
RowsTold == \A i \in OrderId : orders[i] # NoOrder => orders[i].status \in Told(i)

CacheTold == \A i \in OrderId : cache[i] # NoOrder => cache[i].status \in Told(i)

ToBeCached(w) == pc[w] = "cacheSet" => mem[w].status \in Told(Id(w))

CacheInv == RowsTold /\ CacheTold /\ \A w \in Workers : ToBeCached(w)

LEMMA RowsToldStep ==
  ASSUME IInv, RowsTold, [Next]_vars
  PROVE  RowsTold'
<1>1. SUFFICES ASSUME NEW i \in OrderId, orders'[i] # NoOrder
               PROVE  orders'[i].status \in Told(i)'
  BY DEF RowsTold
<1>2. CASE orders'[i] = orders[i]
  BY <1>1, <1>2, ToldGrows DEF RowsTold
<1>3. ASSUME NEW w \in Workers, pc[w] = "commit", ApplyTx(w)
      PROVE  orders'[i].status \in Told(i)'
  <2>1. CASE i = Id(w)
    BY <1>1, <1>3, <2>1, CommitWrites
  <2>2. CASE i # Id(w)
    BY <1>2, <1>3, <2>2, OtherRows
  <2>3. QED
    BY <2>1, <2>2
<1>4. QED
  BY <1>2, <1>3, OnlyCommitsWrite DEF dbVars

LEMMA CacheToldStep ==
  ASSUME IInv, CacheInv, [Next]_vars
  PROVE  CacheTold'
<1>1. SUFFICES ASSUME NEW i \in OrderId, cache'[i] # NoOrder
               PROVE  cache'[i].status \in Told(i)'
  BY DEF CacheTold
<1>2. CASE cache'[i] = cache[i]
  BY <1>1, <1>2, ToldGrows DEF CacheInv, CacheTold
<1>3. ASSUME NEW w \in Workers, pc[w] = "cacheSet", SetOrder(w)
      PROVE  cache'[i].status \in Told(i)'
  <2>1. cache'[i] = cache[i] \/ (i = Id(w) /\ cache'[i] = mem[w])
    BY <1>3, LocalInvParts DEF SetOrder, IInv, DataTypes
  <2>2. mem[w].status \in Told(Id(w))
    BY <1>3 DEF CacheInv, ToBeCached
  <2>3. QED
    BY <1>2, <2>1, <2>2, ToldGrows
<1>4. ASSUME NEW w \in Workers, DeleteOrder(w)
      PROVE  cache'[i].status \in Told(i)'
  BY <1>1, <1>2, <1>4, LocalInvParts DEF DeleteOrder, IInv, DataTypes
<1>5. QED
  BY <1>2, <1>3, <1>4
  DEF Next, Begin, Advance, Fault, AcceptFromCourier, RejectPackaging,
      ServeRecipient, UnknownAction, ReturnToCourier, GetOrderByID, Call, Add,
      Read, Update, AddHistoryRecord, AddTask, Delete, CacheSet, CacheDel,
      CacheGet, DbRead, Reply, FailStatement, FailCacheWrite, FailCacheGet,
      Commit, CommitUnacknowledged, Crash, Tick, vars

(* A call comes to the cache from its commit or from the row it has read.  *)
LEMMA ComesToCache ==
  ASSUME LocalInv, NEW w \in Workers, Begin(w) \/ Advance(w) \/ Fault(w),
         pc'[w] = "cacheSet"
  PROVE  /\ UNCHANGED <<req, pos>>
         /\ \/ /\ pc[w] = "commit" /\ req[w].op # "return" /\ ApplyTx(w)
               /\ mem'[w] = mem[w]
            \/ /\ pc[w] = "dbRead" /\ Found(w) /\ mem'[w] = orders[Id(w)]
               /\ UNCHANGED dbVars
<1>1. WorkerTypes
  BY LocalInvParts
<1>2. CASE Begin(w)
  BY <1>1, <1>2
  DEF Begin, AcceptFromCourier, RejectPackaging, ServeRecipient, UnknownAction,
      ReturnToCourier, GetOrderByID, Call, Fail, Goto, WorkerTypes
<1>3. CASE Add(w) \/ Update(w) \/ AddHistoryRecord(w) \/ AddTask(w) \/ Delete(w)
             \/ CommitUnacknowledged(w)
  BY <1>1, <1>3
  DEF Add, Update, AddHistoryRecord, AddTask, Delete, CommitUnacknowledged,
      Fail, Goto, WorkerTypes
<1>4. CASE Read(w)
  <2>1. ~(Found(w) /\ ~Refused(w))
    BY <1>1, <1>4, ReadRow DEF Read, AfterRead, Goto, WorkerTypes
  <2>2. QED
    BY <1>1, <1>4, <2>1 DEF Read, Fail, Goto, WorkerTypes
<1>5. CASE CacheSet(w) \/ CacheDel(w) \/ CacheGet(w) \/ Reply(w)
             \/ FailStatement(w) \/ FailCacheWrite(w) \/ FailCacheGet(w)
  BY <1>1, <1>5
  DEF CacheSet, NextOrder, CacheDel, CacheGet, Reply, FailStatement,
      FailCacheWrite, FailCacheGet, Fail, Goto, WorkerTypes
<1>6. CASE Commit(w)
  BY <1>1, <1>6 DEF Commit, Goto, WorkerTypes
<1>7. CASE DbRead(w)
  BY <1>1, <1>7 DEF DbRead, Fail, Goto, WorkerTypes
<1>8. QED
  BY <1>2, <1>3, <1>4, <1>5, <1>6, <1>7 DEF Advance, Fault

LEMMA ToBeCachedStep ==
  ASSUME IInv, LocalInv', CacheInv, [Next]_vars, NEW w \in Workers
  PROVE  ToBeCached(w)'
<1>1. SUFFICES ASSUME pc'[w] = "cacheSet"
               PROVE  mem'[w].status \in Told(Id(w))'
  BY DEF ToBeCached
<1>2. PICK i \in OrderId : i = Id(w)'
  <2>1. pos'[w] \in 1 .. Len(req'[w].ids)
    BY <1>1 DEF LocalInv, TypeOK, OnAnOrder
  <2>2. req'[w] \in Request
    BY DEF LocalInv, TypeOK
  <2>3. req'[w].ids \in Seq(OrderId)
    BY <2>2 DEF Request
  <2>4. QED
    BY <2>1, <2>3 DEF Id
<1>3. SUFFICES mem'[w].status \in Told(i)'
  BY <1>2 DEF Told
<1>4. CASE Begin(w) \/ Advance(w) \/ Fault(w)
  <2>1. /\ i = Id(w)
        /\ \/ /\ pc[w] = "commit" /\ req[w].op # "return" /\ ApplyTx(w)
              /\ mem'[w] = mem[w]
           \/ /\ pc[w] = "dbRead" /\ Found(w) /\ mem'[w] = orders[Id(w)]
              /\ UNCHANGED dbVars
    BY <1>1, <1>2, <1>4, ComesToCache DEF Id, IInv
  <2>2. CASE pc[w] = "commit"
    BY <2>1, <2>2, CommitWrites
  <2>3. CASE pc[w] = "dbRead"
    BY <2>1, <2>3, ToldGrows DEF Found, CacheInv, RowsTold
  <2>4. QED
    BY <2>1, <2>2, <2>3
<1>5. CASE UNCHANGED <<pc[w], req[w], pos[w], mem[w]>>
  <2>1. i = Id(w) /\ pc[w] = "cacheSet" /\ mem'[w] = mem[w]
    BY <1>1, <1>2, <1>5 DEF Id
  <2>2. QED
    BY <2>1, ToldGrows DEF CacheInv, ToBeCached
<1>6. ASSUME NEW v \in Workers \ {w}, Begin(v) \/ Advance(v) \/ Fault(v)
      PROVE  UNCHANGED <<pc[w], req[w], pos[w], mem[w]>>
  BY <1>6, OneWorkersStep DEF OnlyWorker, IInv
<1>7. CASE Crash
  BY <1>1, <1>7 DEF Crash
<1>8. CASE Tick \/ UNCHANGED vars
  BY <1>5, <1>8 DEF Tick, vars, workerVars
<1>9. QED
  BY <1>4, <1>5, <1>6, <1>7, <1>8 DEF Next

LEMMA CacheInvariant == Spec => []CacheInv
<1>1. Init => CacheInv
  BY DEF Init, CacheInv, RowsTold, CacheTold, ToBeCached
<1>2. IInv /\ IInv' /\ CacheInv /\ [Next]_vars => CacheInv'
  BY RowsToldStep, CacheToldStep, ToBeCachedStep DEF CacheInv, IInv
<1>3. QED
  BY <1>1, <1>2, ServiceInvariant, PTL DEF Spec

(* SetOrder comes after the commit: the cache may be stale, but whatever   *)
(* fails, crashes or is overtaken, it never holds an order in a status     *)
(* that was not committed and announced.                                   *)
THEOREM CacheIsAudited == Spec => []CacheOnlyAudited
<1>1. CacheInv => CacheOnlyAudited
  BY DEF CacheInv, CacheTold, CacheOnlyAudited, Told
<1>2. QED
  BY <1>1, CacheInvariant, PTL

-----------------------------------------------------------------------------
(* What a call has done.                                                   *)

(* An order that was committed and is gone or in one of these statuses.    *)
Past(i, statuses) ==
  version[i] > 0 /\ (orders[i] = NoOrder \/ orders[i].status \in statuses)

HandedOver == {"delivered", "storage_ended", "refunded"}

(* What w can rely on for an id it has served.                             *)
Done(w, i) ==
  /\ req[w].op # "none"
  /\ req[w].op = "accept"  => "received" \in Told(i)
  /\ req[w].op = "deliver" => /\ Told(i) \cap {"delivered", "storage_ended"} # {}
                              /\ Past(i, HandedOver)
  /\ req[w].op = "refund"  => "refunded" \in Told(i) /\ Past(i, {"refunded"})
  /\ req[w].op = "return"  => Past(i, {})
  /\ req[w].op = "get"     => mem[w].status \in Told(i)

(* A call that is answered has served all its ids.                         *)
AllServed(w) ==
  pc[w] = "ok" => Len(req[w].ids) = 0 \/ pos[w] = Len(req[w].ids)

CallInv(w) == AllServed(w) /\ \A i \in OrderId : i \in Served(w) => Done(w, i)

(* An order does not come back from where it has gone.                     *)
LEMMA PastStays ==
  ASSUME IInv, [Next]_vars, NEW i \in OrderId,
         NEW S \in {HandedOver, {"refunded"}, {}}, Past(i, S)
  PROVE  Past(i, S)'
<1>1. CASE UNCHANGED dbVars
  BY <1>1 DEF dbVars, Past
<1>2. ASSUME NEW w \in Workers, pc[w] = "commit", ApplyTx(w)
      PROVE  Past(i, S)'
  <2>1. CASE i = Id(w)
    <3>1. /\ version[i] \in Nat /\ version'[i] = version[i] + 1
          /\ req[w].op \in {"accept", "deliver", "refund", "return"}
      BY <1>2, <2>1, CommitWrites
    <3>2. CASE req[w].op = "accept"
      <4>1. version[i] = 0
        BY <1>2, <2>1, <3>2 DEF IInv, Snapshots, RowIsNew, InTx
      <4>2. QED
        BY <4>1 DEF Past
    <3>3. CASE req[w].op = "deliver"
      <4>1. orders[i] # NoOrder /\ orders[i].status = "received"
        BY <1>2, <2>1, <3>3, CommitWrites
      <4>2. QED
        BY <4>1 DEF Past, HandedOver
    <3>4. CASE req[w].op = "refund"
      <4>1. /\ orders[i] # NoOrder /\ orders[i].status = "delivered"
            /\ orders'[i].status = "refunded"
        BY <1>2, <2>1, <3>4, CommitWrites
      <4>2. S = HandedOver
        BY <4>1 DEF Past
      <4>3. QED
        BY <3>1, <4>1, <4>2 DEF Past, HandedOver
    <3>5. CASE req[w].op = "return"
      <4>1. orders'[i] = NoOrder
        BY <1>2, <2>1, <3>5, CommitWrites
      <4>2. QED
        BY <3>1, <4>1 DEF Past
    <3>6. QED
      BY <3>1, <3>2, <3>3, <3>4, <3>5
  <2>2. CASE i # Id(w)
    BY <1>2, <2>2, OtherRows DEF Past
  <2>3. QED
    BY <2>1, <2>2
<1>3. QED
  BY <1>1, <1>2, OnlyCommitsWrite

LEMMA DoneStays ==
  ASSUME IInv, [Next]_vars, NEW w \in Workers, NEW i \in OrderId, Done(w, i),
         req'[w] = req[w], req[w].op = "get" => mem'[w] = mem[w]
  PROVE  Done(w, i)'
<1>1. Told(i) \subseteq Told(i)'
  BY ToldGrows
<1>2. /\ Past(i, HandedOver) => Past(i, HandedOver)'
      /\ Past(i, {"refunded"}) => Past(i, {"refunded"})'
      /\ Past(i, {}) => Past(i, {})'
  <2>1. HandedOver' = HandedOver
    BY DEF HandedOver
  <2>2. QED
    BY <2>1, PastStays
<1>3. QED
  BY <1>1, <1>2 DEF Done

(* A commit does what the call is for.                                     *)
LEMMA CommitDoes ==
  ASSUME IInv, NEW w \in Workers, pc[w] = "commit", ApplyTx(w),
         NEW i \in OrderId, i = Id(w), req'[w] = req[w]
  PROVE  Done(w, i)'
<1>1. /\ version[i] \in Nat /\ version'[i] = version[i] + 1
      /\ req[w].op \in {"accept", "deliver", "refund", "return"}
      /\ req[w].op = "return" => orders'[i] = NoOrder
      /\ req[w].op # "return" =>
           orders'[i] = mem[w] /\ Told(i)' = Told(i) \cup {mem[w].status}
      /\ req[w].op = "accept" => mem[w].status = "received"
      /\ req[w].op = "deliver" => mem[w].status \in {"delivered", "storage_ended"}
      /\ req[w].op = "refund" => mem[w].status = "refunded"
  BY CommitWrites
<1>2. version'[i] > 0
  BY <1>1
<1>3. CASE req[w].op = "return"
  BY <1>1, <1>2, <1>3 DEF Done, Past
<1>4. CASE req[w].op # "return"
  BY <1>1, <1>2, <1>4 DEF Done, Past, HandedOver
<1>5. QED
  BY <1>3, <1>4

-----------------------------------------------------------------------------
(* How the ids a call has served follow from its list, its loop and where  *)
(* it is.                                                                  *)

Closing == {"cacheSet", "cacheDel", "ok"}

ServedOf(ids, p, c) ==
  {ids[k] : k \in {n \in DOMAIN ids : n < p \/ (n = p /\ c \in Closing)}}

LEMMA ServedIsServedOf ==
  ASSUME NEW w \in Workers
  PROVE  /\ Served(w) = ServedOf(req[w].ids, pos[w], pc[w])
         /\ Served(w)' = ServedOf(req'[w].ids, pos'[w], pc'[w])
BY DEF Served, ServedOf, Closing

LEMMA ServedOfFacts ==
  ASSUME NEW ids \in Seq(OrderId), NEW p \in Nat \ {0}, NEW c, NEW d
  PROVE  /\ Len(ids) = 0 => ServedOf(ids, p, c) = {}
         /\ p = 1 /\ c \notin Closing => ServedOf(ids, p, c) = {}
         /\ (c \in Closing <=> d \in Closing) =>
              ServedOf(ids, p, c) = ServedOf(ids, p, d)
         /\ c \in Closing /\ d \notin Closing =>
              /\ ServedOf(ids, p + 1, d) = ServedOf(ids, p, c)
              /\ ServedOf(ids, p, c) \subseteq ServedOf(ids, p, d) \cup {ids[p]}
<1>1. DOMAIN ids = 1 .. Len(ids) /\ Len(ids) \in Nat
  BY LenProperties
<1>2. Len(ids) = 0 => ServedOf(ids, p, c) = {}
  BY <1>1 DEF ServedOf
<1>3. p = 1 /\ c \notin Closing => ServedOf(ids, p, c) = {}
  BY <1>1 DEF ServedOf
<1>4. (c \in Closing <=> d \in Closing) =>
         ServedOf(ids, p, c) = ServedOf(ids, p, d)
  BY DEF ServedOf
<1>5. ASSUME c \in Closing, d \notin Closing
      PROVE  /\ ServedOf(ids, p + 1, d) = ServedOf(ids, p, c)
             /\ ServedOf(ids, p, c) \subseteq ServedOf(ids, p, d) \cup {ids[p]}
  <2>1. \A n \in DOMAIN ids : n < p + 1 <=> n < p \/ n = p
    BY <1>1
  <2>2. QED
    BY <1>5, <2>1 DEF ServedOf
<1>6. QED
  BY <1>2, <1>3, <1>4, <1>5

(* The call is new, or it goes on.                                         *)
NothingServed(w) == AllServed(w)' /\ Served(w)' = {}

ServedAsBefore(w) ==
  /\ AllServed(w)'
  /\ req'[w] = req[w]
  /\ Served(w)' \subseteq Served(w)
  /\ req[w].op = "get" => mem'[w] = mem[w]

ServedByCommit(w) ==
  /\ AllServed(w)'
  /\ req'[w] = req[w]
  /\ pc[w] = "commit" /\ ApplyTx(w)
  /\ Served(w)' \subseteq Served(w) \cup {Id(w)}

ServedByLookup(w) ==
  /\ AllServed(w)'
  /\ req'[w] = req[w] /\ req[w].op = "get"
  /\ Id(w) \in OrderId
  /\ Served(w)' \subseteq Served(w) \cup {Id(w)}
  /\ Served(w) = {}
  /\ UNCHANGED dbVars
  /\ mem'[w] # NoOrder /\ mem'[w] \in {orders[Id(w)], cache[Id(w)]}

LEMMA NothingToServe ==
  ASSUME NEW w \in Workers, req'[w].ids = <<>>
  PROVE  AllServed(w)' /\ Served(w)' = {}
<1>1. DOMAIN req'[w].ids = {} /\ Len(req'[w].ids) = 0
  OBVIOUS
<1>2. QED
  BY <1>1 DEF AllServed, Served

LEMMA FailServes ==
  ASSUME LocalInv, NEW w \in Workers, Fail(w)
  PROVE  NothingServed(w)
<1>1. req'[w].ids = <<>>
  BY LocalInvParts DEF WorkerTypes, Fail, NoRequest
<1>2. QED
  BY <1>1, NothingToServe DEF NothingServed

(* A call at its first id, before a commit.                                *)
LEMMA FirstServes ==
  ASSUME NEW w \in Workers, req'[w].ids \in Seq(OrderId), pos'[w] = 1,
         pc'[w] \notin Closing
  PROVE  NothingServed(w)
<1>1. ServedOf(req'[w].ids, 1, pc'[w]) = {}
  BY ServedOfFacts
<1>2. QED
  BY <1>1, ServedIsServedOf DEF NothingServed, AllServed, Closing

LEMMA BeginServes ==
  ASSUME LocalInv, LocalInv', NEW w \in Workers, Begin(w)
  PROVE  NothingServed(w)
<1>1. WorkerTypes /\ WorkerTypes' /\ Shaped(w)
  BY LocalInvParts DEF LocalInv, TypeOK, WorkerTypes
<1>2. pc[w] = "idle" /\ pos[w] = 1
  BY <1>1
  DEF Begin, AcceptFromCourier, RejectPackaging, ServeRecipient, UnknownAction,
      ReturnToCourier, GetOrderByID, Shaped, CallShape
<1>3. req'[w].ids \in Seq(OrderId)
  BY <1>1 DEF WorkerTypes, Request
<1>4. CASE RejectPackaging(w) \/ UnknownAction(w)
  BY <1>4, FailServes DEF RejectPackaging, UnknownAction
<1>5. CASE AcceptFromCourier(w) \/ ReturnToCourier(w) \/ GetOrderByID(w)
  <2>1. pos'[w] = 1 /\ pc'[w] \in {"add", "read", "cacheGet"}
    BY <1>1, <1>2, <1>5
    DEF AcceptFromCourier, ReturnToCourier, GetOrderByID, Call, Goto, WorkerTypes
  <2>2. QED
    BY <1>3, <2>1, FirstServes DEF Closing
<1>6. CASE ServeRecipient(w)
  <2>1. PICK ids \in IdLists, r \in Recipients, op \in {"deliver", "refund"} :
          Call(w, op, ids, r, IF ids = <<>> THEN "ok" ELSE "read")
    BY <1>6 DEF ServeRecipient
  <2>2. /\ pos'[w] = 1 /\ req'[w].ids = ids
        /\ pc'[w] = IF ids = <<>> THEN "ok" ELSE "read"
    BY <1>1, <1>2, <2>1 DEF Call, Goto, WorkerTypes
  <2>3. CASE ids = <<>>
    BY <2>2, <2>3, NothingToServe DEF NothingServed
  <2>4. CASE ids # <<>>
    BY <1>3, <2>2, <2>4, FirstServes DEF Closing
  <2>5. QED
    BY <2>3, <2>4
<1>7. QED
  BY <1>4, <1>5, <1>6 DEF Begin

(* A step within a call that leaves its list and its place in it alone.    *)
LEMMA InPlaceServes ==
  ASSUME LocalInv, NEW w \in Workers, UNCHANGED <<req[w], pos[w]>>,
         pc'[w] \in Closing => pc[w] \in Closing
  PROVE  Served(w)' \subseteq Served(w)
BY DEF Served, Closing

LEMMA StatementServes ==
  ASSUME LocalInv, LocalInv', NEW w \in Workers,
         \/ Add(w) \/ Read(w) \/ Update(w) \/ AddHistoryRecord(w)
         \/ AddTask(w) \/ Delete(w) \/ Reply(w) \/ FailStatement(w)
  PROVE  NothingServed(w) \/ ServedAsBefore(w)
<1>1. WorkerTypes /\ WorkerTypes' /\ Shaped(w)
  BY LocalInvParts DEF LocalInv, TypeOK, WorkerTypes
<1>2. CASE Fail(w)
  BY <1>2, FailServes
<1>3. CASE Reply(w)
  <2>1. req'[w].ids = <<>>
    BY <1>1, <1>3 DEF Reply, WorkerTypes, NoRequest
  <2>2. QED
    BY <2>1, NothingToServe DEF NothingServed
<1>4. CASE Add(w) /\ ~Fail(w)
  <2>1. pos'[w] = 1 /\ pc'[w] = "history"
    BY <1>1, <1>4 DEF Add, Goto, WorkerTypes, Shaped, CallShape
  <2>2. req'[w].ids \in Seq(OrderId)
    BY <1>1 DEF WorkerTypes, Request
  <2>3. QED
    BY <2>1, <2>2, FirstServes DEF Closing
<1>5. CASE Read(w) /\ ~Fail(w)
  <2>1. /\ UNCHANGED <<req, pos>>
        /\ req[w].op \in {"deliver", "refund", "return"}
        /\ pc'[w] \in {"update", "history", "delete"}
    BY <1>1, <1>5 DEF Read, AfterRead, Goto, WorkerTypes, Shaped, CallShape
  <2>2. QED
    BY <2>1, InPlaceServes DEF ServedAsBefore, AllServed, Closing
<1>6. CASE (Update(w) \/ AddHistoryRecord(w) \/ AddTask(w) \/ Delete(w)) /\ ~Fail(w)
  <2>1. /\ UNCHANGED <<req, pos, mem>>
        /\ pc'[w] \in {"history", "task", "update", "commit"}
    BY <1>1, <1>6
    DEF Update, AddHistoryRecord, AddTask, Delete, Goto, WorkerTypes
  <2>2. QED
    BY <2>1, InPlaceServes DEF ServedAsBefore, AllServed, Closing
<1>7. QED
  BY <1>2, <1>3, <1>4, <1>5, <1>6 DEF FailStatement

LEMMA CommitServes ==
  ASSUME LocalInv, NEW w \in Workers, Commit(w) \/ CommitUnacknowledged(w)
  PROVE  NothingServed(w) \/ ServedByCommit(w)
<1>1. WorkerTypes /\ Shaped(w)
  BY LocalInvParts
<1>2. CASE CommitUnacknowledged(w)
  BY <1>2, FailServes DEF CommitUnacknowledged
<1>3. CASE Commit(w)
  <2>1. /\ UNCHANGED <<req, pos>> /\ pc[w] = "commit" /\ ApplyTx(w)
        /\ pc'[w] \in {"cacheSet", "cacheDel"}
    BY <1>1, <1>3 DEF Commit, Goto, WorkerTypes
  <2>2. Served(w)' \subseteq Served(w) \cup {Id(w)}
    BY <2>1 DEF Served, Id
  <2>3. QED
    BY <2>1, <2>2 DEF ServedByCommit, AllServed
<1>4. QED
  BY <1>2, <1>3

LEMMA AfterCommitServes ==
  ASSUME LocalInv, LocalInv', NEW w \in Workers,
         CacheSet(w) \/ CacheDel(w) \/ FailCacheWrite(w)
  PROVE  NothingServed(w) \/ ServedAsBefore(w)
<1>1. WorkerTypes /\ Shaped(w)
  BY LocalInvParts
<1>2. CASE Fail(w)
  BY <1>2, FailServes
<1>3. pos[w] \in 1 .. Len(req[w].ids) /\ Len(req[w].ids) \in Nat
      /\ req[w].ids \in Seq(OrderId) /\ pos[w] \in Nat \ {0}
      /\ pc[w] \in {"cacheSet", "cacheDel"}
  <2>1. pc[w] \in {"cacheSet", "cacheDel"}
    BY DEF CacheSet, CacheDel, FailCacheWrite
  <2>2. pos[w] \in 1 .. Len(req[w].ids)
    BY <2>1 DEF LocalInv, TypeOK, OnAnOrder
  <2>3. req[w].ids \in Seq(OrderId)
    BY <1>1 DEF WorkerTypes, Request
  <2>4. QED
    BY <2>1, <2>2, <2>3, LenProperties
<1>4. ASSUME UNCHANGED <<req, pos, mem>>, pc'[w] = "ok", pos[w] = Len(req[w].ids)
      PROVE  ServedAsBefore(w)
  BY <1>3, <1>4, InPlaceServes DEF ServedAsBefore, AllServed, Closing
<1>5. ASSUME req[w].op \in {"return", "get"}
      PROVE  pos[w] = Len(req[w].ids)
  <2>1. Len(req[w].ids) = 1
    BY <1>1, <1>3, <1>5 DEF Shaped, CallShape
  <2>2. QED
    BY <1>3, <2>1
<1>6. CASE FailCacheWrite(w) /\ ~Fail(w)
  BY <1>1, <1>4, <1>5, <1>6 DEF FailCacheWrite, Goto, WorkerTypes
<1>7. CASE CacheDel(w)
  BY <1>1, <1>4, <1>5, <1>7 DEF CacheDel, Goto, WorkerTypes, Shaped, CallShape
<1>8. CASE CacheSet(w) /\ pos[w] < Len(req[w].ids)
  <2>1. /\ req' = req /\ pos'[w] = pos[w] + 1 /\ pc'[w] = "read"
        /\ req[w].op # "get"
    BY <1>1, <1>3, <1>5, <1>8 DEF CacheSet, NextOrder, Goto, WorkerTypes
  <2>2. ServedOf(req[w].ids, pos[w] + 1, "read") = ServedOf(req[w].ids, pos[w], pc[w])
    <3>1. pc[w] \in Closing /\ "read" \notin Closing
      BY <1>3 DEF Closing
    <3>2. QED
      BY <1>3, <3>1, ServedOfFacts
  <2>3. Served(w)' = Served(w)
    BY <2>1, <2>2, ServedIsServedOf
  <2>4. QED
    BY <2>1, <2>3 DEF ServedAsBefore, AllServed
<1>9. CASE CacheSet(w) /\ ~(pos[w] < Len(req[w].ids))
  BY <1>1, <1>3, <1>4, <1>9 DEF CacheSet, NextOrder, Goto, WorkerTypes
<1>10. QED
  BY <1>2, <1>6, <1>7, <1>8, <1>9

LEMMA LookupServes ==
  ASSUME LocalInv, NEW w \in Workers,
         CacheGet(w) \/ FailCacheGet(w) \/ DbRead(w)
  PROVE  NothingServed(w) \/ ServedAsBefore(w) \/ ServedByLookup(w)
<1>1. WorkerTypes /\ Shaped(w) /\ pc[w] \in {"cacheGet", "dbRead"}
  BY LocalInvParts DEF CacheGet, FailCacheGet, DbRead
<1>2. /\ req[w].op = "get" /\ Len(req[w].ids) = 1 /\ pos[w] = 1
      /\ req[w].ids \in Seq(OrderId)
  <2>1. req[w].op = "get" /\ Len(req[w].ids) = 1
    BY <1>1 DEF Shaped, CallShape
  <2>2. pos[w] \in 1 .. Len(req[w].ids)
    BY <1>1 DEF LocalInv, TypeOK, OnAnOrder
  <2>3. req[w].ids \in Seq(OrderId)
    BY <1>1 DEF WorkerTypes, Request
  <2>4. QED
    BY <2>1, <2>2, <2>3
<1>3. Id(w) \in OrderId /\ Served(w) = {}
  <2>1. Id(w) \in OrderId
    BY <1>2 DEF Id
  <2>2. ServedOf(req[w].ids, 1, pc[w]) = {}
    BY <1>1, <1>2, ServedOfFacts DEF Closing
  <2>3. QED
    BY <1>2, <2>1, <2>2, ServedIsServedOf
<1>4. CASE Fail(w)
  BY <1>4, FailServes
<1>5. CASE UNCHANGED <<req, pos, mem>> /\ pc'[w] = "dbRead"
  BY <1>2, <1>5, InPlaceServes DEF ServedAsBefore, AllServed, Closing
<1>6. ASSUME UNCHANGED <<req, pos>>, UNCHANGED dbVars, pc'[w] \in {"ok", "cacheSet"},
             mem'[w] # NoOrder, mem'[w] \in {orders[Id(w)], cache[Id(w)]}
      PROVE  ServedByLookup(w)
  <2>1. Served(w)' \subseteq {Id(w)}
    BY <1>2, <1>6 DEF Served, Id
  <2>2. QED
    BY <1>2, <1>3, <1>6, <2>1 DEF ServedByLookup, AllServed
<1>7. CASE CacheGet(w)
  BY <1>1, <1>5, <1>6, <1>7 DEF CacheGet, Goto, WorkerTypes, dbVars
<1>8. CASE FailCacheGet(w)
  BY <1>1, <1>5, <1>8 DEF FailCacheGet, Goto, WorkerTypes
<1>9. CASE DbRead(w) /\ ~Fail(w)
  BY <1>1, <1>6, <1>9 DEF DbRead, Found, Goto, WorkerTypes, dbVars
<1>10. QED
  BY <1>4, <1>7, <1>8, <1>9

(* What a worker's own step makes of what it has served.                   *)
LEMMA OwnStepServes ==
  ASSUME LocalInv, LocalInv', NEW w \in Workers,
         Begin(w) \/ Advance(w) \/ Fault(w)
  PROVE  \/ NothingServed(w) \/ ServedAsBefore(w)
         \/ ServedByCommit(w) \/ ServedByLookup(w)
BY BeginServes, StatementServes, CommitServes, AfterCommitServes, LookupServes
DEF Advance, Fault

-----------------------------------------------------------------------------
(* What a call has served stays done.                                      *)

LEMMA OwnStepDoes ==
  ASSUME IInv, LocalInv', CacheInv, [Next]_vars, NEW w \in Workers, CallInv(w),
         Begin(w) \/ Advance(w) \/ Fault(w)
  PROVE  CallInv(w)'
<1>1. LocalInv
  BY DEF IInv
<1>2. CASE NothingServed(w)
  BY <1>2 DEF NothingServed, CallInv
<1>3. CASE ServedAsBefore(w)
  <2>1. ASSUME NEW i \in OrderId, i \in Served(w)'
        PROVE  Done(w, i)'
    BY <1>3, <2>1, DoneStays DEF ServedAsBefore, CallInv
  <2>2. QED
    BY <1>3, <2>1 DEF ServedAsBefore, CallInv
<1>4. CASE ServedByCommit(w)
  <2>1. req[w].op # "get"
    BY <1>1, <1>4, LocalInvParts DEF ServedByCommit, Shaped, TxShape, InTx
  <2>2. ASSUME NEW i \in OrderId, i \in Served(w)'
        PROVE  Done(w, i)'
    <3>1. CASE i \in Served(w)
      BY <1>4, <2>1, <3>1, DoneStays DEF ServedByCommit, CallInv
    <3>2. CASE i = Id(w)
      BY <1>4, <3>2, CommitDoes DEF ServedByCommit
    <3>3. QED
      BY <1>4, <2>2, <3>1, <3>2 DEF ServedByCommit
  <2>3. QED
    BY <1>4, <2>2 DEF ServedByCommit, CallInv
<1>5. CASE ServedByLookup(w)
  <2>1. ASSUME NEW i \in OrderId, i \in Served(w)'
        PROVE  Done(w, i)'
    <3>1. i = Id(w) /\ req'[w].op = "get"
      BY <1>5, <2>1 DEF ServedByLookup
    <3>2. mem'[w].status \in Told(i)
      BY <1>5, <3>1 DEF ServedByLookup, CacheInv, RowsTold, CacheTold
    <3>3. QED
      BY <3>1, <3>2, ToldGrows DEF Done
  <2>2. QED
    BY <1>5, <2>1 DEF ServedByLookup, CallInv
<1>6. QED
  BY <1>1, <1>2, <1>3, <1>4, <1>5, OwnStepServes

LEMMA OthersStepKeeps ==
  ASSUME IInv, [Next]_vars, NEW w \in Workers, CallInv(w),
         UNCHANGED <<pc[w], req[w], pos[w], mem[w]>>
  PROVE  CallInv(w)'
<1>1. AllServed(w)' /\ Served(w)' = Served(w)
  BY DEF CallInv, AllServed, Served
<1>2. ASSUME NEW i \in OrderId, i \in Served(w)
      PROVE  Done(w, i)'
  BY <1>2, DoneStays DEF CallInv
<1>3. QED
  BY <1>1, <1>2 DEF CallInv

LEMMA CallStep ==
  ASSUME IInv, LocalInv', CacheInv, [Next]_vars, NEW w \in Workers, CallInv(w)
  PROVE  CallInv(w)'
<1>1. CASE Begin(w) \/ Advance(w) \/ Fault(w)
  BY <1>1, OwnStepDoes
<1>2. ASSUME NEW v \in Workers \ {w}, Begin(v) \/ Advance(v) \/ Fault(v)
      PROVE  CallInv(w)'
  <2>1. UNCHANGED <<pc[w], req[w], pos[w], mem[w]>>
    BY <1>2, OneWorkersStep DEF OnlyWorker, IInv
  <2>2. QED
    BY <2>1, OthersStepKeeps
<1>3. CASE Crash
  <2>1. req'[w].ids = <<>>
    BY <1>3 DEF Crash, NoRequest
  <2>2. QED
    BY <2>1, NothingToServe DEF CallInv
<1>4. CASE Tick \/ UNCHANGED vars
  <2>1. UNCHANGED <<pc[w], req[w], pos[w], mem[w]>>
    BY <1>4 DEF Tick, vars, workerVars
  <2>2. QED
    BY <2>1, OthersStepKeeps
<1>5. QED
  BY <1>1, <1>2, <1>3, <1>4 DEF Next

LEMMA CallInvariant == Spec => [](\A w \in Workers : CallInv(w))
<1>1. Init => \A w \in Workers : CallInv(w)
  <2>1. SUFFICES ASSUME Init, NEW w \in Workers PROVE CallInv(w)
    OBVIOUS
  <2>2. req[w].ids = <<>> /\ pc[w] = "idle"
    BY <2>1 DEF Init, NoRequest
  <2>3. DOMAIN req[w].ids = {}
    BY <2>2
  <2>4. QED
    BY <2>2, <2>3 DEF CallInv, AllServed, Served
<1>2. IInv /\ IInv' /\ CacheInv /\ (\A w \in Workers : CallInv(w)) /\ [Next]_vars
        => (\A w \in Workers : CallInv(w))'
  BY CallStep DEF IInv
<1>3. QED
  BY <1>1, <1>2, ServiceInvariant, CacheInvariant, PTL DEF Spec

(* ServeRecipient, AcceptFromCourier, ReturnToCourier and GetOrderByID     *)
(* answer without an error only when each id was committed and announced,  *)
(* or read in a state that was.                                            *)
THEOREM AnswersAreAudited == Spec => []OkMeansAudited
<1>1. IInv /\ (\A w \in Workers : CallInv(w)) => OkMeansAudited
  <2>1. SUFFICES ASSUME IInv, NEW w \in Workers, CallInv(w), pc[w] = "ok",
                        NEW k \in DOMAIN req[w].ids, NEW i, i = req[w].ids[k]
                 PROVE
      CASE req[w].op = "accept"  -> Audited(i, {"received"})
        [] req[w].op = "deliver" -> Audited(i, {"delivered", "storage_ended"})
        [] req[w].op = "refund"  -> Audited(i, {"refunded"})
        [] req[w].op = "return"  -> orders[i] = NoOrder /\ version[i] > 0
        [] req[w].op = "get"     -> Audited(i, {mem[w].status})
    BY DEF OkMeansAudited
  <2>2. req[w].ids \in Seq(OrderId) /\ req[w].op \in Ops
    BY <2>1, LocalInvParts DEF IInv, WorkerTypes, Request
  <2>3. k \in 1 .. Len(req[w].ids) /\ i \in OrderId /\ Len(req[w].ids) \in Nat
    BY <2>1, <2>2, LenProperties
  <2>4. k < pos[w] \/ k = pos[w]
    <3>1. pos[w] = Len(req[w].ids)
      BY <2>1, <2>3 DEF CallInv, AllServed
    <3>2. QED
      BY <2>3, <3>1
  <2>5. i \in Served(w)
    BY <2>1, <2>4 DEF Served
  <2>6. Done(w, i)
    BY <2>1, <2>3, <2>5 DEF CallInv
  <2>7. QED
    BY <2>2, <2>6, AuditedIsTold DEF Done, Past, Ops
<1>2. QED
  BY <1>1, ServiceInvariant, CallInvariant, PTL

-----------------------------------------------------------------------------
(* Two calls do not both serve an order.                                   *)

(* The commit that serves an id finds no other call that has served it.    *)
LEMMA ServedApart ==
  ASSUME IInv, LocalInv', \A x \in Workers : CallInv(x),
         NEW v \in Workers, NEW w \in Workers, v # w,
         Begin(w) \/ Advance(w) \/ Fault(w),
         req'[v].op = req'[w].op, req'[v].op \in {"deliver", "refund", "return"},
         req[v].op = req[w].op => Served(v) \cap Served(w) = {}
  PROVE  Served(v)' \cap Served(w)' = {}
<1>1. req'[v] = req[v] /\ Served(v)' = Served(v)
  BY OneWorkersStep DEF IInv, OnlyWorker, Served
<1>2. CASE NothingServed(w)
  BY <1>2 DEF NothingServed
<1>3. CASE ServedAsBefore(w)
  BY <1>1, <1>3 DEF ServedAsBefore
<1>4. CASE ServedByCommit(w)
  <2>1. req'[w] = req[w] /\ pc[w] = "commit" /\ ApplyTx(w)
        /\ Served(w)' \subseteq Served(w) \cup {Id(w)}
    BY <1>4 DEF ServedByCommit
  <2>2. PICK i \in OrderId : i = Id(w)
    BY <2>1, IdInTx DEF IInv, InTx
  <2>3. i \notin Served(v)
    <3>1. SUFFICES ASSUME i \in Served(v) PROVE FALSE
      OBVIOUS
    <3>2. Done(v, i)
      BY <3>1 DEF CallInv
    <3>3. CASE req[w].op = "deliver"
      <4>1. orders[i] # NoOrder /\ orders[i].status = "received"
        BY <2>1, <2>2, <3>3, CommitWrites
      <4>2. QED
        BY <1>1, <2>1, <3>2, <3>3, <4>1 DEF Done, Past, HandedOver
    <3>4. CASE req[w].op = "refund"
      <4>1. orders[i] # NoOrder /\ orders[i].status = "delivered"
        BY <2>1, <2>2, <3>4, CommitWrites
      <4>2. QED
        BY <1>1, <2>1, <3>2, <3>4, <4>1 DEF Done, Past
    <3>5. CASE req[w].op = "return"
      <4>1. orders[i] # NoOrder
        BY <2>1, <2>2, <3>5, CommitWrites
      <4>2. QED
        BY <1>1, <2>1, <3>2, <3>5, <4>1 DEF Done, Past
    <3>6. QED
      BY <1>1, <2>1, <3>3, <3>4, <3>5
  <2>4. QED
    BY <1>1, <2>1, <2>2, <2>3
<1>5. CASE ServedByLookup(w)
  BY <1>5 DEF ServedByLookup
<1>6. QED
  BY <1>2, <1>3, <1>4, <1>5, OwnStepServes DEF IInv

LEMMA ServedOnceStep ==
  ASSUME IInv, LocalInv', \A x \in Workers : CallInv(x), ServedOnce, [Next]_vars
  PROVE  ServedOnce'
<1>1. SUFFICES ASSUME NEW v \in Workers, NEW w \in Workers, v # w,
                      req'[v].op = req'[w].op,
                      req'[v].op \in {"deliver", "refund", "return"}
               PROVE  Served(v)' \cap Served(w)' = {}
  BY DEF ServedOnce
<1>2. /\ req[v].op = req[w].op /\ req[v].op \in {"deliver", "refund", "return"}
           => Served(v) \cap Served(w) = {}
  BY <1>1 DEF ServedOnce
<1>3. ASSUME NEW x \in Workers, Begin(x) \/ Advance(x) \/ Fault(x)
      PROVE  Served(v)' \cap Served(w)' = {}
  <2>1. \A y \in Workers \ {x} : req'[y] = req[y] /\ Served(y)' = Served(y)
    BY <1>3, OneWorkersStep DEF IInv, OnlyWorker, Served
  <2>2. CASE x = w
    <3>1. req[v].op = req[w].op => Served(v) \cap Served(w) = {}
      BY <1>1, <1>2, <2>1, <2>2
    <3>2. QED
      BY <1>1, <1>3, <2>2, <3>1, ServedApart
  <2>3. CASE x = v
    <3>1. req[v].op = req[w].op => Served(v) \cap Served(w) = {}
      BY <1>1, <1>2, <2>1, <2>3
    <3>2. Served(w)' \cap Served(v)' = {}
      BY <1>1, <1>3, <2>3, <3>1, ServedApart
    <3>3. QED
      BY <3>2
  <2>4. CASE x \notin {v, w}
    BY <1>1, <1>2, <2>1, <2>4
  <2>5. QED
    BY <2>2, <2>3, <2>4
<1>4. CASE Crash
  BY <1>1, <1>4 DEF Crash, NoRequest
<1>5. CASE Tick \/ UNCHANGED vars
  BY <1>1, <1>2, <1>5 DEF Tick, vars, workerVars, Served
<1>6. QED
  BY <1>3, <1>4, <1>5 DEF Next

(* The RepeatableRead transactions of ServeRecipient and ReturnToCourier   *)
(* let one of two overlapping calls win: an order is handed over, taken    *)
(* back or returned by one of them only.                                   *)
THEOREM ServedByOne == Spec => []ServedOnce
<1>1. Init => ServedOnce
  BY DEF Init, ServedOnce, NoRequest
<1>2. IInv /\ IInv' /\ (\A w \in Workers : CallInv(w)) /\ ServedOnce /\ [Next]_vars
        => ServedOnce'
  <2>1. SUFFICES ASSUME IInv, IInv', \A w \in Workers : CallInv(w), ServedOnce,
                        [Next]_vars
                 PROVE  ServedOnce'
    OBVIOUS
  <2>2. LocalInv'
    BY <2>1 DEF IInv
  <2>3. QED
    BY <2>1, <2>2, ServedOnceStep
<1>3. QED
  BY <1>1, <1>2, ServiceInvariant, CallInvariant, PTL DEF Spec
=============================================================================
