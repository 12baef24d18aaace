-------------------------- MODULE OrderCallsProofs --------------------------
(***************************************************************************)
(* More theorems about OrderService: what the rows, the cache and the      *)
(* answers of the calls tell, for every set of workers, orders, lists and  *)
(* faults.  They rest on IInv, which OrderServiceProofs shows inductive.   *)
(***************************************************************************)
EXTENDS OrderServiceProofs

(* The invariant behind the audit properties: what each transaction has    *)
(* read, locked and written follows from how far its call has come, and a  *)
(* row that was read and not written since is still as it was checked.     *)
THEOREM ServiceInvariant == Spec => []IInv
BY AuditInit, AuditStep, PTL DEF Spec

(* ProcessOrderReceive, -Deliver and -Refund insert the task in the        *)
(* transaction that makes the change: no change without its task, and no   *)
(* task without its change.                                                *)
THEOREM AuditIsComplete == Spec => []AuditComplete
<1>1. IInv => AuditComplete
  BY DEF IInv
<1>2. QED
  BY <1>1, ServiceInvariant, PTL

(* Who holds a lock and waits all the same is a refund between its record  *)
(* and its update.                                                         *)
LEMMA WaitingHolder ==
  ASSUME LocalInv, NEW v \in Workers, NEW w \in Workers,
         WaitsFor(v, w), tx[v].lock # "none"
  PROVE  tx[v].lock = "share" /\ tx[w].lock \in {"update", "delete"}
<1>1. TxShape(v) /\ tx[w].lock \in Conflicting(v)
  BY DEF LocalInv, WaitsFor
<1>2. pc[v] = "update"
  BY <1>1 DEF Conflicting, TxShape, InTx, AcceptShape, DeliverShape, RefundShape,
              ReturnShape
<1>3. tx[v].lock = "share"
  BY <1>1, <1>2
  DEF TxShape, InTx, AcceptShape, DeliverShape, RefundShape, ReturnShape
<1>4. QED
  BY <1>1, <1>2, <1>3 DEF Conflicting

(* Calls never wait for each other's row locks in a circle, although       *)
(* RefundOrder and DeliverOrder lock a row in opposite order.              *)
THEOREM NoCircularWait == Spec => []NoDeadlock
<1>1. LocalInv => NoDeadlock
  <2>1. SUFFICES ASSUME LocalInv, NEW S \in (SUBSET Workers) \ {{}},
                        \A v \in S : \E w \in S : WaitsFor(v, w)
                 PROVE  FALSE
    BY Zenon DEF NoDeadlock
  <2>2. PICK a, b, c, d \in S :
          WaitsFor(a, b) /\ WaitsFor(b, c) /\ WaitsFor(c, d)
    <3>1. PICK a : a \in S
      OBVIOUS
    <3>2. PICK b \in S : WaitsFor(a, b)
      BY <2>1, <3>1
    <3>3. PICK c \in S : WaitsFor(b, c)
      BY <2>1
    <3>4. PICK d \in S : WaitsFor(c, d)
      BY <2>1
    <3>5. QED
      BY <3>1, <3>2, <3>3, <3>4
  <2>3. tx[b].lock # "none" /\ tx[c].lock # "none"
    BY <2>2 DEF WaitsFor, Conflicting
  <2>4. tx[c].lock \in {"update", "delete"} /\ tx[c].lock = "share"
    BY <2>1, <2>2, <2>3, WaitingHolder
  <2>5. QED
    BY <2>4
<1>2. QED
  BY <1>1, ServiceInvariant, PTL DEF IInv

-----------------------------------------------------------------------------
(* What a step does.                                                       *)

(* A step of a call touches the memory of no other call.                   *)
LEMMA OneWorkersStep ==
  ASSUME LocalInv, NEW w \in Workers, Begin(w) \/ Advance(w) \/ Fault(w)
  PROVE  OnlyWorker(w)
<1>1. WorkerTypes
  BY LocalInvParts
<1>2. CASE Begin(w)
  BY <1>1, <1>2
  DEF WorkerTypes, OnlyWorker, Begin, AcceptFromCourier, RejectPackaging,
      ServeRecipient, UnknownAction, ReturnToCourier, GetOrderByID, Call,
      Fail, Goto
<1>3. CASE Add(w) \/ Read(w) \/ Update(w) \/ AddHistoryRecord(w)
  BY <1>1, <1>3
  DEF WorkerTypes, OnlyWorker, Add, Read, Update, AddHistoryRecord, Fail, Goto
<1>4. CASE AddTask(w) \/ Delete(w) \/ Commit(w) \/ CommitUnacknowledged(w)
  BY <1>1, <1>4
  DEF WorkerTypes, OnlyWorker, AddTask, Delete, Commit, CommitUnacknowledged,
      Fail, Goto
<1>5. CASE CacheSet(w) \/ CacheDel(w) \/ CacheGet(w) \/ DbRead(w) \/ Reply(w)
  BY <1>1, <1>5
  DEF WorkerTypes, OnlyWorker, CacheSet, NextOrder, CacheDel, CacheGet, DbRead,
      Reply, Fail, Goto
<1>6. CASE FailStatement(w) \/ FailCacheWrite(w) \/ FailCacheGet(w)
  BY <1>1, <1>6
  DEF WorkerTypes, OnlyWorker, FailStatement, FailCacheWrite, FailCacheGet,
      Fail, Goto
<1>7. QED
  BY <1>2, <1>3, <1>4, <1>5, <1>6 DEF Advance, Fault

(* Only a commit writes the tables.                                        *)
LEMMA OnlyCommitsWrite ==
  ASSUME [Next]_vars
  PROVE  \/ UNCHANGED dbVars
         \/ \E w \in Workers : pc[w] = "commit" /\ ApplyTx(w)
BY DEF Next, Begin, Advance, Fault, AcceptFromCourier, RejectPackaging,
       ServeRecipient, UnknownAction, ReturnToCourier, GetOrderByID, Call, Add,
       Read, Update, AddHistoryRecord, AddTask, Delete, CacheSet, CacheDel,
       CacheGet, DbRead, Reply, FailStatement, FailCacheWrite, FailCacheGet,
       Commit, CommitUnacknowledged, Crash, Tick, vars

(* The versions of orders that are somewhere.                              *)
Known ==
  {NoOrder} \cup {orders[i] : i \in OrderId} \cup {cache[i] : i \in OrderId}
    \cup {mem[w] : w \in Workers}

LEMMA WrittenRowsAreKnown ==
  ASSUME LocalInv, [Next]_vars, NEW i \in OrderId
  PROVE  orders'[i] \in Known
<1>1. CASE UNCHANGED dbVars
  BY <1>1 DEF dbVars, Known
<1>2. ASSUME NEW w \in Workers, pc[w] = "commit", ApplyTx(w)
      PROVE  orders'[i] \in Known
  BY <1>2, LocalInvParts DEF ApplyTx, DataTypes, Known
<1>3. QED
  BY <1>1, <1>2, OnlyCommitsWrite

LEMMA CachedIsKnown ==
  ASSUME LocalInv, [Next]_vars, NEW i \in OrderId
  PROVE  cache'[i] \in Known
<1>1. CASE UNCHANGED cache
  BY <1>1 DEF Known
<1>2. ASSUME NEW w \in Workers, SetOrder(w) \/ DeleteOrder(w)
      PROVE  cache'[i] \in Known
  BY <1>2, LocalInvParts DEF SetOrder, DeleteOrder, DataTypes, Known
<1>3. QED
  BY <1>1, <1>2
  DEF Next, Begin, Advance, Fault, AcceptFromCourier, RejectPackaging,
      ServeRecipient, UnknownAction, ReturnToCourier, GetOrderByID, Call, Add,
      Read, Update, AddHistoryRecord, AddTask, Delete, CacheSet, CacheDel,
      CacheGet, DbRead, Reply, FailStatement, FailCacheWrite, FailCacheGet,
      Commit, CommitUnacknowledged, Crash, Tick, vars

(* What a call has in memory is known, unless it has just made it: from    *)
(* the request of a courier or from the row it has read.                   *)
LEMMA MemoryIsKnown ==
  ASSUME LocalInv, [Next]_vars, NEW w \in Workers
  PROVE  \/ mem'[w] \in Known
         \/ \E r \in Recipients, e \in Expirations :
              mem'[w] = Received(NewOrder(r, e))
         \/ pc[w] = "read" /\ Found(w) /\ ~Refused(w) /\ mem'[w] = Changed(w)
<1> DEFINE Goal == \/ mem'[w] \in Known
                   \/ \E r \in Recipients, e \in Expirations :
                        mem'[w] = Received(NewOrder(r, e))
                   \/ /\ pc[w] = "read" /\ Found(w) /\ ~Refused(w)
                      /\ mem'[w] = Changed(w)
<1>1. WorkerTypes
  BY LocalInvParts
<1>2. mem'[w] = mem[w] \/ mem'[w] = NoOrder => Goal
  BY DEF Known
<1>3. ASSUME NEW v \in Workers, v # w, Begin(v) \/ Advance(v) \/ Fault(v)
      PROVE  mem'[w] = mem[w]
  BY <1>3, OneWorkersStep DEF OnlyWorker
<1>4. CASE AcceptFromCourier(w)
  BY <1>1, <1>4 DEF AcceptFromCourier, WorkerTypes
<1>5. CASE Read(w)
  BY <1>1, <1>2, <1>5 DEF Read, Fail, WorkerTypes
<1>6. CASE DbRead(w) \/ CacheGet(w)
  <2>1. Id(w) \in OrderId
    BY <1>6, LocalInvParts, IdType
    DEF LocalInv, Shaped, OnAnOrder, DbRead, CacheGet
  <2>2. QED
    BY <1>1, <1>2, <1>6, <2>1 DEF DbRead, CacheGet, Fail, WorkerTypes, Known
<1>7. CASE RejectPackaging(w) \/ ServeRecipient(w) \/ UnknownAction(w)
             \/ ReturnToCourier(w) \/ GetOrderByID(w) \/ Add(w) \/ Update(w)
             \/ AddHistoryRecord(w)
  BY <1>1, <1>2, <1>7
  DEF RejectPackaging, ServeRecipient, UnknownAction, ReturnToCourier,
      GetOrderByID, Add, Update, AddHistoryRecord, Fail, WorkerTypes
<1>8. CASE AddTask(w) \/ Delete(w) \/ Commit(w) \/ CommitUnacknowledged(w)
             \/ CacheSet(w) \/ CacheDel(w) \/ Reply(w) \/ FailStatement(w)
             \/ FailCacheWrite(w) \/ FailCacheGet(w)
  BY <1>1, <1>2, <1>8
  DEF AddTask, Delete, Commit, CommitUnacknowledged, CacheSet, NextOrder,
      CacheDel, Reply, FailStatement, FailCacheWrite, FailCacheGet, Fail,
      WorkerTypes
<1>9. CASE Crash \/ Tick \/ UNCHANGED vars
  BY <1>2, <1>9 DEF Crash, Tick, vars, workerVars
<1>10. CASE Begin(w) \/ Advance(w) \/ Fault(w)
  BY <1>4, <1>5, <1>6, <1>7, <1>8, <1>10 DEF Begin, Advance, Fault
<1>11. QED
  <2>1. CASE \E v \in Workers : Begin(v) \/ Advance(v) \/ Fault(v)
    BY <1>2, <1>3, <1>10, <2>1
  <2>2. QED
    BY <1>9, <2>1 DEF Next

-----------------------------------------------------------------------------
(* The dates of an order.                                                  *)

DatesFit(o) ==
  /\ o.delivered # NilDate <=> o.status \in {"delivered", "refunded"}
  /\ o.refunded # NilDate <=> o.status = "refunded"
  /\ o.refunded # NilDate => o.delivered <= o.refunded

(* Its dates fit its status, and it was not handed over in the future.     *)
Dated(o, time) == o # NoOrder => DatesFit(o) /\ o.delivered <= time

DatesInv == \A o \in Known : Dated(o, now)

LEMMA NewOrderDated ==
  ASSUME NEW r \in Recipients, NEW e \in Expirations, NEW time \in Nat
  PROVE  Dated(Received(NewOrder(r, e)), time)
BY DEF Dated, DatesFit, Received, NewOrder, NilDate

LEMMA TransitionDated ==
  ASSUME NEW o \in Order, NEW time \in Nat, DatesFit(o), o.delivered <= time
  PROVE  /\ o.status = "received" =>
              Dated(Expire(o), time) /\ Dated(Deliver(o, time), time)
         /\ o.status = "delivered" => Dated(Refund(o, time), time)
BY DEF Order, Dated, DatesFit, Expire, Deliver, Refund, NilDate

LEMMA ChangedDated ==
  ASSUME LocalInv, DatesInv, NEW w \in Workers,
         pc[w] = "read", Found(w), ~Refused(w)
  PROVE  Dated(Changed(w), now)
<1> DEFINE o == orders[Id(w)]
<1>1. /\ Id(w) \in OrderId /\ o \in Order
      /\ req[w].op \in {"deliver", "refund", "return"}
      /\ req[w].op = "deliver" => o.status = "received"
      /\ req[w].op = "refund" => o.status = "delivered"
  BY ReadRow
<1>2. now \in Nat
  BY LocalInvParts, ServiceAssumption DEF DataTypes, ServiceAssumption
<1>3. DatesFit(o) /\ o.delivered <= now
  BY <1>1, NoOrderIsNoOrder DEF DatesInv, Known, Dated
<1>4. CASE req[w].op = "deliver"
  BY <1>1, <1>2, <1>3, <1>4, TransitionDated DEF Changed
<1>5. CASE req[w].op = "refund"
  BY <1>1, <1>2, <1>3, <1>5, TransitionDated DEF Changed
<1>6. CASE req[w].op = "return"
  BY <1>3, <1>6 DEF Changed, Dated
<1>7. QED
  BY <1>1, <1>4, <1>5, <1>6

LEMMA DatesStep ==
  ASSUME LocalInv, LocalInv', DatesInv, [Next]_vars
  PROVE  DatesInv'
<1>1. now \in Nat /\ now' \in Nat /\ now <= now'
  <2>1. now \in Nat /\ now' \in Nat
    BY LocalInvParts, ServiceAssumption
    DEF LocalInv, TypeOK, DataTypes, ServiceAssumption
  <2>2. now' = now \/ now' = now + 1
    BY DEF Next, Begin, Advance, Fault, AcceptFromCourier, RejectPackaging,
       ServeRecipient, UnknownAction, ReturnToCourier, GetOrderByID, Call, Add,
       Read, Update, AddHistoryRecord, AddTask, Delete, CacheSet, CacheDel,
       CacheGet, DbRead, Reply, FailStatement, FailCacheWrite, FailCacheGet,
       Commit, CommitUnacknowledged, Crash, Tick, vars
  <2>3. QED
    BY <2>1, <2>2
<1>2. ASSUME NEW o \in MaybeOrder, Dated(o, now)
      PROVE  Dated(o, now')
  BY <1>1, <1>2 DEF Dated, MaybeOrder, Order, NilDate
<1>3. Known \subseteq MaybeOrder
  BY LocalInvParts DEF DataTypes, WorkerTypes, Known, MaybeOrder
<1>4. \A o \in Known : Dated(o, now')
  BY <1>2, <1>3 DEF DatesInv
<1>5. ASSUME NEW w \in Workers
      PROVE  Dated(mem'[w], now')
  <2>1. CASE mem'[w] \in Known
    BY <1>4, <2>1
  <2>2. ASSUME NEW r \in Recipients, NEW e \in Expirations,
               mem'[w] = Received(NewOrder(r, e))
        PROVE  Dated(mem'[w], now')
    BY <1>1, <2>2, NewOrderDated
  <2>3. CASE pc[w] = "read" /\ Found(w) /\ ~Refused(w) /\ mem'[w] = Changed(w)
    BY <1>2, <2>3, ChangedDated, ReadRow DEF MaybeOrder
  <2>4. QED
    BY <2>1, <2>2, <2>3, MemoryIsKnown
<1>6. \A i \in OrderId : Dated(orders'[i], now') /\ Dated(cache'[i], now')
  BY <1>4, WrittenRowsAreKnown, CachedIsKnown
<1>7. QED
  BY <1>5, <1>6 DEF DatesInv, Known, Dated

(* An order that says it is delivered, in the table, in the cache or in    *)
(* the memory of a call, has a delivery date, so that CanBeRefunded can    *)
(* dereference it, and its dates are in order.                             *)
THEOREM DatesCorrect == Spec => []DatesMatchStatus
<1>1. Init => DatesInv
  BY DEF Init, DatesInv, Known, Dated
<1>2. IInv /\ IInv' /\ DatesInv /\ [Next]_vars => DatesInv'
  BY DatesStep DEF IInv
<1>3. DatesInv => DatesMatchStatus
  BY DEF DatesInv, DatesMatchStatus, Known, Dated, DatesFit
<1>4. QED
  BY <1>1, <1>2, <1>3, ServiceInvariant, PTL DEF Spec

-----------------------------------------------------------------------------
(* ReturnToCourier.                                                        *)

(* As long as the row is the one a return has read, it is the one that was *)
(* found expired.                                                          *)
SeenExpired(w) ==
  (pc[w] \in InTx /\ req[w].op = "return" /\ version[Id(w)] = tx[w].ver)
    => mem[w] = orders[Id(w)] /\ IsExpired(mem[w], now)

LEMMA TimePasses ==
  ASSUME LocalInv, LocalInv', [Next]_vars
  PROVE  /\ now \in Nat /\ now' \in Nat
         /\ now <= now'
<1>1. now \in Nat /\ now' \in Nat
  BY LocalInvParts, ServiceAssumption
  DEF LocalInv, TypeOK, DataTypes, ServiceAssumption
<1>2. now' = now \/ now' = now + 1
  BY DEF Next, Begin, Advance, Fault, AcceptFromCourier, RejectPackaging,
         ServeRecipient, UnknownAction, ReturnToCourier, GetOrderByID, Call,
         Add, Read, Update, AddHistoryRecord, AddTask, Delete, CacheSet,
         CacheDel, CacheGet, DbRead, Reply, FailStatement, FailCacheWrite,
         FailCacheGet, Commit, CommitUnacknowledged, Crash, Tick, vars
<1>3. QED
  BY <1>1, <1>2

LEMMA SeenByOwnStep ==
  ASSUME IInv, LocalInv', NEW w \in Workers, SeenExpired(w),
         Begin(w) \/ Advance(w) \/ Fault(w)
  PROVE  SeenExpired(w)'
<1>1. SUFFICES ASSUME pc'[w] \in InTx, req'[w].op = "return",
                      version'[Id(w)'] = tx'[w].ver
               PROVE  mem'[w] = orders'[Id(w)'] /\ IsExpired(mem'[w], now')
  BY DEF SeenExpired
<1>2. WorkerTypes /\ LocalInv
  BY LocalInvParts DEF IInv
<1>3. pc'[w] \in {"delete", "commit"}
  BY <1>1 DEF LocalInv, TxShape, ReturnShape
<1>4. CASE Read(w)
  <2>1. Found(w) /\ ~Refused(w) /\ req[w].op = "return" /\ UNCHANGED <<req, pos>>
    BY <1>1, <1>2, <1>4 DEF Read, Fail, Goto, WorkerTypes, InTx
  <2>2. mem'[w] = orders[Id(w)] /\ UNCHANGED <<orders, now>> /\ pc[w] = "read"
    BY <1>2, <1>4, <2>1 DEF Read, Changed, WorkerTypes, dbVars
  <2>3. IsExpired(orders[Id(w)], now)
    BY <2>1 DEF Refused
  <2>4. QED
    BY <2>1, <2>2, <2>3 DEF Id
<1>5. CASE Delete(w)
  <2>1. /\ UNCHANGED <<dbVars, now, req, pos, mem>>
        /\ pc[w] = "delete" /\ tx' = [tx EXCEPT ![w].lock = "delete"]
    BY <1>1, <1>2, <1>5 DEF Delete, Fail, Goto, WorkerTypes, InTx
  <2>2. tx'[w].ver = tx[w].ver
    BY <1>2, <2>1 DEF WorkerTypes, Tx
  <2>3. pc[w] \in InTx /\ version[Id(w)] = tx[w].ver /\ req[w].op = "return"
    BY <1>1, <2>1, <2>2 DEF InTx, dbVars, Id
  <2>4. QED
    BY <2>1, <2>3 DEF SeenExpired, dbVars, Id
<1>6. CASE AddTask(w)
  <2>1. pc[w] = "task" /\ req[w].op = "return"
    BY <1>1, <1>6 DEF AddTask
  <2>2. QED
    BY <1>2, <2>1 DEF LocalInv, TxShape, ReturnShape, InTx
<1>7. CASE Begin(w)
  BY <1>2, <1>3, <1>7
  DEF Begin, AcceptFromCourier, RejectPackaging, ServeRecipient, UnknownAction,
      ReturnToCourier, GetOrderByID, Call, Fail, Goto, WorkerTypes
<1>8. CASE Add(w) \/ Update(w) \/ AddHistoryRecord(w) \/ Commit(w)
             \/ CommitUnacknowledged(w)
  BY <1>2, <1>3, <1>8
  DEF Add, Update, AddHistoryRecord, Commit, CommitUnacknowledged, Fail, Goto,
      WorkerTypes
<1>9. CASE CacheSet(w) \/ CacheDel(w) \/ CacheGet(w) \/ DbRead(w) \/ Reply(w)
             \/ FailStatement(w) \/ FailCacheWrite(w) \/ FailCacheGet(w)
  BY <1>2, <1>3, <1>9
  DEF CacheSet, NextOrder, CacheDel, CacheGet, DbRead, Reply, FailStatement,
      FailCacheWrite, FailCacheGet, Fail, Goto, WorkerTypes
<1>10. QED
  BY <1>4, <1>5, <1>6, <1>7, <1>8, <1>9 DEF Advance, Fault

LEMMA SeenByOthers ==
  ASSUME IInv, LocalInv', NEW w \in Workers, SeenExpired(w), [Next]_vars,
         UNCHANGED <<pc[w], req[w], pos[w], mem[w], tx[w]>>
  PROVE  SeenExpired(w)'
<1>1. SUFFICES ASSUME pc[w] \in InTx, req[w].op = "return",
                      version'[Id(w)] = tx[w].ver
               PROVE  mem[w] = orders'[Id(w)] /\ IsExpired(mem[w], now')
  BY DEF SeenExpired, Id
<1> DEFINE i == Id(w)
<1>2. i \in OrderId /\ RowAsRead(w) /\ mem[w] \in Order
  BY <1>1, IdInTx DEF IInv, Snapshots, LocalInv, TxShape
<1>3. version[i] = tx[w].ver /\ orders'[i] = orders[i]
  <2>1. CASE UNCHANGED dbVars
    BY <1>1, <2>1 DEF dbVars
  <2>2. ASSUME NEW v \in Workers, pc[v] = "commit", ApplyTx(v)
        PROVE  version[i] = tx[w].ver /\ orders'[i] = orders[i]
    <3>1. CASE Id(v) = i
      <4>1. version[i] \in Nat /\ version'[i] = version[i] + 1
        BY <1>2, <2>2, <3>1, LocalInvParts DEF ApplyTx, IInv, DataTypes
      <4>2. tx[w].ver \in 1 .. version[i]
        BY <1>2 DEF RowAsRead
      <4>3. QED
        BY <1>1, <4>1, <4>2
    <3>2. CASE Id(v) # i
      BY <1>1, <1>2, <2>2, <3>2, LocalInvParts DEF ApplyTx, IInv, DataTypes
    <3>3. QED
      BY <3>1, <3>2
  <2>3. QED
    BY <2>1, <2>2, OnlyCommitsWrite
<1>4. mem[w] = orders[i] /\ IsExpired(mem[w], now)
  BY <1>1, <1>3 DEF SeenExpired
<1>5. IsExpired(mem[w], now')
  <2>1. mem[w].expiration \in Nat
    BY <1>2, DomainAssumption DEF Order, DomainAssumption
  <2>2. QED
    BY <1>4, <2>1, TimePasses DEF IsExpired, IInv
<1>6. QED
  BY <1>3, <1>4, <1>5

LEMMA SeenStep ==
  ASSUME IInv, LocalInv', \A w \in Workers : SeenExpired(w), [Next]_vars
  PROVE  \A w \in Workers : SeenExpired(w)'
<1> TAKE w \in Workers
<1>1. CASE Begin(w) \/ Advance(w) \/ Fault(w)
  BY <1>1, SeenByOwnStep
<1>2. ASSUME NEW v \in Workers \ {w}, Begin(v) \/ Advance(v) \/ Fault(v)
      PROVE  SeenExpired(w)'
  BY <1>2, OneWorkersStep, SeenByOthers DEF OnlyWorker, IInv
<1>3. CASE Crash
  BY <1>3 DEF Crash, SeenExpired, InTx
<1>4. CASE Tick \/ UNCHANGED vars
  BY <1>4, SeenByOthers DEF Tick, vars, workerVars
<1>5. QED
  BY <1>1, <1>2, <1>3, <1>4 DEF Next

LEMMA DeletedRow ==
  ASSUME IInv, NEW w \in Workers, SeenExpired(w), pc[w] = "commit", ApplyTx(w),
         NEW i \in OrderId, orders[i] # NoOrder, orders'[i] = NoOrder
  PROVE  mem[w] = orders[i] /\ IsExpired(orders[i], now)
<1>1. TxShape(w) /\ pc[w] \in InTx /\ LocalInv
  BY DEF IInv, LocalInv, InTx
<1>2. mem[w] # NoOrder
  BY <1>1, NoOrderIsNoOrder DEF TxShape
<1>3. i = Id(w) /\ tx[w].lock = "delete"
  BY <1>1, <1>2, LocalInvParts DEF ApplyTx, DataTypes
<1>4. req[w].op = "return"
  BY <1>1, <1>3 DEF TxShape, AcceptShape, DeliverShape, RefundShape
<1>5. RowAsRead(w)
  BY <1>1, <1>4 DEF IInv, Snapshots
<1>6. version[i] = tx[w].ver
  BY <1>3, <1>5 DEF RowAsRead, Exclusive
<1>7. QED
  BY <1>1, <1>3, <1>4, <1>6 DEF SeenExpired

(* ReturnToCourier checks the expiration in one statement and deletes the  *)
(* row in another: a row that is deleted is the one that was found expired *)
(* all the same, whoever wrote it in between was noticed.                  *)
THEOREM OnlyExpiredLeave == Spec => ReturnsOnlyExpired
<1> DEFINE Inv == \A w \in Workers : SeenExpired(w)
<1>1. Init => Inv
  BY DEF Init, SeenExpired, InTx
<1>2. IInv /\ IInv' /\ Inv /\ [Next]_vars => Inv'
  BY SeenStep DEF IInv
<1>3. ASSUME IInv, Inv, [Next]_vars
      PROVE  \A i \in OrderId :
               orders[i] # NoOrder /\ orders'[i] = NoOrder
                 => /\ IsExpired(orders[i], now)
                    /\ \E w \in Workers : pc[w] = "commit" /\ mem[w] = orders[i]
  <2>1. CASE UNCHANGED dbVars
    BY <2>1 DEF dbVars
  <2>2. QED
    BY <1>3, <2>1, OnlyCommitsWrite, DeletedRow
<1>4. QED
  BY <1>1, <1>2, <1>3, ServiceInvariant, PTL DEF Spec, ReturnsOnlyExpired
=============================================================================
