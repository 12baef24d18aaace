------------------------- MODULE OrderServiceProofs -------------------------
(***************************************************************************)
(* Theorems about OrderService, for every set of workers, orders, lists    *)
(* and faults.                                                             *)
(***************************************************************************)
EXTENDS OrderService, SequenceTheorems, TLAPS

-----------------------------------------------------------------------------
(* Facts about the domain.                                                 *)

LEMMA NoOrderIsNoOrder == NoOrder \notin Order
BY DomainAssumption DEF DomainAssumption

LEMMA NewOrderType ==
  ASSUME NEW r \in Recipients, NEW e \in Expirations
  PROVE  /\ Received(NewOrder(r, e)) \in Order
         /\ Received(NewOrder(r, e)).status = "received"
BY DEF Received, NewOrder, Order, OrderStatus, NilDate

(* Every method of Order leaves an order, in the status it is named for.   *)
LEMMA TransitionType ==
  ASSUME NEW o \in Order, NEW t \in Nat
  PROVE  /\ Expire(o) \in Order /\ Expire(o).status = "storage_ended"
         /\ Deliver(o, t) \in Order /\ Deliver(o, t).status = "delivered"
         /\ Refund(o, t) \in Order /\ Refund(o, t).status = "refunded"
BY DEF Expire, Deliver, Refund, Order, OrderStatus, NilDate

LEMMA NoTxType == NoTx \in Tx
BY DEF NoTx, Tx, Locks, OrderStatus

(* The statements of a transaction change one field of it or two.          *)
LEMMA TxLock ==
  ASSUME NEW t \in Tx, NEW l \in Locks
  PROVE  [t EXCEPT !.lock = l] \in Tx
BY DEF Tx

LEMMA TxTask ==
  ASSUME NEW t \in Tx
  PROVE  [t EXCEPT !.task = t.rec] \in Tx
BY DEF Tx

LEMMA TxRecord ==
  ASSUME NEW t \in Tx
  PROVE  [t EXCEPT !.hist = t.rec,
                   !.lock = IF t.lock = "none" THEN "share" ELSE t.lock] \in Tx
BY DEF Tx, Locks

LEMMA NoRequestType == NoRequest \in Request /\ NoRequest.op = "none"
BY DEF NoRequest, Request, Ops

LEMMA OneOrder == 1 \in OrderId /\ OrderId \subseteq Nat
BY ServiceAssumption DEF ServiceAssumption, OrderId

(* A worker that is on an order works on one of the ids of the table.      *)
LEMMA IdType ==
  ASSUME TypeOK, NEW w \in Workers, pos[w] \in 1 .. Len(req[w].ids)
  PROVE  Id(w) \in OrderId
<1>1. req[w].ids \in Seq(OrderId)
  BY DEF TypeOK, Request
<1>2. QED
  BY <1>1 DEF Id

-----------------------------------------------------------------------------
(* LocalInv is inductive by itself.                                        *)

WorkerTypes ==
  /\ pc  \in [Workers -> PCs]
  /\ req \in [Workers -> Request]
  /\ pos \in [Workers -> Nat \ {0}]
  /\ mem \in [Workers -> MaybeOrder]
  /\ tx  \in [Workers -> Tx]

DataTypes ==
  /\ orders   \in [OrderId -> MaybeOrder]
  /\ version  \in [OrderId -> Nat]
  /\ history  \in [OrderId -> Seq(OrderStatus)]
  /\ enqueued \in [OrderId -> Seq(OrderStatus)]
  /\ nextId   \in 1 .. MaxOrders + 1
  /\ cache    \in [OrderId -> MaybeOrder]
  /\ now      \in 0 .. MaxTime

Shaped(w) == OnAnOrder(w) /\ TxShape(w) /\ CallShape(w)

LEMMA LocalInvParts ==
  LocalInv <=> DataTypes /\ WorkerTypes /\ \A w \in Workers : Shaped(w)
BY DEF LocalInv, TypeOK, DataTypes, WorkerTypes, Shaped

OnlyWorker(w) ==
  \A v \in Workers \ {w} :
    /\ pc'[v] = pc[v] /\ req'[v] = req[v] /\ pos'[v] = pos[v]
    /\ mem'[v] = mem[v] /\ tx'[v] = tx[v]

(* A step of w leaves the other workers in shape.                          *)
LEMMA OneWorkerStep ==
  ASSUME LocalInv, NEW w \in Workers,
         DataTypes', WorkerTypes', OnlyWorker(w), Shaped(w)'
  PROVE  LocalInv'
<1>1. ASSUME NEW v \in Workers PROVE Shaped(v)'
  <2>1. CASE v = w
    BY <2>1
  <2>2. CASE v # w
    <3>1. Shaped(v)
      BY LocalInvParts
    <3>2. /\ pc'[v] = pc[v] /\ req'[v] = req[v] /\ pos'[v] = pos[v]
          /\ mem'[v] = mem[v] /\ tx'[v] = tx[v]
      BY <2>2 DEF OnlyWorker
    <3>3. OnAnOrder(v)'
      BY <3>1, <3>2 DEF Shaped, OnAnOrder
    <3>4. TxShape(v)'
      BY <3>1, <3>2 DEF Shaped, TxShape, AcceptShape, DeliverShape,
         RefundShape, ReturnShape, WriteShape
    <3>5. CallShape(v)'
      BY <3>1, <3>2 DEF Shaped, CallShape
    <3>6. QED
      BY <3>3, <3>4, <3>5 DEF Shaped
  <2>3. QED
    BY <2>1, <2>2
<1>2. QED
  BY <1>1 DEF LocalInv, TypeOK, DataTypes, WorkerTypes, Shaped

LEMMA LocalFail ==
  ASSUME LocalInv, NEW w \in Workers, Fail(w), DataTypes'
  PROVE  LocalInv'
<1>1. WorkerTypes'
  BY LocalInvParts, NoTxType, NoRequestType
  DEF WorkerTypes, Fail, Goto, PCs, MaybeOrder
<1>2. OnlyWorker(w)
  BY LocalInvParts DEF WorkerTypes, OnlyWorker, Fail, Goto
<1>3. Shaped(w)'
  BY LocalInvParts, NoRequestType
  DEF WorkerTypes, Shaped, OnAnOrder, TxShape, CallShape, Fail, Goto, InTx
<1>4. QED
  BY <1>1, <1>2, <1>3, OneWorkerStep

LEMMA LocalUpdate ==
  ASSUME LocalInv, NEW w \in Workers, Update(w)
  PROVE  LocalInv'
<1>1. DataTypes'
  BY LocalInvParts DEF DataTypes, Update, dbVars
<1>2. CASE Conflict(w)
  BY <1>1, <1>2, LocalFail DEF Update
<1>3. CASE ~Conflict(w)
  <2>1. WorkerTypes'
    <3>1. [tx[w] EXCEPT !.lock = "update"] \in Tx
      BY LocalInvParts, TxLock DEF WorkerTypes, Locks
    <3>2. tx' \in [Workers -> Tx]
      BY <1>3, <3>1, LocalInvParts DEF WorkerTypes, Update
    <3>3. QED
      BY <1>3, <3>2, LocalInvParts DEF WorkerTypes, Update, Goto, PCs
  <2>2. OnlyWorker(w)
    BY <1>3, LocalInvParts DEF WorkerTypes, OnlyWorker, Update, Goto
  <2>3. Shaped(w)'
    BY <1>3, LocalInvParts
    DEF WorkerTypes, Shaped, OnAnOrder, TxShape, CallShape, InTx, AcceptShape,
        DeliverShape, RefundShape, ReturnShape, WriteShape, Update, Goto, Tx
  <2>4. QED
    BY <1>1, <2>1, <2>2, <2>3, OneWorkerStep
<1>4. QED
  BY <1>2, <1>3

LEMMA LocalAccept ==
  ASSUME LocalInv, NEW w \in Workers, AcceptFromCourier(w)
  PROVE  LocalInv'
<1>1. PICK r \in Recipients, e \in Expirations :
        /\ mem' = [mem EXCEPT ![w] = Received(NewOrder(r, e))]
        /\ Call(w, "accept", <<>>, r, "add")
  BY DEF AcceptFromCourier
<1>2. DataTypes'
  BY <1>1, LocalInvParts DEF DataTypes, Call, dbVars
<1>3. [op |-> "accept", ids |-> <<>>, recipient |-> r] \in Request
  BY DEF Request, Ops
<1>4. WorkerTypes'
  BY <1>1, <1>3, NewOrderType, LocalInvParts
  DEF WorkerTypes, Call, Goto, PCs, MaybeOrder
<1>5. OnlyWorker(w)
  BY <1>1, LocalInvParts DEF WorkerTypes, OnlyWorker, Call, Goto
<1>6. Shaped(w)'
  BY <1>1, NewOrderType, LocalInvParts
  DEF AcceptFromCourier, WorkerTypes, Shaped, OnAnOrder, TxShape, CallShape,
      InTx, Call, Goto
<1>7. QED
  BY <1>2, <1>4, <1>5, <1>6, OneWorkerStep

(* The calls that start with ids of their own.                             *)
LEMMA LocalCall ==
  ASSUME LocalInv, NEW w \in Workers, pc[w] = "idle", UNCHANGED mem,
         NEW op \in Ops, NEW ids \in Seq(OrderId), NEW r \in Recipients \cup {0},
         NEW label \in {"ok", "read", "cacheGet"},
         Call(w, op, ids, r, label),
         ids # <<>> \/ label = "ok",
         label = "read" => op \in {"deliver", "refund", "return"},
         label = "cacheGet" => op = "get",
         op # "accept",
         op \in {"return", "get"} => Len(ids) = 1
  PROVE  LocalInv'
<1>1. DataTypes'
  BY LocalInvParts DEF DataTypes, Call, dbVars
<1>2. WorkerTypes'
  BY LocalInvParts DEF WorkerTypes, Call, Goto, PCs, Request
<1>3. OnlyWorker(w)
  BY LocalInvParts DEF WorkerTypes, OnlyWorker, Call, Goto
<1>4. Len(ids) \in Nat /\ (ids # <<>> => Len(ids) > 0)
  OBVIOUS
<1>5. /\ pc'[w] = label /\ req'[w].op = op /\ req'[w].ids = ids
      /\ pos'[w] = 1 /\ tx'[w] = NoTx
  BY LocalInvParts DEF WorkerTypes, Shaped, TxShape, CallShape, Call, Goto, InTx
<1>6. Shaped(w)'
  BY <1>4, <1>5 DEF Shaped, OnAnOrder, TxShape, CallShape, InTx
<1>7. QED
  BY <1>1, <1>2, <1>3, <1>6, OneWorkerStep

LEMMA LocalServe ==
  ASSUME LocalInv, NEW w \in Workers, ServeRecipient(w)
  PROVE  LocalInv'
<1>1. PICK ids \in IdLists, r \in Recipients, op \in {"deliver", "refund"} :
        Call(w, op, ids, r, IF ids = <<>> THEN "ok" ELSE "read")
  BY DEF ServeRecipient
<1>2. ids \in Seq(OrderId) /\ op \in Ops
  BY ServiceAssumption DEF ServiceAssumption, Ops
<1>3. CASE ids = <<>>
  BY <1>1, <1>2, <1>3, LocalCall DEF ServeRecipient
<1>4. CASE ids # <<>>
  BY <1>1, <1>2, <1>4, LocalCall DEF ServeRecipient
<1>5. QED
  BY <1>3, <1>4

LEMMA LocalReturn ==
  ASSUME LocalInv, NEW w \in Workers, ReturnToCourier(w)
  PROVE  LocalInv'
<1>1. PICK id \in OrderId : Call(w, "return", <<id>>, 0, "read")
  BY DEF ReturnToCourier
<1>2. <<id>> \in Seq(OrderId) /\ Len(<<id>>) = 1 /\ <<id>> # <<>>
  OBVIOUS
<1>3. QED
  BY <1>1, <1>2, LocalCall DEF ReturnToCourier, Ops

LEMMA LocalGet ==
  ASSUME LocalInv, NEW w \in Workers, GetOrderByID(w)
  PROVE  LocalInv'
<1>1. PICK id \in OrderId, r \in Recipients :
        Call(w, "get", <<id>>, r, "cacheGet")
  BY DEF GetOrderByID
<1>2. <<id>> \in Seq(OrderId) /\ Len(<<id>>) = 1 /\ <<id>> # <<>>
  OBVIOUS
<1>3. QED
  BY <1>1, <1>2, LocalCall DEF GetOrderByID, Ops

LEMMA LocalReply ==
  ASSUME LocalInv, NEW w \in Workers, Reply(w)
  PROVE  LocalInv'
<1>1. DataTypes'
  BY LocalInvParts DEF DataTypes, Reply, dbVars
<1>2. WorkerTypes'
  BY LocalInvParts, NoRequestType
  DEF WorkerTypes, Reply, Goto, PCs, MaybeOrder
<1>3. OnlyWorker(w)
  BY LocalInvParts DEF WorkerTypes, OnlyWorker, Reply, Goto
<1>4. Shaped(w)'
  BY LocalInvParts, NoRequestType
  DEF WorkerTypes, Shaped, OnAnOrder, TxShape, CallShape, Reply, Goto, InTx
<1>5. QED
  BY <1>1, <1>2, <1>3, <1>4, OneWorkerStep

LEMMA LocalAdd ==
  ASSUME LocalInv, NEW w \in Workers, Add(w)
  PROVE  LocalInv'
<1>1. DataTypes'
  BY LocalInvParts, ServiceAssumption
  DEF DataTypes, Add, dbVars, ServiceAssumption
<1>2. CASE nextId > MaxOrders
  <2>1. ~(nextId <= MaxOrders)
    BY <1>2, LocalInvParts, ServiceAssumption DEF DataTypes, ServiceAssumption
  <2>2. Fail(w)
    BY <2>1 DEF Add
  <2>3. QED
    BY <1>1, <2>2, LocalFail
<1>3. CASE nextId <= MaxOrders
  <2>1. nextId \in OrderId
    BY <1>3, LocalInvParts, ServiceAssumption
    DEF DataTypes, OrderId, ServiceAssumption
  <2>2. <<nextId>> \in Seq(OrderId) /\ Len(<<nextId>>) = 1
    BY <2>1
  <2>3. tx[w] = NoTx /\ pos[w] = 1 /\ req[w].op = "accept"
    BY LocalInvParts DEF Shaped, TxShape, CallShape, Add, InTx
  <2>4. /\ req' = [req EXCEPT ![w].ids = <<nextId>>]
        /\ tx'  = [tx EXCEPT ![w].lock = "insert", ![w].rec = "received"]
        /\ pc' = [pc EXCEPT ![w] = "history"]
        /\ UNCHANGED <<pos, mem>>
    BY <1>3 DEF Add, Goto
  <2>5. tx'[w] = [ver |-> 0, lock |-> "insert", rec |-> "received",
                  hist |-> "none", task |-> "none"]
    BY <2>3, <2>4, LocalInvParts DEF WorkerTypes, NoTx
  <2>6. tx'[w] \in Tx
    BY <2>5 DEF Tx, Locks, OrderStatus
  <2>7. tx' \in [Workers -> Tx]
    BY <2>4, <2>6, LocalInvParts DEF WorkerTypes
  <2>8. req' \in [Workers -> Request]
    BY <2>2, <2>4, LocalInvParts DEF WorkerTypes, Request
  <2>9. WorkerTypes'
    BY <2>4, <2>7, <2>8, LocalInvParts DEF WorkerTypes, PCs
  <2>10. OnlyWorker(w)
    BY <2>4, LocalInvParts DEF WorkerTypes, OnlyWorker
  <2>11. /\ pc'[w] = "history" /\ pos'[w] = 1 /\ mem'[w] = mem[w]
         /\ req'[w].op = "accept" /\ req'[w].ids = <<nextId>>
    BY <2>3, <2>4, LocalInvParts DEF WorkerTypes, Request
  <2>12. mem[w] \in Order /\ mem[w].status = "received"
    BY LocalInvParts DEF Shaped, TxShape, Add
  <2>13. Shaped(w)'
    BY <2>2, <2>5, <2>11, <2>12
    DEF Shaped, OnAnOrder, TxShape, CallShape, InTx, AcceptShape, WriteShape
  <2>14. QED
    BY <1>1, <2>9, <2>10, <2>13, OneWorkerStep
<1>4. QED
  BY <1>2, <1>3, LocalInvParts, ServiceAssumption
  DEF DataTypes, ServiceAssumption

(* The transaction that begins with a read.                                *)
LEMMA NewSnapshot ==
  ASSUME NEW w \in Workers, WorkerTypes, tx[w] = NoTx,
         NEW n \in Nat, NEW s \in OrderStatus,
         tx' = [tx EXCEPT ![w].ver = n, ![w].rec = s]
  PROVE  /\ tx' \in [Workers -> Tx]
         /\ tx'[w].ver = n /\ tx'[w].rec = s
         /\ tx'[w].lock = "none" /\ tx'[w].hist = "none" /\ tx'[w].task = "none"
<1>1. tx'[w] \in Tx
  BY DEF WorkerTypes, NoTx, Tx, Locks, OrderStatus
<1>2. tx' \in [Workers -> Tx]
  BY <1>1 DEF WorkerTypes
<1>3. QED
  BY <1>2 DEF WorkerTypes, NoTx

(* The row a transaction may go on with, and what it makes of it.          *)
LEMMA ReadRow ==
  ASSUME LocalInv, NEW w \in Workers, pc[w] = "read", Found(w), ~Refused(w)
  PROVE  /\ Id(w) \in OrderId
         /\ orders[Id(w)] \in Order
         /\ Changed(w) \in Order
         /\ NewRecord(w) \in OrderStatus
         /\ req[w].op \in {"deliver", "refund", "return"}
         /\ req[w].op = "deliver" =>
              /\ orders[Id(w)].status = "received"
              /\ NewRecord(w) = Changed(w).status
              /\ Changed(w).status \in {"delivered", "storage_ended"}
         /\ req[w].op = "refund" =>
              /\ orders[Id(w)].status = "delivered"
              /\ NewRecord(w) = Changed(w).status
              /\ Changed(w).status = "refunded"
<1> DEFINE o == orders[Id(w)]
<1>1. req[w].op \in {"deliver", "refund", "return"} /\ Id(w) \in OrderId
  BY LocalInvParts, IdType DEF LocalInv, Shaped, CallShape, OnAnOrder
<1>2. o \in Order
  BY <1>1, LocalInvParts DEF Found, DataTypes, MaybeOrder
<1>3. now \in Nat
  BY LocalInvParts, ServiceAssumption DEF DataTypes, ServiceAssumption
<1>4. CASE req[w].op = "deliver"
  <2>1. o.status = "received"
    BY <1>4 DEF Refused, IsReceived
  <2>2. CASE IsExpired(o, now)
    <3>1. Changed(w) = Expire(o) /\ NewRecord(w) = "storage_ended"
      BY <1>4, <2>2 DEF Changed, NewRecord
    <3>2. Expire(o) \in Order /\ Expire(o).status = "storage_ended"
      BY <1>2, <1>3, TransitionType
    <3>3. QED
      BY <1>1, <1>2, <1>4, <2>1, <3>1, <3>2 DEF OrderStatus
  <2>3. CASE ~IsExpired(o, now)
    <3>1. Changed(w) = Deliver(o, now) /\ NewRecord(w) = "delivered"
      BY <1>4, <2>3 DEF Changed, NewRecord
    <3>2. Deliver(o, now) \in Order /\ Deliver(o, now).status = "delivered"
      BY <1>2, <1>3, TransitionType
    <3>3. QED
      BY <1>1, <1>2, <1>4, <2>1, <3>1, <3>2 DEF OrderStatus
  <2>4. QED
    BY <2>2, <2>3
<1>5. CASE req[w].op = "refund"
  <2>1. o.status = "delivered"
    BY <1>5 DEF Refused, CanBeRefunded, IsDelivered
  <2>2. Changed(w) = Refund(o, now) /\ NewRecord(w) = "refunded"
    BY <1>5 DEF Changed, NewRecord
  <2>3. QED
    BY <1>1, <1>2, <1>3, <1>5, <2>1, <2>2, TransitionType DEF OrderStatus
<1>6. CASE req[w].op = "return"
  <2>1. Changed(w) = o /\ NewRecord(w) = "none"
    BY <1>6 DEF Changed, NewRecord
  <2>2. QED
    BY <1>1, <1>2, <1>6, <2>1 DEF OrderStatus
<1>7. QED
  BY <1>1, <1>4, <1>5, <1>6

LEMMA LocalRead ==
  ASSUME LocalInv, NEW w \in Workers, Read(w)
  PROVE  LocalInv'
<1>1. DataTypes'
  BY LocalInvParts DEF DataTypes, Read, dbVars
<1>2. CASE ~(Found(w) /\ ~Refused(w))
  BY <1>1, <1>2, LocalFail DEF Read
<1>3. CASE Found(w) /\ ~Refused(w)
  <2>1. /\ mem' = [mem EXCEPT ![w] = Changed(w)]
        /\ tx' = [tx EXCEPT ![w].ver = version[Id(w)], ![w].rec = NewRecord(w)]
        /\ pc' = [pc EXCEPT ![w] = AfterRead(w)]
        /\ UNCHANGED <<req, pos>>
    BY <1>3 DEF Read, Goto
  <2>2. pc[w] = "read"
    BY DEF Read
  <2>3. version[Id(w)] \in Nat /\ NewRecord(w) \in OrderStatus
    BY <1>3, <2>2, ReadRow, LocalInvParts DEF DataTypes
  <2>4. tx[w] = NoTx
    BY <2>2, LocalInvParts DEF Shaped, TxShape, InTx
  <2>5. /\ tx' \in [Workers -> Tx]
        /\ tx'[w].rec = NewRecord(w) /\ tx'[w].lock = "none"
        /\ tx'[w].hist = "none" /\ tx'[w].task = "none"
    BY <2>1, <2>3, <2>4, NewSnapshot, LocalInvParts
  <2>6. /\ req[w].op = "deliver" => AfterRead(w) = "update"
        /\ req[w].op = "refund"  => AfterRead(w) = "history"
        /\ req[w].op = "return"  => AfterRead(w) = "delete"
    BY DEF AfterRead
  <2>7. WorkerTypes'
    BY <1>3, <2>1, <2>2, <2>5, <2>6, ReadRow, LocalInvParts
    DEF WorkerTypes, PCs, MaybeOrder
  <2>8. OnlyWorker(w)
    BY <2>1, LocalInvParts DEF WorkerTypes, OnlyWorker
  <2>9. /\ mem'[w] = Changed(w) /\ pc'[w] = AfterRead(w)
        /\ req'[w] = req[w] /\ pos'[w] = pos[w]
    BY <2>1, LocalInvParts DEF WorkerTypes
  <2>10. Shaped(w)
    BY LocalInvParts
  <2>11. OnAnOrder(w)' /\ CallShape(w)'
    BY <1>3, <2>2, <2>6, <2>9, <2>10, ReadRow
    DEF Shaped, OnAnOrder, CallShape, InTx
  <2>12. TxShape(w)'
    BY <1>3, <2>2, <2>5, <2>6, <2>9, ReadRow
    DEF TxShape, InTx, AcceptShape, DeliverShape, RefundShape, ReturnShape,
        WriteShape
  <2>13. QED
    BY <1>1, <2>7, <2>8, <2>11, <2>12, OneWorkerStep DEF Shaped
<1>4. QED
  BY <1>2, <1>3

LEMMA LocalHistory ==
  ASSUME LocalInv, NEW w \in Workers, AddHistoryRecord(w)
  PROVE  LocalInv'
<1> DEFINE t == [tx[w] EXCEPT !.hist = tx[w].rec,
                   !.lock = IF tx[w].lock = "none" THEN "share" ELSE tx[w].lock]
<1>1. DataTypes'
  BY LocalInvParts DEF DataTypes, AddHistoryRecord, dbVars
<1>2. CASE tx[w].lock = "none" /\ orders[Id(w)] = NoOrder
  BY <1>1, <1>2, LocalFail DEF AddHistoryRecord
<1>3. CASE ~(tx[w].lock = "none" /\ orders[Id(w)] = NoOrder)
  <2>1. t \in Tx
    BY LocalInvParts, TxRecord DEF WorkerTypes
  <2>2. tx' \in [Workers -> Tx]
    BY <1>3, <2>1, LocalInvParts DEF WorkerTypes, AddHistoryRecord
  <2>3. WorkerTypes'
    BY <1>3, <2>2, LocalInvParts DEF WorkerTypes, AddHistoryRecord, Goto, PCs
  <2>4. OnlyWorker(w)
    BY <1>3, LocalInvParts DEF WorkerTypes, OnlyWorker, AddHistoryRecord, Goto
  <2>5. Shaped(w)'
    BY <1>3, LocalInvParts
    DEF WorkerTypes, Shaped, OnAnOrder, TxShape, CallShape, InTx, AcceptShape,
        DeliverShape, RefundShape, ReturnShape, WriteShape, AddHistoryRecord,
        Goto, Tx
  <2>6. QED
    BY <1>1, <2>3, <2>4, <2>5, OneWorkerStep
<1>4. QED
  BY <1>2, <1>3

LEMMA LocalTask ==
  ASSUME LocalInv, NEW w \in Workers, AddTask(w)
  PROVE  LocalInv'
<1>1. DataTypes'
  BY LocalInvParts DEF DataTypes, AddTask, dbVars
<1>2. [tx[w] EXCEPT !.task = tx[w].rec] \in Tx
  BY LocalInvParts, TxTask DEF WorkerTypes
<1>3. WorkerTypes'
  BY <1>2, LocalInvParts DEF WorkerTypes, AddTask, Goto, PCs
<1>4. OnlyWorker(w)
  BY LocalInvParts DEF WorkerTypes, OnlyWorker, AddTask, Goto
<1>5. Shaped(w)'
  BY LocalInvParts
  DEF WorkerTypes, Shaped, OnAnOrder, TxShape, CallShape, InTx, AcceptShape,
      DeliverShape, RefundShape, ReturnShape, WriteShape, AddTask, Goto, Tx
<1>6. QED
  BY <1>1, <1>3, <1>4, <1>5, OneWorkerStep

LEMMA LocalDelete ==
  ASSUME LocalInv, NEW w \in Workers, Delete(w)
  PROVE  LocalInv'
<1>1. DataTypes'
  BY LocalInvParts DEF DataTypes, Delete, dbVars
<1>2. CASE Conflict(w)
  BY <1>1, <1>2, LocalFail DEF Delete
<1>3. CASE ~Conflict(w)
  <2>1. [tx[w] EXCEPT !.lock = "delete"] \in Tx
    BY LocalInvParts, TxLock DEF WorkerTypes, Locks
  <2>2. tx' \in [Workers -> Tx]
    BY <1>3, <2>1, LocalInvParts DEF WorkerTypes, Delete
  <2>3. WorkerTypes'
    BY <1>3, <2>2, LocalInvParts DEF WorkerTypes, Delete, Goto, PCs
  <2>4. OnlyWorker(w)
    BY <1>3, LocalInvParts DEF WorkerTypes, OnlyWorker, Delete, Goto
  <2>5. Shaped(w)'
    BY <1>3, LocalInvParts
    DEF WorkerTypes, Shaped, OnAnOrder, TxShape, CallShape, InTx, AcceptShape,
        DeliverShape, RefundShape, ReturnShape, WriteShape, Delete, Goto, Tx
  <2>6. QED
    BY <1>1, <2>3, <2>4, <2>5, OneWorkerStep
<1>4. QED
  BY <1>2, <1>3

(* What a transaction commits has the types of the tables.                 *)
LEMMA ApplyTypes ==
  ASSUME LocalInv, NEW w \in Workers, pc[w] = "commit", ApplyTx(w),
         UNCHANGED <<nextId, cache, now>>
  PROVE  DataTypes'
<1>1. Id(w) \in OrderId
  BY LocalInvParts, IdType DEF LocalInv, Shaped, OnAnOrder, InTx
<1>2. tx[w].hist \in OrderStatus /\ tx[w].task \in OrderStatus
      /\ mem[w] \in MaybeOrder
  BY LocalInvParts DEF WorkerTypes, Tx
<1>3. ASSUME NEW seq \in Seq(OrderStatus), NEW s \in OrderStatus
      PROVE  Logged(seq, s) \in Seq(OrderStatus)
  BY DEF Logged
<1>4. <<>> \in Seq(OrderStatus)
  OBVIOUS
<1>5. version' \in [OrderId -> Nat] /\ orders' \in [OrderId -> MaybeOrder]
  BY <1>1, <1>2, LocalInvParts DEF DataTypes, ApplyTx, MaybeOrder
<1>6. history' \in [OrderId -> Seq(OrderStatus)]
  BY <1>1, <1>2, <1>3, <1>4, LocalInvParts DEF DataTypes, ApplyTx
<1>7. enqueued' \in [OrderId -> Seq(OrderStatus)]
  BY <1>1, <1>2, <1>3, LocalInvParts DEF DataTypes, ApplyTx
<1>8. QED
  BY <1>5, <1>6, <1>7, LocalInvParts DEF DataTypes

LEMMA LocalCommit ==
  ASSUME LocalInv, NEW w \in Workers, Commit(w)
  PROVE  LocalInv'
<1>1. DataTypes'
  BY ApplyTypes DEF Commit
<1>2. WorkerTypes'
  BY LocalInvParts, NoTxType DEF WorkerTypes, Commit, Goto, PCs
<1>3. OnlyWorker(w)
  BY LocalInvParts DEF WorkerTypes, OnlyWorker, Commit, Goto
<1>4. Shaped(w)'
  BY LocalInvParts
  DEF WorkerTypes, Shaped, OnAnOrder, TxShape, CallShape, InTx, Commit, Goto
<1>5. QED
  BY <1>1, <1>2, <1>3, <1>4, OneWorkerStep

(* Every way a call can end with an error.                                 *)
LEMMA LocalError ==
  ASSUME LocalInv, NEW w \in Workers,
         \/ RejectPackaging(w) \/ UnknownAction(w)
         \/ FailStatement(w) \/ CommitUnacknowledged(w)
  PROVE  LocalInv'
<1>1. DataTypes'
  <2>1. CASE CommitUnacknowledged(w)
    BY <2>1, ApplyTypes DEF CommitUnacknowledged
  <2>2. CASE ~CommitUnacknowledged(w)
    BY <2>2, LocalInvParts
    DEF DataTypes, RejectPackaging, UnknownAction, FailStatement, dbVars
  <2>3. QED
    BY <2>1, <2>2
<1>2. Fail(w)
  BY DEF RejectPackaging, UnknownAction, FailStatement, CommitUnacknowledged
<1>3. QED
  BY <1>1, <1>2, LocalFail

LEMMA CacheTypes ==
  ASSUME LocalInv, NEW w \in Workers, pc[w] \in {"cacheSet", "cacheDel"},
         SetOrder(w) \/ DeleteOrder(w) \/ UNCHANGED cache,
         UNCHANGED <<dbVars, nextId, now>>
  PROVE  DataTypes'
<1>1. Id(w) \in OrderId
  BY LocalInvParts, IdType DEF LocalInv, Shaped, OnAnOrder, InTx
<1>2. mem[w] \in MaybeOrder
  BY LocalInvParts DEF WorkerTypes
<1>3. QED
  BY <1>1, <1>2, LocalInvParts
  DEF DataTypes, SetOrder, DeleteOrder, MaybeOrder, dbVars

LEMMA BeyondOne ==
  ASSUME NEW m \in Nat, NEW n \in Nat, m >= 1, m < n
  PROVE  n # 1
OBVIOUS

LEMMA LocalCacheSet ==
  ASSUME LocalInv, NEW w \in Workers, CacheSet(w)
  PROVE  LocalInv'
<1>1. DataTypes'
  BY CacheTypes DEF CacheSet
<1>2. OnlyWorker(w)
  BY LocalInvParts DEF WorkerTypes, OnlyWorker, CacheSet, NextOrder, Goto
<1>3. pc[w] = "cacheSet" /\ Shaped(w) /\ UNCHANGED <<req, tx>>
  BY LocalInvParts DEF CacheSet
<1>4. Len(req[w].ids) \in Nat /\ pos[w] \in Nat /\ pos[w] >= 1
  BY LocalInvParts DEF WorkerTypes, Request
<1>5. tx[w] = NoTx /\ pos[w] <= Len(req[w].ids)
  BY <1>3, <1>4 DEF Shaped, OnAnOrder, TxShape, InTx
<1>6. CASE pos[w] < Len(req[w].ids)
  <2>1. /\ pos' = [pos EXCEPT ![w] = @ + 1]
        /\ mem' = [mem EXCEPT ![w] = NoOrder]
        /\ pc' = [pc EXCEPT ![w] = "read"]
    BY <1>6 DEF CacheSet, NextOrder, Goto
  <2>2. WorkerTypes'
    BY <1>3, <1>4, <2>1, LocalInvParts DEF WorkerTypes, PCs, MaybeOrder
  <2>3. pos'[w] = pos[w] + 1 /\ pc'[w] = "read"
    BY <2>1, LocalInvParts DEF WorkerTypes
  <2>4. req[w].op \in {"deliver", "refund"}
    <3>1. Len(req[w].ids) # 1
      BY <1>4, <1>6, BeyondOne
    <3>2. CallShape(w)
      BY <1>3 DEF Shaped
    <3>3. QED
      BY <1>3, <3>1, <3>2 DEF CallShape
  <2>5. Shaped(w)'
    BY <1>3, <1>4, <1>5, <1>6, <2>3, <2>4
    DEF Shaped, OnAnOrder, TxShape, CallShape, InTx
  <2>6. QED
    BY <1>1, <1>2, <2>2, <2>5, OneWorkerStep
<1>7. CASE ~(pos[w] < Len(req[w].ids))
  <2>1. UNCHANGED <<pos, mem>> /\ pc' = [pc EXCEPT ![w] = "ok"]
    BY <1>7 DEF CacheSet, NextOrder, Goto
  <2>2. WorkerTypes'
    BY <1>3, <2>1, LocalInvParts DEF WorkerTypes, PCs
  <2>3. pc'[w] = "ok"
    BY <2>1, LocalInvParts DEF WorkerTypes
  <2>4. Shaped(w)'
    BY <1>3, <1>5, <2>3 DEF Shaped, OnAnOrder, TxShape, CallShape, InTx
  <2>5. QED
    BY <1>1, <1>2, <2>2, <2>4, OneWorkerStep
<1>8. QED
  BY <1>6, <1>7

LEMMA LocalCacheDel ==
  ASSUME LocalInv, NEW w \in Workers, CacheDel(w)
  PROVE  LocalInv'
<1>1. DataTypes'
  BY CacheTypes DEF CacheDel
<1>2. WorkerTypes'
  BY LocalInvParts DEF WorkerTypes, CacheDel, Goto, PCs
<1>3. OnlyWorker(w)
  BY LocalInvParts DEF WorkerTypes, OnlyWorker, CacheDel, Goto
<1>4. Shaped(w)'
  BY LocalInvParts
  DEF WorkerTypes, Shaped, OnAnOrder, TxShape, CallShape, InTx, CacheDel, Goto
<1>5. QED
  BY <1>1, <1>2, <1>3, <1>4, OneWorkerStep

LEMMA LocalFailCacheWrite ==
  ASSUME LocalInv, NEW w \in Workers, FailCacheWrite(w)
  PROVE  LocalInv'
<1>1. DataTypes'
  BY CacheTypes DEF FailCacheWrite
<1>2. CASE req[w].op # "get"
  BY <1>1, <1>2, LocalFail DEF FailCacheWrite
<1>3. CASE req[w].op = "get"
  <2>1. pc' = [pc EXCEPT ![w] = "ok"] /\ UNCHANGED <<req, pos, mem, tx>>
    BY <1>3 DEF FailCacheWrite, Goto
  <2>2. pc[w] \in {"cacheSet", "cacheDel"}
    BY DEF FailCacheWrite
  <2>3. WorkerTypes'
    BY <2>1, LocalInvParts DEF WorkerTypes, PCs
  <2>4. OnlyWorker(w)
    BY <2>1, LocalInvParts DEF WorkerTypes, OnlyWorker
  <2>5. Shaped(w)'
    BY <2>1, <2>2, LocalInvParts
    DEF WorkerTypes, Shaped, OnAnOrder, TxShape, CallShape, InTx
  <2>6. QED
    BY <1>1, <2>3, <2>4, <2>5, OneWorkerStep
<1>4. QED
  BY <1>2, <1>3

LEMMA LocalCacheGet ==
  ASSUME LocalInv, NEW w \in Workers, CacheGet(w) \/ FailCacheGet(w)
  PROVE  LocalInv'
<1>1. DataTypes'
  BY LocalInvParts DEF DataTypes, CacheGet, FailCacheGet, dbVars
<1>2. pc[w] = "cacheGet"
  BY DEF CacheGet, FailCacheGet
<1>3. Id(w) \in OrderId
  BY <1>2, LocalInvParts, IdType DEF LocalInv, Shaped, OnAnOrder
<1>4. cache[Id(w)] \in MaybeOrder
  BY <1>3, LocalInvParts DEF DataTypes
<1>5. WorkerTypes'
  BY <1>4, LocalInvParts DEF WorkerTypes, CacheGet, FailCacheGet, Goto, PCs
<1>6. OnlyWorker(w)
  BY LocalInvParts DEF WorkerTypes, OnlyWorker, CacheGet, FailCacheGet, Goto
<1>7. /\ pc'[w] \in {"ok", "dbRead"} /\ pos'[w] = pos[w]
      /\ req'[w] = req[w] /\ tx'[w] = tx[w]
  BY LocalInvParts DEF WorkerTypes, CacheGet, FailCacheGet, Goto
<1>8. Shaped(w)'
  BY <1>2, <1>7, LocalInvParts
  DEF Shaped, OnAnOrder, TxShape, CallShape, InTx
<1>9. QED
  BY <1>1, <1>5, <1>6, <1>8, OneWorkerStep

LEMMA LocalDbRead ==
  ASSUME LocalInv, NEW w \in Workers, DbRead(w)
  PROVE  LocalInv'
<1>1. DataTypes'
  BY LocalInvParts DEF DataTypes, DbRead, dbVars
<1>2. CASE ~Found(w)
  BY <1>1, <1>2, LocalFail DEF DbRead
<1>3. CASE Found(w)
  <2>1. pc[w] = "dbRead" /\ Id(w) \in OrderId
    BY LocalInvParts, IdType DEF LocalInv, Shaped, OnAnOrder, DbRead
  <2>2. orders[Id(w)] \in Order
    BY <1>3, <2>1, LocalInvParts DEF DataTypes, Found, MaybeOrder
  <2>3. WorkerTypes'
    BY <1>3, <2>2, LocalInvParts DEF WorkerTypes, DbRead, Goto, PCs, MaybeOrder
  <2>4. OnlyWorker(w)
    BY <1>3, LocalInvParts DEF WorkerTypes, OnlyWorker, DbRead, Goto
  <2>5. /\ pc'[w] = "cacheSet" /\ mem'[w] \in Order /\ pos'[w] = pos[w]
        /\ req'[w] = req[w] /\ tx'[w] = tx[w]
    BY <1>3, <2>2, LocalInvParts DEF WorkerTypes, DbRead, Goto
  <2>6. Shaped(w)'
    BY <2>1, <2>5, LocalInvParts
    DEF Shaped, OnAnOrder, TxShape, CallShape, InTx
  <2>7. QED
    BY <1>1, <2>3, <2>4, <2>6, OneWorkerStep
<1>4. QED
  BY <1>2, <1>3

LEMMA LocalCrash ==
  ASSUME LocalInv, Crash
  PROVE  LocalInv'
<1>1. DataTypes'
  BY LocalInvParts DEF DataTypes, Crash, dbVars
<1>2. WorkerTypes'
  BY NoTxType, NoRequestType DEF WorkerTypes, Crash, PCs, MaybeOrder
<1>3. ASSUME NEW v \in Workers PROVE Shaped(v)'
  BY NoRequestType DEF Shaped, OnAnOrder, TxShape, CallShape, InTx, Crash
<1>4. QED
  BY <1>1, <1>2, <1>3 DEF LocalInv, TypeOK, DataTypes, WorkerTypes, Shaped

LEMMA LocalIdle ==
  ASSUME LocalInv, Tick \/ UNCHANGED vars
  PROVE  LocalInv'
<1>1. DataTypes'
  BY LocalInvParts, ServiceAssumption
  DEF DataTypes, Tick, vars, dbVars, workerVars, ServiceAssumption
<1>2. UNCHANGED workerVars
  BY DEF Tick, vars
<1>3. WorkerTypes'
  BY <1>2, LocalInvParts DEF WorkerTypes, workerVars
<1>4. ASSUME NEW v \in Workers PROVE Shaped(v)'
  BY <1>2, LocalInvParts
  DEF workerVars, Shaped, OnAnOrder, TxShape, CallShape, InTx, AcceptShape,
      DeliverShape, RefundShape, ReturnShape, WriteShape
<1>5. QED
  BY <1>1, <1>3, <1>4 DEF LocalInv, TypeOK, DataTypes, WorkerTypes, Shaped

LEMMA LocalInit ==
  ASSUME Init
  PROVE  LocalInv
<1>1. DataTypes
  BY ServiceAssumption
  DEF Init, DataTypes, MaybeOrder, ServiceAssumption, OrderId
<1>2. WorkerTypes
  BY NoTxType, NoRequestType DEF Init, WorkerTypes, PCs, MaybeOrder
<1>3. ASSUME NEW v \in Workers PROVE Shaped(v)
  BY NoRequestType DEF Init, Shaped, OnAnOrder, TxShape, CallShape, InTx
<1>4. QED
  BY <1>1, <1>2, <1>3, LocalInvParts

LEMMA LocalStep ==
  ASSUME LocalInv, [Next]_vars
  PROVE  LocalInv'
<1>1. ASSUME NEW w \in Workers, Begin(w) PROVE LocalInv'
  BY <1>1, LocalAccept, LocalServe, LocalReturn, LocalGet, LocalError DEF Begin
<1>2. ASSUME NEW w \in Workers, Advance(w) PROVE LocalInv'
  BY <1>2, LocalAdd, LocalRead, LocalUpdate, LocalHistory, LocalTask,
     LocalDelete, LocalCommit, LocalCacheSet, LocalCacheDel, LocalCacheGet,
     LocalDbRead, LocalReply
  DEF Advance
<1>3. ASSUME NEW w \in Workers, Fault(w) PROVE LocalInv'
  BY <1>3, LocalError, LocalFailCacheWrite, LocalCacheGet DEF Fault
<1>4. QED
  BY <1>1, <1>2, <1>3, LocalCrash, LocalIdle DEF Next

(* TypeOK, for every number of workers and orders: the loops stay inside   *)
(* their lists, statements are sent for an order only, and everything      *)
(* stored is an order or a status.                                         *)
THEOREM TypeCorrect == Spec => []TypeOK
<1>1. Init => LocalInv
  BY LocalInit
<1>2. LocalInv /\ [Next]_vars => LocalInv'
  BY LocalStep
<1>3. LocalInv => TypeOK
  BY DEF LocalInv
<1>4. QED
  BY <1>1, <1>2, <1>3, PTL DEF Spec

-----------------------------------------------------------------------------
(* The audit trail.                                                        *)

LEMMA AppendToOne ==
  ASSUME NEW S, NEW a \in S, NEW b \in S
  PROVE  Append(<<a>>, b) = <<a, b>>
<1> DEFINE s == Append(<<a>>, b)
           t == <<a, b>>
<1>1. s \in Seq(S) /\ Len(s) = 2 /\ s[1] = a /\ s[2] = b
  OBVIOUS
<1>2. t \in Seq(S) /\ Len(t) = 2 /\ t[1] = a /\ t[2] = b
  OBVIOUS
<1> HIDE DEF s, t
<1>3. \A i \in 1 .. Len(s) : s[i] = t[i]
  BY <1>1, <1>2
<1>4. s = t
  BY <1>1, <1>2, <1>3, SeqEqual
<1>5. QED
  BY <1>4 DEF s, t

LEMMA AppendToTwo ==
  ASSUME NEW S, NEW a \in S, NEW b \in S, NEW c \in S
  PROVE  Append(<<a, b>>, c) = <<a, b, c>>
<1> DEFINE s == Append(<<a, b>>, c)
           t == <<a, b, c>>
<1>1. s \in Seq(S) /\ Len(s) = 3 /\ s[1] = a /\ s[2] = b /\ s[3] = c
  OBVIOUS
<1>2. t \in Seq(S) /\ Len(t) = 3 /\ t[1] = a /\ t[2] = b /\ t[3] = c
  OBVIOUS
<1> HIDE DEF s, t
<1>3. \A i \in 1 .. Len(s) : s[i] = t[i]
  BY <1>1, <1>2
<1>4. s = t
  BY <1>1, <1>2, <1>3, SeqEqual
<1>5. QED
  BY <1>4 DEF s, t

(* A record of the next status makes the trail of that status.             *)
LEMMA TrailStep ==
  /\ Logged(<<>>, "received") = TrailOf("received")
  /\ Logged(TrailOf("received"), "delivered") = TrailOf("delivered")
  /\ Logged(TrailOf("received"), "storage_ended") = TrailOf("storage_ended")
  /\ Logged(TrailOf("delivered"), "refunded") = TrailOf("refunded")
<1>1. Append(<<>>, "received") = <<"received">>
  OBVIOUS
<1>2. /\ "received" \in OrderStatus /\ "delivered" \in OrderStatus
      /\ "storage_ended" \in OrderStatus /\ "refunded" \in OrderStatus
  BY DEF OrderStatus
<1>3. Append(<<"received">>, "delivered") = <<"received", "delivered">>
  BY <1>2, AppendToOne
<1>4. Append(<<"received">>, "storage_ended") = <<"received", "storage_ended">>
  BY <1>2, AppendToOne
<1>5. Append(<<"received", "delivered">>, "refunded")
        = <<"received", "delivered", "refunded">>
  BY <1>2, AppendToTwo
<1>6. /\ TrailOf("received") = <<"received">>
      /\ TrailOf("delivered") = <<"received", "delivered">>
      /\ TrailOf("storage_ended") = <<"received", "storage_ended">>
      /\ TrailOf("refunded") = <<"received", "delivered", "refunded">>
  BY DEF TrailOf
<1>7. QED
  BY <1>1, <1>3, <1>4, <1>5, <1>6 DEF Logged

(* The conjuncts of Snapshots.                                             *)
RowKnown(w) ==
  pc[w] \in InTx =>
    IF req[w].op = "accept" THEN RowIsNew(w) ELSE RowAsRead(w)

LEMMA IdInTx ==
  ASSUME LocalInv, NEW w \in Workers, pc[w] \in InTx
  PROVE  Id(w) \in OrderId
BY LocalInvParts, IdType DEF LocalInv, Shaped, OnAnOrder

(* A step of w that writes nothing leaves the tables as they are and what  *)
(* the others know of them true.                                           *)
LEMMA NothingWritten ==
  ASSUME IInv, UNCHANGED <<dbVars, nextId>>
  PROVE  /\ RowsNumbered' /\ HistoryMatchesStatus' /\ AuditComplete'
         /\ \A w \in Workers :
              (OnlyWorker(w) =>
                 \A v \in Workers \ {w} :
                   RowKnown(v)' /\ Id(v)' = Id(v))
<1>1. RowsNumbered' /\ HistoryMatchesStatus' /\ AuditComplete'
  BY DEF IInv, dbVars, RowsNumbered, HistoryMatchesStatus, AuditComplete
<1>2. ASSUME NEW w \in Workers, OnlyWorker(w), NEW v \in Workers \ {w}
      PROVE  RowKnown(v)' /\ Id(v)' = Id(v)
  <2>1. /\ pc'[v] = pc[v] /\ req'[v] = req[v] /\ pos'[v] = pos[v]
        /\ mem'[v] = mem[v] /\ tx'[v] = tx[v]
    BY <1>2 DEF OnlyWorker
  <2>2. Id(v)' = Id(v)
    BY <2>1 DEF Id
  <2>3. RowKnown(v)
    BY DEF IInv, Snapshots, RowKnown
  <2>4. QED
    BY <2>1, <2>2, <2>3 DEF RowKnown, RowIsNew, RowAsRead, dbVars
<1>3. QED
  BY <1>1, <1>2

(* A step after which w is in no transaction.                              *)
LEMMA AuditLeave ==
  ASSUME IInv, LocalInv', NEW w \in Workers, OnlyWorker(w), pc'[w] \notin InTx,
         UNCHANGED <<dbVars, nextId>>
  PROVE  IInv'
<1>1. Snapshots'
  BY NothingWritten DEF Snapshots, RowKnown
<1>2. LocksExclude'
  BY NothingWritten DEF IInv, LocksExclude, OnlyWorker
<1>3. QED
  BY <1>1, <1>2, NothingWritten DEF IInv

(* A statement that goes on with a transaction.  It takes an exclusive     *)
(* lock only if nobody else has it and the row is still the one read.      *)
(* Nobody else holds a lock on the row that an UPDATE or DELETE waits for.  *)
Unlocked(w) ==
  \A v \in Workers : v # w /\ tx[v].lock \in {"update", "delete"} => Id(v) # Id(w)

LEMMA AuditStay ==
  ASSUME IInv, LocalInv', NEW w \in Workers, OnlyWorker(w), pc[w] \in InTx,
         UNCHANGED <<dbVars, nextId, req, pos>>,
         tx'[w].ver = tx[w].ver,
         \/ tx'[w].lock \notin Exclusive
         \/ tx[w].lock \in Exclusive
         \/ /\ req[w].op # "accept"
            /\ version[Id(w)] = tx[w].ver
            /\ Unlocked(w)
  PROVE  IInv'
<1>1. Id(w)' = Id(w)
  BY DEF Id
<1>2. RowKnown(w)
  BY DEF IInv, Snapshots, RowKnown
<1>3. RowKnown(w)'
  BY <1>1, <1>2 DEF RowKnown, RowIsNew, RowAsRead, dbVars
<1>4. Snapshots'
  BY <1>3, NothingWritten DEF Snapshots, RowKnown
<1>5. ASSUME NEW v \in Workers, v # w, pc[v] \in InTx, Id(v) = Id(w),
             tx[v].lock \in Exclusive, tx'[w].lock \in Exclusive
      PROVE  FALSE
  <2>1. CASE tx[w].lock \in Exclusive
    BY <1>5, <2>1 DEF IInv, LocksExclude
  <2>2. CASE /\ req[w].op # "accept"
             /\ version[Id(w)] = tx[w].ver
             /\ Unlocked(w)
    <3>1. tx[v].lock = "insert"
      BY <1>5, <2>2 DEF Unlocked, Exclusive
    <3>2. version[Id(w)] = 0
      BY <1>5, <3>1
      DEF IInv, LocalInv, TxShape, AcceptShape, DeliverShape, RefundShape,
          ReturnShape, Snapshots, RowIsNew
    <3>3. Id(w) \in OrderId /\ version[Id(w)] \in Nat
      BY IdInTx, LocalInvParts DEF IInv, DataTypes
    <3>4. tx[w].ver \in 1 .. version[Id(w)]
      BY <1>2, <2>2 DEF RowKnown, RowAsRead
    <3>5. QED
      BY <3>2, <3>3, <3>4
  <2>3. QED
    BY <1>5, <2>1, <2>2
<1>6. LocksExclude'
  BY <1>1, <1>5, NothingWritten DEF IInv, LocksExclude, OnlyWorker
<1>7. QED
  BY <1>4, <1>6, NothingWritten DEF IInv

LEMMA AuditRead ==
  ASSUME IInv, LocalInv', NEW w \in Workers, Read(w)
  PROVE  IInv'
<1>1. UNCHANGED <<dbVars, nextId>>
  BY DEF Read
<1>2. OnlyWorker(w)
  BY LocalInvParts DEF IInv, WorkerTypes, OnlyWorker, Read, Fail, Goto
<1>3. CASE ~(Found(w) /\ ~Refused(w))
  <2>1. pc'[w] = "error"
    BY <1>3, LocalInvParts DEF IInv, WorkerTypes, Read, Fail, Goto
  <2>2. QED
    BY <1>1, <1>2, <2>1, AuditLeave DEF InTx
<1>4. CASE Found(w) /\ ~Refused(w)
  <2>1. /\ pc[w] = "read"
        /\ tx' = [tx EXCEPT ![w].ver = version[Id(w)], ![w].rec = NewRecord(w)]
        /\ UNCHANGED <<req, pos>>
    BY <1>4 DEF Read
  <2>2. /\ Id(w) \in OrderId /\ orders[Id(w)] # NoOrder
        /\ req[w].op \in {"deliver", "refund", "return"}
        /\ req[w].op = "deliver" => orders[Id(w)].status = "received"
        /\ req[w].op = "refund" => orders[Id(w)].status = "delivered"
    BY <1>4, <2>1, ReadRow, NoOrderIsNoOrder DEF IInv
  <2>3. version[Id(w)] \in Nat /\ version[Id(w)] # 0
    BY <2>2, LocalInvParts DEF IInv, DataTypes, RowsNumbered
  <2>4. tx[w] = NoTx
    BY <2>1, LocalInvParts DEF IInv, Shaped, TxShape, InTx
  <2>5. tx'[w].ver = version[Id(w)] /\ tx'[w].lock = "none"
    BY <2>1, <2>4, LocalInvParts DEF IInv, WorkerTypes, NoTx, Tx
  <2>6. Id(w)' = Id(w)
    BY <2>1 DEF Id
  <2>7. RowAsRead(w)'
    BY <1>1, <2>1, <2>2, <2>3, <2>5, <2>6 DEF RowAsRead, dbVars, Exclusive
  <2>8. Snapshots'
    BY <1>1, <1>2, <2>1, <2>2, <2>7, NothingWritten DEF Snapshots, RowKnown
  <2>9. LocksExclude'
    BY <1>1, <1>2, <2>5, NothingWritten
    DEF IInv, LocksExclude, OnlyWorker, Exclusive
  <2>10. QED
    BY <1>1, <2>8, <2>9, NothingWritten DEF IInv
<1>5. QED
  BY <1>3, <1>4

(* Update, AddHistoryRecord, AddTask and Delete.                           *)
LEMMA AuditStatement ==
  ASSUME IInv, LocalInv', NEW w \in Workers,
         Update(w) \/ AddHistoryRecord(w) \/ AddTask(w) \/ Delete(w)
  PROVE  IInv'
<1>1. UNCHANGED <<dbVars, nextId>>
  BY DEF Update, AddHistoryRecord, AddTask, Delete
<1>2. OnlyWorker(w)
  BY LocalInvParts
  DEF IInv, WorkerTypes, OnlyWorker, Update, AddHistoryRecord, AddTask, Delete,
      Fail, Goto
<1>3. pc[w] \in InTx
  BY DEF Update, AddHistoryRecord, AddTask, Delete, InTx
<1>4. CASE Fail(w)
  <2>1. pc'[w] = "error"
    BY <1>4, LocalInvParts DEF IInv, WorkerTypes, Fail, Goto
  <2>2. QED
    BY <1>1, <1>2, <2>1, AuditLeave DEF InTx
<1>5. CASE ~Fail(w)
  <2>1. UNCHANGED <<req, pos>>
    BY <1>5 DEF Update, AddHistoryRecord, AddTask, Delete
  <2>2. tx'[w].ver = tx[w].ver
    BY <1>5, LocalInvParts
    DEF IInv, WorkerTypes, Tx, Update, AddHistoryRecord, AddTask, Delete
  <2>3. CASE AddHistoryRecord(w) \/ AddTask(w)
    <3>1. tx'[w].lock = tx[w].lock \/ tx'[w].lock = "share"
      BY <1>5, <2>3, LocalInvParts
      DEF IInv, WorkerTypes, Tx, AddHistoryRecord, AddTask
    <3>2. tx'[w].lock \notin Exclusive \/ tx[w].lock \in Exclusive
      BY <3>1 DEF Exclusive
    <3>3. QED
      BY <1>1, <1>2, <1>3, <2>1, <2>2, <3>2, AuditStay
  <2>4. CASE Update(w) \/ Delete(w)
    <3>1. version[Id(w)] = tx[w].ver
      BY <1>5, <2>4 DEF Update, Delete, Conflict
    <3>2. Unlocked(w)
      BY <2>4 DEF Update, Delete, Blocked, WaitsFor, Conflicting, Unlocked
    <3>3. req[w].op # "accept"
      BY <2>4, LocalInvParts
      DEF IInv, Shaped, TxShape, AcceptShape, InTx, Update, Delete
    <3>4. QED
      BY <1>1, <1>2, <1>3, <2>1, <2>2, <3>1, <3>2, <3>3, AuditStay
  <2>5. QED
    BY <2>3, <2>4
<1>6. QED
  BY <1>4, <1>5

(* The id of a new row is one nobody has used.                             *)
LEMMA AuditAdd ==
  ASSUME IInv, LocalInv', NEW w \in Workers, Add(w)
  PROVE  IInv'
<1>1. OnlyWorker(w)
  BY LocalInvParts DEF IInv, WorkerTypes, OnlyWorker, Add, Fail, Goto
<1>2. UNCHANGED dbVars /\ pc[w] = "add"
  BY DEF Add
<1>3. CASE ~(nextId <= MaxOrders)
  <2>1. pc'[w] = "error" /\ UNCHANGED nextId
    BY <1>3, LocalInvParts DEF IInv, WorkerTypes, Add, Fail, Goto
  <2>2. QED
    BY <1>1, <1>2, <2>1, AuditLeave DEF InTx
<1>4. CASE nextId <= MaxOrders
  <2>1. /\ nextId' = nextId + 1 /\ pos' = pos
        /\ req' = [req EXCEPT ![w].ids = <<nextId>>]
        /\ nextId \in OrderId /\ nextId \in Nat
    BY <1>4, LocalInvParts, ServiceAssumption
    DEF IInv, DataTypes, OrderId, ServiceAssumption, Add
  <2>2. pos[w] = 1 /\ req[w].op = "accept"
    BY <1>2, LocalInvParts DEF IInv, Shaped, CallShape
  <2>3. Id(w)' = nextId /\ req'[w].op = "accept"
    BY <2>1, <2>2, LocalInvParts DEF IInv, WorkerTypes, Request, Id
  <2>4. version[nextId] = 0
    BY <2>1 DEF IInv, RowsNumbered
  <2>5. RowIsNew(w)'
    BY <1>2, <2>1, <2>3, <2>4 DEF RowIsNew, dbVars
  <2>6. ASSUME NEW v \in Workers \ {w}, pc[v] \in InTx
        PROVE  /\ RowKnown(v)' /\ Id(v)' = Id(v)
               /\ tx[v].lock \in Exclusive => Id(v) # nextId
    <3>1. /\ pc'[v] = pc[v] /\ req'[v] = req[v] /\ pos'[v] = pos[v]
          /\ mem'[v] = mem[v] /\ tx'[v] = tx[v]
      BY <1>1 DEF OnlyWorker
    <3>2. Id(v)' = Id(v)
      BY <3>1 DEF Id
    <3>3. Id(v) \in OrderId /\ Id(v) \in Nat
      BY <2>6, IdInTx, OneOrder DEF IInv
    <3>4. RowKnown(v)
      BY DEF IInv, Snapshots, RowKnown
    <3>5. CASE req[v].op = "accept"
      <4>1. Id(v) < nextId
        BY <2>6, <3>4, <3>5 DEF RowKnown, RowIsNew
      <4>2. QED
        BY <1>2, <2>1, <2>6, <3>1, <3>2, <3>3, <3>4, <3>5, <4>1
        DEF RowKnown, RowIsNew, dbVars
    <3>6. CASE req[v].op # "accept"
      <4>1. RowAsRead(v)
        BY <2>6, <3>4, <3>6 DEF RowKnown
      <4>2. version[Id(v)] \in Nat /\ tx[v].ver \in 1 .. version[Id(v)]
        BY <3>3, <4>1, LocalInvParts DEF IInv, DataTypes, RowAsRead
      <4>3. Id(v) # nextId
        BY <2>4, <4>2
      <4>4. RowAsRead(v)'
        BY <1>2, <3>1, <3>2, <4>1 DEF RowAsRead, dbVars
      <4>5. QED
        BY <3>1, <3>2, <3>6, <4>3, <4>4 DEF RowKnown
    <3>7. QED
      BY <3>5, <3>6
  <2>7. Snapshots'
    BY <2>3, <2>5, <2>6, <1>1 DEF Snapshots, RowKnown, OnlyWorker
  <2>8. LocksExclude'
    BY <1>1, <2>3, <2>6 DEF IInv, LocksExclude, OnlyWorker
  <2>9. RowsNumbered'
    BY <1>2, <2>1, OneOrder DEF IInv, RowsNumbered, dbVars
  <2>10. HistoryMatchesStatus' /\ AuditComplete'
    BY <1>2 DEF IInv, HistoryMatchesStatus, AuditComplete, dbVars
  <2>11. QED
    BY <2>7, <2>8, <2>9, <2>10 DEF IInv
<1>5. QED
  BY <1>3, <1>4

(* What a commit does to the row of its order, read off the lock it holds. *)
LEMMA CommittedRow ==
  ASSUME IInv, NEW w \in Workers, pc[w] = "commit", ApplyTx(w)
  PROVE  LET i == Id(w) IN
         /\ i \in OrderId /\ i < nextId
         /\ version[i] \in Nat
         /\ version' = [version EXCEPT ![i] = version[i] + 1]
         /\ tx[w].lock \in Exclusive
         /\ \/ /\ orders'[i] = NoOrder /\ history'[i] = <<>>
               /\ orders[i] # NoOrder /\ enqueued'[i] = enqueued[i]
            \/ /\ orders'[i] # NoOrder
               /\ history'[i] = TrailOf(orders'[i].status)
               /\ enqueued'[i] = history'[i]
               /\ enqueued'[i] = Append(enqueued[i], orders'[i].status)
               /\ \/ /\ orders[i] = NoOrder /\ version[i] = 0
                     /\ orders'[i].status = "received"
                  \/ /\ orders[i] # NoOrder
                     /\ <<orders[i].status, orders'[i].status>>
                           \in Lifecycle!Forward
<1> DEFINE i == Id(w)
<1>1. i \in OrderId /\ i \in Nat /\ version[i] \in Nat /\ nextId \in Nat
  <2>1. i \in OrderId
    BY IdInTx DEF IInv, InTx
  <2>2. nextId \in Nat
    BY LocalInvParts, ServiceAssumption DEF IInv, DataTypes, ServiceAssumption
  <2>3. QED
    BY <2>1, <2>2, OneOrder, LocalInvParts DEF IInv, DataTypes
<1>2. version' = [version EXCEPT ![i] = version[i] + 1]
  BY DEF ApplyTx
<1>3. /\ orders'[i] = IF tx[w].lock = "delete" THEN NoOrder ELSE mem[w]
      /\ history'[i] = IF tx[w].lock = "delete" THEN <<>>
                       ELSE Logged(history[i], tx[w].hist)
      /\ enqueued'[i] = Logged(enqueued[i], tx[w].task)
  BY <1>1, LocalInvParts DEF IInv, DataTypes, ApplyTx
<1>4. TxShape(w) /\ RowKnown(w) /\ pc[w] \in InTx
  BY DEF IInv, LocalInv, Snapshots, RowKnown, InTx
<1>5. /\ orders[i] = NoOrder => history[i] = <<>>
      /\ orders[i] # NoOrder => /\ history[i] = TrailOf(orders[i].status)
                                /\ enqueued[i] = history[i]
  BY <1>1 DEF IInv, HistoryMatchesStatus, AuditComplete
<1>6. version[i] # 0 => i < nextId
  BY <1>1 DEF IInv, RowsNumbered
<1>7. mem[w] # NoOrder /\ req[w].op \in {"accept", "deliver", "refund", "return"}
  BY <1>4, NoOrderIsNoOrder DEF TxShape
<1>8. req[w].op # "return" =>
        tx[w].hist = mem[w].status /\ tx[w].task = mem[w].status
  BY <1>4 DEF TxShape, WriteShape
<1>9. CASE req[w].op = "accept"
  <2>1. tx[w].lock = "insert" /\ mem[w].status = "received"
    BY <1>4, <1>9 DEF TxShape, AcceptShape
  <2>2. i < nextId /\ version[i] = 0
    BY <1>4, <1>9 DEF RowKnown, RowIsNew
  <2>3. history[i] = <<>> /\ enqueued[i] = <<>>
    BY <1>1, <1>5, <2>2 DEF IInv, RowsNumbered
  <2>4. QED
    BY <1>1, <1>2, <1>3, <1>7, <1>8, <1>9, <2>1, <2>2, <2>3, TrailStep
    DEF Exclusive, Logged, RowsNumbered, IInv
<1>10. CASE req[w].op \in {"deliver", "refund"}
  <2>1. tx[w].lock = "update"
    BY <1>4, <1>10 DEF TxShape, DeliverShape, RefundShape
  <2>2. RowAsRead(w)
    BY <1>4, <1>10 DEF RowKnown
  <2>3. version[i] = tx[w].ver /\ version[i] # 0
    BY <1>1, <2>1, <2>2 DEF RowAsRead, Exclusive
  <2>4. orders[i] # NoOrder
    BY <2>2, <2>3 DEF RowAsRead
  <2>5. /\ Logged(TrailOf(orders[i].status), mem[w].status) = TrailOf(mem[w].status)
        /\ <<orders[i].status, mem[w].status>> \in Lifecycle!Forward
        /\ mem[w].status # "none"
    <3>1. CASE req[w].op = "deliver"
      <4>1. orders[i].status = "received"
        BY <2>2, <2>3, <3>1 DEF RowAsRead
      <4>2. mem[w].status \in {"delivered", "storage_ended"}
        BY <1>4, <3>1 DEF TxShape, DeliverShape
      <4>3. QED
        BY <4>1, <4>2, TrailStep DEF Lifecycle!Forward
    <3>2. CASE req[w].op = "refund"
      <4>1. orders[i].status = "delivered"
        BY <2>2, <2>3, <3>2 DEF RowAsRead
      <4>2. mem[w].status = "refunded"
        BY <1>4, <3>2 DEF TxShape, RefundShape
      <4>3. QED
        BY <4>1, <4>2, TrailStep DEF Lifecycle!Forward
    <3>3. QED
      BY <1>10, <3>1, <3>2
  <2>6. QED
    BY <1>1, <1>2, <1>3, <1>5, <1>6, <1>7, <1>8, <1>10, <2>1, <2>3, <2>4, <2>5
    DEF Exclusive, Logged
<1>11. CASE req[w].op = "return"
  <2>1. tx[w].lock = "delete"
    BY <1>4, <1>11 DEF TxShape, ReturnShape
  <2>2. RowAsRead(w)
    BY <1>4, <1>11 DEF RowKnown
  <2>3. version[i] # 0 /\ orders[i] # NoOrder
    BY <1>1, <2>1, <2>2 DEF RowAsRead, Exclusive
  <2>4. tx[w].task = "none"
    BY <1>4, <1>11 DEF TxShape, ReturnShape
  <2>5. QED
    BY <1>1, <1>2, <1>3, <1>6, <2>1, <2>3, <2>4 DEF Exclusive, Logged
<1>12. QED
  BY <1>7, <1>9, <1>10, <1>11

LEMMA AuditCommit ==
  ASSUME IInv, LocalInv', NEW w \in Workers, pc[w] = "commit", ApplyTx(w),
         OnlyWorker(w), pc'[w] \notin InTx, UNCHANGED nextId
  PROVE  IInv'
<1> DEFINE i == Id(w)
<1>1. /\ i \in OrderId /\ i < nextId /\ version[i] \in Nat
      /\ version' = [version EXCEPT ![i] = version[i] + 1]
      /\ tx[w].lock \in Exclusive
      /\ \/ orders'[i] = NoOrder /\ history'[i] = <<>>
         \/ /\ orders'[i] # NoOrder
            /\ history'[i] = TrailOf(orders'[i].status)
            /\ enqueued'[i] = history'[i]
            /\ orders'[i].status # "none"
  BY CommittedRow DEF Lifecycle!Forward
<1>2. ASSUME NEW k \in OrderId, k # i
      PROVE  /\ orders'[k] = orders[k] /\ history'[k] = history[k]
             /\ enqueued'[k] = enqueued[k] /\ version'[k] = version[k]
  BY <1>2, LocalInvParts DEF IInv, DataTypes, ApplyTx
<1>3. version'[i] = version[i] + 1
  BY <1>1, LocalInvParts DEF IInv, DataTypes
<1>4. HistoryMatchesStatus' /\ AuditComplete'
  BY <1>1, <1>2 DEF IInv, HistoryMatchesStatus, AuditComplete
<1>5. RowsNumbered'
  <2>1. ASSUME NEW k \in OrderId
        PROVE  /\ k >= nextId' => version'[k] = 0
               /\ version'[k] = 0 => orders'[k] = NoOrder /\ enqueued'[k] = <<>>
               /\ orders'[k] # NoOrder => orders'[k].status # "none"
    <3>1. CASE k = i
      <4>1. k \in Nat /\ nextId \in Nat
        BY OneOrder, LocalInvParts, ServiceAssumption
        DEF IInv, DataTypes, ServiceAssumption
      <4>2. QED
        BY <1>1, <1>3, <3>1, <4>1
    <3>2. CASE k # i
      BY <1>2, <3>2 DEF IInv, RowsNumbered
    <3>3. QED
      BY <3>1, <3>2
  <2>2. QED
    BY <2>1 DEF RowsNumbered
<1>6. ASSUME NEW v \in Workers \ {w}, pc[v] \in InTx
      PROVE  RowKnown(v)' /\ Id(v)' = Id(v)
  <2>1. /\ pc'[v] = pc[v] /\ req'[v] = req[v] /\ pos'[v] = pos[v]
        /\ mem'[v] = mem[v] /\ tx'[v] = tx[v]
    BY DEF OnlyWorker
  <2>2. Id(v)' = Id(v) /\ Id(v) \in OrderId
    BY <1>6, <2>1, IdInTx DEF Id, IInv
  <2>3. RowKnown(v)
    BY DEF IInv, Snapshots, RowKnown
  <2>4. CASE Id(v) # i
    BY <1>2, <2>1, <2>2, <2>3, <2>4 DEF RowKnown, RowIsNew, RowAsRead
  <2>5. CASE Id(v) = i
    <3>1. tx[v].lock \notin Exclusive
      BY <1>1, <1>6, <2>5 DEF IInv, LocksExclude, InTx
    <3>2. req[v].op # "accept"
      BY <1>6, <3>1 DEF IInv, LocalInv, TxShape, AcceptShape, Exclusive
    <3>3. tx[v].ver \in 1 .. version[i]
      BY <1>6, <2>3, <2>5, <3>2 DEF RowKnown, RowAsRead
    <3>4. tx[v].ver \in 1 .. version'[i] /\ version'[i] # tx[v].ver
      BY <1>1, <1>3, <3>3
    <3>5. QED
      BY <2>1, <2>2, <2>5, <3>1, <3>2, <3>4 DEF RowKnown, RowAsRead
  <2>6. QED
    BY <2>2, <2>4, <2>5
<1>7. Snapshots'
  BY <1>6 DEF Snapshots, RowKnown, OnlyWorker
<1>8. LocksExclude'
  BY <1>6 DEF IInv, LocksExclude, OnlyWorker
<1>9. QED
  BY <1>4, <1>5, <1>7, <1>8 DEF IInv

LEMMA AuditInit ==
  ASSUME Init
  PROVE  IInv
<1>1. LocalInv
  BY LocalInit
<1>2. Snapshots /\ LocksExclude
  BY DEF Init, Snapshots, LocksExclude, InTx
<1>3. RowsNumbered /\ HistoryMatchesStatus /\ AuditComplete
  BY DEF Init, RowsNumbered, HistoryMatchesStatus, AuditComplete
<1>4. QED
  BY <1>1, <1>2, <1>3 DEF IInv

LEMMA AuditStep ==
  ASSUME IInv, [Next]_vars
  PROVE  IInv'
<1>1. LocalInv'
  BY LocalStep DEF IInv
<1>2. WorkerTypes
  BY LocalInvParts DEF IInv
<1>3. ASSUME NEW w \in Workers, Begin(w) PROVE IInv'
  <2>1. UNCHANGED <<dbVars, nextId>> /\ OnlyWorker(w)
    BY <1>2, <1>3
    DEF WorkerTypes, OnlyWorker, Begin, AcceptFromCourier, RejectPackaging,
        ServeRecipient, UnknownAction, ReturnToCourier, GetOrderByID, Call,
        Fail, Goto
  <2>2. pc'[w] \notin InTx
    BY <1>2, <1>3
    DEF WorkerTypes, Begin, AcceptFromCourier, RejectPackaging,
        ServeRecipient, UnknownAction, ReturnToCourier, GetOrderByID, Call,
        Fail, Goto, InTx
  <2>3. QED
    BY <1>1, <2>1, <2>2, AuditLeave
<1>4. ASSUME NEW w \in Workers,
             \/ CacheSet(w) \/ CacheDel(w) \/ CacheGet(w) \/ DbRead(w)
             \/ Reply(w) \/ FailStatement(w) \/ FailCacheWrite(w)
             \/ FailCacheGet(w)
      PROVE  IInv'
  <2>1. UNCHANGED <<dbVars, nextId>> /\ OnlyWorker(w)
    BY <1>2, <1>4
    DEF WorkerTypes, OnlyWorker, CacheSet, NextOrder, CacheDel, CacheGet,
        DbRead, Reply, FailStatement, FailCacheWrite, FailCacheGet, Fail, Goto
  <2>2. pc'[w] \notin InTx
    BY <1>2, <1>4
    DEF WorkerTypes, CacheSet, NextOrder, CacheDel, CacheGet, DbRead, Reply,
        FailStatement, FailCacheWrite, FailCacheGet, Fail, Goto, InTx
  <2>3. QED
    BY <1>1, <2>1, <2>2, AuditLeave
<1>5. ASSUME NEW w \in Workers, Commit(w) \/ CommitUnacknowledged(w)
      PROVE  IInv'
  <2>1. OnlyWorker(w)
    BY <1>2, <1>5
    DEF WorkerTypes, OnlyWorker, Commit, CommitUnacknowledged, Fail, Goto
  <2>2. pc'[w] \notin InTx
    BY <1>2, <1>5
    DEF WorkerTypes, Commit, CommitUnacknowledged, Fail, Goto, InTx
  <2>3. pc[w] = "commit" /\ ApplyTx(w) /\ UNCHANGED nextId
    BY <1>5 DEF Commit, CommitUnacknowledged
  <2>4. QED
    BY <1>1, <2>1, <2>2, <2>3, AuditCommit
<1>6. ASSUME NEW w \in Workers, Advance(w) \/ Fault(w) PROVE IInv'
  BY <1>1, <1>4, <1>5, <1>6, AuditAdd, AuditRead, AuditStatement
  DEF Advance, Fault
<1>7. CASE Crash
  <2>1. UNCHANGED <<dbVars, nextId>> /\ \A v \in Workers : pc'[v] \notin InTx
    BY <1>7 DEF Crash, InTx
  <2>2. Snapshots' /\ LocksExclude'
    BY <2>1 DEF Snapshots, LocksExclude
  <2>3. QED
    BY <1>1, <2>1, <2>2, NothingWritten DEF IInv
<1>8. CASE Tick \/ UNCHANGED vars
  <2>1. UNCHANGED <<dbVars, nextId, workerVars>>
    BY <1>8 DEF Tick, vars
  <2>2. Snapshots' /\ LocksExclude'
    BY <2>1
    DEF IInv, workerVars, dbVars, Snapshots, RowIsNew, RowAsRead, LocksExclude,
        Id
  <2>3. QED
    BY <1>1, <2>1, <2>2, NothingWritten DEF IInv
<1>9. QED
  BY <1>3, <1>6, <1>7, <1>8 DEF Next

(* For any number of concurrent calls and any failures: the history of an  *)
(* order tells the way to its status, and every step of it has its outbox  *)
(* task.                                                                   *)
THEOREM AuditCorrect == Spec => [](HistoryMatchesStatus /\ AuditComplete)
<1>1. Init => IInv
  BY AuditInit
<1>2. IInv /\ [Next]_vars => IInv'
  BY AuditStep
<1>3. IInv => HistoryMatchesStatus /\ AuditComplete
  BY DEF IInv
<1>4. QED
  BY <1>1, <1>2, <1>3, PTL DEF Spec

-----------------------------------------------------------------------------
(* The service implements OrderLifecycle.                                  *)

(* A commit is one step of the abstract life of one order.                 *)
LEMMA CommitIsLifeStep ==
  ASSUME IInv, NEW w \in Workers, pc[w] = "commit", ApplyTx(w)
  PROVE  Lifecycle!Next
<1> DEFINE i == Id(w)
           st == LifeStatus[i]
           s  == IF orders'[i] = NoOrder THEN "gone" ELSE orders'[i].status
<1>1. i \in OrderId /\ version[i] \in Nat
  BY CommittedRow
<1>2. version'[i] = version[i] + 1 /\ version'[i] # 0
  BY <1>1, LocalInvParts DEF IInv, DataTypes, ApplyTx
<1>3. ASSUME NEW k \in OrderId, k # i
      PROVE  /\ orders'[k] = orders[k] /\ enqueued'[k] = enqueued[k]
             /\ version'[k] = version[k]
  BY <1>3, LocalInvParts DEF IInv, DataTypes, ApplyTx
<1>4. LifeStatus' = [LifeStatus EXCEPT ![i] = s]
  BY <1>1, <1>2, <1>3 DEF LifeStatus
<1>5. /\ st = IF orders[i] # NoOrder THEN orders[i].status
              ELSE IF version[i] = 0 THEN "none" ELSE "gone"
  BY <1>1 DEF LifeStatus
<1>6. enqueued' = [enqueued EXCEPT ![i] = enqueued'[i]]
  BY <1>1, LocalInvParts DEF IInv, DataTypes, ApplyTx
<1>7. CASE /\ orders'[i] = NoOrder /\ orders[i] # NoOrder
           /\ enqueued'[i] = enqueued[i]
  <2>1. orders[i].status \in OrderStatus /\ orders[i].status # "none"
    BY <1>1, <1>7, LocalInvParts
    DEF IInv, DataTypes, MaybeOrder, Order, RowsNumbered
  <2>2. st \notin {"none", "gone"}
    BY <1>5, <1>7, <2>1 DEF OrderStatus
  <2>3. LifeStatus' = [LifeStatus EXCEPT ![i] = "gone"]
    BY <1>4, <1>7
  <2>4. enqueued' = enqueued
    BY <1>6, <1>7, <1>1, LocalInvParts DEF IInv, DataTypes
  <2>5. Lifecycle!Leave(i)
    BY <2>2, <2>3, <2>4 DEF Lifecycle!Leave
  <2>6. QED
    BY <1>1, <2>5 DEF Lifecycle!Next
<1>8. CASE /\ orders'[i] # NoOrder /\ orders[i] = NoOrder /\ version[i] = 0
           /\ orders'[i].status = "received"
           /\ enqueued'[i] = Append(enqueued[i], orders'[i].status)
  <2>1. st = "none" /\ LifeStatus' = [LifeStatus EXCEPT ![i] = "received"]
    BY <1>4, <1>5, <1>8
  <2>2. enqueued' = [enqueued EXCEPT ![i] = Append(@, "received")]
    BY <1>6, <1>8
  <2>3. Lifecycle!Enter(i)
    BY <2>1, <2>2 DEF Lifecycle!Enter, Lifecycle!Announce
  <2>4. QED
    BY <1>1, <2>3 DEF Lifecycle!Next
<1>9. CASE /\ orders'[i] # NoOrder /\ orders[i] # NoOrder
           /\ <<orders[i].status, orders'[i].status>> \in Lifecycle!Forward
           /\ enqueued'[i] = Append(enqueued[i], orders'[i].status)
  <2>1. /\ st = orders[i].status
        /\ LifeStatus' = [LifeStatus EXCEPT ![i] = orders'[i].status]
    BY <1>4, <1>5, <1>9
  <2>2. enqueued' = [enqueued EXCEPT ![i] = Append(@, orders'[i].status)]
    BY <1>6, <1>9
  <2>3. orders'[i].status \in {"delivered", "storage_ended", "refunded"}
    BY <1>9 DEF Lifecycle!Forward
  <2>4. Lifecycle!Announce(i, orders'[i].status)
    BY <2>1, <2>2 DEF Lifecycle!Announce
  <2>5. Lifecycle!Move(i)
    BY <1>9, <2>1, <2>3, <2>4 DEF Lifecycle!Move
  <2>6. QED
    BY <1>1, <2>5 DEF Lifecycle!Next
<1>10. QED
  BY <1>7, <1>8, <1>9, CommittedRow

(* Only a commit changes what the abstract specification sees.             *)
LEMMA LifeStep ==
  ASSUME IInv, [Next]_vars
  PROVE  Lifecycle!Next \/ UNCHANGED <<LifeStatus, enqueued>>
<1>1. CASE UNCHANGED dbVars
  BY <1>1 DEF dbVars, LifeStatus
<1>2. CASE \E w \in Workers : Commit(w) \/ CommitUnacknowledged(w)
  BY <1>2, CommitIsLifeStep DEF Commit, CommitUnacknowledged
<1>3. QED
  BY <1>1, <1>2
  DEF Next, Begin, Advance, Fault, AcceptFromCourier, RejectPackaging,
      ServeRecipient, UnknownAction, ReturnToCourier, GetOrderByID, Call, Add,
      Read, Update, AddHistoryRecord, AddTask, Delete, CacheSet, CacheDel,
      CacheGet, DbRead, Reply, FailStatement, FailCacheWrite, FailCacheGet,
      Crash, Tick, vars

(* Whatever the calls, their interleaving and the failures: an order is    *)
(* received once, moves forward only, is never changed after its return,   *)
(* and each of its steps is announced once, in the same step.              *)
THEOREM ServiceImplementsLifecycle == Spec => ImplementsLifecycle
<1>1. Init => Lifecycle!Init
  BY DEF Init, Lifecycle!Init, LifeStatus
<1>2. IInv /\ [Next]_vars => [Lifecycle!Next]_<<LifeStatus, enqueued>>
  BY LifeStep
<1>3. Spec => []IInv
  BY AuditInit, AuditStep, PTL DEF Spec
<1>4. QED
  BY <1>1, <1>2, <1>3, PTL DEF Spec, ImplementsLifecycle, Lifecycle!Spec
=============================================================================
