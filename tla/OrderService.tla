---------------------------- MODULE OrderService ----------------------------
(***************************************************************************)
(* PvzService (internal/service/order) over the repository, the            *)
(* transaction manager, the outbox table and the Redis cache.              *)
(*                                                                         *)
(* Workers are the goroutines that serve gRPC and HTTP calls, of one or of *)
(* several instances of the server.  A worker runs one call at a time; a   *)
(* step is one statement sent to Postgres or one command sent to Redis,    *)
(* with the computation on local memory that precedes or follows it.       *)
(*                                                                         *)
(* Postgres and Redis are not under src/.  What the code relies on is      *)
(* modelled: the writes of a transaction are applied together by COMMIT; a *)
(* REPEATABLE READ transaction sees the database as it was at its first    *)
(* statement, and its UPDATE or DELETE of a row that has changed since     *)
(* then fails; writers of one row wait for each other; the foreign key of  *)
(* order_records protects its parent row from deletion and is declared ON  *)
(* DELETE CASCADE.  `version' counts the committed writes of a row, the    *)
(* way its xmin tells the versions of the row apart.                       *)
(***************************************************************************)
EXTENDS OrderDomain, Packaging, Sequences

CONSTANTS
  Workers,      \* goroutines that serve a call
  Parcels,      \* weights and packagings AcceptFromCourier is called with
  MaxOrders,    \* bound: last id of the sequence behind orders.id
  MaxTime,      \* bound: last day of the model
  IdLists,      \* lists of order ids ServeRecipient is called with
  Faults        \* which failures of the environment may happen

OrderId == 1 .. MaxOrders

FaultKinds == {"statement", "commit", "cache", "crash"}

ASSUME ServiceAssumption ==
  /\ MaxOrders \in Nat \ {0}
  /\ MaxTime \in Nat
  /\ Parcels \subseteq Parcel
  /\ IdLists \subseteq Seq(OrderId)
  /\ Faults \subseteq FaultKinds

VARIABLES
  (* Postgres *)
  orders,       \* table orders: id -> row, or NoOrder
  version,      \* id -> committed writes of the row
  history,      \* table order_records: id -> statuses of its records
  enqueued,     \* id -> order_status of the outbox tasks ever inserted for it
  nextId,       \* the sequence behind orders.id
  (* Redis *)
  cache,        \* id -> the order under key "order:<id>", or NoOrder
  now,          \* the day
  (* a worker *)
  pc,           \* the statement or command it is about to send
  req,          \* the call it serves
  pos,          \* index into the call's ids
  mem,          \* the *Order in its memory
  tx            \* its open transaction

dbVars     == <<orders, version, history, enqueued>>
workerVars == <<pc, req, pos, mem, tx>>
vars       == <<dbVars, nextId, cache, now, workerVars>>

-----------------------------------------------------------------------------
(* Calls and transactions.                                                 *)

Ops == {"none", "accept", "deliver", "refund", "return", "get"}

Request == [op : Ops, ids : Seq(OrderId), recipient : Recipients \cup {0}]

NoRequest == [op |-> "none", ids |-> <<>>, recipient |-> 0]

PCs == {"idle", "add", "read", "update", "history", "task", "delete",
        "commit", "cacheSet", "cacheDel", "cacheGet", "dbRead", "ok", "error"}

(* `ver' is the version of the row the transaction read, `lock' the        *)
(* strongest lock it holds on that row, `rec' the status of the record the *)
(* code has built, `hist' and `task' the uncommitted record and task.      *)
Locks == {"none", "share", "update", "delete", "insert"}

Tx == [ver  : Nat, lock : Locks, rec  : OrderStatus,
       hist : OrderStatus, task : OrderStatus]

NoTx == [ver |-> 0, lock |-> "none", rec |-> "none",
         hist |-> "none", task |-> "none"]

Id(w) == req[w].ids[pos[w]]

(* Mutant: an UPDATE that locks its row as if it changed the key.          *)
Conflicting_KeyUpdate(w) ==
  CASE pc[w] = "update" -> {"share", "update", "delete"}
    [] pc[w] = "history" /\ tx[w].lock = "none" -> {"delete"}
    [] pc[w] = "delete" -> {"share", "update", "delete"}
    [] OTHER -> {}

(* The locks of others on its row that the next statement of w waits for.  *)
(* The UPDATE leaves the key alone and goes together with the key-share    *)
(* lock of an inserted record.                                             *)
Conflicting(w) ==
  CASE pc[w] = "update" -> {"update", "delete"}
    [] pc[w] = "history" /\ tx[w].lock = "none" -> {"delete"}
    [] pc[w] = "delete" -> {"share", "update", "delete"}
    [] OTHER -> {}

WaitsFor(w, v) == v # w /\ tx[v].lock \in Conflicting(w) /\ Id(v) = Id(w)

Blocked(w) == \E v \in Workers : WaitsFor(w, v)

(* Mutant: READ COMMITTED, where the UPDATE of a row that has changed since *)
(* it was read goes through.                                               *)
Conflict_ReadCommitted(w) == FALSE

(* REPEATABLE READ: the row has been written since the snapshot.           *)
Conflict(w) == version[Id(w)] # tx[w].ver

Init ==
  /\ orders   = [i \in OrderId |-> NoOrder]
  /\ version  = [i \in OrderId |-> 0]
  /\ history  = [i \in OrderId |-> <<>>]
  /\ enqueued = [i \in OrderId |-> <<>>]
  /\ nextId   = 1
  /\ cache    = [i \in OrderId |-> NoOrder]
  /\ now      = 0
  /\ pc       = [w \in Workers |-> "idle"]
  /\ req      = [w \in Workers |-> NoRequest]
  /\ pos      = [w \in Workers |-> 1]
  /\ mem      = [w \in Workers |-> NoOrder]
  /\ tx       = [w \in Workers |-> NoTx]

Goto(w, label) == pc' = [pc EXCEPT ![w] = label]

(* The call returns an error: the deferred Rollback ends the transaction   *)
(* and nothing the call held in memory survives.                           *)
Fail(w) ==
  /\ Goto(w, "error")
  /\ req' = [req EXCEPT ![w] = NoRequest]
  /\ pos' = [pos EXCEPT ![w] = 1]
  /\ mem' = [mem EXCEPT ![w] = NoOrder]
  /\ tx'  = [tx EXCEPT ![w] = NoTx]

-----------------------------------------------------------------------------
(* The calls, up to their first statement.                                 *)

Call(w, op, ids, recipient, label) ==
  /\ req' = [req EXCEPT ![w] = [op |-> op, ids |-> ids, recipient |-> recipient]]
  /\ Goto(w, label)
  /\ UNCHANGED <<dbVars, nextId, cache, now, pos, tx>>

(* The transaction is READ COMMITTED and its first statement is Add.       *)
AcceptFromCourier(w) ==
  /\ pc[w] = "idle"
  /\ nextId <= MaxOrders
  /\ \E r \in Recipients, e \in Expirations, p \in Parcels :
       /\ PackagingFits(p)
       /\ mem' = [mem EXCEPT ![w] = Received(NewOrder(r, e))]
       /\ Call(w, "accept", <<>>, r, "add")

(* ApplyPackaging returns an error before anything is written.             *)
RejectPackaging(w) ==
  /\ pc[w] = "idle"
  /\ \E p \in Parcels : ~PackagingFits(p)
  /\ Fail(w)
  /\ UNCHANGED <<dbVars, nextId, cache, now>>

ServeRecipient(w) ==
  /\ pc[w] = "idle"
  /\ \E ids \in IdLists, r \in Recipients, op \in {"deliver", "refund"} :
       Call(w, op, ids, r, IF ids = <<>> THEN "ok" ELSE "read")
  /\ UNCHANGED mem

UnknownAction(w) ==
  /\ pc[w] = "idle"
  /\ Fail(w)
  /\ UNCHANGED <<dbVars, nextId, cache, now>>

ReturnToCourier(w) ==
  /\ pc[w] = "idle"
  /\ \E id \in OrderId : Call(w, "return", <<id>>, 0, "read")
  /\ UNCHANGED mem

GetOrderByID(w) ==
  /\ pc[w] = "idle"
  /\ \E id \in OrderId, r \in Recipients : Call(w, "get", <<id>>, r, "cacheGet")
  /\ UNCHANGED mem

Reply(w) ==
  /\ pc[w] \in {"ok", "error"}
  /\ Goto(w, "idle")
  /\ req' = [req EXCEPT ![w] = NoRequest]
  /\ pos' = [pos EXCEPT ![w] = 1]
  /\ mem' = [mem EXCEPT ![w] = NoOrder]
  /\ UNCHANGED <<dbVars, nextId, cache, now, tx>>

-----------------------------------------------------------------------------
(* Statements inside a transaction.                                        *)

(* storage.Add: the sequence is outside the transaction, so an id is used  *)
(* up even when the transaction rolls back.                                *)
Add(w) ==
  /\ pc[w] = "add"
  /\ IF nextId <= MaxOrders
     THEN /\ req' = [req EXCEPT ![w].ids = <<nextId>>]
          /\ tx'  = [tx EXCEPT ![w].lock = "insert", ![w].rec = "received"]
          /\ nextId' = nextId + 1
          /\ Goto(w, "history")
          /\ UNCHANGED <<pos, mem>>
     ELSE Fail(w) /\ UNCHANGED nextId
  /\ UNCHANGED <<dbVars, cache, now>>

(* The row the first SELECT returns: GetByID or GetRecipientOrderByID.     *)
Found(w) ==
  LET o == orders[Id(w)] IN
  o # NoOrder /\ (req[w].op = "return" \/ o.recipient = req[w].recipient)

(* Mutant: ReturnToCourier does not look at the expiration date.           *)
Refused_NoReturnCheck(w) ==
  LET o == orders[Id(w)] IN
  \/ req[w].op = "deliver" /\ ~IsReceived(o)
  \/ req[w].op = "refund"  /\ ~CanBeRefunded(o)

(* The transition the code makes on the order it has read, with the record *)
(* it will write, or a refusal.                                            *)
Refused(w) ==
  LET o == orders[Id(w)] IN
  \/ req[w].op = "deliver" /\ ~IsReceived(o)
  \/ req[w].op = "refund"  /\ ~CanBeRefunded(o)
  \/ req[w].op = "return"  /\ ~IsExpired(o, now)

Changed(w) ==
  LET o == orders[Id(w)] IN
  CASE req[w].op = "deliver" /\ IsExpired(o, now)  -> Expire(o)
    [] req[w].op = "deliver" /\ ~IsExpired(o, now) -> Deliver(o, now)
    [] req[w].op = "refund" -> Refund(o, now)
    [] req[w].op = "return" -> o

(* Mutant: one record for both branches of ProcessOrderDeliver.            *)
NewRecord_NeverExpired(w) ==
  CASE req[w].op = "deliver" -> "delivered"
    [] req[w].op = "refund"  -> "refunded"
    [] req[w].op = "return"  -> "none"

NewRecord(w) ==
  CASE req[w].op = "deliver" ->
         IF IsExpired(orders[Id(w)], now) THEN "storage_ended" ELSE "delivered"
    [] req[w].op = "refund" -> "refunded"
    [] req[w].op = "return" -> "none"

AfterRead(w) ==
  CASE req[w].op = "deliver" -> "update"
    [] req[w].op = "refund"  -> "history"
    [] req[w].op = "return"  -> "delete"

Read(w) ==
  /\ pc[w] = "read"
  /\ IF Found(w) /\ ~Refused(w)
     THEN /\ mem' = [mem EXCEPT ![w] = Changed(w)]
          /\ tx'  = [tx EXCEPT ![w].ver = version[Id(w)],
                               ![w].rec = NewRecord(w)]
          /\ Goto(w, AfterRead(w))
          /\ UNCHANGED <<req, pos>>
     ELSE Fail(w)
  /\ UNCHANGED <<dbVars, nextId, cache, now>>

(* Mutant: a serialization error is answered by sending the UPDATE again,  *)
(* in the same transaction.                                                *)
Update_Retry(w) ==
  /\ pc[w] = "update"
  /\ ~Blocked(w)
  /\ ~Conflict(w)
  /\ tx' = [tx EXCEPT ![w].lock = "update"]
  /\ Goto(w, IF req[w].op = "refund" THEN "task" ELSE "history")
  /\ UNCHANGED <<dbVars, nextId, cache, now, req, pos, mem>>

Update(w) ==
  /\ pc[w] = "update"
  /\ ~Blocked(w)
  /\ IF Conflict(w)
     THEN Fail(w)
     ELSE /\ tx' = [tx EXCEPT ![w].lock = "update"]
          /\ Goto(w, IF req[w].op = "refund" THEN "task" ELSE "history")
          /\ UNCHANGED <<req, pos, mem>>
  /\ UNCHANGED <<dbVars, nextId, cache, now>>

(* storage.AddHistoryRecord: the foreign key locks the parent row, which   *)
(* must still exist.  The SELECT by which ProcessOrderReceive then reads   *)
(* back the row it has inserted is part of this step: no one else can see  *)
(* that row, and it returns the order as it is in memory.                  *)
AddHistoryRecord(w) ==
  /\ pc[w] = "history"
  /\ ~Blocked(w)
  /\ IF tx[w].lock = "none" /\ orders[Id(w)] = NoOrder
     THEN Fail(w)
     ELSE /\ tx' = [tx EXCEPT ![w].hist = tx[w].rec,
                              ![w].lock = IF @ = "none" THEN "share" ELSE @]
          /\ Goto(w, IF req[w].op = "refund" THEN "update" ELSE "task")
          /\ UNCHANGED <<req, pos, mem>>
  /\ UNCHANGED <<dbVars, nextId, cache, now>>

(* Mutant: AddTask is given the call's context instead of the              *)
(* transaction's and runs on the pool.                                     *)
AddTask_OutsideTx(w) ==
  /\ pc[w] = "task"
  /\ enqueued' = [enqueued EXCEPT ![Id(w)] = Append(@, tx[w].rec)]
  /\ Goto(w, "commit")
  /\ UNCHANGED <<orders, version, history, nextId, cache, now, req, pos, mem, tx>>

(* outbox.AddTask.                                                         *)
AddTask(w) ==
  /\ pc[w] = "task"
  /\ tx' = [tx EXCEPT ![w].task = tx[w].rec]
  /\ Goto(w, "commit")
  /\ UNCHANGED <<dbVars, nextId, cache, now, req, pos, mem>>

Delete(w) ==
  /\ pc[w] = "delete"
  /\ ~Blocked(w)
  /\ IF Conflict(w)
     THEN Fail(w)
     ELSE /\ tx' = [tx EXCEPT ![w].lock = "delete"]
          /\ Goto(w, "commit")
          /\ UNCHANGED <<req, pos, mem>>
  /\ UNCHANGED <<dbVars, nextId, cache, now>>

-----------------------------------------------------------------------------
(* The end of a transaction.                                               *)

Logged(seq, status) == IF status = "none" THEN seq ELSE Append(seq, status)

(* What COMMIT makes visible.                                              *)
ApplyTx(w) ==
  LET id == Id(w)
      t  == tx[w]
  IN  /\ version' = [version EXCEPT ![id] = @ + 1]
      /\ orders' = [orders EXCEPT ![id] =
           IF t.lock = "delete" THEN NoOrder ELSE mem[w]]
      /\ history' = [history EXCEPT ![id] =
           IF t.lock = "delete" THEN <<>> ELSE Logged(@, t.hist)]
      /\ enqueued' = [enqueued EXCEPT ![id] = Logged(@, t.task)]

Commit(w) ==
  /\ pc[w] = "commit"
  /\ ApplyTx(w)
  /\ tx' = [tx EXCEPT ![w] = NoTx]
  /\ Goto(w, IF req[w].op = "return" THEN "cacheDel" ELSE "cacheSet")
  /\ UNCHANGED <<nextId, cache, now, req, pos, mem>>

(* The connection breaks after Postgres has committed: Commit returns an   *)
(* error all the same.                                                     *)
CommitUnacknowledged(w) ==
  /\ "commit" \in Faults
  /\ pc[w] = "commit"
  /\ ApplyTx(w)
  /\ Fail(w)
  /\ UNCHANGED <<nextId, cache, now>>

(* Mutant: the result of RunRepeatableRead is not looked at before the     *)
(* cache is written.                                                       *)
FailStatement_Ignored(w) ==
  /\ "statement" \in Faults
  /\ pc[w] = "commit"
  /\ tx' = [tx EXCEPT ![w] = NoTx]
  /\ Goto(w, "cacheSet")
  /\ UNCHANGED <<dbVars, nextId, cache, now, req, pos, mem>>

(* Any statement may return an error: the connection is lost, the server   *)
(* is stopping (the transaction's context is cancelled), Postgres refuses. *)
FailStatement(w) ==
  /\ "statement" \in Faults
  /\ pc[w] \in {"add", "read", "update", "history", "task", "delete",
                "commit", "dbRead"}
  /\ Fail(w)
  /\ UNCHANGED <<dbVars, nextId, cache, now>>

-----------------------------------------------------------------------------
(* Redis, after the transaction has ended.                                 *)

SetOrder(w) == cache' = [cache EXCEPT ![Id(w)] = mem[w]]

(* Mutant: the cached copy of a returned order is forgotten.               *)
DeleteOrder_Forgotten(w) == UNCHANGED cache

DeleteOrder(w) == cache' = [cache EXCEPT ![Id(w)] = NoOrder]

(* Mutant: the loop returns after its first order.                         *)
NextOrder_ReturnsEarly(w) == Goto(w, "ok") /\ UNCHANGED <<pos, mem>>

(* Mutant: the loop runs one step too far.                                 *)
NextOrder_OffByOne(w) ==
  IF pos[w] <= Len(req[w].ids)
  THEN /\ pos' = [pos EXCEPT ![w] = @ + 1]
       /\ mem' = [mem EXCEPT ![w] = NoOrder]
       /\ Goto(w, "read")
  ELSE Goto(w, "ok") /\ UNCHANGED <<pos, mem>>

(* The loops of DeliverOrders and RefundOrders go on with the next id.     *)
NextOrder(w) ==
  IF pos[w] < Len(req[w].ids)
  THEN /\ pos' = [pos EXCEPT ![w] = @ + 1]
       /\ mem' = [mem EXCEPT ![w] = NoOrder]
       /\ Goto(w, "read")
  ELSE Goto(w, "ok") /\ UNCHANGED <<pos, mem>>

CacheSet(w) ==
  /\ pc[w] = "cacheSet"
  /\ SetOrder(w)
  /\ NextOrder(w)
  /\ UNCHANGED <<dbVars, nextId, now, req, tx>>

CacheDel(w) ==
  /\ pc[w] = "cacheDel"
  /\ DeleteOrder(w)
  /\ Goto(w, "ok")
  /\ UNCHANGED <<dbVars, nextId, now, req, pos, mem, tx>>

(* A command that returned an error may have been executed or not.  Only   *)
(* GetOrderByID goes on.                                                   *)
FailCacheWrite(w) ==
  /\ "cache" \in Faults
  /\ \/ pc[w] = "cacheSet" /\ (SetOrder(w) \/ UNCHANGED cache)
     \/ pc[w] = "cacheDel" /\ (DeleteOrder(w) \/ UNCHANGED cache)
  /\ IF req[w].op = "get"
     THEN Goto(w, "ok") /\ UNCHANGED <<req, pos, mem, tx>>
     ELSE Fail(w)
  /\ UNCHANGED <<dbVars, nextId, now>>

(* A hit is returned as it is; the recipient is compared by the SELECT     *)
(* only.                                                                   *)
CacheGet(w) ==
  /\ pc[w] = "cacheGet"
  /\ IF cache[Id(w)] # NoOrder
     THEN mem' = [mem EXCEPT ![w] = cache[Id(w)]] /\ Goto(w, "ok")
     ELSE Goto(w, "dbRead") /\ UNCHANGED mem
  /\ UNCHANGED <<dbVars, nextId, cache, now, req, pos, tx>>

(* Any error of the cache is treated as a miss.                            *)
FailCacheGet(w) ==
  /\ "cache" \in Faults
  /\ pc[w] = "cacheGet"
  /\ Goto(w, "dbRead")
  /\ UNCHANGED <<dbVars, nextId, cache, now, req, pos, mem, tx>>

(* The lookup of GetOrderByID runs on the pool, outside any transaction.   *)
DbRead(w) ==
  /\ pc[w] = "dbRead"
  /\ IF Found(w)
     THEN /\ mem' = [mem EXCEPT ![w] = orders[Id(w)]]
          /\ Goto(w, "cacheSet")
          /\ UNCHANGED <<req, pos, tx>>
     ELSE Fail(w)
  /\ UNCHANGED <<dbVars, nextId, cache, now>>

-----------------------------------------------------------------------------
(* The process dies; Postgres rolls back what it had open.  Postgres and   *)
(* Redis keep what they hold, and the restarted process serves new calls.  *)
Crash ==
  /\ "crash" \in Faults
  /\ \E w \in Workers : pc[w] # "idle"
  /\ pc'  = [w \in Workers |-> "idle"]
  /\ req' = [w \in Workers |-> NoRequest]
  /\ pos' = [w \in Workers |-> 1]
  /\ mem' = [w \in Workers |-> NoOrder]
  /\ tx'  = [w \in Workers |-> NoTx]
  /\ UNCHANGED <<dbVars, nextId, cache, now>>

Tick ==
  /\ now < MaxTime
  /\ now' = now + 1
  /\ UNCHANGED <<dbVars, nextId, cache, workerVars>>

Begin(w) ==
  \/ AcceptFromCourier(w) \/ RejectPackaging(w) \/ ServeRecipient(w)
  \/ UnknownAction(w) \/ ReturnToCourier(w) \/ GetOrderByID(w)

(* What a worker does by itself once it serves a call.                     *)
Advance(w) ==
  \/ Add(w) \/ Read(w) \/ Update(w) \/ AddHistoryRecord(w) \/ AddTask(w)
  \/ Delete(w) \/ Commit(w) \/ CacheSet(w) \/ CacheDel(w) \/ CacheGet(w)
  \/ DbRead(w) \/ Reply(w)

Fault(w) ==
  \/ FailStatement(w) \/ CommitUnacknowledged(w)
  \/ FailCacheWrite(w) \/ FailCacheGet(w)

Next ==
  \/ \E w \in Workers : Begin(w) \/ Advance(w) \/ Fault(w)
  \/ Crash
  \/ Tick

Spec == Init /\ [][Next]_vars

(* A statement or a command that was sent returns.  Postgres serves the    *)
(* waiters of a row lock in order, so a worker that can proceed again and  *)
(* again eventually does.                                                  *)
FairSpec == Spec /\ \A w \in Workers : SF_vars(Advance(w))

-----------------------------------------------------------------------------
(* Properties.                                                             *)

MaybeOrder == Order \cup {NoOrder}

(* The statuses an order has gone through when it is in this one.          *)
TrailOf(status) ==
  CASE status = "received"      -> <<"received">>
    [] status = "delivered"     -> <<"received", "delivered">>
    [] status = "storage_ended" -> <<"received", "storage_ended">>
    [] status = "refunded"      -> <<"received", "delivered", "refunded">>
    [] OTHER                    -> <<>>

InTx == {"update", "history", "task", "delete", "commit"}

(* A worker that is about to send a statement or command has an id to send *)
(* it for.                                                                 *)
OnAnOrder(w) ==
  pc[w] \in InTx \cup {"read", "cacheSet", "cacheDel", "cacheGet", "dbRead"}
    => pos[w] \in 1 .. Len(req[w].ids)

(* Types: every variable holds what the tables, the cache and the          *)
(* goroutines can hold, and the loops over ids stay inside their list.     *)
TypeOK ==
  /\ orders   \in [OrderId -> MaybeOrder]
  /\ version  \in [OrderId -> Nat]
  /\ history  \in [OrderId -> Seq(OrderStatus)]
  /\ enqueued \in [OrderId -> Seq(OrderStatus)]
  /\ nextId   \in 1 .. MaxOrders + 1
  /\ cache    \in [OrderId -> MaybeOrder]
  /\ now      \in 0 .. MaxTime
  /\ pc       \in [Workers -> PCs]
  /\ req      \in [Workers -> Request]
  /\ pos      \in [Workers -> Nat \ {0}]
  /\ mem      \in [Workers -> MaybeOrder]
  /\ tx       \in [Workers -> Tx]
  /\ \A w \in Workers : OnAnOrder(w)

(* The order_records of an order tell the whole way it took to the status  *)
(* its row has, whatever calls raced for it: one record per step, in       *)
(* order, none of a step that was rolled back.                             *)
HistoryMatchesStatus ==
  \A i \in OrderId :
    history[i] = IF orders[i] = NoOrder THEN <<>> ELSE TrailOf(orders[i].status)

(* The outbox pattern of ProcessOrderReceive, -Deliver and -Refund: the    *)
(* tasks enqueued for an order are those of its history, no more and no    *)
(* less, at every moment another transaction can look.                     *)
AuditComplete ==
  \A i \in OrderId : orders[i] # NoOrder => enqueued[i] = history[i]

(* CanBeRefunded dereferences DeliveredDate: an order that says it is      *)
(* delivered has one, in the table, in the cache and in memory.            *)
DatesMatchStatus ==
  \A o \in {orders[i] : i \in OrderId} \cup {cache[i] : i \in OrderId}
             \cup {mem[w] : w \in Workers} :
    o # NoOrder =>
      /\ o.delivered # NilDate <=> o.status \in {"delivered", "refunded"}
      /\ o.refunded # NilDate <=> o.status = "refunded"
      /\ o.refunded # NilDate => o.delivered <= o.refunded

(* The cache may be stale, but never holds a state the order was not       *)
(* committed in: SetOrder comes after the commit, and what a rolled back   *)
(* call computed is never cached.                                          *)
CacheOnlyAudited ==
  \A i \in OrderId :
    cache[i] # NoOrder => \E k \in DOMAIN enqueued[i] : enqueued[i][k] = cache[i].status

Audited(i, statuses) == \E k \in DOMAIN enqueued[i] : enqueued[i][k] \in statuses

(* A call that returns without an error has done what it was asked for     *)
(* every id it was given, durably: it was committed, with its audit task.  *)
OkMeansAudited ==
  \A w \in Workers : pc[w] = "ok" =>
    \A k \in DOMAIN req[w].ids :
      LET i == req[w].ids[k] IN
      CASE req[w].op = "accept"  -> Audited(i, {"received"})
        [] req[w].op = "deliver" -> Audited(i, {"delivered", "storage_ended"})
        [] req[w].op = "refund"  -> Audited(i, {"refunded"})
        [] req[w].op = "return"  -> orders[i] = NoOrder /\ version[i] > 0
        [] req[w].op = "get"     -> Audited(i, {mem[w].status})

(* The ids a call has committed its transaction for.                       *)
Served(w) ==
  {req[w].ids[k] : k \in {n \in DOMAIN req[w].ids :
     n < pos[w] \/ (n = pos[w] /\ pc[w] \in {"cacheSet", "cacheDel", "ok"})}}

(* Two concurrent calls never both hand over, both take back or both       *)
(* return one order: the RepeatableRead transactions let one of them win.  *)
ServedOnce ==
  \A v, w \in Workers :
    v # w /\ req[v].op = req[w].op /\ req[v].op \in {"deliver", "refund", "return"}
      => Served(v) \cap Served(w) = {}

(* ReturnToCourier: the row of an order disappears only when its storage   *)
(* has expired, and nothing else has written it since that was checked.    *)
ReturnsOnlyExpired ==
  [][\A i \in OrderId :
       orders[i] # NoOrder /\ orders'[i] = NoOrder
         => /\ IsExpired(orders[i], now)
            /\ \E w \in Workers : pc[w] = "commit" /\ mem[w] = orders[i]]_vars

(* Every call is answered: no worker waits for a row lock forever.         *)
CallsComplete == \A w \in Workers : pc[w] # "idle" ~> pc[w] = "idle"

(* RefundOrder inserts its record, which locks the row in share, before it *)
(* updates the row, and the other operations the other way round.  Even so *)
(* transactions that wait for each other's locks never do so in a circle:  *)
(* in every set of calls there is one that waits for no other of the set.  *)
NoDeadlock ==
  \A S \in (SUBSET Workers) \ {{}} :
    \E v \in S : \A w \in S : ~WaitsFor(v, w)

(* The service implements OrderLifecycle.  An order's place in its life is *)
(* its row's status; a row that was written and is no more is gone.        *)
LifeStatus ==
  [i \in OrderId |->
     IF orders[i] # NoOrder THEN orders[i].status
     ELSE IF version[i] = 0 THEN "none" ELSE "gone"]

Lifecycle == INSTANCE OrderLifecycle
               WITH Ids <- OrderId, status <- LifeStatus, audit <- enqueued

(* Every commit is one step forward in the life of one order, announced by *)
(* the outbox task inserted with it.                                       *)
ImplementsLifecycle == Lifecycle!Spec

(* The refund window is DaysForRefunding days long: "can not be refunded   *)
(* to recipient because refund time has expired".                          *)
RefundWithinWindow ==
  \A i \in OrderId :
    orders[i] # NoOrder /\ orders[i].status = "refunded"
      => orders[i].refunded <= orders[i].delivered + DaysForRefunding

-----------------------------------------------------------------------------
(* The inductive invariant behind HistoryMatchesStatus and AuditComplete.  *)

Exclusive == {"insert", "update", "delete"}

(* A worker has a transaction only between its first and last statement,   *)
(* and what the transaction holds is determined by the call and by how far *)
(* the call has come.                                                      *)
AcceptShape(w) ==
  /\ pc[w] \in {"history", "task", "commit"}
  /\ tx[w].lock = "insert" /\ tx[w].ver = 0
  /\ mem[w].status = "received"

DeliverShape(w) ==
  /\ pc[w] \in {"update", "history", "task", "commit"}
  /\ tx[w].lock = IF pc[w] = "update" THEN "none" ELSE "update"
  /\ mem[w].status \in {"delivered", "storage_ended"}

RefundShape(w) ==
  /\ pc[w] \in {"history", "update", "task", "commit"}
  /\ tx[w].lock = CASE pc[w] = "history" -> "none"
                    [] pc[w] = "update" -> "share"
                    [] OTHER -> "update"
  /\ pc[w] = "update" => tx[w].hist = tx[w].rec
  /\ mem[w].status = "refunded"

ReturnShape(w) ==
  /\ pc[w] \in {"delete", "commit"}
  /\ tx[w].lock = IF pc[w] = "delete" THEN "none" ELSE "delete"
  /\ tx[w].hist = "none" /\ tx[w].task = "none"

WriteShape(w) ==
  /\ tx[w].rec = mem[w].status
  /\ pc[w] \in {"task", "commit"} => tx[w].hist = tx[w].rec
  /\ pc[w] = "commit" => tx[w].task = tx[w].rec

TxShape(w) ==
  /\ pc[w] \notin InTx => tx[w] = NoTx
  /\ pc[w] = "add" => mem[w] \in Order /\ mem[w].status = "received"
  /\ pc[w] \in InTx =>
       /\ mem[w] \in Order
       /\ req[w].op \in {"accept", "deliver", "refund", "return"}
       /\ req[w].op = "accept"  => AcceptShape(w)
       /\ req[w].op = "deliver" => DeliverShape(w)
       /\ req[w].op = "refund"  => RefundShape(w)
       /\ req[w].op = "return"  => ReturnShape(w)
       /\ req[w].op # "return"  => WriteShape(w)

(* Which calls reach which statements, and that only the loops of          *)
(* ServeRecipient go past a first id.                                      *)
CallShape(w) ==
  /\ pc[w] \in {"idle", "add"} => pos[w] = 1
  /\ pc[w] = "add" => req[w].op = "accept"
  /\ pc[w] = "read" => req[w].op \in {"deliver", "refund", "return"}
  /\ pc[w] \in {"cacheGet", "dbRead"} => req[w].op = "get"
  /\ pc[w] = "cacheDel" => req[w].op = "return"
  /\ pc[w] = "cacheSet" =>
       req[w].op \in {"accept", "deliver", "refund", "get"} /\ mem[w] \in Order
  /\ pc[w] # "add" /\ req[w].op \in {"accept", "return", "get"}
       => Len(req[w].ids) = 1

(* The part of the invariant that concerns one worker at a time.           *)
LocalInv == TypeOK /\ \A w \in Workers : TxShape(w) /\ CallShape(w)

(* What a transaction knows of the row it works on.  As long as the row is *)
(* the version it has read, the row is in the status it was checked for;   *)
(* an exclusive lock keeps it so.                                          *)
RowAsRead(w) ==
  LET i == Id(w) IN
  /\ tx[w].ver \in 1 .. version[i]
  /\ tx[w].lock \in Exclusive => version[i] = tx[w].ver
  /\ version[i] = tx[w].ver =>
       /\ orders[i] # NoOrder
       /\ req[w].op = "deliver" => orders[i].status = "received"
       /\ req[w].op = "refund"  => orders[i].status = "delivered"

(* A row inserted by an open transaction is unknown to everyone else.      *)
RowIsNew(w) == Id(w) < nextId /\ version[Id(w)] = 0

Snapshots ==
  \A w \in Workers : pc[w] \in InTx =>
    IF req[w].op = "accept" THEN RowIsNew(w) ELSE RowAsRead(w)

LocksExclude ==
  \A v, w \in Workers :
    (pc[v] \in InTx /\ pc[w] \in InTx /\ Id(v) = Id(w)
       /\ tx[v].lock \in Exclusive /\ tx[w].lock \in Exclusive) => v = w

RowsNumbered ==
  \A i \in OrderId :
    /\ i >= nextId => version[i] = 0
    /\ version[i] = 0 => orders[i] = NoOrder /\ enqueued[i] = <<>>
    /\ orders[i] # NoOrder => orders[i].status # "none"

(* TypeOK, the two audit properties, and why they survive every step.      *)
IInv ==
  /\ LocalInv
  /\ Snapshots
  /\ LocksExclude
  /\ RowsNumbered
  /\ HistoryMatchesStatus
  /\ AuditComplete
=============================================================================
