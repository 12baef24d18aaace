-------------------------- MODULE OrderCacheProofs --------------------------
(***************************************************************************)
(* What the cache tells while calls overlap and fail, for every set of     *)
(* workers, orders, lists and faults.                                      *)
(***************************************************************************)
EXTENDS OrderCache, OrderCallsProofs

(* The history variable takes nothing away from the service and adds       *)
(* nothing to it.                                                          *)
LEMMA CacheIsService == CacheSpec => Spec
<1>1. CacheInit => Init
  BY DEF CacheInit
<1>2. [CacheNext]_<<vars, disturbed>> => [Next]_vars
  BY DEF CacheNext, CommitCached, CommitUncached, FailCacheWriteOf, CrashUncached,
         OtherStep, Next, Advance, Fault
<1>3. QED
  BY <1>1, <1>2, PTL DEF CacheSpec, Spec

-----------------------------------------------------------------------------
(* The inductive invariant behind CacheFollowsRow: of an order that is not *)
(* disturbed, whatever is about to be cached is the row as it is.          *)

PendingIsRow(w) ==
  /\ pc[w] = "cacheSet" => mem[w] = orders[Id(w)]
  /\ pc[w] = "cacheDel" => orders[Id(w)] = NoOrder

Coherent(i) ==
  \/ cache[i] \in {NoOrder, orders[i]}
  \/ \E w \in Workers : Follows(w, i)

CacheInv ==
  \A i \in OrderId \ disturbed :
    /\ Coherent(i)
    /\ \A w \in Workers : Pending(w, i) => PendingIsRow(w)

-----------------------------------------------------------------------------
(* What one step does.                                                     *)

(* The commands of the others stay on their way.                           *)
LEMMA OthersPending ==
  ASSUME NEW w \in Workers, OnlyWorker(w)
  PROVE  \A v \in Workers \ {w} :
           /\ \A i \in OrderId : Pending(v, i)' <=> Pending(v, i)
           /\ \A i \in OrderId : Follows(v, i)' <=> Follows(v, i)
           /\ UNCHANGED orders => (PendingIsRow(v)' <=> PendingIsRow(v))
           /\ Id(v)' = Id(v)
BY DEF OnlyWorker, Pending, Follows, PendingIsRow, Id

(* The steps that find nothing to write to the cache and leave nothing.    *)
Bystander(w) ==
  /\ UNCHANGED <<orders, cache>>
  /\ pc[w] \notin {"cacheSet", "cacheDel"}
  /\ pc'[w] \notin {"cacheSet", "cacheDel"}

LEMMA BystanderStep ==
  ASSUME NEW w \in Workers, OnlyWorker(w), Bystander(w), CacheInv,
         UNCHANGED disturbed
  PROVE  CacheInv'
<1>1. SUFFICES ASSUME NEW i \in OrderId \ disturbed
               PROVE  /\ Coherent(i)'
                      /\ \A v \in Workers : Pending(v, i)' => PendingIsRow(v)'
  BY DEF CacheInv
<1>2. Coherent(i) /\ \A v \in Workers : Pending(v, i) => PendingIsRow(v)
  BY DEF CacheInv
<1>3. ~Pending(w, i)' /\ ~Follows(w, i)
  BY DEF Bystander, Pending, Follows
<1>4. Coherent(i)'
  BY <1>2, <1>3, OthersPending DEF Bystander, Coherent
<1>5. \A v \in Workers : Pending(v, i)' => PendingIsRow(v)'
  BY <1>2, <1>3, OthersPending DEF Bystander
<1>6. QED
  BY <1>4, <1>5

LEMMA Bystanders ==
  ASSUME LocalInv, NEW w \in Workers,
         \/ Begin(w) \/ Add(w) \/ Read(w) \/ Update(w) \/ AddHistoryRecord(w)
         \/ AddTask(w) \/ Delete(w) \/ CacheGet(w) \/ Reply(w)
         \/ FailStatement(w) \/ FailCacheGet(w)
  PROVE  Bystander(w)
<1>1. pc \in [Workers -> PCs]
  BY LocalInvParts DEF WorkerTypes
<1>2. CASE Begin(w)
  BY <1>1, <1>2
  DEF Bystander, Begin, AcceptFromCourier, RejectPackaging, ServeRecipient,
      UnknownAction, ReturnToCourier, GetOrderByID, Call, Fail, Goto, dbVars
<1>3. CASE Read(w)
  <2>1. req[w].op \in {"deliver", "refund", "return"}
    BY <1>3 DEF LocalInv, CallShape, Read
  <2>2. AfterRead(w) \in {"update", "history", "delete"}
    BY <2>1 DEF AfterRead
  <2>3. pc'[w] \in {AfterRead(w), "error"}
    BY <1>1, <1>3 DEF Read, Fail, Goto
  <2>4. QED
    BY <1>3, <2>2, <2>3 DEF Bystander, Read, dbVars
<1>4. CASE Add(w) \/ Update(w) \/ AddHistoryRecord(w) \/ AddTask(w) \/ Delete(w)
  BY <1>1, <1>4
  DEF Bystander, Add, Update, AddHistoryRecord, AddTask, Delete, Fail, Goto,
      dbVars
<1>5. CASE CacheGet(w) \/ Reply(w) \/ FailStatement(w) \/ FailCacheGet(w)
  BY <1>1, <1>5
  DEF Bystander, CacheGet, Reply, FailStatement, FailCacheGet, Fail, Goto, dbVars
<1>6. QED
  BY <1>2, <1>3, <1>4, <1>5

(* The lookup of GetOrderByID finds the row as it is.                      *)
LEMMA DbReadStep ==
  ASSUME LocalInv, NEW w \in Workers, OnlyWorker(w), CacheInv, DbRead(w),
         UNCHANGED disturbed
  PROVE  CacheInv'
<1>1. CASE ~Found(w)
  <2>1. Bystander(w)
    BY <1>1, LocalInvParts
    DEF Bystander, DbRead, Fail, Goto, dbVars, WorkerTypes
  <2>2. QED
    BY <2>1, BystanderStep
<1>2. CASE Found(w)
  <2>1. /\ UNCHANGED <<orders, cache, req, pos>>
        /\ pc[w] = "dbRead" /\ pc'[w] = "cacheSet" /\ mem'[w] = orders[Id(w)]
    BY <1>2, LocalInvParts DEF DbRead, Goto, dbVars, WorkerTypes
  <2>2. PendingIsRow(w)'
    BY <2>1 DEF PendingIsRow, Id
  <2>3. SUFFICES ASSUME NEW i \in OrderId \ disturbed
                 PROVE  /\ Coherent(i)'
                        /\ \A v \in Workers : Pending(v, i)' => PendingIsRow(v)'
    BY DEF CacheInv
  <2>4. Coherent(i) /\ \A v \in Workers : Pending(v, i) => PendingIsRow(v)
    BY DEF CacheInv
  <2>5. ~Follows(w, i)
    BY <2>1 DEF Follows, Pending
  <2>6. Coherent(i)'
    BY <2>1, <2>4, <2>5, OthersPending DEF Coherent
  <2>7. \A v \in Workers : Pending(v, i)' => PendingIsRow(v)'
    BY <2>1, <2>2, <2>4, OthersPending
  <2>8. QED
    BY <2>6, <2>7
<1>3. QED
  BY <1>1, <1>2

(* A commit makes the row what the worker is about to cache, and is        *)
(* disturbed if another call has a command for the order on its way.       *)
LEMMA CommitEffect ==
  ASSUME LocalInv, NEW w \in Workers, pc[w] = "commit", ApplyTx(w),
         UNCHANGED cache
  PROVE  /\ Id(w) \in OrderId
         /\ orders'[Id(w)] = IF req[w].op = "return" THEN NoOrder ELSE mem[w]
         /\ \A i \in OrderId \ {Id(w)} : orders'[i] = orders[i]
<1>1. Id(w) \in OrderId
  BY IdInTx DEF InTx
<1>2. tx[w].lock = "delete" <=> req[w].op = "return"
  <2>1. TxShape(w) /\ pc[w] \in InTx
    BY DEF LocalInv, InTx
  <2>2. QED
    BY <2>1 DEF TxShape, AcceptShape, DeliverShape, RefundShape, ReturnShape
<1>3. QED
  BY <1>1, <1>2, LocalInvParts DEF ApplyTx, DataTypes

LEMMA CommitCachedStep ==
  ASSUME LocalInv, NEW w \in Workers, OnlyWorker(w), CacheInv, CommitCached(w)
  PROVE  CacheInv'
<1> DEFINE id == Id(w)
<1>1. /\ pc[w] = "commit" /\ UNCHANGED <<cache, req, pos, mem>>
      /\ pc'[w] = IF req[w].op = "return" THEN "cacheDel" ELSE "cacheSet"
      /\ ApplyTx(w)
  BY LocalInvParts DEF CommitCached, Commit, Goto, WorkerTypes
<1>2. /\ id \in OrderId
      /\ orders'[id] = IF req[w].op = "return" THEN NoOrder ELSE mem[w]
      /\ \A i \in OrderId \ {id} : orders'[i] = orders[i]
  BY <1>1, CommitEffect
<1>3. Id(w)' = id
  BY <1>1 DEF Id
<1>4. PendingIsRow(w)'
  BY <1>1, <1>2, <1>3 DEF PendingIsRow
<1>5. req[w].op # "get"
  <2>1. TxShape(w) /\ pc[w] \in InTx
    BY <1>1 DEF LocalInv, InTx
  <2>2. QED
    BY <2>1 DEF TxShape
<1>6. \A i \in OrderId : i = id => Follows(w, i)'
  BY <1>1, <1>3, <1>5 DEF Follows, Pending
<1>7. SUFFICES ASSUME NEW i \in OrderId \ disturbed'
               PROVE  /\ Coherent(i)'
                      /\ \A v \in Workers : Pending(v, i)' => PendingIsRow(v)'
  BY DEF CacheInv
<1>8. CASE i = id
  <2>1. \A v \in Workers \ {w} : ~Pending(v, i)
    BY <1>7, <1>8 DEF CommitCached
  <2>2. Coherent(i)'
    BY <1>3, <1>6, <1>8 DEF Coherent, Follows, Pending
  <2>3. \A v \in Workers : Pending(v, i)' => PendingIsRow(v)'
    BY <1>4, <2>1, OthersPending
  <2>4. QED
    BY <2>2, <2>3
<1>9. CASE i # id
  <2>1. i \notin disturbed
    BY <1>7, <1>9 DEF CommitCached
  <2>2. Coherent(i) /\ \A v \in Workers : Pending(v, i) => PendingIsRow(v)
    BY <2>1 DEF CacheInv
  <2>3. ~Pending(w, i)' /\ ~Follows(w, i)
    BY <1>1, <1>3, <1>9 DEF Pending, Follows
  <2>4. Coherent(i)'
    BY <1>1, <1>2, <1>9, <2>2, <2>3, OthersPending DEF Coherent
  <2>5. ASSUME NEW v \in Workers, Pending(v, i)' PROVE PendingIsRow(v)'
    <3>1. v # w /\ Pending(v, i) /\ PendingIsRow(v) /\ Id(v) = i /\ Id(v)' = i
      BY <2>2, <2>3, <2>5, OthersPending DEF Pending
    <3>2. QED
      BY <1>2, <1>9, <3>1 DEF PendingIsRow, OnlyWorker
  <2>6. QED
    BY <2>4, <2>5
<1>10. QED
  BY <1>8, <1>9

LEMMA CommitUncachedStep ==
  ASSUME LocalInv, NEW w \in Workers, OnlyWorker(w), CacheInv, CommitUncached(w)
  PROVE  CacheInv'
<1>1. /\ pc[w] = "commit" /\ UNCHANGED cache /\ pc'[w] = "error" /\ ApplyTx(w)
      /\ disturbed' = disturbed \cup {Id(w)}
  BY LocalInvParts
  DEF CommitUncached, CommitUnacknowledged, Fail, Goto, WorkerTypes
<1>2. \A i \in OrderId \ {Id(w)} : orders'[i] = orders[i]
  BY <1>1, CommitEffect
<1>3. SUFFICES ASSUME NEW i \in OrderId \ disturbed'
               PROVE  /\ Coherent(i)'
                      /\ \A v \in Workers : Pending(v, i)' => PendingIsRow(v)'
  BY DEF CacheInv
<1>4. i # Id(w) /\ i \notin disturbed
  BY <1>1, <1>3
<1>5. Coherent(i) /\ \A v \in Workers : Pending(v, i) => PendingIsRow(v)
  BY <1>4 DEF CacheInv
<1>6. ~Pending(w, i)' /\ ~Follows(w, i)
  BY <1>1 DEF Pending, Follows
<1>7. Coherent(i)'
  BY <1>1, <1>2, <1>4, <1>5, <1>6, OthersPending DEF Coherent
<1>8. ASSUME NEW v \in Workers, Pending(v, i)' PROVE PendingIsRow(v)'
  <2>1. v # w /\ Pending(v, i) /\ PendingIsRow(v) /\ Id(v) = i /\ Id(v)' = i
    BY <1>5, <1>6, <1>8, OthersPending DEF Pending
  <2>2. QED
    BY <1>2, <1>4, <2>1 DEF PendingIsRow, OnlyWorker
<1>9. QED
  BY <1>7, <1>8

(* A command that is carried out leaves in the cache what it was sent with;*)
(* one that fails either does so too or changes nothing.                   *)
CommandDone(w) ==
  /\ UNCHANGED orders
  /\ pc[w] \in {"cacheSet", "cacheDel"}
  /\ pc'[w] \notin {"cacheSet", "cacheDel"}
  /\ \A i \in OrderId \ {Id(w)} : cache'[i] = cache[i]

LEMMA CommandStep ==
  ASSUME LocalInv, NEW w \in Workers, OnlyWorker(w), CacheInv, CommandDone(w),
         disturbed \subseteq disturbed',
         \A i \in OrderId : i = Id(w) => i \in disturbed' \/ Coherent(i)'
  PROVE  CacheInv'
<1>1. SUFFICES ASSUME NEW i \in OrderId \ disturbed'
               PROVE  /\ Coherent(i)'
                      /\ \A v \in Workers : Pending(v, i)' => PendingIsRow(v)'
  BY DEF CacheInv
<1>2. Coherent(i) /\ \A v \in Workers : Pending(v, i) => PendingIsRow(v)
  BY <1>1 DEF CacheInv
<1>3. ~Pending(w, i)'
  BY DEF CommandDone, Pending
<1>4. \A v \in Workers : Pending(v, i)' => PendingIsRow(v)'
  BY <1>2, <1>3, OthersPending DEF CommandDone
<1>5. CASE i = Id(w)
  BY <1>1, <1>4, <1>5
<1>6. CASE i # Id(w)
  <2>1. ~Follows(w, i)
    BY <1>6 DEF Follows, Pending
  <2>2. Coherent(i)'
    BY <1>2, <1>6, <2>1, OthersPending DEF CommandDone, Coherent
  <2>3. QED
    BY <1>4, <2>2
<1>7. QED
  BY <1>5, <1>6

LEMMA CacheWriteStep ==
  ASSUME LocalInv, NEW w \in Workers, OnlyWorker(w), CacheInv,
         CacheSet(w) \/ CacheDel(w), UNCHANGED disturbed
  PROVE  CacheInv'
<1> DEFINE id == Id(w)
<1>1. id \in OrderId
  BY IdType DEF LocalInv, TypeOK, OnAnOrder, CacheSet, CacheDel
<1>2. CommandDone(w)
  BY <1>1, LocalInvParts
  DEF CommandDone, CacheSet, SetOrder, NextOrder, CacheDel, DeleteOrder, Goto,
      DataTypes, WorkerTypes, dbVars
<1>3. Pending(w, id)
  BY DEF Pending, CacheSet, CacheDel
<1>4. id \in disturbed' \/ cache'[id] \in {NoOrder, orders'[id]}
  <2>1. SUFFICES ASSUME id \notin disturbed PROVE cache'[id] \in {NoOrder, orders'[id]}
    OBVIOUS
  <2>2. PendingIsRow(w)
    BY <1>1, <1>3, <2>1 DEF CacheInv
  <2>3. CASE CacheSet(w)
    BY <1>1, <2>2, <2>3, LocalInvParts
    DEF CacheSet, SetOrder, PendingIsRow, DataTypes, dbVars
  <2>4. CASE CacheDel(w)
    BY <1>1, <2>4, LocalInvParts DEF CacheDel, DeleteOrder, DataTypes, dbVars
  <2>5. QED
    BY <2>3, <2>4
<1>5. \A i \in OrderId : i = Id(w) => i \in disturbed' \/ Coherent(i)'
  BY <1>4 DEF Coherent
<1>6. QED
  BY <1>2, <1>5, CommandStep

LEMMA FailCacheWriteStep ==
  ASSUME LocalInv, NEW w \in Workers, OnlyWorker(w), CacheInv, FailCacheWriteOf(w)
  PROVE  CacheInv'
<1> DEFINE id == Id(w)
<1>1. /\ pc[w] \in {"cacheSet", "cacheDel"}
      /\ UNCHANGED orders
      /\ pc'[w] \notin {"cacheSet", "cacheDel"}
      /\ disturbed' = disturbed \cup {i \in OrderId : Follows(w, i)}
  BY LocalInvParts
  DEF FailCacheWriteOf, FailCacheWrite, Fail, Goto, WorkerTypes, dbVars
<1>2. id \in OrderId
  BY <1>1, IdType DEF LocalInv, TypeOK, OnAnOrder
<1>3. CommandDone(w)
  BY <1>1, <1>2, LocalInvParts
  DEF CommandDone, FailCacheWriteOf, FailCacheWrite, SetOrder, DeleteOrder, DataTypes
<1>4. Pending(w, id)
  BY <1>1 DEF Pending
<1>5. CASE req[w].op # "get"
  BY <1>1, <1>2, <1>3, <1>4, <1>5, CommandStep DEF Follows
<1>6. CASE req[w].op = "get"
  <2>1. ~Follows(w, id)
    BY <1>6 DEF Follows
  <2>2. ASSUME NEW i \in OrderId, i = id, i \notin disturbed
        PROVE  Coherent(i)'
    <3>1. PendingIsRow(w) /\ Coherent(i)
      BY <1>4, <2>2 DEF CacheInv
    <3>2. cache'[i] \in {NoOrder, orders[i], cache[i]}
      BY <2>2, <3>1, LocalInvParts
      DEF FailCacheWriteOf, FailCacheWrite, SetOrder, DeleteOrder, PendingIsRow,
          DataTypes
    <3>3. QED
      BY <1>1, <2>1, <2>2, <3>1, <3>2, OthersPending DEF Coherent
  <2>3. QED
    BY <1>1, <1>3, <2>2, CommandStep
<1>7. QED
  BY <1>5, <1>6

LEMMA CrashStep ==
  ASSUME LocalInv, CacheInv, CrashUncached
  PROVE  CacheInv'
<1>1. \A v \in Workers : pc'[v] = "idle"
  BY DEF CrashUncached, Crash
<1>2. UNCHANGED <<orders, cache>>
  BY DEF CrashUncached, Crash, dbVars
<1>3. SUFFICES ASSUME NEW i \in OrderId \ disturbed'
               PROVE  /\ Coherent(i)'
                      /\ \A v \in Workers : Pending(v, i)' => PendingIsRow(v)'
  BY DEF CacheInv
<1>4. i \notin disturbed /\ \A v \in Workers : ~Follows(v, i)
  BY <1>3 DEF CrashUncached
<1>5. Coherent(i)
  BY <1>4 DEF CacheInv
<1>6. QED
  BY <1>1, <1>2, <1>4, <1>5 DEF Coherent, Pending

LEMMA CacheStep ==
  ASSUME LocalInv, CacheInv, [CacheNext]_<<vars, disturbed>>
  PROVE  CacheInv'
<1>1. CASE UNCHANGED <<vars, disturbed>> \/ (Tick /\ UNCHANGED disturbed)
  BY <1>1
  DEF CacheInv, Coherent, Follows, Pending, PendingIsRow, Id, Tick, vars, dbVars,
      workerVars
<1>2. CASE CrashUncached
  BY <1>2, CrashStep
<1>3. ASSUME NEW w \in Workers,
             \/ CommitCached(w) \/ CommitUncached(w) \/ FailCacheWriteOf(w)
             \/ OtherStep(w)
      PROVE  CacheInv'
  <2>1. OnlyWorker(w)
    BY <1>3, OneWorkersStep
    DEF CommitCached, CommitUncached, FailCacheWriteOf, OtherStep, Advance, Fault
  <2>2. CASE CommitCached(w) \/ CommitUncached(w) \/ FailCacheWriteOf(w)
    BY <2>1, <2>2, CommitCachedStep, CommitUncachedStep, FailCacheWriteStep
  <2>3. CASE OtherStep(w)
    <3>1. CASE DbRead(w) \/ CacheSet(w) \/ CacheDel(w)
      BY <2>1, <2>3, <3>1, DbReadStep, CacheWriteStep DEF OtherStep
    <3>2. CASE ~(DbRead(w) \/ CacheSet(w) \/ CacheDel(w))
      <4>1. Bystander(w)
        BY <2>3, <3>2, Bystanders DEF OtherStep
      <4>2. QED
        BY <2>1, <2>3, <4>1, BystanderStep DEF OtherStep
    <3>3. QED
      BY <3>1, <3>2
  <2>4. QED
    BY <1>3, <2>2, <2>3
<1>4. QED
  BY <1>1, <1>2, <1>3, Zenon DEF CacheNext

(* As long as the last change of an order was not disturbed, its cached    *)
(* copy is the row, or the call that changed it has yet to write the cache,*)
(* whatever other calls do to this and other orders.                       *)
THEOREM CacheIsRow == CacheSpec => []CacheFollowsRow
<1>1. CacheInit => CacheInv
  BY DEF CacheInit, Init, CacheInv, Coherent, Pending, PendingIsRow
<1>2. IInv /\ CacheInv /\ [CacheNext]_<<vars, disturbed>> => CacheInv'
  BY CacheStep DEF IInv
<1>3. CacheInv => CacheFollowsRow
  BY DEF CacheInv, Coherent, CacheFollowsRow
<1>4. QED
  BY <1>1, <1>2, <1>3, CacheIsService, ServiceInvariant, PTL DEF CacheSpec
=============================================================================
