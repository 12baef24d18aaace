----------------------------- MODULE OrderCache -----------------------------
(***************************************************************************)
(* What the cache tells, order by order, while calls overlap and fail:     *)
(* OrderService with a history variable.                                   *)
(*                                                                         *)
(* Nothing in the code makes COMMIT and the command to Redis that follows  *)
(* it one step.  `disturbed' holds the orders after whose last change the  *)
(* two may have come apart:                                                *)
(*   - the change was committed while the command of another call for the  *)
(*     same order was still on its way, and may arrive after it;           *)
(*   - or the call that made the change never got to carry out its own     *)
(*     command, because the answer of COMMIT was lost, the command         *)
(*     returned an error or the process died.                              *)
(* A change that is committed undisturbed puts the order right again.      *)
(***************************************************************************)
EXTENDS OrderService

VARIABLE disturbed

CacheInit == Init /\ disturbed = {}

(* The worker is about to write to the cache, what a call has committed or *)
(* what GetOrderByID has read.                                             *)
Pending(w, i) == pc[w] \in {"cacheSet", "cacheDel"} /\ Id(w) = i

(* It has committed what it is about to write.                             *)
Follows(w, i) == Pending(w, i) /\ req[w].op # "get"

CommitCached(w) ==
  /\ Commit(w)
  /\ disturbed' = IF \E v \in Workers \ {w} : Pending(v, Id(w))
                  THEN disturbed \cup {Id(w)}
                  ELSE disturbed \ {Id(w)}

CommitUncached(w) ==
  /\ CommitUnacknowledged(w)
  /\ disturbed' = disturbed \cup {Id(w)}

FailCacheWriteOf(w) ==
  /\ FailCacheWrite(w)
  /\ disturbed' = disturbed \cup {i \in OrderId : Follows(w, i)}

CrashUncached ==
  /\ Crash
  /\ disturbed' = disturbed \cup {i \in OrderId : \E w \in Workers : Follows(w, i)}

(* Everything else.                                                        *)
OtherStep(w) ==
  /\ \/ Begin(w) \/ Add(w) \/ Read(w) \/ Update(w) \/ AddHistoryRecord(w)
     \/ AddTask(w) \/ Delete(w) \/ CacheSet(w) \/ CacheDel(w) \/ CacheGet(w)
     \/ DbRead(w) \/ Reply(w) \/ FailStatement(w) \/ FailCacheGet(w)
  /\ UNCHANGED disturbed

CacheNext ==
  \/ \E w \in Workers :
       \/ CommitCached(w) \/ CommitUncached(w) \/ FailCacheWriteOf(w)
       \/ OtherStep(w)
  \/ CrashUncached
  \/ Tick /\ UNCHANGED disturbed

CacheSpec == CacheInit /\ [][CacheNext]_<<vars, disturbed>>

(* A cached order is its row, unless the call that changed the row last    *)
(* has yet to write the cache or the change was disturbed: SetOrder and    *)
(* DeleteOrder leave behind what was committed, GetOrderByID caches only   *)
(* what it has read since, and no failed statement, lookup or fill takes   *)
(* the cache away from the table.                                          *)
CacheFollowsRow ==
  \A i \in OrderId \ disturbed :
    \/ cache[i] \in {NoOrder, orders[i]}
    \/ \E w \in Workers : Follows(w, i)
=============================================================================
