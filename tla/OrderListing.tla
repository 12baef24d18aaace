---------------------------- MODULE OrderListing ----------------------------
(***************************************************************************)
(* The listings of orders while orders change.                             *)
(*                                                                         *)
(* The writers are OrderLifecycle, which OrderService implements (theorem  *)
(* ServiceImplementsLifecycle): they commit one step of the life of one    *)
(* order at a time, and the records of an order in the tables are those    *)
(* announced for it (theorem AuditCorrect).                                *)
(*                                                                         *)
(* The reader serves one listing call at a time, from a route of the HTTP  *)
(* router or from gRPC.  GetList sends two SELECTs on the pool, outside    *)
(* any transaction, so writers commit in between.  Among the clients is    *)
(* one that reads GET /orders page after page: it asks from where the rows *)
(* it has received end, until it gets none; the others ask for anything.   *)
(*                                                                         *)
(* A list is a function from the ids it holds to what it tells of each     *)
(* order; its order is that of the ids.                                    *)
(***************************************************************************)
EXTENDS Integers, Sequences, FiniteSets, Functions

CONSTANTS
  MaxOrders,      \* bound: last id
  DefaultLimit,   \* defaultLimit of paginate (10)
  MaxLimit,       \* maxLimit of paginate (100)
  Numbers,        \* the integers a client sends as offset or limit
  NotANumber,     \* a parameter that is left out, or that ParseInt refuses
  Routes          \* the routes in use

OrderId == 1 .. MaxOrders

AllRoutes == {"orders", "refunds", "orders-history", "grpc"}

ASSUME ListingAssumption ==
  /\ MaxOrders \in Nat
  /\ DefaultLimit \in Nat \ {0}
  /\ MaxLimit \in Nat \ {0}
  /\ Numbers \subseteq Int
  /\ NotANumber \notin Int
  /\ Routes \subseteq AllRoutes

VARIABLES
  status, audit,   \* the tables: see OrderLifecycle
  pc,              \* "idle", "running" or "done"
  todo,            \* the SELECTs of GetList still to send
  call,            \* client, route, offset and limit of the call
  page,            \* result of the SELECT from orders: id -> status
  records,         \* result of the SELECT from order_records: id -> statuses
  reply,           \* the list: id -> status and history
  asked,           \* history: the ids in the table when the call began
  walk             \* the client that reads page after page

tables == <<status, audit>>
reader == <<pc, todo, call, page, records, reply, asked>>
vars   == <<tables, reader, walk>>

Writers == INSTANCE OrderLifecycle WITH Ids <- OrderId

Nothing == [i \in {} |-> 0]

(* The ids the tables hold, and those they held once.                      *)
Rows == {i \in OrderId : status[i] \notin {"none", "gone"}}
Gone == {i \in OrderId : status[i] = "gone"}

(* `from' is the offset of the next page, `due' the ids that were there    *)
(* when the walk began and have not been received, and `lost' counts the   *)
(* orders that have left since.                                            *)
NewWalk == [from |-> 0, due |-> Rows, lost |-> 0, over |-> FALSE]

NoCall == [client |-> "any", route |-> "orders", offset |-> 0, limit |-> 0]

Init ==
  /\ Writers!Init
  /\ pc      = "idle"
  /\ todo    = <<>>
  /\ call    = NoCall
  /\ page    = Nothing
  /\ records = Nothing
  /\ reply   = Nothing
  /\ asked   = {}
  /\ walk    = NewWalk

(* A call that changes an order commits.                                   *)
Change ==
  /\ Writers!Next
  /\ walk' = [walk EXCEPT !.lost = IF Gone' = Gone THEN @ ELSE @ + 1]
  /\ UNCHANGED reader

-----------------------------------------------------------------------------
(* The handlers.                                                           *)

Least(a, b) == IF a < b THEN a ELSE b

(* The middleware paginate.                                                *)
PaginateLimit(value) ==
  IF value # NotANumber /\ value > 0 THEN Least(value, MaxLimit) ELSE DefaultLimit

PaginateOffset(value) ==
  IF value # NotANumber /\ value >= 0 THEN value ELSE 0

(* Mutant: the records are read first.                                     *)
Statements_RecordsFirst == <<"records", "orders">>

(* GetList: the SELECTs in the order they are sent.                        *)
Statements == <<"orders", "records">>

Call(client, route, offset, limit) ==
  /\ pc = "idle"
  /\ route \in Routes
  /\ pc'    = "running"
  /\ todo'  = Statements
  /\ call'  = [client |-> client, route |-> route,
               offset |-> offset, limit |-> limit]
  /\ asked' = {i \in Rows : route = "refunds" => status[i] = "refunded"}
  /\ UNCHANGED <<tables, page, records, reply>>

(* GET /orders, behind paginate.                                           *)
ListOrders(client, offset) ==
  \E limit \in Numbers \cup {NotANumber} :
    Call(client, "orders", PaginateOffset(offset), PaginateLimit(limit))

AskOrders ==
  /\ \E offset \in Numbers \cup {NotANumber} : ListOrders("any", offset)
  /\ UNCHANGED walk

(* The client that reads all pages asks for the next.                      *)
AskNextPage ==
  /\ ~walk.over
  /\ ListOrders("walk", walk.from)
  /\ UNCHANGED walk

(* It starts again.                                                        *)
StartWalk ==
  /\ pc = "idle"
  /\ walk.over
  /\ walk' = NewWalk
  /\ UNCHANGED <<tables, reader>>

(* GET /orders/refunds and GET /orders-history have no paginate: offset    *)
(* and limit are the zero values of the failed type assertions.            *)
ListUnpaginated ==
  /\ \E route \in {"refunds", "orders-history"} : Call("any", route, 0, 0)
  /\ UNCHANGED walk

(* GetOrders of the gRPC server passes on what it gets.                    *)
GetOrders ==
  /\ \E offset, limit \in Numbers : Call("any", "grpc", offset, limit)
  /\ UNCHANGED walk

-----------------------------------------------------------------------------
(* GetList.                                                                *)

Before(i) == Cardinality({j \in Rows : j < i})

(* Mutant: OFFSET counted from one.                                        *)
InPage_OffByOne(i) ==
  Before(i) > call.offset /\ Before(i) <= call.offset + call.limit

(* Mutant: the page ends at the row after its last.                        *)
InPage_Inclusive(i) ==
  Before(i) >= call.offset /\ Before(i) <= call.offset + call.limit

(* ORDER BY id LIMIT limit OFFSET offset.                                  *)
InPage(i) == Before(i) >= call.offset /\ Before(i) < call.offset + call.limit

(* Postgres refuses a negative LIMIT or OFFSET.                            *)
SelectOrders ==
  /\ pc = "running"
  /\ todo # <<>> /\ Head(todo) = "orders"
  /\ call.offset >= 0 /\ call.limit >= 0
  /\ page' = [i \in {j \in Rows : InPage(j)} |-> status[i]]
  /\ todo' = Tail(todo)
  /\ UNCHANGED <<tables, pc, call, records, reply, asked, walk>>

(* What a sequence of different elements may be read as when the order of  *)
(* its elements is lost.                                                   *)
Arrangements(seq) ==
  {s \in [DOMAIN seq -> Range(seq)] : Range(s) = Range(seq)}

(* The records of all orders; those of a deleted order went with it.  They *)
(* come ORDER BY order_id, TIMESTAMP, the clock of the server that made    *)
(* the change: with several servers that need not be the order in which    *)
(* the changes were committed.                                             *)
SelectRecords ==
  /\ pc = "running"
  /\ todo # <<>> /\ Head(todo) = "records"
  /\ records' \in {f \in [Rows -> UNION {Arrangements(audit[i]) : i \in Rows}] :
                     \A i \in Rows : f[i] \in Arrangements(audit[i])}
  /\ todo' = Tail(todo)
  /\ UNCHANGED <<tables, pc, call, page, reply, asked, walk>>

(* What the call has read is dropped, and then the call.                   *)
Finish(list) ==
  /\ reply'   = list
  /\ todo'    = <<>>
  /\ page'    = Nothing
  /\ records' = Nothing
  /\ UNCHANGED tables

Forget == call' = NoCall /\ asked' = {}

(* Either SELECT may fail; the client asks again.                          *)
FailSelect ==
  /\ pc = "running"
  /\ todo # <<>>
  /\ pc' = "idle"
  /\ Finish(Nothing) /\ Forget
  /\ UNCHANGED walk

HistoryOf(i) == IF i \in DOMAIN records THEN records[i] ELSE <<>>

(* GetAllRefunds drops what is not refunded, after the page was cut.       *)
Listed(i) == call.route = "refunds" => page[i] = "refunded"

(* The rows are joined with their records.                                 *)
Answer ==
  /\ pc = "running"
  /\ todo = <<>>
  /\ pc' = "done"
  /\ Finish([i \in {j \in DOMAIN page : Listed(j)} |->
               [status |-> page[i], history |-> HistoryOf(i)]])
  /\ UNCHANGED <<call, asked, walk>>

Receive ==
  /\ pc = "done"
  /\ pc' = "idle"
  /\ walk' = IF call.client = "walk"
             THEN [walk EXCEPT !.from = @ + Cardinality(DOMAIN reply),
                               !.due = @ \ DOMAIN reply,
                               !.over = DOMAIN reply = {}]
             ELSE walk
  /\ Finish(Nothing) /\ Forget

Next ==
  \/ Change
  \/ AskOrders \/ AskNextPage \/ StartWalk \/ ListUnpaginated \/ GetOrders
  \/ SelectOrders \/ SelectRecords \/ FailSelect \/ Answer \/ Receive

Spec == Init /\ [][Next]_vars

-----------------------------------------------------------------------------
(* Properties.                                                             *)

Statuses == {"received", "delivered", "storage_ended", "refunded"}

(* The values of the variables.  A call that has read rows was given a     *)
(* limit Postgres accepts, and neither reads nor returns more orders than  *)
(* that.                                                                   *)
TypeOK ==
  /\ status \in [OrderId -> Statuses \cup {"none", "gone"}]
  /\ audit  \in [OrderId -> Seq(Statuses)]
  /\ pc \in {"idle", "running", "done"}
  /\ todo \in {<<>>, <<"records">>, Statements}
  /\ call \in [client : {"walk", "any"}, route : AllRoutes, offset : Int, limit : Int]
  /\ DOMAIN page \subseteq OrderId /\ DOMAIN records \subseteq OrderId
  /\ DOMAIN reply \subseteq OrderId
  /\ walk.from \in Nat /\ walk.due \subseteq OrderId /\ walk.lost \in Nat
  /\ page # Nothing => Cardinality(DOMAIN page) <= call.limit
  /\ reply # Nothing => Cardinality(DOMAIN reply) <= call.limit

(* The statuses of the records of an order that has come to this status.   *)
Past(s) ==
  CASE s = "received"      -> {"received"}
    [] s = "delivered"     -> {"received", "delivered"}
    [] s = "storage_ended" -> {"received", "storage_ended"}
    [] s = "refunded"      -> {"received", "delivered", "refunded"}

(* GetList joins the results of two SELECTs that see different moments: a  *)
(* listed order's history may run ahead of its status, but it never lags   *)
(* behind it, and it is missing only when the order has left by the time   *)
(* the list is answered.                                                   *)
HistoryNeverLags ==
  \A i \in DOMAIN reply :
    \/ Past(reply[i].status) \subseteq Range(reply[i].history)
    \/ reply[i].history = <<>> /\ status[i] = "gone"

(* OFFSET counts rows, so a page shifts when rows come and go.  A client   *)
(* that reads GET /orders page after page until it gets none may miss      *)
(* orders that were there when it began and still are, but never more of   *)
(* them than orders were returned to the courier meanwhile: each return    *)
(* hides one order at the most, and orders that are added hide none.       *)
WalkComplete ==
  walk.over => Cardinality(walk.due \ Gone) <= walk.lost

(* paginate: "defaultLimit int64 = 10".  A route of the HTTP router that   *)
(* is asked for the first page answers with an empty list only if nothing  *)
(* was there to be listed for the whole time of the call.                  *)
EmptyMeansNothing ==
  (pc = "done" /\ call.route # "grpc" /\ call.offset = 0 /\ reply = Nothing)
    => asked \cap {i \in Rows : call.route = "refunds" => status[i] = "refunded"} = {}
=============================================================================
