---------------------------- MODULE OrderOutbox ----------------------------
(***************************************************************************)
(* The outbox relay: from the table orders_statuses_outbox to the Kafka    *)
(* topic order_audit_logs and back to the audit log.                       *)
(*                                                                         *)
(* Every instance of the server runs three goroutines (cmd/server):        *)
(* OrderOutbox.Run, the poller, claims pending tasks and sends them in     *)
(* batches to a buffered channel; OrderAuditLogProducer.Run receives a     *)
(* batch, sends each task to Kafka and deletes its row or marks it failed; *)
(* OrderAuditLogPartitionConsumer.Run reads the topic.  Instances share    *)
(* the table and the topic.                                                *)
(*                                                                         *)
(* The topic has one partition, the only one the consumer reads.  A task   *)
(* is a number, in the order of created_at; AddTask (module OrderService)  *)
(* is seen here as the moment the row becomes visible.                     *)
(***************************************************************************)
EXTENDS Integers, Sequences, FiniteSets, Functions

CONSTANTS
  Instances,    \* running servers
  NumTasks,     \* bound: tasks ever added
  OrderOf,      \* task -> the order it is about
  BatchLimit,   \* LIMIT of LockPending (100)
  JobsCount,    \* capacity of the channel (5)
  Faults        \* what the environment may do to the servers

Tasks == 1 .. NumTasks

ASSUME OutboxAssumption ==
  /\ NumTasks \in Nat
  /\ DOMAIN OrderOf = Tasks
  /\ BatchLimit \in Nat \ {0}
  /\ JobsCount \in Nat \ {0}
  /\ Faults \subseteq {"database", "broker", "signal", "crash", "restart"}

VARIABLES
  table,      \* task -> status of its row; "absent" before, "deleted" after
  picked,     \* instance -> rows the running LockPending has locked
  up,         \* instance -> "running", "stopping" (sigCtx is done), "down"
  poller,     \* instance -> where OrderOutbox.Run is
  polled,     \* instance -> the batch LockPending returned
  channel,    \* instance -> the batches in the channel
  producer,   \* instance -> where OrderAuditLogProducer.Run is
  current,    \* instance -> the tasks of its batch that are left
  log,        \* the topic
  consumer,   \* instance -> "reading" or "stopped"
  offset,     \* instance -> messages of the topic it is past
  logged,     \* tasks written to the audit log of some instance
  sent,       \* history: tasks SendMessage was called for, in order
  batches     \* history: the sets of tasks claimed, in order

tableVars    == <<table, picked>>
pollerVars   == <<poller, polled>>
producerVars == <<producer, current>>
consumerVars == <<consumer, offset, logged>>
vars == <<tableVars, up, pollerVars, channel, producerVars, log, consumerVars,
          sent, batches>>

TaskStatus == {"absent", "created", "processing", "failed", "deleted"}

(* The column order_status of a task; "" is the zero value of a string.    *)
OrderStatus ==
  {"", "received", "returned", "delivered", "refunded", "storage_ended", "none"}

(* The batches LockPending may return: RETURNING promises no order.        *)
Orderings(S) ==
  {seq \in [1 .. Cardinality(S) -> S] : Range(seq) = S}

Init ==
  /\ table    = [t \in Tasks |-> "absent"]
  /\ picked   = [i \in Instances |-> {}]
  /\ up       = [i \in Instances |-> "running"]
  /\ poller   = [i \in Instances |-> "waiting"]
  /\ polled   = [i \in Instances |-> <<>>]
  /\ channel  = [i \in Instances |-> <<>>]
  /\ producer = [i \in Instances |-> "waiting"]
  /\ current  = [i \in Instances |-> <<>>]
  /\ log      = <<>>
  /\ consumer = [i \in Instances |-> "reading"]
  /\ offset   = [i \in Instances |-> 0]
  /\ logged   = {}
  /\ sent     = <<>>
  /\ batches  = <<>>

-----------------------------------------------------------------------------
(* A transaction that called AddTask commits.  Transactions of different   *)
(* orders commit in any order; those of one order follow each other.       *)
AddTask(t) ==
  /\ table[t] = "absent"
  /\ \A u \in 1 .. t - 1 : OrderOf[u] = OrderOf[t] => table[u] # "absent"
  /\ table' = [table EXCEPT ![t] = "created"]
  /\ UNCHANGED <<picked, up, pollerVars, channel, producerVars, log,
                 consumerVars, sent, batches>>

-----------------------------------------------------------------------------
(* OrderOutbox.Run.                                                        *)

(* Mutant: a SELECT that locks nothing.                                    *)
Pending_NoRowLocks == {t \in Tasks : table[t] = "created"}

(* Mutant: a row waits until the earlier ones of its order are settled.    *)
Pending_AfterEarlier ==
  {t \in Tasks :
     /\ table[t] = "created"
     /\ \A i \in Instances : t \notin picked[i]
     /\ \A u \in 1 .. t - 1 : OrderOf[u] = OrderOf[t] => table[u] # "processing"}

(* The rows FOR UPDATE SKIP LOCKED can lock.                               *)
Pending == {t \in Tasks : table[t] = "created"
                          /\ \A i \in Instances : t \notin picked[i]}

(* Mutant: LIMIT without ORDER BY.                                         *)
IsFirst_Unordered(S, P) ==
  /\ Cardinality(S) <= BatchLimit
  /\ S # P => Cardinality(S) = BatchLimit

(* The first rows in the order of created_at, up to LIMIT.                 *)
IsFirst(S, P) ==
  /\ Cardinality(S) <= BatchLimit
  /\ S # P => Cardinality(S) = BatchLimit
  /\ \A t \in S, u \in P \ S : t < u

(* A tick: the statement of LockPending locks its rows ...                 *)
PickTasks(i) ==
  /\ poller[i] = "waiting"
  /\ up[i] = "running"
  /\ \E S \in SUBSET Pending :
       IsFirst(S, Pending) /\ picked' = [picked EXCEPT ![i] = S]
  /\ poller' = [poller EXCEPT ![i] = "locking"]
  /\ UNCHANGED <<table, up, polled, channel, producerVars, log, consumerVars,
                 sent, batches>>

Claim(i) ==
  /\ table' = [t \in Tasks |-> IF t \in picked[i] THEN "processing" ELSE table[t]]
  /\ picked' = [picked EXCEPT ![i] = {}]
  /\ batches' = IF picked[i] = {} THEN batches ELSE Append(batches, picked[i])

(* ... updates and returns them.  An empty result is a batch too.          *)
LockPending(i) ==
  /\ poller[i] = "locking"
  /\ Claim(i)
  /\ \E batch \in Orderings(picked[i]) : polled' = [polled EXCEPT ![i] = batch]
  /\ poller' = [poller EXCEPT ![i] = "sending"]
  /\ UNCHANGED <<up, channel, producerVars, log, consumerVars, sent>>

(* Any error ends Run, whether the statement took effect or not.           *)
FailLockPending(i) ==
  /\ poller[i] = "locking"
  /\ up[i] = "stopping" \/ "database" \in Faults
  /\ \/ Claim(i)
     \/ picked' = [picked EXCEPT ![i] = {}] /\ UNCHANGED <<table, batches>>
  /\ poller' = [poller EXCEPT ![i] = "stopped"]
  /\ UNCHANGED <<up, polled, channel, producerVars, log, consumerVars, sent>>

(* Mutant: the channel has one slot more than jobsCount.                   *)
SendBatch_OneTooMany(i) ==
  /\ poller[i] = "sending"
  /\ Len(channel[i]) <= JobsCount
  /\ channel' = [channel EXCEPT ![i] = Append(@, polled[i])]
  /\ polled' = [polled EXCEPT ![i] = <<>>]
  /\ poller' = [poller EXCEPT ![i] = "waiting"]
  /\ UNCHANGED <<tableVars, up, producerVars, log, consumerVars, sent, batches>>

(* w.Tasks <- tasks waits for room, and for nothing else.                  *)
SendBatch(i) ==
  /\ poller[i] = "sending"
  /\ Len(channel[i]) < JobsCount
  /\ channel' = [channel EXCEPT ![i] = Append(@, polled[i])]
  /\ polled' = [polled EXCEPT ![i] = <<>>]
  /\ poller' = [poller EXCEPT ![i] = "waiting"]
  /\ UNCHANGED <<tableVars, up, producerVars, log, consumerVars, sent, batches>>

StopPoller(i) ==
  /\ poller[i] = "waiting"
  /\ up[i] = "stopping"
  /\ poller' = [poller EXCEPT ![i] = "stopped"]
  /\ UNCHANGED <<tableVars, up, polled, channel, producerVars, log,
                 consumerVars, sent, batches>>

-----------------------------------------------------------------------------
(* OrderAuditLogProducer.Run and work.                                     *)

(* The loop over a batch: the next task, or back to the select.            *)
Continue(i, rest) ==
  /\ current' = [current EXCEPT ![i] = rest]
  /\ producer' = [producer EXCEPT ![i] = IF rest = <<>> THEN "waiting" ELSE "send"]

(* The select chooses a batch even when the context is done as well.       *)
ReceiveBatch(i) ==
  /\ producer[i] = "waiting"
  /\ channel[i] # <<>>
  /\ channel' = [channel EXCEPT ![i] = Tail(@)]
  /\ Continue(i, Head(channel[i]))
  /\ UNCHANGED <<tableVars, up, pollerVars, log, consumerVars, sent, batches>>

(* What is published for a task: the row LockPending returned has id,      *)
(* status and created_at only, the other fields are zero.                  *)
Message(t) == [id |-> t, status |-> "processing", order_status |-> ""]

Publish(t, copies) == log' = log \o [k \in 1 .. copies |-> Message(t)]

(* SendMessage: acknowledged, or an error that says nothing about whether  *)
(* the broker has stored the message.  The library's own retries may store *)
(* it twice.                                                               *)
SendMessage(i) ==
  /\ producer[i] = "send"
  /\ LET t == Head(current[i]) IN
     /\ sent' = Append(sent, t)
     /\ \/ /\ Publish(t, 1)
           /\ producer' = [producer EXCEPT ![i] = "delete"]
        \/ /\ "broker" \in Faults
           /\ \/ Publish(t, 2) /\ producer' = [producer EXCEPT ![i] = "delete"]
              \/ /\ Publish(t, 1) \/ UNCHANGED log
                 /\ producer' = [producer EXCEPT ![i] = "markFailed"]
  /\ UNCHANGED <<tableVars, up, pollerVars, channel, current, consumerVars,
                 batches>>

SetStatus(i, status) ==
  table' = [table EXCEPT ![Head(current[i])] = status]

(* The error of DeleteTask or MarkTaskAsFailed is logged and the loop goes *)
(* on; the row stays, unless the statement was executed after all.         *)
Settle(i, status) ==
  /\ \/ SetStatus(i, status)
     \/ (up[i] = "stopping" \/ "database" \in Faults) /\ UNCHANGED table
  /\ Continue(i, Tail(current[i]))
  /\ UNCHANGED <<picked, up, pollerVars, channel, log, consumerVars, sent,
                 batches>>

(* Mutant: the row is deleted whatever SendMessage answered.               *)
DeleteTask_Always(i) ==
  producer[i] \in {"delete", "markFailed"} /\ Settle(i, "deleted")

DeleteTask(i) == producer[i] = "delete" /\ Settle(i, "deleted")

(* Mutant: the loop returns at the first message that could not be sent.   *)
MarkTaskAsFailed_Returns(i) ==
  /\ producer[i] = "markFailed"
  /\ SetStatus(i, "failed")
  /\ Continue(i, <<>>)
  /\ UNCHANGED <<picked, up, pollerVars, channel, log, consumerVars, sent,
                 batches>>

(* Mutant: the row is offered to the pollers again.                        *)
MarkTaskAsFailed_Requeues(i) ==
  producer[i] = "markFailed" /\ Settle(i, "created")

MarkTaskAsFailed(i) == producer[i] = "markFailed" /\ Settle(i, "failed")

StopProducer(i) ==
  /\ producer[i] = "waiting"
  /\ up[i] = "stopping"
  /\ producer' = [producer EXCEPT ![i] = "stopped"]
  /\ UNCHANGED <<tableVars, up, pollerVars, channel, current, log,
                 consumerVars, sent, batches>>

-----------------------------------------------------------------------------
(* OrderAuditLogPartitionConsumer.Run.                                     *)

(* Mutant: reading starts anew at the end of the topic.                    *)
Consume_Newest(i) ==
  /\ consumer[i] = "reading"
  /\ offset[i] < Len(log)
  /\ offset' = [offset EXCEPT ![i] = Len(log)]
  /\ logged' = logged \cup {log[Len(log)].id}
  /\ UNCHANGED <<tableVars, up, pollerVars, channel, producerVars, log,
                 consumer, sent, batches>>

Consume(i) ==
  /\ consumer[i] = "reading"
  /\ offset[i] < Len(log)
  /\ offset' = [offset EXCEPT ![i] = @ + 1]
  /\ logged' = logged \cup {log[offset[i] + 1].id}
  /\ UNCHANGED <<tableVars, up, pollerVars, channel, producerVars, log,
                 consumer, sent, batches>>

StopConsumer(i) ==
  /\ consumer[i] = "reading"
  /\ up[i] = "stopping"
  /\ consumer' = [consumer EXCEPT ![i] = "stopped"]
  /\ UNCHANGED <<tableVars, up, pollerVars, channel, producerVars, log, offset,
                 logged, sent, batches>>

-----------------------------------------------------------------------------
(* The life of an instance.                                                *)

(* SIGINT or SIGTERM.                                                      *)
Signal(i) ==
  /\ "signal" \in Faults
  /\ up[i] = "running"
  /\ up' = [up EXCEPT ![i] = "stopping"]
  /\ UNCHANGED <<tableVars, pollerVars, channel, producerVars, log,
                 consumerVars, sent, batches>>

Stopped(i) ==
  poller[i] = "stopped" /\ producer[i] = "stopped" /\ consumer[i] = "stopped"

(* The memory of the process is gone; Postgres releases its row locks.     *)
Discard(i) ==
  /\ up'       = [up EXCEPT ![i] = "down"]
  /\ picked'   = [picked EXCEPT ![i] = {}]
  /\ poller'   = [poller EXCEPT ![i] = "stopped"]
  /\ polled'   = [polled EXCEPT ![i] = <<>>]
  /\ channel'  = [channel EXCEPT ![i] = <<>>]
  /\ producer' = [producer EXCEPT ![i] = "stopped"]
  /\ current'  = [current EXCEPT ![i] = <<>>]
  /\ consumer' = [consumer EXCEPT ![i] = "stopped"]
  /\ UNCHANGED <<table, log, offset, logged, sent, batches>>

(* wg.Wait returns when every goroutine has.                               *)
Exit(i) == up[i] = "stopping" /\ Stopped(i) /\ Discard(i)

Crash(i) == "crash" \in Faults /\ up[i] # "down" /\ Discard(i)

(* The consumer attaches to the end of the topic before the producer is    *)
(* started.                                                                *)
Start(i) ==
  /\ "restart" \in Faults
  /\ up[i] = "down"
  /\ up'       = [up EXCEPT ![i] = "running"]
  /\ poller'   = [poller EXCEPT ![i] = "waiting"]
  /\ producer' = [producer EXCEPT ![i] = "waiting"]
  /\ consumer' = [consumer EXCEPT ![i] = "reading"]
  /\ offset'   = [offset EXCEPT ![i] = Len(log)]
  /\ UNCHANGED <<tableVars, polled, channel, current, log, logged, sent, batches>>

PollerStep(i) ==
  PickTasks(i) \/ LockPending(i) \/ FailLockPending(i) \/ SendBatch(i)
    \/ StopPoller(i)

ProducerStep(i) ==
  ReceiveBatch(i) \/ SendMessage(i) \/ DeleteTask(i) \/ MarkTaskAsFailed(i)
    \/ StopProducer(i)

ConsumerStep(i) == Consume(i) \/ StopConsumer(i)

Next ==
  \/ \E t \in Tasks : AddTask(t)
  \/ \E i \in Instances :
       PollerStep(i) \/ ProducerStep(i) \/ ConsumerStep(i)
         \/ Signal(i) \/ Exit(i) \/ Crash(i) \/ Start(i)

Spec == Init /\ [][Next]_vars

(* Goroutines are scheduled, the ticker ticks, statements and SendMessage  *)
(* return, and a process whose goroutines have returned exits.             *)
FairSpec ==
  /\ Spec
  /\ \A i \in Instances :
       /\ WF_vars(PollerStep(i)) /\ WF_vars(ProducerStep(i))
       /\ WF_vars(ConsumerStep(i)) /\ WF_vars(Exit(i))

-----------------------------------------------------------------------------
(* Properties.                                                             *)

Batch == {seq \in Seq(Tasks) :
            /\ Len(seq) <= BatchLimit
            /\ \A j, k \in DOMAIN seq : seq[j] = seq[k] => j = k}

(* The tasks the topic has a message of.                                   *)
Published == {log[k].id : k \in DOMAIN log}

(* The values of the variables; a batch holds no task twice and fits LIMIT *)
(* of LockPending, and the channel never holds more than jobsCount         *)
(* batches (cmd/server).                                                   *)
TypeOK ==
  /\ table    \in [Tasks -> TaskStatus]
  /\ picked   \in [Instances -> SUBSET Tasks]
  /\ up       \in [Instances -> {"running", "stopping", "down"}]
  /\ poller   \in [Instances -> {"waiting", "locking", "sending", "stopped"}]
  /\ polled   \in [Instances -> Batch]
  /\ channel  \in [Instances -> Seq(Batch)]
  /\ producer \in [Instances ->
                     {"waiting", "send", "delete", "markFailed", "stopped"}]
  /\ current  \in [Instances -> Batch]
  /\ log      \in Seq([id : Tasks, status : TaskStatus, order_status : OrderStatus])
  /\ consumer \in [Instances -> {"reading", "stopped"}]
  /\ offset   \in [Instances -> 0 .. Len(log)]
  /\ logged \subseteq Published
  /\ sent     \in Seq(Tasks)
  /\ batches  \in Seq(SUBSET Tasks)
  /\ \A i \in Instances :
       Len(channel[i]) <= JobsCount /\ Cardinality(picked[i]) <= BatchLimit

(* LockPending's FOR UPDATE SKIP LOCKED: however the polls of all the      *)
(* instances overlap, and whatever crashes or fails, SendMessage is called *)
(* at most once for a task.                                                *)
SentOnce == \A j, k \in DOMAIN sent : sent[j] = sent[k] => j = k

(* work deletes a row only when the broker has its message: a task that is *)
(* gone from the table is in the topic.                                    *)
DeletedMeansPublished ==
  \A t \in Tasks : table[t] = "deleted" => t \in Published

(* The relay implements AuditRelay: the rows are the fate of the tasks.    *)
(* Locks, batches, channels, consumers and the lives of the servers are    *)
(* invisible there, and so are retries of the broker's library.            *)
Relay == INSTANCE AuditRelay WITH fate <- table, topic <- Published

(* No overlap of polls, failure, crash or restart takes a task back, hands *)
(* it over twice, deletes it unpublished or gives it up untried.           *)
ImplementsRelay == Relay!Spec

(* One relay keeps the changes of an order in order from one batch to the  *)
(* next: a later task is sent before an earlier one of the same order only *)
(* if one LockPending claimed both.  Within a batch nothing is promised,   *)
(* RETURNING is free to reorder.                                           *)
OrderAcrossBatches ==
  \A j, k \in DOMAIN sent :
    (j < k /\ sent[k] < sent[j] /\ OrderOf[sent[j]] = OrderOf[sent[k]])
      => \E b \in Range(batches) : {sent[j], sent[k]} \subseteq b

Contents(ch) == UNION {Range(b) : b \in Range(ch)}

(* The tasks an instance has claimed and not settled.                      *)
Held(i) == Range(polled[i]) \cup Contents(channel[i]) \cup Range(current[i])

(* A row in status processing is in the hands of some instance: nothing    *)
(* else would ever look at it again, LockPending takes created rows only.  *)
ClaimsHeld ==
  \A t \in Tasks : table[t] = "processing" => \E i \in Instances : t \in Held(i)

(* The relay as a whole: when the instances keep running and the database  *)
(* answers, a task is published, deleted and written to the audit log, or  *)
(* ends up failed, whatever the broker does.                               *)
TaskSettles ==
  \A t \in Tasks :
    table[t] = "created" ~> table[t] = "failed"
                              \/ (table[t] = "deleted" /\ t \in logged)

(* README.md: "Graceful shutdown": after SIGINT or SIGTERM wg.Wait returns *)
(* and the server exits.                                                   *)
ShutdownCompletes ==
  \A i \in Instances : up[i] = "stopping" ~> up[i] = "down"

(* The "audit log record" of the consumer says to what status the order    *)
(* has changed.                                                            *)
LogTellsOrderStatus == \A k \in DOMAIN log : log[k].order_status # ""

-----------------------------------------------------------------------------
(* The inductive invariant behind SentOnce, DeletedMeansPublished and      *)
(* ImplementsRelay.                                                        *)

(* What a goroutine has in hand follows from where it is.                  *)
Control(i) ==
  /\ poller[i] # "locking" => picked[i] = {}
  /\ poller[i] # "sending" => polled[i] = <<>>
  /\ current[i] = <<>> <=> producer[i] \in {"waiting", "stopped"}

DownIsStopped == \A i \in Instances : up[i] = "down" => Stopped(i)

(* A row lock is on a created row and excludes other pollers.              *)
LocksExclude ==
  \A i \in Instances :
    /\ \A t \in picked[i] : table[t] = "created"
    /\ \A j \in Instances : i # j => picked[i] \cap picked[j] = {}

Apart(ch) ==
  \A m, n \in DOMAIN ch : m # n => Range(ch[m]) \cap Range(ch[n]) = {}

(* A task is in one place of one instance.                                 *)
OneHand ==
  \A i \in Instances :
    /\ Apart(channel[i])
    /\ Range(polled[i]) \cap Contents(channel[i]) = {}
    /\ Range(polled[i]) \cap Range(current[i]) = {}
    /\ Contents(channel[i]) \cap Range(current[i]) = {}
    /\ \A j \in Instances : i # j => Held(i) \cap Held(j) = {}

(* The first task of the batch has been handed to the broker.              *)
HeadTried(i) == producer[i] \in {"delete", "markFailed"}

Unsent(i) ==
  Range(polled[i]) \cup Contents(channel[i])
    \cup Range(IF HeadTried(i) THEN Tail(current[i]) ELSE current[i])

(* The row of a task in hand says so; a task in hand was not sent, but for *)
(* the one whose answer the producer is dealing with.                      *)
Progress(i) ==
  /\ \A t \in Held(i) : table[t] = "processing"
  /\ Unsent(i) \cap Range(sent) = {}
  /\ HeadTried(i) => Head(current[i]) \in Range(sent)
  /\ producer[i] = "delete" => Head(current[i]) \in Published

UnclaimedUnsent ==
  \A t \in Tasks : table[t] \in {"absent", "created"} => t \notin Range(sent)

IInv ==
  /\ TypeOK
  /\ \A i \in Instances : Control(i) /\ Progress(i)
  /\ DownIsStopped
  /\ LocksExclude
  /\ OneHand
  /\ UnclaimedUnsent
  /\ SentOnce
  /\ DeletedMeansPublished
=============================================================================
