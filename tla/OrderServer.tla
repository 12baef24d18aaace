---------------------------- MODULE OrderServer -----------------------------
(***************************************************************************)
(* The server process: the calls its two transports serve, main and the    *)
(* goroutines of the outbox relay, from the first call to the exit after   *)
(* SIGINT or SIGTERM (cmd/server, handlers/http, handlers/grpc).           *)
(*                                                                         *)
(* A call here is CreateOrder, or UpdateOrders of one order: it makes one  *)
(* change.  Module OrderService says what the change is and when it is     *)
(* refused; here it is the task that its transaction leaves in the outbox, *)
(* and a call bears the task's number.  Module OrderOutbox says what       *)
(* becomes of the task.  DeleteOrder adds no task and is not followed.     *)
(*                                                                         *)
(* Transactions run under the context of the signal (tx_manager), not      *)
(* under that of the request: from the signal on none can begin, and the   *)
(* answer of a COMMIT that is on its way may be lost.                      *)
(*                                                                         *)
(* The module follows one life of each process, from the listening ports   *)
(* to the exit; deaths and restarts are in OrderOutbox and OrderService.   *)
(***************************************************************************)
EXTENDS OrderOutbox

VARIABLES
  call,     \* task -> how far the call that adds it is, or its answer
  place,    \* task -> the server and the transport of a call that runs
  main,     \* instance -> where main is
  httpSrv   \* instance -> the HTTP server's life

callVars   == <<call, place>>
serverVars == <<callVars, main, httpSrv>>
allVars    == <<vars, serverVars>>

Transports == {"http", "grpc"}
Nowhere    == <<>>

Running == {"open", "committing", "executed"}
Answers == {"ok", "error"}

ServerInit ==
  /\ Init
  /\ call    = [c \in Tasks |-> "none"]
  /\ place   = [c \in Tasks |-> Nowhere]
  /\ main    = [i \in Instances |-> "serving"]
  /\ httpSrv = [i \in Instances |-> "serving"]

CallsOn(i, transport) ==
  {c \in Tasks : call[c] \in Running /\ place[c] = <<i, transport>>}

-----------------------------------------------------------------------------
(* A call.                                                                 *)

(* A listener accepts until its server is told to shut down.               *)
Accepts(i, transport) ==
  /\ up[i] # "down"
  /\ IF transport = "grpc" THEN main[i] = "serving" ELSE httpSrv[i] = "serving"

Advance(c, phase) == call' = [call EXCEPT ![c] = phase]

(* Mutant: the server still counts a call it has answered.                 *)
End_StillCounted(c, answer) == Advance(c, answer) /\ UNCHANGED place

End(c, answer) == Advance(c, answer) /\ place' = [place EXCEPT ![c] = Nowhere]

(* A client calls, or calls again after an error.  That a change which was *)
(* made all the same is refused the second time is OrderService's subject. *)
Call(c, i, transport) ==
  /\ call[c] \in {"none", "error"}
  /\ table[c] = "absent"
  /\ Accepts(i, transport)
  /\ Advance(c, "open")
  /\ place' = [place EXCEPT ![c] = <<i, transport>>]
  /\ UNCHANGED <<vars, main, httpSrv>>

(* A transaction, up to COMMIT.  A change that does not follow from the    *)
(* last one of its order is refused.                                       *)
RunTx(c) ==
  /\ call[c] = "open"
  /\ up[place[c][1]] = "running"
  /\ \A u \in 1 .. c - 1 : OrderOf[u] = OrderOf[c] => table[u] # "absent"
  /\ Advance(c, "committing")
  /\ UNCHANGED <<vars, place, main, httpSrv>>

(* The handler refuses the request, the service the change, or a statement *)
(* fails: 400, 500 and Internal are all the same to the server.            *)
Refuse(c) ==
  /\ call[c] = "open"
  /\ End(c, "error")
  /\ UNCHANGED <<vars, main, httpSrv>>

(* COMMIT takes effect.                                                    *)
CommitTakesEffect(c) ==
  /\ call[c] = "committing"
  /\ AddTask(c)
  /\ Advance(c, "executed")
  /\ UNCHANGED <<place, main, httpSrv>>

(* Mutant: the error of Commit is not returned.                            *)
CommitFails_Ignored(c) ==
  /\ call[c] = "committing"
  /\ up[place[c][1]] = "stopping" \/ "database" \in Faults
  /\ Advance(c, "executed")
  /\ UNCHANGED <<vars, place, main, httpSrv>>

(* COMMIT fails: the context is done or the connection breaks.             *)
CommitFails(c) ==
  /\ call[c] = "committing"
  /\ up[place[c][1]] = "stopping" \/ "database" \in Faults
  /\ End(c, "error")
  /\ UNCHANGED <<vars, main, httpSrv>>

(* The answer of COMMIT arrives, the cache is written and the call         *)
(* answered; what fails on the way is the call's error.                    *)
Respond(c) ==
  /\ call[c] = "executed"
  /\ End(c, "ok") \/ End(c, "error")
  /\ UNCHANGED <<vars, main, httpSrv>>

CallStep(c) ==
  RunTx(c) \/ Refuse(c) \/ CommitTakesEffect(c) \/ CommitFails(c) \/ Respond(c)

-----------------------------------------------------------------------------
(* main and HTTPHandler.Serve.                                             *)

(* <-sigCtx.Done(): GracefulStop accepts no call any more ...              *)
GracefulStop(i) ==
  /\ main[i] = "serving"
  /\ up[i] = "stopping"
  /\ main' = [main EXCEPT ![i] = "draining"]
  /\ UNCHANGED <<vars, callVars, httpSrv>>

(* Mutant: Stop for GracefulStop.                                          *)
GrpcStopped_AtOnce(i) ==
  /\ main[i] = "draining"
  /\ main' = [main EXCEPT ![i] = "waiting"]
  /\ UNCHANGED <<vars, callVars, httpSrv>>

(* ... and waits for those that run, as long as it takes.                  *)
GrpcStopped(i) ==
  /\ main[i] = "draining"
  /\ CallsOn(i, "grpc") = {}
  /\ main' = [main EXCEPT ![i] = "waiting"]
  /\ UNCHANGED <<vars, callVars, httpSrv>>

(* Mutant: the handler waits for the context main cancels when it returns. *)
Shutdown_RootContext(i) ==
  /\ httpSrv[i] = "serving"
  /\ up[i] = "down"
  /\ httpSrv' = [httpSrv EXCEPT ![i] = "draining"]
  /\ UNCHANGED <<vars, callVars, main>>

Shutdown(i) ==
  /\ httpSrv[i] = "serving"
  /\ up[i] = "stopping"
  /\ httpSrv' = [httpSrv EXCEPT ![i] = "draining"]
  /\ UNCHANGED <<vars, callVars, main>>

(* Shutdown returns when no call runs, or after five seconds.              *)
ShutdownReturns(i) ==
  /\ httpSrv[i] = "draining"
  /\ httpSrv' = [httpSrv EXCEPT ![i] =
                   IF CallsOn(i, "http") = {} THEN "drained" ELSE "timedOut"]
  /\ UNCHANGED <<vars, callVars, main>>

-----------------------------------------------------------------------------
(* The process.                                                            *)

(* A call that runs when the process ends is never answered.               *)
CutCalls(i) ==
  /\ call' = [c \in Tasks |->
       IF \E tr \in Transports : c \in CallsOn(i, tr) THEN "cut" ELSE call[c]]
  /\ place' = [c \in Tasks |->
       IF \E tr \in Transports : c \in CallsOn(i, tr) THEN Nowhere ELSE place[c]]

(* wg.Wait returns: all five goroutines have.                              *)
MainReturns(i) ==
  /\ main[i] = "waiting"
  /\ httpSrv[i] \in {"drained", "timedOut"}
  /\ Exit(i)
  /\ CutCalls(i)
  /\ UNCHANGED <<main, httpSrv>>

ShutdownStep(i) == Shutdown(i) \/ ShutdownReturns(i)

MainStep(i) == GracefulStop(i) \/ GrpcStopped(i) \/ MainReturns(i)

RelayStep(i) ==
  /\ PollerStep(i) \/ ProducerStep(i) \/ ConsumerStep(i)
  /\ UNCHANGED serverVars

StopServer(i) == Signal(i) /\ UNCHANGED serverVars

ServerNext ==
  \/ \E c \in Tasks :
       CallStep(c) \/ \E i \in Instances, tr \in Transports : Call(c, i, tr)
  \/ \E i \in Instances :
       RelayStep(i) \/ StopServer(i) \/ ShutdownStep(i) \/ MainStep(i)

ServerSpec == ServerInit /\ [][ServerNext]_allVars

(* Something goes on wherever something can: among the calls, between main *)
(* and the HTTP server, and in the relay.  The scheduler and the timers    *)
(* promise more, to each goroutine.                                        *)
FairServer ==
  /\ ServerSpec
  /\ WF_allVars(\E c \in Tasks : CallStep(c))
  /\ \A i \in Instances :
       WF_allVars(ShutdownStep(i) \/ MainStep(i)) /\ WF_allVars(RelayStep(i))

-----------------------------------------------------------------------------
(* Properties.                                                             *)

ServerTypeOK ==
  /\ TypeOK
  /\ call \in [Tasks -> {"none", "cut"} \cup Running \cup Answers]
  /\ place \in [Tasks -> (Instances \X Transports) \cup {Nowhere}]
  /\ main \in [Instances -> {"serving", "draining", "waiting"}]
  /\ httpSrv \in [Instances -> {"serving", "draining", "drained", "timedOut"}]
  /\ \A c \in Tasks : place[c] = Nowhere <=> call[c] \notin Running

(* A client that is told its call is done can rely on it: the task is in   *)
(* the outbox, whatever the call ran into, the signal included.            *)
OkMeansAdded == \A c \in Tasks : call[c] = "ok" => table[c] # "absent"

(* README.md, graceful shutdown: the process leaves no call without an     *)
(* answer but those of HTTP that outlast the five seconds of Shutdown.     *)
CutOnlyOverdue ==
  [][\A c \in Tasks :
       (call[c] # "cut" /\ call'[c] = "cut") =>
         place[c][2] = "http" /\ httpSrv[place[c][1]] = "timedOut"]_allVars

(* The poller sends to a full channel the producer has left.               *)
Stuck(i) ==
  poller[i] = "sending" /\ Len(channel[i]) = JobsCount /\ producer[i] = "stopped"

(* A server that is told to stop does, unless its poller is stuck: nothing *)
(* else in the shutdown of main, the two servers and the three goroutines  *)
(* can hang.                                                               *)
StuckOnlyInSend ==
  \A i \in Instances : up[i] = "stopping" ~> up[i] = "down" \/ Stuck(i)

(* A task that is waiting is claimed, unless no poller is left: failed     *)
(* statements, failed messages and rows that are never settled do not keep *)
(* the others waiting.                                                     *)
ClaimedWhilePolled ==
  \A t \in Tasks :
    table[t] = "created" ~>
      \/ table[t] # "created"
      \/ \A i \in Instances : poller[i] = "stopped" \/ Stuck(i)
=============================================================================
