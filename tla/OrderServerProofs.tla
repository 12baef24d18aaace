-------------------------- MODULE OrderServerProofs --------------------------
(***************************************************************************)
(* Theorems about OrderServer, for every number of servers and calls.      *)
(***************************************************************************)
EXTENDS OrderServer, OutboxOrderProofs

(* What the calls do to the outbox, the relay could meet anyway.           *)
LEMMA ServerStepIsOutboxStep == [ServerNext]_allVars => [Next]_vars
<1> SUFFICES ASSUME [ServerNext]_allVars
             PROVE  Next \/ UNCHANGED vars
  OBVIOUS
<1>1. ASSUME NEW c \in Tasks, CallStep(c)
      PROVE  Next \/ UNCHANGED vars
  <2>1. CASE CommitTakesEffect(c)
    BY <2>1 DEF CommitTakesEffect, Next
  <2>2. CASE RunTx(c) \/ Refuse(c) \/ CommitFails(c) \/ Respond(c)
    BY <2>2 DEF RunTx, Refuse, CommitFails, Respond
  <2>3. QED
    BY <1>1, <2>1, <2>2 DEF CallStep
<1>2. ASSUME NEW c \in Tasks, NEW i \in Instances, NEW tr \in Transports,
             Call(c, i, tr)
      PROVE  UNCHANGED vars
  BY <1>2 DEF Call
<1>3. ASSUME NEW i \in Instances,
             RelayStep(i) \/ StopServer(i) \/ MainReturns(i)
      PROVE  Next
  BY <1>3 DEF RelayStep, StopServer, MainReturns, Next
<1>4. ASSUME NEW i \in Instances,
             ShutdownStep(i) \/ GracefulStop(i) \/ GrpcStopped(i)
      PROVE  UNCHANGED vars
  BY <1>4 DEF ShutdownStep, Shutdown, ShutdownReturns, GracefulStop, GrpcStopped
<1>5. CASE UNCHANGED allVars
  BY <1>5 DEF allVars
<1>6. QED
  BY <1>1, <1>2, <1>3, <1>4, <1>5 DEF ServerNext, MainStep

(* The composed server is a behaviour of OrderOutbox: what is proved of    *)
(* the relay holds for the server with its calls and its shutdown.         *)
LEMMA ServerIsOutbox == ServerSpec => Spec
<1>1. ServerInit => Init
  BY DEF ServerInit
<1>2. QED
  BY <1>1, ServerStepIsOutboxStep, PTL DEF ServerSpec, Spec

-----------------------------------------------------------------------------
(* Calls and shutdown.                                                     *)

(* A transport that says it is done has no call, and a call past COMMIT    *)
(* has its task in the outbox.                                             *)
Drained ==
  /\ call \in [Tasks -> {"none", "cut"} \cup Running \cup Answers]
  /\ place \in [Tasks -> (Instances \X Transports) \cup {Nowhere}]
  /\ main \in [Instances -> {"serving", "draining", "waiting"}]
  /\ httpSrv \in [Instances -> {"serving", "draining", "drained", "timedOut"}]
  /\ \A c \in Tasks : place[c] = Nowhere <=> call[c] \notin Running
  /\ \A i \in Instances :
       /\ main[i] = "waiting" => CallsOn(i, "grpc") = {}
       /\ httpSrv[i] = "drained" => CallsOn(i, "http") = {}

Added ==
  /\ table \in [Tasks -> TaskStatus]
  /\ \A c \in Tasks : call[c] \in {"executed", "ok"} => table[c] # "absent"

LEMMA PlaceIsSomewhere ==
  ASSUME NEW i, NEW tr
  PROVE  <<i, tr>> # Nowhere
BY DEF Nowhere

LEMMA ServerInitInv == ServerInit => Drained /\ Added
BY OutboxAssumption
  DEF ServerInit, Init, Drained, Added, CallsOn, Running, Answers, TaskStatus

(* A task that was added is never again as if it had not been.             *)
LEMMA AddedForEver ==
  ASSUME table \in [Tasks -> TaskStatus], [Next]_vars
  PROVE  /\ table' \in [Tasks -> TaskStatus]
         /\ \A t \in Tasks : table[t] # "absent" => table'[t] # "absent"
<1>1. ASSUME NEW t \in Tasks, AddTask(t)
      PROVE  table' = [table EXCEPT ![t] = "created"]
  BY <1>1 DEF AddTask
<1>2. ASSUME NEW i \in Instances, PollerStep(i)
      PROVE  \/ UNCHANGED table
             \/ table' = [t \in Tasks |->
                            IF t \in picked[i] THEN "processing" ELSE table[t]]
  BY <1>2 DEF PollerStep, PickTasks, LockPending, FailLockPending, SendBatch,
              StopPoller, Claim, tableVars
<1>3. ASSUME NEW i \in Instances, ProducerStep(i)
      PROVE  \/ UNCHANGED table
             \/ \E s \in {"deleted", "failed"} :
                  table' = [table EXCEPT ![Head(current[i])] = s]
  BY <1>3 DEF ProducerStep, ReceiveBatch, SendMessage, DeleteTask,
              MarkTaskAsFailed, Settle, SetStatus, StopProducer, tableVars
<1>4. ASSUME NEW i \in Instances,
             ConsumerStep(i) \/ Signal(i) \/ Exit(i) \/ Crash(i) \/ Start(i)
      PROVE  UNCHANGED table
  BY <1>4 DEF ConsumerStep, Consume, StopConsumer, Signal, Exit, Crash, Discard,
              Start, tableVars
<1>5. CASE UNCHANGED vars
  BY <1>5 DEF vars, tableVars
<1>6. QED
  BY <1>1, <1>2, <1>3, <1>4, <1>5 DEF Next, TaskStatus

LEMMA AddedStep ==
  ASSUME Drained, Added, [ServerNext]_allVars
  PROVE  Added'
<1>1. /\ table' \in [Tasks -> TaskStatus]
      /\ \A t \in Tasks : table[t] # "absent" => table'[t] # "absent"
  BY ServerStepIsOutboxStep, AddedForEver DEF Added
<1>2. ASSUME NEW c \in Tasks, call'[c] \in {"executed", "ok"}
      PROVE  table'[c] # "absent"
  <2>1. CASE call[c] \in {"executed", "ok"}
    BY <1>1, <2>1 DEF Added
  <2>2. CASE CommitTakesEffect(c)
    BY <2>2 DEF CommitTakesEffect, AddTask, Added
  <2>3. CASE call'[c] = call[c]
    BY <1>2, <2>1, <2>3
  <2>4. ASSUME NEW d \in Tasks, CallStep(d), ~CommitTakesEffect(c)
        PROVE  call'[c] = call[c] \/ call[c] = "executed"
    <3>1. CASE d = c
      BY <1>2, <2>4, <3>1
        DEF CallStep, RunTx, Refuse, CommitFails, Respond, End, Advance, Drained
    <3>2. CASE d # c
      BY <2>4, <3>2
        DEF CallStep, RunTx, Refuse, CommitTakesEffect, CommitFails, Respond,
            End, Advance, Drained
    <3>3. QED
      BY <3>1, <3>2
  <2>5. ASSUME NEW d \in Tasks, NEW i \in Instances, NEW tr \in Transports,
               Call(d, i, tr)
        PROVE  call'[c] = call[c]
    BY <1>2, <2>5 DEF Call, Advance, Drained
  <2>6. ASSUME NEW i \in Instances, MainReturns(i)
        PROVE  call'[c] = call[c]
    BY <1>2, <2>6 DEF MainReturns, CutCalls
  <2>7. ASSUME NEW i \in Instances,
               RelayStep(i) \/ StopServer(i) \/ ShutdownStep(i) \/ GracefulStop(i)
                 \/ GrpcStopped(i)
        PROVE  call'[c] = call[c]
    BY <2>7 DEF RelayStep, StopServer, ShutdownStep, Shutdown, ShutdownReturns,
                GracefulStop, GrpcStopped, serverVars, callVars
  <2>8. CASE UNCHANGED allVars
    BY <2>3, <2>8 DEF allVars, serverVars, callVars
  <2>9. QED
    BY <2>1, <2>2, <2>3, <2>4, <2>5, <2>6, <2>7, <2>8 DEF ServerNext, MainStep
<1>3. QED
  BY <1>1, <1>2 DEF Added

LEMMA DrainedStep ==
  ASSUME Drained, [ServerNext]_allVars
  PROVE  Drained'
<1> USE DEF Drained, Running, Answers, Transports
<1>1. ASSUME NEW c \in Tasks, CallStep(c)
      PROVE  Drained'
  <2>1. /\ call[c] \in Running
        /\ \A d \in Tasks : d # c => call'[d] = call[d] /\ place'[d] = place[d]
        /\ UNCHANGED <<main, httpSrv>>
    BY <1>1 DEF CallStep, RunTx, Refuse, CommitTakesEffect, CommitFails, Respond,
                End, Advance
  <2>2. \/ /\ call' = [call EXCEPT ![c] = "committing"]
           /\ UNCHANGED place
        \/ /\ call' = [call EXCEPT ![c] = "executed"]
           /\ UNCHANGED place
        \/ \E a \in Answers : /\ call' = [call EXCEPT ![c] = a]
                              /\ place' = [place EXCEPT ![c] = Nowhere]
    BY <1>1 DEF CallStep, RunTx, Refuse, CommitTakesEffect, CommitFails, Respond,
                End, Advance
  <2>3. \A i \in Instances, tr \in Transports : CallsOn(i, tr)' \subseteq CallsOn(i, tr)
    BY <2>1, <2>2 DEF CallsOn
  <2>4. QED
    BY <2>1, <2>2, <2>3
<1>2. ASSUME NEW c \in Tasks, NEW i \in Instances, NEW tr \in Transports,
             Call(c, i, tr)
      PROVE  Drained'
  <2>1. /\ call' = [call EXCEPT ![c] = "open"]
        /\ place' = [place EXCEPT ![c] = <<i, tr>>]
        /\ UNCHANGED <<main, httpSrv>>
        /\ Accepts(i, tr)
    BY <1>2 DEF Call, Advance
  <2>2. \A j \in Instances, sr \in Transports :
          <<j, sr>> # <<i, tr>> => CallsOn(j, sr)' = CallsOn(j, sr)
    <3>1. ASSUME NEW j \in Instances, NEW sr \in Transports, <<j, sr>> # <<i, tr>>
          PROVE  CallsOn(j, sr)' = CallsOn(j, sr)
      <4>1. c \notin CallsOn(j, sr) /\ c \notin CallsOn(j, sr)'
        BY <1>2, <2>1, <3>1 DEF Call, CallsOn
      <4>2. \A d \in Tasks : d # c => call'[d] = call[d] /\ place'[d] = place[d]
        BY <2>1
      <4>3. QED
        BY <4>1, <4>2 DEF CallsOn
    <3>2. QED
      BY <3>1
  <2>3. /\ tr = "grpc" => main[i] = "serving"
        /\ tr = "http" => httpSrv[i] = "serving"
    BY <2>1 DEF Accepts
  <2>4. \A j \in Instances :
          /\ main'[j] = "waiting" => CallsOn(j, "grpc")' = {}
          /\ httpSrv'[j] = "drained" => CallsOn(j, "http")' = {}
    BY <2>1, <2>2, <2>3
  <2>5. \A d \in Tasks : place'[d] = Nowhere <=> call'[d] \notin Running
    BY <2>1, PlaceIsSomewhere
  <2>6. QED
    BY <2>1, <2>4, <2>5
<1>3. ASSUME NEW i \in Instances, ShutdownStep(i) \/ GracefulStop(i) \/ GrpcStopped(i)
      PROVE  Drained'
  <2>1. UNCHANGED <<call, place>>
    BY <1>3 DEF ShutdownStep, Shutdown, ShutdownReturns, GracefulStop, GrpcStopped,
                callVars
  <2>2. \A j \in Instances, tr \in Transports : CallsOn(j, tr)' = CallsOn(j, tr)
    BY <2>1 DEF CallsOn
  <2>3. CASE Shutdown(i)
    BY <2>1, <2>2, <2>3 DEF Shutdown
  <2>4. CASE ShutdownReturns(i)
    BY <2>1, <2>2, <2>4 DEF ShutdownReturns
  <2>5. CASE GracefulStop(i)
    BY <2>1, <2>2, <2>5 DEF GracefulStop
  <2>6. CASE GrpcStopped(i)
    BY <2>1, <2>2, <2>6 DEF GrpcStopped
  <2>7. QED
    BY <1>3, <2>3, <2>4, <2>5, <2>6 DEF ShutdownStep
<1>4. ASSUME NEW i \in Instances, MainReturns(i)
      PROVE  Drained'
  <2>1. /\ call' \in [Tasks -> {"none", "cut"} \cup Running \cup Answers]
        /\ place' \in [Tasks -> (Instances \X Transports) \cup {Nowhere}]
        /\ \A c \in Tasks : \/ call'[c] = "cut" /\ place'[c] = Nowhere
                            \/ call'[c] = call[c] /\ place'[c] = place[c]
        /\ UNCHANGED <<main, httpSrv>>
    BY <1>4 DEF MainReturns, CutCalls
  <2>2. \A j \in Instances, tr \in Transports : CallsOn(j, tr)' \subseteq CallsOn(j, tr)
    BY <2>1 DEF CallsOn
  <2>3. QED
    BY <2>1, <2>2
<1>5. ASSUME UNCHANGED serverVars
      PROVE  Drained'
  BY <1>5 DEF serverVars, callVars, CallsOn
<1>6. QED
  BY <1>1, <1>2, <1>3, <1>4, <1>5
    DEF ServerNext, MainStep, RelayStep, StopServer, allVars

LEMMA ServerInv == ServerSpec => [](Drained /\ Added)
<1>1. Drained /\ Added /\ [ServerNext]_allVars => Drained' /\ Added'
  BY AddedStep, DrainedStep
<1>2. QED
  BY <1>1, ServerInitInv, PTL DEF ServerSpec

(* The calls, main and the HTTP server are where the code can be, and a    *)
(* server counts a call exactly as long as it runs.                        *)
THEOREM ServerTypeCorrect == ServerSpec => []ServerTypeOK
<1>1. TypeOK /\ Drained => ServerTypeOK
  BY DEF Drained, ServerTypeOK
<1>2. ServerSpec => []TypeOK
  BY ServerIsOutbox, RelayTypeCorrect
<1>3. QED
  BY <1>1, <1>2, ServerInv, PTL

(* One server with its calls and its shutdown: the changes of an order are *)
(* sent in the order they were made, but for those claimed together.       *)
THEOREM ServerKeepsOrder ==
  ASSUME NEW i, Instances = {i}
  PROVE  ServerSpec => []OrderAcrossBatches
<1>1. Spec => []OrderAcrossBatches
  BY OrderIsKept
<1>2. QED
  BY <1>1, ServerIsOutbox, PTL

(* Whatever a call runs into, the signal included: when its client is told *)
(* that it is done, the change and its task are in the database.           *)
THEOREM OkIsAdded == ServerSpec => []OkMeansAdded
<1>1. Added => OkMeansAdded
  BY DEF Added, OkMeansAdded
<1>2. QED
  BY <1>1, ServerInv, PTL

(* GracefulStop and Shutdown keep what the README promises: the process    *)
(* exits on no call but those of HTTP that outlast the five seconds.       *)
THEOREM OnlyOverdueCallsAreCut == ServerSpec => CutOnlyOverdue
<1> DEFINE CutStep ==
      \A c \in Tasks : (call[c] # "cut" /\ call'[c] = "cut") =>
        place[c][2] = "http" /\ httpSrv[place[c][1]] = "timedOut"
<1>1. ASSUME Drained, [ServerNext]_allVars
      PROVE  CutStep
  <2>1. SUFFICES ASSUME NEW c \in Tasks, call[c] # "cut", call'[c] = "cut"
                 PROVE  place[c][2] = "http" /\ httpSrv[place[c][1]] = "timedOut"
    OBVIOUS
  <2>2. PICK i \in Instances : MainReturns(i)
    <3>1. ASSUME NEW d \in Tasks, CallStep(d)
          PROVE  call'[c] # "cut"
      BY <1>1, <2>1, <3>1
        DEF CallStep, RunTx, Refuse, CommitTakesEffect, CommitFails, Respond,
            End, Advance, Drained, Running, Answers
    <3>2. ASSUME NEW d \in Tasks, NEW i \in Instances, NEW tr \in Transports,
                 Call(d, i, tr)
          PROVE  call'[c] # "cut"
      BY <1>1, <2>1, <3>2 DEF Call, Advance, Drained
    <3>3. ASSUME NEW i \in Instances,
                 RelayStep(i) \/ StopServer(i) \/ ShutdownStep(i) \/ GracefulStop(i)
                   \/ GrpcStopped(i)
          PROVE  call'[c] = call[c]
      BY <3>3 DEF RelayStep, StopServer, ShutdownStep, Shutdown, ShutdownReturns,
                  GracefulStop, GrpcStopped, serverVars, callVars
    <3>4. CASE UNCHANGED allVars
      BY <2>1, <3>4 DEF allVars, serverVars, callVars
    <3>5. QED
      BY <1>1, <2>1, <3>1, <3>2, <3>3, <3>4 DEF ServerNext, MainStep
  <2>3. PICK tr \in Transports : c \in CallsOn(i, tr)
    BY <2>1, <2>2 DEF MainReturns, CutCalls
  <2>4. main[i] = "waiting" /\ httpSrv[i] \in {"drained", "timedOut"}
    BY <2>2 DEF MainReturns
  <2>5. tr = "http" /\ httpSrv[i] = "timedOut"
    BY <1>1, <2>3, <2>4 DEF Drained, Transports
  <2>6. QED
    BY <2>3, <2>5 DEF CallsOn
<1>2. QED
  BY <1>1, ServerInv, PTL DEF ServerSpec, CutOnlyOverdue

=============================================================================
