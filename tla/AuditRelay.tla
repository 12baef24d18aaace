----------------------------- MODULE AuditRelay -----------------------------
(***************************************************************************)
(* What the outbox relay promises about audit tasks, whatever the number   *)
(* of servers, batches, channels and failures: a task is claimed once,     *)
(* handed to the broker at most once, leaves the table only when the topic *)
(* has its message, and is given up only after it was handed over.         *)
(***************************************************************************)
EXTENDS Sequences

CONSTANT Tasks

VARIABLES
  fate,    \* task -> "absent", or the status of its row, or "deleted"
  sent,    \* the tasks handed to the broker, in order
  topic    \* the tasks the topic has a message of

Init ==
  /\ fate  = [t \in Tasks |-> "absent"]
  /\ sent  = <<>>
  /\ topic = {}

Sent == {sent[k] : k \in DOMAIN sent}

Add(t) ==
  /\ fate[t] = "absent"
  /\ fate' = [fate EXCEPT ![t] = "created"]
  /\ UNCHANGED <<sent, topic>>

Claim(S) ==
  /\ \A t \in S : fate[t] = "created"
  /\ fate' = [t \in Tasks |-> IF t \in S THEN "processing" ELSE fate[t]]
  /\ UNCHANGED <<sent, topic>>

Send(t) ==
  /\ fate[t] = "processing"
  /\ t \notin Sent
  /\ sent' = Append(sent, t)
  /\ topic' \in {topic, topic \cup {t}}
  /\ UNCHANGED fate

Settle(t, status) ==
  /\ fate[t] = "processing"
  /\ t \in Sent
  /\ status = "deleted" => t \in topic
  /\ fate' = [fate EXCEPT ![t] = status]
  /\ UNCHANGED <<sent, topic>>

Next ==
  \/ \E S \in SUBSET Tasks : Claim(S)
  \/ \E t \in Tasks :
       Add(t) \/ Send(t) \/ Settle(t, "deleted") \/ Settle(t, "failed")

Spec == Init /\ [][Next]_<<fate, sent, topic>>
=============================================================================
