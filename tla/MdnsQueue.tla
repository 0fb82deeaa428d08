----------------------------- MODULE MdnsQueue -----------------------------
(***************************************************************************)
(* The mDNS service of the web server (mdns_service.c): a queue of actions *)
(* that the service task runs one at a time under the service lock.  The   *)
(* timer runs under the same lock; the functions of the library queue an   *)
(* action without it, or take it for as long as they run.  The task takes  *)
(* the next action out of the queue before it takes the lock.              *)
(***************************************************************************)
EXTENDS Naturals, Sequences, FiniteSets

CONSTANTS QueueLen,     \* MDNS_ACTION_QUEUE_LEN
          None

(* The lock while the timer goes over its packets is the place of the last  *)
(* one in their line; it is None when the task waits for it while it holds  *)
(* it, for ever.                                                            *)
ASSUME QueueLenAssumption == QueueLen \in Nat \ {0}

VARIABLES actions,      \* s_action_queue
          hand,         \* the action the task took out and has not run yet
          lock          \* s_service_semaphore between two steps: 0 when free
queueVars == <<actions, hand, lock>>

QueueInit == actions = <<>> /\ hand = None /\ lock = 0

HasRoom == Len(actions) < QueueLen

(* mdns_priv_queue_action: a full queue refuses the action. *)
Queued(queue, action) ==
    IF Len(queue) < QueueLen THEN Append(queue, action) ELSE queue

(* xQueueReceive, which needs no lock: it may happen while the timer runs. *)
Receive ==
    /\ hand = None /\ actions # <<>>
    /\ hand' = Head(actions) /\ actions' = Tail(actions)
    /\ UNCHANGED lock

(* The action in hand is run as soon as the lock is free, and freed.       *)
Runs(type) == lock = 0 /\ hand # None /\ hand.type = type
Done == hand' = None /\ UNCHANGED <<actions, lock>>
=============================================================================
