----------------------------- MODULE MessageQueue -----------------------------
(***************************************************************************)
(* What the pipeline relies on of the worker and its queues: at-least-once *)
(* delivery.  A message leaves its queue only after a handler succeeded on *)
(* it, or into the dead-letter queue after the worker refused its body or  *)
(* the broker delivered it MaxDelivery times.                              *)
(***************************************************************************)
EXTENDS Naturals

CONSTANTS
  Message,     \* the messages
  EmptyBody,   \* those whose body is empty
  MaxDelivery  \* maxDeliveryCount of the queues

VARIABLES
  status,    \* where each message is
  tries,     \* how often it was delivered
  succeeded  \* the messages some handler run succeeded on

vars == <<status, tries, succeeded>>

Init ==
  /\ status = [m \in Message |-> "unsent"]
  /\ tries = [m \in Message |-> 0]
  /\ succeeded = {}

Send(m) ==
  /\ status[m] = "unsent"
  /\ status' = [status EXCEPT ![m] = "queued"]
  /\ UNCHANGED <<tries, succeeded>>

\* One receive call may deliver several messages.
Deliver(ms) ==
  /\ \A m \in ms : status[m] = "queued" /\ tries[m] < MaxDelivery
  /\ tries' = [m \in Message |-> tries[m] + (IF m \in ms THEN 1 ELSE 0)]
  /\ UNCHANGED <<status, succeeded>>

\* A run may outlive its message: another one can have completed it.
Succeed(m) ==
  /\ tries[m] > 0
  /\ m \notin EmptyBody
  /\ succeeded' = succeeded \cup {m}
  /\ UNCHANGED <<status, tries>>

Remove(m) ==
  /\ status[m] = "queued"
  /\ m \in succeeded
  /\ status' = [status EXCEPT ![m] = "removed"]
  /\ UNCHANGED <<tries, succeeded>>

Bury(m) ==
  /\ status[m] = "queued"
  /\ \/ m \in EmptyBody /\ tries[m] > 0
     \/ tries[m] = MaxDelivery
  /\ status' = [status EXCEPT ![m] = "dead"]
  /\ UNCHANGED <<tries, succeeded>>

Next ==
  \/ \E ms \in SUBSET Message : Deliver(ms)
  \/ \E m \in Message : Send(m) \/ Succeed(m) \/ Remove(m) \/ Bury(m)

Spec == Init /\ [][Next]_vars

=============================================================================
