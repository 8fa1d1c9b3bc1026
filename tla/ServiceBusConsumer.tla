-------------------------- MODULE ServiceBusConsumer --------------------------
(***************************************************************************)
(* The worker process and its Service Bus consumer (azsbconsumer): one     *)
(* receive loop per queue under peek-lock, the settlement of each message, *)
(* and how Run ends.  Several replicas of the worker may listen.           *)
(*                                                                         *)
(* The broker is external: a received message is locked by its receiver,   *)
(* the lock expires (nothing in the worker renews it, while a handler has  *)
(* 15 minutes), and a message that was delivered MaxDelivery times goes to *)
(* the dead-letter queue instead of back.                                  *)
(*                                                                         *)
(* Faults: "expiry", a lock may expire while its handler runs; "settle", a *)
(* settlement call may fail; "kill", the process may die.                  *)
(***************************************************************************)
EXTENDS Naturals, FiniteSets

CONSTANTS
  Worker,                \* the replicas of cmd/worker
  Queue,                 \* the registered queues
  Message,               \* the messages
  NoMessage,             \* a loop has none in hand
  Home,                  \* Home[m] is the queue m is sent to
  EmptyBody,             \* the messages dispatchJSON refuses
  MaxMessagesPerReceive, \* Options.MaxMessagesPerReceive
  MaxDelivery,           \* maxDeliveryCount of the queues
  Faults

ASSUME ConsumerAssumption ==
  /\ Home \in [Message -> Queue]
  /\ EmptyBody \subseteq Message
  /\ NoMessage \notin Message
  /\ MaxMessagesPerReceive \in Nat \ {0}
  /\ MaxDelivery \in Nat \ {0}
  /\ Faults \subseteq {"expiry", "settle", "kill"}

VARIABLES
  broker,    \* the messages as the broker keeps them
  loop,      \* where each runQueue is
  inhand,    \* the message a loop dispatches
  batch,     \* the rest of what it received
  outcome,   \* the HandleResult of the message in hand
  stopped,   \* the context that main gave to Run is cancelled
  failed,    \* errOnce holds the error of a loop
  result,    \* what Run returned
  succeeded  \* history: the messages some handler returned nil for

vars == <<broker, loop, inhand, batch, outcome, stopped, failed, result, succeeded>>

\* runQueue for one queue in one process.
Loop == Worker \X Queue

NoLoop == <<>>

Kept == [status : {"unsent", "ready", "locked", "removed", "dead"},
         holder : Loop \cup {NoLoop}, count : 0..MaxDelivery]

LoopState == {"starting", "top", "receiving", "waiting", "handling", "settling", "ended"}

Init ==
  /\ broker = [m \in Message |-> [status |-> "unsent", holder |-> NoLoop, count |-> 0]]
  /\ loop = [l \in Loop |-> "starting"]
  /\ inhand = [l \in Loop |-> NoMessage]
  /\ batch = [l \in Loop |-> {}]
  /\ outcome = [l \in Loop |-> "none"]
  /\ stopped = [w \in Worker |-> FALSE]
  /\ failed = [w \in Worker |-> FALSE]
  /\ result = [w \in Worker |-> "running"]
  /\ succeeded = {}

-----------------------------------------------------------------------------
(* The broker *)

\* A message that is not completed goes back, or is dead-lettered.
Requeued(b) ==
  [b EXCEPT !.status = IF b.count < MaxDelivery THEN "ready" ELSE "dead",
            !.holder = NoLoop]

Send(m) ==
  /\ broker[m].status = "unsent"
  /\ broker' = [broker EXCEPT ![m].status = "ready"]
  /\ UNCHANGED <<loop, inhand, batch, outcome, stopped, failed, result, succeeded>>

InHand(l, m) == inhand[l] = m \/ m \in batch[l]

LockExpires(m) ==
  /\ broker[m].status = "locked"
  /\ "expiry" \in Faults \/ ~InHand(broker[m].holder, m)
  /\ broker' = [broker EXCEPT ![m] = Requeued(@)]
  /\ UNCHANGED <<loop, inhand, batch, outcome, stopped, failed, result, succeeded>>

-----------------------------------------------------------------------------
(* runQueue *)

\* Variant: the other loops never hear of an error.
DoneBySignal(w) == stopped[w]

\* childCtx of Run
Done(w) == stopped[w] \/ failed[w]

\* The loop ends; the goroutine of Run takes note of any error but Canceled.
End(l, error) ==
  /\ loop' = [loop EXCEPT ![l] = "ended"]
  /\ failed' = [failed EXCEPT ![l[1]] = @ \/ error]
  /\ UNCHANGED <<broker, inhand, batch, outcome, stopped, result, succeeded>>

GoTo(l, state) ==
  /\ loop' = [loop EXCEPT ![l] = state]
  /\ UNCHANGED <<broker, inhand, batch, outcome, stopped, failed, result, succeeded>>

NewReceiver(l) == loop[l] = "starting" /\ GoTo(l, "top")

NewReceiverFails(l) == loop[l] = "starting" /\ End(l, TRUE)

\* The check at the top of the loop, ReceiveMessages or the wait see the
\* cancelled context.
LoopCancelled(l) ==
  /\ loop[l] \in {"top", "receiving", "waiting"}
  /\ Done(l[1])
  /\ End(l, FALSE)

ReceiveMessages(l) == loop[l] = "top" /\ ~Done(l[1]) /\ GoTo(l, "receiving")

Receive(l) ==
  /\ loop[l] = "receiving"
  /\ \E ms \in SUBSET {m \in Message : Home[m] = l[2] /\ broker[m].status = "ready"} :
       /\ Cardinality(ms) <= MaxMessagesPerReceive
       /\ broker' = [m \in Message |->
            IF m \in ms THEN [status |-> "locked", holder |-> l,
                              count |-> broker[m].count + 1]
                        ELSE broker[m]]
       /\ \E m \in ms : /\ inhand' = [inhand EXCEPT ![l] = m]
                        /\ batch' = [batch EXCEPT ![l] = ms \ {m}]
  /\ loop' = [loop EXCEPT ![l] = "handling"]
  /\ UNCHANGED <<outcome, stopped, failed, result, succeeded>>

\* Variant: the loop gives up at the first error.
ReceiveFailsForGood(l) == loop[l] = "receiving" /\ End(l, FALSE)

\* Any error but the two of the context: log, wait, try again.
ReceiveFails(l) == loop[l] = "receiving" /\ GoTo(l, "waiting")

ReceiveTimesOut(l) == loop[l] = "receiving" /\ End(l, TRUE)

BackoffEnds(l) == loop[l] = "waiting" /\ GoTo(l, "top")

-----------------------------------------------------------------------------
(* dispatch and settle *)

\* The handler of the message in hand returned, or panicked, with o.
Returned(l, o) ==
  /\ loop[l] = "handling"
  /\ loop' = [loop EXCEPT ![l] = "settling"]
  /\ outcome' = [outcome EXCEPT ![l] = o]
  /\ UNCHANGED <<broker, inhand, batch, stopped, failed, result>>

HandlerSucceeds(l) ==
  /\ inhand[l] \notin EmptyBody
  /\ Returned(l, "complete")
  /\ succeeded' = succeeded \cup {inhand[l]}

HandlerFails(l) ==
  /\ inhand[l] \notin EmptyBody
  /\ Returned(l, "abandon")
  /\ UNCHANGED succeeded

\* Variant: the recovered panic leaves the zero HandleResult, AckComplete.
HandlerPanicsUnnoticed(l) ==
  /\ inhand[l] \notin EmptyBody
  /\ Returned(l, "complete")
  /\ UNCHANGED succeeded

HandlerPanics(l) ==
  /\ inhand[l] \notin EmptyBody
  /\ Returned(l, "abandon")
  /\ UNCHANGED succeeded

BodyRefused(l) ==
  /\ inhand[l] \in EmptyBody
  /\ Returned(l, "deadletter")
  /\ UNCHANGED succeeded

\* The next message of the batch, or the next receive: between the messages of
\* a batch nobody looks at the context.
Proceed(l) ==
  /\ outcome' = [outcome EXCEPT ![l] = "none"]
  /\ \/ /\ batch[l] = {}
        /\ inhand' = [inhand EXCEPT ![l] = NoMessage]
        /\ loop' = [loop EXCEPT ![l] = "top"]
        /\ UNCHANGED batch
     \/ \E m \in batch[l] :
          /\ inhand' = [inhand EXCEPT ![l] = m]
          /\ batch' = [batch EXCEPT ![l] = @ \ {m}]
          /\ loop' = [loop EXCEPT ![l] = "handling"]
  /\ UNCHANGED <<stopped, failed, result, succeeded>>

\* What a settlement that reaches the broker makes of the message.
Settlement(b, o) ==
  CASE o = "complete"   -> [b EXCEPT !.status = "removed", !.holder = NoLoop]
    [] o = "deadletter" -> [b EXCEPT !.status = "dead", !.holder = NoLoop]
    [] o = "abandon"    -> Requeued(b)

HoldsLock(l) ==
  broker[inhand[l]].status = "locked" /\ broker[inhand[l]].holder = l

Settle(l) ==
  /\ loop[l] = "settling"
  /\ HoldsLock(l)
  /\ broker' = [broker EXCEPT ![inhand[l]] = Settlement(@, outcome[l])]
  /\ Proceed(l)

\* The lock is lost, the call fails, or the loop's context is cancelled.  The
\* error is logged.
SettleFails(l) ==
  /\ loop[l] = "settling"
  /\ ~HoldsLock(l) \/ "settle" \in Faults \/ Done(l[1])
  /\ UNCHANGED broker
  /\ Proceed(l)

-----------------------------------------------------------------------------
(* Run and the process *)

Signal(w) ==
  /\ result[w] = "running"
  /\ ~stopped[w]
  /\ stopped' = [stopped EXCEPT ![w] = TRUE]
  /\ UNCHANGED <<broker, loop, inhand, batch, outcome, failed, result, succeeded>>

\* After wg.Wait
RunReturns(w) ==
  /\ result[w] = "running"
  /\ \A q \in Queue : loop[<<w, q>>] = "ended"
  /\ result' = [result EXCEPT ![w] = IF failed[w] THEN "error"
                                     ELSE IF stopped[w] THEN "canceled" ELSE "nil"]
  /\ UNCHANGED <<broker, loop, inhand, batch, outcome, stopped, failed, succeeded>>

\* The loops of w, and what they had in hand, are gone or not yet there.
Reset(w, state) ==
  /\ loop' = [l \in Loop |-> IF l[1] = w THEN state ELSE loop[l]]
  /\ inhand' = [l \in Loop |-> IF l[1] = w THEN NoMessage ELSE inhand[l]]
  /\ batch' = [l \in Loop |-> IF l[1] = w THEN {} ELSE batch[l]]
  /\ outcome' = [l \in Loop |-> IF l[1] = w THEN "none" ELSE outcome[l]]
  /\ UNCHANGED <<broker, succeeded>>

Killed(w) ==
  /\ "kill" \in Faults
  /\ result[w] = "running"
  /\ Reset(w, "ended")
  /\ result' = [result EXCEPT ![w] = "killed"]
  /\ UNCHANGED <<stopped, failed>>

Restarted(w) ==
  /\ result[w] # "running"
  /\ Reset(w, "starting")
  /\ result' = [result EXCEPT ![w] = "running"]
  /\ stopped' = [stopped EXCEPT ![w] = FALSE]
  /\ failed' = [failed EXCEPT ![w] = FALSE]

-----------------------------------------------------------------------------
RunQueue(l) ==
  \/ NewReceiver(l) \/ NewReceiverFails(l)
  \/ ReceiveMessages(l) \/ Receive(l) \/ ReceiveFails(l) \/ ReceiveTimesOut(l)
  \/ BackoffEnds(l) \/ LoopCancelled(l)

Dispatch(l) ==
  \/ HandlerSucceeds(l) \/ HandlerFails(l) \/ HandlerPanics(l) \/ BodyRefused(l)
  \/ Settle(l) \/ SettleFails(l)

Next ==
  \/ \E m \in Message : Send(m) \/ LockExpires(m)
  \/ \E l \in Loop : RunQueue(l) \/ Dispatch(l)
  \/ \E w \in Worker : Signal(w) \/ RunReturns(w) \/ Killed(w) \/ Restarted(w)

Spec == Init /\ [][Next]_vars

\* Handlers end (their context has a deadline), locks expire, the container is
\* restarted, and a receive succeeds when it is tried again and again.
Fairness ==
  /\ \A l \in Loop : /\ WF_vars(NewReceiver(l) \/ ReceiveMessages(l))
                     /\ SF_vars(Receive(l))
                     /\ WF_vars(BackoffEnds(l) \/ LoopCancelled(l))
                     /\ WF_vars(Dispatch(l))
  /\ \A m \in Message : WF_vars(LockExpires(m) /\ ~InHand(broker[m].holder, m))
  /\ \A w \in Worker : WF_vars(RunReturns(w)) /\ WF_vars(Restarted(w))

\* What stops a process happens finitely often.  Failing receives, failing
\* handlers and expiring locks may go on for ever.
Calm ==
  <>[][/\ \A w \in Worker : ~Signal(w) /\ ~Killed(w)
       /\ \A l \in Loop : ~NewReceiverFails(l) /\ ~ReceiveTimesOut(l)]_vars

FairSpec == Spec /\ Fairness /\ Calm

-----------------------------------------------------------------------------
(* Properties *)

\* The shape of the broker's records, the loops and what they hold.
TypeOK ==
  /\ broker \in [Message -> Kept]
  /\ loop \in [Loop -> LoopState]
  /\ inhand \in [Loop -> Message \cup {NoMessage}]
  /\ batch \in [Loop -> SUBSET Message]
  /\ outcome \in [Loop -> {"none", "complete", "abandon", "deadletter"}]
  /\ stopped \in [Worker -> BOOLEAN]
  /\ failed \in [Worker -> BOOLEAN]
  /\ result \in [Worker -> {"running", "error", "canceled", "nil", "killed"}]
  /\ succeeded \subseteq Message

\* The consumer and its broker implement at-least-once delivery: whatever
\* expires, fails or dies, a message is removed only after a handler run that
\* returned nil, and dead-lettered only when refused or delivered too often.
Queued == INSTANCE MessageQueue WITH
  status <- [m \in Message |->
               IF broker[m].status \in {"ready", "locked"} THEN "queued"
                                                           ELSE broker[m].status],
  tries  <- [m \in Message |-> broker[m].count]

AtLeastOnce == Queued!Spec

\* No message is left behind: every message sent is removed or dead-lettered in
\* the end, although loops fail, locks expire and processes die.
Served ==
  \A m \in Message : broker[m].status = "ready" ~> broker[m].status \in {"removed", "dead"}

\* "After ctx ends, all receivers are closed and the WaitGroup completes", and
\* the error of one loop ends the others too.
RunEnds ==
  \A w \in Worker : stopped[w] \/ failed[w] ~> result[w] # "running"

=============================================================================
