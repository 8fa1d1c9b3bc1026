----------------------- MODULE ServiceBusConsumerProofs -----------------------
(***************************************************************************)
(* The consumer and its broker implement MessageQueue, for every number of *)
(* replicas, queues and messages, every batch size and every fault.        *)
(***************************************************************************)
EXTENDS ServiceBusConsumer, TLAPS

\* A message in a loop's hands was delivered, and its outcome is earned.
InHandOK(l) ==
  /\ loop[l] \in {"handling", "settling"} => inhand[l] \in Message
  /\ loop[l] = "settling" <=> outcome[l] # "none"
  /\ inhand[l] \in Message => broker[inhand[l]].count > 0
  /\ \A m \in batch[l] : broker[m].count > 0
  /\ outcome[l] = "complete" => inhand[l] \in succeeded
  /\ outcome[l] = "deadletter" => inhand[l] \in EmptyBody

\* A locked message was delivered; one that waits can be delivered again.
KeptOK(m) ==
  /\ broker[m].status = "unsent" => broker[m].count = 0
  /\ broker[m].status = "locked" => broker[m].count > 0
  /\ broker[m].status = "ready" => broker[m].count < MaxDelivery

IInv ==
  /\ TypeOK
  /\ \A l \in Loop : InHandOK(l)
  /\ \A m \in Message : KeptOK(m)

LEMMA InvInit == Init => IInv
BY ConsumerAssumption
   DEF Init, IInv, TypeOK, Kept, LoopState, InHandOK, KeptOK

\* A message that goes back to the broker is again one that it can keep.
LEMMA RequeuedKept ==
  ASSUME NEW b \in Kept, b.count > 0
  PROVE  /\ Requeued(b) \in Kept
         /\ Requeued(b).count = b.count
         /\ Requeued(b).status \in {"ready", "dead"}
         /\ Requeued(b).status = "ready" => b.count < MaxDelivery
         /\ Requeued(b).status = "dead" => b.count = MaxDelivery
<1>1. b.count \in 0..MaxDelivery /\ MaxDelivery \in Nat
  BY ConsumerAssumption DEF Kept
<1>. DEFINE status == IF b.count < MaxDelivery THEN "ready" ELSE "dead"
<1>2. Requeued(b) = [b EXCEPT !.status = status, !.holder = NoLoop]
  BY DEF Requeued
<1>3. /\ status \in {"ready", "dead"}
      /\ status = "ready" => b.count < MaxDelivery
      /\ status = "dead" => b.count = MaxDelivery
  BY <1>1
<1>. HIDE DEF status
<1>4. /\ Requeued(b) \in Kept
      /\ Requeued(b).count = b.count
      /\ Requeued(b).status = status
  BY <1>2, <1>3 DEF Kept
<1>. QED
  BY <1>3, <1>4

\* The steps that only move a loop, or end a process.
LEMMA InvControl ==
  ASSUME IInv,
         \/ \E l \in Loop : \/ NewReceiver(l) \/ NewReceiverFails(l)
                            \/ ReceiveMessages(l) \/ ReceiveFails(l)
                            \/ ReceiveTimesOut(l) \/ BackoffEnds(l)
                            \/ LoopCancelled(l)
         \/ \E w \in Worker : Signal(w) \/ RunReturns(w) \/ Killed(w) \/ Restarted(w)
  PROVE  IInv' /\ UNCHANGED <<broker, succeeded>>
<1> USE DEF IInv, TypeOK, LoopState, InHandOK, KeptOK
<1>1. ASSUME NEW l \in Loop,
             NEW state \in {"top", "receiving", "waiting"}, GoTo(l, state),
             loop[l] # "settling"
      PROVE  IInv' /\ UNCHANGED <<broker, succeeded>>
  BY <1>1 DEF GoTo
<1>2. ASSUME NEW l \in Loop, NEW error \in BOOLEAN, End(l, error),
             loop[l] # "settling"
      PROVE  IInv' /\ UNCHANGED <<broker, succeeded>>
  <2>1. failed' \in [Worker -> BOOLEAN]
    BY <1>2 DEF End
  <2>. QED
    BY <1>2, <2>1 DEF End
<1>3. ASSUME NEW w \in Worker, NEW state \in {"starting", "ended"}, Reset(w, state),
             result' \in [Worker -> {"running", "error", "canceled", "nil", "killed"}],
             stopped' \in [Worker -> BOOLEAN], failed' \in [Worker -> BOOLEAN]
      PROVE  IInv' /\ UNCHANGED <<broker, succeeded>>
  BY <1>3, ConsumerAssumption DEF Reset
<1>4. ASSUME NEW w \in Worker, Signal(w) \/ RunReturns(w) \/ Killed(w) \/ Restarted(w)
      PROVE  IInv' /\ UNCHANGED <<broker, succeeded>>
  <2>1. CASE Signal(w)
    BY <2>1 DEF Signal
  <2>2. CASE RunReturns(w)
    BY <2>2 DEF RunReturns
  <2>3. CASE Killed(w)
    BY <1>3, <2>3 DEF Killed
  <2>4. CASE Restarted(w)
    BY <1>3, <2>4 DEF Restarted
  <2>. QED
    BY <1>4, <2>1, <2>2, <2>3, <2>4
<1>. QED
  BY <1>1, <1>2, <1>4 DEF NewReceiver, NewReceiverFails, ReceiveMessages,
     ReceiveFails, ReceiveTimesOut, BackoffEnds, LoopCancelled

-----------------------------------------------------------------------------
(* The steps that handle and settle messages *)

LEMMA InvSend ==
  ASSUME IInv, NEW m \in Message, Send(m)
  PROVE  IInv' /\ Queued!Send(m)
<1> USE DEF IInv
<1>1. /\ broker[m] \in Kept /\ broker[m].status = "unsent" /\ broker[m].count = 0
      /\ broker' = [broker EXCEPT ![m].status = "ready"]
  BY DEF TypeOK, KeptOK, Send
<1>2. /\ broker' \in [Message -> Kept]
      /\ broker'[m].status = "ready"
      /\ \A n \in Message : broker'[n].count = broker[n].count
      /\ \A n \in Message \ {m} : broker'[n] = broker[n]
  BY <1>1 DEF TypeOK, Kept
<1>3. IInv'
  BY <1>1, <1>2, ConsumerAssumption DEF Send, TypeOK, InHandOK, KeptOK
<1>4. Queued!Send(m)
  BY <1>1, <1>2 DEF Queued!Send, Send
<1>. QED
  BY <1>3, <1>4

LEMMA InvReceive ==
  ASSUME IInv, NEW l \in Loop, Receive(l)
  PROVE  IInv' /\ \E ms \in SUBSET Message : Queued!Deliver(ms)
<1> USE DEF IInv
<1>1. PICK ms \in SUBSET {m \in Message : Home[m] = l[2] /\ broker[m].status = "ready"} :
        /\ broker' = [m \in Message |->
             IF m \in ms THEN [status |-> "locked", holder |-> l,
                               count |-> broker[m].count + 1]
                         ELSE broker[m]]
        /\ \E m \in ms : /\ inhand' = [inhand EXCEPT ![l] = m]
                         /\ batch' = [batch EXCEPT ![l] = ms \ {m}]
  BY DEF Receive
<1>2. PICK m \in ms : /\ inhand' = [inhand EXCEPT ![l] = m]
                      /\ batch' = [batch EXCEPT ![l] = ms \ {m}]
  BY <1>1
<1>3. /\ loop' = [loop EXCEPT ![l] = "handling"]
      /\ UNCHANGED <<outcome, stopped, failed, result, succeeded>>
  BY DEF Receive
<1>4. \A n \in Message : broker[n].count \in 0..MaxDelivery
  BY DEF TypeOK, Kept
<1>5. \A n \in ms : n \in Message /\ broker[n].status = "ready" /\ broker[n].count < MaxDelivery
  BY <1>1 DEF KeptOK
<1>6. \A n \in ms : broker[n].count + 1 \in 0..MaxDelivery /\ broker[n].count + 1 > 0
  BY <1>4, <1>5, ConsumerAssumption
<1>7. broker' \in [Message -> Kept]
  BY <1>1, <1>6 DEF TypeOK, Kept
<1>8. TypeOK'
  BY <1>2, <1>3, <1>5, <1>7 DEF TypeOK, LoopState
<1>9. \A n \in Message : broker[n].count > 0 => broker'[n].count > 0
  BY <1>1, <1>4, <1>6
<1>10. \A k \in Loop : InHandOK(k)'
  <2>1. ASSUME NEW k \in Loop, k # l
        PROVE  InHandOK(k)'
    BY <1>2, <1>3, <1>9, <2>1 DEF InHandOK, TypeOK
  <2>2. outcome[l] = "none"
    BY DEF Receive, InHandOK, TypeOK
  <2>. QED
    BY <1>1, <1>2, <1>3, <1>5, <1>6, <2>1, <2>2 DEF InHandOK, TypeOK
<1>11. \A n \in Message : KeptOK(n)'
  BY <1>1, <1>6 DEF KeptOK
<1>12. Queued!Deliver(ms)
  BY <1>1, <1>3, <1>4, <1>5 DEF Queued!Deliver
<1>. QED
  BY <1>5, <1>8, <1>10, <1>11, <1>12

LEMMA InvReturned ==
  ASSUME IInv, NEW l \in Loop,
         \/ HandlerSucceeds(l) \/ HandlerFails(l) \/ HandlerPanics(l) \/ BodyRefused(l)
  PROVE  IInv' /\ (Queued!Succeed(inhand[l]) \/ UNCHANGED <<broker, succeeded>>)
<1> USE DEF IInv
<1>1. PICK o \in {"complete", "abandon", "deadletter"} :
        /\ Returned(l, o)
        /\ o = "complete" => /\ inhand[l] \notin EmptyBody
                             /\ succeeded' = succeeded \cup {inhand[l]}
        /\ o = "deadletter" => inhand[l] \in EmptyBody
        /\ o # "complete" => UNCHANGED succeeded
  BY DEF HandlerSucceeds, HandlerFails, HandlerPanics, BodyRefused
<1>2. inhand[l] \in Message /\ broker[inhand[l]].count > 0
  BY <1>1 DEF Returned, InHandOK
<1>3. succeeded \subseteq succeeded' /\ succeeded' \subseteq Message
  BY <1>1, <1>2 DEF TypeOK
<1>4. TypeOK'
  BY <1>1, <1>3 DEF TypeOK, Returned, LoopState
<1>5. \A k \in Loop : InHandOK(k)'
  BY <1>1, <1>2, <1>3 DEF TypeOK, InHandOK, Returned
<1>6. \A m \in Message : KeptOK(m)'
  BY <1>1 DEF KeptOK, Returned
<1>7. o = "complete" => Queued!Succeed(inhand[l])
  BY <1>1, <1>2 DEF Queued!Succeed, Returned
<1>. QED
  BY <1>1, <1>4, <1>5, <1>6, <1>7 DEF Returned

\* Whatever the settlement made of the broker, the loop goes on soundly.
LEMMA InvProceed ==
  ASSUME IInv, NEW l \in Loop, loop[l] = "settling", Proceed(l),
         broker' \in [Message -> Kept],
         \A m \in Message : broker'[m].count = broker[m].count /\ KeptOK(m)'
  PROVE  IInv'
<1> USE DEF IInv
<1>1. \A m \in batch[l] : m \in Message
  BY DEF TypeOK
<1>2. TypeOK'
  BY <1>1 DEF TypeOK, Proceed, LoopState
<1>3. ASSUME NEW k \in Loop
      PROVE  InHandOK(k)'
  <2>1. CASE k # l
    BY <2>1 DEF TypeOK, InHandOK, Proceed
  <2>2. CASE k = l
    <3>1. CASE batch[l] = {} /\ inhand' = [inhand EXCEPT ![l] = NoMessage]
                 /\ loop' = [loop EXCEPT ![l] = "top"] /\ UNCHANGED batch
      BY <2>2, <3>1, ConsumerAssumption DEF TypeOK, InHandOK, Proceed
    <3>2. ASSUME NEW m \in batch[l], inhand' = [inhand EXCEPT ![l] = m],
                 batch' = [batch EXCEPT ![l] = @ \ {m}],
                 loop' = [loop EXCEPT ![l] = "handling"]
          PROVE  InHandOK(k)'
      BY <1>1, <2>2, <3>2 DEF TypeOK, InHandOK, Proceed
    <3>. QED
      BY <3>1, <3>2 DEF Proceed
  <2>. QED
    BY <2>1, <2>2
<1>. QED
  BY <1>2, <1>3

LEMMA InvSettle ==
  ASSUME IInv, NEW l \in Loop, Settle(l)
  PROVE  /\ IInv'
         /\ \/ Queued!Remove(inhand[l])
            \/ Queued!Bury(inhand[l])
            \/ UNCHANGED Queued!vars
<1> USE DEF IInv
<1> DEFINE m == inhand[l]
           b == broker[m]
           s == Settlement(b, outcome[l])
<1>1. /\ m \in Message /\ b \in Kept /\ b.count > 0 /\ b.status = "locked"
      /\ outcome[l] \in {"complete", "abandon", "deadletter"}
  BY DEF Settle, InHandOK, HoldsLock, TypeOK
<1>2. broker' = [broker EXCEPT ![m] = s] /\ Proceed(l) /\ UNCHANGED succeeded
  BY DEF Settle, Proceed
<1>3. /\ s \in Kept /\ s.count = b.count
      /\ s.status \in {"removed", "dead", "ready"}
      /\ s.status = "removed" => outcome[l] = "complete"
      /\ s.status = "dead" => outcome[l] = "deadletter" \/ b.count = MaxDelivery
      /\ s.status = "ready" => b.count < MaxDelivery
  BY <1>1, RequeuedKept DEF Settlement, Kept
<1> HIDE DEF s
<1>4. /\ broker' \in [Message -> Kept]
      /\ broker'[m] = s
      /\ \A n \in Message \ {m} : broker'[n] = broker[n]
  BY <1>1, <1>2, <1>3 DEF TypeOK
<1>5. IInv'
  BY <1>1, <1>2, <1>3, <1>4, InvProceed DEF Settle, KeptOK
<1>6. s.status = "removed" => Queued!Remove(m)
  BY <1>1, <1>2, <1>3, <1>4 DEF Queued!Remove, InHandOK
<1>7. s.status = "dead" => Queued!Bury(m)
  BY <1>1, <1>2, <1>3, <1>4 DEF Queued!Bury, InHandOK
<1>8. s.status = "ready" => UNCHANGED Queued!vars
  BY <1>1, <1>2, <1>3, <1>4 DEF Queued!vars
<1>. QED
  BY <1>3, <1>5, <1>6, <1>7, <1>8

LEMMA InvSettleFails ==
  ASSUME IInv, NEW l \in Loop, SettleFails(l)
  PROVE  IInv' /\ UNCHANGED <<broker, succeeded>>
<1>1. \A m \in Message : KeptOK(m)'
  BY DEF IInv, SettleFails, KeptOK
<1>. QED
  BY <1>1, InvProceed DEF IInv, TypeOK, SettleFails, Proceed

LEMMA InvLockExpires ==
  ASSUME IInv, NEW m \in Message, LockExpires(m)
  PROVE  IInv' /\ (Queued!Bury(m) \/ UNCHANGED Queued!vars)
<1> USE DEF IInv
<1> DEFINE b == broker[m]
<1>1. b \in Kept /\ b.count > 0 /\ b.status = "locked"
  BY DEF LockExpires, TypeOK, KeptOK
<1>2. broker' = [broker EXCEPT ![m] = Requeued(b)] /\ UNCHANGED succeeded
  BY DEF LockExpires
<1>3. /\ broker' \in [Message -> Kept]
      /\ broker'[m] = Requeued(b)
      /\ \A n \in Message \ {m} : broker'[n] = broker[n]
  BY <1>1, <1>2, RequeuedKept DEF TypeOK
<1>4. IInv'
  BY <1>1, <1>3, RequeuedKept DEF LockExpires, TypeOK, InHandOK, KeptOK
<1>5. Requeued(b).status = "dead" => Queued!Bury(m)
  BY <1>1, <1>2, <1>3, RequeuedKept DEF Queued!Bury
<1>6. Requeued(b).status = "ready" => UNCHANGED Queued!vars
  BY <1>1, <1>2, <1>3, RequeuedKept DEF Queued!vars
<1>. QED
  BY <1>1, <1>4, <1>5, <1>6, RequeuedKept

-----------------------------------------------------------------------------
(* The theorems *)

LEMMA Step ==
  ASSUME IInv, [Next]_vars
  PROVE  IInv' /\ [Queued!Next]_(Queued!vars)
<1>1. CASE UNCHANGED vars
  BY <1>1 DEF vars, IInv, TypeOK, InHandOK, KeptOK, Queued!vars
<1>2. UNCHANGED <<broker, succeeded>> => UNCHANGED Queued!vars
  BY DEF Queued!vars
<1>3. ASSUME NEW l \in Loop, RunQueue(l)
      PROVE  IInv' /\ [Queued!Next]_(Queued!vars)
  BY <1>2, <1>3, InvControl, InvReceive DEF RunQueue, Queued!Next
<1>4. ASSUME NEW l \in Loop, Dispatch(l)
      PROVE  IInv' /\ [Queued!Next]_(Queued!vars)
  <2>1. loop[l] \in {"handling", "settling"}
    BY <1>4 DEF Dispatch, HandlerSucceeds, HandlerFails, HandlerPanics, BodyRefused,
       Returned, Settle, SettleFails
  <2>2. inhand[l] \in Message
    BY <2>1 DEF IInv, InHandOK
  <2>3. CASE HandlerSucceeds(l) \/ HandlerFails(l) \/ HandlerPanics(l) \/ BodyRefused(l)
    <3>1. PICK m \in Message : m = inhand[l]
      BY <2>2
    <3>2. IInv' /\ (Queued!Succeed(m) \/ UNCHANGED <<broker, succeeded>>)
      BY <2>3, <3>1, InvReturned DEF Queued!Succeed
    <3>. QED
      BY <1>2, <3>2 DEF Queued!Next
  <2>4. CASE Settle(l)
    <3>1. PICK m \in Message : m = inhand[l]
      BY <2>2
    <3>2. /\ IInv'
          /\ \/ Queued!Remove(m) \/ Queued!Bury(m)
             \/ UNCHANGED Queued!vars
      BY <2>4, <3>1, InvSettle DEF Queued!Remove, Queued!Bury
    <3>. QED
      BY <3>2 DEF Queued!Next
  <2>5. CASE SettleFails(l)
    BY <1>2, <2>5, InvSettleFails
  <2>. QED
    BY <1>4, <2>3, <2>4, <2>5 DEF Dispatch
<1>5. ASSUME NEW m \in Message, Send(m) \/ LockExpires(m)
      PROVE  IInv' /\ [Queued!Next]_(Queued!vars)
  BY <1>5, InvSend, InvLockExpires DEF Queued!Next
<1>6. ASSUME NEW w \in Worker, Signal(w) \/ RunReturns(w) \/ Killed(w) \/ Restarted(w)
      PROVE  IInv' /\ [Queued!Next]_(Queued!vars)
  BY <1>2, <1>6, InvControl
<1>. QED
  BY <1>1, <1>3, <1>4, <1>5, <1>6 DEF Next

\* Type correctness of the consumer and the broker.
THEOREM TypeCorrect == Spec => []TypeOK
<1>1. IInv => TypeOK
  BY DEF IInv
<1>. QED
  BY <1>1, InvInit, Step, PTL DEF Spec

\* The consumer implements at-least-once delivery: however replicas, batches,
\* lock expiries, panics, failed settlements, kills and restarts interleave, a
\* message leaves its queue only after a handler run that returned nil, or dead.
THEOREM Implementation == Spec => AtLeastOnce
<1>1. Init => Queued!Init
  BY DEF Init, Queued!Init
<1>. QED
  BY <1>1, InvInit, Step, PTL DEF Spec, AtLeastOnce, Queued!Spec

=============================================================================
