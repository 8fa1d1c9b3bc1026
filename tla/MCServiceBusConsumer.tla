------------------------- MODULE MCServiceBusConsumer -------------------------
(***************************************************************************)
(* Instances of ServiceBusConsumer for TLC.                                *)
(***************************************************************************)
EXTENDS ServiceBusConsumer, TLC

CONSTANTS m1, m2, q1, q2

\* Both messages in one queue.
MCOneHome == [m \in Message |-> q1]

=============================================================================
