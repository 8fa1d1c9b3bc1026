---------------------------- MODULE MCCfdiStore ----------------------------
(***************************************************************************)
(* Instances of CfdiStore for TLC.                                         *)
(***************************************************************************)
EXTENDS CfdiStore, TLC

CONSTANTS c1, c2

\* A payment that names other CFDIs, and a payroll receipt.
MCContents ==
  [c \in Cfdi |-> IF c = c1 THEN {"payments", "relations"} ELSE {"nomina"}]

\* c1 is of an earlier day than c2.
MCDay == [c \in Cfdi |-> IF c = c1 THEN 0 ELSE 1]

MCReplicas == Permutations(Worker)

=============================================================================
