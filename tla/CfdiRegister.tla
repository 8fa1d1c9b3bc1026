---------------------------- MODULE CfdiRegister ----------------------------
(***************************************************************************)
(* What the cfdi table promises of the invoices (CFDIs) of a company,      *)
(* whatever the order, the repetition and the failures of the packages it  *)
(* is filled from: it only learns.  A cancellation it reports is one of    *)
(* the SAT, it is never taken back, and an XML that was stored stays.      *)
(***************************************************************************)
CONSTANT Cfdi

VARIABLES
  sat,     \* the CFDIs the SAT has cancelled
  status,  \* what the table says of each CFDI
  hasXml   \* the CFDIs whose XML is stored

Init ==
  /\ sat \subseteq Cfdi
  /\ status = [c \in Cfdi |-> "unknown"]
  /\ hasXml = {}

Cancel ==
  /\ \E c \in Cfdi : sat' = sat \cup {c}
  /\ UNCHANGED <<status, hasXml>>

\* What may follow a status in the table, for a CFDI the SAT has cancelled
\* or not.
Later(s, cancelled) ==
  {s} \cup (IF s = "unknown" THEN {"vigente"} ELSE {})
      \cup (IF cancelled THEN {"cancelado"} ELSE {})

Learn ==
  /\ \A c \in Cfdi : status'[c] \in Later(status[c], c \in sat)
  /\ hasXml \subseteq hasXml'
  /\ \A c \in hasXml' : status'[c] # "unknown"
  /\ UNCHANGED sat

Spec == Init /\ [][Cancel \/ Learn]_<<sat, status, hasXml>>

=============================================================================
