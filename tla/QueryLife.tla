------------------------------- MODULE QueryLife -------------------------------
(***************************************************************************)
(* What the pipeline promises of every query it sent to the SAT, whatever  *)
(* is lost, delivered again, late or out of order: packages only move      *)
(* forward, from the SAT's offer to storage and from storage to the        *)
(* tables, and the phase the row shows is never ahead of them.  A phase    *)
(* may be shown again, or give way to an error, but a query that was       *)
(* verified is never shown as waiting once more, and one whose answer was  *)
(* not acceptable never as found.                                          *)
(***************************************************************************)
CONSTANTS
  Query,    \* the queries
  Package,  \* the packages of the SAT
  MaySkip   \* whether a package may be skipped when it cannot be read

VARIABLES
  phase,    \* what the row of a query shows
  accepted, \* the queries with an answer that may be downloaded
  offered,  \* the packages of that answer
  held,     \* the packages in storage
  loaded    \* the packages whose records reached the tables

vars == <<phase, accepted, offered, held, loaded>>

Init ==
  /\ phase = [q \in Query |-> "absent"]
  /\ accepted = {}
  /\ offered = [q \in Query |-> {}]
  /\ held = [q \in Query |-> {}]
  /\ loaded = [q \in Query |-> {}]

Show(q, p) == phase' = [phase EXCEPT ![q] = p]

Ask(q) ==
  /\ phase[q] = "absent"
  /\ \E p \in {"waiting", "ended"} : Show(q, p)
  /\ UNCHANGED <<accepted, offered, held, loaded>>

\* The SAT answers once.
Accept(q, pkgs) ==
  /\ phase[q] # "absent" /\ q \notin accepted
  /\ accepted' = accepted \cup {q}
  /\ offered' = [offered EXCEPT ![q] = pkgs]
  /\ UNCHANGED <<phase, held, loaded>>

Find(q) ==
  /\ q \in accepted
  /\ Show(q, "found")
  /\ UNCHANGED <<accepted, offered, held, loaded>>

End(q) ==
  /\ phase[q] # "absent"
  /\ Show(q, "ended")
  /\ UNCHANGED <<accepted, offered, held, loaded>>

\* Some packages reach the storage, and the attempt fails or stops.
Store(q, pkgs) ==
  /\ q \in accepted /\ pkgs \subseteq offered[q]
  /\ held' = [held EXCEPT ![q] = @ \cup pkgs]
  /\ Show(q, "ended") \/ UNCHANGED phase
  /\ UNCHANGED <<accepted, offered, loaded>>

StoreAll(q) ==
  /\ q \in accepted
  /\ held' = [held EXCEPT ![q] = offered[q]]
  /\ Show(q, "held")
  /\ UNCHANGED <<accepted, offered, loaded>>

\* Loading starts only from a complete storage; it may stop half-way.
Load(q, pkgs) ==
  /\ q \in accepted /\ held[q] = offered[q] /\ pkgs \subseteq offered[q]
  /\ loaded' = [loaded EXCEPT ![q] = @ \cup pkgs]
  /\ \/ UNCHANGED phase
     \/ (MaySkip \/ pkgs = offered[q]) /\ Show(q, "processed")
  /\ UNCHANGED <<accepted, offered, held>>

Next ==
  \E q \in Query :
    \/ Ask(q) \/ Find(q) \/ End(q) \/ StoreAll(q)
    \/ \E pkgs \in SUBSET Package : Accept(q, pkgs) \/ Store(q, pkgs) \/ Load(q, pkgs)

Spec == Init /\ [][Next]_vars

=============================================================================
