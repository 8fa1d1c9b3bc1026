------------------------------- MODULE EventBus -------------------------------
(***************************************************************************)
(* The bus in the memory of a process: who publishes an event runs the     *)
(* handlers of its type, some of which publish again, and most of which    *)
(* put it into a queue.  With LOCAL_INFRA the handlers of each publish run *)
(* in a goroutine of their own.                                            *)
(***************************************************************************)
EXTENDS Naturals, Sequences, FiniteSets, FiniteSetsExt

CONSTANTS
  Publisher,   \* calls that publish one event each (a bound of the model)
  Goroutine,   \* goroutines (a bound of the model)
  Raised,      \* types of events that come from outside of the bus, once each
  Nobody

ASSUME EventBusAssumption == Nobody \notin Publisher \cup Goroutine

VARIABLES
  localInfra, \* LOCAL_INFRA
  mutex,      \* who holds the lock of the bus, or Nobody
  work,       \* work[t]: what t has still to do, the first first
  eventCount, \* eventCount[e]: publishes of type e
  handled,    \* handled[e]: handlers of type e that ran, with or without an error
  external    \* external[e]: history: publishes from outside of the bus

busVars == <<localInfra, mutex, work, eventCount, handled, external>>

Thread == Publisher \cup Goroutine

\* What the handler of a type publishes, for the types whose handler is not a queue.
Publishes(local) ==
  [CompanyCreated |-> <<"MetadataRequested", "CreateQuery", "CreateQuery", "CompleteNeeded",
                        "CompleteNeeded">> \o (IF local THEN <<>> ELSE <<"RequestScrap">>),
   RequestScrap |-> <<"ScrapOrchestrator">>,
   MetadataQueryDownloaded |-> <<"MetadataDownloaded">>,
   CFDIQueryDownloaded |-> <<"CFDIsDownloaded">>]

Domain == {"CompanyCreated", "RequestScrap", "MetadataQueryDownloaded", "CFDIQueryDownloaded"}

Queued == {"MetadataRequested", "CreateQuery", "CompleteNeeded", "ScrapOrchestrator",
           "MetadataDownloaded", "CFDIsDownloaded"}

EventType == Domain \cup Queued

Children(e) == IF e \in Domain THEN Publishes(localInfra)[e] ELSE <<>>

ASSUME RaisedAssumption == Raised \subseteq EventType

BusInit ==
  /\ localInfra \in BOOLEAN
  /\ mutex = Nobody
  /\ work = [t \in Thread |-> <<>>]
  /\ eventCount = [e \in EventType |-> 0]
  /\ handled = [e \in EventType |-> 0]
  /\ external = [e \in EventType |-> 0]

Task(do, e) == [do |-> do, event |-> e]

Doing(t, do) == work[t] # <<>> /\ Head(work[t]).do = do

\* A handler of a request, or a job, publishes an event.
Raise(t, e) ==
  /\ work[t] = <<>> /\ external[e] = 0
  /\ work' = [work EXCEPT ![t] = <<Task("publish", e)>>]
  /\ external' = [external EXCEPT ![e] = @ + 1]
  /\ UNCHANGED <<localInfra, mutex, eventCount, handled>>

Publish(t) ==
  /\ Doing(t, "publish")
  /\ mutex = Nobody
  /\ mutex' = t
  /\ work' = [work EXCEPT ![t] = <<Task("copy", Head(@).event)>> \o Tail(@)]
  /\ UNCHANGED <<localInfra, eventCount, handled, external>>

\* The handlers are copied and the lock is given back; then they run here, or in a
\* goroutine.
Unlock(t) ==
  /\ Doing(t, "copy")
  /\ LET e == Head(work[t]).event IN
     /\ eventCount' = [eventCount EXCEPT ![e] = @ + 1]
     /\ IF localInfra
        THEN \E g \in Goroutine : /\ work[g] = <<>>
                                  /\ work' = [work EXCEPT ![t] = Tail(@), ![g] = <<Task("handle", e)>>]
        ELSE work' = [work EXCEPT ![t] = <<Task("handle", e)>> \o Tail(@)]
  /\ mutex' = Nobody
  /\ UNCHANGED <<localInfra, handled, external>>

\* A domain handler publishes its events one after the other.
HandleDomain(t) ==
  /\ Doing(t, "handle") /\ Head(work[t]).event \in Domain
  /\ LET e == Head(work[t]).event
         children == Children(e)
     IN /\ work' = [work EXCEPT ![t] =
             [i \in DOMAIN children |-> Task("publish", children[i])] \o Tail(@)]
        /\ handled' = [handled EXCEPT ![e] = @ + 1]
  /\ UNCHANGED <<localInfra, mutex, eventCount, external>>

\* Variant: an error of the queue ends what the caller had still to do.
HandleQueuedOrReturn(t) ==
  /\ Doing(t, "handle") /\ Head(work[t]).event \in Queued
  /\ work' \in {[work EXCEPT ![t] = Tail(@)], [work EXCEPT ![t] = <<>>]}
  /\ handled' = [handled EXCEPT ![Head(work[t]).event] = @ + 1]
  /\ UNCHANGED <<localInfra, mutex, eventCount, external>>

\* The event goes to its queue.  When it is too large, or the queue does not take it,
\* the error is logged; in either case the caller goes on.
HandleQueued(t) ==
  /\ Doing(t, "handle") /\ Head(work[t]).event \in Queued
  /\ work' = [work EXCEPT ![t] = Tail(@)]
  /\ handled' = [handled EXCEPT ![Head(work[t]).event] = @ + 1]
  /\ UNCHANGED <<localInfra, mutex, eventCount, external>>

BusNext ==
  \/ \E t \in Publisher, e \in Raised : Raise(t, e)
  \/ \E t \in Thread :
       \/ Publish(t)
       \/ Unlock(t)
       \/ HandleDomain(t)
       \/ HandleQueued(t)

BusSpec == BusInit /\ [][BusNext]_busVars

-----------------------------------------------------------------------------
(* Properties *)

\* How often the handler of p publishes c.
Times(p, c) == Cardinality({i \in DOMAIN Children(p) : Children(p)[i] = c})

\* Whatever fails, once nobody is at work every event that was published was handed to
\* its handler once, and every handler published all that it had to.
NothingDropped ==
  (\A t \in Thread : work[t] = <<>>) =>
    \A e \in EventType :
      /\ handled[e] = eventCount[e]
      /\ eventCount[e] =
           external[e] + MapThenSumSet(LAMBDA p : handled[p] * Times(p, e), Domain)

=============================================================================
