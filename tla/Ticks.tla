------------------------------- MODULE Ticks -------------------------------
(***************************************************************************)
(* What the scheduler promises: a tick runs the systems registered at its  *)
(* start, all of them, once each, in an order that respects their Before   *)
(* and After and otherwise is the order of registration; it runs none if   *)
(* they have no order, and no more once one of them fails.                 *)
(***************************************************************************)
EXTENDS PipelineOrder

CONSTANTS Definitions

VARIABLES
  systems,  \* the registered systems
  ticking,  \* whether a tick is under way
  queue,    \* names of the systems this tick has still to run
  stop,     \* whether a stop was requested
  reply     \* what the last call or tick returned

vars == <<systems, ticking, queue, stop, reply>>

NamesAt(indices) == [k \in 1 .. Len(indices) |-> systems[indices[k]].name]
Holders(n) == {i \in Slots(systems) : systems[i].name = n}

Init ==
  /\ systems = <<>> /\ queue = <<>>
  /\ ticking = FALSE /\ stop = FALSE
  /\ reply = "OK"

\* A name in use is refused; a copy that cannot be allocated, too.
Register(d) ==
  /\ ~ticking
  /\ \/ Holders(d.name) = {} /\ systems' = Append(systems, d) /\ reply' = "OK"
     \/ Holders(d.name) # {} /\ reply' = "EXISTS" /\ UNCHANGED systems
     \/ Holders(d.name) = {} /\ reply' = "MEMORY" /\ UNCHANGED systems
  /\ UNCHANGED <<ticking, queue, stop>>

\* The others keep their places.
Unregister(n) ==
  /\ ~ticking
  /\ IF Holders(n) = {} THEN reply' = "NOT_FOUND" /\ UNCHANGED systems
     ELSE /\ \E i \in Holders(n) :
               systems' = SubSeq(systems, 1, i - 1) \o SubSeq(systems, i + 1, Len(systems))
          /\ reply' = "OK"
  /\ UNCHANGED <<ticking, queue, stop>>

Begin ==
  /\ ~ticking
  /\ ~Cyclic(systems)
  /\ ticking' = TRUE
  /\ queue' = NamesAt(RegistrationOrder(systems))
  /\ UNCHANGED <<systems, stop, reply>>

Refuse ==
  /\ ~ticking
  /\ reply' \in (IF Cyclic(systems) THEN {"ARGUMENT"} ELSE {}) \cup {"MEMORY"}
  /\ UNCHANGED <<systems, ticking, queue, stop>>

\* The next system of the queue runs; it may ask for a stop, and may fail.
Run ==
  /\ ticking /\ queue # <<>>
  /\ stop' \in {stop, TRUE}
  /\ \/ queue' = Tail(queue) /\ UNCHANGED <<ticking, reply>>
     \/ queue' = <<>> /\ ticking' = FALSE /\ reply' = "CALLBACK"
  /\ UNCHANGED systems

End ==
  /\ ticking /\ queue = <<>>
  /\ ticking' = FALSE /\ reply' = "OK"
  /\ UNCHANGED <<systems, queue, stop>>

\* A host forgets an earlier request before its first tick.
ClearStop ==
  /\ ~ticking
  /\ stop' = FALSE
  /\ UNCHANGED <<systems, ticking, queue, reply>>

Next ==
  \/ \E d \in Definitions : Register(d) \/ Unregister(d.name)
  \/ Begin \/ Refuse \/ Run \/ End \/ ClearStop

Spec == Init /\ [][Next]_vars
=============================================================================
