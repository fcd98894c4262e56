------------------------------ MODULE EntityMap ------------------------------
(***************************************************************************)
(* What the engine promises to the callers of its entity and component     *)
(* API: entities with distinct ids, components with permanent ids, and at  *)
(* most one value for an entity in a component.  A call that does not      *)
(* return OK has no effect a caller can see, except that a failed creation *)
(* may leave the built-in component registered.                            *)
(***************************************************************************)
EXTENDS Naturals, Sequences

CONSTANTS Names, Hierarchy, Values, NoParent, IdLimit

VARIABLES
  live,        \* the entities created so far
  registered,  \* component names, in order of registration
  table,       \* the values: a set of <<component id, entity, value>>
  reply        \* what the last call returned

vars == <<live, registered, table, reply>>

Ids == 0 .. IdLimit - 1
Ranks(n) == {c \in 1 .. Len(registered) : registered[c] = n}
Holds(c, e) == \E row \in table : row[1] = c /\ row[2] = e

Replies(status, e) == reply' = [status |-> status, entity |-> e]

Init ==
  /\ live = {}
  /\ registered = <<>>
  /\ table = {}
  /\ reply = [status |-> "OK", entity |-> 0]

Registers(n) ==
  registered' = IF Ranks(n) # {} THEN registered ELSE Append(registered, n)

Create(e) ==
  /\ e \notin live \cup {0}
  /\ Registers(Hierarchy)
  /\ live' = live \cup {e}
  /\ \E c \in 1 .. Len(registered') :
       registered'[c] = Hierarchy /\ table' = table \cup {<<c, e, NoParent>>}
  /\ Replies("OK", e)

CreateFails ==
  /\ Registers(Hierarchy) \/ UNCHANGED registered
  /\ Replies("MEMORY", 0)
  /\ UNCHANGED <<live, table>>

Register(n) ==
  /\ Ranks(n) = {}
  /\ Registers(n)
  /\ Replies("OK", 0)
  /\ UNCHANGED <<live, table>>

RegisterFails(n) ==
  /\ Replies(IF Ranks(n) = {} THEN "MEMORY" ELSE "EXISTS", 0)
  /\ UNCHANGED <<live, registered, table>>

Set(c, e, v) ==
  /\ e \in live
  /\ c \in 1 .. Len(registered)
  /\ table' = {row \in table : row[1] # c \/ row[2] # e} \cup {<<c, e, v>>}
  /\ Replies("OK", 0)
  /\ UNCHANGED <<live, registered>>

\* Overwriting needs no memory, so only a first value can fail for lack of it.
SetFails(c, e) ==
  /\ \/ e \notin live /\ Replies("ARGUMENT", 0)
     \/ e \in live /\ c \notin 1 .. Len(registered) /\ Replies("NOT_FOUND", 0)
     \/ e \in live /\ c \in 1 .. Len(registered) /\ ~Holds(c, e) /\ Replies("MEMORY", 0)
  /\ UNCHANGED <<live, registered, table>>

Next ==
  \/ \E e \in Ids : Create(e)
  \/ CreateFails
  \/ \E n \in Names : Register(n) \/ RegisterFails(n)
  \/ \E c \in 0 .. Len(registered) + 1, e \in Ids :
       SetFails(c, e) \/ \E v \in Values : Set(c, e, v)

Spec == Init /\ [][Next]_vars
=============================================================================
