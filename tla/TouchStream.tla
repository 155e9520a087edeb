----------------------------- MODULE TouchStream ------------------------------
(***************************************************************************)
(* What the windows of the device may see of the touch screen: a stream of  *)
(* motion events in which every pointer goes down once, is part of every    *)
(* event until it goes up, and goes up once.                                *)
(***************************************************************************)
CONSTANTS
  Pointers,  \* pointer ids
  NoPointer  \* an event that is about no pointer in particular

VARIABLES
  down,  \* the pointers that are down
  event  \* the last motion event: its action, its pointers, whom it is about

Event(a, ps, p) == [action |-> a, pointers |-> ps, which |-> p]

Init == down = {} /\ event = Event("none", {}, NoPointer)

Down ==
  \E p \in Pointers :
    down = {} /\ down' = {p} /\ event' = Event("DOWN", {p}, p)

PointerDown ==
  \E p \in Pointers \ down :
    /\ down # {} /\ down' = down \cup {p}
    /\ event' = Event("POINTER_DOWN", down', p)

Move == down # {} /\ down' = down /\ event' = Event("MOVE", down, NoPointer)

PointerUp ==
  \E p \in down :
    /\ down # {p} /\ down' = down \ {p}
    /\ event' = Event("POINTER_UP", down, p)

Up ==
  \E p \in down :
    down = {p} /\ down' = {} /\ event' = Event("UP", down, p)

Cancel == down # {} /\ down' = {} /\ event' = Event("CANCEL", down, NoPointer)

Next == Down \/ PointerDown \/ Move \/ PointerUp \/ Up \/ Cancel

Spec == Init /\ [][Next]_<<down, event>>

=============================================================================
