--------------------------- MODULE ShoulderKeyFilter ---------------------------
(***************************************************************************)
(* ShoulderKeyInputFiltrer: the input filter that turns the two shoulder    *)
(* keys of the phone into touches and merges them with those of the touch   *)
(* screen.  mTouchList holds the touches that are down; the slot of a touch *)
(* is the pointer id the windows see, and the index of a pointer in an      *)
(* event is its rank among the slots in use.  Input events are handled one  *)
(* at a time; the mapping of the keys for the app on screen is read from    *)
(* the database on every key event and may change in between (another app,  *)
(* a rotation, a setting).                                                  *)
(***************************************************************************)
EXTENDS Integers, FiniteSets

CONSTANTS
  Fingers,    \* pointer ids of the touch screen
  MaxPointers \* MAX_POINTER_COUNT (16 in the code)

KeyTouch == {11, 12}     \* touch ids of the left and of the right key
Slots    == 0..(MaxPointers - 1)
Invalid  == -1           \* INVALID_POINTER_ID

ASSUME FilterAssumption ==
  /\ Fingers \subseteq 0..9 /\ Fingers # {}
  /\ MaxPointers \in Nat /\ MaxPointers >= Cardinality(Fingers) + 2

VARIABLES
  touch,   \* mTouchList: touch[i] is the touch id in slot i, or Invalid
  event,   \* the last motion event the filter has sent
  fingers, \* the fingers on the touch screen (external)
  keys,    \* the shoulder keys that are held, by touch id (external)
  mapped,  \* the keys are mapped to coordinates for what is on screen (external)
  calm     \* history: no held key repeated or lost its mapping, none cancelled

world == <<fingers, keys, mapped, calm>>
vars  == <<touch, event, world>>

(* A definition whose name ends in an underscore and a word is never used   *)
(* by the specification: it is the next definition with a plausible bug,    *)
(* listed under "mutants" in PROJECT.json.                                  *)

Valid(list) == {i \in Slots : list[i] # Invalid}

(* The index in an event of the pointer in slot i, and back.                *)
Index(ids, i)     == Cardinality({j \in ids : j < i})
PointerAt(ids, k) == CHOOSE i \in ids : Index(ids, i) = k

Lowest(S) == CHOOSE i \in S : \A j \in S : i <= j

(* insertTouch: the list with touch t, and the index of t.  A new touch     *)
(* goes into the lowest free slot, whose number is its index.               *)
Found(list, t) == {i \in Slots : list[i] = t}
FreeSlots(list) == Slots \ Valid(list)

Insert_Append(list, t) ==
  IF Found(list, t) # {} THEN list
  ELSE [list EXCEPT ![Cardinality(Valid(list))] = t]

Insert(list, t) ==
  IF Found(list, t) # {} \/ FreeSlots(list) = {} THEN list
  ELSE [list EXCEPT ![Lowest(FreeSlots(list))] = t]

InsertIndex_BySlot(list, t) ==
  IF Found(list, t) # {} THEN Lowest(Found(list, t)) ELSE Lowest(FreeSlots(list))

InsertIndex(list, t) ==
  CASE Found(list, t) # {} -> Index(Valid(list), Lowest(Found(list, t)))
    [] Found(list, t) = {} /\ FreeSlots(list) # {} -> Lowest(FreeSlots(list))
    [] OTHER -> Invalid

(* removeTouch, by the index in the event.                                  *)
Remove_BySlot(list, k) ==
  [i \in Slots |-> IF i = k THEN Invalid ELSE list[i]]

Remove(list, k) ==
  [i \in Slots |-> IF i \in Valid(list) /\ Index(Valid(list), i) = k
                   THEN Invalid ELSE list[i]]

None == Invalid
NoTouch == [i \in Slots |-> Invalid]

Init ==
  /\ touch = NoTouch
  /\ event = [action |-> "none", pointers |-> {}, which |-> None]
  /\ fingers = {} /\ keys = {} /\ mapped = TRUE /\ calm = TRUE

(* buildMotionEvent and sendInputEvent, after insertTouch has made list.    *)
AsPointerAction(action) ==
  CASE action = "DOWN" -> "POINTER_DOWN"
    [] action = "UP"   -> "POINTER_UP"
    [] OTHER           -> action

AboutAll == {"MOVE", "CANCEL"}

MotionEvent(ids, k, action) ==
  IF action \in AboutAll
  THEN [action |-> action, pointers |-> ids, which |-> None]
  ELSE IF Cardinality(ids) <= 1
  THEN [action |-> action, pointers |-> ids, which |-> PointerAt(ids, 0)]
  ELSE [action |-> AsPointerAction(action), pointers |-> ids,
        which |-> PointerAt(ids, k)]

(* ACTION_HOVER_EXIT resets the list too; fingers on a touch screen do not  *)
(* hover, and no event below has that action.                               *)
Build(list, k, action) ==
  /\ event' = MotionEvent(Valid(list), k, action)
  /\ touch' = CASE action \in {"UP", "POINTER_UP"} -> Remove(list, k)
                [] action \in {"CANCEL", "HOVER_EXIT"} -> NoTouch
                [] OTHER                           -> list

Process(t, action) == Build(Insert(touch, t), InsertIndex(touch, t), action)

-----------------------------------------------------------------------------
(* processTouchScreenEvent.  All pointers of the event but the one it is    *)
(* about are in the list already: inserting them only moves them.           *)

TouchId(f) == f + 1

TouchDown(f) ==
  /\ f \notin fingers
  /\ fingers' = fingers \cup {f}
  /\ Process(TouchId(f), IF fingers = {} THEN "DOWN" ELSE "POINTER_DOWN")
  /\ UNCHANGED <<keys, mapped, calm>>

TouchUp(f) ==
  /\ f \in fingers
  /\ fingers' = fingers \ {f}
  /\ Process(TouchId(f), IF fingers = {f} THEN "UP" ELSE "POINTER_UP")
  /\ UNCHANGED <<keys, mapped, calm>>

TouchMove ==
  /\ fingers # {}
  /\ Process(TouchId(Lowest(fingers)), "MOVE")
  /\ UNCHANGED world

TouchCancel ==
  /\ fingers # {}
  /\ Process(TouchId(Lowest(fingers)), "CANCEL")
  /\ fingers' = {} /\ calm' = (calm /\ keys = {})
  /\ UNCHANGED <<keys, mapped>>

(* processShoulderKeyEvent: a key without coordinates is left to the others. *)
KeyEvent(t, action) ==
  IF mapped THEN Process(t, action) ELSE UNCHANGED <<touch, event>>

KeyDown(t) ==
  /\ keys' = keys \cup {t} /\ calm' = (calm /\ t \notin keys)
  /\ KeyEvent(t, "DOWN")
  /\ UNCHANGED <<fingers, mapped>>

KeyUp(t) ==
  /\ t \in keys
  /\ keys' = keys \ {t}
  /\ KeyEvent(t, "UP")
  /\ UNCHANGED <<fingers, mapped, calm>>

(* Another app, rotation or mapping: loadCoordinateByTaskPackage changes.   *)
Remap ==
  /\ mapped' = ~mapped /\ calm' = (calm /\ keys = {})
  /\ UNCHANGED <<touch, event, fingers, keys>>

Next ==
  \/ \E f \in Fingers : TouchDown(f) \/ TouchUp(f)
  \/ TouchMove \/ TouchCancel
  \/ \E t \in KeyTouch : KeyDown(t) \/ KeyUp(t)
  \/ Remap

Spec == Init /\ [][Next]_vars

-----------------------------------------------------------------------------
(* Correctness.                                                             *)

TouchIds == {TouchId(f) : f \in Fingers} \cup KeyTouch

TypeOK ==
  /\ touch \in [Slots -> TouchIds \cup {Invalid}]
  /\ event.pointers \subseteq Slots /\ event.which \in Slots \cup {None}
  /\ fingers \subseteq Fingers /\ keys \subseteq KeyTouch
  /\ mapped \in BOOLEAN /\ calm \in BOOLEAN

Touches == {touch[i] : i \in Valid(touch)}

(* Whatever the keys do, the list holds each finger that is on the screen   *)
(* once and no other finger; and no ghost touch: undisturbed, a key's touch *)
(* is down exactly while the key is held and mapped (insertTouch,           *)
(* removeTouch).                                                            *)
FingersTracked ==
  /\ TypeOK
  /\ Touches \ KeyTouch = {TouchId(f) : f \in fingers}
  /\ \A i, j \in Valid(touch) : touch[i] = touch[j] => i = j

NoGhostTouch == calm => Touches \cap KeyTouch = (IF mapped THEN keys ELSE {})

TouchesTrue == FingersTracked /\ NoGhostTouch

(* The pointer id of a touch never changes while it is down: events of the  *)
(* other touches do not move it to another slot.                            *)
PointerIdsStable ==
  [][\A i \in Valid(touch) : touch'[i] \in {touch[i], Invalid}]_vars

(* Undisturbed, the merged events form one consistent touch stream          *)
(* (TouchStream).                                                           *)
Stream == INSTANCE TouchStream WITH
            Pointers <- Slots, NoPointer <- None, down <- Valid(touch)

TouchStreamSpec ==
  Stream!Init /\ [][calm' => [Stream!Next]_<<Valid(touch), event>>]_vars

=============================================================================
