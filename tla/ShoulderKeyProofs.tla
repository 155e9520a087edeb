------------------------- MODULE ShoulderKeyProofs -------------------------
(***************************************************************************)
(* Proofs about ShoulderKeyFilter, for any fingers and any capacity of      *)
(* mTouchList that holds them and the two keys: the list says what is on    *)
(* the screen, a pointer keeps its id, and the events of an undisturbed     *)
(* filter are a touch stream.  Then about ShoulderKeySettings, as Mapping,  *)
(* for any apps and positions: the mapping the filter reads is the one      *)
(* that was edited, the filter maps for the app on screen, and the rows of   *)
(* an app are enabled when its switch is on.                                *)
(***************************************************************************)
EXTENDS ShoulderKeyFilter, ShoulderKeySettings, FiniteSetTheorems, WellFoundedInduction, TLAPS

ListType        == [Slots -> TouchIds \cup {Invalid}]
TouchesOf(lst) == {lst[i] : i \in Valid(lst)}
Once(lst)      == \A i, j \in Valid(lst) : lst[i] = lst[j] => i = j

-----------------------------------------------------------------------------
(* Slots and touch ids.                                                     *)

LEMMA Numbers ==
  /\ MaxPointers \in Nat /\ Slots \subseteq Nat /\ \A i \in Slots : \A k \in 0 .. i : k \in Slots
  /\ Fingers \subseteq 0..9 /\ \A f \in Fingers : f \in Nat /\ TouchId(f) = f + 1
  /\ Invalid \notin TouchIds /\ Invalid \notin Slots /\ KeyTouch \subseteq TouchIds
  /\ \A f \in Fingers : TouchId(f) \in TouchIds \ KeyTouch
  /\ \A f, g \in Fingers : TouchId(f) = TouchId(g) => f = g
<1>1. /\ MaxPointers \in Nat /\ Slots \subseteq Nat
      /\ \A i \in Slots : \A k \in 0 .. i : k \in Slots
  BY FilterAssumption DEF Slots
<1>2. Fingers \subseteq 0..9 /\ \A f \in Fingers : f \in Nat /\ TouchId(f) = f + 1
  BY FilterAssumption DEF TouchId
<1>3. /\ \A f \in Fingers : TouchId(f) \in TouchIds /\ TouchId(f) \notin KeyTouch
      /\ \A f, g \in Fingers : TouchId(f) = TouchId(g) => f = g
  BY <1>2 DEF TouchIds, KeyTouch
<1>4. Invalid \notin Slots /\ Invalid \notin KeyTouch /\ KeyTouch \subseteq TouchIds
  BY FilterAssumption DEF Slots, TouchIds, KeyTouch, Invalid
<1>5. Invalid \notin TouchIds
  <2>1. TouchIds = {TouchId(f) : f \in Fingers} \cup KeyTouch
    BY DEF TouchIds
  <2>2. \A f \in Fingers : TouchId(f) # Invalid
    BY <1>2 DEF Invalid
  <2> QED
    BY <1>4, <2>1, <2>2, Zenon
<1> QED
  BY <1>1, <1>2, <1>3, <1>4, <1>5

LEMMA Finite ==
  /\ IsFiniteSet(Slots) /\ Cardinality(Slots) = MaxPointers
  /\ IsFiniteSet(TouchIds) /\ Cardinality(TouchIds) <= MaxPointers
<1>1. IsFiniteSet(Slots) /\ Cardinality(Slots) = MaxPointers
  <2>1. MaxPointers \in Nat
    BY Numbers
  <2>2. 0 \in Int /\ MaxPointers - 1 \in Int
    BY <2>1
  <2>3. /\ IsFiniteSet(0 .. MaxPointers - 1)
        /\ Cardinality(0 .. MaxPointers - 1) =
             IF 0 > MaxPointers - 1 THEN 0 ELSE MaxPointers - 1 - 0 + 1
    BY <2>2, FS_Interval, Zenon
  <2> QED
    BY <2>1, <2>3 DEF Slots
<1>2. IsFiniteSet(Fingers) /\ Cardinality(Fingers) \in Nat
  <2>1. Fingers \in SUBSET Nat /\ 9 \in Nat /\ \A f \in Fingers : f <= 9
    BY Numbers
  <2>2. IsFiniteSet(Fingers)
    BY <2>1, FS_BoundedSetOfNaturals
  <2> QED
    BY <2>2, FS_CardinalityType
<1> DEFINE Ids == {TouchId(f) : f \in Fingers}
<1>3. IsFiniteSet(Ids) /\ Cardinality(Ids) <= Cardinality(Fingers)
  <2>1. [f \in Fingers |-> TouchId(f)] \in Surjection(Fingers, Ids)
    BY DEF Surjection
  <2> QED
    BY <1>2, <2>1, FS_Surjection
<1>4. IsFiniteSet(KeyTouch) /\ Cardinality(KeyTouch) = 2
  <2>1. KeyTouch = {11} \cup {12} /\ 12 \notin {11}
    BY DEF KeyTouch
  <2>2. IsFiniteSet({11}) /\ Cardinality({11}) = 1
    BY FS_Singleton
  <2>3. IsFiniteSet({11} \cup {12}) /\ Cardinality({11} \cup {12}) = Cardinality({11}) + 1
    BY <2>1, <2>2, FS_AddElement
  <2> QED
    BY <2>1, <2>2, <2>3
<1>5. IsFiniteSet(TouchIds) /\ Cardinality(TouchIds) <= Cardinality(Ids) + 2
  <2>1. TouchIds = Ids \cup KeyTouch
    BY DEF TouchIds
  <2> HIDE DEF Ids
  <2>2. Cardinality(Ids \cap KeyTouch) \in Nat /\ Cardinality(Ids) \in Nat
    BY <1>3, FS_Intersection, FS_CardinalityType
  <2>3. /\ IsFiniteSet(Ids \cup KeyTouch)
        /\ Cardinality(Ids \cup KeyTouch) =
             Cardinality(Ids) + Cardinality(KeyTouch) - Cardinality(Ids \cap KeyTouch)
    BY <1>3, <1>4, FS_Union
  <2> QED
    BY <1>4, <2>1, <2>2, <2>3
<1>6. Cardinality(Ids) \in Nat /\ Cardinality(TouchIds) \in Nat
  BY <1>3, <1>5, FS_CardinalityType
<1> QED
  BY <1>1, <1>2, <1>3, <1>5, <1>6, FilterAssumption

LEMMA LowestIsLeast ==
  ASSUME NEW S \in SUBSET Nat, S # {}
  PROVE  Lowest(S) \in S /\ \A j \in S : Lowest(S) <= j
<1>1. IsWellFoundedOn(OpToRel(<, Nat), Nat)
  BY NatLessThanWellFounded
<1>2. PICK i \in S : \A j \in S : <<j, i>> \notin OpToRel(<, Nat)
  BY <1>1, WFMin
<1>3. \A j \in S : ~(j < i)
  BY <1>2 DEF OpToRel
<1>4. \E k \in S : \A j \in S : k <= j
  BY <1>3
<1> QED
  BY <1>4 DEF Lowest

-----------------------------------------------------------------------------
(* The index of a pointer in an event identifies it.                        *)

LEMMA IndexType ==
  ASSUME NEW ids \in SUBSET Slots, NEW i \in ids
  PROVE  /\ IsFiniteSet(ids) /\ Cardinality(ids) \in Nat
         /\ Index(ids, i) \in Nat /\ Index(ids, i) < Cardinality(ids)
<1>1. IsFiniteSet(ids) /\ Cardinality(ids) \in Nat
  BY Finite, FS_Subset, FS_CardinalityType
<1> DEFINE below == {j \in ids : j < i}
<1>2. IsFiniteSet(below) /\ Cardinality(below) \in Nat /\ Cardinality(below) <= Cardinality(ids)
  BY <1>1, FS_Subset, FS_CardinalityType
<1>3. below # ids
  BY Numbers
<1>4. Cardinality(below) # Cardinality(ids)
  <2>1. below \in SUBSET ids
    OBVIOUS
  <2> QED
    BY <1>1, <1>3, <2>1, FS_Subset
<1> QED
  BY <1>1, <1>2, <1>4 DEF Index

LEMMA IndexInjective ==
  ASSUME NEW ids \in SUBSET Slots, NEW i \in ids, NEW j \in ids, Index(ids, i) = Index(ids, j)
  PROVE  i = j
<1>1. ASSUME NEW a \in ids, NEW b \in ids, a < b PROVE Index(ids, a) < Index(ids, b)
  <2> DEFINE A == {k \in ids : k < a}
             B == {k \in ids : k < b}
  <2>1. IsFiniteSet(B) /\ Cardinality(A) \in Nat /\ Cardinality(B) \in Nat
    BY Finite, FS_Subset, FS_CardinalityType
  <2>2. A \in SUBSET B /\ a \in B /\ a \notin A
    <3>1. \A k \in ids : k \in Nat
      BY Numbers
    <3> QED
      BY <1>1, <3>1
  <2>3. Cardinality(A) <= Cardinality(B) /\ Cardinality(A) # Cardinality(B)
    BY <2>1, <2>2, FS_Subset
  <2> QED
    BY <2>1, <2>3 DEF Index
<1>2. i \in Nat /\ j \in Nat /\ Index(ids, i) \in Nat
  BY Numbers, IndexType
<1> QED
  BY <1>1, <1>2

LEMMA PointerOfIndex ==
  ASSUME NEW ids \in SUBSET Slots, NEW i \in ids
  PROVE  PointerAt(ids, Index(ids, i)) = i
BY IndexInjective DEF PointerAt

LEMMA OnlyPointer ==
  ASSUME NEW ids \in SUBSET Slots, NEW i \in ids
  PROVE  /\ Cardinality(ids) <= 1 <=> ids = {i}
         /\ Cardinality(ids) <= 1 => Index(ids, i) = 0
<1>1. IsFiniteSet(ids) /\ Cardinality(ids) \in Nat /\ Index(ids, i) \in Nat
      /\ Index(ids, i) < Cardinality(ids)
  BY IndexType
<1>2. Cardinality(ids) = 1 <=> \E x : ids = {x}
  BY <1>1, FS_Singleton
<1> QED
  BY <1>1, <1>2

(* The slots below the lowest free one are all in use.                      *)
LEMMA LowestFreeIndex ==
  ASSUME NEW lst, FreeSlots(lst) # {}, NEW ids \in SUBSET Slots,
         ids \cup {Lowest(FreeSlots(lst))} = Valid(lst) \cup {Lowest(FreeSlots(lst))}
  PROVE  /\ Lowest(FreeSlots(lst)) \in FreeSlots(lst)
         /\ Index(ids, Lowest(FreeSlots(lst))) = Lowest(FreeSlots(lst))
<1> DEFINE s == Lowest(FreeSlots(lst))
<1>1. s \in FreeSlots(lst) /\ \A j \in FreeSlots(lst) : s <= j
  BY LowestIsLeast, Numbers DEF FreeSlots
<1>2. s \in Slots /\ s \in Nat /\ \A k \in 0 .. s : k \in Slots
  BY <1>1, Numbers DEF FreeSlots
<1>3. {j \in ids : j < s} = 0 .. (s - 1)
  <2>1. ASSUME NEW j \in ids, j < s PROVE j \in 0 .. (s - 1)
    BY <1>2, <2>1, Numbers
  <2>2. ASSUME NEW j \in 0 .. (s - 1) PROVE j \in ids /\ j < s
    <3>1. j \in Slots /\ j < s /\ j \in Nat
      BY <1>2
    <3>2. j \notin FreeSlots(lst)
      BY <1>1, <1>2, <3>1
    <3> QED
      BY <3>1, <3>2, <1>2 DEF FreeSlots
  <2> QED
    BY <2>1, <2>2
<1>4. Cardinality(0 .. (s - 1)) = s
  <2> HIDE DEF s
  <2>1. s \in Nat /\ 0 \in Int /\ s - 1 \in Int
    BY <1>2
  <2> QED
    BY ONLY <2>1, FS_Interval
<1> QED
  BY <1>1, <1>3, <1>4 DEF Index

-----------------------------------------------------------------------------
(* insertTouch and removeTouch.                                             *)

(* There is a free slot for a touch that is not down.                       *)
LEMMA Room ==
  ASSUME NEW lst \in ListType, Once(lst), NEW t \in TouchIds, t \notin TouchesOf(lst)
  PROVE  FreeSlots(lst) # {}
<1> SUFFICES ASSUME FreeSlots(lst) = {} PROVE FALSE
  OBVIOUS
<1>1. Valid(lst) = Slots
  BY DEF FreeSlots, Valid
<1> DEFINE others == TouchIds \ {t}
<1>2. lst \in [Slots -> others]
  BY <1>1 DEF ListType, TouchesOf, Valid
<1>3. IsFiniteSet(others) /\ Cardinality(others) < Cardinality(Slots)
  <2>1. IsFiniteSet(TouchIds \ {t}) /\ Cardinality(TouchIds \ {t}) = Cardinality(TouchIds) - 1
    BY Finite, FS_RemoveElement
  <2>2. Cardinality(TouchIds) \in Nat /\ MaxPointers \in Nat
    BY Finite, FS_CardinalityType, FilterAssumption
  <2> QED
    BY <2>1, <2>2, Finite
<1> HIDE DEF others
<1>4. \E x, y \in Slots : x # y /\ lst[x] = lst[y]
  BY <1>2, <1>3, Finite, FS_PigeonHole
<1> QED
  BY <1>1, <1>4 DEF Once

Placed(lst, t, new, s) ==
  /\ new \in ListType /\ Once(new) /\ new[s] = t /\ s \in Valid(new)
  /\ Valid(new) = Valid(lst) \cup {s}
  /\ \A i \in Slots \ {s} : new[i] = lst[i]
  /\ InsertIndex(lst, t) = Index(Valid(new), s)
  /\ t \in TouchesOf(lst) => new = lst
  /\ t \notin TouchesOf(lst) => s \notin Valid(lst)

LEMMA Inserted ==
  ASSUME NEW lst \in ListType, Once(lst), NEW t \in TouchIds
  PROVE  \E s \in Slots : Placed(lst, t, Insert(lst, t), s)
<1>1. CASE t \in TouchesOf(lst)
  <2>1. PICK s \in Valid(lst) : lst[s] = t
    BY <1>1 DEF TouchesOf
  <2>2. Found(lst, t) = {s} /\ s \in Slots
    <3>1. t # Invalid
      BY Numbers
    <3>2. \A i \in Slots : lst[i] = t => i \in Valid(lst)
      BY <3>1 DEF Valid
    <3>3. s \in Slots
      BY <2>1 DEF Valid
    <3>4. \A i \in Slots : lst[i] = t => i = s
      BY <2>1, <3>2 DEF Once
    <3> QED
      BY <2>1, <3>3, <3>4 DEF Found
  <2>3. Lowest(Found(lst, t)) = s
    BY <2>2, LowestIsLeast, Numbers
  <2>4. Insert(lst, t) = lst /\ InsertIndex(lst, t) = Index(Valid(lst), s)
    BY <2>2, <2>3 DEF Insert, InsertIndex
  <2> QED
    BY <1>1, <2>1, <2>2, <2>4 DEF Placed
<1>2. CASE t \notin TouchesOf(lst)
  <2> DEFINE s == Lowest(FreeSlots(lst))
             new == [lst EXCEPT ![s] = t]
  <2>1. Found(lst, t) = {} /\ FreeSlots(lst) # {}
    BY <1>2, Room, Numbers DEF Found, TouchesOf, Valid
  <2>2. Insert(lst, t) = new /\ InsertIndex(lst, t) = s
    BY <2>1 DEF Insert, InsertIndex
  <2>3. s \in FreeSlots(lst)
    BY <2>1, LowestIsLeast, Numbers DEF FreeSlots
  <2>4. s \in Slots /\ s \notin Valid(lst)
    BY <2>3 DEF FreeSlots
  <2> HIDE DEF s
  <2>5. new \in ListType /\ new[s] = t /\ \A i \in Slots \ {s} : new[i] = lst[i]
    BY <2>4 DEF ListType
  <2> HIDE DEF new
  <2>6. Valid(new) = Valid(lst) \cup {s}
    BY <2>4, <2>5, Numbers DEF Valid
  <2>7. Index(Valid(new), s) = s
    <3>1. Valid(new) \in SUBSET Slots
      BY DEF Valid
    <3> QED
      BY <2>1, <2>6, <3>1, LowestFreeIndex DEF s
  <2>8. Once(new)
    BY <1>2, <2>4, <2>5, <2>6 DEF Once, TouchesOf, Valid
  <2> QED
    BY <1>2, <2>2, <2>4, <2>5, <2>6, <2>7, <2>8 DEF Placed
<1> QED
  BY <1>1, <1>2

LEMMA Removed ==
  ASSUME NEW lst \in ListType, NEW s \in Valid(lst)
  PROVE  Remove(lst, Index(Valid(lst), s)) = [lst EXCEPT ![s] = Invalid]
<1>1. s \in Slots /\ Valid(lst) \in SUBSET Slots
  BY DEF Valid
<1>2. \A i \in Valid(lst) : Index(Valid(lst), i) = Index(Valid(lst), s) <=> i = s
  BY <1>1, IndexInjective
<1> QED
  BY <1>1, <1>2 DEF Remove, ListType

-----------------------------------------------------------------------------
(* The event a step sends, and the touches it leaves.                       *)

Known == touch \in ListType /\ Once(touch)

LEMMA EventOf ==
  ASSUME NEW ids \in SUBSET Slots, NEW s \in ids, NEW action, action \notin AboutAll
  PROVE  MotionEvent(ids, Index(ids, s), action) =
           [action |-> IF ids = {s} THEN action ELSE AsPointerAction(action),
            pointers |-> ids, which |-> s]
<1>1. PointerAt(ids, Index(ids, s)) = s
  BY PointerOfIndex
<1>2. Cardinality(ids) <= 1 <=> ids = {s}
  BY OnlyPointer
<1>3. Cardinality(ids) <= 1 => PointerAt(ids, 0) = s
  BY <1>1, OnlyPointer
<1> QED
  BY <1>1, <1>2, <1>3 DEF MotionEvent

LEMMA ProcessDown ==
  ASSUME Known, NEW t \in TouchIds, NEW action \in {"DOWN", "POINTER_DOWN"}, Process(t, action)
  PROVE  \E s \in Slots :
           /\ Known' /\ Valid(touch') = Valid(touch) \cup {s} /\ touch'[s] = t
           /\ \A i \in Valid(touch) : touch'[i] = touch[i]
           /\ t \notin Touches => s \notin Valid(touch)
           /\ event' = [action |-> IF Valid(touch') = {s} THEN action ELSE "POINTER_DOWN",
                        pointers |-> Valid(touch'), which |-> s]
<1>1. PICK s \in Slots : Placed(touch, t, Insert(touch, t), s)
  BY Inserted DEF Known
<1>2. touch' = Insert(touch, t)
  BY DEF Process, Build
<1>3. event' = MotionEvent(Valid(touch'), Index(Valid(touch'), s), action)
  BY <1>1, <1>2 DEF Process, Build, Placed
<1>4. event' = [action |-> IF Valid(touch') = {s} THEN action ELSE AsPointerAction(action),
                pointers |-> Valid(touch'), which |-> s]
  <2>1. Valid(touch') \in SUBSET Slots /\ s \in Valid(touch') /\ action \notin AboutAll
    BY <1>1, <1>2 DEF Placed, Valid, AboutAll
  <2> QED
    BY <1>3, <2>1, EventOf
<1>5. AsPointerAction(action) = "POINTER_DOWN"
  BY DEF AsPointerAction
<1>6. \A i \in Valid(touch) : touch'[i] = touch[i]
  BY <1>1, <1>2 DEF Placed, TouchesOf, Valid
<1> QED
  BY <1>1, <1>2, <1>4, <1>5, <1>6 DEF Placed, Known, Touches, TouchesOf

LEMMA ProcessUp ==
  ASSUME Known, NEW t \in TouchIds, NEW action \in {"UP", "POINTER_UP"}, Process(t, action)
  PROVE  \E s \in Slots :
           /\ touch' = [touch EXCEPT ![s] = Invalid]
           /\ t \in Touches => s \in Valid(touch) /\ touch[s] = t
           /\ t \notin Touches => s \notin Valid(touch)
           /\ event' = [action |-> IF Valid(touch) \cup {s} = {s} THEN action ELSE "POINTER_UP",
                        pointers |-> Valid(touch) \cup {s}, which |-> s]
<1> DEFINE lst == Insert(touch, t)
<1>1. PICK s \in Slots : Placed(touch, t, lst, s)
  BY Inserted DEF Known
<1>2. touch' = Remove(lst, Index(Valid(lst), s))
      /\ event' = MotionEvent(Valid(lst), Index(Valid(lst), s), action)
  BY <1>1 DEF Process, Build, Placed
<1> HIDE DEF lst
<1>3. lst \in ListType /\ s \in Valid(lst) /\ Valid(lst) \in SUBSET Slots
      /\ Valid(lst) = Valid(touch) \cup {s}
  BY <1>1 DEF Placed, Valid
<1>4. touch' = [lst EXCEPT ![s] = Invalid]
  BY <1>2, <1>3, Removed
<1>5. touch' = [touch EXCEPT ![s] = Invalid]
  BY <1>1, <1>3, <1>4 DEF Placed, Known, ListType
<1>6. event' = [action |-> IF Valid(lst) = {s} THEN action ELSE AsPointerAction(action),
                pointers |-> Valid(lst), which |-> s]
  BY <1>2, <1>3, EventOf DEF AboutAll
<1>7. AsPointerAction(action) = "POINTER_UP"
  BY DEF AsPointerAction
<1>8. t \in Touches => s \in Valid(touch) /\ touch[s] = t
  BY <1>1, <1>3 DEF Placed, Touches, TouchesOf
<1>9. t \notin Touches => s \notin Valid(touch)
  BY <1>1 DEF Placed, Touches, TouchesOf
<1> QED
  BY <1>3, <1>5, <1>6, <1>7, <1>8, <1>9

LEMMA ProcessAll ==
  ASSUME Known, NEW t \in Touches, NEW action \in AboutAll, Process(t, action)
  PROVE  /\ event' = [action |-> action, pointers |-> Valid(touch), which |-> None]
         /\ touch' = IF action = "CANCEL" THEN NoTouch ELSE touch
<1>1. t \in TouchIds
  BY DEF Known, ListType, Touches, Valid
<1>2. Insert(touch, t) = touch
  BY <1>1, Inserted DEF Known, Placed, Touches, TouchesOf
<1> QED
  BY <1>2 DEF Process, Build, MotionEvent, AboutAll

-----------------------------------------------------------------------------
(* The list says what is on the screen.                                     *)

FingerIds == {TouchId(f) : f \in fingers}

LEMMA Facts ==
  ASSUME TouchesTrue
  PROVE  /\ Known /\ fingers \subseteq Fingers /\ keys \subseteq KeyTouch
         /\ \A f \in Fingers : TouchId(f) \in Touches <=> f \in fingers
         /\ calm /\ mapped => \A t \in KeyTouch : t \in Touches <=> t \in keys
<1>1. Known /\ fingers \subseteq Fingers /\ keys \subseteq KeyTouch
  BY DEF TouchesTrue, FingersTracked, TypeOK, Known, ListType, Once
<1>2. Touches \ KeyTouch = FingerIds
  BY DEF TouchesTrue, FingersTracked, FingerIds
<1>3. \A f \in Fingers : TouchId(f) \in Touches <=> f \in fingers
  BY <1>1, <1>2, Numbers DEF FingerIds
<1> QED
  BY <1>1, <1>3 DEF TouchesTrue, NoGhostTouch

(* The touches after a step that lets t down, or up.                        *)
LEMMA TouchesDown ==
  ASSUME Known, NEW t \in TouchIds, NEW action \in {"DOWN", "POINTER_DOWN"}, Process(t, action)
  PROVE  /\ Known' /\ Touches' = Touches \cup {t}
         /\ event'.pointers \subseteq Slots /\ event'.which \in Slots
<1>1. PICK s \in Slots :
        /\ Known' /\ Valid(touch') = Valid(touch) \cup {s} /\ touch'[s] = t
        /\ \A i \in Valid(touch) : touch'[i] = touch[i]
        /\ event' = [action |-> IF Valid(touch') = {s} THEN action ELSE "POINTER_DOWN",
                     pointers |-> Valid(touch'), which |-> s]
  BY ProcessDown
<1>2. Touches' = {touch'[i] : i \in Valid(touch')}
  BY DEF Touches, Valid
<1>3. Touches' = Touches \cup {t}
  <2>1. ASSUME NEW x \in Touches' PROVE x \in Touches \cup {t}
    BY <1>1, <1>2, <2>1 DEF Touches
  <2>2. ASSUME NEW x \in Touches \cup {t} PROVE x \in Touches'
    BY <1>1, <1>2, <2>2 DEF Touches
  <2> QED
    BY <2>1, <2>2
<1>4. Valid(touch') \subseteq Slots
  BY DEF Valid
<1> QED
  BY <1>1, <1>3, <1>4

LEMMA TouchesUp ==
  ASSUME Known, NEW t \in TouchIds, NEW action \in {"UP", "POINTER_UP"}, Process(t, action)
  PROVE  /\ Known' /\ Touches' = Touches \ {t}
         /\ event'.pointers \subseteq Slots /\ event'.which \in Slots
<1>1. PICK s \in Slots :
        /\ touch' = [touch EXCEPT ![s] = Invalid]
        /\ t \in Touches => s \in Valid(touch) /\ touch[s] = t
        /\ t \notin Touches => s \notin Valid(touch)
        /\ event' = [action |-> IF Valid(touch) \cup {s} = {s} THEN action ELSE "POINTER_UP",
                     pointers |-> Valid(touch) \cup {s}, which |-> s]
  BY ProcessUp
<1>2. touch'[s] = Invalid /\ (\A i \in Slots \ {s} : touch'[i] = touch[i])
      /\ touch' \in ListType
  BY <1>1 DEF Known, ListType
<1>3. Valid(touch') = Valid(touch) \ {s}
  BY <1>2 DEF Valid
<1>4. Touches' = {touch'[i] : i \in Valid(touch) \ {s}}
  BY <1>3 DEF Touches, Valid
<1>5. \A i \in Valid(touch) \ {s} : touch'[i] = touch[i] /\ touch[i] # t
  BY <1>1, <1>2 DEF Known, Once, Touches, Valid
<1>6. Touches' = Touches \ {t}
  <2>1. ASSUME NEW x \in Touches' PROVE x \in Touches \ {t}
    BY <1>4, <1>5, <2>1 DEF Touches
  <2>2. ASSUME NEW x \in Touches \ {t} PROVE x \in Touches'
    BY <1>1, <1>4, <1>5, <2>2 DEF Touches
  <2> QED
    BY <2>1, <2>2
<1>7. Once(touch')
  BY <1>3, <1>5 DEF Known, Once
<1>8. Valid(touch) \subseteq Slots
  BY DEF Valid
<1> QED
  BY <1>1, <1>2, <1>6, <1>7, <1>8 DEF Known

(* A list, a screen and an event that fit make the invariant.               *)
LEMMA Assembled ==
  ASSUME Known', fingers' \subseteq Fingers, keys' \subseteq KeyTouch,
         mapped' \in BOOLEAN, calm' \in BOOLEAN,
         event'.pointers \subseteq Slots, event'.which \in Slots \cup {None},
         Touches' \ KeyTouch = FingerIds',
         calm' => Touches' \cap KeyTouch = IF mapped' THEN keys' ELSE {}
  PROVE  TouchesTrue'
BY DEF TouchesTrue, FingersTracked, TypeOK, NoGhostTouch, Known, ListType, Once, FingerIds

LEMMA InitTrue == Init => TouchesTrue
<1> SUFFICES ASSUME Init PROVE TouchesTrue
  OBVIOUS
<1>1. Valid(touch) = {} /\ touch \in ListType
  BY DEF Init, NoTouch, Valid, ListType
<1>2. Touches = {}
  BY <1>1 DEF Touches
<1> QED
  BY <1>1, <1>2 DEF Init, TouchesTrue, FingersTracked, TypeOK, NoGhostTouch, ListType, None

LEMMA Preserved == TouchesTrue /\ [Next]_vars => TouchesTrue'
<1> SUFFICES ASSUME TouchesTrue, [Next]_vars PROVE TouchesTrue'
  OBVIOUS
<1>1. /\ Known /\ fingers \subseteq Fingers /\ keys \subseteq KeyTouch
      /\ mapped \in BOOLEAN /\ calm \in BOOLEAN
      /\ Touches \ KeyTouch = FingerIds
      /\ calm => Touches \cap KeyTouch = IF mapped THEN keys ELSE {}
      /\ event.pointers \subseteq Slots /\ event.which \in Slots \cup {None}
  BY Facts DEF TouchesTrue, FingersTracked, TypeOK, NoGhostTouch, FingerIds
<1>2. ASSUME NEW f \in Fingers, TouchDown(f) PROVE TouchesTrue'
  <2>1. PICK action \in {"DOWN", "POINTER_DOWN"} : Process(TouchId(f), action)
    BY <1>2 DEF TouchDown
  <2>2. TouchId(f) \in TouchIds \ KeyTouch
    BY Numbers
  <2>3. /\ Known' /\ Touches' = Touches \cup {TouchId(f)}
        /\ event'.pointers \subseteq Slots /\ event'.which \in Slots
    BY <1>1, <2>1, <2>2, TouchesDown
  <2>4. FingerIds' = FingerIds \cup {TouchId(f)}
    BY <1>2 DEF TouchDown, FingerIds
  <2> QED
    BY <1>1, <1>2, <2>2, <2>3, <2>4, Assembled DEF TouchDown
<1>3. ASSUME NEW f \in Fingers, TouchUp(f) PROVE TouchesTrue'
  <2>1. PICK action \in {"UP", "POINTER_UP"} : Process(TouchId(f), action)
    BY <1>3 DEF TouchUp
  <2>2. TouchId(f) \in TouchIds \ KeyTouch
    BY Numbers
  <2>3. /\ Known' /\ Touches' = Touches \ {TouchId(f)}
        /\ event'.pointers \subseteq Slots /\ event'.which \in Slots
    BY <1>1, <2>1, <2>2, TouchesUp
  <2>4. FingerIds' = FingerIds \ {TouchId(f)}
    BY <1>1, <1>3, Numbers DEF TouchUp, FingerIds
  <2> QED
    BY <1>1, <1>3, <2>2, <2>3, <2>4, Assembled DEF TouchUp
<1>4. CASE TouchMove \/ TouchCancel
  <2>1. PICK f \in fingers :
          \/ TouchMove /\ Process(TouchId(f), "MOVE")
          \/ TouchCancel /\ Process(TouchId(f), "CANCEL")
    <3>1. fingers # {} /\ fingers \in SUBSET Nat
      BY <1>1, <1>4, Numbers DEF TouchMove, TouchCancel
    <3>2. Lowest(fingers) \in fingers
      BY <3>1, LowestIsLeast
    <3> QED
      BY <1>4, <3>2 DEF TouchMove, TouchCancel
  <2>2. TouchId(f) \in Touches
    BY <1>1 DEF FingerIds
  <2>3. CASE TouchMove /\ Process(TouchId(f), "MOVE")
    <3>1. touch' = touch /\ event'.pointers = Valid(touch) /\ event'.which = None
      BY <1>1, <2>2, <2>3, ProcessAll DEF AboutAll
    <3>2. UNCHANGED world
      BY <2>3 DEF TouchMove
    <3> QED
      BY <1>1, <3>1, <3>2 DEF world, TouchesTrue, FingersTracked, TypeOK, NoGhostTouch, Touches,
         Valid
  <2>4. CASE TouchCancel /\ Process(TouchId(f), "CANCEL")
    <3>1. touch' = NoTouch /\ event'.pointers = Valid(touch) /\ event'.which = None
      BY <1>1, <2>2, <2>4, ProcessAll DEF AboutAll
    <3>2. touch' \in ListType /\ Valid(touch') = {} /\ Valid(touch) \subseteq Slots
      BY <3>1 DEF NoTouch, Valid, ListType
    <3>3. Known' /\ Touches' = {}
      BY <3>2 DEF Known, Once, Touches, Valid
    <3>4. FingerIds' = {}
      BY <2>4 DEF TouchCancel, FingerIds
    <3> QED
      BY <1>1, <2>4, <3>1, <3>2, <3>3, <3>4, Assembled DEF TouchCancel
  <2> QED
    BY <2>1, <2>3, <2>4
<1>5. ASSUME NEW t \in KeyTouch, KeyDown(t) PROVE TouchesTrue'
  <2>1. FingerIds' = FingerIds
    BY <1>5 DEF KeyDown, FingerIds
  <2>2. CASE mapped
    <3>1. /\ Known' /\ Touches' = Touches \cup {t}
          /\ event'.pointers \subseteq Slots /\ event'.which \in Slots
      BY <1>1, <1>5, <2>2, Numbers, TouchesDown DEF KeyDown, KeyEvent
    <3> QED
      BY <1>1, <1>5, <2>1, <2>2, <3>1, Assembled DEF KeyDown
  <2>3. CASE ~mapped
    <3>1. Known' /\ Touches' = Touches /\ event' = event
      BY <1>1, <1>5, <2>3 DEF KeyDown, KeyEvent, Known, Once, Touches, Valid
    <3> QED
      BY <1>1, <1>5, <2>1, <2>3, <3>1, Assembled DEF KeyDown
  <2> QED
    BY <2>2, <2>3
<1>6. ASSUME NEW t \in KeyTouch, KeyUp(t) PROVE TouchesTrue'
  <2>1. FingerIds' = FingerIds
    BY <1>6 DEF KeyUp, FingerIds
  <2>2. CASE mapped
    <3>1. /\ Known' /\ Touches' = Touches \ {t}
          /\ event'.pointers \subseteq Slots /\ event'.which \in Slots
      BY <1>1, <1>6, <2>2, Numbers, TouchesUp DEF KeyUp, KeyEvent
    <3> QED
      BY <1>1, <1>6, <2>1, <2>2, <3>1, Assembled DEF KeyUp
  <2>3. CASE ~mapped
    <3>1. Known' /\ Touches' = Touches /\ event' = event
      BY <1>1, <1>6, <2>3 DEF KeyUp, KeyEvent, Known, Once, Touches, Valid
    <3> QED
      BY <1>1, <1>6, <2>1, <2>3, <3>1, Assembled DEF KeyUp
  <2> QED
    BY <2>2, <2>3
<1>7. CASE Remap
  <2>1. Known' /\ Touches' = Touches /\ FingerIds' = FingerIds
    BY <1>1, <1>7 DEF Remap, Known, Once, Touches, Valid, FingerIds
  <2> QED
    BY <1>1, <1>7, <2>1, Assembled DEF Remap
<1>8. CASE UNCHANGED vars
  BY <1>1, <1>8 DEF vars, world, TouchesTrue, FingersTracked, TypeOK, NoGhostTouch, Touches,
     Valid
<1> QED
  BY <1>2, <1>3, <1>4, <1>5, <1>6, <1>7, <1>8 DEF Next

(* mTouchList holds every finger on the screen once, and no other, whatever *)
(* the keys do; and undisturbed, a key's touch is down exactly while the    *)
(* key is held and mapped (insertTouch, removeTouch).                       *)
THEOREM ListIsTrue == Spec => []TouchesTrue
  BY InitTrue, Preserved, PTL DEF Spec

-----------------------------------------------------------------------------
(* Pointer ids.                                                             *)

Stay == \A i \in Valid(touch) : touch'[i] \in {touch[i], Invalid}

LEMMA StepsStay == TouchesTrue /\ [Next]_vars => Stay
<1> SUFFICES ASSUME TouchesTrue, [Next]_vars PROVE Stay
  OBVIOUS
<1>1. Known /\ fingers \subseteq Fingers /\ \A f \in Fingers : TouchId(f) \in Touches <=> f \in fingers
  BY Facts
<1>2. ASSUME NEW t \in TouchIds, NEW action \in {"DOWN", "POINTER_DOWN"}, Process(t, action)
      PROVE  Stay
  BY <1>1, <1>2, ProcessDown DEF Stay
<1>3. ASSUME NEW t \in TouchIds, NEW action \in {"UP", "POINTER_UP"}, Process(t, action)
      PROVE  Stay
  <2>1. PICK s \in Slots : touch' = [touch EXCEPT ![s] = Invalid]
    BY <1>1, <1>3, ProcessUp
  <2> QED
    BY <1>1, <2>1 DEF Stay, Known, ListType, Valid
<1>4. ASSUME NEW t \in Touches, NEW action \in AboutAll, Process(t, action) PROVE Stay
  BY <1>1, <1>4, ProcessAll DEF Stay, NoTouch, Valid
<1>5. CASE UNCHANGED touch
  BY <1>5 DEF Stay
<1>6. ASSUME NEW f \in Fingers, TouchDown(f) \/ TouchUp(f) PROVE Stay
  BY <1>2, <1>3, <1>6, Numbers DEF TouchDown, TouchUp
<1>7. CASE TouchMove \/ TouchCancel
  <2>1. TouchId(Lowest(fingers)) \in Touches
    BY <1>1, <1>7, Numbers, LowestIsLeast DEF TouchMove, TouchCancel
  <2> QED
    BY <1>4, <1>7, <2>1 DEF TouchMove, TouchCancel, AboutAll
<1>8. ASSUME NEW t \in KeyTouch, KeyDown(t) \/ KeyUp(t) PROVE Stay
  BY <1>2, <1>3, <1>5, <1>8, Numbers DEF KeyDown, KeyUp, KeyEvent
<1> QED
  BY <1>5, <1>6, <1>7, <1>8 DEF Next, Remap, vars

(* A pointer keeps the id the windows know it by for as long as it is down, *)
(* whatever the other fingers and the keys do (insertTouch, removeTouch).   *)
THEOREM PointersKeepIds == Spec => PointerIdsStable
  BY StepsStay, ListIsTrue, PTL DEF Spec, PointerIdsStable, Stay

-----------------------------------------------------------------------------
(* The touch stream.                                                        *)

LEMMA DownStreams ==
  ASSUME Known, NEW t \in TouchIds \ Touches, NEW action \in {"DOWN", "POINTER_DOWN"},
         Process(t, action), action = "POINTER_DOWN" => Valid(touch) # {}
  PROVE  Stream!Next
<1>1. PICK s \in Slots :
        /\ Valid(touch') = Valid(touch) \cup {s}
        /\ s \notin Valid(touch)
        /\ event' = [action |-> IF Valid(touch') = {s} THEN action ELSE "POINTER_DOWN",
                     pointers |-> Valid(touch'), which |-> s]
  BY ProcessDown
<1>2. CASE Valid(touch) = {}
  <2>1. Valid(touch') = {s} /\ action = "DOWN"
    BY <1>1, <1>2
  <2>2. Stream!Down
    BY <1>1, <1>2, <2>1 DEF Stream!Down, Stream!Event
  <2> QED
    BY <2>2 DEF Stream!Next
<1>3. CASE Valid(touch) # {}
  <2>1. Valid(touch') # {s}
    BY <1>1, <1>3
  <2>2. Stream!PointerDown
    BY <1>1, <1>3, <2>1 DEF Stream!PointerDown, Stream!Event
  <2> QED
    BY <2>2 DEF Stream!Next
<1> QED
  BY <1>2, <1>3

LEMMA UpStreams ==
  ASSUME Known, NEW t \in Touches, NEW action \in {"UP", "POINTER_UP"},
         Process(t, action), action = "POINTER_UP" => \E u \in Touches : u # t
  PROVE  Stream!Next
<1>1. t \in TouchIds
  BY DEF Known, ListType, Touches, Valid
<1>2. PICK s \in Slots :
        /\ touch' = [touch EXCEPT ![s] = Invalid]
        /\ s \in Valid(touch) /\ touch[s] = t
        /\ event' = [action |-> IF Valid(touch) \cup {s} = {s} THEN action ELSE "POINTER_UP",
                     pointers |-> Valid(touch) \cup {s}, which |-> s]
  BY <1>1, ProcessUp
<1>3. Valid(touch') = Valid(touch) \ {s} /\ Valid(touch) \cup {s} = Valid(touch)
  BY <1>2 DEF Known, ListType, Valid
<1>4. CASE Valid(touch) = {s}
  <2>1. action = "UP"
    BY <1>2, <1>4 DEF Touches
  <2>2. Stream!Up
    BY <1>2, <1>3, <1>4, <2>1 DEF Stream!Up, Stream!Event
  <2> QED
    BY <2>2 DEF Stream!Next
<1>5. CASE Valid(touch) # {s}
  <2>1. Stream!PointerUp
    BY <1>2, <1>3, <1>5 DEF Stream!PointerUp, Stream!Event
  <2> QED
    BY <2>1 DEF Stream!Next
<1> QED
  BY <1>4, <1>5

LEMMA AllStreams ==
  ASSUME Known, NEW t \in Touches, NEW action \in AboutAll, Process(t, action)
  PROVE  Stream!Next
<1>1. /\ event' = [action |-> action, pointers |-> Valid(touch), which |-> None]
      /\ touch' = IF action = "CANCEL" THEN NoTouch ELSE touch
  BY ProcessAll
<1>2. Valid(touch) # {}
  BY DEF Touches
<1>3. CASE action = "MOVE"
  BY <1>1, <1>2, <1>3 DEF Stream!Next, Stream!Move, Stream!Event, Valid
<1>4. CASE action = "CANCEL"
  <2>1. Valid(touch') = {}
    BY <1>1, <1>4 DEF NoTouch, Valid
  <2> QED
    BY <1>1, <1>2, <1>4, <2>1 DEF Stream!Next, Stream!Cancel, Stream!Event
<1> QED
  BY <1>3, <1>4 DEF AboutAll

LEMMA StepsStream ==
  TouchesTrue /\ [Next]_vars => (calm' => [Stream!Next]_<<Valid(touch), event>>)
<1> SUFFICES ASSUME TouchesTrue, [Next]_vars, calm'
             PROVE  [Stream!Next]_<<Valid(touch), event>>
  OBVIOUS
<1>1. /\ Known /\ fingers \subseteq Fingers /\ keys \subseteq KeyTouch
      /\ \A f \in Fingers : TouchId(f) \in Touches <=> f \in fingers
      /\ calm /\ mapped => \A t \in KeyTouch : t \in Touches <=> t \in keys
  BY Facts
<1>2. Touches # {} => Valid(touch) # {}
  BY DEF Touches
<1>3. CASE UNCHANGED <<touch, event>>
  BY <1>3 DEF Valid
<1>4. ASSUME NEW f \in Fingers, TouchDown(f) PROVE Stream!Next
  <2>1. TouchId(f) \in TouchIds \ Touches
    BY <1>1, <1>4, Numbers DEF TouchDown
  <2>2. fingers # {} => Valid(touch) # {}
    BY <1>1, <1>2
  <2>3. CASE fingers = {} /\ Process(TouchId(f), "DOWN")
    BY <1>1, <2>1, <2>3, DownStreams
  <2>4. CASE fingers # {} /\ Process(TouchId(f), "POINTER_DOWN")
    BY <1>1, <2>1, <2>2, <2>4, DownStreams
  <2> QED
    BY <1>4, <2>3, <2>4 DEF TouchDown
<1>5. ASSUME NEW f \in Fingers, TouchUp(f) PROVE Stream!Next
  <2>1. TouchId(f) \in Touches
    BY <1>1, <1>5 DEF TouchUp
  <2>2. ASSUME fingers # {f} PROVE \E u \in Touches : u # TouchId(f)
    <3>1. PICK g \in fingers : g # f
      BY <1>5, <2>2 DEF TouchUp
    <3>2. g \in Fingers /\ TouchId(g) \in Touches /\ TouchId(g) # TouchId(f)
      BY <1>1, <3>1, Numbers
    <3> QED
      BY <3>2
  <2>3. CASE fingers = {f} /\ Process(TouchId(f), "UP")
    BY <1>1, <2>1, <2>3, UpStreams
  <2>4. CASE fingers # {f} /\ Process(TouchId(f), "POINTER_UP")
    BY <1>1, <2>1, <2>2, <2>4, UpStreams
  <2> QED
    BY <1>5, <2>3, <2>4 DEF TouchUp
<1>6. CASE TouchMove \/ TouchCancel
  <2>1. TouchId(Lowest(fingers)) \in Touches
    BY <1>1, <1>6, Numbers, LowestIsLeast DEF TouchMove, TouchCancel
  <2> QED
    BY <1>1, <1>6, <2>1, AllStreams DEF TouchMove, TouchCancel, AboutAll
<1>7. ASSUME NEW t \in KeyTouch, KeyDown(t), mapped PROVE Stream!Next
  <2>1. calm /\ t \notin keys /\ Process(t, "DOWN")
    BY <1>7 DEF KeyDown, KeyEvent
  <2>2. t \in TouchIds \ Touches
    BY <1>1, <1>7, <2>1, Numbers
  <2> QED
    BY <1>1, <2>1, <2>2, DownStreams
<1>8. ASSUME NEW t \in KeyTouch, KeyUp(t), mapped PROVE Stream!Next
  <2>1. calm /\ t \in keys /\ Process(t, "UP")
    BY <1>8 DEF KeyUp, KeyEvent
  <2>2. t \in Touches
    BY <1>1, <1>8, <2>1
  <2> QED
    BY <1>1, <2>1, <2>2, UpStreams
<1>9. ASSUME NEW t \in KeyTouch, KeyDown(t) \/ KeyUp(t), ~mapped
      PROVE  UNCHANGED <<touch, event>>
  BY <1>9 DEF KeyDown, KeyUp, KeyEvent
<1> QED
  BY <1>3, <1>4, <1>5, <1>6, <1>7, <1>8, <1>9 DEF Next, Remap, vars

(* Undisturbed - no key repeats, loses its mapping or is cancelled while it *)
(* is held - what the filter sends is a touch stream: every pointer goes    *)
(* down once, is part of every event until it goes up, and goes up once     *)
(* (buildMotionEvent).                                                      *)
THEOREM SendsTouchStream == Spec => TouchStreamSpec
<1>1. Init => Stream!Init
  BY DEF Init, NoTouch, Valid, Stream!Init, Stream!Event
<1> QED
  BY <1>1, StepsStream, ListIsTrue, PTL DEF Spec, TouchStreamSpec

-----------------------------------------------------------------------------
(* The settings of the keys: ShoulderKeySettings, which runs in a process   *)
(* of its own and meets the filter in the table only.                       *)

(* At most one row of a package and a rotation.                             *)
OneRowEach(some) == \A x, y \in some : SameKey(x, y) => x = y

LEMMA SavedRows ==
  ASSUME NEW some \in SUBSET Row, OneRowEach(some),
         table \in SUBSET Row, OneRowEach(table)
  PROVE  Saved(some) \in SUBSET Row /\ OneRowEach(Saved(some))
BY DEF Saved, OneRowEach, SameKey

LEMMA InitUnsaved == SettingsInit => NothingUnsaved
  BY DEF SettingsInit, NothingUnsaved, SettingsTypeOK, Edited, Packages, Rotations, NoView

(* A save: list and table agree afterwards.                                 *)
LEMMA SaveStep ==
  ASSUME NothingUnsaved, SaveAllAppsCoordinate
  PROVE  /\ table' \in SUBSET Row /\ OneRowEach(table') /\ list' = table'
<1>1. list \in SUBSET Row /\ OneRowEach(list) /\ table \in SUBSET Row /\ OneRowEach(table)
  BY DEF NothingUnsaved, SettingsTypeOK, OneRowEach
<1> QED
  BY <1>1, SavedRows DEF SaveAllAppsCoordinate

(* A drop of a button changes the coordinates of one row, or adds it.       *)
LEMMA DropStep ==
  ASSUME NothingUnsaved, NEW at \in Positions, SaveCoordinate(at)
  PROVE  list' \in SUBSET Row /\ OneRowEach(list')
<1> DEFINE k == KeyOf(view)
           old == RowsOf(list, k, rotation)
           new == [package |-> k, rotation |-> rotation, enabled |-> TRUE, at |-> at]
           moved(x) == [x EXCEPT !.at = at]
<1>1. list \in SUBSET Row /\ OneRowEach(list) /\ k \in Packages \cup {Global}
      /\ rotation \in Rotations
  BY DEF NothingUnsaved, SettingsTypeOK, OneRowEach, SaveCoordinate, KeyOf
<1>2. CASE old # {}
  <2>1. list' = (list \ old) \cup {moved(x) : x \in old}
    BY <1>2 DEF SaveCoordinate
  <2>2. \A x \in old : moved(x) \in Row /\ SameKey(moved(x), x)
    BY <1>1 DEF RowsOf, Row, SameKey
  <2>3. \A x \in old, y \in list \ old : ~SameKey(x, y)
    BY DEF RowsOf, SameKey
  <2>4. \A x, y \in old : x = y
    BY <1>1 DEF RowsOf, SameKey, OneRowEach
  <2> HIDE DEF old, moved
  <2>5. list' \in SUBSET Row
    BY <1>1, <2>1, <2>2
  <2>6. OneRowEach(list')
    BY <1>1, <2>1, <2>2, <2>3, <2>4 DEF OneRowEach, SameKey
  <2> QED
    BY <2>5, <2>6
<1>3. CASE old = {}
  <2>1. list' = list \cup {new}
    BY <1>3 DEF SaveCoordinate
  <2>2. new \in Row
    BY <1>1 DEF Row
  <2>3. \A x \in list : ~SameKey(x, new) /\ ~SameKey(new, x)
    BY <1>3 DEF RowsOf, SameKey
  <2> QED
    BY <1>1, <2>1, <2>2, <2>3 DEF OneRowEach
<1> QED
  BY <1>2, <1>3

(* A switch changes the rows of a package, and adds those it has not.       *)
LEMMA SwitchStep ==
  ASSUME NothingUnsaved, NEW p \in Apps, NEW enabled \in BOOLEAN,
         SetEnabledByPackage(p, enabled)
  PROVE  list' \in SUBSET Row /\ OneRowEach(list')
<1> DEFINE switched(x) == IF x.package = p /\ x.rotation \in Switched
                          THEN [x EXCEPT !.enabled = enabled] ELSE x
           new(r) == [package |-> p, rotation |-> r, enabled |-> enabled, at |-> Origin]
           missing == {r \in Switched : RowsOf(list, p, r) = {}}
<1>1. list \in SUBSET Row /\ OneRowEach(list)
  BY DEF NothingUnsaved, SettingsTypeOK, OneRowEach
<1>2. list' = {switched(x) : x \in list} \cup {new(r) : r \in missing}
  BY DEF SetEnabledByPackage
<1>3. \A x \in list : switched(x) \in Row /\ SameKey(switched(x), x)
  BY <1>1 DEF Row, SameKey
<1>4. \A r \in missing : new(r) \in Row /\ new(r).package = p /\ new(r).rotation = r
  BY DEF Row, Switched, Packages
<1>5. \A x \in list, r \in missing : x.package # p \/ x.rotation # r
  BY DEF RowsOf
<1> HIDE DEF switched, new, missing
<1>6. list' \in SUBSET Row
  BY <1>2, <1>3, <1>4
<1>7. OneRowEach(list')
  <2> SUFFICES ASSUME NEW x \in list', NEW y \in list', SameKey(x, y) PROVE x = y
    BY DEF OneRowEach
  <2>1. CASE \E u, v \in list : x = switched(u) /\ y = switched(v)
    BY <1>1, <1>3, <2>1 DEF OneRowEach, SameKey
  <2>2. CASE \E r, s \in missing : x = new(r) /\ y = new(s)
    BY <1>4, <2>2 DEF SameKey
  <2>3. CASE \E u \in list, r \in missing : \/ x = switched(u) /\ y = new(r)
                                            \/ y = switched(u) /\ x = new(r)
    BY <1>3, <1>4, <1>5, <2>3 DEF SameKey
  <2> QED
    BY <1>2, <2>1, <2>2, <2>3
<1> QED
  BY <1>6, <1>7

LEMMA UnsavedPreserved == NothingUnsaved /\ [SettingsNext]_settingsVars => NothingUnsaved'
<1> SUFFICES ASSUME NothingUnsaved, [SettingsNext]_settingsVars PROVE NothingUnsaved'
  OBVIOUS
<1> USE DEF OneRowEach
<1>1. ASSUME NEW p \in Packages, ShowKeyMappingViews(p) PROVE NothingUnsaved'
  <2>1. p \in Packages /\ UNCHANGED <<global, fragment, screen, filter, torn>>
    BY <1>1 DEF ShowKeyMappingViews
  <2>2. CASE view # NoView
    BY <1>1, <2>1, <2>2, SaveStep DEF ShowKeyMappingViews, RemoveKeyMappingViews,
       NothingUnsaved, SettingsTypeOK, Edited, screen, filter
  <2>3. CASE view = NoView
    BY <1>1, <2>1, <2>3 DEF ShowKeyMappingViews, NothingUnsaved, SettingsTypeOK, Edited,
       rows, screen, filter
  <2> QED
    BY <2>2, <2>3
<1>2. CASE Hide
  BY <1>2, SaveStep DEF Hide, RemoveKeyMappingViews, NothingUnsaved, SettingsTypeOK, Edited,
     screen, filter
<1>3. CASE OnConfigurationChanged
  <2>1. CASE view = NoView
    BY <1>3, <2>1 DEF OnConfigurationChanged, NothingUnsaved, SettingsTypeOK, Edited, rows,
       filter
  <2>2. CASE view # NoView
    BY <1>3, <2>2, SaveStep DEF OnConfigurationChanged, NothingUnsaved, SettingsTypeOK,
       Edited, rows, filter
  <2> QED
    BY <2>1, <2>2
<1>4. ASSUME NEW at \in Positions, SaveCoordinate(at) PROVE NothingUnsaved'
  <2>1. list' \in SUBSET Row /\ OneRowEach(list')
    BY <1>4, DropStep
  <2> QED
    BY <1>4, <2>1 DEF SaveCoordinate, NothingUnsaved, SettingsTypeOK, Edited, ui, screen,
       filter
<1>5. CASE Open
  BY <1>5 DEF Open, NothingUnsaved, SettingsTypeOK, Edited, rows, screen, filter
<1>6. CASE OnDestroy
  BY <1>6, SaveStep DEF OnDestroy, NothingUnsaved, SettingsTypeOK, Edited, screen, filter
<1>7. ASSUME NEW p \in Apps, NEW enabled \in BOOLEAN, SetEnabledByPackage(p, enabled)
      PROVE  NothingUnsaved'
  <2>1. list' \in SUBSET Row /\ OneRowEach(list')
    BY <1>7, SwitchStep
  <2> QED
    BY <1>7, <2>1 DEF SetEnabledByPackage, NothingUnsaved, SettingsTypeOK, Edited, ui,
       screen, filter
<1>8. CASE ResetAllAppsCoordinate
  BY <1>8 DEF ResetAllAppsCoordinate, NothingUnsaved, SettingsTypeOK, Edited, ui, screen,
     filter
<1>9. CASE SetKeyMappingGlobalMode
  BY <1>9 DEF SetKeyMappingGlobalMode, NothingUnsaved, SettingsTypeOK, Edited, rows, ui,
     screen, filter
<1>10. CASE Die
  <2>1. PICK some \in SUBSET (IF view # NoView \/ fragment THEN list ELSE {}) :
          table' = Saved(some) /\ list' = table' /\ torn' = (torn \/ some # {})
    BY <1>10 DEF Die
  <2>2. some \in SUBSET Row /\ OneRowEach(some) /\ table \in SUBSET Row /\ OneRowEach(table)
    BY DEF NothingUnsaved, SettingsTypeOK
  <2>3. table' \in SUBSET Row /\ OneRowEach(table')
    BY <2>1, <2>2, SavedRows
  <2> QED
    BY <1>10, <2>1, <2>3 DEF Die, NothingUnsaved, SettingsTypeOK, Edited, filter
<1>11. ASSUME NEW p \in Packages, Switch(p) PROVE NothingUnsaved'
  BY <1>11 DEF Switch, NothingUnsaved, SettingsTypeOK, Edited, rows, ui
<1>12. CASE Rotate
  BY <1>12 DEF Rotate, NothingUnsaved, SettingsTypeOK, Edited, Rotations, rows, ui, filter
<1>13. CASE OnTaskStackChanged
  BY <1>13 DEF OnTaskStackChanged, Told, NothingUnsaved, SettingsTypeOK, Edited, rows, ui,
     screen
<1>14. CASE LoadCoordinate
  BY <1>14 DEF LoadCoordinate, NothingUnsaved, SettingsTypeOK, Edited, rows, ui, screen
<1>16. CASE OverwritePackage
  BY <1>16 DEF OverwritePackage, NothingUnsaved, SettingsTypeOK, Edited, rows, ui, screen
<1>15. CASE UNCHANGED settingsVars
  BY <1>15 DEF settingsVars, NothingUnsaved, SettingsTypeOK, Edited, rows, ui, screen,
     filter
<1> QED
  BY <1>1, <1>2, <1>3, <1>4, <1>5, <1>6, <1>7, <1>8, <1>9, <1>10, <1>11, <1>12, <1>13,
     <1>14, <1>15, <1>16 DEF SettingsNext

(* Once overlay and list of apps are closed, the table that the filter      *)
(* reads says what the service edited, with one row for a package and a     *)
(* rotation (saveAllAppsCoordinate, saveAppKeyInfo).                        *)
THEOREM EditsAreSaved == SettingsSpec => []NothingUnsaved
  BY InitUnsaved, UnsavedPreserved, PTL DEF SettingsSpec

(* The keys are mapped for the app on screen although global mode           *)
(* overwrites mPackageName: it can only be left on the screen of the        *)
(* settings, and the next app is told (onTaskStackChanged).  An event that  *)
(* read the mode before and writes after that wins over it.                 *)
THEOREM FilterFollowsApp == SettingsSpec => []KeysFollowApp
<1>1. SettingsInit => KeysFollowApp
  BY DEF SettingsInit, KeysFollowApp
<1>2. KeysFollowApp /\ [SettingsNext]_settingsVars => KeysFollowApp'
  <2> SUFFICES ASSUME KeysFollowApp, [SettingsNext]_settingsVars PROVE KeysFollowApp'
    OBVIOUS
  <2>1. CASE UNCHANGED <<global, top, telling, task, overtaken>>
    BY <2>1 DEF KeysFollowApp
  <2>2. CASE SetKeyMappingGlobalMode
    BY <2>2 DEF SetKeyMappingGlobalMode, KeysFollowApp, screen
  <2>3. ASSUME NEW p \in Packages, Switch(p) PROVE KeysFollowApp'
    BY <2>3 DEF Switch, KeysFollowApp
  <2>4. CASE OnTaskStackChanged
    BY <2>4 DEF OnTaskStackChanged, Told, KeysFollowApp, screen
  <2>5. CASE LoadCoordinate
    BY <2>5 DEF LoadCoordinate, KeysFollowApp, screen
  <2>6. CASE OverwritePackage
    BY <2>6 DEF OverwritePackage, KeysFollowApp, screen
  <2> QED
    BY <2>1, <2>2, <2>3, <2>4, <2>5, <2>6 DEF SettingsNext, settingsVars, screen, filter,
       ShowKeyMappingViews, Hide, OnConfigurationChanged, SaveCoordinate, Open, OnDestroy,
       ResetAllAppsCoordinate, Die, SetEnabledByPackage, Rotate
<1> QED
  BY <1>1, <1>2, PTL DEF SettingsSpec
-----------------------------------------------------------------------------
(* The switch of an app.  A drop adds enabled rows, also for an app that is *)
(* switched off: its overlay may be left from a time in global mode.  But   *)
(* switching it off has made both its rows, so that a drop adds none.       *)
Agreeing(some) ==
  /\ \A x, y \in some : x.package = y.package /\ x.package # Global => x.enabled = y.enabled
  /\ \A x \in some : x.package # Global /\ ~x.enabled =>
       \A r \in Rotations : RowsOf(some, x.package, r) # {}

(* No save but one cut short by a crash keeps a row the list has not.       *)
Covered == \A x \in table : \E y \in list : SameKey(x, y)

Switches == NothingUnsaved /\ (~torn => Agreeing(list) /\ Agreeing(table) /\ Covered)

LEMMA SaveCovered == ASSUME Covered PROVE Saved(list) = list
  BY DEF Covered, Saved

LEMMA SaveAgrees ==
  ASSUME Switches, SaveAllAppsCoordinate, ~torn
  PROVE  Agreeing(list') /\ Agreeing(table') /\ Covered'
<1>1. list' = list /\ table' = list
  BY SaveCovered DEF Switches, SaveAllAppsCoordinate
<1> QED
  BY <1>1 DEF Switches, Covered, SameKey

LEMMA DropAgrees ==
  ASSUME Switches, NEW at \in Positions, SaveCoordinate(at), ~torn
  PROVE  Agreeing(list') /\ \A x \in list : \E y \in list' : SameKey(x, y)
<1> DEFINE k == KeyOf(view)
           old == RowsOf(list, k, rotation)
           new == [package |-> k, rotation |-> rotation, enabled |-> TRUE, at |-> at]
           moved(x) == [x EXCEPT !.at = at]
<1>1. list \in SUBSET Row /\ Agreeing(list) /\ rotation \in Rotations
  BY DEF Switches, NothingUnsaved, SettingsTypeOK
<1>2. CASE old # {}
  <2>1. list' = (list \ old) \cup {moved(x) : x \in old}
    BY <1>2 DEF SaveCoordinate
  <2>2. \A x \in list : moved(x).package = x.package /\ moved(x).rotation = x.rotation
                        /\ moved(x).enabled = x.enabled
    BY <1>1 DEF Row
  <2>3. old \subseteq list
    BY DEF RowsOf
  <2> HIDE DEF old, moved
  <2>4. /\ \A x \in list : \E y \in list' : /\ x.package = y.package /\ x.rotation = y.rotation
                                            /\ x.enabled = y.enabled
        /\ \A y \in list' : \E x \in list : /\ x.package = y.package /\ x.rotation = y.rotation
                                            /\ x.enabled = y.enabled
    BY <2>1, <2>2, <2>3
  <2>5. ASSUME NEW p, NEW r, RowsOf(list, p, r) # {} PROVE RowsOf(list', p, r) # {}
    BY <2>4, <2>5 DEF RowsOf
  <2> QED
    BY <1>1, <2>4, <2>5 DEF Agreeing, SameKey
<1>3. CASE old = {}
  <2>1. list' = list \cup {new}
    BY <1>3 DEF SaveCoordinate
  <2>2. new.package = k /\ new.enabled = TRUE
    OBVIOUS
  <2>3. \A x \in list : x.package = k /\ k # Global => x.enabled = TRUE
    <3> SUFFICES ASSUME NEW x \in list, x.package = k, k # Global, ~x.enabled PROVE FALSE
      BY <1>1 DEF Row
    <3>1. RowsOf(list, k, rotation) # {}
      BY <1>1 DEF Agreeing
    <3> QED
      BY <3>1, <1>3
  <2> HIDE DEF new, k
  <2>4. \A x, y \in list' : x.package = y.package /\ x.package # Global
                            => x.enabled = y.enabled
    BY <1>1, <2>1, <2>2, <2>3 DEF Agreeing
  <2>5. ASSUME NEW x \in list', x.package # Global, ~x.enabled, NEW r \in Rotations
        PROVE  RowsOf(list', x.package, r) # {}
    <3>1. x \in list
      BY <2>1, <2>2, <2>5
    <3>2. RowsOf(list, x.package, r) # {}
      BY <1>1, <2>5, <3>1 DEF Agreeing
    <3> QED
      BY <2>1, <3>2 DEF RowsOf
  <2> QED
    BY <2>1, <2>4, <2>5 DEF Agreeing, SameKey
<1> QED
  BY <1>2, <1>3

LEMMA SwitchAgrees ==
  ASSUME Switches, NEW p \in Apps, NEW enabled \in BOOLEAN,
         SetEnabledByPackage(p, enabled), ~torn
  PROVE  Agreeing(list') /\ \A x \in list : \E y \in list' : SameKey(x, y)
<1> DEFINE switched(x) == IF x.package = p /\ x.rotation \in Switched
                          THEN [x EXCEPT !.enabled = enabled] ELSE x
           new(r) == [package |-> p, rotation |-> r, enabled |-> enabled, at |-> Origin]
           missing == {r \in Switched : RowsOf(list, p, r) = {}}
<1>1. list \in SUBSET Row /\ Agreeing(list)
  BY DEF Switches, NothingUnsaved, SettingsTypeOK
<1>2. list' = {switched(x) : x \in list} \cup {new(r) : r \in missing}
  BY DEF SetEnabledByPackage
<1>3. \A x \in list : /\ switched(x).package = x.package /\ switched(x).rotation = x.rotation
                      /\ x.package # p => switched(x).enabled = x.enabled
                      /\ x.package = p => switched(x).enabled = enabled
  BY <1>1 DEF Row, Switched
<1>4. \A r \in missing : new(r).package = p /\ new(r).rotation = r /\ new(r).enabled = enabled
  OBVIOUS
<1>5. \A r \in Rotations \ missing : \E x \in list : x.package = p /\ x.rotation = r
  BY DEF RowsOf, Switched
<1>6. missing \subseteq Rotations
  BY DEF Switched
<1> HIDE DEF switched, new, missing
<1>7. /\ \A x \in list : \E y \in list' : /\ x.package = y.package /\ x.rotation = y.rotation
                                          /\ x.package # p => x.enabled = y.enabled
      /\ \A y \in list' : y.package # p =>
           \E x \in list : x.package = y.package /\ x.enabled = y.enabled
      /\ \A y \in list' : y.package = p => y.enabled = enabled
  BY <1>2, <1>3, <1>4
<1>8. \A r \in Rotations : RowsOf(list', p, r) # {}
  <2> TAKE r \in Rotations
  <2>1. CASE r \in missing
    BY <1>2, <1>4, <2>1 DEF RowsOf
  <2>2. CASE r \notin missing
    BY <1>5, <1>7, <2>2 DEF RowsOf
  <2> QED
    BY <2>1, <2>2
<1>9. ASSUME NEW q, NEW r, RowsOf(list, q, r) # {} PROVE RowsOf(list', q, r) # {}
  BY <1>7, <1>9 DEF RowsOf
<1>10. \A x, y \in list' : x.package = y.package /\ x.package # Global => x.enabled = y.enabled
  BY <1>1, <1>7 DEF Agreeing
<1>11. ASSUME NEW x \in list', x.package # Global, ~x.enabled, NEW r \in Rotations
       PROVE  RowsOf(list', x.package, r) # {}
  <2>1. CASE x.package = p
    BY <2>1, <1>8
  <2>2. CASE x.package # p
    <3>1. PICK y \in list : y.package = x.package /\ y.enabled = x.enabled
      BY <1>7, <2>2
    <3>2. RowsOf(list, x.package, r) # {}
      BY <1>1, <1>11, <3>1 DEF Agreeing
    <3> QED
      BY <3>2, <1>9
  <2> QED
    BY <2>1, <2>2
<1> QED
  BY <1>7, <1>10, <1>11 DEF Agreeing, SameKey

LEMMA SwitchesPreserved == Switches /\ [SettingsNext]_settingsVars => Switches'
<1> SUFFICES ASSUME Switches, [SettingsNext]_settingsVars, ~torn'
             PROVE  Agreeing(list') /\ Agreeing(table') /\ Covered'
  BY UnsavedPreserved DEF Switches
<1>1. CASE torn' = torn /\ SaveAllAppsCoordinate
  BY <1>1, SaveAgrees
<1>2. CASE torn' = torn /\ UNCHANGED rows
  BY <1>2 DEF Switches, rows, Covered
<1>3. ASSUME NEW at \in Positions, SaveCoordinate(at)
      PROVE  Agreeing(list') /\ Agreeing(table') /\ Covered'
  <2>1. table' = table /\ ~torn
    BY <1>3 DEF SaveCoordinate
  <2> QED
    BY <1>3, <2>1, DropAgrees DEF Switches, Covered, SameKey
<1>4. ASSUME NEW p \in Apps, NEW enabled \in BOOLEAN, SetEnabledByPackage(p, enabled)
      PROVE  Agreeing(list') /\ Agreeing(table') /\ Covered'
  <2>1. table' = table /\ ~torn
    BY <1>4 DEF SetEnabledByPackage
  <2> QED
    BY <1>4, <2>1, SwitchAgrees DEF Switches, Covered, SameKey
<1>5. CASE ResetAllAppsCoordinate
  BY <1>5 DEF ResetAllAppsCoordinate, Agreeing, Covered
<1>6. CASE Die
  <2>1. PICK some \in SUBSET (IF view # NoView \/ fragment THEN list ELSE {}) :
          table' = Saved(some) /\ list' = table' /\ torn' = (torn \/ some # {})
    BY <1>6 DEF Die
  <2>2. table' = table /\ list' = table /\ ~torn
    BY <2>1 DEF Saved
  <2> QED
    BY <2>2 DEF Switches, Covered, SameKey
<1>7. CASE \E p \in Packages : ShowKeyMappingViews(p)
  BY <1>1, <1>2, <1>7 DEF ShowKeyMappingViews, RemoveKeyMappingViews
<1>8. CASE Hide
  BY <1>1, <1>8 DEF Hide, RemoveKeyMappingViews
<1>9. CASE OnConfigurationChanged
  BY <1>1, <1>2, <1>9 DEF OnConfigurationChanged, rows
<1>10. CASE OnDestroy
  BY <1>1, <1>10 DEF OnDestroy
<1>11. CASE \/ Open \/ SetKeyMappingGlobalMode \/ Rotate \/ OnTaskStackChanged
            \/ LoadCoordinate \/ OverwritePackage
            \/ \E p \in Packages : Switch(p)
            \/ UNCHANGED settingsVars
  BY <1>2, <1>11 DEF Open, SetKeyMappingGlobalMode, Rotate, OnTaskStackChanged,
     LoadCoordinate, OverwritePackage, Switch, settingsVars
<1> QED
  BY <1>3, <1>4, <1>5, <1>6, <1>7, <1>8, <1>9, <1>10, <1>11 DEF SettingsNext

(* The row that getEnabledByPackage happens to look at speaks for all.      *)
LEMMA AgreeingMeansMapped ==
  ASSUME Agreeing(table), list = table, table \in SUBSET Row, ~global,
         NEW x \in table, x.package # Global
  PROVE  x.enabled = Enabled(list, x.package)
<1> DEFINE turns == {r \in Rotations : RowsOf(list, x.package, r) # {}}
           first == CHOOSE r \in turns : \A s \in turns : r <= s
<1>1. x.rotation \in turns /\ x.enabled \in BOOLEAN
  BY DEF Row, RowsOf
<1>2. \E r \in turns : \A s \in turns : r <= s
  <2>1. turns \subseteq {0, 1} /\ turns # {}
    BY <1>1 DEF Rotations
  <2>2. CASE 0 \in turns
    BY <2>1, <2>2
  <2>3. CASE 0 \notin turns
    <3>1. turns = {1}
      BY <2>1, <2>3
    <3> QED
      BY <3>1
  <2> QED
    BY <2>2, <2>3
<1>3. first \in turns
  BY <1>2
<1>4. \A y \in RowsOf(list, x.package, first) : y.enabled = x.enabled
  BY DEF RowsOf, Agreeing
<1>5. RowsOf(list, x.package, first) # {}
  BY <1>3
<1>6. Enabled(list, x.package) = (\E y \in RowsOf(list, x.package, first) : y.enabled)
  BY <1>1, Zenon DEF Enabled
<1> QED
  BY <1>1, <1>4, <1>5, <1>6

(* Every row of an app is enabled exactly when its switch is on, unless a   *)
(* crash has cut a save short (getEnabledByPackage, setEnabledByPackage).   *)
THEOREM RowsAgree == SettingsSpec => []RowsFollowSwitch
<1>1. SettingsInit => Switches
  BY InitUnsaved DEF SettingsInit, Switches, Agreeing, Covered
<1>2. Switches => RowsFollowSwitch
  BY AgreeingMeansMapped DEF Switches, NothingUnsaved, SettingsTypeOK, RowsFollowSwitch
<1> QED
  BY <1>1, <1>2, SwitchesPreserved, PTL DEF SettingsSpec
=============================================================================
