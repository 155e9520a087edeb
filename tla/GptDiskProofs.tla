---------------------------- MODULE GptDiskProofs ----------------------------
(***************************************************************************)
(* Proofs about GptDisk, for any handles and any contents of the entries    *)
(* arrays, and with them any number of errors and power losses.             *)
(* Then proofs about GptDevices, for any number of disks, any layout of the *)
(* partitions on them and any links that do not resolve.                    *)
(***************************************************************************)
EXTENDS GptDisk, GptDevices, SequenceTheorems, FiniteSetTheorems,
        WellFoundedInduction, TLAPS

Writing == {"header", "array", "in array"}
Struct  == [magic : BOOLEAN, image : Image]
Gpt     == [hdr : Arrays, arr : Arrays]
GptCopy == [hdr : Parts, arr : Parts]
OpType  == {o \in [pc : {Idle, "header", "array", "in array", "done"},
                   h : Handles \cup {NoHandle}, i : Instances, whole : BOOLEAN] :
              o.pc # Idle => o.h \in Handles}

(* GPT i is on the disk as the commit that runs has it, but for the part of *)
(* the array that a transfer left out.                                      *)
Arrived(i) ==
  LET image == handle[op.h].image IN
  disk[i] = image[i] \/ (~op.whole /\ disk[i] = [image[i] EXCEPT !.arr = Torn])

(* Where a commit is.                                                       *)
Progress ==
  /\ op.pc \in {"array", "in array"} => disk[op.i].hdr = Source.hdr
  /\ op.pc = "in array" => Source.arr # Missing
  /\ op.pc \in Writing /\ op.i = SECONDARY_GPT =>
       Arrived(PRIMARY_GPT)
  /\ op.pc = "done" => \A i \in Instances : Arrived(i)

(* Why one GPT is good at any time: while the primary one is overwritten    *)
(* the secondary is, or the primary is not changed by it; and afterwards    *)
(* the primary is as whole as the image.                                    *)
Safe ==
  /\ op.pc # Idle => op.whole
  /\ op.pc \in Writing =>
       \A i \in Instances : Intact(handle[op.h].image[i]) \/ Lacking(handle[op.h].image[i])
  /\ op.pc \in Writing /\ op.i = PRIMARY_GPT =>
       \/ Intact(disk[SECONDARY_GPT])
       \/ disk[PRIMARY_GPT] = handle[op.h].image[PRIMARY_GPT]
  /\ op.pc \in {Idle, "done"} => \E i \in Instances : Intact(disk[i])

Inv == TypeOK /\ Progress /\ (careful => Safe)

LEMMA Stop == NotRunning \in OpType /\ NotRunning.pc = Idle
  BY DEF NotRunning, OpType, Instances, Idle

LEMMA UnusableType == Unusable \in Struct
  BY DEF Unusable, Struct, Image, Parts

(* What is on the medium lacks nothing.                                     *)
LEMMA NothingLacks ==
  ASSUME NEW gpt \in Gpt PROVE ~Lacking(gpt)
  BY DiskAssumption DEF Gpt, Lacking, Arrays

(* A GPT that is on the medium as the commit has it is whole.               *)
LEMMA SameAsImage ==
  ASSUME Inv, careful, op.pc \in Writing, NEW i \in Instances,
         disk[i] = handle[op.h].image[i]
  PROVE  Intact(disk[i])
<1>1. disk[i] \in Gpt
  BY DEF Inv, TypeOK, Medium, Gpt
<1> QED
  BY <1>1, NothingLacks DEF Inv, Safe

LEMMA SafeGood == Inv => OneGoodGpt
<1> SUFFICES ASSUME Inv, careful PROVE \E i \in Instances : Intact(disk[i])
  BY DEF OneGoodGpt, Inv
<1>1. op.pc \in Writing \cup {Idle, "done"} /\ op.i \in Instances
  BY DEF Inv, TypeOK, Writing
<1>2. CASE op.pc \in Writing /\ op.i = PRIMARY_GPT
  BY <1>2, SameAsImage DEF Inv, Safe, Instances
<1>3. CASE op.pc \in Writing /\ op.i = SECONDARY_GPT
  <2>1. disk[PRIMARY_GPT] = handle[op.h].image[PRIMARY_GPT]
    BY <1>3 DEF Inv, Safe, Progress, Arrived, Writing, Idle
  <2> QED
    BY <1>3, <2>1, SameAsImage DEF Instances
<1>4. CASE op.pc \in {Idle, "done"}
  BY <1>4 DEF Inv, Safe
<1> QED
  BY <1>1, <1>2, <1>3, <1>4 DEF Instances

LEMMA InitInv == Init => Inv
<1> SUFFICES ASSUME Init PROVE Inv
  OBVIOUS
<1>1. PICK v \in Contents : disk = [i \in Instances |-> [hdr |-> v, arr |-> v]]
  BY DEF Init
<1>2. disk \in Medium /\ \A i \in Instances : Intact(disk[i])
  BY <1>1, DiskAssumption DEF Medium, Arrays, Intact
<1>3. handle \in [Handles -> Struct]
  BY UnusableType DEF Init
<1>4. op.pc = Idle /\ op \in OpType
  BY Stop DEF Init
<1>5. careful \in BOOLEAN
  BY DEF Init
<1> QED
  BY <1>2, <1>3, <1>4, <1>5
     DEF Inv, TypeOK, OpType, Struct, Progress, Safe, Idle, Writing, Instances

-----------------------------------------------------------------------------
(* The calls on a handle, which leave the disk alone.                       *)

LEMMA Quiet ==
  ASSUME Inv, NoCommit, Stopped, UNCHANGED <<disk, careful>>, TypeOK'
  PROVE  Inv'
<1>1. op'.pc = Idle
  BY Stop DEF Stopped
<1>2. careful => \E i \in Instances : Intact(disk[i])
  BY SafeGood DEF OneGoodGpt
<1>3. Intact(disk[PRIMARY_GPT])' = Intact(disk[PRIMARY_GPT])
      /\ Intact(disk[SECONDARY_GPT])' = Intact(disk[SECONDARY_GPT])
  BY DEF Intact
<1> QED
  BY <1>1, <1>2, <1>3 DEF Inv, Progress, Safe, Writing, Idle, Instances

LEMMA HandleStep ==
  ASSUME Inv, NEW h \in Handles,
         \/ Free(h) \/ GetDiskInfo(h) \/ UpdateCrc(h) \/ Die(h)
         \/ \E i \in Instances, v \in Contents : EditEntry(h, i, v)
  PROVE  Inv'
<1>1. TypeOK /\ handle \in [Handles -> Struct] /\ handle[h] \in Struct
  BY DEF Inv, TypeOK, Struct
<1>2. NoCommit /\ Stopped /\ UNCHANGED <<disk, careful>>
  BY DEF Free, GetDiskInfo, UpdateCrc, Die, EditEntry
<1>3. op' \in OpType
  BY <1>2, Stop DEF Stopped
<1>4. ASSUME handle' \in [Handles -> Struct] PROVE Inv'
  <2>1. TypeOK'
    BY <1>1, <1>2, <1>3, <1>4 DEF TypeOK, OpType, Struct
  <2> QED
    BY <1>2, <2>1, Quiet
<1>5. CASE Free(h) \/ Die(h)
  BY <1>1, <1>4, <1>5, UnusableType DEF Free, Die
<1>6. CASE GetDiskInfo(h)
  <2>1. PICK failed \in 1 .. AllSteps, new \in ReadImages :
          handle' = [handle EXCEPT ![h] =
            IF failed < AllSteps /\ ~@.magic THEN Unusable
            ELSE [magic |-> TRUE, image |-> Refilled(@.image, new, failed)]]
    BY <1>6 DEF GetDiskInfo
  <2>2. new \in Medium
    <3>1. \A i \in Instances : Read(i) \subseteq [hdr : Arrays, arr : Arrays]
      <4> SUFFICES ASSUME NEW i \in Instances, NEW w \in Transferred(disk[i].arr)
                   PROVE  [disk[i] EXCEPT !.arr = w] \in [hdr : Arrays, arr : Arrays]
        BY DEF Read
      <4>1. disk[i] \in [hdr : Arrays, arr : Arrays] /\ w \in Arrays
        BY <1>1 DEF TypeOK, Medium, Transferred, Arrays
      <4> QED
        BY <4>1
    <3>2. new \in [Instances -> UNION {Read(i) : i \in Instances}]
      BY DEF ReadImages
    <3> QED
      BY <3>1, <3>2 DEF Medium
  <2>3. Refilled(handle[h].image, new, failed) \in Image
    <3>1. \A i \in Instances : /\ new[i].hdr \in Parts /\ new[i].arr \in Parts
                               /\ handle[h].image[i].hdr \in Parts
                               /\ handle[h].image[i].arr \in Parts
      BY <1>1, <2>2 DEF Struct, Image, Medium, Parts
    <3> QED
      BY <3>1 DEF Refilled, Part, Image, Parts
  <2> DEFINE struct == IF failed < AllSteps /\ ~handle[h].magic THEN Unusable
                       ELSE [magic |-> TRUE, image |-> Refilled(handle[h].image, new, failed)]
  <2>4. struct \in Struct
    BY <2>3, UnusableType DEF Struct
  <2>5. handle' = [handle EXCEPT ![h] = struct]
    BY <1>1, <2>1
  <2> HIDE DEF struct
  <2> QED
    BY <1>1, <1>4, <2>4, <2>5
<1>7. CASE UpdateCrc(h)
  <2> DEFINE image == [i \in Instances |-> Sealed(handle[h].image[i])]
             new == [handle[h] EXCEPT !.image = image]
  <2>1. handle' = [handle EXCEPT ![h] = new]
    BY <1>1, <1>7 DEF UpdateCrc
  <2>2. image \in Image
    BY <1>1 DEF Struct, Image, Sealed, Parts, Arrays
  <2> HIDE DEF image
  <2>3. new \in Struct
    BY <1>1, <2>2 DEF Struct
  <2> HIDE DEF new
  <2> QED
    BY <1>1, <1>4, <2>1, <2>3
<1>8. ASSUME NEW i \in Instances, NEW v \in Contents, EditEntry(h, i, v) PROVE Inv'
  <2> DEFINE image == [handle[h].image EXCEPT ![i] = [@ EXCEPT !.arr = v]]
             new == [handle[h] EXCEPT !.image = image]
  <2>1. handle' = [handle EXCEPT ![h] = new]
    BY <1>1, <1>8 DEF EditEntry
  <2>2. image \in Image
    BY <1>1 DEF Struct, Image, Parts, Arrays
  <2> HIDE DEF image
  <2>3. new \in Struct
    BY <1>1, <2>2 DEF Struct
  <2> HIDE DEF new
  <2> QED
    BY <1>1, <1>4, <2>1, <2>3
<1> QED
  BY <1>5, <1>6, <1>7, <1>8

-----------------------------------------------------------------------------
(* The commit.                                                              *)

LEMMA BeginStep == ASSUME Inv, NEW h \in Handles, BeginCommit(h) PROVE Inv'
<1>1. /\ op' = [pc |-> "header", h |-> h, i |-> PRIMARY_GPT, whole |-> TRUE]
      /\ UNCHANGED <<disk, handle>>
      /\ careful' = (careful /\ Answerable(handle[h].image))
  BY DEF BeginCommit
<1>2. TypeOK'
  <2>1. op' \in OpType /\ careful' \in BOOLEAN
    BY <1>1 DEF OpType, Instances, Inv, TypeOK
  <2> QED
    BY <1>1, <2>1 DEF Inv, TypeOK, OpType
<1>3. careful' => Safe'
  <2> SUFFICES ASSUME careful' PROVE Safe'
    OBVIOUS
  <2>1. Answerable(handle[h].image)
    BY <1>1
  <2> QED
    BY <1>1, <2>1 DEF Answerable, Safe, Writing, Idle, Intact, Lacking
<1>4. Progress'
  BY <1>1 DEF Progress, Writing, PRIMARY_GPT, SECONDARY_GPT
<1> QED
  BY <1>2, <1>3, <1>4 DEF Inv

(* What all writes of a commit start from, and what they leave.             *)
LEMMA OnMedium ==
  ASSUME Inv, op.pc \in Writing
  PROVE  /\ op \in OpType /\ op.h \in Handles /\ op.i \in Instances
         /\ disk \in [Instances -> Gpt] /\ Source \in GptCopy
         /\ handle[op.h].image \in [Instances -> GptCopy]
         /\ Source = handle[op.h].image[op.i]
<1>1. op \in OpType /\ disk \in Medium /\ handle \in [Handles -> Struct]
  BY DEF Inv, TypeOK, OpType, Struct
<1>2. Image = [Instances -> GptCopy] /\ Medium = [Instances -> Gpt]
  BY DEF Image, GptCopy, Medium, Gpt
<1>3. op.h \in Handles /\ op.i \in Instances
  BY <1>1 DEF OpType, Writing, Idle
<1>4. handle[op.h].image \in Image
  BY <1>1, <1>3 DEF Struct
<1> QED
  BY <1>1, <1>2, <1>3, <1>4 DEF Source

LEMMA Two == Instances = {PRIMARY_GPT, SECONDARY_GPT} /\ PRIMARY_GPT # SECONDARY_GPT
  BY DEF Instances, PRIMARY_GPT, SECONDARY_GPT

LEMMA Written ==
  ASSUME Inv, op.pc \in Writing, op' \in OpType, op'.h = op.h, careful' \in BOOLEAN,
         UNCHANGED handle,
         NEW new \in Gpt, disk' = [disk EXCEPT ![op.i] = new]
  PROVE  /\ TypeOK'
         /\ disk'[op.i] = new /\ \A j \in Instances \ {op.i} : disk'[j] = disk[j]
<1>1. disk' \in [Instances -> Gpt]
  BY OnMedium
<1>2. disk' \in Medium
  BY <1>1 DEF Medium, Gpt
<1>3. TypeOK'
  BY <1>2 DEF Inv, TypeOK, OpType
<1> QED
  BY <1>3, OnMedium

LEMMA StillSafe ==
  ASSUME Inv, op.pc \in Writing, op'.pc \in Writing, op'.i = op.i, op'.h = op.h,
         op'.whole = op.whole, UNCHANGED <<handle, careful>>,
         \A j \in Instances \ {op.i} : disk'[j] = disk[j],
         disk[op.i] = Source => disk'[op.i] = disk[op.i]
  PROVE  careful' => Safe'
<1> SUFFICES ASSUME careful PROVE Safe'
  OBVIOUS
<1>1. Safe
  BY DEF Inv
<1>2. \A i \in Instances :
        Intact(handle'[op'.h].image[i]) \/ Lacking(handle'[op'.h].image[i])
  BY <1>1 DEF Safe
<1>3. ASSUME op.i = PRIMARY_GPT
      PROVE  \/ Intact(disk'[SECONDARY_GPT])
             \/ disk'[PRIMARY_GPT] = handle'[op'.h].image[PRIMARY_GPT]
  <2>1. disk'[SECONDARY_GPT] = disk[SECONDARY_GPT]
    BY <1>3, Two
  <2>2. Source = handle[op.h].image[PRIMARY_GPT]
    BY <1>3, OnMedium
  <2> QED
    BY <1>1, <1>3, <2>1, <2>2 DEF Safe
<1>4. op'.pc \notin {Idle, "done"} /\ op'.whole
  BY <1>1 DEF Safe, Writing, Idle
<1> QED
  BY <1>2, <1>3, <1>4 DEF Safe, Intact, Lacking

LEMMA WriteHeaderStep == ASSUME Inv, WriteHeader PROVE Inv'
<1>1. /\ op.pc = "header" /\ op.pc \in Writing /\ Source.hdr # Missing
      /\ disk' = [disk EXCEPT ![op.i].hdr = Source.hdr]
      /\ op' = [op EXCEPT !.pc = "array"]
      /\ UNCHANGED <<handle, careful>>
  BY DEF WriteHeader, AfterHeader, Writing
<1>2. op' \in OpType /\ op'.pc = "array" /\ op'.i = op.i /\ op'.h = op.h
      /\ op'.whole = op.whole
  BY <1>1, OnMedium DEF OpType
<1> DEFINE new == [disk[op.i] EXCEPT !.hdr = Source.hdr]
<1>3. new \in Gpt /\ new.hdr = Source.hdr /\ (disk[op.i] = Source => new = disk[op.i])
  BY <1>1, OnMedium DEF Gpt, GptCopy, Parts
<1>4. disk' = [disk EXCEPT ![op.i] = new]
  BY <1>1, OnMedium
<1> HIDE DEF new
<1>5. /\ TypeOK'
      /\ disk'[op.i] = new /\ \A j \in Instances \ {op.i} : disk'[j] = disk[j]
  BY <1>1, <1>2, <1>3, <1>4, Written DEF Inv, TypeOK
<1>6. Progress'
  BY <1>1, <1>2, <1>3, <1>5, OnMedium, Two DEF Inv, Progress, Arrived, Source, Writing
<1>7. careful' => Safe'
  BY <1>1, <1>2, <1>3, <1>5, StillSafe DEF Writing
<1> QED
  BY <1>5, <1>6, <1>7 DEF Inv

LEMMA BeginArrayStep == ASSUME Inv, BeginArray PROVE Inv'
<1>1. /\ op.pc = "array" /\ op.pc \in Writing /\ Source.arr # Missing
      /\ disk' = [disk EXCEPT ![op.i].arr = IF @ = Source.arr THEN @ ELSE Torn]
      /\ op' = [op EXCEPT !.pc = "in array"]
      /\ UNCHANGED <<handle, careful>>
  BY DEF BeginArray, Writing
<1>2. op' \in OpType /\ op'.pc = "in array" /\ op'.i = op.i /\ op'.h = op.h
      /\ op'.whole = op.whole
  BY <1>1, OnMedium DEF OpType
<1> DEFINE new == [disk[op.i] EXCEPT !.arr = IF @ = Source.arr THEN @ ELSE Torn]
<1>3. new \in Gpt /\ new.hdr = disk[op.i].hdr /\ (disk[op.i] = Source => new = disk[op.i])
  BY <1>1, OnMedium DEF Gpt, Arrays
<1>4. disk' = [disk EXCEPT ![op.i] = new]
  BY <1>1, OnMedium
<1> HIDE DEF new
<1>5. /\ TypeOK'
      /\ disk'[op.i] = new /\ \A j \in Instances \ {op.i} : disk'[j] = disk[j]
  BY <1>1, <1>2, <1>3, <1>4, Written DEF Inv, TypeOK
<1>6. Progress'
  BY <1>1, <1>2, <1>3, <1>5, OnMedium, Two DEF Inv, Progress, Arrived, Source, Writing
<1>7. careful' => Safe'
  BY <1>1, <1>2, <1>3, <1>5, StillSafe DEF Writing
<1> QED
  BY <1>5, <1>6, <1>7 DEF Inv

(* The last write of a part, or an error after it: the part is the image's. *)
LEMMA Completed ==
  ASSUME Inv, op.pc = "in array", NEW v \in Arrays, disk' = [disk EXCEPT ![op.i].arr = v]
  PROVE  /\ Source \in Gpt
         /\ disk' = [disk EXCEPT ![op.i] = [Source EXCEPT !.arr = v]]
<1>1. disk[op.i] \in Gpt /\ Source \in GptCopy /\ disk[op.i].hdr = Source.hdr
  BY OnMedium DEF Inv, Progress, Writing
<1>2. Source \in Gpt /\ [disk[op.i] EXCEPT !.arr = v] = [Source EXCEPT !.arr = v]
  BY <1>1 DEF Gpt, GptCopy, Parts, Inv, Progress
<1> QED
  BY <1>2, OnMedium DEF Writing

LEMMA EndArrayStep == ASSUME Inv, EndArray PROVE Inv'
<1>1. PICK v \in Transferred(Source.arr) :
         /\ op.pc = "in array" /\ op.pc \in Writing
         /\ disk' = [disk EXCEPT ![op.i].arr = v]
         /\ op' = [AfterArray(op.i) EXCEPT !.whole = @ /\ v = Source.arr]
         /\ careful' = (careful /\ v = Source.arr)
         /\ UNCHANGED <<handle>>
  BY DEF EndArray, Writing
<1> DEFINE new == [Source EXCEPT !.arr = v]
<1>2. v \in Arrays
  BY <1>1, OnMedium DEF Transferred, Arrays, Parts, GptCopy, Inv, Progress
<1>3. Source \in Gpt /\ disk' = [disk EXCEPT ![op.i] = new]
  BY <1>1, <1>2, Completed
<1>0. new \in Gpt /\ (v = Source.arr => new = Source)
  BY <1>2, <1>3 DEF Gpt
<1>4. /\ op' \in OpType /\ op'.h = op.h /\ careful' \in BOOLEAN
      /\ op'.whole = (op.whole /\ v = Source.arr)
  BY <1>1, OnMedium, Two DEF OpType, AfterArray, Inv, TypeOK
<1>5. new = Source \/ (~op'.whole /\ new = [Source EXCEPT !.arr = Torn])
  BY <1>1, <1>0, <1>4 DEF Transferred
<1> HIDE DEF new
<1>6. /\ TypeOK'
      /\ disk'[op.i] = new /\ \A j \in Instances \ {op.i} : disk'[j] = disk[j]
  BY <1>0, <1>1, <1>3, <1>4, OnMedium, Written DEF Inv, TypeOK
<1>7. Source = handle'[op'.h].image[op.i] /\ handle'[op'.h].image = handle[op.h].image
  BY <1>1, <1>4, OnMedium
<1>8. \A i \in Instances : i = op.i => Arrived(i)'
  BY <1>5, <1>6, <1>7 DEF Arrived
<1>9. CASE op.i = PRIMARY_GPT
  <2>1. op'.pc = "header" /\ op'.i = SECONDARY_GPT
    BY <1>1, <1>9, OnMedium DEF AfterArray, OpType
  <2>2. Progress'
    BY <1>8, <1>9, <2>1, Two DEF Progress
  <2>3. careful' => Safe'
    <3> SUFFICES ASSUME careful' PROVE Safe'
      OBVIOUS
    <3>1. careful /\ v = Source.arr
      BY <1>1
    <3>2. /\ op.whole
          /\ \A i \in Instances : \/ Intact(handle[op.h].image[i])
                                  \/ Lacking(handle[op.h].image[i])
      BY <1>1, <3>1 DEF Inv, Safe, Writing, Idle
    <3>3. /\ op'.whole
          /\ \A i \in Instances : \/ Intact(handle'[op'.h].image[i])
                                  \/ Lacking(handle'[op'.h].image[i])
      BY <1>4, <1>7, <3>1, <3>2
    <3> QED
      BY <2>1, <3>3, Two DEF Safe, Idle, Intact, Lacking
  <2> QED
    BY <1>6, <2>2, <2>3 DEF Inv
<1>10. CASE op.i = SECONDARY_GPT
  <2>1. op'.pc = "done" /\ op'.i = op.i
    BY <1>1, <1>10, OnMedium, Two DEF AfterArray, OpType
  <2>2. Arrived(PRIMARY_GPT)
    BY <1>1, <1>10 DEF Inv, Progress
  <2>3. Arrived(PRIMARY_GPT)'
    BY <1>4, <1>6, <1>7, <1>10, <2>2, Two DEF Arrived
  <2>4. Progress'
    BY <1>8, <1>10, <2>1, <2>3, Two DEF Progress, Writing
  <2>5. careful' => Safe'
    <3> SUFFICES ASSUME careful' PROVE Safe'
      OBVIOUS
    <3>1. careful /\ v = Source.arr
      BY <1>1
    <3>2. op.whole /\ Intact(Source)
      <4>1. op.whole /\ (Intact(Source) \/ Lacking(Source))
        BY <1>1, <3>1, OnMedium DEF Inv, Safe, Writing, Idle
      <4> QED
        BY <1>3, <4>1, NothingLacks
    <3>3. op'.whole /\ Intact(disk'[SECONDARY_GPT])
      BY <1>0, <1>4, <1>6, <1>10, <3>1, <3>2 DEF new
    <3> QED
      BY <2>1, <3>3, Two DEF Safe, Writing, Idle, Intact
  <2> QED
    BY <1>6, <2>4, <2>5 DEF Inv
<1> QED
  BY <1>1, <1>9, <1>10, OnMedium, Two

(* A write that failed may have reached the medium; a power loss leaves it. *)
LEMMA GoodDisk ==
  ASSUME Inv, careful, op.pc \in Writing, NEW new \in Gpt,
         disk' = [disk EXCEPT ![op.i] = new], disk[op.i] = Source => new = disk[op.i]
  PROVE  \E i \in Instances : Intact(disk'[i])
<1>1. Safe /\ Progress
  BY DEF Inv
<1>2. disk'[op.i] = new /\ \A j \in Instances \ {op.i} : disk'[j] = disk[j]
  BY OnMedium
<1>3. CASE op.i = PRIMARY_GPT
  BY <1>1, <1>2, <1>3, OnMedium, Two, SameAsImage DEF Safe
<1>4. CASE op.i = SECONDARY_GPT
  <2>1. disk[PRIMARY_GPT] = handle[op.h].image[PRIMARY_GPT]
    BY <1>1, <1>4 DEF Safe, Progress, Arrived, Writing, Idle
  <2> QED
    BY <1>1, <1>2, <1>4, <2>1, OnMedium, Two, SameAsImage
<1> QED
  BY <1>3, <1>4, OnMedium, Two

(* What holds of a call that has ended without an answer of its own.        *)
LEMMA Idled ==
  ASSUME Inv, Stopped, TypeOK', UNCHANGED careful,
         careful => \E i \in Instances : Intact(disk'[i])
  PROVE  Inv'
<1>1. op'.pc = Idle
  BY Stop DEF Stopped
<1>2. Progress' /\ (careful' => Safe')
  BY <1>1 DEF Progress, Safe, Writing, Idle, Intact
<1> QED
  BY <1>2 DEF Inv

LEMMA FailStep == ASSUME Inv, Fail \/ Refuse PROVE Inv'
<1>1. op.pc \in Writing /\ Stopped /\ UNCHANGED <<handle, careful>>
  BY DEF Fail, Refuse, Writing
<1>2. op' \in OpType
  BY <1>1, Stop DEF Stopped
<1>3. CASE UNCHANGED disk
  <2>1. TypeOK'
    BY <1>1, <1>2, <1>3 DEF Inv, TypeOK, OpType
  <2> QED
    BY <1>1, <1>3, <2>1, SafeGood, Idled DEF OneGoodGpt
<1>4. ASSUME NEW new \in Gpt, disk' = [disk EXCEPT ![op.i] = new],
             disk[op.i] = Source => new = disk[op.i]
      PROVE  Inv'
  <2>1. disk' \in Medium
    BY <1>1, <1>4, OnMedium DEF Medium, Gpt
  <2>2. TypeOK'
    BY <1>1, <1>2, <2>1 DEF Inv, TypeOK, OpType
  <2>3. careful => \E i \in Instances : Intact(disk'[i])
    BY <1>1, <1>4, GoodDisk
  <2> QED
    BY <1>1, <2>2, <2>3, Idled
<1>5. CASE /\ op.pc = "header" /\ Source.hdr # Missing
           /\ disk' = [disk EXCEPT ![op.i].hdr = Source.hdr]
  <2> DEFINE new == [disk[op.i] EXCEPT !.hdr = Source.hdr]
  <2>1. new \in Gpt /\ (disk[op.i] = Source => new = disk[op.i])
    BY <1>1, <1>5, OnMedium DEF Gpt, GptCopy, Parts
  <2>2. disk' = [disk EXCEPT ![op.i] = new]
    BY <1>1, <1>5, OnMedium
  <2> QED
    BY <1>4, <2>1, <2>2
<1>6. CASE op.pc = "in array" /\ disk' = [disk EXCEPT ![op.i].arr = Source.arr]
  <2>1. Source.arr \in Arrays /\ [Source EXCEPT !.arr = Source.arr] = Source
    BY <1>1, <1>6, OnMedium DEF GptCopy, Parts, Inv, Progress
  <2>2. disk' = [disk EXCEPT ![op.i] = Source] /\ Source \in Gpt
    BY <1>6, <2>1, Completed
  <2> QED
    BY <1>1, <1>4, <2>2, OnMedium
<1> QED
  BY <1>3, <1>5, <1>6 DEF Fail, Refuse

LEMMA CrashStep == ASSUME Inv, Crash PROVE Inv'
<1>1. Stopped /\ UNCHANGED <<disk, careful>> /\ handle' \in [Handles -> Struct]
  BY UnusableType DEF Crash
<1>2. op' \in OpType
  BY <1>1, Stop DEF Stopped
<1>3. TypeOK'
  BY <1>1, <1>2 DEF Inv, TypeOK, OpType, Struct
<1> QED
  BY <1>1, <1>3, SafeGood, Idled DEF OneGoodGpt

LEMMA Preserved == Inv /\ [Next]_vars => Inv'
<1> SUFFICES ASSUME Inv, [Next]_vars PROVE Inv'
  OBVIOUS
<1>1. CASE UNCHANGED vars
  BY <1>1 DEF vars, Inv, TypeOK, Progress, Arrived, Source, Safe, Intact, Lacking
<1> QED
  BY <1>1, HandleStep, BeginStep, WriteHeaderStep, BeginArrayStep, EndArrayStep, FailStep, CrashStep
     DEF Next

LEMMA Invariance == Spec => []Inv
  BY Preserved, InitInv, PTL DEF Spec

(* At every point of every gpt_disk_commit, after any number of failed      *)
(* writes and power losses, one of the two GPTs of the disk is accepted and *)
(* whole, as long as the callers can answer for what they commit and no     *)
(* write of an entries array was cut short.                                 *)
THEOREM GoodGptSurvives == Spec => []OneGoodGpt
  BY Invariance, SafeGood, PTL

(* After a gpt_disk_commit that returned 0 a GPT that is accepted is the    *)
(* one of the handle, and without a write that blk_rw took for whole the    *)
(* whole image is on the disk.                                              *)
THEOREM CommitIsComplete == Spec => []CommitAnswer
<1>1. Inv => CommitAnswer
  <2> SUFFICES ASSUME Inv, op.pc = "done" PROVE CommitAnswer
    BY DEF CommitAnswer
  <2>1. \A i \in Instances : Arrived(i)
    BY DEF Inv, Progress
  <2>2. disk \in [Instances -> Gpt] /\ handle[op.h].image \in [Instances -> GptCopy]
    BY DEF Inv, TypeOK, Image, Medium, Gpt, GptCopy, Idle
  <2>3. \A i \in Instances : Intact(disk[i]) => disk[i] = handle[op.h].image[i]
    <3> SUFFICES ASSUME NEW i \in Instances, Intact(disk[i])
                 PROVE  disk[i] = handle[op.h].image[i]
      OBVIOUS
    <3>1. [handle[op.h].image[i] EXCEPT !.arr = Torn].arr = Torn
      BY <2>2 DEF GptCopy
    <3> QED
      BY <2>1, <3>1, DiskAssumption DEF Arrived, Intact
  <2>4. op.whole => disk = handle[op.h].image
    <3> SUFFICES ASSUME op.whole PROVE disk = handle[op.h].image
      OBVIOUS
    <3>1. \A i \in Instances : disk[i] = handle[op.h].image[i]
      BY <2>1 DEF Arrived
    <3> QED
      BY <2>2, <3>1
  <2> QED
    BY <2>3, <2>4 DEF CommitAnswer
<1> QED
  BY <1>1, Invariance, PTL
-----------------------------------------------------------------------------
(* The disks: GptDevices.  An entries array e of a disk whose primary array *)
(* is d has the same entries, and those that are not in the swap list are   *)
(* where they were.                                                         *)
Entries == Seq(Seq(STRING))
Rearranged(e, d) ==
  /\ e \in Entries /\ NoRepeats(e)
  /\ Len(e) = Len(d) /\ Elements(e) = Elements(d)
  /\ \A k \in DOMAIN d : e[k] # d[k] => \E n \in Names : d[k] \in {n, Bak(n)}

(* The partitions of d that gpt_boot_chain_swap swaps, and what an array    *)
(* looks like when it has come as far as index j of the swap list.          *)
Twins(n, d) == ~Skipped(n) /\ {n, Bak(n)} \subseteq Elements(d)
Exchanged(n, e, d) == e[IndexOf(n, d)] = Bak(n) /\ e[IndexOf(Bak(n), d)] = n
Kept(n, e, d)      == e[IndexOf(n, d)] = n /\ e[IndexOf(Bak(n), d)] = Bak(n)
SwappedBelow(j, e, d) ==
  \A k \in DOMAIN SwapList :
    Twins(SwapList[k], d) => IF k < j THEN Exchanged(SwapList[k], e, d)
                                      ELSE Kept(SwapList[k], e, d)
AsAsked(e, d) ==
  IF chain = "main" THEN e = d ELSE \A n \in Names : Twins(n, d) => Exchanged(n, e, d)

(* The disks that the first j names of the swap list put on the list.       *)
ToSwap(n)  == ~Skipped(n) /\ Resolves(Bak(n))
Listed(j)  == {Holder(Bak(SwapList[k])) :
                 k \in {m \in DOMAIN SwapList : m < j /\ ToSwap(SwapList[m])}}

DisksSound ==
  /\ ufs \in BOOLEAN /\ disks \in Layouts
  /\ ~ufs => \A l \in Luns \ {BlkDevFile} : disks[l] = <<>>
  /\ second \in [Luns -> Entries]
  /\ \A l \in Luns : Rearranged(second[l], disks[l])

Collecting ==
  pc = "collect" =>
    /\ ufs /\ turn = 1 /\ idx <= Len(SwapList) + 1
    /\ Len(list) < idx /\ Elements(list) = Listed(idx)

Preparing ==
  pc \in {"luns", "swap"} =>
    /\ IF ufs THEN Elements(list) = Listed(Len(SwapList) + 1) ELSE list = <<BlkDevFile>>
    /\ turn <= Len(list) + 1
    /\ \A k \in DOMAIN list : k < turn => AsAsked(second[list[k]], disks[list[k]])

Swapping ==
  pc = "swap" =>
    /\ chain = "bak" /\ turn <= Len(list) /\ idx <= Len(SwapList) + 1
    /\ Rearranged(work, disks[list[turn]]) /\ SwappedBelow(idx, work, disks[list[turn]])

Counted == idx >= 1 /\ turn >= 1

DevInv == /\ DisksSound /\ DevicesTypeOK /\ EachLunOnce /\ Counted
          /\ Collecting /\ Preparing /\ Swapping

-----------------------------------------------------------------------------
(* Names and arrays.                                                        *)
(* Appending "bak" changes a name, and two names into two.                  *)
LEMMA BakDiffers ==
  ASSUME NEW n \in Seq(STRING) PROVE Bak(n) # n
<1>1. Len(n) \in Nat /\ Len(Append(n, "bak")) = Len(n) + 1
  OBVIOUS
<1>2. Len(Bak(n)) = Len(n) + 1
  BY <1>1 DEF Bak
<1> QED
  BY <1>1, <1>2

LEMMA BakInjective ==
  ASSUME NEW m \in Seq(STRING), NEW n \in Seq(STRING), Bak(m) = Bak(n) PROVE m = n
<1>1. /\ Len(m) \in Nat /\ Len(Append(m, "bak")) = Len(m) + 1
      /\ \A k \in 1..Len(m) : Append(m, "bak")[k] = m[k]
  OBVIOUS
<1>2. /\ Len(n) \in Nat /\ Len(Append(n, "bak")) = Len(n) + 1
      /\ \A k \in 1..Len(n) : Append(n, "bak")[k] = n[k]
  OBVIOUS
<1>3. Append(m, "bak") = Append(n, "bak")
  BY DEF Bak
<1>4. Len(m) = Len(n)
  BY <1>1, <1>2, <1>3
<1>5. \A k \in 1..Len(m) : m[k] = n[k]
  BY <1>1, <1>2, <1>3, <1>4
<1> QED
  BY <1>4, <1>5, SeqEqual

(* IndexOf finds an element where it is.                                    *)
LEMMA Position ==
  ASSUME NEW n, NEW d, n \in Elements(d)
  PROVE  IndexOf(n, d) \in DOMAIN d /\ d[IndexOf(n, d)] = n
BY DEF Elements, IndexOf

(* A set of numbers has a least one.                                        *)
LEMMA Least ==
  ASSUME NEW S \in SUBSET Nat, S # {}
  PROVE  LET first == CHOOSE k \in S : \A m \in S : k <= m
         IN  first \in S /\ \A m \in S : first <= m
<1>1. IsWellFoundedOn(OpToRel(<, Nat), Nat)
  BY NatLessThanWellFounded
<1>2. PICK i \in S : \A j \in S : <<j, i>> \notin OpToRel(<, Nat)
  BY <1>1, WFMin
<1>3. \A j \in S : ~(j < i)
  BY <1>2 DEF OpToRel
<1>4. \E k \in S : \A j \in S : k <= j
  BY <1>3
<1> QED
  BY <1>4

(* gpt_pentry_seek finds the first entry from f on with a name or its twin. *)
LEMMA SeekFirst ==
  ASSUME NEW n, NEW e, Len(e) \in Nat, NEW f \in Nat \ {0}
  PROVE  LET p == gpt_pentry_seek(n, e, f)
             found == {k \in f..Len(e) : e[k] \in {n, Bak(n)}}
         IN  \/ p = 0 /\ found = {}
             \/ p \in found /\ \A k \in found : p <= k
<1> DEFINE found == {k \in f..Len(e) : e[k] \in {n, Bak(n)}}
<1>1. CASE found = {}
  BY <1>1 DEF gpt_pentry_seek
<1>2. CASE found # {}
  <2>1. found \in SUBSET Nat
    OBVIOUS
  <2>2. gpt_pentry_seek(n, e, f) = CHOOSE k \in found : \A m \in found : k <= m
    BY <1>2 DEF gpt_pentry_seek
  <2> HIDE DEF found
  <2>3. LET p == gpt_pentry_seek(n, e, f) IN p \in found /\ \A k \in found : p <= k
    BY <1>2, <2>1, <2>2, Least
  <2> QED
    BY <2>3 DEF found
<1> QED
  BY <1>1, <1>2

(* A function from 1..n is a sequence of length n.                          *)
LEMMA ArrayOf ==
  ASSUME NEW T, NEW n \in Nat, NEW f \in [1..n -> T]
  PROVE  f \in Seq(T) /\ Len(f) = n
  OBVIOUS

(* A swap of two entries.                                                   *)
Exchange(e, p, q) == [e EXCEPT ![p] = e[q], ![q] = e[p]]
LEMMA TwoSwapped ==
  ASSUME NEW e \in Entries, NoRepeats(e),
         NEW p \in DOMAIN e, NEW q \in DOMAIN e, p # q,
         NEW s, s = Exchange(e, p, q)
  PROVE  /\ s \in Entries /\ Len(s) = Len(e) /\ DOMAIN s = DOMAIN e
         /\ s[p] = e[q] /\ s[q] = e[p] /\ \A k \in DOMAIN e \ {p, q} : s[k] = e[k]
         /\ NoRepeats(s) /\ Elements(s) = Elements(e)
<1>1. /\ Len(e) \in Nat /\ DOMAIN e = 1..Len(e) /\ e \in [1..Len(e) -> Seq(STRING)]
  BY DEF Entries
<1>2. /\ s \in [1..Len(e) -> Seq(STRING)] /\ DOMAIN s = DOMAIN e
      /\ s[p] = e[q] /\ s[q] = e[p] /\ \A k \in DOMAIN e \ {p, q} : s[k] = e[k]
  BY <1>1 DEF Exchange
<1>3. s \in Entries /\ Len(s) = Len(e)
  BY <1>1, <1>2, ArrayOf DEF Entries
<1>4. NoRepeats(s)
  BY <1>2 DEF NoRepeats
<1>5. Elements(s) = Elements(e)
  BY <1>2 DEF Elements
<1> QED
  BY <1>2, <1>3, <1>4, <1>5

(* What gpt_boot_chain_swap does for one name of the swap list.             *)
LEMMA SwapsTwins ==
  ASSUME NEW n, NEW e \in Entries, NoRepeats(e), Bak(n) # n,
         NEW s, s = Swapped(n, e)
  PROVE  /\ s \in Entries /\ NoRepeats(s) /\ Len(s) = Len(e) /\ Elements(s) = Elements(e)
         /\ \A k \in DOMAIN e : s[k] # e[k] => e[k] \in {n, Bak(n)}
         /\ \A a, b \in DOMAIN e : e[a] = n /\ e[b] = Bak(n) => s[a] = Bak(n) /\ s[b] = n
<1> DEFINE p == gpt_pentry_seek(n, e, 1)
           q == gpt_pentry_seek(n, e, p + 1)
<1>1. Len(e) \in Nat /\ DOMAIN e = 1..Len(e)
  BY DEF Entries
<1>2. \/ p = 0 /\ \A k \in DOMAIN e : e[k] \notin {n, Bak(n)}
      \/ /\ p \in DOMAIN e /\ e[p] \in {n, Bak(n)}
         /\ \A k \in DOMAIN e : e[k] \in {n, Bak(n)} => p <= k
  <2>1. LET found == {k \in 1..Len(e) : e[k] \in {n, Bak(n)}}
        IN  \/ p = 0 /\ found = {}
            \/ p \in found /\ \A k \in found : p <= k
    BY <1>1, SeekFirst
  <2> HIDE DEF p
  <2> QED
    BY <1>1, <2>1
<1>3. p # 0 => \/ q = 0 /\ \A k \in DOMAIN e : k > p => e[k] \notin {n, Bak(n)}
               \/ q \in DOMAIN e /\ q > p /\ e[q] \in {n, Bak(n)}
  <2> SUFFICES ASSUME p # 0
               PROVE  \/ q = 0 /\ \A k \in DOMAIN e : k > p => e[k] \notin {n, Bak(n)}
                      \/ q \in DOMAIN e /\ q > p /\ e[q] \in {n, Bak(n)}
    OBVIOUS
  <2>1. p \in 1..Len(e)
    BY <1>1, <1>2
  <2> HIDE DEF p
  <2>2. p + 1 \in Nat \ {0}
    BY <1>1, <2>1
  <2>3. LET found == {k \in p + 1..Len(e) : e[k] \in {n, Bak(n)}}
        IN  \/ q = 0 /\ found = {}
            \/ q \in found /\ \A k \in found : q <= k
    BY <1>1, <2>2, SeekFirst
  <2> HIDE DEF q
  <2> QED
    BY <1>1, <2>1, <2>3
<1>4. s = IF p = 0 \/ q = 0 THEN e ELSE Exchange(e, p, q)
  BY DEF Swapped, Exchange
<1> HIDE DEF p, q
<1>5. CASE p = 0 \/ q = 0
  <2>1. s = e
    BY <1>4, <1>5
  <2>2. ASSUME NEW a \in DOMAIN e, NEW b \in DOMAIN e, e[a] = n, e[b] = Bak(n) PROVE FALSE
    <3>1. p # 0 /\ p \in DOMAIN e /\ p <= a /\ p <= b /\ e[p] \in {n, Bak(n)}
      BY <1>1, <1>2, <2>2
    <3>2. p = a \/ p = b
      BY <2>2, <3>1 DEF NoRepeats
    <3>3. a # b
      BY <2>2
    <3>4. a > p \/ b > p
      BY <1>1, <3>1, <3>2, <3>3
    <3> QED
      BY <1>1, <1>3, <1>5, <2>2, <3>1, <3>4
  <2> QED
    BY <2>1, <2>2
<1>6. CASE p # 0 /\ q # 0
  <2>1. /\ p \in DOMAIN e /\ q \in DOMAIN e /\ p # q
        /\ e[p] \in {n, Bak(n)} /\ e[q] \in {n, Bak(n)}
    BY <1>1, <1>2, <1>3, <1>6
  <2>2. s = Exchange(e, p, q)
    BY <1>4, <1>6
  <2>3. /\ s \in Entries /\ Len(s) = Len(e) /\ DOMAIN s = DOMAIN e
        /\ s[p] = e[q] /\ s[q] = e[p] /\ \A k \in DOMAIN e \ {p, q} : s[k] = e[k]
        /\ NoRepeats(s) /\ Elements(s) = Elements(e)
    BY <2>1, <2>2, TwoSwapped
  <2>4. e[p] # e[q]
    BY <2>1 DEF NoRepeats
  <2>5. ASSUME NEW a \in DOMAIN e, NEW b \in DOMAIN e, e[a] = n, e[b] = Bak(n)
        PROVE  (a = p /\ b = q) \/ (a = q /\ b = p)
    <3>1. \A k, m \in DOMAIN e : e[k] = e[m] => k = m
      BY DEF NoRepeats
    <3>2. (e[p] = n /\ e[q] = Bak(n)) \/ (e[p] = Bak(n) /\ e[q] = n)
      BY <2>1, <2>4
    <3> QED
      BY <2>1, <2>5, <3>1, <3>2
  <2> QED
    BY <2>1, <2>3, <2>5
<1> QED
  BY <1>5, <1>6

(* A name of the swap list is not its own twin.                             *)
LEMMA NameDiffers ==
  ASSUME NEW n \in Names PROVE n \in Seq(STRING) /\ Bak(n) # n
<1>1. n \in Seq(STRING)
  BY SwapListAssumption DEF Names, Elements
<1> QED
  BY <1>1, BakDiffers

(* Swapping a name of the list only rearranges the array.                   *)
LEMMA StillRearranged ==
  ASSUME NEW d \in Entries, NEW e, Rearranged(e, d), NEW n \in Names
  PROVE  Rearranged(Swapped(n, e), d)
<1> DEFINE s == Swapped(n, e)
<1>1. e \in Entries /\ NoRepeats(e) /\ Len(e) = Len(d) /\ Elements(e) = Elements(d)
  BY DEF Rearranged
<1>2. DOMAIN e = DOMAIN d
  BY <1>1 DEF Entries
<1>3. /\ s \in Entries /\ NoRepeats(s) /\ Len(s) = Len(e) /\ Elements(s) = Elements(e)
      /\ \A k \in DOMAIN e : s[k] # e[k] => e[k] \in {n, Bak(n)}
  BY <1>1, NameDiffers, SwapsTwins
<1> HIDE DEF s
<1>4. ASSUME NEW k \in DOMAIN d, s[k] # d[k] PROVE \E m \in Names : d[k] \in {m, Bak(m)}
  <2>1. CASE e[k] = d[k]
    BY <1>2, <1>3, <1>4, <2>1
  <2>2. CASE e[k] # d[k]
    BY <2>2 DEF Rearranged
  <2> QED
    BY <2>1, <2>2
<1>5. Rearranged(s, d)
  BY <1>1, <1>3, <1>4 DEF Rearranged
<1> QED
  BY <1>5 DEF s

(* Two names that are swapped have no entry in common.                      *)
LEMMA PairsDisjoint ==
  ASSUME NEW j \in DOMAIN SwapList, NEW k \in DOMAIN SwapList, j # k, ~Skipped(SwapList[j])
  PROVE  {SwapList[j], Bak(SwapList[j])} \cap {SwapList[k], Bak(SwapList[k])} = {}
<1>1. SwapList[j] \in Seq(STRING) /\ SwapList[k] \in Seq(STRING)
  BY SwapListAssumption
<1>2. SwapList[j] # SwapList[k]
  BY SwapListAssumption DEF Skipped
<1>3. SwapList[j] # Bak(SwapList[k]) /\ SwapList[k] # Bak(SwapList[j])
  BY SwapListAssumption
<1>4. Bak(SwapList[j]) # Bak(SwapList[k])
  BY <1>1, <1>2, BakInjective
<1> QED
  BY <1>2, <1>3, <1>4

(* One turn of the loop of gpt_boot_chain_swap.                             *)
Turned(i, e) == IF Skipped(SwapList[i]) THEN e ELSE Swapped(SwapList[i], e)
LEMMA OneMoreSwapped ==
  ASSUME NEW d \in Entries, NEW e, Rearranged(e, d),
         NEW i \in DOMAIN SwapList, SwappedBelow(i, e, d)
  PROVE  Rearranged(Turned(i, e), d) /\ SwappedBelow(i + 1, Turned(i, e), d)
<1> DEFINE s == Turned(i, e)
           n == SwapList[i]
<1>1. /\ n \in Names /\ i \in Nat /\ DOMAIN SwapList \subseteq Nat
  BY SwapListAssumption DEF Names, Elements
<1>2. e \in Entries /\ NoRepeats(e) /\ DOMAIN e = DOMAIN d
  BY DEF Rearranged, Entries
<1>3. CASE Skipped(n)
  <2>1. s = e
    BY <1>3 DEF Turned
  <2> HIDE DEF s
  <2>2. SwappedBelow(i + 1, s, d)
    <3> SUFFICES ASSUME NEW k \in DOMAIN SwapList, Twins(SwapList[k], d)
                 PROVE  IF k < i + 1 THEN Exchanged(SwapList[k], s, d)
                                     ELSE Kept(SwapList[k], s, d)
      BY DEF SwappedBelow
    <3>1. k # i
      BY <1>3 DEF Twins
    <3>2. k < i + 1 <=> k < i
      BY <1>1, <3>1
    <3> QED
      BY <2>1, <3>2 DEF SwappedBelow
  <2>3. Rearranged(s, d)
    BY <2>1
  <2> QED
    BY <2>2, <2>3 DEF s
<1>4. CASE ~Skipped(n)
  <2>1. s = Swapped(n, e)
    BY <1>4 DEF Turned
  <2>2. Rearranged(s, d)
    BY <1>1, <2>1, StillRearranged
  <2>3. /\ \A k \in DOMAIN d : s[k] # e[k] => e[k] \in {n, Bak(n)}
        /\ \A a, b \in DOMAIN d : e[a] = n /\ e[b] = Bak(n) => s[a] = Bak(n) /\ s[b] = n
    <3>1. Bak(n) # n
      BY <1>1, NameDiffers
    <3> HIDE DEF s, n
    <3> QED
      BY <1>2, <2>1, <3>1, SwapsTwins
  <2> HIDE DEF s
  <2>4. SwappedBelow(i + 1, s, d)
    <3> SUFFICES ASSUME NEW k \in DOMAIN SwapList, Twins(SwapList[k], d)
                 PROVE  IF k < i + 1 THEN Exchanged(SwapList[k], s, d)
                                     ELSE Kept(SwapList[k], s, d)
      BY DEF SwappedBelow
    <3> DEFINE m == SwapList[k]
    <3>1. /\ IndexOf(m, d) \in DOMAIN d /\ IndexOf(Bak(m), d) \in DOMAIN d
      BY Position DEF Twins
    <3>2. IF k < i THEN Exchanged(m, e, d) ELSE Kept(m, e, d)
      BY DEF SwappedBelow
    <3>3. CASE k = i
      <4>1. Kept(n, e, d) /\ m = n
        BY <1>1, <3>2, <3>3
      <4>2. Exchanged(n, s, d)
        <5> HIDE DEF n, m
        <5> QED
          BY <2>3, <3>1, <4>1 DEF Kept, Exchanged
      <4> QED
        BY <1>1, <3>3, <4>2
    <3>4. CASE k # i
      <4>1. {m, Bak(m)} \cap {n, Bak(n)} = {}
        BY <3>4, PairsDisjoint DEF Twins
      <4>2. k < i + 1 <=> k < i
        BY <1>1, <3>4
      <4> HIDE DEF n, m
      <4>3. s[IndexOf(m, d)] = e[IndexOf(m, d)] /\ s[IndexOf(Bak(m), d)] = e[IndexOf(Bak(m), d)]
        BY <2>3, <3>1, <3>2, <4>1 DEF Kept, Exchanged
      <4>4. IF k < i + 1 THEN Exchanged(m, s, d) ELSE Kept(m, s, d)
        BY <3>2, <4>2, <4>3 DEF Kept, Exchanged
      <4> QED
        BY <4>4 DEF m
    <3> QED
      BY <3>3, <3>4
  <2> QED
    BY <2>2, <2>4 DEF s
<1> QED
  BY <1>3, <1>4

(* An array that nothing has been swapped in, and one that all have.        *)
LEMMA Untouched ==
  ASSUME NEW d \in Entries, NoRepeats(d)
  PROVE  Rearranged(d, d) /\ SwappedBelow(1, d, d)
<1>1. Rearranged(d, d)
  BY DEF Rearranged
<1>2. ASSUME NEW k \in DOMAIN SwapList, Twins(SwapList[k], d)
      PROVE  ~(k < 1) /\ Kept(SwapList[k], d, d)
  BY <1>2, Position, SwapListAssumption DEF Twins, Kept
<1> QED
  BY <1>1, <1>2 DEF SwappedBelow

LEMMA AllSwapped ==
  ASSUME NEW d, NEW e, SwappedBelow(Len(SwapList) + 1, e, d), NEW n \in Names, Twins(n, d)
  PROVE  Exchanged(n, e, d)
<1>1. PICK k \in DOMAIN SwapList : SwapList[k] = n
  BY DEF Names, Elements
<1>2. k < Len(SwapList) + 1
  BY SwapListAssumption
<1> QED
  BY <1>1, <1>2 DEF SwappedBelow

(* The disks are arrays of their own.                                       *)
LEMMA Disks ==
  ASSUME DisksSound, NEW l \in Luns
  PROVE  /\ disks[l] \in Entries /\ NoRepeats(disks[l])
         /\ \A n \in Elements(disks[l]) : Exists(n) /\ Holder(n) = l
<1>1. disks \in Layouts /\ disks \in [Luns -> Entries]
  BY DeviceAssumption DEF DisksSound, Entries
<1>2. \A m, o \in Luns : \A j \in DOMAIN disks[m], k \in DOMAIN disks[o] :
        disks[m][j] = disks[o][k] => m = o /\ j = k
  BY <1>1, DeviceAssumption
<1>3. ASSUME NEW n \in Elements(disks[l]) PROVE Exists(n) /\ Holder(n) = l
  <2>1. ASSUME NEW m \in Luns, n \in Elements(disks[m]) PROVE m = l
    BY <1>2, <2>1 DEF Elements
  <2> QED
    BY <2>1 DEF Exists, Holder
<1>4. NoRepeats(disks[l])
  BY <1>2 DEF NoRepeats
<1> QED
  BY <1>1, <1>3, <1>4

-----------------------------------------------------------------------------
(* The steps.                                                               *)
LEMMA InitDevices == DevicesInit => DevInv
<1> SUFFICES ASSUME DevicesInit PROVE DevInv
  OBVIOUS
<1>1. disks \in [Luns -> Entries] /\ disks \in Layouts
  BY DeviceAssumption DEF DevicesInit, Entries
<1>2. \A l \in Luns : disks[l] \in Entries /\ NoRepeats(disks[l])
  BY <1>1, DeviceAssumption DEF NoRepeats
<1>3. DisksSound
  BY <1>1, <1>2, Untouched DEF DevicesInit, DisksSound
<1>4. DevicesTypeOK
  BY DEF DevicesInit, DevicesTypeOK
<1>5. EachLunOnce
  <2>1. list = <<>> /\ Len(list) = 0 /\ DOMAIN list = {}
    BY DEF DevicesInit
  <2>2. MAX_LUNS \in Nat /\ 0 < MAX_LUNS
    BY DeviceAssumption, SwapListAssumption
  <2> QED
    BY <2>1, <2>2 DEF EachLunOnce, NoRepeats
<1>6. Counted /\ pc = "idle"
  BY DEF DevicesInit, Counted
<1> QED
  BY <1>3, <1>4, <1>5, <1>6 DEF DevInv, Collecting, Preparing, Swapping

(* A list of disks that grows by one.                                       *)
LEMMA OneMoreLun ==
  ASSUME list \in Seq(Luns), NoRepeats(list), NEW l \in Luns, NEW lst, lst = AddLun(l, list),
         Len(list) < MAX_LUNS - 1
  PROVE  /\ lst \in Seq(Luns) /\ NoRepeats(lst) /\ Elements(lst) = Elements(list) \cup {l}
         /\ Len(lst) <= Len(list) + 1
<1>1. Len(list) \in Nat /\ DOMAIN list = 1..Len(list)
  OBVIOUS
<1>2. CASE l \in Elements(list)
  <2>1. list # <<>>
    BY <1>1, <1>2 DEF Elements
  <2>2. lst = list
    BY <1>2, <2>1 DEF AddLun
  <2> QED
    BY <1>1, <1>2, <2>2
<1>3. CASE l \notin Elements(list)
  <2>1. lst = Append(list, l)
    BY <1>3 DEF AddLun
  <2>2. /\ lst \in Seq(Luns) /\ Len(lst) = Len(list) + 1 /\ lst[Len(list) + 1] = l
        /\ \A k \in 1..Len(list) : lst[k] = list[k]
    BY <2>1, AppendProperties
  <2>3. DOMAIN lst = 1..(Len(list) + 1)
    BY <2>2
  <2>4. \A k \in DOMAIN lst : k \in 1..Len(list) \/ k = Len(list) + 1
    BY <1>1, <2>3
  <2>5. NoRepeats(lst)
    BY <1>1, <1>3, <2>2, <2>4 DEF NoRepeats, Elements
  <2>6. 1..Len(list) \subseteq DOMAIN lst /\ Len(list) + 1 \in DOMAIN lst
    BY <1>1, <2>3
  <2>7. Elements(lst) = Elements(list) \cup {l}
    BY <1>1, <2>2, <2>4, <2>6 DEF Elements
  <2> QED
    BY <1>1, <2>2, <2>5, <2>7
<1> QED
  BY <1>2, <1>3

(* prepare_boot_update starts with an empty list, or with mmcblk0.          *)
LEMMA BeginUpdate ==
  ASSUME DevInv, NEW c \in {"main", "bak"}, prepare_boot_update(c)
  PROVE  DevInv'
<1>1. /\ UNCHANGED <<ufs, disks, broken, work, second>>
      /\ chain' = c /\ idx' = 1 /\ turn' = 1
      /\ ufs => pc' = "collect" /\ list' = <<>>
      /\ ~ufs => pc' = "luns" /\ list' = <<BlkDevFile>>
  BY DEF prepare_boot_update, given
<1>2. ufs \in BOOLEAN
  BY DEF DevInv, DisksSound
<1>3. DisksSound'
  BY <1>1 DEF DevInv, DisksSound
<1>4. /\ Len(<<>>) = 0 /\ Elements(<<>>) = {} /\ NoRepeats(<<>>) /\ <<>> \in Seq(Luns)
      /\ Len(<<BlkDevFile>>) = 1 /\ NoRepeats(<<BlkDevFile>>) /\ <<BlkDevFile>> \in Seq(Luns)
      /\ DOMAIN <<BlkDevFile>> = {1}
  BY DeviceAssumption DEF Elements, NoRepeats
<1>5. DevicesTypeOK'
  BY <1>1, <1>2, <1>4 DEF DevInv, DevicesTypeOK
<1>6. Len(SwapList) \in Nat /\ MAX_LUNS \in Nat /\ Len(SwapList) < MAX_LUNS - 1
  BY DeviceAssumption, SwapListAssumption
<1>7. EachLunOnce'
  <2>1. CASE ufs
    BY <1>1, <1>4, <1>6, <2>1 DEF EachLunOnce
  <2>2. CASE ~ufs
    <3>1. list' = <<BlkDevFile>>
      BY <1>1, <2>2
    <3>2. NoRepeats(list') /\ Len(list') = 1
      BY <1>4, <3>1
    <3> QED
      BY <1>6, <3>2 DEF EachLunOnce
  <2> QED
    BY <1>2, <2>1, <2>2
<1>8. Collecting'
  <2>1. Listed(1)' = {}
    BY SwapListAssumption DEF Listed
  <2>2. CASE ufs
    <3>1. list' = <<>> /\ idx' = 1 /\ turn' = 1 /\ ufs'
      BY <1>1, <2>2
    <3>2. Elements(list') = Listed(idx)'
      BY <1>4, <2>1, <3>1
    <3>3. Len(list') < idx' /\ idx' <= Len(SwapList) + 1
      BY <1>4, <1>6, <3>1
    <3> QED
      BY <3>1, <3>2, <3>3 DEF Collecting
  <2>3. CASE ~ufs
    BY <1>1, <2>3 DEF Collecting
  <2> QED
    BY <1>2, <2>2, <2>3
<1>9. Preparing' /\ Swapping' /\ Counted'
  BY <1>1, <1>2, <1>4 DEF Preparing, Swapping, Counted
<1> QED
  BY <1>3, <1>5, <1>7, <1>8, <1>9 DEF DevInv

(* The next name of the swap list puts its disk on the list.                *)
LEMMA CollectStep ==
  ASSUME DevInv, Collect
  PROVE  DevInv'
<1>1. /\ UNCHANGED <<ufs, disks, broken, chain, turn, work, second>>
      /\ pc = "collect"
  BY DEF Collect, given
<1>2. /\ ufs /\ turn = 1 /\ idx <= Len(SwapList) + 1 /\ idx >= 1
      /\ Len(list) < idx /\ Elements(list) = Listed(idx)
      /\ list \in Seq(Luns) /\ Len(list) \in Nat /\ NoRepeats(list) /\ idx \in Nat
  BY <1>1 DEF DevInv, Collecting, DevicesTypeOK, EachLunOnce, Counted
<1>3. Len(SwapList) \in Nat /\ MAX_LUNS \in Nat /\ Len(SwapList) < MAX_LUNS - 1
  BY DeviceAssumption, SwapListAssumption
<1>4. DisksSound'
  BY <1>1 DEF DevInv, DisksSound
<1>5. \A j : Listed(j)' = Listed(j)
  BY <1>1 DEF Listed, ToSwap, Skipped, Resolves, Exists, Holder
<1>6. CASE idx > Len(SwapList)
  <2>1. UNCHANGED <<idx, list>> /\ pc' = "luns" /\ idx = Len(SwapList) + 1
    BY <1>2, <1>3, <1>6 DEF Collect
  <2>2. DevicesTypeOK' /\ EachLunOnce' /\ Counted'
    BY <1>1, <2>1 DEF DevInv, DevicesTypeOK, EachLunOnce, Counted
  <2>3. Preparing'
    BY <1>1, <1>2, <1>5, <2>1 DEF Preparing
  <2> QED
    BY <1>4, <2>1, <2>2, <2>3 DEF DevInv, Collecting, Swapping
<1>7. CASE ~(idx > Len(SwapList))
  <2> DEFINE n == SwapList[idx]
  <2>1. /\ pc' = pc /\ idx' = idx + 1 /\ idx \in DOMAIN SwapList
        /\ list' = IF ToSwap(n) THEN AddLun(Holder(Bak(n)), list) ELSE list
    BY <1>2, <1>3, <1>7, SwapListAssumption DEF Collect, ToSwap
  <2>2. Listed(idx + 1) = Listed(idx) \cup (IF ToSwap(n) THEN {Holder(Bak(n))} ELSE {})
    <3>1. \A k \in DOMAIN SwapList : k < idx + 1 <=> k < idx \/ k = idx
      BY <1>2, SwapListAssumption
    <3> QED
      BY <2>1, <3>1 DEF Listed
  <2>3. /\ list' \in Seq(Luns) /\ NoRepeats(list') /\ Elements(list') = Listed(idx + 1)
        /\ Len(list') <= Len(list) + 1
    <3>1. CASE ToSwap(n)
      <4>1. Holder(Bak(n)) \in Luns
        BY <3>1 DEF ToSwap, Resolves, Exists, Holder
      <4>2. Len(list) < MAX_LUNS - 1
        BY <1>2, <1>3, <1>7
      <4> HIDE DEF n
      <4>3. list' = AddLun(Holder(Bak(n)), list)
        BY <2>1, <3>1
      <4> QED
        BY <1>2, <2>2, <3>1, <4>1, <4>2, <4>3, OneMoreLun
    <3>2. CASE ~ToSwap(n)
      <4> HIDE DEF n
      <4>1. list' = list /\ Listed(idx + 1) = Listed(idx) \cup {}
        BY <2>1, <2>2, <3>2
      <4>2. Listed(idx) \cup {} = Listed(idx) /\ Len(list) <= Len(list) + 1
        BY <1>2
      <4> QED
        BY <1>2, <4>1, <4>2
    <3> QED
      BY <3>1, <3>2
  <2>4. Len(list') \in Nat /\ Len(list') < idx + 1 /\ Len(list') < MAX_LUNS
    BY <1>2, <1>3, <1>7, <2>3
  <2>5. DevicesTypeOK'
    BY <1>1, <1>2, <2>1, <2>3 DEF DevInv, DevicesTypeOK
  <2>6. EachLunOnce' /\ Counted'
    BY <1>1, <1>2, <2>1, <2>3, <2>4 DEF EachLunOnce, Counted
  <2>7. Collecting'
    BY <1>1, <1>2, <1>3, <1>5, <1>7, <2>1, <2>3, <2>4 DEF Collecting
  <2> QED
    BY <1>1, <1>4, <2>1, <2>5, <2>6, <2>7 DEF DevInv, Preparing, Swapping
<1> QED
  BY <1>6, <1>7

(* gpt2_set_boot_chain takes the next disk of the list.                     *)
LEMMA NextLunStep ==
  ASSUME DevInv, NextLun
  PROVE  DevInv'
<1>1. /\ UNCHANGED <<ufs, disks, broken, chain, list>>
      /\ pc = "luns"
  BY DEF NextLun, given
<1>2. /\ turn >= 1 /\ idx >= 1 /\ turn \in Nat /\ idx \in Nat /\ turn <= Len(list) + 1
      /\ \A k \in DOMAIN list : k < turn => AsAsked(second[list[k]], disks[list[k]])
      /\ list \in Seq(Luns) /\ Len(list) \in Nat /\ DOMAIN list = 1..Len(list)
      /\ second \in [Luns -> Entries] /\ \A j, k \in DOMAIN list : list[j] = list[k] => j = k
  BY <1>1 DEF DevInv, Preparing, DevicesTypeOK, EachLunOnce, NoRepeats, Counted, DisksSound
<1>3. \A j : Listed(j)' = Listed(j)
  BY <1>1 DEF Listed, ToSwap, Skipped, Resolves, Exists, Holder
<1>4. IF ufs THEN Elements(list) = Listed(Len(SwapList) + 1) ELSE list = <<BlkDevFile>>
  BY <1>1 DEF DevInv, Preparing
<1>5. (IF ufs THEN Elements(list) = Listed(Len(SwapList) + 1) ELSE list = <<BlkDevFile>>)'
  BY <1>1, <1>3, <1>4
<1>6. EachLunOnce'
  BY <1>1 DEF DevInv, EachLunOnce
<1>7. CASE turn > Len(list)
  <2>1. pc' = "idle" /\ UNCHANGED <<idx, turn, work, second>>
    BY <1>7 DEF NextLun
  <2>2. DevicesTypeOK' /\ DisksSound' /\ Counted'
    BY <1>1, <2>1 DEF DevInv, DevicesTypeOK, DisksSound, Counted
  <2> QED
    BY <1>6, <2>1, <2>2 DEF DevInv, Collecting, Preparing, Swapping
<1>8. ASSUME ~(turn > Len(list))
      PROVE  /\ turn \in DOMAIN list /\ list[turn] \in Luns
             /\ disks[list[turn]] \in Entries /\ NoRepeats(disks[list[turn]])
  <2>1. turn \in DOMAIN list /\ list[turn] \in Luns
    BY <1>2, <1>8
  <2> QED
    BY <2>1, Disks DEF DevInv
<1>9. CASE ~(turn > Len(list)) /\ chain = "bak"
  <2>1. /\ pc' = "swap" /\ idx' = 1 /\ work' = disks[list[turn]] /\ UNCHANGED <<turn, second>>
    BY <1>9 DEF NextLun, Prepared
  <2>2. DevicesTypeOK' /\ DisksSound' /\ Counted'
    BY <1>1, <2>1 DEF DevInv, DevicesTypeOK, DisksSound, Counted
  <2>3. Preparing'
    BY <1>1, <1>2, <1>5, <2>1 DEF Preparing, AsAsked, Twins, Skipped
  <2>4. /\ Rearranged(work, disks[list[turn]])'
        /\ SwappedBelow(idx, work, disks[list[turn]])'
    <3>1. /\ Rearranged(work', disks[list[turn]])
          /\ SwappedBelow(idx', work', disks[list[turn]])
      BY <1>8, <1>9, <2>1, Untouched
    <3> QED
      BY <1>1, <2>1, <3>1 DEF SwappedBelow, Twins, Skipped
  <2>5. Len(SwapList) \in Nat
    BY SwapListAssumption
  <2>6. Swapping'
    BY <1>1, <1>2, <1>9, <2>1, <2>4, <2>5 DEF Swapping
  <2> QED
    BY <1>6, <2>1, <2>2, <2>3, <2>6 DEF DevInv, Collecting
<1>10. CASE ~(turn > Len(list)) /\ chain # "bak"
  <2> DEFINE l == list[turn]
  <2>1. /\ UNCHANGED <<pc, idx, work>> /\ turn' = turn + 1 /\ chain = "main"
        /\ second' = [second EXCEPT ![l] = disks[l]]
    BY <1>10 DEF NextLun, Prepared, DevInv, DevicesTypeOK
  <2>2. /\ second' \in [Luns -> Entries] /\ second'[l] = disks[l]
        /\ \A m \in Luns \ {l} : second'[m] = second[m]
    BY <1>2, <1>8, <1>10, <2>1
  <2>3. Rearranged(disks[l], disks[l])
    BY <1>8, <1>10, Untouched
  <2>4. DisksSound'
    BY <1>1, <2>2, <2>3 DEF DevInv, DisksSound
  <2>5. DevicesTypeOK' /\ Counted'
    BY <1>1, <1>2, <2>1 DEF DevInv, DevicesTypeOK, Counted
  <2>6. ASSUME NEW k \in DOMAIN list, k < turn + 1
        PROVE  second'[list[k]] = disks[list[k]]
    <3>1. CASE k = turn
      BY <2>2, <3>1
    <3>2. CASE k # turn
      <4>1. k < turn /\ list[k] \in Luns /\ list[k] # l
        BY <1>2, <1>8, <1>10, <2>6, <3>2
      <4> QED
        BY <1>2, <2>1, <2>2, <4>1 DEF AsAsked
    <3> QED
      BY <3>1, <3>2
  <2>7. Preparing'
    BY <1>1, <1>2, <1>5, <1>10, <2>1, <2>6 DEF Preparing, AsAsked
  <2> QED
    BY <1>1, <1>6, <2>1, <2>4, <2>5, <2>7 DEF DevInv, Collecting, Swapping
<1> QED
  BY <1>7, <1>9, <1>10

(* gpt_boot_chain_swap: the next name, or the array is written.             *)
LEMMA SwapStep ==
  ASSUME DevInv, Swap
  PROVE  DevInv'
<1> DEFINE l == list[turn]
<1>1. /\ UNCHANGED <<ufs, disks, broken, chain, list>>
      /\ pc = "swap"
  BY DEF Swap, given
<1>2. /\ turn >= 1 /\ idx >= 1 /\ turn \in Nat /\ idx \in Nat /\ turn <= Len(list)
      /\ \A k \in DOMAIN list : k < turn => AsAsked(second[list[k]], disks[list[k]])
      /\ list \in Seq(Luns) /\ Len(list) \in Nat /\ DOMAIN list = 1..Len(list)
      /\ second \in [Luns -> Entries] /\ \A j, k \in DOMAIN list : list[j] = list[k] => j = k
  BY <1>1 DEF DevInv, Preparing, Swapping, DevicesTypeOK, EachLunOnce, NoRepeats, Counted,
              DisksSound
<1>3. \A j : Listed(j)' = Listed(j)
  BY <1>1 DEF Listed, ToSwap, Skipped, Resolves, Exists, Holder
<1>4. IF ufs THEN Elements(list) = Listed(Len(SwapList) + 1) ELSE list = <<BlkDevFile>>
  BY <1>1 DEF DevInv, Preparing
<1>5. (IF ufs THEN Elements(list) = Listed(Len(SwapList) + 1) ELSE list = <<BlkDevFile>>)'
  BY <1>1, <1>3, <1>4
<1>6. EachLunOnce'
  BY <1>1 DEF DevInv, EachLunOnce
<1>7. /\ chain = "bak" /\ idx <= Len(SwapList) + 1
      /\ Rearranged(work, disks[l]) /\ SwappedBelow(idx, work, disks[l])
  BY <1>1 DEF DevInv, Swapping
<1>8. /\ turn \in DOMAIN list /\ l \in Luns
      /\ disks[l] \in Entries /\ NoRepeats(disks[l]) /\ work \in Entries
  <2>1. turn \in DOMAIN list /\ list[turn] \in Luns
    BY <1>2
  <2> QED
    BY <1>7, <2>1, Disks DEF DevInv, Rearranged
<1>9. CASE idx > Len(SwapList)
  <2>1. /\ second' = IF work = disks[l] THEN second ELSE [second EXCEPT ![l] = work]
        /\ pc' = "luns" /\ turn' = turn + 1 /\ UNCHANGED <<idx, work>>
    BY <1>9 DEF Swap, Prepared
  <2>2. idx = Len(SwapList) + 1
    BY <1>2, <1>7, <1>9, SwapListAssumption
  <2>3. ASSUME NEW n \in Names, Twins(n, disks[l]) PROVE Exchanged(n, work, disks[l])
    BY <1>7, <2>2, <2>3, AllSwapped
  <2>4. /\ second' \in [Luns -> Entries] /\ \A m \in Luns \ {l} : second'[m] = second[m]
        /\ second'[l] = IF work = disks[l] THEN second[l] ELSE work
    BY <1>2, <1>8, <2>1
  <2>5. DisksSound'
    BY <1>1, <1>7, <2>4 DEF DevInv, DisksSound
  <2>6. ASSUME NEW n \in Names, Twins(n, disks[l]) PROVE Exchanged(n, second'[l], disks[l])
    <3>1. Exchanged(n, work, disks[l])
      BY <2>3, <2>6
    <3>2. disks[l][IndexOf(n, disks[l])] = n /\ Bak(n) # n
      BY <2>6, Position, NameDiffers DEF Twins
    <3>3. work # disks[l]
      BY <3>1, <3>2 DEF Exchanged
    <3> QED
      BY <2>4, <3>1, <3>3
  <2>7. ASSUME NEW k \in DOMAIN list, k < turn + 1
        PROVE  AsAsked(second'[list[k]], disks[list[k]])
    <3>1. CASE k = turn
      BY <1>7, <2>6, <3>1 DEF AsAsked
    <3>2. CASE k # turn
      <4>1. k < turn /\ list[k] \in Luns /\ list[k] # l
        BY <1>2, <1>8, <2>7, <3>2
      <4> QED
        BY <1>2, <2>4, <4>1
    <3> QED
      BY <3>1, <3>2
  <2>8. Preparing'
    BY <1>1, <1>2, <1>5, <2>1, <2>7 DEF Preparing, AsAsked, Twins, Skipped
  <2>9. DevicesTypeOK' /\ Counted'
    BY <1>1, <1>2, <2>1 DEF DevInv, DevicesTypeOK, Counted
  <2> QED
    BY <1>6, <2>1, <2>5, <2>8, <2>9 DEF DevInv, Collecting, Swapping
<1>10. CASE ~(idx > Len(SwapList))
  <2>1. /\ work' = Turned(idx, work)
        /\ idx' = idx + 1 /\ UNCHANGED <<pc, turn, second>>
    BY <1>10 DEF Swap, Turned
  <2>2. idx \in DOMAIN SwapList /\ idx + 1 <= Len(SwapList) + 1
    BY <1>2, <1>10, SwapListAssumption
  <2>3. Rearranged(work', disks[l]) /\ SwappedBelow(idx', work', disks[l])
    BY <1>7, <1>8, <2>1, <2>2, OneMoreSwapped
  <2>4. DisksSound' /\ DevicesTypeOK' /\ Counted'
    BY <1>1, <1>2, <2>1 DEF DevInv, DisksSound, DevicesTypeOK, Counted
  <2>5. Preparing'
    BY <1>1, <1>2, <1>5, <2>1 DEF Preparing, AsAsked, Twins, Skipped
  <2>6. /\ Rearranged(work, disks[list[turn]])'
        /\ SwappedBelow(idx, work, disks[list[turn]])'
    BY <1>1, <2>1, <2>3 DEF SwappedBelow, Twins, Skipped
  <2>7. Swapping'
    BY <1>1, <1>2, <1>7, <2>1, <2>2, <2>6 DEF Swapping
  <2> QED
    BY <1>1, <1>6, <2>1, <2>4, <2>5, <2>7 DEF DevInv, Collecting
<1> QED
  BY <1>9, <1>10

(* The partition map leaves the update alone.                               *)
LEMMA OtherSteps ==
  ASSUME DevInv,
         \/ \E lst \in PtnLists : gpt_utils_get_partition_map(lst)
         \/ MapPartition
         \/ UNCHANGED devicesVars
  PROVE  DevInv'
<1>1. UNCHANGED <<ufs, disks, broken, chain, list, turn, work, second>>
  BY DEF gpt_utils_get_partition_map, MapPartition,
         devicesVars, given, loop
<1>2. DisksSound' /\ EachLunOnce'
  BY <1>1 DEF DevInv, DisksSound, EachLunOnce
<1>3. CASE \/ \E lst \in PtnLists : gpt_utils_get_partition_map(lst)
           \/ MapPartition
  <2>1. /\ pc' \in {"idle", "map"} /\ idx' \in {1, idx, idx + 1}
    BY <1>3 DEF gpt_utils_get_partition_map, MapPartition
  <2>2. DevicesTypeOK' /\ Counted'
    BY <1>1, <2>1 DEF DevInv, DevicesTypeOK, Counted
  <2> QED
    BY <1>2, <2>1, <2>2 DEF DevInv, Collecting, Preparing, Swapping
<1>4. CASE UNCHANGED devicesVars
  <2>1. UNCHANGED <<pc, idx>>
    BY <1>4 DEF devicesVars, loop
  <2>2. DevicesTypeOK' /\ Counted'
    BY <1>1, <2>1 DEF DevInv, DevicesTypeOK, Counted
  <2>3. \A j : Listed(j)' = Listed(j)
    BY <1>1 DEF Listed, ToSwap, Skipped, Resolves, Exists, Holder
  <2>4. Collecting' /\ Preparing' /\ Swapping'
    BY <1>1, <2>1, <2>3 DEF DevInv, Collecting, Preparing, Swapping, AsAsked, SwappedBelow,
                            Twins, Skipped
  <2> QED
    BY <1>2, <2>2, <2>4 DEF DevInv
<1> QED
  BY <1>3, <1>4

(* The invariant holds in every state.                                      *)
LEMMA DevicesInductive == DevicesSpec => []DevInv
<1>1. DevInv /\ [DevicesNext]_devicesVars => DevInv'
  BY BeginUpdate, CollectStep, NextLunStep, SwapStep, OtherSteps DEF DevicesNext
<1> QED
  BY <1>1, InitDevices, PTL DEF DevicesSpec

(* No secondary GPT loses a partition or names one twice, and a partition   *)
(* that is not in the swap list keeps its place (gpt_boot_chain_swap).      *)
THEOREM NoPartitionLost == DevicesSpec => []NothingLost
<1>1. DevInv => NothingLost
  <2> SUFFICES ASSUME DevInv, NEW l \in Luns
               PROVE  /\ Len(second[l]) = Len(disks[l])
                      /\ Elements(second[l]) = Elements(disks[l])
                      /\ \A k \in DOMAIN disks[l] : second[l][k] # disks[l][k] =>
                           \E n \in Names : disks[l][k] \in {n, Bak(n)}
    BY DEF NothingLost
  <2> QED
    BY DEF DevInv, DisksSound, Rearranged
<1> QED
  BY <1>1, DevicesInductive, PTL

(* The whole swap list names the disks the property speaks of.              *)
LEMMA ListedAll ==
  Listed(Len(SwapList) + 1) =
    {Holder(Bak(n)) : n \in {m \in Names : ~Skipped(m) /\ Resolves(Bak(m))}}
<1>1. \A k \in DOMAIN SwapList : k < Len(SwapList) + 1
  BY SwapListAssumption
<1> QED
  BY <1>1 DEF Listed, ToSwap, Names, Elements

(* After the stage that boots the backups the secondary GPT names the twin  *)
(* in the place of every partition that has one, after the other it is as   *)
(* the primary: whatever the order of the entries (gpt_pentry_seek,         *)
(* gpt_boot_chain_swap).                                                    *)
THEOREM SecondaryFollows == DevicesSpec => []SecondaryAsAsked
<1>1. DevInv => SecondaryAsAsked
  <2> SUFFICES ASSUME DevInv, pc = "luns", turn > Len(list) PROVE SecondaryAsAsked
    BY DEF SecondaryAsAsked
  <2>1. /\ list \in Seq(Luns) /\ Len(list) \in Nat /\ turn \in Nat
        /\ \A k \in DOMAIN list : AsAsked(second[list[k]], disks[list[k]])
    BY DEF DevInv, Preparing, DevicesTypeOK
  <2>2. \A l \in Elements(list) : AsAsked(second[l], disks[l])
    BY <2>1 DEF Elements
  <2>3. CASE chain = "main"
    BY <2>2, <2>3 DEF AsAsked, SecondaryAsAsked
  <2>4. CASE chain # "main"
    <3> SUFFICES ASSUME NEW l \in Luns, NEW n \in Names, ~Skipped(n),
                        {n, Bak(n)} \subseteq Elements(disks[l]), ufs => Resolves(Bak(n))
                 PROVE  Exchanged(n, second[l], disks[l])
      BY <2>4 DEF SecondaryAsAsked, Exchanged
    <3>1. l \in Elements(list)
      <4>1. CASE ufs
        <5>1. Holder(Bak(n)) = l
          BY Disks DEF DevInv
        <5> QED
          BY <4>1, <5>1, ListedAll DEF DevInv, Preparing
      <4>2. CASE ~ufs
        <5>1. disks[l] # <<>>
          BY DEF Elements
        <5>2. l = BlkDevFile /\ list = <<BlkDevFile>>
          BY <4>2, <5>1 DEF DevInv, DisksSound, Preparing
        <5>3. 1 \in DOMAIN list /\ list[1] = l
          BY <5>2
        <5> QED
          BY <5>3 DEF Elements
      <4> QED
        BY <4>1, <4>2
    <3> QED
      BY <2>2, <2>4, <3>1 DEF AsAsked, Twins
  <2> QED
    BY <2>3, <2>4
<1> QED
  BY <1>1, DevicesInductive, PTL

(* The partition map: what it holds of the first j partitions asked for.    *)
MappedTo(j) ==
  \A l \in Luns :
    /\ Len(partition_map[l]) = CountOf(j, l)
    /\ \A k \in 1..j : Belongs(ptns[k], l) => partition_map[l][CountOf(k, l)] = ptns[k]

Mapping ==
  pc = "map" =>
    /\ ptns \in Entries /\ partition_map \in [Luns -> Entries]
    /\ idx >= 1 /\ idx <= Len(ptns) + 1 /\ MappedTo(idx - 1)

(* One partition more counts where it belongs.                              *)
LEMMA OneMoreCounted ==
  ASSUME NEW l, NEW j \in Nat
  PROVE  /\ CountOf(j, l) \in Nat
         /\ CountOf(j + 1, l) = CountOf(j, l) + (IF Belongs(ptns[j + 1], l) THEN 1 ELSE 0)
<1> DEFINE Here(k) == {m \in 1..k : Belongs(ptns[m], l)}
<1>1. IsFiniteSet(Here(j))
  <2>1. IsFiniteSet(1..j) /\ Here(j) \subseteq 1..j
    BY FS_Interval
  <2> HIDE DEF Here
  <2> QED
    BY <2>1, FS_Subset
<1>2. j + 1 \notin Here(j)
  OBVIOUS
<1>3. Here(j + 1) = IF Belongs(ptns[j + 1], l) THEN Here(j) \cup {j + 1} ELSE Here(j)
  OBVIOUS
<1>4. CountOf(j, l) = Cardinality(Here(j)) /\ CountOf(j + 1, l) = Cardinality(Here(j + 1))
  BY DEF CountOf
<1>5. Cardinality(Here(j)) \in Nat
  BY <1>1, FS_CardinalityType
<1>6. Cardinality(Here(j) \cup {j + 1}) = Cardinality(Here(j)) + 1
  BY <1>1, <1>2, FS_AddElement
<1> HIDE DEF Here
<1> QED
  BY <1>3, <1>4, <1>5, <1>6

(* A partition that belongs to l has a number among those that do.          *)
LEMMA CountedBelow ==
  ASSUME NEW l, NEW j \in Nat, NEW k \in 1..j, Belongs(ptns[k], l)
  PROVE  CountOf(k, l) \in 1..CountOf(j, l)
<1> DEFINE Here(i) == {m \in 1..i : Belongs(ptns[m], l)}
<1>1. /\ IsFiniteSet(1..j) /\ Here(j) \subseteq 1..j
      /\ Here(k) \subseteq Here(j) /\ k \in Here(k)
  BY FS_Interval
<1>2. /\ IsFiniteSet(Here(j)) /\ IsFiniteSet(Here(k))
      /\ Cardinality(Here(k)) <= Cardinality(Here(j))
  <2> HIDE DEF Here
  <2> QED
    BY <1>1, FS_Subset
<1>3. Cardinality(Here(k)) \in Nat /\ Cardinality(Here(j)) \in Nat
  BY <1>2, FS_CardinalityType
<1>4. Cardinality(Here(k)) # 0
  BY <1>1, <1>2, FS_EmptySet
<1>5. CountOf(k, l) = Cardinality(Here(k)) /\ CountOf(j, l) = Cardinality(Here(j))
  BY DEF CountOf
<1> HIDE DEF Here
<1> QED
  BY <1>2, <1>3, <1>4, <1>5

(* The map begins empty.                                                    *)
LEMMA BeginMap ==
  ASSUME NEW lst \in PtnLists, gpt_utils_get_partition_map(lst) PROVE Mapping'
<1>1. /\ idx' = 1 /\ ptns' = lst /\ partition_map' = [l \in Luns |-> <<>>]
      /\ UNCHANGED given
  BY DEF gpt_utils_get_partition_map
<1>2. lst \in Entries /\ Len(lst) \in Nat
  BY DeviceAssumption DEF Entries
<1>3. <<>> \in Entries /\ Len(<<>>) = 0
  BY DEF Entries
<1>4. \A l \in Luns : CountOf(0, l)' = 0
  <2> SUFFICES ASSUME NEW l \in Luns PROVE CountOf(0, l)' = 0
    OBVIOUS
  <2>1. {m \in 1..0 : Belongs(ptns[m], l)'} = {}
    OBVIOUS
  <2> QED
    BY <2>1, FS_EmptySet DEF CountOf
<1>5. MappedTo(0)'
  BY <1>1, <1>3, <1>4 DEF MappedTo
<1> QED
  BY <1>1, <1>2, <1>3, <1>5 DEF Mapping

(* A partition goes to the end of the list of its disk, and to no other.    *)
LEMMA MapStep == ASSUME DevicesTypeOK, Mapping, MapPartition PROVE Mapping'
<1>1. CASE idx > Len(ptns)
  <2>1. pc' = "idle"
    BY <1>1 DEF MapPartition
  <2> QED
    BY <2>1 DEF Mapping
<1>2. CASE ~(idx > Len(ptns))
  <2> DEFINE n == ptns[idx]
             found == ufs => Resolves(n)
             home == IF ufs THEN Holder(n) ELSE BlkDevFile
  <2>1. /\ pc = "map" /\ idx' = idx + 1 /\ UNCHANGED <<ufs, disks, broken, ptns>>
        /\ partition_map' = IF found THEN Entered(partition_map, home, n) ELSE partition_map
    BY <1>2 DEF MapPartition, given
  <2>2. /\ ptns \in Entries /\ Len(ptns) \in Nat /\ idx \in 1..Len(ptns)
        /\ partition_map \in [Luns -> Entries] /\ MappedTo(idx - 1)
        /\ idx - 1 \in Nat /\ (idx - 1) + 1 = idx
    BY <1>2, <2>1 DEF Mapping, DevicesTypeOK, Entries
  <2>3. n \in Seq(STRING)
    BY <2>2 DEF Entries
  <2>4. found => home \in Luns
    BY DeviceAssumption DEF Resolves, Exists, Holder
  <2>5. \A l \in Luns : Belongs(n, l) <=> found /\ l = home
    BY DEF Belongs
  <2>6. \A k, l : CountOf(k, l)' = CountOf(k, l)
    BY <2>1 DEF CountOf, Belongs, Resolves, Exists, Holder
  <2>7. \A k, l : Belongs(ptns[k], l)' <=> Belongs(ptns[k], l)
    BY <2>1 DEF Belongs, Resolves, Exists, Holder
  <2> HIDE DEF n, found, home
  <2>8. ASSUME NEW l \in Luns
        PROVE  /\ partition_map'[l] \in Entries
               /\ Len(partition_map'[l]) = CountOf(idx, l)
               /\ \A k \in 1..idx :
                    Belongs(ptns[k], l) => partition_map'[l][CountOf(k, l)] = ptns[k]
    <3> DEFINE old == partition_map[l]
    <3>1. /\ old \in Entries /\ Len(old) = CountOf(idx - 1, l)
          /\ \A k \in 1..(idx - 1) : Belongs(ptns[k], l) => old[CountOf(k, l)] = ptns[k]
      BY <2>2 DEF MappedTo
    <3>2. /\ CountOf(idx - 1, l) \in Nat
          /\ CountOf(idx, l) = CountOf(idx - 1, l) + (IF Belongs(ptns[idx], l) THEN 1 ELSE 0)
      BY <2>2, OneMoreCounted
    <3>3. CASE found /\ l = home
      <4>1. partition_map'[l] = Append(old, n)
        BY <2>1, <2>2, <3>3 DEF Entered
      <4>2. Belongs(ptns[idx], l)
        BY <2>5, <3>3 DEF n
      <4>3. /\ Append(old, n) \in Entries /\ Len(Append(old, n)) = Len(old) + 1
            /\ Append(old, n)[Len(old) + 1] = n
            /\ \A i \in 1..Len(old) : Append(old, n)[i] = old[i]
        BY <2>3, <3>1, AppendProperties DEF Entries
      <4>4. ASSUME NEW k \in 1..idx, Belongs(ptns[k], l)
            PROVE  Append(old, n)[CountOf(k, l)] = ptns[k]
        <5>1. CASE k = idx
          BY <3>1, <3>2, <4>2, <4>3, <5>1 DEF n
        <5>2. CASE k # idx
          <6>1. k \in 1..(idx - 1)
            BY <2>2, <5>2
          <6>2. CountOf(k, l) \in 1..Len(old)
            BY <2>2, <3>1, <4>4, <6>1, CountedBelow
          <6> HIDE DEF old
          <6> QED
            BY <3>1, <4>3, <4>4, <6>1, <6>2
        <5> QED
          BY <5>1, <5>2
      <4> HIDE DEF old
      <4> QED
        BY <3>1, <3>2, <4>1, <4>2, <4>3, <4>4
    <3>4. CASE ~(found /\ l = home)
      <4>1. partition_map'[l] = old
        BY <2>1, <2>2, <2>4, <3>4 DEF Entered
      <4>2. ~Belongs(ptns[idx], l)
        BY <2>5, <3>4 DEF n
      <4>3. \A k \in 1..idx : Belongs(ptns[k], l) => k \in 1..(idx - 1)
        BY <2>2, <4>2
      <4> HIDE DEF old
      <4> QED
        BY <3>1, <3>2, <4>1, <4>2, <4>3
    <3> QED
      BY <3>3, <3>4
  <2>9. MappedTo(idx - 1)'
    <3>1. idx' - 1 = idx /\ ptns' = ptns
      BY <2>1, <2>2
    <3>2. \A l \in Luns :
            /\ \A j : j = idx => Len(partition_map'[l]) = CountOf(j, l)'
            /\ \A k \in 1..idx :
                 Belongs(ptns[k], l)' => partition_map'[l][CountOf(k, l)'] = ptns[k]
      BY <2>1, <2>6, <2>7, <2>8
    <3> QED
      BY <3>1, <3>2 DEF MappedTo
  <2>10. partition_map' \in [Luns -> Entries]
    <3>1. DOMAIN partition_map' = Luns /\ partition_map' = [l \in Luns |-> partition_map'[l]]
      BY <2>1, <2>2 DEF Entered
    <3> QED
      BY <2>8, <3>1
  <2> QED
    BY <2>1, <2>2, <2>9, <2>10 DEF Mapping
<1> QED
  BY <1>1, <1>2

(* The map is as asked in every state of the loop.                          *)
LEMMA MapInductive == DevicesSpec => []Mapping
<1>1. DevicesInit => Mapping
  BY DEF DevicesInit, Mapping
<1>2. DevInv /\ Mapping /\ [DevicesNext]_devicesVars => Mapping'
  <2> SUFFICES ASSUME DevInv, Mapping, [DevicesNext]_devicesVars PROVE Mapping'
    OBVIOUS
  <2>1. CASE MapPartition
    BY <2>1, MapStep DEF DevInv
  <2>2. CASE \E lst \in PtnLists : gpt_utils_get_partition_map(lst)
    BY <2>2, BeginMap
  <2>3. CASE \E c \in {"main", "bak"} : prepare_boot_update(c)
    <3>1. pc' # "map"
      BY <2>3 DEF prepare_boot_update
    <3> QED
      BY <3>1 DEF Mapping
  <2>4. CASE Collect \/ NextLun \/ Swap
    <3>1. pc' # "map"
      BY <2>4 DEF Collect, NextLun, Swap
    <3> QED
      BY <3>1 DEF Mapping
  <2>5. CASE UNCHANGED devicesVars
    <3>1. UNCHANGED <<ufs, disks, broken, pc, idx, ptns, partition_map>>
      BY <2>5 DEF devicesVars, given, loop
    <3>2. MappedTo(idx - 1)' <=> MappedTo(idx - 1)
      BY <3>1 DEF MappedTo, CountOf, Belongs, Resolves, Exists, Holder
    <3> QED
      BY <3>1, <3>2 DEF Mapping
  <2> QED
    BY <2>1, <2>2, <2>3, <2>4, <2>5 DEF DevicesNext
<1> QED
  BY <1>1, <1>2, DevicesInductive, PTL DEF DevicesSpec

(* The disks on the list are those with the twin of a partition that is to  *)
(* be swapped, each of them once, and the list has room for them; and the   *)
(* map has every partition it finds under its own disk, in the order of the *)
(* list and as often as there (add_lun_to_update_list,                      *)
(* gpt_utils_get_partition_map).                                            *)
THEOREM LookupIsExact == DevicesSpec => []LookupExact
<1>1. DevInv => /\ DevicesTypeOK /\ EachLunOnce
                /\ ufs /\ pc \in {"luns", "swap"} =>
                     Elements(list) = {Holder(Bak(n)) :
                       n \in {m \in Names : ~Skipped(m) /\ Resolves(Bak(m))}}
  BY ListedAll DEF DevInv, Preparing
<1>2. DevicesTypeOK /\ Mapping => (pc = "map" /\ idx > Len(ptns) => MappedTo(Len(ptns)))
  <2> SUFFICES ASSUME DevicesTypeOK, Mapping, pc = "map", idx > Len(ptns)
               PROVE  MappedTo(Len(ptns))
    OBVIOUS
  <2>1. idx - 1 = Len(ptns)
    BY DEF DevicesTypeOK, Mapping, Entries
  <2> QED
    BY <2>1 DEF Mapping
<1>3. Mapping => (pc = "map" => DOMAIN ptns = 1..Len(ptns))
  BY DEF Mapping, Entries
<1>4. DevInv /\ Mapping => LookupExact
  BY <1>1, <1>2, <1>3 DEF LookupExact, MappedTo, DevInv
<1> QED
  BY <1>4, DevicesInductive, MapInductive, PTL
=============================================================================
