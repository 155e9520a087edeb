------------------------------- MODULE GptDisk -------------------------------
(***************************************************************************)
(* The gpt_disk interface of gpt-utils/gpt-utils.cpp, lines 1104-1526: a     *)
(* caller reads both GPTs of a disk into a handle, edits the entries in      *)
(* memory, recomputes the CRCs and commits.  gpt_disk_commit writes primary  *)
(* header, primary array, secondary header and secondary array in turn; a    *)
(* power loss or an I/O error may fall between any two, or into an array.    *)
(*                                                                         *)
(* What an array says is a member of Contents; Torn is an array of which     *)
(* only a part was transferred.  A header takes one block and is written as  *)
(* a whole; its own CRC is right wherever it is looked at.  Handles belong   *)
(* to one thread, which makes one call at a time.  A handle may be filled    *)
(* again: if that fails midway, parts of it are new, one is a null pointer,  *)
(* the others are old, and the magic stays.  A definition whose name ends in *)
(* an underscore and a word is the next definition with a plausible bug: see *)
(* "mutants" in PROJECT.json; the specification never uses it.               *)
(***************************************************************************)
EXTENDS Naturals

CONSTANTS
  Handles,    \* struct gpt_disk's the callers hold
  NoHandle,   \* and none
  Contents,   \* what a whole entries array can say
  Torn,       \* an entries array of which a part is missing, or a sum that fits no whole one
  Missing     \* the null pointer in the place of a header or an array

ASSUME DiskAssumption ==
  /\ Torn \notin Contents /\ Missing \notin Contents \cup {Torn}
  /\ Contents # {} /\ NoHandle \notin Handles

PRIMARY_GPT   == "primary"
SECONDARY_GPT == "secondary"
Instances == {PRIMARY_GPT, SECONDARY_GPT}

Arrays  == Contents \cup {Torn}
Parts   == Arrays \cup {Missing}
Idle    == "idle"

VARIABLES
  disk,     \* disk[i]: header, by the array its PARTITION_CRC fits, and array of GPT i
  handle,   \* handle[h]: the struct gpt_disk of h, an image of both GPTs
  op,       \* the running gpt_disk_commit: its handle, GPT and next write, and whether
            \* its writes so far transferred all they were asked to
  careful   \* every commit so far was one its caller could answer for, and whole

vars == <<disk, handle, op, careful>>

Medium == [Instances -> [hdr : Arrays, arr : Arrays]]
Image  == [Instances -> [hdr : Parts, arr : Parts]]

(* A struct gpt_disk after gpt_disk_alloc, or without the magic: no call     *)
(* looks at its image.                                                       *)
Unusable == [magic |-> FALSE,
             image |-> [i \in Instances |-> [hdr |-> Missing, arr |-> Missing]]]

(* A GPT the boot loader and the kernel accept, whose entries are all there. *)
Intact(gpt)  == gpt.hdr = gpt.arr /\ gpt.arr \in Contents
Lacking(gpt) == Missing \in {gpt.hdr, gpt.arr}

(* What blk_rw leaves of an array v when it returns 0: only a negative       *)
(* result of read and write is an error, so that it may be a part of v.      *)
Transferred(v) == {v, Torn}

NotRunning == [pc |-> Idle, h |-> NoHandle, i |-> PRIMARY_GPT, whole |-> TRUE]

Init ==
  /\ \E v \in Contents :
       disk = [i \in Instances |-> [hdr |-> v, arr |-> v]]
  /\ handle = [h \in Handles |-> Unusable]
  /\ op = NotRunning
  /\ careful = TRUE

NoCommit == op.pc \in {Idle, "done"}
Stopped  == op' = NotRunning

(***************************************************************************)
(* gpt_disk_free (and gpt_disk_alloc of the next handle).                   *)
(***************************************************************************)
Free(h) ==
  /\ NoCommit /\ handle[h].magic
  /\ handle' = [handle EXCEPT ![h] = Unusable]
  /\ Stopped
  /\ UNCHANGED <<disk, careful>>

(***************************************************************************)
(* gpt_disk_get_disk_info: both headers are read, the disk is opened, both   *)
(* arrays are read.  The first of the five steps to fail ends the call: the  *)
(* part it was to read is missing, and the magic is what it was before.      *)
(***************************************************************************)
HeaderStep(i) == IF i = PRIMARY_GPT THEN 1 ELSE 2
ArrayStep(i)  == IF i = PRIMARY_GPT THEN 4 ELSE 5
AllSteps      == 6

Part(step, failed, new, old) ==
  IF step < failed THEN new ELSE IF step = failed THEN Missing ELSE old
Refilled(old, new, failed) ==
  [i \in Instances |-> [hdr |-> Part(HeaderStep(i), failed, new[i].hdr, old[i].hdr),
                        arr |-> Part(ArrayStep(i), failed, new[i].arr, old[i].arr)]]

Read(i)    == {[disk[i] EXCEPT !.arr = v] : v \in Transferred(disk[i].arr)}
ReadImages == {image \in [Instances -> UNION {Read(i) : i \in Instances}] :
                 \A i \in Instances : image[i] \in Read(i)}

GetDiskInfo(h) ==
  /\ NoCommit
  /\ \E failed \in 1 .. AllSteps, new \in ReadImages :
       /\ handle' = [handle EXCEPT ![h] =
            IF failed < AllSteps /\ ~@.magic THEN Unusable
            ELSE [magic |-> TRUE, image |-> Refilled(@.image, new, failed)]]
  /\ Stopped
  /\ UNCHANGED <<disk, careful>>

(* gpt_disk_get_pentry, and the caller's edit of the entry it returned.  A   *)
(* torn array stays torn.                                                    *)
EditEntry(h, i, v) ==
  /\ NoCommit /\ handle[h].magic
  /\ handle[h].image[i].arr \notin {v, Torn, Missing}
  /\ handle' = [handle EXCEPT ![h].image[i].arr = v]
  /\ Stopped
  /\ UNCHANGED <<disk, careful>>

(* gpt_disk_update_crc: the array CRCs go into the headers before the CRC    *)
(* of the header that holds them is taken.  crc32 has a sum for a null       *)
(* pointer too.                                                              *)
Sealed(gpt) == [gpt EXCEPT !.hdr = IF gpt.arr = Missing THEN Torn ELSE gpt.arr]
UpdateCrc(h) ==
  /\ NoCommit /\ handle[h].magic
  /\ \A i \in Instances : handle[h].image[i].hdr # Missing
  /\ handle' = [handle EXCEPT ![h].image = [i \in Instances |-> Sealed(@[i])]]
  /\ Stopped
  /\ UNCHANGED <<disk, careful>>

(* gpt_disk_update_crc and gpt_disk_get_pentry do not look for a null        *)
(* pointer where they write or search: the process dies, and its handles.    *)
Die(h) ==
  /\ NoCommit /\ handle[h].magic
  /\ \E i \in Instances : Lacking(handle[h].image[i])
  /\ handle' = [g \in Handles |-> Unusable]
  /\ Stopped
  /\ UNCHANGED <<disk, careful>>

(***************************************************************************)
(* gpt_disk_commit.  A caller can answer for a commit when it recomputed    *)
(* the CRCs after its edits, when the arrays it read were whole, and when   *)
(* the other GPT can stand in for the one about to be overwritten: either   *)
(* the secondary GPT is good, or the primary is and keeps what it says (the *)
(* retry of a commit that failed).  A GPT with a missing part it need not   *)
(* answer for: gpt_set_header and gpt_set_pentry_arr refuse it.             *)
(***************************************************************************)
MayCommit(h) == handle[h].magic

Answerable(image) ==
  /\ \A i \in Instances : Intact(image[i]) \/ Lacking(image[i])
  /\ \/ Intact(disk[SECONDARY_GPT])
     \/ disk[PRIMARY_GPT] = image[PRIMARY_GPT]

BeginCommit(h) ==
  /\ NoCommit /\ MayCommit(h)
  /\ op' = [pc |-> "header", h |-> h, i |-> PRIMARY_GPT, whole |-> TRUE]
  /\ careful' = (careful /\ Answerable(handle[h].image))
  /\ UNCHANGED <<disk, handle>>

Source == handle[op.h].image[op.i]   \* what is being written, of GPT op.i

(* gpt_set_header: one block, written to block 1 or to the last block.       *)
AfterHeader_HeadersFirst(i) ==
  IF i = PRIMARY_GPT THEN [op EXCEPT !.i = SECONDARY_GPT]
                     ELSE [op EXCEPT !.pc = "array", !.i = PRIMARY_GPT]
AfterHeader(i) == [op EXCEPT !.pc = "array"]

WriteHeader ==
  /\ op.pc = "header" /\ Source.hdr # Missing
  /\ disk' = [disk EXCEPT ![op.i].hdr = Source.hdr]
  /\ op' = AfterHeader(op.i)
  /\ UNCHANGED <<handle, careful>>

(* gpt_set_pentry_arr: many blocks.  While they are being written the array  *)
(* is torn, unless the medium held the same one before.                      *)
BeginArray ==
  /\ op.pc = "array" /\ Source.arr # Missing
  /\ disk' = [disk EXCEPT ![op.i].arr = IF @ = Source.arr THEN @ ELSE Torn]
  /\ op' = [op EXCEPT !.pc = "in array"]
  /\ UNCHANGED <<handle, careful>>

AfterArray_PrimaryOnly(i) == [op EXCEPT !.pc = "done"]
AfterArray(i) ==
  IF i = PRIMARY_GPT THEN [op EXCEPT !.pc = "header", !.i = SECONDARY_GPT]
                     ELSE [op EXCEPT !.pc = "done"]

EndArray ==
  /\ op.pc = "in array"
  /\ \E v \in Transferred(Source.arr) :
       /\ disk' = [disk EXCEPT ![op.i].arr = v]
       /\ op' = [AfterArray(op.i) EXCEPT !.whole = @ /\ v = Source.arr]
       /\ careful' = (careful /\ v = Source.arr)
  /\ UNCHANGED <<handle>>

(* A null pointer is refused, and the call returns -1.                       *)
Refuse ==
  /\ \/ op.pc = "header" /\ Source.hdr = Missing
     \/ op.pc = "array" /\ Source.arr = Missing
  /\ Stopped
  /\ UNCHANGED <<disk, handle, careful>>

(* A write or its fsync fails and the call returns -1; the write may have    *)
(* reached the medium all the same.                                          *)
Fail ==
  /\ op.pc \in {"header", "array", "in array"}
  /\ \/ UNCHANGED disk
     \/ /\ op.pc = "header" /\ Source.hdr # Missing
        /\ disk' = [disk EXCEPT ![op.i].hdr = Source.hdr]
     \/ op.pc = "in array" /\ disk' = [disk EXCEPT ![op.i].arr = Source.arr]
  /\ Stopped
  /\ UNCHANGED <<handle, careful>>

(* Power loss: the handles are gone, the medium stays as it is. *)
Crash ==
  /\ handle' = [h \in Handles |-> Unusable]
  /\ Stopped
  /\ UNCHANGED <<disk, careful>>

Next ==
  \/ \E h \in Handles :
       \/ Free(h) \/ GetDiskInfo(h) \/ UpdateCrc(h) \/ Die(h) \/ BeginCommit(h)
       \/ \E i \in Instances, v \in Contents : EditEntry(h, i, v)
  \/ WriteHeader \/ BeginArray \/ EndArray \/ Refuse \/ Fail
  \/ Crash

Spec == Init /\ [][Next]_vars
-----------------------------------------------------------------------------
TypeOK ==
  /\ disk \in Medium
  /\ handle \in [Handles -> [magic : BOOLEAN, image : Image]]
  /\ op \in [pc : {Idle, "header", "array", "in array", "done"},
             h : Handles \cup {NoHandle}, i : Instances, whole : BOOLEAN]
  /\ op.pc # Idle => op.h \in Handles
  /\ careful \in BOOLEAN

(* At every point of every commit, and so after a power loss at that point,  *)
(* the disk holds a GPT that is accepted and whole, as long as the callers   *)
(* commit what they can answer for and no write is cut short.  A handle that  *)
(* lost a part when it was filled again costs at most the primary GPT.       *)
OneGoodGpt == TypeOK /\ (careful => \E i \in Instances : Intact(disk[i]))

(* After a commit that returned 0 a GPT that is accepted is the one of the   *)
(* handle, even if a write was cut short unseen; and if none was, the whole  *)
(* image is on the disk ("Write the contents of struct gpt_disk back to the  *)
(* actual disk").                                                            *)
CommitAnswer ==
  op.pc = "done" =>
    /\ \A i \in Instances : Intact(disk[i]) => disk[i] = handle[op.h].image[i]
    /\ op.whole => disk = handle[op.h].image
=============================================================================
