----------------------------- MODULE SafeUpdate -----------------------------
(***************************************************************************)
(* What a fail-safe update of boot-critical partitions promises: every disk *)
(* holds two copies of its images and boots from one of them; only the copy *)
(* that is not booted is overwritten, and the disk turns to a copy only     *)
(* when that copy is complete.  Where the choice of the copy is recorded is *)
(* left to the implementation; if a record was cut short and nobody noticed *)
(* the disk may be lost when it turns to that copy, and only then, until it *)
(* turns back.                                                              *)
(***************************************************************************)
CONSTANT Disks

VARIABLES
  source,  \* source[d]: the copy that disk d boots from
  copy,    \* copy[d][c]: the state of the images of copy c on d
  cut,     \* the disks whose last record was cut short unnoticed
  lost     \* the disks that do not boot

Copies == {"main", "bak"}
Other(c) == IF c = "main" THEN "bak" ELSE "main"

Init ==
  /\ source = [d \in Disks |-> "main"]
  /\ copy = [d \in Disks |-> [c \in Copies |-> "old"]]
  /\ cut = {} /\ lost = {}

Record(d) ==
  /\ d \notin lost
  /\ cut' \in {cut \cup {d}, cut \ {d}}
  /\ UNCHANGED <<source, copy, lost>>

Switch(d) ==
  /\ copy[d][Other(source[d])] # "torn"
  /\ source' = [source EXCEPT ![d] = Other(@)]
  /\ lost' = lost \ {d} \/ (d \in cut /\ lost' = lost \cup {d})
  /\ UNCHANGED <<copy, cut>>

Overwrite(d, v) ==
  /\ copy' = [copy EXCEPT ![d][Other(source[d])] = v]
  /\ UNCHANGED <<source, cut, lost>>

Next ==
  \E d \in Disks : Record(d) \/ Switch(d) \/ \E v \in {"torn", "new"} : Overwrite(d, v)

Spec == Init /\ [][Next]_<<source, copy, cut, lost>>

=============================================================================
