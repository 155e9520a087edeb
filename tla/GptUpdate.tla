------------------------------ MODULE GptUpdate ------------------------------
(***************************************************************************)
(* The fail-safe boot update of gpt-utils/gpt-utils.cpp.                    *)
(*                                                                         *)
(* prepare_boot_update(stage) walks over the disks (UFS LUNs) that hold a   *)
(* boot-critical partition with a "bak" twin and calls prepare_partitions   *)
(* on each.  Every disk carries two GPTs.  A stage decides from which of    *)
(* them the boot loader reads the partition table, by corrupting the        *)
(* signature of the other, and with it which chain of images is booted:     *)
(* the entries of the secondary GPT are swapped so that they name the       *)
(* backup images.  The caller then overwrites the chain that is not used.   *)
(*                                                                         *)
(* One action is one system call that reaches the medium (blk_rw syncs      *)
(* each write before it returns), so that a crash falls between any two.    *)
(***************************************************************************)
EXTENDS Naturals

CONSTANTS
  Luns,        \* the disks on the update list (one disk on eMMC)
  HasBackup,   \* those whose GPT names at least one partition and its twin
  UsesXbl,     \* UFS, and both xbl and xblbak exist: the boot LUN is switched
  MaxCrashes,  \* bound on the crashes in a behaviour
  MaxIoErrors  \* bound on the failing system calls in a behaviour

ASSUME GptAssumption ==
  /\ Luns # {}
  /\ HasBackup \subseteq Luns
  /\ UsesXbl \in BOOLEAN
  /\ MaxCrashes \in Nat /\ MaxIoErrors \in Nat

UPDATE_MAIN     == 1
UPDATE_BACKUP   == 2
UPDATE_FINALIZE == 3
Stages  == {UPDATE_MAIN, UPDATE_BACKUP, UPDATE_FINALIZE}
NoStage == 0

HeaderState == {"GPT_OK", "GPT_BAD_SIGNATURE", "GPT_BAD_CRC"}
Entries     == {"normal", "swapped"}     \* chain named by an entries array
Image       == {"old", "new", "torn"}    \* torn: overwritten in part
Chains      == {"main", "bak"}

VARIABLES
  primHdr,   \* primHdr[l]: what gpt_get_state finds in the primary header of l
  primArrOk, \* primArrOk[l]: the primary entries match the CRC in their header
  secHdr,    \* secHdr[l]: what gpt_get_state finds in the secondary header
  secCrc,    \* secCrc[l]: the entries whose CRC the secondary header records
  secArr,    \* secArr[l]: the secondary entries array
  cut,       \* the disks whose secondary array blk_rw last wrote in part only,
             \* and reported to be written
  image,     \* image[c][l]: the images of chain c on l
  xbl,       \* xbl[c]: the xbl image of chain c (one UFS boot LUN each)
  bootLun,   \* the UFS boot LUN that is enabled, named by its chain
  pc, stage, todo, cur, isError,  \* the running prepare_boot_update
  granted,   \* the stage whose preparation returned 0 to the caller
  writing,   \* the image the caller is overwriting, if any
  crashes, ioErrors  \* how many there were

gpt    == <<primHdr, primArrOk, secHdr, secCrc, secArr, cut>>
images == <<image, xbl>>
caller == <<granted, writing>>
faults == <<crashes, ioErrors>>
vars   == <<gpt, images, bootLun, pc, stage, todo, cur, isError, caller, faults>>

Xbl      == "xbl"          \* the write target that is not on a listed disk
NoTarget == "none"

ASSUME TargetAssumption == Xbl \notin Luns /\ NoTarget \notin Luns

BadSig(h) == h = "GPT_BAD_SIGNATURE"

-----------------------------------------------------------------------------
(* The boot loader (external): the primary GPT when it is usable, otherwise *)
(* the secondary one.                                                       *)

PrimUsable(l) == primHdr[l] = "GPT_OK" /\ primArrOk[l]
SecUsable(l)  == secHdr[l] = "GPT_OK" /\ secArr[l] = secCrc[l]

Selected(l) ==
  CASE PrimUsable(l) -> "main"
    [] ~PrimUsable(l) /\ SecUsable(l) /\ secArr[l] = "normal"  -> "main"
    [] ~PrimUsable(l) /\ SecUsable(l) /\ secArr[l] = "swapped" -> "bak"
    [] OTHER -> "none"

MainIntact == xbl["main"] # "torn" /\ \A l \in Luns : image["main"][l] # "torn"
BakIntact  == xbl["bak"] # "torn" /\ \A l \in Luns : image["bak"][l] # "torn"

-----------------------------------------------------------------------------
(* A definition whose name ends in an underscore and a word, such as        *)
(* Outcome_IgnoreErrors, is never used by the specification: it is the form *)
(* the next definition would take with a plausible bug in the code, and the *)
(* property it would violate is listed under "mutants" in PROJECT.json.     *)

(* A disk leaves the factory with two equal GPTs; one of the parts that the *)
(* code checks, or forgets to check, may have been damaged since.           *)

Init ==
  /\ \E damaged \in [Luns -> {"none", "primHdr", "primArr", "secHdr", "secArr"}] :
       /\ primHdr = [l \in Luns |->
                       IF damaged[l] = "primHdr" THEN "GPT_BAD_CRC" ELSE "GPT_OK"]
       /\ primArrOk = [l \in Luns |-> damaged[l] # "primArr"]
       /\ secHdr = [l \in Luns |->
                      IF damaged[l] = "secHdr" THEN "GPT_BAD_CRC" ELSE "GPT_OK"]
       /\ secArr = [l \in Luns |-> IF damaged[l] = "secArr" THEN "torn" ELSE "normal"]
  /\ secCrc = [l \in Luns |-> "normal"]
  /\ cut = {}
  /\ image = [c \in Chains |-> [l \in Luns |-> "old"]]
  /\ xbl = [c \in Chains |-> "old"]
  /\ bootLun = "main"
  /\ pc = "idle" /\ stage = NoStage /\ todo = {} /\ isError = FALSE
  /\ cur \in Luns
  /\ granted = NoStage /\ writing = NoTarget
  /\ crashes = 0 /\ ioErrors = 0

-----------------------------------------------------------------------------
(* The caller (external: the updater that runs in recovery).  It overwrites *)
(* a chain only after the stage that frees it returned 0, and leaves a      *)
(* stage only when the chain it was overwriting is complete.                *)

CallPrepare(s) ==
  /\ pc = "idle" /\ writing = NoTarget
  /\ s = UPDATE_BACKUP => MainIntact
  /\ s = UPDATE_FINALIZE => BakIntact
  /\ pc' = "loop" /\ stage' = s /\ todo' = Luns /\ isError' = FALSE
  /\ granted' = NoStage
  /\ UNCHANGED <<gpt, images, bootLun, cur, writing, faults>>

Freed == IF granted = UPDATE_MAIN THEN "main" ELSE "bak"

Put(t, v) ==
  IF t = Xbl THEN xbl' = [xbl EXCEPT ![Freed] = v] /\ UNCHANGED image
             ELSE image' = [image EXCEPT ![Freed][t] = v] /\ UNCHANGED xbl

BeginWrite(t) ==
  /\ pc = "idle" /\ writing = NoTarget
  /\ granted \in {UPDATE_MAIN, UPDATE_BACKUP}
  /\ t = Xbl => UsesXbl
  /\ writing' = t
  /\ Put(t, "torn")
  /\ UNCHANGED <<gpt, bootLun, pc, stage, todo, cur, isError, granted, faults>>

EndWrite ==
  /\ pc = "idle" /\ writing # NoTarget
  /\ Put(writing, "new")
  /\ writing' = NoTarget
  /\ UNCHANGED <<gpt, bootLun, pc, stage, todo, cur, isError, granted, faults>>

-----------------------------------------------------------------------------
(* How a step of prepare_partitions ends: it goes on, or this disk failed   *)
(* and prepare_boot_update continues with the next one.                     *)

Continue(next) == pc' = next /\ UNCHANGED <<isError, faults>>
Reject         == pc' = "loop" /\ isError' = TRUE /\ UNCHANGED faults
IoFault        == /\ ioErrors < MaxIoErrors /\ ioErrors' = ioErrors + 1
                  /\ UNCHANGED crashes
                  /\ pc' = "loop" /\ isError' = TRUE

Running == <<stage, todo, cur, caller>>

(* The loop over data.lun_list, in whatever order the list holds the LUNs. *)
NextLun(l) ==
  /\ pc = "loop" /\ l \in todo
  /\ pc' = "inspect" /\ cur' = l /\ todo' = todo \ {l}
  /\ UNCHANGED <<gpt, images, bootLun, stage, isError, caller, faults>>

Outcome_IgnoreErrors == stage
Outcome == IF isError THEN NoStage ELSE stage

Return ==
  /\ pc = "loop" /\ todo = {}
  /\ pc' = "idle"
  /\ granted' = Outcome
  /\ UNCHANGED <<gpt, images, bootLun, stage, todo, cur, isError, writing, faults>>

(* Reading fails (open, ioctl, malloc, lseek, read): nothing was written.   *)
(* An array of which blk_rw read a part fails its CRC, to the same effect.  *)
ReadError ==
  /\ pc \in {"inspect", "bootlun", "chain_hdr", "primary", "secondary"}
  /\ pc = "bootlun" => UsesXbl
  /\ IoFault
  /\ UNCHANGED <<gpt, images, bootLun, Running>>

InternalStage_AsAsked(l) == stage

InternalStage(l) ==
  CASE primHdr[l] = "GPT_OK" /\ secHdr[l] = "GPT_OK" -> UPDATE_MAIN
    [] primHdr[l] = "GPT_BAD_SIGNATURE"              -> UPDATE_BACKUP
    [] OTHER                                         -> UPDATE_FINALIZE

AlreadySet_NeverSeen(l) == FALSE
AlreadySet(l) == stage = InternalStage(l) - 1

Unacceptable(l) ==
  \/ primHdr[l] = "GPT_BAD_CRC" \/ secHdr[l] = "GPT_BAD_CRC"
  \/ primHdr[l] = "GPT_BAD_SIGNATURE" /\ secHdr[l] = "GPT_BAD_SIGNATURE"

(* prepare_partitions up to its switch: the stage the headers say the disk  *)
(* is in, against the stage asked for.                                      *)
Inspect ==
  /\ pc = "inspect"
  /\ \/ Unacceptable(cur) /\ Reject
     \/ /\ ~Unacceptable(cur)
        /\ \/ AlreadySet(cur) /\ Continue("loop")
           \/ ~AlreadySet(cur) /\ stage # InternalStage(cur) /\ Reject
           \/ /\ stage = InternalStage(cur)
              /\ Continue(IF stage = UPDATE_FINALIZE THEN "chain_hdr" ELSE "bootlun")
  /\ UNCHANGED <<gpt, images, bootLun, Running>>

(* gpt_utils_set_xbl_boot_partition, when the target has an xbl and its twin. *)
BootLunFor_AlwaysB == "bak"
BootLunFor == IF stage = UPDATE_MAIN THEN "bak" ELSE "main"

AfterBootLun_SkipChain == "primary"
AfterBootLun == IF stage = UPDATE_MAIN THEN "chain_hdr" ELSE "primary"

SetBootLun ==
  /\ pc = "bootlun"
  /\ bootLun' = IF UsesXbl THEN BootLunFor ELSE bootLun
  /\ Continue(AfterBootLun) \/ (UsesXbl /\ IoFault)
  /\ UNCHANGED <<gpt, images, Running>>

-----------------------------------------------------------------------------
(* gpt2_set_boot_chain: the entries of the primary GPT, swapped for         *)
(* BACKUP_BOOT, become the secondary ones; first the header, then the       *)
(* array, which takes many sectors.                                         *)

Chain      == IF stage = UPDATE_MAIN THEN "swapped" ELSE "normal"
AfterChain == IF stage = UPDATE_MAIN THEN "primary" ELSE "secondary"

SetChainHeader ==
  /\ pc = "chain_hdr"
  /\ \/ ~primArrOk[cur] /\ Reject /\ UNCHANGED secCrc
     \/ (* no backup partition: nothing is flagged, the stage is over *)
        /\ primArrOk[cur] /\ stage = UPDATE_MAIN /\ cur \notin HasBackup
        /\ Continue("loop") /\ UNCHANGED secCrc
     \/ /\ primArrOk[cur]
        /\ stage = UPDATE_MAIN => cur \in HasBackup
        /\ secCrc' = [secCrc EXCEPT ![cur] = Chain]
        /\ Continue("chain_arr") \/ IoFault
  /\ UNCHANGED <<primHdr, primArrOk, secHdr, secArr, cut, images, bootLun, Running>>

SetChainArrayBegin ==
  /\ pc = "chain_arr"
  /\ secArr' = [secArr EXCEPT ![cur] = IF @ = Chain THEN Chain ELSE "torn"]
  /\ cut' = cut \ {cur}
  /\ Continue("chain_end") \/ IoFault
  /\ UNCHANGED <<primHdr, primArrOk, secHdr, secCrc, images, bootLun, Running>>

(* blk_rw takes any result of write that is not negative for success: the   *)
(* rest of the array may never have been written.                           *)
SetChainArrayEnd ==
  /\ pc = "chain_end"
  /\ \/ /\ secArr' = [secArr EXCEPT ![cur] = Chain] /\ UNCHANGED cut
        /\ Continue(AfterChain) \/ IoFault
     \/ /\ secArr[cur] # Chain /\ UNCHANGED secArr
        /\ cut' = cut \cup {cur}
        /\ Continue(AfterChain)
  /\ UNCHANGED <<primHdr, primArrOk, secHdr, secCrc, images, bootLun, Running>>

-----------------------------------------------------------------------------
(* gpt_set_state on either header: one sector, with its CRC made to match.  *)
(* A sector is written as a whole, or not at all and write fails.           *)

SetPrimary ==
  /\ pc = "primary"
  /\ primHdr' = [primHdr EXCEPT ![cur] =
                   IF stage = UPDATE_MAIN THEN "GPT_BAD_SIGNATURE" ELSE "GPT_OK"]
  /\ Continue(IF stage = UPDATE_MAIN THEN "loop" ELSE "secondary") \/ IoFault
  /\ UNCHANGED <<primArrOk, secHdr, secCrc, secArr, cut, images, bootLun, Running>>

SecondaryState_NotCorrupted == "GPT_OK"
SecondaryState == IF stage = UPDATE_BACKUP THEN "GPT_BAD_SIGNATURE" ELSE "GPT_OK"

SetSecondary ==
  /\ pc = "secondary"
  /\ secHdr' = [secHdr EXCEPT ![cur] = SecondaryState]
  /\ Continue("loop") \/ IoFault
  /\ UNCHANGED <<primHdr, primArrOk, secCrc, secArr, cut, images, bootLun, Running>>

-----------------------------------------------------------------------------
(* The device loses power or the updater dies: what is on the media stays.  *)
Crash ==
  /\ crashes < MaxCrashes /\ crashes' = crashes + 1 /\ UNCHANGED ioErrors
  /\ pc' = "idle" /\ granted' = NoStage /\ writing' = NoTarget
  /\ stage' = NoStage /\ todo' = {} /\ isError' = FALSE
  /\ UNCHANGED <<gpt, images, bootLun, cur>>

Prepare ==
  \/ \E l \in Luns : NextLun(l)
  \/ Inspect \/ SetBootLun
  \/ SetChainHeader \/ SetChainArrayBegin \/ SetChainArrayEnd
  \/ SetPrimary \/ SetSecondary
  \/ Return

Next ==
  \/ \E s \in Stages : CallPrepare(s)
  \/ \E t \in Luns \cup {Xbl} : BeginWrite(t)
  \/ EndWrite
  \/ Prepare
  \/ ReadError
  \/ Crash

Spec == Init /\ [][Next]_vars /\ WF_vars(Prepare)

-----------------------------------------------------------------------------
(* Correctness.                                                             *)

BoundsOK == crashes \in 0..MaxCrashes /\ ioErrors \in 0..MaxIoErrors

TypeOK ==
  /\ primHdr \in [Luns -> HeaderState]
  /\ primArrOk \in [Luns -> BOOLEAN]
  /\ secHdr \in [Luns -> HeaderState]
  /\ secCrc \in [Luns -> Entries]
  /\ secArr \in [Luns -> Entries \cup {"torn"}] /\ cut \subseteq Luns
  /\ image \in [Chains -> [Luns -> Image]]
  /\ xbl \in [Chains -> Image]
  /\ bootLun \in Chains
  /\ pc \in {"idle", "loop", "inspect", "bootlun", "chain_hdr", "chain_arr",
             "chain_end", "primary", "secondary"}
  /\ stage \in Stages \cup {NoStage}
  /\ todo \subseteq Luns
  /\ cur \in Luns
  /\ isError \in BOOLEAN
  /\ granted \in Stages \cup {NoStage}
  /\ writing \in Luns \cup {Xbl, NoTarget}
  /\ BoundsOK

(* No GPT of the disk can be used: its secondary array was cut short and    *)
(* taken for written, and the primary signature was corrupted after that.   *)
Lost(l) == l \in cut /\ BadSig(primHdr[l]) /\ Selected(l) = "none"

(* Whatever the order of stages, I/O errors and crashes, a disk with backup *)
(* partitions boots from a usable GPT that names a complete chain of images,*)
(* or was lost to a short write that blk_rw took for success                *)
(* (gpt2_set_boot_chain, gpt_set_state: order of the writes).               *)
Bootable ==
  /\ TypeOK
  /\ \A l \in HasBackup :
       Lost(l) \/ (Selected(l) \in Chains /\ image[Selected(l)][l] # "torn")

(* When prepare_boot_update returned 0 no disk with backups boots from the  *)
(* chain the caller is about to overwrite: no partial failure, no "already  *)
(* set" disk is mistaken for a prepared one.  Only UPDATE_MAIN loses disks. *)
PreparedEverywhere ==
  \A l \in HasBackup :
    /\ granted = UPDATE_MAIN   => Selected(l) = "bak" \/ Lost(l)
    /\ granted = UPDATE_BACKUP => Selected(l) = "main"

(* After UPDATE_FINALIZE returned 0 both GPTs of every disk are usable and  *)
(* "once again point to the same set of partitions", but for a secondary    *)
(* array that was cut short.                                                *)
FinalizeRestores ==
  granted = UPDATE_FINALIZE =>
    \A l \in Luns : PrimUsable(l) /\ secHdr[l] = "GPT_OK"
                    /\ (l \in cut \/ (SecUsable(l) /\ secArr[l] = "normal"))

(* A stage that returned 0 has delivered, on every disk, what the caller of *)
(* prepare_boot_update relies on.                                           *)
StagesDeliver == PreparedEverywhere /\ FinalizeRestores

(* The xbl image on boot LUN B is overwritten only while LUN A boots, and is *)
(* never booted while it is torn (boot LUN switch in UPDATE_BACKUP).        *)
XblBackupSafe ==
  UsesXbl => /\ granted = UPDATE_BACKUP => bootLun = "main"
             /\ bootLun = "bak" => xbl["bak"] # "torn"

(* "Stage already set - ready for update": when UPDATE_MAIN returned 0 the   *)
(* boot LUN is the backup one, so that the xbl on LUN A may be overwritten.  *)
ReadyForUpdate ==
  UsesXbl /\ granted = UPDATE_MAIN => bootLun = "bak"

-----------------------------------------------------------------------------
(* Why it holds: the inductive invariant of the proofs, in named parts.     *)

(* What the headers of one disk say of its entries: a corrupted signature   *)
(* leaves the other GPT usable unless its array was cut short, and swapped  *)
(* entries are only booted once the primary signature was corrupted on      *)
(* purpose.                                                                 *)
GptPair ==
  \A l \in Luns :
    /\ BadSig(primHdr[l]) =>
         /\ primArrOk[l] /\ secHdr[l] = "GPT_OK" /\ l \in HasBackup
         /\ \/ SecUsable(l) /\ secArr[l] = "swapped"
            \/ l \in cut
    /\ BadSig(secHdr[l]) => PrimUsable(l)
    /\ BadSig(primHdr[l]) \/ PrimUsable(l) \/ SecUsable(l)
    /\ ~PrimUsable(l) /\ ~BadSig(primHdr[l]) => secArr[l] = "normal"
    /\ l \in cut => secArr[l] = "torn"

(* A torn image lies on the chain that a corrupted header hides.            *)
TornHidden ==
  /\ \A l \in HasBackup :
       /\ image["main"][l] = "torn" => BadSig(primHdr[l])
       /\ image["bak"][l] = "torn"  => BadSig(secHdr[l])
  /\ UsesXbl /\ xbl["bak"] = "torn" => \A l \in Luns : BadSig(secHdr[l])

(* What stage s leaves behind on a disk when it succeeds there.             *)
Prepared(s, l) ==
  /\ s = UPDATE_MAIN     => (l \in HasBackup => BadSig(primHdr[l]))
  /\ s = UPDATE_BACKUP   => BadSig(secHdr[l])
  /\ s = UPDATE_FINALIZE => /\ PrimUsable(l) /\ secHdr[l] = "GPT_OK"
                            /\ l \in cut \/ (SecUsable(l) /\ secArr[l] = "normal")

(* The disks the loop has left are prepared, unless an error was recorded.  *)
Progress ==
  /\ pc = "loop" /\ ~isError => \A l \in Luns \ todo : Prepared(stage, l)
  /\ pc \notin {"idle", "loop"} /\ ~isError =>
       \A l \in Luns \ (todo \cup {cur}) : Prepared(stage, l)
  /\ granted # NoStage => \A l \in Luns : Prepared(granted, l)

(* Where the program is, and what its earlier steps found on this disk.     *)
Control ==
  /\ pc # "idle" => stage \in Stages /\ granted = NoStage /\ writing = NoTarget
  /\ pc # "idle" /\ stage = UPDATE_BACKUP => MainIntact
  /\ pc # "idle" /\ stage = UPDATE_FINALIZE => BakIntact
  /\ writing # NoTarget => granted \in {UPDATE_MAIN, UPDATE_BACKUP}
  /\ writing = Xbl => UsesXbl
  /\ pc = "bootlun" => stage # UPDATE_FINALIZE
  /\ pc \in {"chain_hdr", "chain_arr", "chain_end"} => stage # UPDATE_BACKUP
  /\ pc = "primary" => stage # UPDATE_FINALIZE
  /\ pc = "secondary" => stage # UPDATE_MAIN

AtDisk ==
  /\ stage = UPDATE_MAIN
       /\ pc \in {"bootlun", "chain_hdr", "chain_arr", "chain_end", "primary"} =>
       /\ primHdr[cur] = "GPT_OK" /\ secHdr[cur] = "GPT_OK"
       /\ pc \in {"chain_arr", "chain_end", "primary"} =>
            primArrOk[cur] /\ cur \in HasBackup /\ secCrc[cur] = "swapped"
       /\ pc = "chain_end" => cur \notin cut /\ secArr[cur] \in {"swapped", "torn"}
       /\ pc = "primary" => secArr[cur] = "swapped" \/ cur \in cut
  /\ stage = UPDATE_BACKUP =>
       /\ pc \in {"bootlun", "primary"} => BadSig(primHdr[cur])
       /\ pc = "secondary" => PrimUsable(cur)
  /\ stage = UPDATE_FINALIZE
       /\ pc \in {"chain_hdr", "chain_arr", "chain_end", "secondary"} =>
       /\ BadSig(secHdr[cur])
       /\ pc \in {"chain_arr", "chain_end", "secondary"} => secCrc[cur] = "normal"
       /\ pc = "chain_end" => cur \notin cut /\ secArr[cur] \in {"normal", "torn"}
       /\ pc = "secondary" => secArr[cur] = "normal" \/ cur \in cut

(* The backup boot LUN is only enabled while some disk still has, or has    *)
(* again, a good secondary GPT.                                             *)
BootLunInv ==
  /\ ~UsesXbl => bootLun = "main"
  /\ bootLun = "bak" => \E l \in Luns : ~BadSig(secHdr[l])
  /\ stage = UPDATE_BACKUP /\ pc \in {"primary", "secondary"} => bootLun = "main"

IInv == /\ TypeOK /\ GptPair /\ TornHidden /\ Progress
        /\ Control /\ AtDisk /\ BootLunInv

-----------------------------------------------------------------------------
(* What the update promises, disk by disk (SafeUpdate).                     *)
Safe == INSTANCE SafeUpdate WITH
          Disks  <- HasBackup,
          source <- [l \in HasBackup |-> IF Selected(l) = "none" THEN "bak" ELSE Selected(l)],
          copy   <- [l \in HasBackup |-> [c \in Chains |-> image[c][l]]],
          cut    <- cut \cap HasBackup,
          lost   <- {l \in HasBackup : Selected(l) = "none"}

SafeUpdateSpec == Safe!Spec

=============================================================================
