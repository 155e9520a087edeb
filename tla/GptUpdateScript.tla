--------------------------- MODULE GptUpdateScript ---------------------------
(***************************************************************************)
(* A caller of prepare_boot_update that survives power loss: it runs the    *)
(* three stages in order, overwrites a chain when its stage returned 0,     *)
(* passes over a stage that failed, and after a crash, or when the last     *)
(* stage failed, starts again with the first.  The caller is external (the  *)
(* updater in recovery); what is asked of the code is that its notion of    *)
(* "stage already set" makes such a caller reach the end.                   *)
(***************************************************************************)
EXTENDS GptUpdate

VARIABLES
  step,  \* the stage the script is at
  mode,  \* "call" the stage, "wait" for it, "write" the images, or "done"
  left   \* the images still to be written in this stage

scriptVars == <<vars, step, mode, left>>

ScriptInit ==
  /\ Init
  /\ \A l \in Luns : PrimUsable(l) /\ SecUsable(l)
  /\ step = UPDATE_MAIN /\ mode = "call" /\ left = {}

Restart == step' = UPDATE_MAIN /\ mode' = "call"

Call ==
  /\ mode = "call"
  /\ \/ CallPrepare(step) /\ mode' = "wait" /\ UNCHANGED step
     \/ (* the chain of an interrupted session is still torn: write it again *)
        /\ (step = UPDATE_BACKUP /\ ~MainIntact) \/ (step = UPDATE_FINALIZE /\ ~BakIntact)
        /\ Restart /\ UNCHANGED vars
  /\ UNCHANGED left

Advance == step' = step + 1 /\ mode' = "call"

Answer ==
  /\ mode = "wait" /\ pc = "idle"
  /\ \/ /\ granted = step /\ step # UPDATE_FINALIZE
        /\ mode' = "write" /\ left' = Luns \cup (IF UsesXbl THEN {Xbl} ELSE {})
        /\ UNCHANGED step
     \/ /\ granted = NoStage /\ step # UPDATE_FINALIZE
        /\ Advance /\ UNCHANGED left
     \/ /\ step = UPDATE_FINALIZE /\ granted = NoStage
        /\ Restart /\ UNCHANGED left
     \/ /\ step = UPDATE_FINALIZE /\ granted = step
        /\ mode' = "done" /\ UNCHANGED <<step, left>>
  /\ UNCHANGED vars

WriteImages ==
  /\ mode = "write"
  /\ \/ \E t \in left : BeginWrite(t) /\ left' = left \ {t} /\ UNCHANGED <<step, mode>>
     \/ EndWrite /\ UNCHANGED <<step, mode, left>>
     \/ left = {} /\ writing = NoTarget /\ Advance /\ UNCHANGED <<vars, left>>

PowerLoss ==
  /\ mode # "done"
  /\ Crash /\ Restart /\ left' = {}

Run == \/ Call \/ Answer \/ WriteImages
       \/ Prepare /\ UNCHANGED <<step, mode, left>>

ScriptNext == Run \/ PowerLoss

(* The script and the code it calls are one thread that keeps running.      *)
ScriptSpec == ScriptInit /\ [][ScriptNext]_scriptVars /\ WF_scriptVars(Run)

-----------------------------------------------------------------------------
(* After finitely many crashes, wherever they fell, the script comes to its *)
(* end: no disk is left in a stage that neither "already set" nor the       *)
(* expected stage matches (prepare_partitions, the checks before its switch). *)
Completes == <>(mode = "done")

(* And then every image of both chains is the new one, both GPTs of every   *)
(* disk are good, but for a secondary array that was cut short unnoticed,   *)
(* and the primary boot LUN is enabled.                                     *)
DoneMeansUpdated ==
  mode = "done" =>
    /\ \A l \in Luns, c \in Chains : image[c][l] = "new"
    /\ \A l \in Luns : PrimUsable(l) /\ secHdr[l] = "GPT_OK"
                     /\ (l \in cut \/ (SecUsable(l) /\ secArr[l] = "normal"))
    /\ UsesXbl => bootLun = "main" /\ \A c \in Chains : xbl[c] = "new"

(* Why it completes: between two power losses the script only gets nearer   *)
(* to its end.  No stage is called twice, each disk and each image is dealt *)
(* with once, and the last stage does not fail, because no disk is left in  *)
(* a stage that none of the following calls accepts (prepare_partitions).   *)
ModeRank == [call |-> 0, wait |-> 1, write |-> 2, done |-> 3]
PcRank   == [inspect |-> 0, bootlun |-> 1, chain_hdr |-> 2, chain_arr |-> 3, chain_end |-> 4,
             primary |-> 5, secondary |-> 6, loop |-> 7, idle |-> 8]

Onward ==
  \/ step' > step
  \/ step' = step /\ ModeRank[mode'] > ModeRank[mode]
  \/ /\ step' = step /\ mode' = mode
     /\ \/ mode = "wait" /\ todo' \subseteq todo /\ todo' # todo
        \/ mode = "wait" /\ todo' = todo /\ PcRank[pc'] > PcRank[pc]
        \/ mode = "write" /\ left' \subseteq left /\ left' # left
        \/ mode = "write" /\ left' = left /\ writing # NoTarget /\ writing' = NoTarget

NeverBack == [][Onward \/ crashes' > crashes]_scriptVars

=============================================================================
