--------------------------- MODULE GptUpdateProofs ---------------------------
(***************************************************************************)
(* Proofs about GptUpdate, for every set of disks and any number of crashes *)
(* and I/O errors: the inductive invariant IInv, what it implies, and that  *)
(* the update implements SafeUpdate.                                        *)
(***************************************************************************)
EXTENDS GptUpdateScript, TLAPS

(* Every step is one of the actions, or leaves everything unchanged.        *)
LEMMA StepCases ==
  ASSUME [Next]_vars
  PROVE  \/ \E s \in Stages : CallPrepare(s)
         \/ \E t \in Luns \cup {Xbl} : BeginWrite(t)
         \/ EndWrite
         \/ \E l \in Luns : NextLun(l)
         \/ Inspect \/ SetBootLun
         \/ SetChainHeader \/ SetChainArrayBegin \/ SetChainArrayEnd
         \/ SetPrimary \/ SetSecondary
         \/ Return \/ ReadError \/ Crash
         \/ UNCHANGED vars
  BY DEF Next, Prepare

(* Two equal GPTs, one of them perhaps damaged, and nothing running.        *)
LEMMA InitInv == Init => IInv
<1> SUFFICES ASSUME Init PROVE IInv
  OBVIOUS
<1> USE GptAssumption
<1>1. TypeOK
  <2>1. BoundsOK
    BY DEF Init, BoundsOK
  <2>2. primArrOk \in [Luns -> BOOLEAN]
    BY DEF Init
  <2>3. secHdr \in [Luns -> HeaderState] /\ primHdr \in [Luns -> HeaderState]
    BY DEF Init, HeaderState
  <2>4. secArr \in [Luns -> Entries \cup {"torn"}] /\ secCrc \in [Luns -> Entries]
    BY DEF Init, Entries
  <2> QED
    BY <2>1, <2>2, <2>3, <2>4 DEF Init, TypeOK, Image, Chains, Stages, NoTarget, NoStage
<1>2. GptPair
  BY DEF Init, GptPair, BadSig, PrimUsable, SecUsable
<1>3. TornHidden
  BY DEF Init, TornHidden, Chains
<1>4. Progress
  BY DEF Init, Progress
<1>5. Control /\ AtDisk /\ BootLunInv
  BY DEF Init, Control, AtDisk, BootLunInv, NoTarget, NoStage, Xbl, UPDATE_MAIN,
     UPDATE_BACKUP, UPDATE_FINALIZE
<1> QED
  BY <1>1, <1>2, <1>3, <1>4, <1>5 DEF IInv

(* The number of crashes and of I/O errors stays within its bound.          *)
LEMMA BoundsStep == BoundsOK /\ [Next]_vars => BoundsOK'
<1> SUFFICES ASSUME BoundsOK, [Next]_vars PROVE BoundsOK'
  OBVIOUS
<1> USE GptAssumption DEF BoundsOK
<1>1. CASE UNCHANGED <<crashes, ioErrors>>
  BY <1>1
<1>2. CASE IoFault
  BY <1>2 DEF IoFault
<1>3. CASE Crash
  BY <1>3 DEF Crash
<1>4. UNCHANGED <<crashes, ioErrors>> \/ IoFault \/ Crash
  BY StepCases DEF CallPrepare, BeginWrite, EndWrite, NextLun, Inspect, SetBootLun,
     BootLunFor, AfterBootLun, SetChainHeader, SetChainArrayBegin, SetChainArrayEnd,
     SetPrimary, SetSecondary, SecondaryState, Return, Outcome, ReadError, Continue,
     Reject, vars, faults
<1> QED
  BY <1>1, <1>2, <1>3, <1>4

(* The types are preserved by every step.                                   *)
LEMMA TypeStep == TypeOK /\ [Next]_vars => TypeOK'
<1> SUFFICES ASSUME TypeOK, [Next]_vars PROVE TypeOK'
  OBVIOUS
<1>0. BoundsOK'
  BY BoundsStep DEF TypeOK
<1> USE <1>0, GptAssumption DEF TypeOK, HeaderState, Entries, Image, Chains, Stages,
   NoStage, UPDATE_MAIN, UPDATE_BACKUP, UPDATE_FINALIZE, vars, gpt, images, caller,
   Running, Continue, Reject, IoFault
<1>1. ASSUME NEW s \in Stages, CallPrepare(s) PROVE TypeOK'
  BY <1>1 DEF CallPrepare
<1>2. ASSUME NEW t \in Luns \cup {Xbl}, BeginWrite(t) PROVE TypeOK'
  BY <1>2 DEF BeginWrite, Put, Freed
<1>3. CASE EndWrite
  <2>1. writing \in Luns \cup {Xbl}
    BY <1>3 DEF EndWrite
  <2> QED
    BY <1>3, <2>1 DEF EndWrite, Put, Freed
<1>4. ASSUME NEW l \in Luns, NextLun(l) PROVE TypeOK'
  BY <1>4 DEF NextLun
<1>5. CASE Inspect
  BY <1>5 DEF Inspect
<1>6. CASE SetBootLun
  BY <1>6 DEF SetBootLun, BootLunFor, AfterBootLun
<1>7. CASE SetChainHeader
  BY <1>7 DEF SetChainHeader, Chain
<1>8. CASE SetChainArrayBegin
  BY <1>8 DEF SetChainArrayBegin, Chain
<1>9. CASE SetChainArrayEnd
  BY <1>9 DEF SetChainArrayEnd, AfterChain, Chain
<1>10. CASE SetPrimary
  BY <1>10 DEF SetPrimary
<1>11. CASE SetSecondary
  BY <1>11 DEF SetSecondary, SecondaryState
<1>12. CASE Return
  BY <1>12 DEF Return, Outcome
<1>13. CASE ReadError
  BY <1>13 DEF ReadError
<1>14. CASE Crash
  BY <1>14 DEF Crash, NoTarget
<1>15. CASE UNCHANGED vars
  BY <1>15
<1> QED
  BY <1>1, <1>2, <1>3, <1>4, <1>5, <1>6, <1>7, <1>8, <1>9, <1>10, <1>11, <1>12,
     <1>13, <1>14, <1>15, StepCases

(* Every variable keeps its type.                                           *)
THEOREM TypeCorrect == Spec => []TypeOK
<1>1. Init => TypeOK
  BY InitInv DEF IInv
<1> QED
  BY <1>1, TypeStep, PTL DEF Spec

-----------------------------------------------------------------------------
(* The steps that write to a GPT, and what the others leave alone.          *)
LEMMA GptSteps ==
  ASSUME [Next]_vars
  PROVE  \/ SetChainHeader \/ SetChainArrayBegin \/ SetChainArrayEnd
         \/ SetPrimary \/ SetSecondary
         \/ UNCHANGED gpt
  BY StepCases DEF CallPrepare, BeginWrite, EndWrite, NextLun, Inspect, SetBootLun,
     BootLunFor, AfterBootLun, Return, Outcome, ReadError, Crash, vars

(* The steps that write an image, and what the others leave alone.          *)
LEMMA ImageSteps ==
  ASSUME [Next]_vars
  PROVE  \/ \E t \in Luns \cup {Xbl} : BeginWrite(t)
         \/ EndWrite
         \/ UNCHANGED images
  BY StepCases DEF CallPrepare, NextLun, Inspect, SetBootLun, BootLunFor, AfterBootLun,
     SetChainHeader, SetChainArrayBegin, SetChainArrayEnd, SetPrimary, SetSecondary,
     SecondaryState, Return, Outcome, ReadError, Crash, vars

(* Each part of IInv is preserved: first what the two headers of a disk say. *)
LEMMA GptPairStep == IInv /\ [Next]_vars => GptPair'
<1> SUFFICES ASSUME IInv, [Next]_vars PROVE GptPair'
  OBVIOUS
<1> USE DEF IInv, GptPair, BadSig, PrimUsable, SecUsable
<1>1. CASE SetChainHeader
  BY <1>1 DEF SetChainHeader, TypeOK, Chain, AtDisk, Control, Stages
<1>2. CASE SetChainArrayBegin
  BY <1>2 DEF SetChainArrayBegin, TypeOK, Chain, AtDisk, Control, Stages
<1>3. CASE SetChainArrayEnd
  <2> SUFFICES ASSUME NEW l \in Luns
               PROVE  /\ BadSig(primHdr[l])' =>
                            /\ primArrOk'[l] /\ secHdr'[l] = "GPT_OK" /\ l \in HasBackup
                            /\ \/ SecUsable(l)' /\ secArr'[l] = "swapped"
                               \/ l \in cut'
                      /\ BadSig(secHdr[l])' => PrimUsable(l)'
                      /\ BadSig(primHdr[l])' \/ PrimUsable(l)' \/ SecUsable(l)'
                      /\ ~PrimUsable(l)' /\ ~BadSig(primHdr[l])' => secArr'[l] = "normal"
                      /\ l \in cut' => secArr'[l] = "torn"
    BY DEF GptPair
  <2>1. UNCHANGED <<primHdr, primArrOk, secHdr, secCrc>>
    BY <1>3 DEF SetChainArrayEnd
  <2>2. l # cur => secArr'[l] = secArr[l] /\ (l \in cut' <=> l \in cut)
    BY <1>3 DEF SetChainArrayEnd, TypeOK
  <2>3. CASE l # cur
    BY <2>1, <2>2, <2>3
  <2>4. CASE l = cur
    <3>1. PrimUsable(cur) /\ ~BadSig(primHdr[cur]) /\ cur \notin cut
      BY <1>3 DEF SetChainArrayEnd, TypeOK, AtDisk, Control, Stages
    <3>2. cur \in cut' => secArr'[cur] = "torn"
      BY <1>3, <3>1 DEF SetChainArrayEnd, TypeOK, Entries, Chain, AtDisk, Control, Stages
    <3> QED
      BY <2>1, <2>4, <3>1, <3>2
  <2> QED
    BY <2>3, <2>4
<1>4. CASE SetPrimary
  BY <1>4 DEF SetPrimary, TypeOK, AtDisk, Control, Stages
<1>5. CASE SetSecondary
  BY <1>5 DEF SetSecondary, SecondaryState, TypeOK, AtDisk, Control, Stages
<1>6. CASE UNCHANGED gpt
  BY <1>6 DEF gpt
<1> QED
  BY <1>1, <1>2, <1>3, <1>4, <1>5, <1>6, GptSteps

(* A torn image stays hidden until the caller says that it is complete.     *)
LEMMA TornHiddenStep == IInv /\ [Next]_vars => TornHidden'
<1> SUFFICES ASSUME IInv, [Next]_vars PROVE TornHidden'
  OBVIOUS
<1> USE GptAssumption DEF IInv, TornHidden, BadSig
<1>1. CASE UNCHANGED images /\ SetPrimary
  BY <1>1 DEF SetPrimary, images, TypeOK, Control, MainIntact, Stages
<1>2. CASE UNCHANGED images /\ SetSecondary
  BY <1>2 DEF SetSecondary, SecondaryState, images, TypeOK, Control, BakIntact, Stages
<1>3. CASE UNCHANGED <<images, primHdr, secHdr>>
  BY <1>3 DEF images
<1>4. ASSUME NEW t \in Luns \cup {Xbl}, BeginWrite(t) PROVE TornHidden'
  BY <1>4 DEF BeginWrite, Put, Freed, TypeOK, Chains, Progress, Prepared, gpt, NoStage,
     UPDATE_MAIN, UPDATE_BACKUP, UPDATE_FINALIZE
<1>5. CASE EndWrite
  BY <1>5 DEF EndWrite, Put, Freed, TypeOK, Chains, gpt
<1>6. \/ UNCHANGED images /\ (SetPrimary \/ SetSecondary)
      \/ UNCHANGED <<images, primHdr, secHdr>>
      \/ \E t \in Luns \cup {Xbl} : BeginWrite(t)
      \/ EndWrite
  BY ImageSteps, GptSteps DEF SetChainHeader, SetChainArrayBegin, SetChainArrayEnd, gpt,
     SetPrimary, SetSecondary, SecondaryState
<1> QED
  BY <1>1, <1>2, <1>3, <1>4, <1>5, <1>6

(* The boot LUN goes back to A before the last secondary GPT is corrupted.  *)
LEMMA BootLunStep == IInv /\ [Next]_vars => BootLunInv'
<1> SUFFICES ASSUME IInv, [Next]_vars PROVE BootLunInv'
  OBVIOUS
<1> USE GptAssumption DEF IInv, BootLunInv, BadSig
<1>1. CASE SetBootLun
  BY <1>1 DEF SetBootLun, BootLunFor, AfterBootLun, TypeOK, gpt, Running, Continue,
     IoFault, AtDisk, Stages
<1>2. CASE SetSecondary
  BY <1>2 DEF SetSecondary, SecondaryState, TypeOK, Running, Continue, IoFault, Control,
     Stages
<1>4. CASE SetPrimary
  BY <1>4 DEF SetPrimary, Running, Continue, IoFault
<1>5. CASE Inspect
  BY <1>5 DEF Inspect, Running, Continue, Reject, gpt, UPDATE_MAIN, UPDATE_BACKUP,
     UPDATE_FINALIZE
<1>6. CASE SetChainHeader \/ SetChainArrayBegin \/ SetChainArrayEnd
  BY <1>6 DEF SetChainHeader, SetChainArrayBegin, SetChainArrayEnd, Running, Continue,
     Reject, IoFault, Control, UPDATE_MAIN, UPDATE_BACKUP, UPDATE_FINALIZE
<1>7. ASSUME NEW s \in Stages, CallPrepare(s) PROVE BootLunInv'
  BY <1>7 DEF CallPrepare, gpt
<1>8. CASE (\E t \in Luns \cup {Xbl} : BeginWrite(t)) \/ EndWrite
  BY <1>8 DEF BeginWrite, EndWrite, gpt
<1>9. CASE (\E l \in Luns : NextLun(l)) \/ Return \/ ReadError \/ Crash
  BY <1>9 DEF NextLun, Return, Outcome, ReadError, Crash, IoFault, gpt
<1> QED
  BY <1>1, <1>2, <1>4, <1>5, <1>6, <1>7, <1>8, <1>9, StepCases DEF vars, gpt

(* Which stages reach which step, and what holds while a call runs.         *)
LEMMA ControlStep == IInv /\ [Next]_vars => Control'
<1> SUFFICES ASSUME IInv, [Next]_vars PROVE Control'
  OBVIOUS
<1> USE DEF IInv, Control, MainIntact, BakIntact, Stages, NoStage, UPDATE_MAIN,
   UPDATE_BACKUP, UPDATE_FINALIZE
<1>1. ASSUME NEW s \in Stages, CallPrepare(s) PROVE Control'
  BY <1>1 DEF CallPrepare, images
<1>2. ASSUME NEW t \in Luns \cup {Xbl}, BeginWrite(t) PROVE Control'
  BY <1>2 DEF BeginWrite
<1>3. CASE EndWrite
  BY <1>3 DEF EndWrite, NoTarget, Xbl
<1>4. ASSUME NEW l \in Luns, NextLun(l) PROVE Control'
  BY <1>4 DEF NextLun, images, caller
<1>5. CASE Inspect
  BY <1>5 DEF Inspect, Running, Continue, Reject, images, caller
<1>6. CASE SetBootLun
  BY <1>6 DEF SetBootLun, BootLunFor, AfterBootLun, Running, Continue, IoFault, images,
     caller
<1>7. CASE SetChainHeader
  BY <1>7 DEF SetChainHeader, Running, Continue, Reject, IoFault, images, caller
<1>8. CASE SetChainArrayBegin \/ SetChainArrayEnd
  BY <1>8 DEF SetChainArrayBegin, SetChainArrayEnd, AfterChain, Running, Continue,
     IoFault, images, caller
<1>9. CASE SetPrimary \/ SetSecondary
  BY <1>9 DEF SetPrimary, SetSecondary, SecondaryState, Running, Continue, IoFault,
     images, caller
<1>10. CASE Return \/ ReadError \/ Crash
  BY <1>10 DEF Return, Outcome, ReadError, Crash, Running, IoFault, images, caller,
     NoTarget, Xbl
<1>11. CASE UNCHANGED vars
  BY <1>11 DEF vars, images, caller
<1> QED
  BY <1>1, <1>2, <1>3, <1>4, <1>5, <1>6, <1>7, <1>8, <1>9, <1>10, <1>11, StepCases

(* What prepare_partitions established about its disk stays true.           *)
LEMMA AtDiskStep == IInv /\ [Next]_vars => AtDisk'
<1> SUFFICES ASSUME IInv, [Next]_vars PROVE AtDisk'
  OBVIOUS
<1> USE DEF IInv, AtDisk, BadSig, PrimUsable, Stages, NoStage, UPDATE_MAIN, UPDATE_BACKUP,
   UPDATE_FINALIZE
<1>1. CASE pc' \in {"idle", "loop", "inspect"}
  BY <1>1
<1>2. CASE Inspect
  BY <1>2 DEF Inspect, Unacceptable, AlreadySet, InternalStage, TypeOK, HeaderState,
     Running, Continue, Reject, gpt
<1>3. CASE SetBootLun
  BY <1>3 DEF SetBootLun, BootLunFor, AfterBootLun, Control, Running, Continue, IoFault,
     gpt
<1>4. CASE SetChainHeader
  BY <1>4 DEF SetChainHeader, Chain, TypeOK, Running, Continue, Reject, IoFault
<1>5. CASE SetChainArrayBegin
  BY <1>5 DEF SetChainArrayBegin, Chain, TypeOK, Running, Continue, IoFault
<1>6. CASE SetChainArrayEnd
  BY <1>6 DEF SetChainArrayEnd, AfterChain, Chain, Control, TypeOK, Running, Continue,
     IoFault
<1>7. CASE SetPrimary
  BY <1>7 DEF SetPrimary, Control, GptPair, TypeOK, Running, Continue, IoFault
<1>8. CASE UNCHANGED <<gpt, stage, cur, pc>>
  BY <1>8 DEF gpt
<1>9. \/ pc' \in {"idle", "loop", "inspect"}
      \/ Inspect \/ SetBootLun \/ SetChainHeader \/ SetChainArrayBegin
      \/ SetChainArrayEnd \/ SetPrimary
      \/ UNCHANGED <<gpt, stage, cur, pc>>
  BY StepCases DEF CallPrepare, BeginWrite, EndWrite, NextLun, Return, Outcome, ReadError,
     Crash, SetSecondary, SecondaryState, Continue, IoFault, vars
<1> QED
  BY <1>1, <1>2, <1>3, <1>4, <1>5, <1>6, <1>7, <1>8, <1>9

(* One disk at a time: the step of a disk that succeeds leaves it prepared. *)
LEMMA ProgressStep == IInv /\ [Next]_vars => Progress'
<1> SUFFICES ASSUME IInv, [Next]_vars PROVE Progress'
  OBVIOUS
<1> USE DEF IInv, Progress, NoStage, Stages, UPDATE_MAIN, UPDATE_BACKUP, UPDATE_FINALIZE
<1>1. ASSUME NEW s \in Stages, CallPrepare(s) PROVE Progress'
  BY <1>1 DEF CallPrepare
<1>2. CASE (\E t \in Luns \cup {Xbl} : BeginWrite(t)) \/ EndWrite \/ UNCHANGED vars
  BY <1>2 DEF BeginWrite, EndWrite, vars, gpt, caller, Prepared, PrimUsable, SecUsable
<1>3. ASSUME NEW l \in Luns, NextLun(l) PROVE Progress'
  BY <1>3 DEF NextLun, gpt, caller, Prepared, PrimUsable, SecUsable, Control
<1>4. CASE Return
  BY <1>4 DEF Return, Outcome, gpt, Prepared, PrimUsable, SecUsable, Control
<1>5. CASE ReadError \/ Crash
  BY <1>5 DEF ReadError, Crash, IoFault, Running, caller, Control
<1>6. CASE Inspect
  <2>1. CASE pc' = "loop" /\ ~isError'
    <3>1. Prepared(stage, cur)'
      BY <1>6, <2>1 DEF Inspect, Continue, Reject, Unacceptable, AlreadySet,
         InternalStage, TypeOK, HeaderState, Running, gpt, Prepared, BadSig
    <3> QED
      BY <1>6, <2>1, <3>1 DEF Inspect, Continue, Reject, Running, caller, gpt, Control,
         Prepared, PrimUsable, SecUsable
  <2>2. CASE ~(pc' = "loop" /\ ~isError')
    BY <1>6, <2>2 DEF Inspect, Continue, Reject, Running, caller, gpt, Control, Prepared,
       PrimUsable, SecUsable
  <2> QED
    BY <2>1, <2>2
<1>7. CASE SetBootLun
  BY <1>7 DEF SetBootLun, BootLunFor, AfterBootLun, Continue, IoFault, Running, caller,
     gpt, Control, Prepared, PrimUsable, SecUsable
<1>8. CASE SetChainHeader
  BY <1>8 DEF SetChainHeader, Continue, Reject, IoFault, Running, caller, Control,
     Prepared, TypeOK, PrimUsable, SecUsable, Chain
<1>9. CASE SetChainArrayBegin
  BY <1>9 DEF SetChainArrayBegin, Continue, IoFault, Running, caller, Control, Prepared,
     TypeOK, PrimUsable, SecUsable, Chain
<1>10. CASE SetChainArrayEnd
  BY <1>10 DEF SetChainArrayEnd, AfterChain, Continue, IoFault, Running, caller, Control,
     Prepared, TypeOK, PrimUsable, SecUsable, Chain
<1>11. CASE SetPrimary
  BY <1>11 DEF SetPrimary, Continue, IoFault, Running, caller, Control, Prepared, TypeOK,
     PrimUsable, SecUsable, BadSig
<1>12. CASE SetSecondary
  BY <1>12 DEF SetSecondary, SecondaryState, Continue, IoFault, Running, caller, Control,
     Prepared, TypeOK, PrimUsable, SecUsable, BadSig, AtDisk, GptPair
<1> QED
  BY <1>1, <1>2, <1>3, <1>4, <1>5, <1>6, <1>7, <1>8, <1>9, <1>10, <1>11, <1>12, StepCases

LEMMA InvStep == IInv /\ [Next]_vars => IInv'
  BY TypeStep, GptPairStep, TornHiddenStep, ProgressStep, ControlStep, AtDiskStep,
     BootLunStep DEF IInv

(* The inductive invariant holds in every reachable state.                  *)
THEOREM Inductive == Spec => []IInv
  BY InitInv, InvStep, PTL DEF Spec

-----------------------------------------------------------------------------
(* A disk with backups always boots from a usable GPT and complete images.  *)
THEOREM AlwaysBootable == Spec => []Bootable
<1>1. IInv => Bootable
  BY GptAssumption DEF IInv, Bootable, Lost, Selected, Chains, GptPair, TornHidden, TypeOK,
     BadSig, PrimUsable, SecUsable, Entries
<1> QED
  BY Inductive, <1>1, PTL

(* A stage that returned 0 prepared every disk of the list.                 *)
THEOREM SuccessMeansPrepared == Spec => []StagesDeliver
<1>1. IInv => StagesDeliver
  BY GptAssumption DEF IInv, StagesDeliver, PreparedEverywhere, Lost, FinalizeRestores, Progress,
     Prepared, TypeOK, Entries,
     GptPair, BadSig, Selected, PrimUsable, SecUsable, NoStage, UPDATE_MAIN,
     UPDATE_BACKUP, UPDATE_FINALIZE
<1> QED
  BY Inductive, <1>1, PTL

(* The backup xbl is never overwritten while its LUN boots.                 *)
THEOREM BackupXblSafe == Spec => []XblBackupSafe
<1>1. IInv => XblBackupSafe
  BY GptAssumption DEF IInv, XblBackupSafe, Progress, Prepared, TornHidden, BootLunInv,
     TypeOK, Chains, NoStage, UPDATE_MAIN, UPDATE_BACKUP, UPDATE_FINALIZE
<1> QED
  BY Inductive, <1>1, PTL

-----------------------------------------------------------------------------
(* The update implements SafeUpdate: per disk, it only ever overwrites the  *)
(* chain that is not booted and only ever turns to a complete one.          *)

Source   == [l \in HasBackup |-> IF Selected(l) = "none" THEN "bak" ELSE Selected(l)]
Copy     == [l \in HasBackup |-> [c \in Chains |-> image[c][l]]]
CutOnes  == cut \cap HasBackup
LostOnes == {l \in HasBackup : Selected(l) = "none"}
Mapped   == <<Source, Copy, CutOnes, LostOnes>>

(* IInv says in particular which chain each disk boots.                     *)
LEMMA BootsIntact ==
  ASSUME IInv
  PROVE  Bootable /\ PreparedEverywhere
  BY GptAssumption DEF IInv, Bootable, Lost, PreparedEverywhere, Selected, Chains, GptPair,
     TornHidden, TypeOK, BadSig, PrimUsable, SecUsable, Entries, Progress, Prepared,
     NoStage, UPDATE_MAIN, UPDATE_BACKUP, UPDATE_FINALIZE

(* The primary signature says which copy a disk boots, and the short writes *)
(* whether it does.                                                         *)
LEMMA SignatureDecides ==
  ASSUME IInv
  PROVE  /\ Source = [l \in HasBackup |-> IF BadSig(primHdr[l]) THEN "bak" ELSE "main"]
         /\ LostOnes = {l \in HasBackup : BadSig(primHdr[l]) /\ l \in cut}
<1> SUFFICES ASSUME NEW l \in HasBackup
             PROVE  Selected(l) = IF BadSig(primHdr[l])
                                    THEN IF l \in cut THEN "none" ELSE "bak"
                                    ELSE "main"
  BY DEF Source, LostOnes
<1> QED
  BY GptAssumption DEF IInv, TypeOK, GptPair, Selected, PrimUsable, SecUsable, BadSig,
     Entries

(* The same of the state after a step.                                      *)
LEMMA SignatureDecidesNext ==
  ASSUME IInv'
  PROVE  /\ Source' = [l \in HasBackup |-> IF BadSig(primHdr'[l]) THEN "bak" ELSE "main"]
         /\ LostOnes' = {l \in HasBackup : BadSig(primHdr'[l]) /\ l \in cut'}
<1> SUFFICES ASSUME NEW l \in HasBackup
             PROVE  Selected(l)' = IF BadSig(primHdr'[l])
                                    THEN IF l \in cut' THEN "none" ELSE "bak"
                                    ELSE "main"
  BY DEF Source, LostOnes
<1> QED
  BY GptAssumption DEF IInv, TypeOK, GptPair, Selected, PrimUsable, SecUsable, BadSig,
     Entries

(* Writing the entries records a choice, or fails to without notice.        *)
LEMMA RecordRefined ==
  ASSUME IInv, IInv', SetChainArrayBegin \/ SetChainArrayEnd
  PROVE  UNCHANGED Mapped \/ \E d \in HasBackup : Safe!Record(d)
<1>1. UNCHANGED Copy
  BY DEF SetChainArrayBegin, SetChainArrayEnd, Copy, images
<1>2. ~BadSig(primHdr[cur])
  BY DEF IInv, TypeOK, AtDisk, Control, GptPair, PrimUsable, BadSig, Stages,
     SetChainArrayBegin, SetChainArrayEnd
<1>3. UNCHANGED primHdr /\ cut' \in {cut, cut \cup {cur}, cut \ {cur}}
  BY DEF SetChainArrayBegin, SetChainArrayEnd
<1>4. UNCHANGED <<Source, LostOnes>>
  BY <1>2, <1>3, SignatureDecides, SignatureDecidesNext
<1>5. CASE cur \in HasBackup
  <2>1. cur \notin LostOnes
    BY <1>2, SignatureDecides
  <2>2. CutOnes' \in {CutOnes, CutOnes \cup {cur}, CutOnes \ {cur}}
    BY <1>3, <1>5 DEF CutOnes
  <2> QED
    BY <1>1, <1>4, <1>5, <2>1, <2>2 DEF Safe!Record, Source, Copy, CutOnes, LostOnes, Mapped
<1>6. CASE cur \notin HasBackup
  BY <1>1, <1>3, <1>4, <1>6 DEF CutOnes, Mapped
<1> QED
  BY <1>5, <1>6

(* Writing the primary header switches one disk to a complete copy.         *)
LEMMA SwitchRefined ==
  ASSUME IInv, IInv', SetPrimary
  PROVE  UNCHANGED Mapped \/ \E d \in HasBackup : Safe!Switch(d)
<1>1. UNCHANGED <<Copy, cut, CutOnes, images>>
  BY DEF SetPrimary, Copy, CutOnes, images
<1>2. \A l \in Luns \ {cur} : primHdr'[l] = primHdr[l]
  BY DEF SetPrimary, IInv, TypeOK
<1>3. CASE cur \in HasBackup /\ BadSig(primHdr'[cur]) # BadSig(primHdr[cur])
  <2>1. Source[cur] = (IF BadSig(primHdr[cur]) THEN "bak" ELSE "main")
    BY <1>3, SignatureDecides
  <2>2. Source'[cur] = (IF BadSig(primHdr'[cur]) THEN "bak" ELSE "main")
    BY <1>3, SignatureDecidesNext
  <2>3. Source'[cur] = Safe!Other(Source[cur])
    BY <1>3, <2>1, <2>2 DEF Safe!Other, BadSig
  <2>4. Copy[cur][Safe!Other(Source[cur])] # "torn"
    <3>1. image[Source'[cur]][cur] # "torn"
      BY <1>1, <1>3, <2>2, GptAssumption DEF IInv, GptPair, TornHidden, BadSig, images
    <3> QED
      BY <1>3, <2>2, <2>3, <3>1 DEF Copy, Chains
  <2>5. Source' = [Source EXCEPT ![cur] = Safe!Other(@)]
    <3>1. \A l \in HasBackup \ {cur} : Source'[l] = Source[l]
      BY <1>2, SignatureDecides, SignatureDecidesNext, GptAssumption
    <3> QED
      BY <1>3, <2>3, <3>1 DEF Source
  <2>6. LostOnes' = LostOnes \ {cur} \/ (cur \in CutOnes /\ LostOnes' = LostOnes \cup {cur})
    <3>1. \A l \in HasBackup \ {cur} : l \in LostOnes' <=> l \in LostOnes
      BY <1>1, <1>2, SignatureDecides, SignatureDecidesNext, GptAssumption
    <3>2. cur \in LostOnes' => cur \in CutOnes
      BY <1>1, SignatureDecidesNext DEF CutOnes
    <3>3. LostOnes \subseteq HasBackup /\ LostOnes' \subseteq HasBackup
      BY DEF LostOnes
    <3> QED
      BY <1>3, <3>1, <3>2, <3>3
  <2> QED
    BY <1>1, <1>3, <2>4, <2>5, <2>6 DEF Safe!Switch, Source, Copy, CutOnes, LostOnes
<1>4. CASE cur \notin HasBackup \/ BadSig(primHdr'[cur]) = BadSig(primHdr[cur])
  <2>1. \A l \in HasBackup : BadSig(primHdr'[l]) = BadSig(primHdr[l])
    BY <1>2, <1>4, GptAssumption
  <2>2. UNCHANGED <<Source, LostOnes>>
    BY <1>1, <2>1, SignatureDecides, SignatureDecidesNext
  <2> QED
    BY <1>1, <2>2 DEF Mapped
<1> QED
  BY <1>3, <1>4

(* A step that writes no image records, switches, or changes nothing.       *)
LEMMA GptRefined ==
  ASSUME IInv, IInv', [Next]_vars, UNCHANGED images
  PROVE  \/ UNCHANGED Mapped
         \/ \E d \in HasBackup : (Safe!Record(d) \/ Safe!Switch(d))
<1>1. CASE SetChainArrayBegin \/ SetChainArrayEnd
  BY <1>1, RecordRefined
<1>2. CASE SetPrimary
  BY <1>2, SwitchRefined
<1>3. CASE UNCHANGED <<primHdr, cut>>
  BY <1>3, SignatureDecides, SignatureDecidesNext DEF Mapped, Copy, CutOnes, images
<1> QED
  BY <1>1, <1>2, <1>3, GptSteps DEF SetChainHeader, SetSecondary, SecondaryState, gpt

(* The caller only overwrites the copy that its disk does not boot.         *)
LEMMA OverwriteRefined ==
  ASSUME IInv, NEW t \in Luns \cup {Xbl}, NEW v \in {"torn", "new"}, Put(t, v),
         granted \in {UPDATE_MAIN, UPDATE_BACKUP}, UNCHANGED gpt
  PROVE  UNCHANGED Mapped \/ \E d \in HasBackup : Safe!Overwrite(d, v)
<1>1. UNCHANGED <<Source, CutOnes, LostOnes>>
  BY DEF Source, CutOnes, LostOnes, gpt, Selected, PrimUsable, SecUsable
<1>2. CASE t = Xbl \/ t \notin HasBackup
  BY <1>1, <1>2, GptAssumption DEF Put, Freed, Copy, Mapped, IInv, TypeOK, Chains
<1>3. CASE t # Xbl /\ t \in HasBackup
  <2>1. Freed = Safe!Other(Source[t])
    BY <1>3, BootsIntact DEF PreparedEverywhere, Lost, Freed, Safe!Other, Source,
       UPDATE_MAIN, UPDATE_BACKUP
  <2>2. Copy' = [Copy EXCEPT ![t][Safe!Other(Source[t])] = v]
    <3>1. image' = [image EXCEPT ![Freed][t] = v] /\ Freed \in Chains
      BY <1>3 DEF Put, Freed, Chains
    <3>2. \A l \in HasBackup, c \in Chains :
            image'[c][l] = IF l = t /\ c = Freed THEN v ELSE image[c][l]
      BY <3>1, GptAssumption DEF IInv, TypeOK
    <3> DEFINE after == [l \in HasBackup |-> [c \in Chains |->
                           IF l = t /\ c = Freed THEN v ELSE image[c][l]]]
    <3>3. Copy' = after
      BY <3>2 DEF Copy
    <3>4. [Copy EXCEPT ![t][Freed] = v] = after
      <4>1. Copy[t] = [c \in Chains |-> image[c][t]]
        BY <1>3 DEF Copy
      <4>2. [Copy[t] EXCEPT ![Freed] = v]
              = [c \in Chains |-> IF c = Freed THEN v ELSE image[c][t]]
        BY <3>1, <4>1
      <4> QED
        BY <1>3, <4>2 DEF Copy
    <3> QED
      BY <2>1, <3>3, <3>4
  <2> QED
    BY <1>1, <1>3, <2>2 DEF Safe!Overwrite, Source, Copy, CutOnes, LostOnes
<1> QED
  BY <1>2, <1>3

(* prepare_boot_update and a caller that respects it implement SafeUpdate.  *)
THEOREM ImplementsSafeUpdate == Spec => SafeUpdateSpec
<1>1. Init => Safe!Init
  <2> SUFFICES ASSUME Init PROVE Safe!Init
    OBVIOUS
  <2>1. \A l \in HasBackup : Selected(l) = "main"
    BY GptAssumption DEF Init, Selected, PrimUsable, SecUsable
  <2>2. Copy = [d \in HasBackup |-> [c \in Safe!Copies |-> "old"]]
    BY GptAssumption DEF Init, Copy, Chains, Safe!Copies
  <2> QED
    BY <2>1, <2>2 DEF Safe!Init, Copy, Init
<1>2. IInv /\ IInv' /\ [Next]_vars => [Safe!Next]_Mapped
  <2> SUFFICES ASSUME IInv, IInv', [Next]_vars
               PROVE  [Safe!Next]_Mapped
    OBVIOUS
  <2>1. CASE UNCHANGED images
    BY <2>1, GptRefined DEF Safe!Next
  <2>2. ASSUME NEW t \in Luns \cup {Xbl}, BeginWrite(t)
        PROVE  [Safe!Next]_Mapped
    BY <2>2, OverwriteRefined DEF BeginWrite, Safe!Next, gpt
  <2>3. CASE EndWrite
    BY <2>3, OverwriteRefined DEF EndWrite, Safe!Next, gpt, IInv, TypeOK, Control
  <2> QED
    BY <2>1, <2>2, <2>3, ImageSteps
<1> QED
  BY <1>1, <1>2, Inductive, PTL DEF Spec, SafeUpdateSpec, Safe!Spec, Mapped, Source, Copy,
     CutOnes, LostOnes

-----------------------------------------------------------------------------
(* The caller of GptUpdateScript, while no system call fails.               *)

MainNew == /\ \A l \in Luns : image["main"][l] = "new"
           /\ UsesXbl => xbl["main"] = "new"
BakNew  == /\ \A l \in Luns : image["bak"][l] = "new"
           /\ UsesXbl => xbl["bak"] = "new" /\ bootLun = "main"
BothOk(l) == primHdr[l] = "GPT_OK" /\ secHdr[l] = "GPT_OK"

(* Nothing was damaged and no system call fails: a header is good or was    *)
(* corrupted by a stage, and the secondary one only once the main chain is  *)
(* new.                                                                     *)
Undamaged ==
  /\ \A l \in Luns : /\ primArrOk[l]
                     /\ primHdr[l] \in {"GPT_OK", "GPT_BAD_SIGNATURE"}
                     /\ secHdr[l] \in {"GPT_OK", "GPT_BAD_SIGNATURE"}
                     /\ BadSig(secHdr[l]) => l \in HasBackup /\ MainNew
  /\ stage = UPDATE_BACKUP /\ pc = "secondary" => cur \in HasBackup

(* The script waits for the stage it called, or writes its images.          *)
ModeOK ==
  /\ step \in Stages /\ mode \in {"call", "wait", "write", "done"}
  /\ left \subseteq Luns \cup {Xbl}
  /\ mode # "wait" => pc = "idle"
  /\ mode # "write" => writing = NoTarget
  /\ pc # "idle" => stage = step
  /\ pc \notin {"idle", "loop"} => cur \notin todo
  /\ mode = "wait" /\ pc = "idle" => granted \in {step, NoStage}
  /\ mode = "write" => granted = step /\ step # UPDATE_FINALIZE
  /\ mode = "done" => granted = step /\ step = UPDATE_FINALIZE

(* The main chain is new before the script leaves the first stage.          *)
Called == mode = "wait" /\ pc = "idle" /\ granted = NoStage
MainFirst ==
  /\ step # UPDATE_MAIN => MainNew
  /\ step = UPDATE_MAIN /\ pc # "idle" /\ isError => MainNew
  /\ step = UPDATE_MAIN /\ Called => MainNew

(* A stage that fails has found a disk in another one.                      *)
Skipped ==
  /\ step = UPDATE_BACKUP /\ pc # "idle" /\ isError =>
       \E l \in Luns \ todo : BothOk(l) /\ (pc # "loop" => l # cur)
  /\ step = UPDATE_BACKUP /\ Called => \E l \in Luns : BothOk(l)

(* The backup chain is new, or the last stage will fail.                    *)
BakThen ==
  step = UPDATE_FINALIZE =>
    /\ mode = "call" => BakNew \/ \E l \in Luns : BothOk(l)
    /\ pc # "idle" =>
         BakNew \/ isError \/ \E l \in Luns : BothOk(l) /\ (l \in todo \/ (pc = "inspect" /\ l = cur))
    /\ mode \in {"wait", "done"} /\ pc = "idle" /\ granted = step => BakNew

(* What is not left to be written is new.                                   *)
Written ==
  mode = "write" =>
    /\ \A l \in Luns \ (left \cup {writing}) : image[Freed][l] = "new"
    /\ UsesXbl /\ Xbl \notin left \cup {writing} => xbl[Freed] = "new"

ScriptInv == IInv /\ Undamaged /\ ModeOK /\ MainFirst /\ Skipped /\ BakThen /\ Written

LEMMA InitScriptInv == ScriptInit => ScriptInv
<1> SUFFICES ASSUME ScriptInit PROVE ScriptInv
  OBVIOUS
<1>1. IInv
  BY InitInv DEF ScriptInit
<1>2. /\ pc = "idle" /\ writing = NoTarget /\ step = UPDATE_MAIN /\ mode = "call" /\ left = {}
      /\ \A l \in Luns : PrimUsable(l) /\ SecUsable(l)
  BY DEF ScriptInit, Init
<1>3. Undamaged
  BY <1>2 DEF Undamaged, PrimUsable, SecUsable, BadSig
<1>4. ModeOK /\ MainFirst /\ Skipped /\ BakThen /\ Written
  BY <1>2 DEF ModeOK, MainFirst, Skipped, BakThen, Written, Stages, Called,
     UPDATE_MAIN, UPDATE_BACKUP, UPDATE_FINALIZE
<1> QED
  BY <1>1, <1>3, <1>4 DEF ScriptInv

(* A step of the script is one of the caller or of the code it calls.       *)
LEMMA ScriptSteps ==
  ASSUME ScriptInv, [ScriptNext]_scriptVars
  PROVE  IInv' /\ [Next]_vars
<1>1. step \in Stages /\ left \subseteq Luns \cup {Xbl}
  BY DEF ScriptInv, ModeOK
<1>2. [Next]_vars
  <2>1. CASE Call \/ Answer
    BY <1>1, <2>1 DEF Call, Answer, Next
  <2>2. CASE WriteImages
    BY <1>1, <2>2 DEF WriteImages, Next
  <2>3. CASE Prepare \/ PowerLoss
    BY <2>3 DEF PowerLoss, Next
  <2>4. CASE UNCHANGED scriptVars
    BY <2>4 DEF scriptVars
  <2> QED
    BY <2>1, <2>2, <2>3, <2>4 DEF ScriptNext, Run
<1> QED
  BY <1>2, InvStep DEF ScriptInv

(* Steps that leave what is on the media alone.                             *)
Media == <<primHdr, primArrOk, secHdr, image, xbl, bootLun>>

LEMMA MediaKept ==
  ASSUME UNCHANGED Media
  PROVE  /\ MainNew' = MainNew /\ BakNew' = BakNew
         /\ \A l \in Luns : BothOk(l)' = BothOk(l)
BY DEF Media, MainNew, BakNew, BothOk

LEMMA UndamagedKept ==
  ASSUME Undamaged, UNCHANGED Media,
         pc' = "secondary" => pc = "secondary" /\ stage' = stage /\ cur' = cur
  PROVE  Undamaged'
BY MediaKept DEF Undamaged, Media, BadSig

LEMMA CallStep == ASSUME ScriptInv, Call PROVE ScriptInv'
<1>1. IInv'
  BY ScriptSteps DEF ScriptNext, Run
<1>2. mode = "call" /\ pc = "idle" /\ writing = NoTarget /\ left' = left
  BY DEF Call, ScriptInv, ModeOK
<1>3. CASE CallPrepare(step) /\ mode' = "wait" /\ step' = step
  <2>1. /\ pc' = "loop" /\ stage' = step /\ todo' = Luns /\ isError' = FALSE
        /\ writing' = writing /\ UNCHANGED Media
    BY <1>3 DEF CallPrepare, gpt, images, Media
  <2>2. Undamaged'
    BY <2>1, UndamagedKept DEF ScriptInv
  <2>3. ModeOK'
    BY <1>2, <1>3, <2>1 DEF ScriptInv, ModeOK
  <2>4. MainFirst'
    BY <1>3, <2>1, MediaKept DEF ScriptInv, MainFirst, Called
  <2>5. Skipped' /\ Written'
    BY <1>3, <2>1 DEF Skipped, Written, Called
  <2>6. BakThen'
    BY <1>2, <1>3, <2>1, MediaKept DEF ScriptInv, BakThen
  <2> QED
    BY <1>1, <2>2, <2>3, <2>4, <2>5, <2>6 DEF ScriptInv
<1>4. CASE Restart /\ UNCHANGED vars
  <2>1. /\ pc' = pc /\ writing' = writing /\ step' = UPDATE_MAIN /\ mode' = "call"
        /\ UNCHANGED Media
    BY <1>4 DEF Restart, vars, gpt, images, caller, Media
  <2>2. Undamaged'
    BY <1>2, <2>1, UndamagedKept DEF ScriptInv
  <2>3. ModeOK' /\ MainFirst' /\ Skipped' /\ BakThen' /\ Written'
    BY <1>2, <2>1 DEF ScriptInv, ModeOK, MainFirst, Skipped, BakThen, Written, Called,
       Stages, UPDATE_MAIN, UPDATE_BACKUP, UPDATE_FINALIZE
  <2> QED
    BY <1>1, <2>2, <2>3 DEF ScriptInv
<1> QED
  BY <1>3, <1>4 DEF Call

LEMMA AnswerStep == ASSUME ScriptInv, Answer PROVE ScriptInv'
<1>1. IInv'
  BY ScriptSteps DEF ScriptNext, Run
<1>2. /\ mode = "wait" /\ pc = "idle" /\ writing = NoTarget /\ step \in Stages
      /\ left \subseteq Luns \cup {Xbl}
  BY DEF Answer, ScriptInv, ModeOK
<1>3. /\ pc' = pc /\ writing' = writing /\ granted' = granted /\ UNCHANGED Media
  BY DEF Answer, vars, gpt, images, caller, Media
<1>4. Undamaged'
  BY <1>2, <1>3, UndamagedKept DEF ScriptInv
<1> USE DEF Stages, UPDATE_MAIN, UPDATE_BACKUP, UPDATE_FINALIZE
<1>5. CASE /\ granted = step /\ step # UPDATE_FINALIZE /\ step' = step /\ mode' = "write"
           /\ left' = Luns \cup (IF UsesXbl THEN {Xbl} ELSE {})
  <2>1. ModeOK'
    BY <1>2, <1>3, <1>5 DEF ModeOK
  <2>2. MainFirst'
    BY <1>2, <1>3, <1>5, MediaKept DEF ScriptInv, MainFirst, Called
  <2>3. Skipped' /\ BakThen' /\ Written'
    BY <1>2, <1>3, <1>5 DEF Skipped, BakThen, Written, Called
  <2> QED
    BY <1>1, <1>4, <2>1, <2>2, <2>3 DEF ScriptInv
<1>6. CASE granted = NoStage /\ step # UPDATE_FINALIZE /\ Advance /\ left' = left
  <2>1. step' = step + 1 /\ mode' = "call" /\ Called
    BY <1>2, <1>6 DEF Advance, Called
  <2>2. ModeOK'
    BY <1>2, <1>3, <1>6, <2>1 DEF ModeOK
  <2>3. MainNew
    BY <2>1, <1>6 DEF ScriptInv, MainFirst
  <2>4. step = UPDATE_BACKUP => \E l \in Luns : BothOk(l)
    BY <2>1 DEF ScriptInv, Skipped
  <2>5. MainFirst' /\ Skipped' /\ Written'
    BY <1>2, <1>3, <2>1, <2>3, MediaKept DEF MainFirst, Skipped, Written, Called
  <2>6. BakThen'
    BY <1>2, <1>3, <1>6, <2>1, <2>4, MediaKept DEF BakThen
  <2> QED
    BY <1>1, <1>4, <2>2, <2>5, <2>6 DEF ScriptInv
<1>7. CASE Restart /\ left' = left
  BY <1>1, <1>2, <1>3, <1>4, <1>7 DEF Restart, ScriptInv, ModeOK, MainFirst, Skipped,
     BakThen, Written, Called
<1>8. CASE /\ step = UPDATE_FINALIZE /\ granted = step /\ mode' = "done"
           /\ step' = step /\ left' = left
  <2>1. ModeOK'
    BY <1>2, <1>3, <1>8 DEF ModeOK
  <2>2. MainFirst' /\ BakThen'
    BY <1>2, <1>3, <1>8, MediaKept DEF ScriptInv, MainFirst, BakThen, Called
  <2>3. Skipped' /\ Written'
    BY <1>8 DEF Skipped, Written
  <2> QED
    BY <1>1, <1>4, <2>1, <2>2, <2>3 DEF ScriptInv
<1> QED
  BY <1>5, <1>6, <1>7, <1>8 DEF Answer

(* While the main chain may be written no secondary header is corrupted.    *)
LEMMA MainFree ==
  ASSUME ScriptInv, granted = UPDATE_MAIN, NEW l \in Luns
  PROVE  ~BadSig(secHdr[l])
<1>1. l \in HasBackup => BadSig(primHdr[l])
  BY DEF ScriptInv, IInv, Progress, Prepared, NoStage, UPDATE_MAIN
<1>2. BadSig(primHdr[l]) => ~BadSig(secHdr[l])
  BY DEF ScriptInv, IInv, GptPair, SecUsable, BadSig
<1> QED
  BY <1>1, <1>2 DEF ScriptInv, Undamaged

(* Writing one image of the chain that was freed.                           *)
LEMMA PutStep ==
  ASSUME ScriptInv, mode = "write", NEW t \in Luns \cup {Xbl}, NEW v \in Image, Put(t, v)
  PROVE  /\ Freed \in Chains
         /\ \A l \in Luns \ {t} : image'[Freed][l] = image[Freed][l]
         /\ t # Xbl => image'[Freed][t] = v /\ xbl' = xbl
         /\ t = Xbl => xbl'[Freed] = v /\ image' = image
         /\ granted # UPDATE_MAIN => (MainNew => image'["main"] = image["main"]
                                                 /\ xbl'["main"] = xbl["main"])
<1>1. Freed \in Chains /\ (granted # UPDATE_MAIN => Freed # "main")
  BY DEF Freed, Chains
<1>2. image \in [Chains -> [Luns -> Image]] /\ xbl \in [Chains -> Image]
  BY DEF ScriptInv, IInv, TypeOK
<1>3. CASE t = Xbl
  BY <1>1, <1>2, <1>3 DEF Put, Chains
<1>4. CASE t # Xbl
  <2>1. image' = [image EXCEPT ![Freed][t] = v] /\ xbl' = xbl /\ t \in Luns
    BY <1>4 DEF Put
  <2> QED
    BY <1>1, <1>2, <1>4, <2>1 DEF Chains
<1> QED
  BY <1>3, <1>4

LEMMA WriteStep == ASSUME ScriptInv, WriteImages PROVE ScriptInv'
<1>1. IInv'
  BY ScriptSteps DEF ScriptNext, Run
<1>2. /\ mode = "write" /\ pc = "idle" /\ granted = step /\ step # UPDATE_FINALIZE
      /\ step \in Stages /\ left \subseteq Luns \cup {Xbl}
  BY DEF WriteImages, ScriptInv, ModeOK
<1> USE DEF Stages, UPDATE_MAIN, UPDATE_BACKUP, UPDATE_FINALIZE
<1>3. ASSUME NEW t \in Luns \cup {Xbl}, NEW v \in Image, Put(t, v),
             step' = step, mode' = mode, left' \subseteq left,
             writing' \in {t, NoTarget},
             v # "new" => writing' = t /\ left \subseteq left' \cup {t} /\ writing = NoTarget,
             v = "new" => writing' = NoTarget /\ left' = left /\ writing = t,
             UNCHANGED <<gpt, bootLun, pc, stage, todo, cur, isError, granted>>
      PROVE  ScriptInv'
  <2>1. /\ primHdr' = primHdr /\ primArrOk' = primArrOk /\ secHdr' = secHdr
        /\ pc' = pc /\ granted' = granted /\ stage' = stage /\ cur' = cur
    BY <1>3 DEF gpt
  <2>2. granted # UPDATE_MAIN /\ MainNew => MainNew'
    BY <1>2, <1>3, PutStep DEF MainNew
  <2>3. Undamaged'
    <3>1. granted = UPDATE_MAIN => \A l \in Luns : ~BadSig(secHdr[l])
      BY MainFree
    <3> QED
      BY <1>2, <2>1, <2>2, <3>1 DEF ScriptInv, Undamaged, BadSig
  <2>4. ModeOK'
    BY <1>2, <1>3, <2>1 DEF ModeOK
  <2>5. MainFirst'
    BY <1>2, <1>3, <2>1, <2>2 DEF ScriptInv, MainFirst, Called
  <2>6. Skipped' /\ BakThen'
    BY <1>2, <1>3, <2>1 DEF Skipped, BakThen, Called
  <2>7. Written'
    <3>1. Freed' = Freed
      BY <2>1 DEF Freed
    <3>2. ASSUME NEW l \in Luns, l \notin left' \cup {writing'}
          PROVE  image'[Freed][l] = "new"
      <4>1. CASE l = t
        BY <1>3, <3>2, <4>1, PutStep, <1>2, TargetAssumption
      <4>2. CASE l # t
        <5>1. l \notin left \cup {writing}
          BY <1>3, <3>2, <4>2, TargetAssumption
        <5> QED
          BY <1>2, <1>3, <4>2, <5>1, PutStep DEF ScriptInv, Written
      <4> QED
        BY <4>1, <4>2
    <3>3. ASSUME UsesXbl, Xbl \notin left' \cup {writing'}
          PROVE  xbl'[Freed] = "new"
      <4>1. CASE t = Xbl
        BY <1>2, <1>3, <3>3, <4>1, PutStep
      <4>2. CASE t # Xbl
        <5>1. Xbl # NoTarget
          BY DEF Xbl, NoTarget
        <5>2. Xbl \notin left \cup {writing}
          BY <1>3, <3>3, <4>2, <5>1
        <5> QED
          BY <1>2, <1>3, <3>3, <4>2, <5>2, PutStep DEF ScriptInv, Written
      <4> QED
        BY <4>1, <4>2
    <3> QED
      BY <3>1, <3>2, <3>3 DEF Written
  <2> QED
    BY <1>1, <2>3, <2>4, <2>5, <2>6, <2>7 DEF ScriptInv
<1>4. ASSUME NEW t \in left, BeginWrite(t), left' = left \ {t}, UNCHANGED <<step, mode>>
      PROVE  ScriptInv'
  <2>1. /\ Put(t, "torn") /\ writing' = t /\ writing = NoTarget /\ t \in Luns \cup {Xbl}
        /\ UNCHANGED <<gpt, bootLun, pc, stage, todo, cur, isError, granted>>
    BY <1>2, <1>4 DEF BeginWrite
  <2>2. "torn" \in Image /\ left' \subseteq left /\ left \subseteq left' \cup {t}
    BY <1>4 DEF Image
  <2> QED
    BY <1>3, <1>4, <2>1, <2>2
<1>5. ASSUME EndWrite, UNCHANGED <<step, mode, left>>
      PROVE  ScriptInv'
  <2>1. writing \in Luns \cup {Xbl}
    BY <1>5 DEF EndWrite, ScriptInv, IInv, TypeOK
  <2>2. /\ Put(writing, "new") /\ writing' = NoTarget
        /\ UNCHANGED <<gpt, bootLun, pc, stage, todo, cur, isError, granted>>
    BY <1>5 DEF EndWrite
  <2>3. "new" \in Image /\ left' \subseteq left
    BY <1>5 DEF Image
  <2> QED
    BY <1>3, <1>5, <2>1, <2>2, <2>3
<1>6. ASSUME left = {}, writing = NoTarget, Advance, UNCHANGED <<vars, left>>
      PROVE  ScriptInv'
  <2>1. /\ pc' = pc /\ writing' = writing /\ left' = left /\ UNCHANGED Media
        /\ step' = step + 1 /\ mode' = "call"
    BY <1>6 DEF Advance, vars, gpt, images, caller, Media
  <2>2. /\ \A l \in Luns : image[Freed][l] = "new"
        /\ UsesXbl => xbl[Freed] = "new"
    <3>1. Xbl # NoTarget
      BY DEF Xbl, NoTarget
    <3> QED
      BY <1>2, <1>6, <3>1, TargetAssumption DEF ScriptInv, Written
  <2>3. MainNew
    <3>1. CASE step = UPDATE_MAIN
      BY <1>2, <2>2, <3>1 DEF Freed, MainNew
    <3>2. CASE step # UPDATE_MAIN
      BY <3>2 DEF ScriptInv, MainFirst
    <3> QED
      BY <3>1, <3>2
  <2>4. step = UPDATE_BACKUP => BakNew
    <3> SUFFICES ASSUME step = UPDATE_BACKUP PROVE BakNew
      OBVIOUS
    <3>1. \A l \in Luns : BadSig(secHdr[l])
      <4>1. granted = UPDATE_BACKUP /\ granted # NoStage
        BY <1>2 DEF NoStage
      <4>2. \A l \in Luns : Prepared(granted, l)
        BY <4>1 DEF ScriptInv, IInv, Progress
      <4> QED
        BY <4>1, <4>2 DEF Prepared
    <3>2. bootLun = "main"
      BY <3>1 DEF ScriptInv, IInv, BootLunInv, TypeOK, Chains
    <3> QED
      BY <1>2, <2>2, <3>2 DEF Freed, BakNew
  <2>5. Undamaged'
    BY <1>2, <2>1, UndamagedKept DEF ScriptInv
  <2>6. ModeOK'
    BY <1>2, <1>6, <2>1 DEF ModeOK
  <2>7. MainFirst' /\ Skipped' /\ Written'
    BY <1>2, <2>1, <2>3, MediaKept DEF MainFirst, Skipped, Written, Called
  <2>8. BakThen'
    BY <1>2, <2>1, <2>4, MediaKept DEF BakThen
  <2> QED
    BY <1>1, <2>5, <2>6, <2>7, <2>8 DEF ScriptInv
<1> QED
  BY <1>4, <1>5, <1>6 DEF WriteImages

LEMMA PowerLossStep == ASSUME ScriptInv, PowerLoss PROVE ScriptInv'
<1>1. IInv'
  BY ScriptSteps DEF ScriptNext
<1>2. /\ pc' = "idle" /\ writing' = NoTarget /\ left' = {} /\ UNCHANGED Media
      /\ step' = UPDATE_MAIN /\ mode' = "call"
  BY DEF PowerLoss, Crash, Restart, gpt, images, Media
<1>3. Undamaged'
  BY <1>2, UndamagedKept DEF ScriptInv
<1>4. ModeOK' /\ MainFirst' /\ Skipped' /\ BakThen' /\ Written'
  BY <1>2 DEF ModeOK, MainFirst, Skipped, BakThen, Written, Called,
     Stages, UPDATE_MAIN, UPDATE_BACKUP, UPDATE_FINALIZE
<1> QED
  BY <1>1, <1>3, <1>4 DEF ScriptInv

-----------------------------------------------------------------------------
(* The steps of prepare_boot_update.                                        *)

LEMMA PrepareBegins ==
  ASSUME ScriptInv, Prepare
  PROVE  /\ pc # "idle" /\ mode = "wait" /\ writing = NoTarget /\ stage = step
         /\ stage \in Stages /\ granted = NoStage
         /\ image' = image /\ xbl' = xbl /\ writing' = writing /\ stage' = stage
         /\ primArrOk' = primArrOk
<1>1. pc # "idle"
  BY DEF Prepare, NextLun, Inspect, SetBootLun, SetChainHeader, SetChainArrayBegin,
     SetChainArrayEnd, SetPrimary, SetSecondary, Return
<1>2. /\ image' = image /\ xbl' = xbl /\ writing' = writing /\ stage' = stage
      /\ primArrOk' = primArrOk
  BY DEF Prepare, NextLun, Inspect, SetBootLun, SetChainHeader, SetChainArrayBegin,
     SetChainArrayEnd, SetPrimary, SetSecondary, Return, gpt, images, caller, Running
<1> QED
  BY <1>1, <1>2 DEF ScriptInv, ModeOK, IInv, Control

(* Without I/O errors only a disk in an unexpected stage makes a stage fail.*)
LEMMA NoFaults == ASSUME ScriptInv, MaxIoErrors = 0 PROVE ~IoFault
  BY GptAssumption DEF ScriptInv, IInv, TypeOK, BoundsOK, IoFault

LEMMA OtherStage ==
  ASSUME ScriptInv, Inspect, pc' = "loop", isError' # isError
  PROVE  /\ stage = UPDATE_MAIN => BadSig(secHdr[cur])
         /\ stage = UPDATE_BACKUP => BothOk(cur)
<1>1. cur \in Luns
  BY DEF ScriptInv, IInv, TypeOK
<1>2. /\ primHdr[cur] \in {"GPT_OK", "GPT_BAD_SIGNATURE"}
      /\ secHdr[cur] \in {"GPT_OK", "GPT_BAD_SIGNATURE"}
  BY <1>1 DEF ScriptInv, Undamaged
<1>3. ~Unacceptable(cur)
  <2>1. BadSig(primHdr[cur]) => secHdr[cur] = "GPT_OK"
    BY <1>1 DEF ScriptInv, IInv, GptPair, SecUsable
  <2> QED
    BY <1>2, <2>1 DEF Unacceptable, BadSig
<1>4. stage # InternalStage(cur) /\ ~AlreadySet(cur)
  BY <1>3 DEF Inspect, Continue
<1>5. CASE stage = UPDATE_MAIN
  <2>1. InternalStage(cur) # UPDATE_MAIN /\ InternalStage(cur) # UPDATE_BACKUP
    BY <1>4, <1>5 DEF AlreadySet, UPDATE_MAIN, UPDATE_BACKUP
  <2>2. ~(primHdr[cur] = "GPT_OK" /\ secHdr[cur] = "GPT_OK")
        /\ primHdr[cur] # "GPT_BAD_SIGNATURE"
    BY <2>1 DEF InternalStage
  <2> QED
    BY <1>2, <1>5, <2>2 DEF BadSig, UPDATE_MAIN, UPDATE_BACKUP
<1>6. CASE stage = UPDATE_BACKUP
  <2>1. InternalStage(cur) # UPDATE_BACKUP /\ InternalStage(cur) # UPDATE_FINALIZE
    BY <1>4, <1>6 DEF AlreadySet, UPDATE_BACKUP, UPDATE_FINALIZE
  <2>2. InternalStage(cur) = UPDATE_MAIN
    BY <2>1 DEF InternalStage
  <2>3. primHdr[cur] = "GPT_OK" /\ secHdr[cur] = "GPT_OK"
    BY <2>2 DEF InternalStage, UPDATE_MAIN, UPDATE_BACKUP, UPDATE_FINALIZE
  <2> QED
    BY <1>6, <2>3 DEF BothOk, UPDATE_MAIN, UPDATE_BACKUP
<1> QED
  BY <1>5, <1>6

(* What the steps of a stage have in common: where the program is, and what *)
(* has become of the disk it is at.                                         *)
LEMMA StageStep ==
  ASSUME ScriptInv, Prepare, UNCHANGED <<step, mode, left>>, pc' # "idle",
         UNCHANGED <<todo, cur>>, pc \notin {"idle", "loop"},
         isError' = isError \/ (Inspect /\ pc' = "loop" /\ isError' = TRUE),
         pc' # "inspect", pc = "inspect" /\ step = UPDATE_FINALIZE /\ BothOk(cur) => isError',
         \A l \in Luns \ {cur} : primHdr'[l] = primHdr[l] /\ secHdr'[l] = secHdr[l],
         /\ primHdr'[cur] \in {"GPT_OK", "GPT_BAD_SIGNATURE"}
         /\ secHdr'[cur] \in {"GPT_OK", "GPT_BAD_SIGNATURE"},
         BadSig(secHdr'[cur]) => BadSig(secHdr[cur]) \/ (step = UPDATE_BACKUP /\ cur \in HasBackup),
         step = UPDATE_FINALIZE => /\ BothOk(cur) => BothOk(cur)'
                                   /\ bootLun' = bootLun,
         stage = UPDATE_BACKUP /\ pc' = "secondary" => cur \in HasBackup
  PROVE  ScriptInv'
<1>1. IInv'
  BY ScriptSteps DEF ScriptNext, Run
<1>2. /\ pc # "idle" /\ mode = "wait" /\ writing = NoTarget /\ stage = step
      /\ stage \in Stages /\ granted = NoStage
      /\ image' = image /\ xbl' = xbl /\ writing' = writing /\ stage' = stage
      /\ primArrOk' = primArrOk
  BY PrepareBegins
<1>3. MainNew' = MainNew /\ (bootLun' = bootLun => BakNew' = BakNew)
  BY <1>2 DEF MainNew, BakNew
<1>4. cur \in Luns /\ cur \notin todo
  BY DEF ScriptInv, ModeOK, IInv, TypeOK
<1> USE DEF UPDATE_MAIN, UPDATE_BACKUP, UPDATE_FINALIZE
<1>5. step = UPDATE_BACKUP => MainNew
  BY DEF ScriptInv, MainFirst
<1>6. isError' # isError =>
        /\ step = UPDATE_MAIN => MainNew
        /\ step = UPDATE_BACKUP => BothOk(cur) /\ BothOk(cur)'
  <2> SUFFICES ASSUME isError' # isError
               PROVE  /\ step = UPDATE_MAIN => MainNew
                      /\ step = UPDATE_BACKUP => BothOk(cur) /\ BothOk(cur)'
    OBVIOUS
  <2>1. Inspect /\ pc' = "loop"
    OBVIOUS
  <2>2. primHdr' = primHdr /\ secHdr' = secHdr /\ cur' = cur
    BY <2>1 DEF Inspect, gpt
  <2>3. /\ step = UPDATE_MAIN => BadSig(secHdr[cur])
        /\ step = UPDATE_BACKUP => BothOk(cur)
    BY <1>2, <2>1, OtherStage
  <2> QED
    BY <1>4, <2>2, <2>3 DEF ScriptInv, Undamaged, BothOk
<1>7. Undamaged'
  <2> SUFFICES ASSUME NEW l \in Luns
               PROVE  /\ primArrOk'[l]
                      /\ primHdr'[l] \in {"GPT_OK", "GPT_BAD_SIGNATURE"}
                      /\ secHdr'[l] \in {"GPT_OK", "GPT_BAD_SIGNATURE"}
                      /\ BadSig(secHdr'[l]) => l \in HasBackup /\ MainNew
    BY <1>2, <1>3 DEF Undamaged, BadSig
  <2>1. /\ primArrOk[l]
        /\ primHdr[l] \in {"GPT_OK", "GPT_BAD_SIGNATURE"}
        /\ secHdr[l] \in {"GPT_OK", "GPT_BAD_SIGNATURE"}
        /\ BadSig(secHdr[l]) => l \in HasBackup /\ MainNew
    BY DEF ScriptInv, Undamaged
  <2> QED
    BY <1>2, <1>5, <2>1
<1>8. ModeOK'
  BY <1>2, <1>4 DEF ScriptInv, ModeOK
<1>9. MainFirst'
  BY <1>2, <1>3, <1>6 DEF ScriptInv, MainFirst, Called
<1>10. Skipped'
  <2>1. SUFFICES ASSUME step = UPDATE_BACKUP, isError'
                 PROVE  \E l \in Luns \ todo : BothOk(l)' /\ (pc' # "loop" => l # cur)
    BY DEF Skipped, Called
  <2>2. CASE isError
    <3>1. PICK l \in Luns \ todo : BothOk(l) /\ l # cur
      BY <2>1, <2>2, <1>2 DEF ScriptInv, Skipped
    <3>2. BothOk(l)'
      BY <3>1 DEF BothOk
    <3> QED
      BY <3>1, <3>2
  <2>3. CASE ~isError
    BY <1>4, <1>6, <2>1, <2>3
  <2> QED
    BY <2>2, <2>3
<1>11. BakThen'
  <2>1. SUFFICES ASSUME step = UPDATE_FINALIZE, ~isError', ~BakNew'
                 PROVE  \E l \in Luns : BothOk(l)' /\ l \in todo
    BY <1>2 DEF BakThen
  <2>2. ~isError /\ ~BakNew
    BY <1>3, <2>1
  <2>3. PICK l \in Luns : BothOk(l) /\ (l \in todo \/ (pc = "inspect" /\ l = cur))
    BY <1>2, <2>1, <2>2 DEF ScriptInv, BakThen
  <2>4. l \in todo
    BY <2>1, <2>3
  <2>5. BothOk(l)'
    BY <1>4, <2>3, <2>4 DEF BothOk
  <2> QED
    BY <2>4, <2>5
<1>12. Written'
  BY <1>2 DEF Written
<1> QED
  BY <1>1, <1>7, <1>8, <1>9, <1>10, <1>11, <1>12 DEF ScriptInv

LEMMA NextLunStep ==
  ASSUME ScriptInv, NEW k \in Luns, NextLun(k), UNCHANGED <<step, mode, left>>
  PROVE  ScriptInv'
<1>1. IInv' /\ Prepare
  BY ScriptSteps DEF ScriptNext, Run, Prepare
<1>2. /\ pc = "loop" /\ pc' = "inspect" /\ k \in todo /\ cur' = k /\ todo' = todo \ {k}
      /\ isError' = isError /\ UNCHANGED Media
  BY DEF NextLun, gpt, images, Media
<1>3. mode = "wait" /\ stage = step /\ stage' = stage /\ writing = NoTarget /\ writing' = writing
  BY <1>1, PrepareBegins
<1>4. Undamaged'
  BY <1>2, UndamagedKept DEF ScriptInv
<1>5. ModeOK'
  BY <1>2, <1>3 DEF ScriptInv, ModeOK
<1>6. MainFirst'
  BY <1>2, <1>3, MediaKept DEF ScriptInv, MainFirst, Called
<1>7. Skipped'
  <2> SUFFICES ASSUME step = UPDATE_BACKUP, isError
               PROVE  \E l \in Luns \ todo' : BothOk(l)' /\ l # cur'
    BY <1>2 DEF Skipped, Called
  <2>1. PICK l \in Luns \ todo : BothOk(l)
    BY <1>2 DEF ScriptInv, Skipped
  <2>2. BothOk(l)'
    BY <1>2, <2>1, MediaKept
  <2> QED
    BY <1>2, <2>1, <2>2
<1>8. BakThen'
  <2> SUFFICES ASSUME step = UPDATE_FINALIZE, ~isError, ~BakNew
               PROVE  \E l \in Luns : BothOk(l)' /\ (l \in todo' \/ (pc' = "inspect" /\ l = cur'))
    BY <1>2, <1>3, MediaKept DEF BakThen
  <2>1. PICK l \in Luns : BothOk(l) /\ l \in todo
    BY <1>2 DEF ScriptInv, BakThen
  <2>2. BothOk(l)'
    BY <1>2, <2>1, MediaKept
  <2> QED
    BY <1>2, <2>1, <2>2
<1>9. Written'
  BY <1>3 DEF Written
<1> QED
  BY <1>1, <1>4, <1>5, <1>6, <1>7, <1>8, <1>9 DEF ScriptInv

LEMMA ReturnStep ==
  ASSUME ScriptInv, Return, UNCHANGED <<step, mode, left>>
  PROVE  ScriptInv'
<1>1. IInv' /\ Prepare
  BY ScriptSteps DEF ScriptNext, Run, Prepare
<1>2. /\ pc = "loop" /\ pc' = "idle" /\ todo = {} /\ todo' = todo /\ cur' = cur
      /\ granted' = (IF isError THEN NoStage ELSE stage)
      /\ isError' = isError /\ UNCHANGED Media
  BY DEF Return, Outcome, gpt, images, Media
<1>3. /\ mode = "wait" /\ stage = step /\ stage' = stage /\ stage \in Stages
      /\ writing = NoTarget /\ writing' = writing
  BY <1>1, PrepareBegins
<1>4. /\ isError => granted' = NoStage
      /\ ~isError => granted' = step /\ granted' # NoStage
  BY <1>2, <1>3 DEF NoStage, Stages, UPDATE_MAIN, UPDATE_BACKUP, UPDATE_FINALIZE
<1>5. Undamaged'
  BY <1>2, UndamagedKept DEF ScriptInv
<1>6. ModeOK'
  BY <1>2, <1>3, <1>4 DEF ScriptInv, ModeOK
<1>7. MainFirst'
  BY <1>2, <1>3, <1>4, MediaKept DEF ScriptInv, MainFirst, Called
<1>8. Skipped'
  <2> SUFFICES ASSUME step = UPDATE_BACKUP, isError PROVE \E l \in Luns : BothOk(l)'
    BY <1>2, <1>4 DEF Skipped, Called
  <2> QED
    BY <1>2, MediaKept DEF ScriptInv, Skipped
<1>9. BakThen'
  BY <1>2, <1>3, <1>4, MediaKept DEF ScriptInv, BakThen, NoStage, UPDATE_FINALIZE
<1>10. Written'
  BY <1>3 DEF Written
<1> QED
  BY <1>1, <1>5, <1>6, <1>7, <1>8, <1>9, <1>10 DEF ScriptInv

LEMMA DiskStep ==
  ASSUME ScriptInv, MaxIoErrors = 0, UNCHANGED <<step, mode, left>>,
         \/ Inspect \/ SetBootLun
         \/ SetChainHeader \/ SetChainArrayBegin \/ SetChainArrayEnd
         \/ SetPrimary \/ SetSecondary
  PROVE  ScriptInv'
<1>1. Prepare
  BY DEF Prepare
<1>2. ~IoFault
  BY NoFaults
<1>3. cur \in Luns /\ todo' = todo /\ cur' = cur
  BY DEF ScriptInv, IInv, TypeOK, Inspect, SetBootLun, SetChainHeader, SetChainArrayBegin,
     SetChainArrayEnd, SetPrimary, SetSecondary, Running
<1>4. stage = step /\ stage \in Stages
  BY <1>1, PrepareBegins
<1>5. /\ primArrOk[cur]
      /\ primHdr[cur] \in {"GPT_OK", "GPT_BAD_SIGNATURE"}
      /\ secHdr[cur] \in {"GPT_OK", "GPT_BAD_SIGNATURE"}
  BY <1>3 DEF ScriptInv, Undamaged
<1>6. primHdr \in [Luns -> HeaderState] /\ secHdr \in [Luns -> HeaderState]
  BY DEF ScriptInv, IInv, TypeOK
<1>7. Control
  BY DEF ScriptInv, IInv
<1>8. ASSUME primHdr' = primHdr, secHdr' = secHdr
      PROVE  /\ \A l \in Luns \ {cur} : primHdr'[l] = primHdr[l] /\ secHdr'[l] = secHdr[l]
             /\ primHdr'[cur] \in {"GPT_OK", "GPT_BAD_SIGNATURE"}
             /\ secHdr'[cur] \in {"GPT_OK", "GPT_BAD_SIGNATURE"}
             /\ BadSig(secHdr'[cur]) => BadSig(secHdr[cur])
             /\ BothOk(cur) => BothOk(cur)'
  BY <1>3, <1>5, <1>8 DEF BothOk
<1> USE DEF Stages, UPDATE_MAIN, UPDATE_BACKUP, UPDATE_FINALIZE
<1>9. CASE Inspect
  <2>1. /\ pc = "inspect" /\ primHdr' = primHdr /\ secHdr' = secHdr /\ bootLun' = bootLun
    BY <1>9 DEF Inspect, gpt
  <2>2. \/ pc' = "loop" /\ isError' = TRUE
        \/ pc' \in {"loop", "chain_hdr", "bootlun"} /\ isError' = isError
    BY <1>9 DEF Inspect, Reject, Continue
  <2>3. step = UPDATE_FINALIZE /\ BothOk(cur) => isError'
    <3>1. BothOk(cur) => InternalStage(cur) = UPDATE_MAIN
      BY DEF BothOk, InternalStage
    <3>2. step = UPDATE_FINALIZE /\ BothOk(cur) =>
            ~AlreadySet(cur) /\ stage # InternalStage(cur)
      BY <1>4, <3>1 DEF AlreadySet
    <3> QED
      BY <1>9, <3>2 DEF Inspect, Reject
  <2> QED
    BY <1>1, <1>3, <1>8, <1>9, <2>1, <2>2, <2>3, StageStep
<1>10. CASE SetBootLun
  <2>1. /\ pc = "bootlun" /\ primHdr' = primHdr /\ secHdr' = secHdr
        /\ pc' \in {"chain_hdr", "primary"} /\ isError' = isError
    BY <1>2, <1>10 DEF SetBootLun, AfterBootLun, Continue, gpt
  <2>2. step # UPDATE_FINALIZE
    BY <1>4, <1>7, <2>1 DEF Control
  <2> QED
    BY <1>1, <1>3, <1>8, <2>1, <2>2, StageStep
<1>11. CASE SetChainHeader
  <2>1. /\ pc = "chain_hdr" /\ primHdr' = primHdr /\ secHdr' = secHdr /\ bootLun' = bootLun
        /\ pc' \in {"loop", "chain_arr"} /\ isError' = isError
    BY <1>2, <1>5, <1>11 DEF SetChainHeader, Continue
  <2> QED
    BY <1>1, <1>3, <1>8, <2>1, StageStep
<1>12. CASE SetChainArrayBegin
  <2>1. /\ pc = "chain_arr" /\ primHdr' = primHdr /\ secHdr' = secHdr /\ bootLun' = bootLun
        /\ pc' = "chain_end" /\ isError' = isError
    BY <1>2, <1>12 DEF SetChainArrayBegin, Continue
  <2> QED
    BY <1>1, <1>3, <1>8, <2>1, StageStep
<1>13. CASE SetChainArrayEnd
  <2>1. /\ pc = "chain_end" /\ primHdr' = primHdr /\ secHdr' = secHdr /\ bootLun' = bootLun
        /\ pc' \in {"primary", "secondary"} /\ isError' = isError
    BY <1>2, <1>13 DEF SetChainArrayEnd, AfterChain, Continue
  <2>2. step # UPDATE_BACKUP
    BY <1>4, <1>7, <2>1 DEF Control
  <2> QED
    BY <1>1, <1>3, <1>4, <1>8, <2>1, <2>2, StageStep
<1>14. CASE SetPrimary
  <2> DEFINE new == IF stage = UPDATE_MAIN THEN "GPT_BAD_SIGNATURE" ELSE "GPT_OK"
  <2>1. /\ pc = "primary" /\ primHdr' = [primHdr EXCEPT ![cur] = new]
        /\ secHdr' = secHdr /\ bootLun' = bootLun
        /\ pc' \in {"loop", "secondary"} /\ isError' = isError
    BY <1>2, <1>14 DEF SetPrimary, Continue
  <2>2. step # UPDATE_FINALIZE
    BY <1>4, <1>7, <2>1 DEF Control
  <2>3. primHdr'[cur] = new /\ \A l \in Luns \ {cur} : primHdr'[l] = primHdr[l]
    BY <1>3, <1>6, <2>1
  <2>4. stage = UPDATE_BACKUP => cur \in HasBackup
    BY <1>3, <2>1 DEF ScriptInv, IInv, AtDisk, GptPair
  <2> QED
    BY <1>1, <1>3, <1>5, <2>1, <2>2, <2>3, <2>4, StageStep
<1>15. CASE SetSecondary
  <2> DEFINE new == IF stage = UPDATE_BACKUP THEN "GPT_BAD_SIGNATURE" ELSE "GPT_OK"
  <2>1. /\ pc = "secondary" /\ secHdr' = [secHdr EXCEPT ![cur] = new]
        /\ primHdr' = primHdr /\ bootLun' = bootLun
        /\ pc' = "loop" /\ isError' = isError
    BY <1>2, <1>15 DEF SetSecondary, SecondaryState, Continue
  <2>2. secHdr'[cur] = new /\ \A l \in Luns \ {cur} : secHdr'[l] = secHdr[l]
    BY <1>3, <1>6, <2>1
  <2>3. BadSig(new) => step = UPDATE_BACKUP /\ cur \in HasBackup
    BY <1>4, <2>1 DEF ScriptInv, Undamaged, BadSig
  <2>4. step = UPDATE_FINALIZE /\ BothOk(cur) => BothOk(cur)'
    BY <1>3, <1>4, <2>1, <2>2 DEF BothOk
  <2> QED
    BY <1>1, <1>3, <1>5, <2>1, <2>2, <2>3, <2>4, StageStep
<1> QED
  BY <1>9, <1>10, <1>11, <1>12, <1>13, <1>14, <1>15

LEMMA ScriptStep == MaxIoErrors = 0 /\ ScriptInv /\ [ScriptNext]_scriptVars => ScriptInv'
<1> SUFFICES ASSUME MaxIoErrors = 0, ScriptInv, [ScriptNext]_scriptVars PROVE ScriptInv'
  OBVIOUS
<1>1. CASE Call \/ Answer \/ WriteImages \/ PowerLoss
  BY <1>1, CallStep, AnswerStep, WriteStep, PowerLossStep
<1>2. CASE Prepare /\ UNCHANGED <<step, mode, left>>
  BY <1>2, NextLunStep, DiskStep, ReturnStep DEF Prepare
<1>3. CASE UNCHANGED scriptVars
  <2>1. /\ UNCHANGED Media /\ pc' = pc /\ stage' = stage /\ todo' = todo /\ cur' = cur
        /\ isError' = isError /\ granted' = granted /\ writing' = writing
        /\ step' = step /\ mode' = mode /\ left' = left
    BY <1>3 DEF scriptVars, vars, gpt, images, caller, Media
  <2>2. IInv'
    BY ScriptSteps
  <2>3. Undamaged'
    BY <2>1, UndamagedKept DEF ScriptInv
  <2>4. ModeOK'
    BY <2>1 DEF ScriptInv, ModeOK
  <2>5. MainFirst' /\ Skipped' /\ BakThen'
    BY <2>1, MediaKept DEF ScriptInv, MainFirst, Skipped, BakThen, Called
  <2>6. Written'
    BY <2>1 DEF ScriptInv, Written, Media, Freed
  <2> QED
    BY <2>2, <2>3, <2>4, <2>5, <2>6 DEF ScriptInv
<1> QED
  BY <1>1, <1>2, <1>3 DEF ScriptNext, Run

(* A caller that starts again after every crash, and passes over a stage    *)
(* that fails, has replaced every image of both chains when the last stage  *)
(* returned 0, however many crashes there were, wherever they fell, as long *)
(* as no system call fails (prepare_partitions: "already set").             *)
THEOREM ResumeUpdates == MaxIoErrors = 0 => (ScriptSpec => []DoneMeansUpdated)
<1> SUFFICES ASSUME MaxIoErrors = 0 PROVE ScriptSpec => []DoneMeansUpdated
  OBVIOUS
<1>1. ScriptInv /\ [ScriptNext]_scriptVars => ScriptInv'
  BY ScriptStep
<1>2. ScriptInv => DoneMeansUpdated
  <2> SUFFICES ASSUME ScriptInv, mode = "done" PROVE DoneMeansUpdated
    BY DEF DoneMeansUpdated
  <2>1. pc = "idle" /\ granted = UPDATE_FINALIZE /\ step = UPDATE_FINALIZE
    BY DEF ScriptInv, ModeOK
  <2>2. MainNew /\ BakNew
    BY <2>1 DEF ScriptInv, MainFirst, BakThen, UPDATE_MAIN, UPDATE_FINALIZE
  <2>3. \A l \in Luns : /\ PrimUsable(l) /\ secHdr[l] = "GPT_OK"
                        /\ l \in cut \/ (SecUsable(l) /\ secArr[l] = "normal")
    <3>1. granted # NoStage
      BY <2>1 DEF NoStage, UPDATE_FINALIZE
    <3>2. \A l \in Luns : Prepared(granted, l)
      BY <3>1 DEF ScriptInv, IInv, Progress
    <3> QED
      BY <2>1, <3>2 DEF Prepared
  <2>4. \A l \in Luns, c \in Chains : image[c][l] = "new"
    BY <2>2 DEF MainNew, BakNew, Chains
  <2>5. UsesXbl => bootLun = "main" /\ \A c \in Chains : xbl[c] = "new"
    BY <2>2 DEF MainNew, BakNew, Chains
  <2> QED
    BY <2>3, <2>4, <2>5 DEF DoneMeansUpdated
<1> QED
  BY <1>1, <1>2, InitScriptInv, PTL DEF ScriptSpec

-----------------------------------------------------------------------------
(* The script between two power losses, when every listed disk has backups. *)
(* A stage leaves each disk as the next one expects it, also where it       *)
(* passed over the disk or failed on it.                                    *)

Passed(l) == l \notin todo /\ (pc = "loop" \/ l # cur)

Staged ==
  /\ step = UPDATE_MAIN =>
       /\ pc # "idle" => \A l \in Luns : Passed(l) => ~BothOk(l)
       /\ pc = "idle" /\ mode # "call" => \A l \in Luns : ~BothOk(l)
  /\ step = UPDATE_BACKUP =>
       /\ mode = "call" => \A l \in Luns : ~BothOk(l)
       /\ pc # "idle" =>
            /\ ~isError
            /\ \A l \in Luns : IF Passed(l) THEN BadSig(secHdr[l])
                                           ELSE BothOk(l) => pc = "secondary" /\ l = cur
       /\ pc = "idle" /\ mode # "call" =>
            granted = step /\ \A l \in Luns : BadSig(secHdr[l])
  /\ step = UPDATE_FINALIZE =>
       /\ mode = "call" => \A l \in Luns : BadSig(secHdr[l])
       /\ pc # "idle" =>
            /\ ~isError
            /\ \A l \in Luns : l \in todo \/ (pc = "inspect" /\ l = cur) => BadSig(secHdr[l])
       /\ pc = "idle" /\ mode # "call" => granted = step

(* The xbl images of a target that does not switch them are left alone.     *)
XblWhole == ~UsesXbl => \A c \in Chains : xbl[c] # "torn"

Tidy == ScriptInv /\ Staged /\ XblWhole

LEMMA BadIsNotOk == ASSUME NEW l \in Luns, BadSig(secHdr[l]) PROVE ~BothOk(l)
  BY DEF BadSig, BothOk

LEMMA InitTidy == ScriptInit => Tidy
<1> SUFFICES ASSUME ScriptInit PROVE Tidy
  OBVIOUS
<1>1. step = UPDATE_MAIN /\ pc = "idle" /\ mode = "call" /\ xbl = [c \in Chains |-> "old"]
  BY DEF ScriptInit, Init
<1>2. Staged /\ XblWhole
  BY <1>1 DEF Staged, XblWhole, UPDATE_MAIN, UPDATE_BACKUP, UPDATE_FINALIZE
<1> QED
  BY <1>2, InitScriptInv DEF Tidy

LEMMA CallOnward == ASSUME Tidy, Call PROVE Staged' /\ XblWhole' /\ Onward
<1>1. mode = "call" /\ pc = "idle" /\ writing = NoTarget
  BY DEF Call, Tidy, ScriptInv, ModeOK
<1> USE DEF UPDATE_MAIN, UPDATE_BACKUP, UPDATE_FINALIZE
<1>2. CASE CallPrepare(step) /\ mode' = "wait" /\ step' = step
  <2>1. /\ pc' = "loop" /\ todo' = Luns /\ isError' = FALSE /\ xbl' = xbl
        /\ primHdr' = primHdr /\ secHdr' = secHdr
    BY <1>2 DEF CallPrepare, gpt, images
  <2>2. \A l \in Luns : ~Passed(l)' /\ BothOk(l)' = BothOk(l)
    BY <2>1 DEF Passed, BothOk
  <2>3. Staged'
    BY <1>1, <1>2, <2>1, <2>2 DEF Tidy, Staged, BadSig
  <2>4. Onward
    BY <1>1, <1>2 DEF Onward, ModeRank
  <2> QED
    BY <2>1, <2>3, <2>4 DEF Tidy, XblWhole
<1>3. ~(step = UPDATE_BACKUP /\ ~MainIntact)
  <2> SUFFICES ASSUME step = UPDATE_BACKUP PROVE MainIntact
    OBVIOUS
  <2>1. MainNew /\ (~UsesXbl => xbl["main"] # "torn")
    BY DEF Tidy, XblWhole, ScriptInv, MainFirst, Chains
  <2> QED
    BY <2>1 DEF MainNew, MainIntact
<1>4. ~(step = UPDATE_FINALIZE /\ ~BakIntact)
  <2> SUFFICES ASSUME step = UPDATE_FINALIZE PROVE BakIntact
    OBVIOUS
  <2>1. \A l \in Luns : ~BothOk(l)
    BY <1>1, BadIsNotOk DEF Tidy, Staged
  <2>2. BakNew /\ (~UsesXbl => xbl["bak"] # "torn")
    BY <1>1, <2>1 DEF Tidy, XblWhole, ScriptInv, BakThen, Chains
  <2> QED
    BY <2>2 DEF BakNew, BakIntact
<1> QED
  BY <1>2, <1>3, <1>4 DEF Call

LEMMA AnswerOnward == ASSUME Tidy, Answer PROVE Staged' /\ XblWhole' /\ Onward
<1>1. /\ mode = "wait" /\ pc = "idle" /\ step \in Stages
      /\ pc' = pc /\ granted' = granted /\ xbl' = xbl /\ primHdr' = primHdr /\ secHdr' = secHdr
  BY DEF Answer, Tidy, ScriptInv, ModeOK, vars, gpt, images, caller
<1>2. \A l \in Luns : BothOk(l)' = BothOk(l)
  BY <1>1 DEF BothOk
<1>3. XblWhole'
  BY <1>1 DEF Tidy, XblWhole
<1> USE DEF Stages, UPDATE_MAIN, UPDATE_BACKUP, UPDATE_FINALIZE
<1>4. CASE mode' \in {"write", "done"} /\ step' = step
  <2>1. Onward
    BY <1>1, <1>4 DEF Onward, ModeRank
  <2> QED
    BY <1>1, <1>2, <1>3, <1>4, <2>1 DEF Tidy, Staged, BadSig
<1>5. CASE granted = NoStage /\ step # UPDATE_FINALIZE /\ Advance
  <2>1. step = UPDATE_MAIN /\ step' = UPDATE_BACKUP /\ mode' = "call"
    BY <1>1, <1>5 DEF Tidy, Staged, Advance, NoStage
  <2> QED
    BY <1>1, <1>2, <1>3, <2>1 DEF Tidy, Staged, Onward
<1>6. ~(step = UPDATE_FINALIZE /\ granted = NoStage)
  BY <1>1 DEF Tidy, Staged, NoStage
<1> QED
  BY <1>4, <1>5, <1>6 DEF Answer

LEMMA WriteOnward == ASSUME Tidy, WriteImages PROVE Staged' /\ XblWhole' /\ Onward
<1>1. /\ mode = "write" /\ pc = "idle" /\ granted = step /\ step # UPDATE_FINALIZE
      /\ step \in Stages /\ left \subseteq Luns \cup {Xbl}
  BY DEF WriteImages, Tidy, ScriptInv, ModeOK
<1> USE DEF Stages, UPDATE_MAIN, UPDATE_BACKUP, UPDATE_FINALIZE
<1>2. ASSUME step' = step, mode' = mode, UNCHANGED <<gpt, pc, granted>> PROVE Staged'
  <2>1. \A l \in Luns : BothOk(l)' = BothOk(l)
    BY <1>2 DEF BothOk, gpt
  <2> QED
    BY <1>1, <1>2, <2>1 DEF Tidy, Staged, BadSig, gpt
<1>3. ASSUME NEW t \in Luns \cup {Xbl}, NEW v \in Image, Put(t, v), t = Xbl => UsesXbl
      PROVE  XblWhole'
  BY <1>3, TargetAssumption DEF Put, Tidy, XblWhole
<1>4. ASSUME NEW t \in left, BeginWrite(t), left' = left \ {t}, UNCHANGED <<step, mode>>
      PROVE  Staged' /\ XblWhole' /\ Onward
  <2>1. Onward
    BY <1>1, <1>4 DEF Onward
  <2>2. Put(t, "torn") /\ (t = Xbl => UsesXbl) /\ UNCHANGED <<gpt, pc, granted>>
    BY <1>4 DEF BeginWrite
  <2>3. "torn" \in Image /\ t \in Luns \cup {Xbl}
    BY <1>1 DEF Image
  <2> QED
    BY <1>2, <1>3, <1>4, <2>1, <2>2, <2>3
<1>5. CASE EndWrite /\ UNCHANGED <<step, mode, left>>
  <2>1. writing # NoTarget /\ writing' = NoTarget /\ UNCHANGED <<gpt, pc, granted>>
        /\ Put(writing, "new")
    BY <1>5 DEF EndWrite
  <2>2. writing \in Luns \cup {Xbl} /\ (writing = Xbl => UsesXbl) /\ "new" \in Image
    BY <2>1 DEF Tidy, ScriptInv, IInv, TypeOK, Control, Image
  <2>3. Onward
    BY <1>1, <1>5, <2>1 DEF Onward
  <2> QED
    BY <1>2, <1>3, <1>5, <2>1, <2>2, <2>3
<1>6. CASE Advance /\ UNCHANGED vars
  <2>1. /\ step' = step + 1 /\ mode' = "call" /\ pc' = pc /\ xbl' = xbl
        /\ primHdr' = primHdr /\ secHdr' = secHdr
    BY <1>6 DEF Advance, vars, gpt, images
  <2>2. \A l \in Luns : BothOk(l)' = BothOk(l)
    BY <2>1 DEF BothOk
  <2> QED
    BY <1>1, <2>1, <2>2 DEF Tidy, Staged, XblWhole, Onward, BadSig
<1> QED
  BY <1>4, <1>5, <1>6 DEF WriteImages

LEMMA PowerLossTidy == ASSUME Tidy, PowerLoss PROVE Staged' /\ XblWhole' /\ crashes' > crashes
<1>1. /\ step' = UPDATE_MAIN /\ mode' = "call" /\ pc' = "idle" /\ xbl' = xbl
      /\ crashes' = crashes + 1
  BY DEF PowerLoss, Crash, Restart, images
<1>2. crashes \in Nat
  BY GptAssumption DEF Tidy, ScriptInv, IInv, TypeOK, BoundsOK
<1> QED
  BY <1>1, <1>2 DEF Tidy, Staged, XblWhole, UPDATE_MAIN, UPDATE_BACKUP, UPDATE_FINALIZE

(* The steps of prepare_boot_update: the loop, and a disk.                  *)
LEMMA LoopOnward ==
  ASSUME Tidy, NEW k \in Luns, NextLun(k), UNCHANGED <<step, mode, left>>
  PROVE  Staged' /\ Onward
<1>1. Prepare
  BY DEF Prepare
<1>2. mode = "wait" /\ pc # "idle"
  BY <1>1, PrepareBegins DEF Tidy
<1>3. /\ pc = "loop" /\ pc' = "inspect" /\ k \in todo /\ cur' = k /\ todo' = todo \ {k}
      /\ isError' = isError /\ primHdr' = primHdr /\ secHdr' = secHdr
  BY DEF NextLun, gpt
<1>4. \A l \in Luns : Passed(l)' = Passed(l) /\ BothOk(l)' = BothOk(l)
  BY <1>3 DEF Passed, BothOk
<1>5. Staged'
  BY <1>2, <1>3, <1>4 DEF Tidy, Staged, BadSig
<1>6. Onward
  BY <1>2, <1>3 DEF Onward
<1> QED
  BY <1>5, <1>6

LEMMA ReturnOnward ==
  ASSUME Tidy, Return, UNCHANGED <<step, mode, left>>
  PROVE  Staged' /\ Onward
<1>1. Prepare
  BY DEF Prepare
<1>2. mode = "wait" /\ stage = step
  BY <1>1, PrepareBegins DEF Tidy
<1>3. /\ pc = "loop" /\ pc' = "idle" /\ todo = {} /\ todo' = todo
      /\ granted' = (IF isError THEN NoStage ELSE stage)
      /\ primHdr' = primHdr /\ secHdr' = secHdr
  BY DEF Return, Outcome, gpt
<1>4. \A l \in Luns : Passed(l) /\ BothOk(l)' = BothOk(l)
  BY <1>3 DEF Passed, BothOk
<1>5. Staged'
  BY <1>2, <1>3, <1>4 DEF Tidy, Staged, BadSig, UPDATE_MAIN, UPDATE_BACKUP, UPDATE_FINALIZE
<1>6. Onward
  BY <1>2, <1>3 DEF Onward, PcRank
<1> QED
  BY <1>5, <1>6

LEMMA AtDiskOnward ==
  ASSUME Tidy, mode = "wait", UNCHANGED <<step, mode, left, todo, cur>>,
         pc \notin {"idle", "loop"}, pc' \notin {"idle", "inspect"}, PcRank[pc'] > PcRank[pc],
         \A l \in Luns \ {cur} : primHdr'[l] = primHdr[l] /\ secHdr'[l] = secHdr[l],
         step # UPDATE_MAIN => isError' = isError,
         step = UPDATE_MAIN /\ pc' = "loop" => ~BothOk(cur)',
         step = UPDATE_BACKUP => IF pc' = "loop" THEN BadSig(secHdr'[cur])
                                                 ELSE BothOk(cur)' => pc' = "secondary"
  PROVE  Staged' /\ Onward
<1>0. SUFFICES Staged'
  BY DEF Onward
<1>1. cur \in Luns /\ cur \notin todo
  BY DEF Tidy, ScriptInv, ModeOK, IInv, TypeOK
<1>2. ASSUME NEW l \in Luns, l # cur
      PROVE  Passed(l)' = Passed(l) /\ BothOk(l)' = BothOk(l) /\ secHdr'[l] = secHdr[l]
  BY <1>2 DEF Passed, BothOk
<1>3. ~Passed(cur) /\ (Passed(cur)' <=> pc' = "loop")
  BY <1>1 DEF Passed
<1> USE DEF UPDATE_MAIN, UPDATE_BACKUP, UPDATE_FINALIZE
<1>4. CASE step = UPDATE_MAIN
  <2>1. ASSUME NEW l \in Luns, Passed(l)' PROVE ~BothOk(l)'
    <3>1. CASE l = cur
      BY <1>3, <1>4, <2>1, <3>1
    <3>2. CASE l # cur
      BY <1>2, <1>4, <2>1, <3>2 DEF Tidy, Staged
    <3> QED
      BY <3>1, <3>2
  <2> QED
    BY <1>4, <2>1 DEF Staged
<1>5. CASE step = UPDATE_BACKUP
  <2>1. ASSUME NEW l \in Luns
        PROVE  IF Passed(l)' THEN BadSig(secHdr'[l])
                             ELSE BothOk(l)' => pc' = "secondary" /\ l = cur
    BY <1>2, <1>3, <1>5, <2>1 DEF Tidy, Staged
  <2> QED
    BY <1>5, <2>1 DEF Tidy, Staged, BadSig
<1>6. CASE step = UPDATE_FINALIZE
  <2>1. ASSUME NEW l \in Luns, l \in todo PROVE BadSig(secHdr'[l])
    BY <1>1, <1>2, <1>6, <2>1 DEF Tidy, Staged
  <2> QED
    BY <1>6, <2>1 DEF Tidy, Staged, BadSig
<1>7. step \in Stages
  BY DEF Tidy, ScriptInv, ModeOK
<1> QED
  BY <1>4, <1>5, <1>6, <1>7 DEF Stages

(* What prepare_partitions finds on a disk, and where it goes from there.   *)
LEMMA InspectOnward ==
  ASSUME Tidy, Inspect, UNCHANGED <<step, mode, left>>
  PROVE  Staged' /\ Onward
<1>1. Prepare
  BY DEF Prepare
<1>2. mode = "wait" /\ stage = step /\ stage \in Stages
  BY <1>1, PrepareBegins DEF Tidy
<1>3. /\ pc = "inspect" /\ primHdr' = primHdr /\ secHdr' = secHdr
      /\ todo' = todo /\ cur' = cur
  BY DEF Inspect, gpt, Running
<1>4. /\ cur \in Luns /\ cur \notin todo /\ ~Passed(cur)
      /\ primHdr[cur] \in {"GPT_OK", "GPT_BAD_SIGNATURE"}
      /\ secHdr[cur] \in {"GPT_OK", "GPT_BAD_SIGNATURE"}
      /\ BadSig(secHdr[cur]) => primHdr[cur] = "GPT_OK"
  BY <1>3 DEF Tidy, ScriptInv, ModeOK, IInv, TypeOK, Undamaged, GptPair, PrimUsable, Passed
<1>5. ~Unacceptable(cur) /\ BothOk(cur)' = BothOk(cur)
  BY <1>3, <1>4 DEF Unacceptable, BothOk, BadSig
<1>6. \/ AlreadySet(cur) /\ pc' = "loop" /\ isError' = isError
      \/ ~AlreadySet(cur) /\ stage # InternalStage(cur) /\ pc' = "loop"
      \/ /\ stage = InternalStage(cur) /\ isError' = isError
         /\ pc' = IF stage = UPDATE_FINALIZE THEN "chain_hdr" ELSE "bootlun"
  BY <1>5 DEF Inspect, Continue, Reject
<1>7. pc' \in {"loop", "chain_hdr", "bootlun"}
  BY <1>6
<1>8. PcRank[pc'] > PcRank[pc]
  BY <1>3, <1>7 DEF PcRank
<1> USE DEF Stages, UPDATE_MAIN, UPDATE_BACKUP, UPDATE_FINALIZE
<1>9. CASE step = UPDATE_MAIN
  <2>1. BothOk(cur) => stage = InternalStage(cur)
    BY <1>2, <1>9 DEF BothOk, InternalStage
  <2>2. pc' = "loop" => ~BothOk(cur)
    BY <1>2, <1>6, <1>9, <2>1 DEF AlreadySet
  <2> QED
    BY <1>2, <1>3, <1>5, <1>7, <1>8, <1>9, <2>2, AtDiskOnward
<1>10. CASE step = UPDATE_BACKUP
  <2>1. ~BothOk(cur)
    BY <1>2, <1>3, <1>4, <1>10 DEF Tidy, Staged
  <2>2. \/ primHdr[cur] = "GPT_BAD_SIGNATURE" /\ InternalStage(cur) = UPDATE_BACKUP
        \/ BadSig(secHdr[cur]) /\ InternalStage(cur) = UPDATE_FINALIZE
    BY <1>4, <2>1 DEF BothOk, BadSig, InternalStage
  <2>3. isError' = isError /\ (pc' = "loop" => BadSig(secHdr[cur]))
    BY <1>2, <1>6, <1>10, <2>2 DEF AlreadySet
  <2> QED
    BY <1>2, <1>3, <1>5, <1>7, <1>8, <1>10, <2>1, <2>3, AtDiskOnward
<1>11. CASE step = UPDATE_FINALIZE
  <2>1. BadSig(secHdr[cur])
    BY <1>2, <1>3, <1>4, <1>11 DEF Tidy, Staged
  <2>2. InternalStage(cur) = UPDATE_FINALIZE
    BY <1>4, <2>1 DEF InternalStage, BadSig
  <2>3. isError' = isError
    BY <1>2, <1>6, <1>11, <2>2 DEF AlreadySet
  <2> QED
    BY <1>2, <1>3, <1>7, <1>8, <1>11, <2>3, AtDiskOnward
<1> QED
  BY <1>2, <1>9, <1>10, <1>11

LEMMA WritesOnward ==
  ASSUME Tidy, HasBackup = Luns, MaxIoErrors = 0, UNCHANGED <<step, mode, left>>,
         \/ SetBootLun \/ SetChainHeader \/ SetChainArrayBegin \/ SetChainArrayEnd
         \/ SetPrimary \/ SetSecondary
  PROVE  Staged' /\ Onward
<1>1. Prepare
  BY DEF Prepare
<1>2. mode = "wait" /\ stage = step /\ stage \in Stages /\ pc # "idle"
  BY <1>1, PrepareBegins DEF Tidy
<1>3. /\ ~IoFault /\ Control
  BY NoFaults DEF Tidy, ScriptInv, IInv
<1>4. /\ cur \in Luns /\ primArrOk[cur]
      /\ primHdr \in [Luns -> HeaderState] /\ secHdr \in [Luns -> HeaderState]
  BY <1>2 DEF Tidy, ScriptInv, ModeOK, IInv, TypeOK, Undamaged
<1>5. cur \in Luns /\ todo' = todo /\ cur' = cur
  BY DEF Tidy, ScriptInv, IInv, TypeOK, SetBootLun, SetChainHeader, SetChainArrayBegin,
     SetChainArrayEnd, SetPrimary, SetSecondary, Running
<1> USE DEF Stages, UPDATE_MAIN, UPDATE_BACKUP, UPDATE_FINALIZE
<1>6. ASSUME primHdr' = primHdr, secHdr' = secHdr, isError' = isError,
             pc \notin {"idle", "loop"}, pc' \notin {"idle", "inspect", "loop"},
             PcRank[pc'] > PcRank[pc], step = UPDATE_BACKUP => pc = "bootlun"
      PROVE  Staged' /\ Onward
  <2>1. BothOk(cur)' = BothOk(cur)
    BY <1>5, <1>6 DEF BothOk
  <2>2. step = UPDATE_BACKUP => ~BothOk(cur)
    BY <1>2, <1>5, <1>6, BadIsNotOk DEF Tidy, Staged
  <2> QED
    BY <1>2, <1>5, <1>6, <2>1, <2>2, AtDiskOnward
<1>7. CASE SetBootLun
  <2>1. /\ pc = "bootlun" /\ primHdr' = primHdr /\ secHdr' = secHdr
        /\ pc' \in {"chain_hdr", "primary"} /\ isError' = isError
    BY <1>3, <1>7 DEF SetBootLun, AfterBootLun, Continue, gpt
  <2>2. PcRank[pc'] > PcRank[pc]
    BY <2>1 DEF PcRank
  <2> QED
    BY <1>6, <2>1, <2>2
<1>8. CASE SetChainHeader
  <2>1. /\ pc = "chain_hdr" /\ primHdr' = primHdr /\ secHdr' = secHdr
        /\ pc' = "chain_arr" /\ isError' = isError
    BY <1>3, <1>4, <1>5, <1>8 DEF SetChainHeader, Continue
  <2>2. PcRank[pc'] > PcRank[pc] /\ step # UPDATE_BACKUP
    BY <1>2, <1>3, <2>1 DEF PcRank, Control
  <2> QED
    BY <1>6, <2>1, <2>2
<1>9. CASE SetChainArrayBegin
  <2>1. /\ pc = "chain_arr" /\ primHdr' = primHdr /\ secHdr' = secHdr
        /\ pc' = "chain_end" /\ isError' = isError
    BY <1>3, <1>9 DEF SetChainArrayBegin, Continue
  <2>2. PcRank[pc'] > PcRank[pc] /\ step # UPDATE_BACKUP
    BY <1>2, <1>3, <2>1 DEF PcRank, Control
  <2> QED
    BY <1>6, <2>1, <2>2
<1>10. CASE SetChainArrayEnd
  <2>1. /\ pc = "chain_end" /\ primHdr' = primHdr /\ secHdr' = secHdr
        /\ pc' \in {"primary", "secondary"} /\ isError' = isError
    BY <1>3, <1>10 DEF SetChainArrayEnd, AfterChain, Continue
  <2>2. PcRank[pc'] > PcRank[pc] /\ step # UPDATE_BACKUP
    BY <1>2, <1>3, <2>1 DEF PcRank, Control
  <2> QED
    BY <1>6, <2>1, <2>2
<1>11. CASE SetPrimary
  <2> DEFINE new == IF stage = UPDATE_MAIN THEN "GPT_BAD_SIGNATURE" ELSE "GPT_OK"
  <2>1. /\ pc = "primary" /\ primHdr' = [primHdr EXCEPT ![cur] = new]
        /\ secHdr' = secHdr /\ isError' = isError
        /\ pc' = IF stage = UPDATE_MAIN THEN "loop" ELSE "secondary"
    BY <1>3, <1>11 DEF SetPrimary, Continue
  <2>2. primHdr'[cur] = new /\ \A l \in Luns \ {cur} : primHdr'[l] = primHdr[l]
    BY <1>4, <1>5, <2>1
  <2>3. PcRank[pc'] > PcRank[pc]
    BY <2>1 DEF PcRank
  <2>4. step = UPDATE_MAIN => ~BothOk(cur)'
    BY <1>2, <1>5, <2>2 DEF BothOk
  <2> QED
    BY <1>2, <1>5, <2>1, <2>2, <2>3, <2>4, AtDiskOnward
<1>12. CASE SetSecondary
  <2> DEFINE new == IF stage = UPDATE_BACKUP THEN "GPT_BAD_SIGNATURE" ELSE "GPT_OK"
  <2>1. /\ pc = "secondary" /\ secHdr' = [secHdr EXCEPT ![cur] = new]
        /\ primHdr' = primHdr /\ isError' = isError /\ pc' = "loop"
    BY <1>3, <1>12 DEF SetSecondary, SecondaryState, Continue
  <2>2. secHdr'[cur] = new /\ \A l \in Luns \ {cur} : secHdr'[l] = secHdr[l]
    BY <1>4, <1>5, <2>1
  <2>3. PcRank[pc'] > PcRank[pc] /\ step # UPDATE_MAIN
    BY <1>2, <1>3, <2>1 DEF PcRank, Control
  <2>4. step = UPDATE_BACKUP => BadSig(secHdr'[cur])
    BY <1>2, <2>2 DEF BadSig
  <2> QED
    BY <1>2, <1>5, <2>1, <2>2, <2>3, <2>4, AtDiskOnward
<1> QED
  BY <1>7, <1>8, <1>9, <1>10, <1>11, <1>12

LEMMA TidyStep ==
  ASSUME HasBackup = Luns, MaxIoErrors = 0, Tidy, [ScriptNext]_scriptVars
  PROVE  Tidy' /\ [Onward \/ crashes' > crashes]_scriptVars
<1>1. ScriptInv'
  BY ScriptStep DEF Tidy
<1>2. CASE Call \/ Answer \/ WriteImages \/ PowerLoss
  BY <1>1, <1>2, CallOnward, AnswerOnward, WriteOnward, PowerLossTidy DEF Tidy
<1>3. CASE Prepare /\ UNCHANGED <<step, mode, left>>
  <2>1. Staged' /\ Onward
    BY <1>3, LoopOnward, ReturnOnward, InspectOnward, WritesOnward DEF Prepare
  <2>2. xbl' = xbl
    BY <1>3, PrepareBegins DEF Tidy
  <2> QED
    BY <1>1, <2>1, <2>2 DEF Tidy, XblWhole
<1>4. CASE UNCHANGED scriptVars
  <2>1. /\ pc' = pc /\ todo' = todo /\ cur' = cur /\ isError' = isError /\ granted' = granted
        /\ step' = step /\ mode' = mode /\ xbl' = xbl /\ primHdr' = primHdr /\ secHdr' = secHdr
    BY <1>4 DEF scriptVars, vars, gpt, images, caller
  <2>2. \A l \in Luns : Passed(l)' = Passed(l) /\ BothOk(l)' = BothOk(l)
    BY <2>1 DEF Passed, BothOk
  <2>3. Staged' /\ XblWhole'
    BY <2>1, <2>2 DEF Tidy, Staged, XblWhole, BadSig
  <2> QED
    BY <1>1, <1>4, <2>3 DEF Tidy
<1> QED
  BY <1>2, <1>3, <1>4 DEF ScriptNext, Run

(* Without I/O errors, and with backups on every listed disk, the script    *)
(* only gets nearer to its end between two power losses, wherever those     *)
(* fell: no disk is left in a stage that none of the following calls        *)
(* accepts (prepare_partitions: "already set", "unexpected stage").         *)
THEOREM HeadsForTheEnd ==
  HasBackup = Luns /\ MaxIoErrors = 0 => (ScriptSpec => NeverBack)
<1> SUFFICES ASSUME HasBackup = Luns, MaxIoErrors = 0 PROVE ScriptSpec => NeverBack
  OBVIOUS
<1>1. Tidy /\ [ScriptNext]_scriptVars => Tidy' /\ [Onward \/ crashes' > crashes]_scriptVars
  BY TidyStep
<1> QED
  BY <1>1, InitTidy, PTL DEF ScriptSpec, NeverBack
=============================================================================
