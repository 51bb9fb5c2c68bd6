--------------------------- MODULE OtaBootProofs ---------------------------
(* Theorems about OtaBoot, for every value of its constants: types, safety, *)
(* the two action properties, and that the boot logic implements the        *)
(* abstract update AbUpdate where torn saves and a sixth power cut are      *)
(* excluded.                                                                *)
EXTENDS OtaBootInv, TLAPS

(* What the helpers on environments return.                                *)

\* Rolling back keeps an environment an environment.
LEMMA RolledBackType ==
  ASSUME NEW e \in Environment, NEW k \in SlotValue, NEW r \in SlotValue
  PROVE  RolledBack(e, k, r) \in Environment
BY DEF RolledBack, Environment

LEMMA RollbackSlotType ==
  ASSUME NEW own \in SlotValue, NEW legacy \in SlotValue, NEW last \in SlotValue
  PROVE  RollbackSlot(own, legacy, last) \in SlotValue
BY DEF RollbackSlot, OrElse

LEMMA ScriptRollbackType ==
  ASSUME NEW e \in Environment
  PROVE  ScriptRollback(e) \in Environment
<1>1. "A" \in SlotValue BY DEF SlotValue, Slot
<1> QED BY <1>1, RolledBackType, RollbackSlotType DEF ScriptRollback, Environment

LEMMA AltRollbackType ==
  ASSUME NEW e \in Environment
  PROVE  AltRollback(e) \in Environment
<1>1. \A s : Other(s) \in SlotValue BY DEF Other, SlotValue, Slot
<1> QED BY <1>1, RolledBackType, RollbackSlotType DEF AltRollback, Environment

LEMMA DefaultsType ==
  ASSUME NEW e \in Environment
  PROVE  Defaults(e) \in Environment
<1>1. OrElse(e.boot_slot, "A") \in SlotValue BY DEF OrElse, Environment, SlotValue, Slot
<1>2. \A v \in SlotValue, d \in SlotValue : OrElse(v, d) \in SlotValue BY DEF OrElse
<1>3. OrElse(e.upgrade_available, "0") \in {Unset, "0", "1"} BY DEF OrElse, Environment
<1> QED BY <1>1, <1>2, <1>3 DEF Defaults, Environment

LEMMA NormalType == \A s : Normal(s) \in Slot
BY DEF Normal, Slot

LEMMA DefaultEnvType == DefaultEnv \in Environment
BY DEF DefaultEnv, Environment, SlotValue, NoTry

-----------------------------------------------------------------------------
(* Type correctness.                                                       *)

TypeInv == TypeOK /\ SlotsChosen

LEMMA TypeInit == Init => TypeInv
<1> SUFFICES ASSUME Init PROVE TypeInv
  OBVIOUS
<1>1. disk \in Environment
  <2>1. disk \in InitialEnvs BY DEF Init
  <2>2. CASE disk # DefaultEnv
    <3>1. PICK boot \in SlotValue, rollback \in Slot \union {Unset} :
            disk = LegacyEnv(boot, rollback)
      BY <2>1, <2>2 DEF InitialEnvs
    <3>2. boot \in SlotValue /\ rollback \in SlotValue BY <3>1 DEF SlotValue
    <3> QED BY <3>1, <3>2, DefaultEnvType DEF Environment, LegacyEnv
  <2> QED BY <2>2, DefaultEnvType
<1>2. confirmed \in Slot \X Slot
  BY NormalType DEF Init
<1>3. kernels \in [Slot \union {"zImage"} -> KernelQuality]
  BY FilesAssumption DEF Init, KernelQuality
<1>4. SlotsChosen
  BY DEF Init, SlotsChosen
<1> QED
  BY <1>1, <1>2, <1>3, <1>4 DEF Init, TypeInv, TypeOK, Label, Slot

LEMMA TypeNext == TypeInv /\ [Next]_vars => TypeInv'
<1> SUFFICES ASSUME TypeInv, [Next]_vars PROVE TypeInv'
  OBVIOUS
<1> USE DEF TypeInv, TypeOK, SlotsChosen, Label, Env, Goto, SaveThen, hist, images, linuxVars
<1>1. CASE UBoot
  <2>1. CASE SaveEnv BY <2>1 DEF SaveEnv
  <2>2. CASE PowerOn BY <2>2 DEF PowerOn
  <2>3. CASE Bootcount BY <2>3 DEF Bootcount, Environment
  <2>4. CASE RunBootcmd BY <2>4 DEF RunBootcmd
  <2>5. CASE RunAltbootcmd BY <2>5, AltRollbackType DEF RunAltbootcmd
  <2>6. CASE SetDefaults BY <2>6, DefaultsType DEF SetDefaults
  <2>7. CASE InstallAltbootcmd BY ZenonT(60), <2>7 DEF InstallAltbootcmd, Environment
  <2>8. CASE CountTry BY <2>8 DEF CountTry, Environment, NoTry
  <2>9. CASE ClearTry BY <2>9 DEF ClearTry, Environment
  <2>10. CASE GiveUp BY <2>10, ScriptRollbackType DEF GiveUp
  <2>11. CASE Retry BY <2>11 DEF Retry
  <2>12. CASE SelectSlots
    <3>1. \A s : Normal(s) \in SlotValue BY NormalType DEF SlotValue
    <3>2. env' \in Environment BY <2>12, <3>1 DEF SelectSlots, Environment
    <3>3. env'.kernel_slot \in Slot /\ env'.rootfs_slot \in Slot
      BY <2>12, NormalType DEF SelectSlots, Environment
    <3> QED BY <2>12, <3>2, <3>3 DEF SelectSlots
  <2>13. CASE LoadKernel BY <2>13 DEF LoadKernel
  <2>14. CASE LoadDtb BY <2>14 DEF LoadDtb
  <2>15. CASE StartKernel BY <2>15 DEF StartKernel
  <2>16. CASE BootzFailed BY <2>16, ScriptRollbackType DEF BootzFailed
  <2> QED
    BY <1>1, <2>1, <2>2, <2>3, <2>4, <2>5, <2>6, <2>7, <2>8, <2>9, <2>10, <2>11, <2>12,
       <2>13, <2>14, <2>15, <2>16 DEF UBoot
<1>2. CASE Panic BY <1>2 DEF Panic, ToOff, Slot
<1>3. CASE Reboot BY <1>3 DEF Reboot, ToOff, Healthy, Slot
<1>4. CASE Application
  <2>0. Healthy => env.kernel_slot \in Slot /\ env.rootfs_slot \in Slot
    BY DEF Healthy
  <2>1. CASE AppWriteImages
    <3>1. goal' \in Slot \X Slot BY <2>0, <2>1 DEF AppWriteImages, Other, Slot
    <3>2. /\ kernels' \in [Slot \union {"zImage"} -> KernelQuality]
          /\ rootfs' \in [Slot -> BOOLEAN]
      <4>1. PICK kernel \in KernelQuality, root \in BOOLEAN :
              /\ kernels' = kernels \/ kernels' = [kernels EXCEPT ![goal'[1]] = kernel]
              /\ rootfs' = rootfs \/ rootfs' = [rootfs EXCEPT ![goal'[2]] = root]
        <5>1. PICK kernel \in KernelQuality, root \in BOOLEAN, parts \in SUBSET {"kernel", "rootfs"} :
                /\ kernels' = IF "kernel" \in parts THEN [kernels EXCEPT ![goal'[1]] = kernel] ELSE kernels
                /\ rootfs' = IF "rootfs" \in parts THEN [rootfs EXCEPT ![goal'[2]] = root] ELSE rootfs
          BY <2>1 DEF AppWriteImages
        <5> QED BY <5>1
      <4>2. /\ kernels \in [Slot \union {"zImage"} -> KernelQuality]
            /\ rootfs \in [Slot -> BOOLEAN]
        OBVIOUS
      <4>3. kernels' \in [Slot \union {"zImage"} -> KernelQuality] BY <4>1, <4>2
      <4>4. rootfs' \in [Slot -> BOOLEAN] BY <4>1, <4>2
      <4> QED BY <4>3, <4>4
    <3>3. app' \in {"idle", "staging"} /\ otas' \in Nat BY <2>1 DEF AppWriteImages
    <3>4. UNCHANGED <<pc, ret, env, disk, loaded, confirmed, attempts, trials, wiped, cuts>>
      BY <2>1 DEF AppWriteImages
    <3> QED BY <3>1, <3>2, <3>3, <3>4
  <2>2. CASE AppSaveRollback
    <3>1. disk' \in Environment BY <2>2 DEF AppSaveRollback, FwSetenv, Environment
    <3> QED BY <2>2, <3>1 DEF AppSaveRollback, FwSetenv
  <2>3. CASE AppRaiseFlag
    <3>1. disk' \in Environment BY <2>3 DEF AppRaiseFlag, FwSetenv, Environment
    <3>2. confirmed' \in Slot \X Slot BY <2>0, <2>3 DEF AppRaiseFlag, FwSetenv, Slots
    <3>3. attempts' = 0 /\ trials' = 0 BY <2>3 DEF AppRaiseFlag
    <3>4. UNCHANGED <<pc, ret, env, images, linuxVars, wiped, cuts, otas>>
      BY <2>3 DEF AppRaiseFlag, FwSetenv
    <3> QED BY <3>1, <3>2, <3>3, <3>4
  <2>4. CASE AppSwitchSlot
    <3>1. goal[1] \in SlotValue /\ goal[2] \in SlotValue BY DEF SlotValue
    <3>2. disk' \in Environment BY <2>4, <3>1 DEF AppSwitchSlot, FwSetenv, Environment
    <3> QED BY <2>4, <3>2 DEF AppSwitchSlot, FwSetenv
  <2>5. CASE AppRestart BY <2>5 DEF AppRestart, Slot
  <2>6. CASE AppConfirm
    <3>1. disk' \in Environment BY <2>6 DEF AppConfirm, FwSetenv, Environment
    <3>2. confirmed' \in Slot \X Slot BY <2>0, <2>6 DEF AppConfirm, FwSetenv, Slots
    <3> QED BY <2>6, <3>1, <3>2 DEF AppConfirm, FwSetenv
  <2> QED BY <1>4, <2>1, <2>2, <2>3, <2>4, <2>5, <2>6 DEF Application
<1>5. CASE PowerCut
  <2>1. disk' \in Environment BY <1>5, DefaultEnvType DEF PowerCut
  <2>2. cuts' \in Nat BY <1>5 DEF PowerCut
  <2>4. wiped' \in BOOLEAN BY <1>5, Zenon DEF PowerCut
  <2>3. /\ pc' = "off" /\ app' = "idle" /\ goal' \in Slot \X Slot
        /\ UNCHANGED <<ret, env, images, confirmed, attempts, trials, otas>>
    BY <1>5 DEF PowerCut, ToOff, Slot
  <2> QED BY <2>1, <2>2, <2>3, <2>4
<1>6. CASE UNCHANGED vars BY <1>6 DEF vars
<1> QED BY <1>1, <1>2, <1>3, <1>4, <1>5, <1>6 DEF Next

\* Every variable keeps its type, whatever the constants are.
THEOREM TypeCorrect == Spec => []TypeOK
<1>1. TypeInv => TypeOK BY DEF TypeInv
<1> QED BY <1>1, TypeInit, TypeNext, PTL DEF Spec

-----------------------------------------------------------------------------
(* What an environment says of the update, and what changes it.            *)

LEMMA BootsType == \A e : Boots(e) \in Slot \X Slot
BY NormalType DEF Boots

\* Slots that need no normalisation boot as they stand.
LEMMA BootsSlots ==
  ASSUME NEW e \in Environment, Slots(e) \in Slot \X Slot
  PROVE  Boots(e) = Slots(e)
<1>1. /\ Defaults(e).kernel_slot = e.kernel_slot
      /\ Defaults(e).rootfs_slot = e.rootfs_slot
  <2>1. e.kernel_slot # Unset /\ e.rootfs_slot # Unset
    BY DEF Slots, Slot, Unset
  <2> QED BY <2>1 DEF Defaults, OrElse, Environment
<1>2. \A s \in Slot : Normal(s) = s
  BY DEF Normal, Slot
<1> QED BY <1>1, <1>2 DEF Boots, Slots

LEMMA DefaultsFields ==
  ASSUME NEW e \in Environment
  PROVE  LET boot == OrElse(e.boot_slot, "A") IN
         /\ Defaults(e).boot_slot = boot
         /\ Defaults(e).kernel_slot = OrElse(e.kernel_slot, boot)
         /\ Defaults(e).rootfs_slot = OrElse(e.rootfs_slot, boot)
         /\ Defaults(e).upgrade_available = OrElse(e.upgrade_available, "0")
         /\ Defaults(e).kernel_rollback_slot = e.kernel_rollback_slot
         /\ Defaults(e).rootfs_rollback_slot = e.rootfs_rollback_slot
         /\ Defaults(e).rollback_slot = e.rollback_slot
         /\ Defaults(e).ota_try = e.ota_try
         /\ Defaults(e).ota_env_ready = e.ota_env_ready
BY DEF Defaults, Environment

\* The view is made of these fields alone.
LEMMA SameView ==
  ASSUME NEW e \in Environment, NEW f \in Environment,
         e.boot_slot = f.boot_slot, e.kernel_slot = f.kernel_slot,
         e.rootfs_slot = f.rootfs_slot, e.rollback_slot = f.rollback_slot,
         e.kernel_rollback_slot = f.kernel_rollback_slot,
         e.rootfs_rollback_slot = f.rootfs_rollback_slot,
         e.upgrade_available = f.upgrade_available
  PROVE  View(e) = View(f)
<1>1. Boots(e) = Boots(f) BY DefaultsFields DEF Boots
<1> QED BY <1>1 DEF View, Pending, RollbackPair

\* Filling in the defaults does not change the view.
LEMMA ViewDefaults ==
  ASSUME NEW e \in Environment
  PROVE  View(Defaults(e)) = View(e)
<1> DEFINE d == Defaults(e)
<1>1. d \in Environment BY DefaultsType
<1>2. Pending(d) = Pending(e) BY DefaultsFields DEF Pending, OrElse, Unset
<1>3. RollbackPair(d) = RollbackPair(e) BY DefaultsFields DEF RollbackPair
<1>4. \A v, w : OrElse(OrElse(v, w), w) = OrElse(v, w) BY DEF OrElse
<1>5. \A v : v = "A" => OrElse(v, "A") = v BY DEF OrElse
<1>6. OrElse(OrElse(e.boot_slot, "A"), "A") = OrElse(e.boot_slot, "A") BY <1>4
<1>7. Boots(d) = Boots(e)
  BY <1>1, <1>4, <1>6, DefaultsFields DEF Boots
<1> QED BY <1>2, <1>3, <1>7 DEF View

\* What a rollback makes of an environment whose rollback variables are set.
LEMMA RolledBackFields ==
  ASSUME NEW e \in Environment, NEW k \in SlotValue, NEW r \in SlotValue
  PROVE  LET f == RolledBack(e, k, r) IN
         /\ Slots(f) = <<k, r>> /\ ~Pending(f)
         /\ f.ota_try = 0 /\ f.ota_env_ready = e.ota_env_ready
BY DEF RolledBack, Environment, Slots, Pending

LEMMA RollbackSlotSet ==
  ASSUME NEW own, NEW legacy, NEW last, RollbackSlot(own, legacy, Unset) # Unset
  PROVE  RollbackSlot(own, legacy, last) = RollbackSlot(own, legacy, Unset)
BY DEF RollbackSlot, OrElse

LEMMA RollbackFields ==
  ASSUME NEW e \in Environment, RollbackPair(e) \in Slot \X Slot,
         NEW f \in {ScriptRollback(e), AltRollback(e)}
  PROVE  /\ Slots(f) = RollbackPair(e) /\ ~Pending(f)
         /\ f.ota_try = 0 /\ f.ota_env_ready = e.ota_env_ready
<1> DEFINE k(last) == RollbackSlot(e.kernel_rollback_slot, e.rollback_slot, last)
           r(last) == RollbackSlot(e.rootfs_rollback_slot, e.rollback_slot, last)
<1>1. k(Unset) \in Slot /\ r(Unset) \in Slot BY DEF RollbackPair
<1>2. Unset \notin Slot BY DEF Unset, Slot
<1>3. ASSUME NEW a, NEW b PROVE <<k(a), r(b)>> = RollbackPair(e)
  BY <1>1, <1>2, RollbackSlotSet DEF RollbackPair
<1>4. ASSUME NEW a, NEW b PROVE k(a) \in SlotValue /\ r(b) \in SlotValue
  BY <1>1, <1>3 DEF RollbackPair, SlotValue
<1>5. CASE f = ScriptRollback(e)
  <2> HIDE DEF k, r
  <2>1. f = RolledBack(e, k("A"), r("A")) BY <1>5 DEF ScriptRollback, k, r
  <2> QED BY <2>1, <1>3, <1>4, RolledBackFields
<1>6. CASE f = AltRollback(e)
  <2> HIDE DEF k, r
  <2>1. f = RolledBack(e, k(Other(e.kernel_slot)), r(Other(e.rootfs_slot)))
    BY <1>6 DEF AltRollback, k, r
  <2> QED BY <2>1, <1>3, <1>4, RolledBackFields
<1> QED BY <1>5, <1>6

\* Environments with the same view agree on the update.
LEMMA ViewParts ==
  ASSUME NEW e, NEW f, View(e) = View(f)
  PROVE  /\ Pending(e) <=> Pending(f)
         /\ RollbackPair(e) = RollbackPair(f) /\ Boots(e) = Boots(f)
<1>1. /\ View(e).pending = View(f).pending /\ View(e).rollback = View(f).rollback
      /\ View(e).boots = View(f).boots
  OBVIOUS
<1> QED BY <1>1 DEF View

\* The default environment has no update pending and boots slot A.
LEMMA ViewDefaultEnv == ~Pending(DefaultEnv) /\ Boots(DefaultEnv) = <<"A", "A">>
<1>1. ~Pending(DefaultEnv) BY DEF Pending, DefaultEnv, Unset
<1>2. /\ DefaultEnv.boot_slot = Unset /\ DefaultEnv.kernel_slot = Unset
      /\ DefaultEnv.rootfs_slot = Unset
  BY DEF DefaultEnv
<1>3. /\ Defaults(DefaultEnv).kernel_slot = "A" /\ Defaults(DefaultEnv).rootfs_slot = "A"
  BY <1>2, DefaultsFields, DefaultEnvType DEF OrElse
<1> QED BY <1>1, <1>3 DEF Boots, Normal

LEMMA ViewLegacyEnv ==
  ASSUME NEW boot \in SlotValue, NEW rollback \in SlotValue
  PROVE  LET e == LegacyEnv(boot, rollback) IN
         ~Pending(e) /\ Boots(e) = <<Normal(boot), Normal(boot)>>
         /\ e.boot_slot = boot /\ e.ota_try = NoTry
<1> DEFINE e == LegacyEnv(boot, rollback)
<1>1. e \in Environment BY DefaultEnvType DEF LegacyEnv, Environment
<1>2. /\ e.boot_slot = boot /\ e.upgrade_available = "0" /\ e.ota_try = NoTry
      /\ e.kernel_slot = Unset /\ e.rootfs_slot = Unset
  BY DEF LegacyEnv, DefaultEnv
<1>3. /\ Defaults(e).kernel_slot = OrElse(boot, "A")
      /\ Defaults(e).rootfs_slot = OrElse(boot, "A")
  <2> HIDE DEF e
  <2> QED BY <1>1, <1>2, DefaultsFields DEF OrElse
<1>4. Normal(OrElse(boot, "A")) = Normal(boot) BY DEF Normal, OrElse, Unset
<1>5. Boots(e) = <<Normal(boot), Normal(boot)>>
  <2> HIDE DEF e
  <2> QED BY <1>3, <1>4 DEF Boots
<1> QED BY <1>2, <1>5 DEF Pending

-----------------------------------------------------------------------------
(* The invariant holds initially and every step preserves it.              *)

LEMMA InvInit == Init => IInv
<1> SUFFICES ASSUME Init PROVE IInv
  OBVIOUS
<1>1. TypeInv BY TypeInit
<1>2. pc = "off" /\ ret = "off" /\ env = disk /\ trials = 0 /\ cuts = 0
  BY DEF Init
<1>3. ~Pending(disk) /\ Boots(disk) = confirmed
  <2>1. disk \in InitialEnvs BY DEF Init
  <2>2. confirmed = <<Normal(disk.boot_slot), Normal(disk.boot_slot)>> BY DEF Init
  <2>3. CASE disk = DefaultEnv
    <3>1. DefaultEnv.boot_slot = Unset BY DEF DefaultEnv
    <3> QED BY <2>2, <2>3, <3>1, ViewDefaultEnv DEF Normal, Unset
  <2>4. CASE disk # DefaultEnv
    <3>1. PICK boot \in SlotValue, rollback \in Slot \union {Unset} :
            disk = LegacyEnv(boot, rollback)
      BY <2>1, <2>4 DEF InitialEnvs
    <3>2. rollback \in SlotValue BY <3>1 DEF SlotValue
    <3> QED BY <2>2, <3>1, <3>2, ViewLegacyEnv
  <2> QED BY <2>3, <2>4
<1>4. Tried(disk) <= 3
  <2>1. disk.ota_try = NoTry
    <3>1. disk \in InitialEnvs BY DEF Init
    <3>2. DefaultEnv.ota_try = NoTry BY DEF DefaultEnv
    <3>3. \A rollback \in Slot \union {Unset} : rollback \in SlotValue BY DEF SlotValue
    <3> QED BY <3>1, <3>2, <3>3, ViewLegacyEnv DEF InitialEnvs
  <2> QED BY <2>1 DEF Tried
<1>5. RamAgrees BY <1>2 DEF RamAgrees, Booting, BeforeCount, AfterCount, Rolling
<1>6. ReadyStored BY <1>2, <1>3 DEF ReadyStored
<1>10. Filled BY <1>2 DEF Filled
<1>7. Undoable BY <1>2, <1>3 DEF Undoable
<1>8. Counted BY <1>2, <1>3 DEF Counted, BeforeCount, AfterCount
<1>9. TryBound BY <1>2, <1>4 DEF TryBound, Chosen, Rolling
<1> QED
  BY <1>1, <1>2, <1>5, <1>6, <1>7, <1>8, <1>9, <1>10 DEF IInv, TypeInv, AtMostThreeTrials

LEMMA InvNext == IInv /\ [Next]_vars => IInv'
<1> SUFFICES ASSUME IInv, [Next]_vars PROVE IInv'
  OBVIOUS
<1> DEFINE Rest == RamAgrees /\ Filled /\ ReadyStored /\ Undoable /\ Counted
                /\ TryBound /\ AtMostThreeTrials
<1>0. TypeInv /\ Rest BY DEF IInv, TypeInv
<1>t. TypeInv' BY <1>0, TypeNext
<1>d. ASSUME Rest' PROVE IInv' BY <1>t, <1>d DEF IInv, TypeInv
<1>e. /\ env \in Environment /\ disk \in Environment
      /\ confirmed \in Slot \X Slot
      /\ trials \in Nat /\ cuts \in Nat
  BY <1>0 DEF TypeInv, TypeOK
<1>f. /\ Tried(env) \in Nat /\ Tried(disk) \in Nat
      /\ env.ota_try \in Nat \union {NoTry} /\ disk.ota_try \in Nat \union {NoTry}
  BY <1>e DEF Tried, Environment, NoTry
<1>r. ASSUME pc \in Booting \/ (pc = "save" /\ ~Rolling)
      PROVE  /\ View(env) = View(disk)
             /\ Pending(env) <=> Pending(disk)
             /\ RollbackPair(env) = RollbackPair(disk) /\ Boots(env) = Boots(disk)
  BY <1>0, <1>r, ViewParts DEF RamAgrees
<1> HIDE DEF Rest
<1> USE DEF RamAgrees, Filled, ReadyStored, Undoable, Counted, TryBound, AtMostThreeTrials,
            Rolling, BeforeCount, AfterCount, Chosen, Booting
<1>1. CASE SaveEnv
  <2>1. pc = "save" /\ pc' = ret /\ disk' = env /\ ret' = "off"
        /\ UNCHANGED <<env, confirmed, trials, wiped, cuts>>
    BY <1>1 DEF SaveEnv, hist
  <2>2. ret \in {"autoboot", "count", "check", "select", "off"}
    BY <1>0 DEF TypeInv, TypeOK
  <2>3. CASE ret = "off"
    <3>1. Boots(env) = Slots(env) BY <1>0, <1>e, <2>1, <2>3, BootsSlots DEF Rest
    <3> QED BY <1>d, <1>0, <1>e, <1>f, <2>1, <2>3, <3>1 DEF Rest, Tried, NoTry
  <2>4. CASE ret \in {"autoboot", "count"}
    <3> QED BY <1>d, <1>0, <1>e, <1>f, <1>r, <2>1, <2>4 DEF Rest, Tried
  <2>5. CASE ret = "check"
    <3> QED BY <1>d, <1>0, <1>e, <1>f, <1>r, <2>1, <2>5 DEF Rest, Tried, NoTry
  <2>6. CASE ret = "select"
    <3> QED BY <1>d, <1>0, <1>e, <1>f, <1>r, <2>1, <2>6 DEF Rest, Tried, NoTry
  <2> QED BY <2>2, <2>3, <2>4, <2>5, <2>6
<1>2. CASE PowerOn
  <2>1. pc' = "bootcount" /\ env' = disk
        /\ UNCHANGED <<disk, confirmed, trials, wiped, cuts>>
    BY <1>2 DEF PowerOn
  <2> QED BY <1>2, <1>d, <1>0, <1>f, <2>1 DEF PowerOn, Rest, Tried
<1>3. CASE Bootcount
  <2>1. UNCHANGED <<disk, confirmed, trials, wiped, cuts>> /\ pc = "bootcount"
    BY <1>3 DEF Bootcount, Env, hist
  <2>2. /\ View(env') = View(env)
        /\ env'.ota_try = env.ota_try /\ env'.ota_env_ready = env.ota_env_ready
    <3>1. \E n \in Nat : env' = [env EXCEPT !.bootcount = n]
      <4>1. env = [env EXCEPT !.bootcount = env.bootcount] /\ env.bootcount \in Nat
        BY <1>e DEF Environment
      <4> QED BY <1>3, <4>1 DEF Bootcount, Env
    <3>2. PICK n \in Nat : env' = [env EXCEPT !.bootcount = n] BY <3>1
    <3>3. env' \in Environment BY <1>t DEF TypeInv, TypeOK
    <3> QED BY <1>e, <3>2, <3>3, SameView DEF Environment
  <2>3. Pending(env') <=> Pending(env) BY <2>2, ViewParts
  <2>4. pc' = "autoboot" \/ (pc' = "save" /\ ret' = "autoboot" /\ Pending(env))
    BY <1>3 DEF Bootcount, Goto, SaveThen
  <2> QED BY <1>d, <1>0, <1>f, <1>r, <2>1, <2>2, <2>3, <2>4 DEF Rest, Tried
<1>4. CASE RunBootcmd
  <2>1. pc = "autoboot" /\ pc' = "defaults"
        /\ UNCHANGED <<env, disk, confirmed, trials, wiped, cuts>>
    BY <1>4 DEF RunBootcmd, Env, Goto, hist
  <2> QED BY <1>d, <1>0, <1>r, <2>1 DEF Rest, Tried
<1>k. ASSUME env' \in {ScriptRollback(env), AltRollback(env)}, Pending(env),
             pc \in Booting, pc' = "save", ret' = "off",
             UNCHANGED <<disk, confirmed, trials, wiped, cuts>>
      PROVE  IInv'
  <2>1. RollbackPair(env) = confirmed /\ Pending(disk) BY <1>0, <1>k, <1>r DEF Rest
  <2>2. /\ Slots(env') = confirmed /\ ~Pending(env') /\ env'.ota_try = 0
        /\ env'.ota_env_ready = env.ota_env_ready
    BY <1>e, <1>k, <2>1, RollbackFields
  <2> QED BY <1>d, <1>0, <1>e, <1>f, <1>k, <1>r, <2>1, <2>2 DEF Rest, Tried
<1>5. CASE RunAltbootcmd
  BY <1>5, <1>k DEF RunAltbootcmd, LimitExceeded, Env, SaveThen, hist
<1>6. CASE SetDefaults
  <2>1. pc = "defaults" /\ pc' = "install" /\ env' = Defaults(env)
        /\ UNCHANGED <<disk, confirmed, trials, wiped, cuts>>
    BY <1>6 DEF SetDefaults, Env, Goto, hist
  <2>2. View(env') = View(env) BY <1>e, <2>1, ViewDefaults
  <2>3. env'.ota_try = env.ota_try /\ env'.ota_env_ready = env.ota_env_ready
    BY <1>e, <2>1, DefaultsFields
  <2>4. env'.kernel_slot # Unset /\ env'.rootfs_slot # Unset
    BY <1>e, <2>1, DefaultsFields DEF OrElse, Unset
  <2> QED BY <1>d, <1>0, <1>r, <2>1, <2>2, <2>3, <2>4 DEF Rest, Tried
<1>7. CASE InstallAltbootcmd
  <2>1. /\ pc = "install"
        /\ \/ pc' = "save" /\ ret' = "count" /\ ~env.ota_env_ready
           \/ pc' = "count" /\ env' = env /\ env.ota_env_ready
        /\ UNCHANGED <<disk, confirmed, trials, wiped, cuts>>
    BY <1>7 DEF InstallAltbootcmd, Env, Goto, SaveThen, hist
  <2>2. /\ View(env') = View(env)
        /\ env'.ota_try = env.ota_try /\ env'.ota_env_ready = TRUE
        /\ env'.kernel_slot = env.kernel_slot /\ env'.rootfs_slot = env.rootfs_slot
    <3>1. CASE env' = [env EXCEPT !.ota_env_ready = TRUE]
      <4>1. env' \in Environment BY <1>t DEF TypeInv, TypeOK
      <4> QED BY <1>e, <3>1, <4>1, SameView DEF Environment
    <3>2. CASE env' = env /\ env.ota_env_ready BY <3>2, <1>e DEF Environment
    <3> QED BY <1>7, <3>1, <3>2 DEF InstallAltbootcmd, Env
  <2> QED BY <1>d, <1>0, <1>r, <2>1, <2>2, ViewParts DEF Rest, Tried
<1>8. CASE CountTry
  <2>1. /\ pc = "count" /\ Pending(env) /\ pc' = "save" /\ ret' = "check"
        /\ UNCHANGED <<disk, confirmed, trials, wiped, cuts>>
    BY <1>8 DEF CountTry, Env, SaveThen, hist
  <2>2. /\ View(env') = View(env)
        /\ env'.ota_env_ready = env.ota_env_ready
        /\ env'.ota_try = Tried(env) + 1
        /\ env'.kernel_slot = env.kernel_slot /\ env'.rootfs_slot = env.rootfs_slot
    <3>1. env' \in Environment BY <1>t DEF TypeInv, TypeOK
    <3>2. env' = [env EXCEPT !.ota_try = Tried(env) + 1]
      BY <1>8, <1>e DEF CountTry, Env, Tried, NoTry, Environment
    <3> QED BY <1>e, <3>1, <3>2, SameView DEF Environment
  <2> QED BY <1>d, <1>0, <1>e, <1>f, <1>r, <2>1, <2>2, ViewParts DEF Rest, Tried
<1>9. CASE ClearTry
  <2>1. /\ pc = "count" /\ ~Pending(env)
        /\ (pc' = "save" /\ ret' = "select") \/ pc' = "select"
        /\ UNCHANGED <<disk, confirmed, trials, wiped, cuts>>
    BY <1>9 DEF ClearTry, Env, Goto, SaveThen, hist
  <2>2. /\ View(env') = View(env)
        /\ env'.ota_env_ready = env.ota_env_ready /\ env'.ota_try = 0
        /\ env'.kernel_slot = env.kernel_slot /\ env'.rootfs_slot = env.rootfs_slot
    <3>1. env' \in Environment BY <1>t DEF TypeInv, TypeOK
    <3>2. env' = [env EXCEPT !.ota_try = 0]
      BY <1>9, <1>e DEF ClearTry, Env, Environment
    <3> QED BY <1>e, <3>1, <3>2, SameView DEF Environment
  <2> QED BY <1>d, <1>0, <1>e, <1>f, <1>r, <2>1, <2>2, ViewParts DEF Rest, Tried
<1>10. CASE GiveUp
  <2>1. pc = "check" /\ Pending(env) BY <1>10, <1>0 DEF GiveUp, Rest
  <2> QED BY <1>10, <1>k, <2>1 DEF GiveUp, Env, SaveThen, hist
<1>11. CASE Retry
  <2>1. /\ pc = "check" /\ pc' = "select" /\ MayRetry(env.ota_try)
        /\ UNCHANGED <<env, disk, confirmed, trials, wiped, cuts>>
    BY <1>11 DEF Retry, Env, Goto, hist
  <2>2. cuts < 6 => env.ota_try <= 3
    BY <1>0, <1>e, <1>f, <1>r, <2>1 DEF Rest, MayRetry, Tried, NoTry
  <2> QED BY <1>d, <1>0, <1>e, <1>f, <1>r, <2>1, <2>2 DEF Rest, Tried, NoTry
<1>12. CASE SelectSlots
  <2>1. /\ pc = "select" /\ pc' = "kernel"
        /\ UNCHANGED <<disk, confirmed, trials, wiped, cuts>>
    BY <1>12 DEF SelectSlots, Env, Goto, hist
  <2>2. /\ RollbackPair(env') = RollbackPair(env) /\ Pending(env') = Pending(env)
        /\ env'.ota_env_ready = env.ota_env_ready /\ env'.ota_try = env.ota_try
    BY <1>12, <1>e DEF SelectSlots, Env, Environment, RollbackPair, Pending
  <2>3. Boots(env') = Boots(env)
    <3>1. env' \in Environment BY <1>t DEF TypeInv, TypeOK
    <3>2. Slots(env') = <<Normal(env.kernel_slot), Normal(env.rootfs_slot)>>
      BY <1>12, <1>e DEF SelectSlots, Env, Environment, Slots
    <3>3. Boots(env') = Slots(env') BY <3>1, <3>2, NormalType, BootsSlots
    <3>4. Boots(env) = <<Normal(env.kernel_slot), Normal(env.rootfs_slot)>>
      <4>1. env.kernel_slot # Unset /\ env.rootfs_slot # Unset BY <1>0, <2>1 DEF Rest
      <4> QED BY <4>1, <1>e, DefaultsFields DEF Boots, OrElse
    <3> QED BY <3>2, <3>3, <3>4
  <2>4. View(env') = View(env) BY <2>2, <2>3 DEF View
  <2> QED BY <1>d, <1>0, <1>e, <1>f, <1>r, <2>1, <2>2, <2>4 DEF Rest, Tried
<1>13. CASE LoadKernel \/ LoadDtb
  <2>1. /\ \/ pc = "kernel" /\ pc' \in {"dtb", "off"}
           \/ pc = "dtb" /\ pc' \in {"bootz", "off"}
        /\ UNCHANGED <<env, disk, confirmed, trials, wiped, cuts>>
    BY <1>13 DEF LoadKernel, LoadDtb, Env, Goto, hist
  <2> QED BY <1>d, <1>0, <1>e, <1>f, <1>r, <2>1 DEF Rest, Tried
<1>14. CASE StartKernel
  <2>1. /\ pc = "bootz" /\ pc' = "linux"
        /\ trials' = IF Pending(env) THEN trials + 1 ELSE 0
        /\ UNCHANGED <<env, disk, confirmed, wiped, cuts>>
    BY <1>14 DEF StartKernel, Goto
  <2>2. Boots(env) = Slots(env)
    BY <1>0, <1>e, <2>1, BootsSlots DEF TypeInv, SlotsChosen, Slots
  <2>3. Pending(env) => trials + 1 <= env.ota_try /\ env.ota_try = disk.ota_try /\ env.ota_try \in Nat
    BY <1>0, <1>e, <1>f, <2>1 DEF Rest, NoTry
  <2>4. Pending(disk) => trials' <= Tried(disk)
    BY <1>e, <1>f, <1>r, <2>1, <2>3 DEF Tried, NoTry
  <2>5. cuts < 6 => trials' <= 3
    BY <1>0, <1>e, <1>f, <2>1, <2>3 DEF Rest
  <2> QED BY <1>d, <1>0, <1>e, <1>f, <1>r, <2>1, <2>2, <2>4, <2>5 DEF Rest, Tried
<1>15. CASE BootzFailed
  <2>1. pc = "bootz" BY <1>15 DEF BootzFailed
  <2>2. CASE Pending(env)
    BY <1>15, <1>k, <2>1, <2>2 DEF BootzFailed, Env, SaveThen, hist
  <2>3. CASE ~Pending(env)
    <3>1. pc' = "off" /\ UNCHANGED <<env, disk, confirmed, trials, wiped, cuts>>
      BY <1>15, <2>3 DEF BootzFailed, Env, Goto, hist
    <3> QED BY <1>d, <1>0, <1>e, <1>f, <1>r, <2>1, <3>1 DEF Rest, Tried
  <2> QED BY <2>2, <2>3
<1>16. CASE Panic \/ Reboot
  <2>1. /\ pc = "linux" /\ pc' = "off"
        /\ UNCHANGED <<env, disk, confirmed, trials, wiped, cuts>>
    BY <1>16 DEF Panic, Reboot, ToOff, Healthy, Env, Goto, hist
  <2> QED BY <1>d, <1>0, <1>e, <1>f, <2>1 DEF Rest, Tried
<1>17. CASE AppWriteImages \/ AppRestart \/ UNCHANGED vars
  <2>1. UNCHANGED <<pc, ret, env, disk, confirmed, trials, wiped, cuts>>
    BY <1>17 DEF AppWriteImages, AppRestart, vars, hist
  <2> QED BY <1>d, <1>0, <1>e, <1>f, <2>1 DEF Rest, Tried
<1>l. Healthy => pc = "linux" /\ Slots(env) \in Slot \X Slot
  BY <1>0 DEF Healthy, TypeInv, SlotsChosen, Slots
<1>m. disk' \in Environment BY <1>t DEF TypeInv, TypeOK
<1>18. CASE AppSaveRollback
  <2>1. /\ pc = "linux" /\ ~Pending(disk)
        /\ UNCHANGED <<pc, ret, env, confirmed, trials, wiped, cuts>>
    BY <1>18, <1>l DEF AppSaveRollback, FwSetenv, hist
  <2>2. /\ Boots(disk') = Boots(disk) /\ Pending(disk') = Pending(disk)
        /\ disk'.ota_try = disk.ota_try /\ disk'.ota_env_ready = disk.ota_env_ready
    <3>1. /\ disk'.boot_slot = disk.boot_slot /\ disk'.kernel_slot = disk.kernel_slot
          /\ disk'.rootfs_slot = disk.rootfs_slot
          /\ disk'.upgrade_available = disk.upgrade_available
          /\ disk'.ota_try = disk.ota_try /\ disk'.ota_env_ready = disk.ota_env_ready
      BY <1>18, <1>e DEF AppSaveRollback, FwSetenv, Environment
    <3> QED BY <1>e, <1>m, <3>1, DefaultsFields DEF Boots, Pending
  <2> QED BY <1>d, <1>0, <1>e, <1>f, <2>1, <2>2 DEF Rest, Tried
<1>19. CASE AppRaiseFlag
  <2>1. /\ pc = "linux" /\ trials' = 0 /\ confirmed' = Slots(env)
        /\ Slots(env) \in Slot \X Slot /\ RollbackSaved
        /\ UNCHANGED <<pc, ret, env, wiped, cuts>>
    BY <1>19, <1>l DEF AppRaiseFlag, FwSetenv
  <2>2. /\ RollbackPair(disk') = RollbackPair(disk) /\ Pending(disk')
        /\ disk'.ota_env_ready = disk.ota_env_ready
        /\ disk'.ota_try = 0 \/ disk'.ota_try = disk.ota_try
    BY <1>19, <1>e DEF AppRaiseFlag, FwSetenv, Environment, RollbackPair, Pending
  <2>3. RollbackPair(disk) = Slots(env)
    BY <2>1 DEF RollbackSaved, RollbackPair, RollbackSlot, OrElse, Slots, Slot, Unset
  <2>4. Tried(disk') \in Nat /\ Tried(disk') <= Tried(disk)
    BY <1>f, <2>2 DEF Tried, NoTry
  <2> QED BY <1>d, <1>0, <1>e, <1>f, <2>1, <2>2, <2>3, <2>4 DEF Rest
<1>20. CASE AppSwitchSlot
  <2>1. /\ pc = "linux" /\ Pending(disk)
        /\ UNCHANGED <<pc, ret, env, confirmed, trials, wiped, cuts>>
    BY <1>20, <1>l DEF AppSwitchSlot, FwSetenv, hist
  <2>2. /\ RollbackPair(disk') = RollbackPair(disk) /\ Pending(disk') = Pending(disk)
        /\ disk'.ota_try = disk.ota_try /\ disk'.ota_env_ready = disk.ota_env_ready
    BY <1>20, <1>e DEF AppSwitchSlot, FwSetenv, Environment, RollbackPair, Pending
  <2> QED BY <1>d, <1>0, <1>e, <1>f, <2>1, <2>2 DEF Rest, Tried
<1>21. CASE AppConfirm
  <2>1. /\ pc = "linux" /\ confirmed' = Slots(env) /\ Slots(env) = Slots(disk)
        /\ Slots(env) \in Slot \X Slot
        /\ UNCHANGED <<pc, ret, env, trials, wiped, cuts>>
    BY <1>21, <1>l DEF AppConfirm, FwSetenv
  <2>2. /\ Slots(disk') = Slots(disk) /\ ~Pending(disk')
        /\ disk'.ota_try = disk.ota_try /\ disk'.ota_env_ready = disk.ota_env_ready
    BY <1>21, <1>e DEF AppConfirm, FwSetenv, Environment, Slots, Pending
  <2>3. Boots(disk') = Slots(env) BY <1>m, <2>1, <2>2, BootsSlots
  <2> QED BY <1>d, <1>0, <1>e, <1>f, <2>1, <2>2, <2>3 DEF Rest, Tried
<1>22. CASE PowerCut
  <2>1. /\ pc' = "off" /\ cuts' = cuts + 1
        /\ UNCHANGED <<ret, confirmed, trials>>
    BY <1>22 DEF PowerCut, ToOff
  <2>2. CASE disk' = disk /\ wiped' = wiped
    BY <1>d, <1>0, <1>e, <1>f, <2>1, <2>2 DEF Rest, Tried
  <2>3. CASE disk' = DefaultEnv /\ wiped' = TRUE
    <3>1. DefaultEnv.ota_try = NoTry BY DEF DefaultEnv
    <3>2. Tried(disk') = 0 BY <2>3, <3>1 DEF Tried
    <3>3. ~Pending(disk') BY <2>3, ViewDefaultEnv
    <3> QED BY <1>d, <1>0, <1>e, <1>f, <2>1, <2>3, <3>2, <3>3 DEF Rest
  <2>4. CASE pc = "save" /\ disk' = env /\ wiped' = wiped
    <3>1. CASE ret = "off"
      <4>1. Boots(env) = Slots(env) BY <1>0, <1>e, <2>4, <3>1, BootsSlots DEF Rest
      <4> QED BY <1>d, <1>0, <1>e, <1>f, <2>1, <2>4, <3>1, <4>1 DEF Rest, Tried, NoTry
    <3>2. CASE ret # "off"
      <4>1. ret \in {"autoboot", "count", "check", "select"}
        BY <1>0, <3>2 DEF TypeInv, TypeOK
      <4> QED BY <1>d, <1>0, <1>e, <1>f, <1>r, <2>1, <2>4, <4>1 DEF Rest, Tried, NoTry
    <3> QED BY <3>1, <3>2
  <2> QED BY <1>22, <2>2, <2>3, <2>4 DEF PowerCut
<1> QED
  BY <1>1, <1>2, <1>3, <1>4, <1>5, <1>6, <1>7, <1>8, <1>9, <1>10, <1>11, <1>12, <1>13, <1>14,
     <1>15, <1>16, <1>17, <1>18, <1>19, <1>20, <1>21, <1>22 DEF Next, UBoot, Application

-----------------------------------------------------------------------------
(* The safety theorems.                                                    *)

THEOREM Invariance == Spec => []IInv
BY InvInit, InvNext, PTL DEF Spec

\* Three starts at most, for any number of updates and while the sixth power
\* cut has not come.
THEOREM ThreeTrials == Spec => []AtMostThreeTrials
<1>1. IInv => AtMostThreeTrials BY DEF IInv
<1> QED BY <1>1, Invariance, PTL

\* Whatever is torn and whenever the power is cut, an image that was not
\* confirmed runs only on trial.
THEOREM OnlyOnTrial == Spec => []UnconfirmedOnlyOnTrial
<1>1. IInv => UnconfirmedOnlyOnTrial BY DEF IInv, Undoable, UnconfirmedOnlyOnTrial
<1> QED BY <1>1, Invariance, PTL

\* Each of the three rollbacks restores the slots the update was staged from.
THEOREM Restores == Spec => []RollbackRestores
<1>1. IInv => RollbackRestores
  BY DEF IInv, RamAgrees, Rolling, RollbackRestores, RollbackSave
<1> QED BY <1>1, Invariance, PTL

\* altbootcmd is defined whenever U-Boot would run it.
THEOREM AltbootcmdDefined == Spec => []AltbootcmdReady
<1>1. ASSUME IInv PROVE AltbootcmdReady
  <2>1. pc = "autoboot" => (Pending(env) <=> Pending(disk))
    BY <1>1, ViewParts DEF IInv, RamAgrees, Booting, BeforeCount
  <2> QED BY <1>1, <2>1 DEF IInv, ReadyStored, AltbootcmdReady, LimitExceeded
<1> QED BY <1>1, Invariance, PTL

-----------------------------------------------------------------------------
(* The action properties.                                                  *)

\* What a step that begins a save has to say.
LEMMA SaveSays ==
  ASSUME IInv, [Next]_vars, pc # "save", pc' = "save"
  PROVE  Pending(env) \/ env.ota_try # 0 \/ ~env.ota_env_ready
<1>1. CASE Bootcount BY <1>1 DEF Bootcount, Goto
<1>2. CASE RunAltbootcmd BY <1>2 DEF RunAltbootcmd, LimitExceeded
<1>3. CASE InstallAltbootcmd BY <1>3 DEF InstallAltbootcmd, Goto
<1>4. CASE CountTry BY <1>4 DEF CountTry
<1>5. CASE ClearTry BY <1>5 DEF ClearTry, Goto
<1>6. CASE GiveUp BY <1>6 DEF GiveUp, IInv, RamAgrees
<1>7. CASE BootzFailed BY <1>7 DEF BootzFailed, Goto
<1>8. CASE SaveEnv \/ PowerOn \/ RunBootcmd \/ SetDefaults \/ Retry
           \/ SelectSlots \/ LoadKernel \/ LoadDtb \/ StartKernel
  BY <1>8 DEF SaveEnv, PowerOn, RunBootcmd, SetDefaults, Retry, SelectSlots, LoadKernel,
              LoadDtb, StartKernel, Goto
<1>9. CASE Panic \/ Reboot \/ PowerCut
  BY <1>9 DEF Panic, Reboot, PowerCut, ToOff
<1>10. CASE Application
  BY <1>10 DEF Application, AppWriteImages, AppSaveRollback, AppRaiseFlag, AppSwitchSlot,
               AppRestart, AppConfirm, FwSetenv
<1>11. CASE UNCHANGED vars BY <1>11 DEF vars
<1> QED
  BY <1>1, <1>2, <1>3, <1>4, <1>5, <1>6, <1>7, <1>8, <1>9, <1>10, <1>11 DEF Next, UBoot

\* A boot saves the environment only for an update that is pending, for a
\* counter left over from one, or to install altbootcmd.
THEOREM BootsQuietly == Spec => QuietBoot
<1>1. IInv /\ [Next]_vars =>
        [(pc # "save" /\ pc' = "save") =>
           Pending(env) \/ env.ota_try # 0 \/ ~env.ota_env_ready]_vars
  BY SaveSays
<1> QED BY <1>1, Invariance, PTL DEF Spec, QuietBoot

LEMMA CountsInit == Init => CountsResets
<1> SUFFICES ASSUME Init PROVE CountsResets
  OBVIOUS
<1>1. pc = "off" BY DEF Init
<1>2. ~Pending(disk)
  <2>1. disk \in InitialEnvs BY DEF Init
  <2>2. \A rollback \in Slot \union {Unset} : rollback \in SlotValue BY DEF SlotValue
  <2> QED BY <2>1, <2>2, ViewDefaultEnv, ViewLegacyEnv DEF InitialEnvs
<1> QED BY <1>1, <1>2 DEF CountsResets, Booting, BeforeCount, AfterCount

\* Both counters start from zero with the update and follow the resets.
LEMMA CountsNext ==
  ASSUME AppResets
  PROVE  IInv /\ CountsResets /\ [Next]_vars => CountsResets'
<1> SUFFICES ASSUME IInv, CountsResets, [Next]_vars PROVE CountsResets'
  OBVIOUS
<1>e. /\ env \in Environment /\ disk \in Environment /\ attempts \in Nat
      /\ ret \in {"autoboot", "count", "check", "select", "off"}
  BY DEF IInv, TypeOK
<1>f. /\ Tried(env) \in Nat /\ Tried(disk) \in Nat
      /\ env.bootcount \in Nat /\ disk.bootcount \in Nat
      /\ env.ota_try \in Nat \union {NoTry}
  BY <1>e DEF Tried, Environment, NoTry
<1>r. ASSUME pc \in Booting \/ (pc = "save" /\ ~Rolling)
      PROVE  Pending(env) <=> Pending(disk)
  BY <1>r, ViewParts DEF IInv, RamAgrees
<1> USE DEF CountsResets, Rolling, BeforeCount, AfterCount, Booting
<1>1. CASE SaveEnv
  <2>1. /\ pc = "save" /\ pc' = ret /\ disk' = env /\ ret' = "off"
        /\ env' = env /\ attempts' = attempts
    BY <1>1 DEF SaveEnv, hist
  <2>2. CASE ret = "off"
    <3>1. ~Pending(env) BY <2>1, <2>2 DEF IInv, RamAgrees
    <3> QED BY <2>1, <2>2, <3>1
  <2>3. CASE ret # "off" BY <1>e, <1>f, <2>1, <2>3
  <2> QED BY <2>2, <2>3
<1>2. CASE PowerOn
  <2>1. /\ pc' = "bootcount" /\ env' = disk /\ disk' = disk
        /\ attempts' = IF Pending(disk) THEN attempts + 1 ELSE 0
    BY <1>2 DEF PowerOn
  <2> QED BY <1>e, <1>f, <2>1
<1>3. CASE Bootcount
  <2>1. /\ pc = "bootcount" /\ disk' = disk /\ attempts' = attempts
        /\ pc' = "autoboot" \/ (pc' = "save" /\ ret' = "autoboot")
    BY <1>3 DEF Bootcount, Env, Goto, SaveThen, hist
  <2>2. /\ Pending(env') <=> Pending(env)
        /\ Tried(env') = Tried(env)
        /\ Pending(env) => env'.bootcount \in {env.bootcount, env.bootcount + 1}
    BY <1>3, <1>e DEF Bootcount, Env, Environment, Pending, Tried
  <2> QED BY <1>e, <1>f, <2>1, <2>2
<1>4. CASE RunBootcmd
  <2>1. /\ pc = "autoboot" /\ pc' = "defaults" /\ UNCHANGED <<env, disk, attempts>>
    BY <1>4 DEF RunBootcmd, Env, Goto, hist
  <2> QED BY <1>f, <2>1
<1>k. ASSUME pc' = "save", ret' = "off", UNCHANGED <<disk, attempts>>
      PROVE  CountsResets'
  BY <1>k
<1>5. CASE RunAltbootcmd
  BY <1>5, <1>k DEF RunAltbootcmd, Env, SaveThen, hist
<1>6. CASE SetDefaults
  <2>1. /\ pc = "defaults" /\ pc' = "install" /\ UNCHANGED <<disk, attempts>>
        /\ env' = Defaults(env)
    BY <1>6 DEF SetDefaults, Env, Goto, hist
  <2>2. /\ Pending(env') <=> Pending(env)
        /\ Tried(env') = Tried(env) /\ env'.bootcount = env.bootcount
    BY <1>e, <2>1 DEF Defaults, OrElse, Environment, Pending, Tried, Unset
  <2> QED BY <1>f, <2>1, <2>2
<1>7. CASE InstallAltbootcmd
  <2>1. /\ pc = "install" /\ UNCHANGED <<disk, attempts>>
        /\ pc' = "count" \/ (pc' = "save" /\ ret' = "count")
    BY <1>7 DEF InstallAltbootcmd, Env, Goto, SaveThen, hist
  <2>2. /\ Pending(env') <=> Pending(env)
        /\ Tried(env') = Tried(env) /\ env'.bootcount = env.bootcount
    BY <1>e, <1>7 DEF InstallAltbootcmd, Env, Environment, Pending, Tried
  <2> QED BY <1>f, <2>1, <2>2
<1>8. CASE CountTry
  <2>1. /\ pc = "count" /\ Pending(env) /\ pc' = "save" /\ ret' = "check"
        /\ UNCHANGED <<disk, attempts>>
    BY <1>8 DEF CountTry, Env, SaveThen, hist
  <2>2. /\ env'.ota_try = Tried(env) + 1 /\ env'.bootcount = env.bootcount
    BY <1>8, <1>e DEF CountTry, Env, Tried, NoTry, Environment
  <2>3. Tried(env') = Tried(env) + 1 BY <1>f, <2>2 DEF Tried, NoTry
  <2> QED BY <1>e, <1>f, <2>1, <2>2, <2>3
<1>9. CASE ClearTry
  <2>1. /\ pc = "count" /\ ~Pending(env) /\ UNCHANGED <<disk, attempts>>
        /\ pc' = "select" \/ (pc' = "save" /\ ret' = "select")
    BY <1>9 DEF ClearTry, Env, Goto, SaveThen, hist
  <2>2. ~Pending(env')
    BY <1>9, <1>e DEF ClearTry, Env, Environment, Pending
  <2> QED BY <2>1, <2>2
<1>10. CASE GiveUp
  BY <1>10, <1>k DEF GiveUp, Env, SaveThen, hist
<1>11. CASE Retry
  <2>1. /\ pc = "check" /\ pc' = "select" /\ UNCHANGED <<env, disk, attempts>>
    BY <1>11 DEF Retry, Env, Goto, hist
  <2> QED BY <2>1
<1>12. CASE SelectSlots
  <2>1. /\ pc = "select" /\ pc' = "kernel" /\ UNCHANGED <<disk, attempts>>
    BY <1>12 DEF SelectSlots, Env, Goto, hist
  <2>2. /\ Pending(env') <=> Pending(env)
        /\ Tried(env') = Tried(env) /\ env'.bootcount = env.bootcount
    BY <1>e, <1>12 DEF SelectSlots, Env, Environment, Pending, Tried
  <2> QED BY <2>1, <2>2
<1>13. CASE LoadKernel \/ LoadDtb
  <2>1. /\ pc \in Booting /\ pc' \in {"dtb", "bootz", "off"} /\ UNCHANGED <<env, disk, attempts>>
    BY <1>13 DEF LoadKernel, LoadDtb, Env, Goto, hist
  <2> QED BY <2>1
<1>14. CASE BootzFailed
  <2>1. CASE Pending(env)
    BY <1>14, <1>k, <2>1 DEF BootzFailed, Env, SaveThen, hist
  <2>2. CASE ~Pending(env)
    BY <1>14, <2>2 DEF BootzFailed, Env, Goto, hist
  <2> QED BY <2>1, <2>2
<1>15. CASE StartKernel \/ Panic \/ Reboot
  <2>1. pc' \in {"linux", "off"} /\ UNCHANGED <<disk, attempts>>
    BY <1>15 DEF StartKernel, Panic, Reboot, ToOff, Goto, hist
  <2> QED BY <2>1
<1>16. CASE Application
  <2>1. pc = "linux" /\ UNCHANGED <<pc, ret, env>>
    BY <1>16 DEF Application, AppWriteImages, AppSaveRollback, AppRaiseFlag, AppSwitchSlot,
                 AppRestart, AppConfirm, FwSetenv, Healthy
  <2>2. CASE AppRaiseFlag
    <3>1. disk'.ota_try = 0 /\ disk'.bootcount = 0 /\ attempts' = 0
      BY <1>e, <2>2 DEF AppRaiseFlag, FwSetenv, Environment
    <3> QED BY <2>1, <3>1 DEF Tried, NoTry
  <2>3. CASE ~AppRaiseFlag
    <3>1. attempts' = attempts
      BY <1>16, <2>3 DEF Application, AppWriteImages, AppSaveRollback, AppSwitchSlot, AppRestart,
                         AppConfirm, hist
    <3>2. Pending(disk') => Pending(disk)
      BY <1>16, <1>e, <2>3 DEF Application, AppWriteImages, AppSaveRollback, AppSwitchSlot,
            AppRestart, AppConfirm, FwSetenv, Environment, Pending
    <3>3. disk'.ota_try = disk.ota_try /\ disk'.bootcount = disk.bootcount
      BY <1>16, <1>e, <2>3 DEF Application, AppWriteImages, AppSaveRollback, AppSwitchSlot,
            AppRestart, AppConfirm, FwSetenv, Environment
    <3> QED BY <2>1, <3>1, <3>2, <3>3 DEF Tried
  <2> QED BY <2>2, <2>3
<1>17. CASE PowerCut
  <2>1. pc' = "off" /\ attempts' = attempts BY <1>17 DEF PowerCut, ToOff
  <2>2. CASE disk' = disk BY <2>1, <2>2
  <2>3. CASE pc = "save" /\ disk' = env
    <3>1. Rolling => ~Pending(env) BY DEF IInv, RamAgrees
    <3> QED BY <1>f, <2>1, <2>3, <3>1
  <2>4. CASE disk' = DefaultEnv BY <2>1, <2>4, ViewDefaultEnv
  <2> QED BY <1>17, <2>2, <2>3, <2>4 DEF PowerCut
<1>18. CASE UNCHANGED vars BY <1>18 DEF vars, hist
<1> QED
  BY <1>1, <1>2, <1>3, <1>4, <1>5, <1>6, <1>7, <1>8, <1>9, <1>10, <1>11, <1>12, <1>13, <1>14,
     <1>15, <1>16, <1>17, <1>18 DEF Next, UBoot

\* Where the application zeroes the counters when it stages an update, U-Boot
\* and the script give that update up at its fourth reset and never earlier,
\* however the earlier updates ended and wherever the power was cut.
THEOREM GivesUpLate ==
  ASSUME AppResets
  PROVE  Spec => NoEarlyGiveUp
<1>1. ASSUME IInv, CountsResets, GiveUp \/ RunAltbootcmd PROVE attempts > 3
  <2>1. env \in Environment /\ attempts \in Nat BY <1>1 DEF IInv, TypeOK
  <2>2. CASE GiveUp
    <3>1. pc = "check" /\ env.ota_try > 3 BY <2>2 DEF GiveUp, MayGiveUp
    <3>2. Pending(env) BY <1>1, <3>1 DEF IInv, RamAgrees
    <3>3. Tried(env) <= attempts
      BY <1>1, <3>1, <3>2 DEF CountsResets, Booting, AfterCount
    <3> QED BY <2>1, <3>1, <3>3 DEF Tried, NoTry, Environment
  <2>3. CASE RunAltbootcmd
    <3>1. pc = "autoboot" /\ Pending(env) /\ env.bootcount > 3
      BY <2>3 DEF RunAltbootcmd, LimitExceeded, BootLimit
    <3>2. env.bootcount <= attempts
      BY <1>1, <3>1 DEF CountsResets, Booting, BeforeCount
    <3> QED BY <2>1, <3>1, <3>2 DEF Environment
  <2> QED BY <1>1, <2>2, <2>3
<1>2. IInv /\ CountsResets => [(GiveUp \/ RunAltbootcmd) => attempts > 3]_vars
  BY <1>1
<1>3. IInv /\ CountsResets /\ [Next]_vars => CountsResets'
  BY CountsNext
<1> QED BY <1>2, <1>3, CountsInit, Invariance, PTL DEF Spec, NoEarlyGiveUp

-----------------------------------------------------------------------------
(* The refinement.                                                         *)

LEMMA StagingInit == Init => StagingInv
BY BoundsAssumption DEF Init, StagingInv

LEMMA StagingNext == TypeOK /\ StagingInv /\ [Next]_vars => StagingInv'
<1> SUFFICES ASSUME TypeOK, StagingInv, [Next]_vars PROVE StagingInv'
  OBVIOUS
<1> USE BoundsAssumption, SwitchAssumption DEF StagingInv, hist, linuxVars
<1>1. CASE UBoot
  <2>1. pc # "linux"
    BY <1>1 DEF UBoot, SaveEnv, PowerOn, Bootcount, RunBootcmd, RunAltbootcmd, SetDefaults,
                InstallAltbootcmd, CountTry, ClearTry, GiveUp, Retry, SelectSlots, LoadKernel,
                LoadDtb, StartKernel, BootzFailed
  <2>2. UNCHANGED <<app, wiped, cuts>>
    BY <1>1 DEF UBoot, SaveEnv, PowerOn, Bootcount, RunBootcmd, RunAltbootcmd, SetDefaults,
                InstallAltbootcmd, CountTry, ClearTry, GiveUp, Retry, SelectSlots, LoadKernel,
                LoadDtb, StartKernel, BootzFailed, Env
  <2> QED BY <2>1, <2>2
<1>2. CASE Panic \/ Reboot
  BY <1>2 DEF Panic, Reboot, ToOff
<1>3. CASE Application
  <2>1. UNCHANGED <<pc, wiped, cuts>>
    BY <1>3 DEF Application, AppWriteImages, AppSaveRollback, AppRaiseFlag, AppSwitchSlot,
                AppRestart, AppConfirm, FwSetenv
  <2>2. CASE AppWriteImages BY <2>1, <2>2 DEF AppWriteImages, Healthy
  <2>3. CASE AppSaveRollback
    <3>1. app' = app /\ trials' = trials /\ ~Pending(disk)
      BY <2>3 DEF AppSaveRollback
    <3>2. disk.upgrade_available = disk'.upgrade_available
      BY <2>3 DEF AppSaveRollback, FwSetenv, TypeOK, Environment
    <3> QED BY <2>1, <3>1, <3>2 DEF Pending
  <2>4. CASE AppRaiseFlag BY <2>1, <2>4 DEF AppRaiseFlag
  <2>5. CASE AppSwitchSlot BY <2>1, <2>5 DEF AppSwitchSlot
  <2>6. CASE AppRestart BY <2>1, <2>6 DEF AppRestart
  <2>7. CASE AppConfirm BY <2>1, <2>7 DEF AppConfirm
  <2> QED BY <1>3, <2>2, <2>3, <2>4, <2>5, <2>6, <2>7 DEF Application
<1>4. CASE PowerCut
  BY <1>4 DEF PowerCut, ToOff, TypeOK
<1>5. CASE UNCHANGED vars BY <1>5 DEF vars
<1> QED BY <1>1, <1>2, <1>3, <1>4, <1>5 DEF Next

-----------------------------------------------------------------------------

\* A step that changes neither the environment on eMMC, as far as the update
\* goes, nor the history is a stutter.
LEMMA Stutter ==
  ASSUME Boots(disk') = Boots(disk), Pending(disk') <=> Pending(disk),
         confirmed' = confirmed, Pending(disk) => trials' = trials
  PROVE  UNCHANGED Update!vars
<1>1. (IF Pending(disk') THEN trials' ELSE 0) = (IF Pending(disk) THEN trials ELSE 0)
  OBVIOUS
<1>2. Pending(disk') = Pending(disk)
  BY DEF Pending
<1> QED BY <1>1, <1>2 DEF Update!vars

\* What a save amounts to: the undoing of an update, or nothing.
LEMMA SaveIsGiveUp ==
  ASSUME IInv, pc = "save", disk' = env, confirmed' = confirmed, trials' = trials
  PROVE  [Update!Next]_(Update!vars)
<1>1. CASE Rolling
  <2>1. env \in Environment /\ confirmed \in Slot \X Slot BY DEF IInv, TypeOK
  <2>2. Pending(disk) /\ ~Pending(disk') /\ Slots(env) = confirmed
    BY <1>1 DEF IInv, RamAgrees
  <2>3. Boots(disk') = confirmed BY <2>1, <2>2, BootsSlots
  <2>4. Update!GiveUp BY <2>2, <2>3 DEF Update!GiveUp, Update!Finish
  <2> QED BY <2>4 DEF Update!Next
<1>2. CASE ~Rolling
  <2>1. View(env) = View(disk) BY <1>2 DEF IInv, RamAgrees
  <2> QED BY <2>1, ViewParts, Stutter
<1> QED BY <1>1, <1>2

LEMMA StepImplements ==
  ASSUME ~TornSaves, MaxCuts < 6
  PROVE  IInv /\ IInv' /\ StagingInv /\ [Next]_vars => [Update!Next]_(Update!vars)
<1> SUFFICES ASSUME IInv, IInv', StagingInv, [Next]_vars
             PROVE  [Update!Next]_(Update!vars)
  OBVIOUS
<1>1. /\ env \in Environment /\ disk \in Environment /\ disk' \in Environment
      /\ trials \in Nat /\ cuts \in Nat /\ cuts < 6 /\ ~wiped
  BY BoundsAssumption DEF IInv, TypeOK, StagingInv
<1>2. CASE SaveEnv
  BY <1>2, SaveIsGiveUp DEF SaveEnv, hist
<1>3. CASE StartKernel
  <2>1. /\ pc = "bootz" /\ disk' = disk /\ confirmed' = confirmed
        /\ trials' = IF Pending(env) THEN trials + 1 ELSE 0
    BY <1>3 DEF StartKernel
  <2>2. Pending(env) <=> Pending(disk)
    BY <2>1, ViewParts DEF IInv, RamAgrees, Booting, AfterCount
  <2>3. CASE Pending(disk)
    <3>1. trials < 3
      BY <1>1, <2>1, <2>2, <2>3 DEF IInv, Counted, AfterCount, TryBound, Chosen, Environment, NoTry
    <3>2. Update!Try
      BY <2>1, <2>2, <2>3, <3>1 DEF Update!Try
    <3> QED BY <3>2 DEF Update!Next
  <2>4. CASE ~Pending(disk) BY <2>1, <2>4, Stutter
  <2> QED BY <2>3, <2>4
<1>4. CASE UBoot /\ ~SaveEnv /\ ~StartKernel
  <2>1. UNCHANGED <<disk, confirmed, trials>>
    BY <1>4 DEF UBoot, PowerOn, Bootcount, RunBootcmd, RunAltbootcmd, SetDefaults,
                InstallAltbootcmd, CountTry, ClearTry, GiveUp, Retry, SelectSlots, LoadKernel,
                LoadDtb, BootzFailed, Env, hist
  <2> QED BY <2>1, Stutter
<1>5. CASE Panic \/ Reboot \/ AppWriteImages \/ AppRestart \/ UNCHANGED vars
  <2>1. UNCHANGED <<disk, confirmed, trials>>
    BY <1>5 DEF Panic, Reboot, AppWriteImages, AppRestart, vars, hist
  <2> QED BY <2>1, Stutter
<1>6. CASE AppSaveRollback
  <2>1. /\ disk'.boot_slot = disk.boot_slot /\ disk'.kernel_slot = disk.kernel_slot
        /\ disk'.rootfs_slot = disk.rootfs_slot
        /\ disk'.upgrade_available = disk.upgrade_available
    BY <1>1, <1>6 DEF AppSaveRollback, FwSetenv, Environment
  <2>2. Boots(disk') = Boots(disk) /\ (Pending(disk') <=> Pending(disk))
    BY <1>1, <2>1, DefaultsFields DEF Boots, Pending
  <2> QED BY <1>6, <2>2, Stutter DEF AppSaveRollback, hist
<1>7. CASE AppRaiseFlag
  <2>1. /\ ~Pending(disk) /\ pc = "linux" /\ confirmed' = Slots(env) /\ trials' = 0
    BY <1>7 DEF AppRaiseFlag, FwSetenv, Healthy
  <2>2. Slots(env) = confirmed BY <1>1, <2>1 DEF IInv, Undoable
  <2>3. /\ disk'.boot_slot = disk.boot_slot /\ disk'.kernel_slot = disk.kernel_slot
        /\ disk'.rootfs_slot = disk.rootfs_slot /\ disk'.upgrade_available = "1"
    BY <1>1, <1>7 DEF AppRaiseFlag, FwSetenv, Environment
  <2>4. Pending(disk') BY <2>3 DEF Pending
  <2>5. Boots(disk') = Boots(disk) BY <1>1, <2>3, DefaultsFields DEF Boots
  <2>6. Update!Begin
    <3>1. Pending(disk') = TRUE BY <2>4 DEF Pending
    <3> QED BY <2>1, <2>2, <2>4, <2>5, <3>1 DEF Update!Begin
  <2> QED BY <2>6 DEF Update!Next
<1>8. CASE AppSwitchSlot
  <2>1. Pending(disk) /\ trials = 0 /\ trials' = trials /\ confirmed' = confirmed
    BY <1>8 DEF AppSwitchSlot, StagingInv, hist
  <2>2. disk'.upgrade_available = disk.upgrade_available
    BY <1>1, <1>8 DEF AppSwitchSlot, FwSetenv, Environment
  <2>3. Pending(disk') = Pending(disk) /\ Pending(disk') BY <2>1, <2>2 DEF Pending
  <2>4. Boots(disk') \in Slot \X Slot BY BootsType
  <2>5. Update!Switch BY <2>1, <2>3, <2>4 DEF Update!Switch
  <2> QED BY <2>5 DEF Update!Next
<1>9. CASE AppConfirm
  <2>1. /\ pc = "linux" /\ Pending(disk)
        /\ confirmed' = Slots(env) /\ Slots(env) = Slots(disk)
    BY <1>9 DEF AppConfirm, FwSetenv, Healthy
  <2>2. Slots(disk) \in Slot \X Slot
    BY <2>1 DEF IInv, SlotsChosen, Slots
  <2>3. Slots(disk') = Slots(disk) /\ ~Pending(disk')
    BY <1>1, <1>9 DEF AppConfirm, FwSetenv, Environment, Slots, Pending
  <2>4. Boots(disk) = Slots(disk) /\ Boots(disk') = Slots(disk)
    BY <1>1, <2>2, <2>3, BootsSlots
  <2>5. Update!Confirm
    BY <2>1, <2>3, <2>4 DEF Update!Confirm, Update!Finish
  <2> QED BY <2>5 DEF Update!Next
<1>10. CASE PowerCut
  <2>1. confirmed' = confirmed /\ trials' = trials BY <1>10 DEF PowerCut
  <2>2. CASE disk' = disk BY <2>1, <2>2, Stutter
  <2>3. CASE pc = "save" /\ disk' = env BY <2>1, <2>3, SaveIsGiveUp
  <2> QED BY <1>10, <2>2, <2>3 DEF PowerCut
<1> QED
  BY <1>2, <1>3, <1>4, <1>5, <1>6, <1>7, <1>8, <1>9, <1>10 DEF Next, Application

\* Without torn saves, and with at most five power cuts, every behaviour of the
\* board is a behaviour of the abstract update.
THEOREM Implements ==
  ASSUME ~TornSaves, MaxCuts < 6
  PROVE  Spec => ImplementsUpdate
<1>1. Init => Update!Init
  <2> SUFFICES ASSUME Init PROVE Update!Init
    OBVIOUS
  <2>1. IInv BY InvInit
  <2>2. ~wiped /\ pc = "off" /\ trials = 0 BY DEF Init
  <2>3. ~Pending(disk)
    <3>1. disk \in InitialEnvs BY DEF Init
    <3>2. \A rollback \in Slot \union {Unset} : rollback \in SlotValue BY DEF SlotValue
    <3> QED BY <3>1, <3>2, ViewDefaultEnv, ViewLegacyEnv DEF InitialEnvs
  <2>4. Boots(disk) = confirmed BY <2>1, <2>2, <2>3 DEF IInv, Undoable
  <2>5. Pending(disk) = FALSE BY <2>3 DEF Pending
  <2> QED BY <2>3, <2>4, <2>5, BootsType DEF Update!Init
<1>2. IInv => TypeOK BY DEF IInv
<1>3. IInv /\ IInv' /\ StagingInv /\ [Next]_vars => [Update!Next]_(Update!vars)
  BY StepImplements
<1> QED
  BY <1>1, <1>2, <1>3, Invariance, StagingInit, StagingNext, PTL
  DEF Spec, ImplementsUpdate, Update!Spec

=============================================================================
