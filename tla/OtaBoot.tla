------------------------------ MODULE OtaBoot ------------------------------
(***************************************************************************)
(* The A/B boot logic of the board: the U-Boot script boot.cmd, run at     *)
(* every reset over the single copy of the U-Boot environment on eMMC,     *)
(* with U-Boot's own bootcount in front of it and Linux with the OTA       *)
(* application behind it.                                                  *)
(*                                                                         *)
(* env is the environment in RAM, disk the copy on eMMC; a power cut       *)
(* forgets the first.  The script is sequential, so a step is the code     *)
(* between two points at which a power cut makes a difference.             *)
(*                                                                         *)
(* The OTA application and U-Boot itself are not in the repository: the    *)
(* actions named App* and Bootcount are the weakest use of the environment *)
(* that the comments of boot.cmd and the recipes describe.                 *)
(***************************************************************************)
EXTENDS Integers

CONSTANTS
  MaxCuts,     \* bound: power cuts in a behaviour
  MaxOtas,     \* bound: updates staged in a behaviour
  TornSaves,   \* whether a cut during a save may destroy the environment
  AppResets,   \* whether the application zeroes both counters when it stages
  FallbackKernels, \* what the generic zImage may be on this board
  Dtbs         \* the device trees on the boot partition

Unset == ""                       \* a variable absent from the environment
Slot == {"A", "B"}
Garbage == "other"                \* any other value of a slot variable
NoTry == -1                       \* ota_try = ""
KernelQuality == {"ok", "panics", "garbled", "missing"}
EmmcDtb == "imx6ull-14x14-evk-emmc.dtb"
EvkDtb == "imx6ull-14x14-evk.dtb"

ASSUME BoundsAssumption == MaxCuts \in Nat /\ MaxOtas \in Nat
ASSUME SwitchAssumption == TornSaves \in BOOLEAN /\ AppResets \in BOOLEAN
ASSUME FilesAssumption ==
  /\ FallbackKernels \subseteq KernelQuality
  /\ Dtbs \subseteq {EmmcDtb, EvkDtb}

VARIABLES
  pc,        \* where the board is: a section of the script, "save", "linux"
  ret,       \* where saveenv returns to while pc = "save"
  env,       \* the U-Boot environment in RAM (in Linux: the booted command line)
  disk,      \* the U-Boot environment on eMMC
  loaded,    \* the kernel file fatload put in RAM: a slot's, or the generic zImage
  kernels,   \* the quality of each kernel file
  rootfs,    \* whether each root file system boots
  app,       \* the OTA application: "idle" or "staging"
  goal,      \* the slots the update being staged is for
  confirmed, \* history: the slots the application last saw working
  attempts,  \* history: resets since upgrade_available was raised
  trials,    \* history: kernels started under upgrade_available = 1
  wiped,     \* history: a torn save has destroyed the environment
  cuts, otas \* the bounded counters

hist == <<confirmed, attempts, trials, wiped, cuts, otas>>
images == <<loaded, kernels, rootfs>>
linuxVars == <<app, goal>>
vars == <<pc, ret, env, disk, images, linuxVars, hist>>

-----------------------------------------------------------------------------
(* The environment.                                                        *)

SlotValue == Slot \union {Unset, Garbage}
Environment ==
  [ boot_slot : SlotValue, kernel_slot : SlotValue, rootfs_slot : SlotValue,
    kernel_rollback_slot : SlotValue, rootfs_rollback_slot : SlotValue,
    rollback_slot : SlotValue, upgrade_available : {Unset, "0", "1"},
    ota_try : Nat \union {NoTry}, bootcount : Nat, ota_env_ready : BOOLEAN ]

\* What U-Boot falls back to when the stored copy fails its CRC.
DefaultEnv ==
  [ boot_slot |-> Unset, kernel_slot |-> Unset, rootfs_slot |-> Unset,
    kernel_rollback_slot |-> Unset, rootfs_rollback_slot |-> Unset,
    rollback_slot |-> Unset, upgrade_available |-> Unset,
    ota_try |-> NoTry, bootcount |-> 0, ota_env_ready |-> FALSE ]

\* bootlimit: set by the defconfig, and by the script when it is empty.
BootLimit == 3

Pending(e) == e.upgrade_available = "1"
Slots(e) == <<e.kernel_slot, e.rootfs_slot>>
Other(s) == IF s = "B" THEN "A" ELSE "B"
OrElse(value, default) == IF value = Unset THEN default ELSE value
Normal(s) == IF s = "B" THEN "B" ELSE "A"

Defaults(e) ==
  LET boot == OrElse(e.boot_slot, "A") IN
  [e EXCEPT !.boot_slot = boot,
            !.kernel_slot = OrElse(@, boot),
            !.rootfs_slot = OrElse(@, boot),
            !.upgrade_available = OrElse(@, "0")]

\* The end common to the three rollbacks.
RolledBack(e, kernel, root) ==
  [e EXCEPT !.kernel_slot = kernel, !.rootfs_slot = root, !.boot_slot = root,
            !.upgrade_available = "0", !.bootcount = 0, !.ota_try = 0]

\* Mutant: the legacy variable takes precedence.
LegacyFirstRollbackSlot(own, legacy, lastResort) == OrElse(legacy, OrElse(own, lastResort))

\* The slot a rollback picks: the component's own variable, the legacy one, or
\* a last resort.
RollbackSlot(own, legacy, lastResort) == OrElse(own, OrElse(legacy, lastResort))

\* Mutant: only the root file system is rolled back.
KernelKeptRollback(e) ==
  RolledBack(e, e.kernel_slot, RollbackSlot(e.rootfs_rollback_slot, e.rollback_slot, "A"))

\* The rollback of the script and of ota_rollback: the last resort is A.
ScriptRollback(e) ==
  RolledBack(e, RollbackSlot(e.kernel_rollback_slot, e.rollback_slot, "A"),
                RollbackSlot(e.rootfs_rollback_slot, e.rollback_slot, "A"))

\* The rollback of altbootcmd: the last resort is the other slot.
AltRollback(e) ==
  RolledBack(e, RollbackSlot(e.kernel_rollback_slot, e.rollback_slot, Other(e.kernel_slot)),
                RollbackSlot(e.rootfs_rollback_slot, e.rollback_slot, Other(e.rootfs_slot)))

\* setexpr counts in hexadecimal and test reads the digits back, so from ten on
\* the comparison may go either way.
MayRetry(try) == try <= 3 \/ try >= 10
\* Mutant: an update has two attempts.
MayGiveUpEarly(try) == try >= 3

MayGiveUp(try) == try > 3

-----------------------------------------------------------------------------
(* Control.                                                                *)

Goto(label) == pc' = label /\ UNCHANGED ret
SaveThen(label) == pc' = "save" /\ ret' = label

Env(e) == env' = e /\ UNCHANGED <<disk, images, linuxVars, hist>>

\* saveenv, when the power stays on.
SaveEnv ==
  /\ pc = "save"
  /\ pc' = ret /\ ret' = "off"
  /\ disk' = env
  /\ UNCHANGED <<env, images, linuxVars, hist>>

\* Reset: U-Boot loads the environment.
PowerOn ==
  /\ pc = "off"
  /\ pc' = "bootcount" /\ ret' = "off"
  /\ env' = disk
  /\ loaded' = "zImage"
  /\ attempts' = IF Pending(disk) THEN attempts + 1 ELSE 0
  /\ UNCHANGED <<disk, kernels, rootfs, linuxVars, confirmed, trials, wiped, cuts, otas>>

\* bootcount_inc: counts and saves only while an upgrade is pending, and "does
\* not count as wanted" on this board, so it may also do nothing.
Bootcount ==
  /\ pc = "bootcount"
  /\ \/ /\ Pending(env)
        /\ Env([env EXCEPT !.bootcount = @ + 1])
        /\ SaveThen("autoboot")
     \/ /\ ~Pending(env)
        /\ Env([env EXCEPT !.bootcount = 1])
        /\ Goto("autoboot")
     \/ Env(env) /\ Goto("autoboot")

LimitExceeded(e) == Pending(e) /\ e.bootcount > BootLimit

RunBootcmd ==
  /\ pc = "autoboot"
  /\ ~LimitExceeded(env)
  /\ Env(env) /\ Goto("defaults")

RunAltbootcmd ==
  /\ pc = "autoboot"
  /\ LimitExceeded(env)
  /\ env.ota_env_ready
  /\ Env(AltRollback(env))
  /\ SaveThen("off")

-----------------------------------------------------------------------------
(* boot.cmd.                                                               *)

SetDefaults ==
  /\ pc = "defaults"
  /\ Env(Defaults(env)) /\ Goto("install")

\* Mutant: the block that stores altbootcmd is lost.
SkipAltbootcmd ==
  /\ pc = "install"
  /\ Env(env) /\ Goto("count")

InstallAltbootcmd ==
  /\ pc = "install"
  /\ \/ /\ ~env.ota_env_ready
        /\ Env([env EXCEPT !.ota_env_ready = TRUE])
        /\ SaveThen("count")
     \/ env.ota_env_ready /\ Env(env) /\ Goto("count")

\* Mutant: the count stays in RAM.
CountTryUnsaved ==
  /\ pc = "count"
  /\ Pending(env)
  /\ Env([env EXCEPT !.ota_try = IF @ = NoTry THEN 1 ELSE @ + 1])
  /\ Goto("check")

\* Mutant: the count goes the wrong way and an empty one is not seen.
CountTryDown ==
  /\ pc = "count"
  /\ Pending(env)
  /\ Env([env EXCEPT !.ota_try = @ - 1])
  /\ SaveThen("check")

CountTry ==
  /\ pc = "count"
  /\ Pending(env)
  /\ Env([env EXCEPT !.ota_try = IF @ = NoTry THEN 1 ELSE @ + 1])
  /\ SaveThen("check")

\* Mutant: a boot saves the counter whatever it is.
ClearTryAlways ==
  /\ pc = "count"
  /\ ~Pending(env)
  /\ Env([env EXCEPT !.ota_try = 0])
  /\ SaveThen("select")

ClearTry ==
  /\ pc = "count"
  /\ ~Pending(env)
  /\ \/ /\ env.ota_try # 0
        /\ Env([env EXCEPT !.ota_try = 0])
        /\ SaveThen("select")
     \/ env.ota_try = 0 /\ Env(env) /\ Goto("select")

GiveUp ==
  /\ pc = "check"
  /\ MayGiveUp(env.ota_try)
  /\ Env(ScriptRollback(env))
  /\ SaveThen("off")

Retry ==
  /\ pc = "check"
  /\ MayRetry(env.ota_try)
  /\ Env(env) /\ Goto("select")

\* Mutant: garbage goes to B.
SelectSlotsGarbageToB ==
  /\ pc = "select"
  /\ Goto("kernel")
  /\ LET ToB(s) == IF s = "A" THEN "A" ELSE "B" IN
     Env([env EXCEPT !.kernel_slot = ToB(@), !.rootfs_slot = ToB(@), !.boot_slot = ToB(env.rootfs_slot)])

\* Only in RAM: the normalised slots are not saved.
SelectSlots ==
  /\ pc = "select"
  /\ Goto("kernel")
  /\ LET root == Normal(env.rootfs_slot) IN
     Env([env EXCEPT !.kernel_slot = Normal(@), !.rootfs_slot = root, !.boot_slot = root])

\* The slot's file, else the generic zImage, else reset.
LoadKernel ==
  LET wanted == env.kernel_slot
      found(f) == kernels[f] # "missing" IN
  /\ pc = "kernel"
  /\ \/ /\ found(wanted) \/ found("zImage")
        /\ loaded' = IF found(wanted) THEN wanted ELSE "zImage"
        /\ Goto("dtb")
     \/ /\ ~found(wanted) /\ ~found("zImage")
        /\ UNCHANGED loaded
        /\ Goto("off")
  /\ UNCHANGED <<env, disk, kernels, rootfs, linuxVars, hist>>

LoadDtb ==
  /\ pc = "dtb"
  /\ Env(env)
  /\ IF EmmcDtb \in Dtbs \/ EvkDtb \in Dtbs THEN Goto("bootz") ELSE Goto("off")

\* bootz starts the kernel and does not return.
StartKernel ==
  /\ pc = "bootz"
  /\ kernels[loaded] # "garbled"
  /\ Goto("linux")
  /\ trials' = IF Pending(env) THEN trials + 1 ELSE 0
  /\ UNCHANGED <<env, disk, images, linuxVars, confirmed, attempts, wiped, cuts, otas>>

\* Mutant: the flag is cleared but the slots are kept.
BootzFailedFlagOnly ==
  /\ pc = "bootz"
  /\ kernels[loaded] = "garbled"
  /\ \/ Pending(env) /\ Env([env EXCEPT !.upgrade_available = "0"]) /\ SaveThen("off")
     \/ ~Pending(env) /\ Env(env) /\ Goto("off")

\* bootz returns: roll back at once if an upgrade is pending, else reset.
BootzFailed ==
  /\ pc = "bootz"
  /\ kernels[loaded] = "garbled"
  /\ \/ Pending(env) /\ Env(ScriptRollback(env)) /\ SaveThen("off")
     \/ ~Pending(env) /\ Env(env) /\ Goto("off")

-----------------------------------------------------------------------------
(* Linux and the OTA application.                                          *)

Healthy == pc = "linux" /\ kernels[loaded] = "ok" /\ rootfs[env.rootfs_slot]

ToOff ==
  /\ pc' = "off"
  /\ app' = "idle" /\ goal' = <<"A", "A">>
  /\ UNCHANGED <<ret, env, images>>

\* panic=5 on the command line.
Panic ==
  /\ pc = "linux" /\ ~Healthy
  /\ ToOff /\ UNCHANGED <<disk, hist>>

Reboot == Healthy /\ ToOff /\ UNCHANGED <<disk, hist>>

FwSetenv(e) ==
  /\ Healthy
  /\ disk' = e
  /\ UNCHANGED <<pc, ret, env, images>>

\* The application writes images into slots that are not running.
AppWriteImages ==
  /\ Healthy /\ app = "idle" /\ ~Pending(disk) /\ otas < MaxOtas
  /\ \E kernel \in KernelQuality, root \in BOOLEAN, parts \in SUBSET {"kernel", "rootfs"} :
       /\ parts # {}
       /\ goal' = << IF "kernel" \in parts THEN Other(env.kernel_slot) ELSE env.kernel_slot,
                     IF "rootfs" \in parts THEN Other(env.rootfs_slot) ELSE env.rootfs_slot >>
       /\ kernels' = IF "kernel" \in parts THEN [kernels EXCEPT ![goal'[1]] = kernel] ELSE kernels
       /\ rootfs' = IF "rootfs" \in parts THEN [rootfs EXCEPT ![goal'[2]] = root] ELSE rootfs
       /\ "kernel" \notin parts => kernel = "ok"
       /\ "rootfs" \notin parts => root
  /\ app' = "staging"
  /\ otas' = otas + 1
  /\ UNCHANGED <<pc, ret, env, disk, loaded, confirmed, attempts, trials, wiped, cuts>>

\* The slots before the update: one variable per component, or the legacy one.
AppSaveRollback ==
  /\ app = "staging" /\ ~Pending(disk)
  /\ \/ FwSetenv([disk EXCEPT !.kernel_rollback_slot = env.kernel_slot])
     \/ FwSetenv([disk EXCEPT !.rootfs_rollback_slot = env.rootfs_slot])
     \/ /\ disk.kernel_rollback_slot = Unset /\ disk.rootfs_rollback_slot = Unset
        /\ env.kernel_slot = env.rootfs_slot
        /\ FwSetenv([disk EXCEPT !.rollback_slot = env.rootfs_slot])
  /\ UNCHANGED <<linuxVars, hist>>

RollbackSaved ==
  \/ <<disk.kernel_rollback_slot, disk.rootfs_rollback_slot>> = Slots(env)
  \/ /\ disk.kernel_rollback_slot = Unset /\ disk.rootfs_rollback_slot = Unset
     /\ <<disk.rollback_slot, disk.rollback_slot>> = Slots(env)

AppRaiseFlag ==
  /\ app = "staging" /\ ~Pending(disk) /\ RollbackSaved
  /\ FwSetenv([disk EXCEPT !.upgrade_available = "1",
                           !.ota_try = IF AppResets THEN 0 ELSE @,
                           !.bootcount = IF AppResets THEN 0 ELSE @])
  /\ confirmed' = Slots(env)
  /\ attempts' = 0 /\ trials' = 0
  /\ UNCHANGED <<linuxVars, wiped, cuts, otas>>

\* Only then the slots to boot.
AppSwitchSlot ==
  /\ app = "staging" /\ Pending(disk)
  /\ \/ FwSetenv([disk EXCEPT !.kernel_slot = goal[1]])
     \/ FwSetenv([disk EXCEPT !.rootfs_slot = goal[2]])
  /\ UNCHANGED <<linuxVars, hist>>

\* The application is restarted by systemd and forgets what it was doing.
AppRestart ==
  /\ Healthy /\ app = "staging"
  /\ app' = "idle" /\ goal' = <<"A", "A">>
  /\ UNCHANGED <<pc, ret, env, disk, images, hist>>

\* It confirms an update when the command line shows the slots that are pending.
AppConfirm ==
  /\ app = "idle" /\ Pending(disk) /\ Slots(env) = Slots(disk)
  /\ FwSetenv([disk EXCEPT !.upgrade_available = "0"])
  /\ confirmed' = Slots(env)
  /\ UNCHANGED <<linuxVars, attempts, trials, wiped, cuts, otas>>

-----------------------------------------------------------------------------
(* Power cuts.                                                             *)

\* A cut during a save leaves the old or the new copy of the environment, and
\* with TornSaves perhaps one that fails its CRC.
Writing == pc = "save" \/ (Healthy /\ (app = "staging" \/ Pending(disk)))

PowerCut ==
  /\ pc # "off" /\ cuts < MaxCuts
  /\ ToOff
  /\ \/ disk' = disk /\ UNCHANGED wiped
     \/ pc = "save" /\ disk' = env /\ UNCHANGED wiped
     \/ TornSaves /\ Writing /\ disk' = DefaultEnv /\ wiped' = TRUE
  /\ cuts' = cuts + 1
  /\ UNCHANGED <<confirmed, attempts, trials, otas>>

-----------------------------------------------------------------------------
(* The specification.                                                      *)

\* The environment of the first A/B design: boot_slot is the only slot variable.
LegacyEnv(boot, rollback) ==
  [DefaultEnv EXCEPT !.boot_slot = boot, !.rollback_slot = rollback, !.upgrade_available = "0"]

\* A board straight from the factory, or one with a legacy environment.
InitialEnvs ==
  {DefaultEnv} \union
  {LegacyEnv(boot, rollback) : boot \in SlotValue, rollback \in Slot \union {Unset}}

Init ==
  /\ pc = "off" /\ ret = "off"
  /\ disk \in InitialEnvs /\ env = disk
  /\ loaded = "zImage"
  /\ \E fallback \in FallbackKernels :
       kernels = [f \in Slot \union {"zImage"} |-> IF f = "zImage" THEN fallback ELSE "ok"]
  /\ rootfs = [s \in Slot |-> TRUE]
  /\ app = "idle" /\ goal = <<"A", "A">>
  /\ confirmed = <<Normal(disk.boot_slot), Normal(disk.boot_slot)>>
  /\ attempts = 0 /\ trials = 0
  /\ wiped = FALSE
  /\ cuts = 0 /\ otas = 0

UBoot ==
  \/ SaveEnv \/ PowerOn \/ Bootcount \/ RunBootcmd \/ RunAltbootcmd
  \/ SetDefaults \/ InstallAltbootcmd \/ CountTry \/ ClearTry \/ GiveUp \/ Retry
  \/ SelectSlots \/ LoadKernel \/ LoadDtb \/ StartKernel \/ BootzFailed

Application ==
  \/ AppWriteImages \/ AppSaveRollback \/ AppRaiseFlag \/ AppSwitchSlot
  \/ AppRestart \/ AppConfirm

Next == UBoot \/ Panic \/ Reboot \/ Application \/ PowerCut

Spec == Init /\ [][Next]_vars

\* U-Boot and a panicking kernel run by themselves; nobody has to update,
\* confirm, reboot or cut the power.
FairSpec == Spec /\ WF_vars(UBoot) /\ WF_vars(Panic)

-----------------------------------------------------------------------------
(* Properties.                                                             *)

Label == {"off", "bootcount", "autoboot", "defaults", "install", "count", "check",
          "select", "kernel", "dtb", "bootz", "linux", "save"}

\* Every variable has its type.
TypeOK ==
  /\ pc \in Label /\ ret \in {"autoboot", "count", "check", "select", "off"}
  /\ env \in Environment /\ disk \in Environment
  /\ loaded \in Slot \union {"zImage"}
  /\ kernels \in [Slot \union {"zImage"} -> KernelQuality]
  /\ rootfs \in [Slot -> BOOLEAN]
  /\ app \in {"idle", "staging"} /\ goal \in Slot \X Slot
  /\ confirmed \in Slot \X Slot
  /\ attempts \in Nat /\ trials \in Nat /\ cuts \in Nat /\ otas \in Nat
  /\ wiped \in BOOLEAN

\* An image nobody has confirmed runs only while upgrade_available is still up
\* on eMMC, so that the next resets count against it; the exception is a board
\* whose environment was destroyed, which boots slot A whatever is in it.
UnconfirmedOnlyOnTrial ==
  (pc = "linux" /\ Slots(env) # confirmed /\ ~wiped) => Pending(disk)

\* An update gets at most three starts of its kernel (boot.cmd:95), however
\* the power is cut in between, until the sixth cut could have let the counter
\* reach ten, where the shell's hexadecimal and decimal readings part.
AtMostThreeTrials == cuts < 6 => trials <= 3

\* When U-Boot turns to altbootcmd, the script has already stored it.
AltbootcmdReady == (pc = "autoboot" /\ LimitExceeded(env)) => env.ota_env_ready

\* A rollback, by either counter or by a kernel that bootz refuses, puts back
\* exactly the slots the update was staged from.
RollbackSave == pc = "save" /\ ret = "off" /\ Pending(disk) /\ ~Pending(env)
RollbackRestores == RollbackSave => Slots(env) = confirmed

\* The counters give an update up only at its fourth reset: never because of
\* what an earlier update left in them.
NoEarlyGiveUp ==
  [][(GiveUp \/ RunAltbootcmd) => attempts > 3]_vars

\* The environment is written by a boot only when it has something to say: a
\* boot with nothing pending and the counter at zero leaves eMMC alone
\* (boot.cmd:143).
QuietBoot ==
  [][(pc # "save" /\ pc' = "save") =>
       Pending(env) \/ env.ota_try # 0 \/ ~env.ota_env_ready]_vars

\* Whatever an update was and wherever the power is cut, the board comes back
\* to a Linux that runs, unless a cut destroyed the only environment it has.
Recovers == []<>(Healthy \/ wiped)

\* The pair of slots that a board holding e boots.
Boots(e) == LET filled == Defaults(e) IN <<Normal(filled.kernel_slot), Normal(filled.rootfs_slot)>>

\* The boot logic implements the abstract update while the environment is not
\* destroyed.
Update ==
  INSTANCE AbUpdate WITH Pairs <- Slot \X Slot, MaxTries <- 3,
    active <- Boots(disk), good <- confirmed, onTrial <- Pending(disk),
    tries <- IF Pending(disk) THEN trials ELSE 0

\* Every behaviour of the board is one of the abstract update: it is declared,
\* switched to, tried at most three times and confirmed or undone, in this
\* order and whatever the power does.
ImplementsUpdate == Update!Spec

\* The slot that the command line reports to the application is the kernel
\* that runs (boot.cmd:209).
ReportedKernelRuns == pc = "linux" => loaded = env.kernel_slot

=============================================================================
