----------------------------- MODULE OtaBootInv -----------------------------
(***************************************************************************)
(* The inductive invariant behind the theorems of OtaBootProofs, in a      *)
(* module of its own so that TLC can check it too.                         *)
(***************************************************************************)
EXTENDS OtaBoot

Tried(e) == IF e.ota_try = NoTry THEN 0 ELSE e.ota_try

\* The pair the rollback variables of e stand for.
RollbackPair(e) == << RollbackSlot(e.kernel_rollback_slot, e.rollback_slot, Unset),
                      RollbackSlot(e.rootfs_rollback_slot, e.rollback_slot, Unset) >>

\* What an environment says of the update.
View(e) == [pending |-> Pending(e), rollback |-> RollbackPair(e), boots |-> Boots(e)]

BeforeCount == {"bootcount", "autoboot", "defaults", "install", "count"}
AfterCount == {"check", "select", "kernel", "dtb", "bootz"}
Chosen == {"select", "kernel", "dtb", "bootz"}
Booting == BeforeCount \union AfterCount
Rolling == pc = "save" /\ ret = "off"

\* While U-Boot runs, its copy of the environment says of the update what eMMC
\* says, unless it holds a rollback that is being saved.
RamAgrees ==
  /\ (pc \in Booting \/ (pc = "save" /\ ~Rolling)) => View(env) = View(disk)
  /\ Rolling => ~Pending(env) /\ env.ota_try = 0 /\ Slots(env) = confirmed /\ Pending(disk)
  /\ (pc = "save" /\ ret = "autoboot") => Pending(env)
  /\ (pc = "save" /\ ret = "select") => ~Pending(env) /\ env.ota_try = 0
  /\ pc = "check" \/ (pc = "save" /\ ret = "check") => Pending(env)

\* The slots that are about to boot, or running, are slots.
SlotsChosen ==
  pc \in {"kernel", "dtb", "bootz", "linux"} => env.kernel_slot \in Slot /\ env.rootfs_slot \in Slot

\* From the defaults on, no slot is empty.
Filled ==
  pc \in {"install", "count", "check", "select"} \/ (pc = "save" /\ ret \in {"count", "check", "select"}) =>
    env.kernel_slot # Unset /\ env.rootfs_slot # Unset

\* altbootcmd is in RAM and on eMMC once the script is past its installation,
\* so it is there for every update.
ReadyStored ==
  /\ (pc \in BeforeCount \/ (pc = "save" /\ ret = "autoboot")) =>
       env.ota_env_ready = disk.ota_env_ready
  /\ pc \in {"count", "check", "select", "kernel", "dtb", "bootz", "linux"} =>
       env.ota_env_ready /\ disk.ota_env_ready
  /\ (pc = "save" /\ ret \in {"count", "check", "select"}) => env.ota_env_ready
  /\ (pc = "save" /\ ret \in {"check", "select"}) => disk.ota_env_ready
  /\ (pc # "off" /\ Pending(disk)) => env.ota_env_ready
  /\ Pending(disk) => disk.ota_env_ready

\* An update can always be undone, and without one the confirmed slots boot.
Undoable ==
  /\ Pending(disk) => RollbackPair(disk) = confirmed
  /\ (~wiped /\ ~Pending(disk)) => Boots(disk) = confirmed
  /\ (pc = "linux" /\ ~wiped /\ ~Pending(disk)) => Slots(env) = confirmed

\* The counter on eMMC is never behind the starts it stands for, and it is
\* ahead of them from the moment it is saved until the kernel starts.
Counted ==
  /\ Pending(disk) => trials <= Tried(disk)
  /\ pc \in BeforeCount \/ (pc = "save" /\ ret \in {"autoboot", "count"}) =>
       Tried(env) = Tried(disk)
  /\ (pc = "save" /\ ret = "check") => env.ota_try = Tried(disk) + 1
  /\ (pc \in AfterCount /\ Pending(env)) => env.ota_try = disk.ota_try /\ trials < env.ota_try

\* Every cut can raise the counter by one more than a try would.
TryBound ==
  cuts < 6 =>
    /\ Tried(disk) <= IF pc = "check" \/ Rolling THEN 4 + cuts ELSE 3 + cuts
    /\ (pc \in Chosen /\ Pending(env)) => env.ota_try <= 3

IInv ==
  /\ TypeOK
  /\ RamAgrees
  /\ SlotsChosen
  /\ Filled
  /\ ReadyStored
  /\ Undoable
  /\ Counted
  /\ TryBound
  /\ AtMostThreeTrials

\* What the refinement needs besides: staging happens in one session of Linux,
\* before the update has been started, and wiping takes a torn save.
StagingInv ==
  /\ app = "staging" => pc = "linux" /\ (Pending(disk) => trials = 0)
  /\ wiped => TornSaves
  /\ cuts <= MaxCuts

\* Where the application zeroes the counters, neither is ever ahead of the
\* resets since the flag was raised, and each is behind the present reset until
\* it has counted it.
CountsResets ==
  LET running == pc \in Booting \/ (pc = "save" /\ ~Rolling)
      uncounted == pc \in BeforeCount \/ (pc = "save" /\ ret \in {"autoboot", "count"}) IN
  /\ Pending(disk) => Tried(disk) <= attempts /\ disk.bootcount <= attempts
  /\ running /\ Pending(env) => Tried(env) <= attempts /\ env.bootcount <= attempts
  /\ uncounted /\ Pending(env) => Tried(env) < attempts
  /\ pc = "bootcount" /\ Pending(env) => env.bootcount < attempts

=============================================================================
