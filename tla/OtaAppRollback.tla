--------------------------- MODULE OtaAppRollback ---------------------------
(***************************************************************************)
(* The supervision of the OTA application by systemd: the unit             *)
(* hnn-okm6ull-ota.service, which restarts the application, and the        *)
(* oneshot unit ota-app-rollback.service, which its OnFailure= starts and  *)
(* whose shell command puts the backup application back.                   *)
(*                                                                         *)
(* mem is the file system as the programs see it, disk what a power cut    *)
(* leaves: ext4 commits writes in order, so disk is always an earlier mem. *)
(* systemd and the application are not in the repository; the actions      *)
(* named App* are what the rollback command presupposes of it.             *)
(***************************************************************************)
EXTENDS Naturals

CONSTANTS
  MaxCuts,     \* bound: power cuts
  MaxFaults,   \* bound: crashes of a sound application, failures of a command
  MaxUpdates,  \* bound: applications staged
  NewApps,     \* how the application being installed may behave
  AppBacksUp   \* whether a backup is made before the update is announced

Behaviours == {"sound", "fast", "slow"}   \* never crashes, crashes within or after the interval

ASSUME RollbackBounds == MaxCuts \in Nat /\ MaxFaults \in Nat /\ MaxUpdates \in Nat
ASSUME RollbackSwitches == NewApps \subseteq Behaviours /\ AppBacksUp \in BOOLEAN

StartLimitBurst == 3

VARIABLES
  unit,     \* hnn-okm6ull-ota.service
  starts,   \* its starts within StartLimitIntervalSec
  svc,      \* the next step of ota-app-rollback.service
  job,      \* the step of the application's own staging
  mem, disk,
  new,      \* how the application being installed behaves
  accepted, \* history: the applications that confirmed themselves
  rolled,   \* history: this run of the rollback service does roll back
  cuts, faults, updates

fs == <<mem, disk>>
hist == <<new, accepted, rolled>>
bounds == <<cuts, faults, updates>>
vars == <<unit, starts, svc, job, fs, hist, bounds>>

App == {"old", "new", "partial"}
Files == [ app : App, backup : App \union {"missing"},
           flag : {"missing", "empty", "0", "1"}, leftovers : BOOLEAN ]

Sound(app) == app = "old" \/ (app = "new" /\ new = "sound")
Running(app) == unit = "running" /\ mem.app = app
Working == unit = "running" /\ Sound(mem.app)

Write(files) == mem' = files /\ UNCHANGED disk
Svc(step) == svc' = step /\ UNCHANGED <<unit, starts, job, hist, bounds>>

-----------------------------------------------------------------------------
(* hnn-okm6ull-ota.service.                                                *)

\* Mutant: one start too many.
StartOnceMore ==
  /\ unit = "activating" /\ starts <= StartLimitBurst
  /\ unit' = "running" /\ starts' = starts + 1
  /\ UNCHANGED <<svc, rolled, job, fs, new, accepted, bounds>>

\* Mutant: OnFailure= acts before the limit, while the unit is still restarted.
StartFailsEarly ==
  /\ unit = "activating"
  /\ unit' = "running" /\ starts' = IF starts < StartLimitBurst THEN starts + 1 ELSE starts
  /\ IF starts = StartLimitBurst - 1 THEN svc' = "check" /\ rolled' = FALSE
                                     ELSE UNCHANGED <<svc, rolled>>
  /\ UNCHANGED <<job, fs, new, accepted, bounds>>

\* A start, or its refusal by the start limit, which fails the unit and starts
\* the unit named by OnFailure=.
Start ==
  /\ unit = "activating"
  /\ \/ /\ starts < StartLimitBurst
        /\ unit' = "running" /\ starts' = starts + 1
        /\ UNCHANGED <<svc, rolled>>
     \/ /\ starts = StartLimitBurst
        /\ unit' = "failed" /\ svc' = "check" /\ rolled' = FALSE
        /\ UNCHANGED starts
  /\ UNCHANGED <<job, fs, new, accepted, bounds>>

\* The application ran so long that earlier starts are out of the interval.
IntervalElapses ==
  /\ unit = "running" /\ starts > 0
  /\ mem.app # "partial" /\ (mem.app = "new" => new # "fast")
  /\ starts' = 0
  /\ UNCHANGED <<unit, svc, job, fs, hist, bounds>>

\* Restart=always: whatever ends the application starts it again.
Restart == unit' = "activating" /\ job' = "none"

\* A truncated file cannot even be executed.
Crash ==
  /\ unit = "running"
  /\ \/ mem.app = "partial" /\ UNCHANGED faults
     \/ mem.app = "new" /\ new = "fast" /\ UNCHANGED faults
     \/ mem.app = "new" /\ new = "slow" /\ starts = 0 /\ UNCHANGED faults
     \/ Sound(mem.app) /\ faults < MaxFaults /\ faults' = faults + 1
  /\ Restart
  /\ UNCHANGED <<starts, svc, fs, hist, cuts, updates>>

-----------------------------------------------------------------------------
(* ota-app-rollback.service: the shell command, then reset-failed, start.  *)

\* Mutant: the flag is not consulted.
RollbackCheckNoFlag ==
  /\ svc = "check"
  /\ \/ mem.backup = "missing" /\ svc' = "idle" /\ UNCHANGED rolled
     \/ mem.backup # "missing" /\ svc' = "truncate" /\ rolled' = TRUE
  /\ UNCHANGED <<unit, starts, job, fs, new, accepted, bounds>>

\* The command exits 0 when no update is pending, and 1, which ends the unit,
\* when there is no backup.
RollbackCheck ==
  /\ svc = "check"
  /\ \/ mem.flag # "1" /\ svc' = "reset" /\ UNCHANGED rolled
     \/ mem.flag = "1" /\ mem.backup = "missing" /\ svc' = "idle" /\ UNCHANGED rolled
     \/ mem.flag = "1" /\ mem.backup # "missing" /\ svc' = "truncate" /\ rolled' = TRUE
  /\ UNCHANGED <<unit, starts, job, fs, new, accepted, bounds>>

\* Mutant: the flag is lowered before the copy.
CopyTruncatesAfterClear ==
  /\ svc = "truncate"
  /\ Write([mem EXCEPT !.app = "partial", !.flag = "0"])
  /\ Svc("copy")

\* cp truncates the installed application, then fills it; the chmod that follows
\* changes nothing more.
CopyTruncates ==
  /\ svc = "truncate"
  /\ Write([mem EXCEPT !.app = "partial"])
  /\ Svc("copy")

CopyFills ==
  /\ svc = "copy"
  /\ Write([mem EXCEPT !.app = mem.backup])
  /\ Svc("clear")

\* A command of the chain fails: cp before or after it truncated the file, chmod
\* (its failure leaves what "clear" finds), an echo or rm. The chain stops there
\* and its status fails the unit, so the two systemctl commands are not run.
CommandFails ==
  /\ svc \in {"truncate", "copy", "clear", "write", "rm"} /\ faults < MaxFaults
  /\ svc' = "idle" /\ faults' = faults + 1
  /\ UNCHANGED <<unit, starts, job, fs, hist, cuts, updates>>

\* echo 0 > upgrade_available truncates the file, then writes it.
ClearTruncates ==
  /\ svc = "clear"
  /\ Write([mem EXCEPT !.flag = "empty"])
  /\ Svc("write")

ClearWrites ==
  /\ svc = "write"
  /\ Write([mem EXCEPT !.flag = "0"])
  /\ Svc("rm")

\* app_try_count, pending_app and rollback_app.
RemoveLeftovers ==
  /\ svc = "rm"
  /\ Write([mem EXCEPT !.leftovers = FALSE])
  /\ Svc("sync")

\* Mutant: the command ends without sync.
SyncForgotten ==
  /\ svc = "sync"
  /\ UNCHANGED fs
  /\ Svc("reset")

SyncFiles ==
  /\ svc = "sync"
  /\ disk' = mem /\ UNCHANGED mem
  /\ Svc("reset")

\* Mutant: the start counter survives.
ResetFailedKeepsCount ==
  /\ svc = "reset"
  /\ unit' = "inactive" /\ svc' = "start"
  /\ UNCHANGED <<starts, job, fs, hist, bounds>>

\* reset-failed forgets the failure and the starts counted.
ResetFailed ==
  /\ svc = "reset"
  /\ unit' = "inactive" /\ starts' = 0 /\ svc' = "start"
  /\ UNCHANGED <<job, fs, hist, bounds>>

StartApp ==
  /\ svc = "start"
  /\ unit' = "activating" /\ svc' = "idle"
  /\ UNCHANGED <<starts, job, fs, hist, bounds>>

-----------------------------------------------------------------------------
(* The application and the file system.                                    *)

AppWrites(files) == Working /\ Write(files) /\ UNCHANGED <<starts, svc, rolled>>

\* One update: keep a copy, announce the update, install it, exit.
AppBackup ==
  /\ job = "none" /\ Running("old") /\ updates < MaxUpdates /\ mem.flag # "1"
  /\ \E behaviour \in NewApps : new' = behaviour
  /\ \E backup \in IF AppBacksUp THEN {"old"} ELSE {"old", mem.backup} :
       AppWrites([mem EXCEPT !.backup = backup])
  /\ job' = "announce" /\ updates' = updates + 1
  /\ accepted' = {"old"}
  /\ UNCHANGED <<unit, cuts, faults>>

AppAnnounce ==
  /\ job = "announce"
  /\ AppWrites([mem EXCEPT !.flag = "1", !.leftovers = TRUE])
  /\ job' = "install"
  /\ UNCHANGED <<unit, new, accepted, bounds>>

AppInstall ==
  /\ job = "install"
  /\ \/ AppWrites([mem EXCEPT !.app = "new"]) /\ unit' = "activating" /\ job' = "none"
     \/ AppWrites([mem EXCEPT !.app = "partial"]) /\ UNCHANGED <<unit, job>>
  /\ UNCHANGED <<new, accepted, bounds>>

\* The rewriting of the installed file, once begun, goes on in the running image.
AppInstallEnds ==
  /\ job = "install" /\ unit = "running" /\ mem.app = "partial"
  /\ Write([mem EXCEPT !.app = "new"])
  /\ Restart
  /\ UNCHANGED <<starts, svc, hist, bounds>>

\* A sound application, the new one or the old one of an update that never came
\* to its installation, lowers the flag.
AppConfirm ==
  /\ job = "none" /\ mem.flag = "1"
  /\ AppWrites([mem EXCEPT !.flag = "0", !.leftovers = FALSE])
  /\ accepted' = accepted \union {mem.app}
  /\ UNCHANGED <<unit, job, new, bounds>>

\* The file system commits what was written so far.
Commit ==
  /\ unit # "off" /\ disk # mem
  /\ disk' = mem
  /\ UNCHANGED <<unit, starts, svc, job, mem, hist, bounds>>

PowerCut ==
  /\ unit # "off" /\ cuts < MaxCuts
  /\ unit' = "off" /\ starts' = 0 /\ svc' = "idle" /\ job' = "none"
  /\ mem' = disk
  /\ cuts' = cuts + 1
  /\ UNCHANGED <<disk, hist, faults, updates>>

PowerOn ==
  /\ unit = "off"
  /\ unit' = "activating"
  /\ UNCHANGED <<starts, svc, job, fs, hist, bounds>>

-----------------------------------------------------------------------------

Init ==
  /\ unit = "off" /\ starts = 0 /\ svc = "idle" /\ job = "none"
  /\ disk = [app |-> "old", backup |-> "missing", flag |-> "missing", leftovers |-> FALSE]
  /\ mem = disk
  /\ new \in NewApps
  /\ accepted = {"old"} /\ rolled = FALSE
  /\ cuts = 0 /\ faults = 0 /\ updates = 0

Rollback ==
  \/ RollbackCheck \/ CopyTruncates \/ CopyFills \/ ClearTruncates \/ ClearWrites
  \/ RemoveLeftovers \/ SyncFiles \/ ResetFailed \/ StartApp

\* What systemd and a crashing application do by themselves.
Supervision == PowerOn \/ Start \/ Rollback \/ (Crash /\ ~Working)

Application == AppBackup \/ AppAnnounce \/ AppInstall \/ AppInstallEnds \/ AppConfirm

Next ==
  \/ Supervision \/ Crash \/ IntervalElapses \/ CommandFails
  \/ Application \/ Commit \/ PowerCut

Spec == Init /\ [][Next]_vars

FairSpec == Spec /\ WF_vars(Supervision)

-----------------------------------------------------------------------------
(* Properties.                                                             *)

\* Every variable has its type.
TypeOK ==
  /\ unit \in {"off", "activating", "running", "failed", "inactive"}
  /\ starts \in 0..StartLimitBurst
  /\ svc \in {"idle", "check", "truncate", "copy", "clear", "write", "rm", "sync",
              "reset", "start"}
  /\ job \in {"none", "announce", "install"}
  /\ mem \in Files /\ disk \in Files
  /\ new \in NewApps /\ accepted \subseteq App /\ rolled \in BOOLEAN
  /\ cuts \in Nat /\ faults \in Nat /\ updates \in Nat

\* On the disk, whenever the power is cut, the flag is down only over an
\* application that confirmed itself: one that did not, or that is half copied,
\* still has the rollback ahead of it.
FlagGuardsDisk == disk.flag # "1" => disk.app \in accepted

\* A rollback is on the disk before the application is started again.
RollbackDurable ==
  (svc = "start" /\ rolled) => disk.app = disk.backup /\ disk.flag = "0" /\ ~disk.leftovers

\* The rollback service takes an application away only while its update is
\* pending: one that confirmed itself is not undone for crashing later.
AcceptedStays ==
  [][(svc = "truncate" /\ svc' = "copy") => mem.app \notin accepted \/ mem.flag = "1"]_vars

\* The service never replaces the application under a running unit, which would
\* find the file busy or execute half of it.
NoCopyWhileRunning == svc \in {"truncate", "copy"} => unit = "failed"

\* The rollback command failed: there was no backup, or one of its commands
\* failed before rm had removed the leftovers of the update.
GivenUp ==
  /\ unit = "failed" /\ svc = "idle"
  /\ \/ mem.flag = "1" /\ mem.backup = "missing"
     \/ mem.leftovers /\ faults > 0

\* An application that crashes at once, or that a power cut left half copied,
\* does not keep the board without one, as long as there is a backup and the
\* commands that put it back work.
\* One that crashes after the interval of the start limit is no such application.
WorksAgain == []<>(Working \/ GivenUp \/ (mem.app = "new" /\ new = "slow"))

-----------------------------------------------------------------------------
(* The inductive invariant behind FlagGuardsDisk and its companions.       *)

Guarded(files) == files.flag # "1" => files.app \in accepted
Settled(files) == files.app = "new" /\ files.flag # "1"

IInv ==
  /\ TypeOK
  /\ Guarded(mem) /\ Guarded(disk)
  /\ mem.backup \in {"old", "missing"} /\ disk.backup \in {"old", "missing"}
  /\ "old" \in accepted /\ accepted \subseteq {"old", "new"}
  /\ Settled(disk) => Settled(mem)
  /\ job = "announce" => mem.app = "old"
  /\ job = "install" => mem.flag = "1"
  /\ job # "none" => unit = "running"
  /\ svc # "idle" => unit \in {"failed", "inactive"}
  /\ svc \in {"check", "truncate", "copy", "clear", "write", "rm", "sync", "reset"} =>
       unit = "failed"
  /\ svc \in {"truncate", "copy", "clear"} => mem.flag = "1"
  /\ svc \in {"truncate", "copy", "clear", "write", "rm", "sync"} => mem.backup = "old" /\ rolled
  /\ svc \in {"clear", "write", "rm", "sync"} => mem.app = "old"
  /\ svc \in {"rm", "sync"} => mem.flag = "0"
  /\ svc = "sync" => ~mem.leftovers
  /\ svc = "check" => ~rolled
  /\ (svc \in {"reset", "start"} /\ rolled) =>
       /\ disk = mem
       /\ mem.app = "old" /\ mem.backup = "old" /\ mem.flag = "0" /\ ~mem.leftovers

=============================================================================
