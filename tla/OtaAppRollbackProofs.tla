------------------------ MODULE OtaAppRollbackProofs ------------------------
(* Theorems about OtaAppRollback, for every value of its constants.        *)
EXTENDS OtaAppRollback, TLAPS

LEMMA InvInit == Init => IInv
<1> SUFFICES ASSUME Init PROVE IInv
  OBVIOUS
<1>1. TypeOK
  <2>1. disk \in Files /\ mem \in Files
    <3>1. [app |-> "old", backup |-> "missing", flag |-> "missing", leftovers |-> FALSE] \in Files
      BY DEF Files, App
    <3> QED BY <3>1 DEF Init
  <2>2. /\ starts \in 0..StartLimitBurst /\ cuts \in Nat /\ faults \in Nat /\ updates \in Nat
    BY DEF Init, StartLimitBurst
  <2>3. accepted \subseteq App BY DEF Init, App
  <2> QED BY <2>1, <2>2, <2>3 DEF Init, TypeOK
<1>2. /\ disk = [app |-> "old", backup |-> "missing", flag |-> "missing", leftovers |-> FALSE]
      /\ mem = disk /\ accepted = {"old"} /\ job = "none" /\ svc = "idle"
  BY DEF Init
<1> QED BY <1>1, <1>2 DEF IInv, Guarded, Settled

LEMMA InvNext == IInv /\ [Next]_vars => IInv'
<1> SUFFICES ASSUME IInv, [Next]_vars PROVE IInv'
  OBVIOUS
<1>0. TypeOK BY DEF IInv
<1>f. /\ mem \in Files /\ disk \in Files
  BY <1>0 DEF TypeOK
<1> USE DEF fs, hist, bounds, Svc, Write
<1>1. CASE Start
  <2>0. starts' \in 0..StartLimitBurst BY <1>0, <1>1 DEF Start, TypeOK, StartLimitBurst
  <2>1. TypeOK'
    <3>1. rolled' \in BOOLEAN BY <1>0, <1>1 DEF Start, TypeOK
    <3> QED BY <1>0, <1>1, <2>0, <3>1 DEF Start, TypeOK
  <2> QED BY <1>1, <2>1 DEF Start, IInv, Guarded, Settled
<1>2. CASE IntervalElapses
  <2>1. TypeOK' BY <1>0, <1>2 DEF IntervalElapses, TypeOK, StartLimitBurst
  <2> QED BY <1>2, <2>1 DEF IntervalElapses, IInv, Guarded, Settled
<1>3. CASE Crash
  <2>1. TypeOK' BY <1>0, <1>3 DEF Crash, Restart, TypeOK
  <2> QED BY <1>3, <2>1 DEF Crash, Restart, IInv, Guarded, Settled
<1>4. CASE RollbackCheck
  <2>1. TypeOK' BY <1>0, <1>4 DEF RollbackCheck, TypeOK
  <2> QED BY <1>4, <2>1 DEF RollbackCheck, IInv, Guarded, Settled
<1>5. CASE CopyTruncates
  <2>1. TypeOK' BY <1>0, <1>5 DEF CopyTruncates, TypeOK, Files, App
  <2> QED BY <1>5, <1>f, <2>1 DEF CopyTruncates, IInv, Guarded, Settled, Files
<1>6. CASE CopyFills
  <2>1. mem.backup = "old" BY <1>6 DEF CopyFills, IInv
  <2>2. TypeOK' BY <1>0, <1>6, <2>1 DEF CopyFills, TypeOK, Files, App
  <2> QED BY <1>6, <1>f, <2>1, <2>2 DEF CopyFills, IInv, Guarded, Settled, Files
<1>7. CASE CommandFails
  <2>1. TypeOK' BY <1>0, <1>7 DEF CommandFails, TypeOK
  <2> QED BY <1>7, <2>1 DEF CommandFails, IInv, Guarded, Settled
<1>8. CASE ClearTruncates
  <2>1. TypeOK' BY <1>0, <1>8 DEF ClearTruncates, TypeOK, Files
  <2> QED BY <1>8, <1>f, <2>1 DEF ClearTruncates, IInv, Guarded, Settled, Files
<1>9. CASE ClearWrites
  <2>1. TypeOK' BY <1>0, <1>9 DEF ClearWrites, TypeOK, Files
  <2> QED BY <1>9, <1>f, <2>1 DEF ClearWrites, IInv, Guarded, Settled, Files
<1>10. CASE RemoveLeftovers
  <2>1. TypeOK' BY <1>0, <1>10 DEF RemoveLeftovers, TypeOK, Files
  <2> QED BY <1>10, <1>f, <2>1 DEF RemoveLeftovers, IInv, Guarded, Settled, Files
<1>11. CASE SyncFiles
  <2>1. TypeOK' BY <1>0, <1>11 DEF SyncFiles, TypeOK
  <2> QED BY <1>11, <2>1 DEF SyncFiles, IInv, Guarded, Settled
<1>12. CASE ResetFailed
  <2>1. TypeOK' BY <1>0, <1>12 DEF ResetFailed, TypeOK, StartLimitBurst
  <2> QED BY <1>12, <2>1 DEF ResetFailed, IInv, Guarded, Settled
<1>13. CASE StartApp
  <2>1. TypeOK' BY <1>0, <1>13 DEF StartApp, TypeOK
  <2> QED BY <1>13, <2>1 DEF StartApp, IInv, Guarded, Settled
<1>14. CASE AppBackup
  <2>1. PICK behaviour \in NewApps, backup \in {"old", mem.backup} :
          /\ new' = behaviour /\ mem' = [mem EXCEPT !.backup = backup]
          /\ UNCHANGED <<disk, starts, svc, rolled>>
    BY <1>14 DEF AppBackup, AppWrites
  <2>2. /\ job = "none" /\ unit = "running" /\ mem.app = "old" /\ mem.flag # "1"
        /\ job' = "announce" /\ updates' = updates + 1 /\ accepted' = {"old"}
        /\ UNCHANGED <<unit, cuts, faults>>
    BY <1>14 DEF AppBackup, Running
  <2>3. /\ mem'.app = "old" /\ mem'.flag = mem.flag /\ mem'.backup = backup
        /\ backup \in {"old", "missing"}
    BY <1>f, <2>1, <2>2 DEF Files, IInv
  <2>4. TypeOK' BY <1>0, <2>1, <2>2, <2>3 DEF TypeOK, Files, App
  <2>5. Guarded(disk)' BY <1>f, <2>1, <2>2 DEF IInv, Guarded, Settled, Files, TypeOK, App
  <2> QED BY <2>1, <2>2, <2>3, <2>4, <2>5 DEF IInv, Guarded, Settled
<1>15. CASE AppAnnounce
  <2>1. TypeOK' BY ZenonT(60), <1>0, <1>15 DEF AppAnnounce, AppWrites, TypeOK, Files
  <2> QED BY <1>15, <1>f, <2>1 DEF AppAnnounce, AppWrites, Working, IInv, Guarded, Settled, Files
<1>16. CASE AppInstall
  <2>1. TypeOK' BY <1>0, <1>16 DEF AppInstall, AppWrites, TypeOK, Files, App
  <2> QED BY <1>16, <1>f, <2>1 DEF AppInstall, AppWrites, Working, IInv, Guarded, Settled, Files
<1>17. CASE AppInstallEnds
  <2>1. TypeOK' BY <1>0, <1>17 DEF AppInstallEnds, Restart, TypeOK, Files, App
  <2> QED BY <1>17, <1>f, <2>1 DEF AppInstallEnds, Restart, IInv, Guarded, Settled, Files
<1>18. CASE AppConfirm
  <2>1. TypeOK' BY ZenonT(60), <1>0, <1>f, <1>18 DEF AppConfirm, AppWrites, TypeOK, Files
  <2>2. /\ job = "none" /\ mem.flag = "1" /\ unit = "running"
        /\ accepted' = accepted \union {mem.app}
        /\ UNCHANGED <<unit, job, disk, svc, rolled>>
    BY <1>18 DEF AppConfirm, AppWrites, Working
  <2>3. /\ mem'.app = mem.app /\ mem'.flag = "0" /\ mem'.backup = mem.backup
    BY <1>f, <1>18 DEF AppConfirm, AppWrites, Files
  <2>4. mem.app \in {"old", "new"}
    BY <1>18 DEF AppConfirm, AppWrites, Working, Sound
  <2>5. Guarded(mem)' /\ Guarded(disk)' /\ (Settled(disk) => Settled(mem))'
    BY <2>2, <2>3 DEF IInv, Guarded, Settled
  <2> QED BY <2>1, <2>2, <2>3, <2>4, <2>5 DEF IInv
<1>19. CASE Commit
  <2>1. TypeOK' BY <1>0, <1>19 DEF Commit, TypeOK
  <2> QED BY <1>19, <2>1 DEF Commit, IInv, Guarded, Settled
<1>20. CASE PowerCut
  <2>1. TypeOK' BY <1>0, <1>20 DEF PowerCut, TypeOK, StartLimitBurst
  <2> QED BY <1>20, <2>1 DEF PowerCut, IInv, Guarded, Settled
<1>21. CASE PowerOn
  <2>1. TypeOK' BY <1>0, <1>21 DEF PowerOn, TypeOK
  <2> QED BY <1>21, <2>1 DEF PowerOn, IInv, Guarded, Settled
<1>22. CASE UNCHANGED vars
  BY <1>22 DEF vars, TypeOK, IInv, Guarded, Settled
<1> QED
  BY <1>1, <1>2, <1>3, <1>4, <1>5, <1>6, <1>7, <1>8, <1>9, <1>10, <1>11, <1>12, <1>13, <1>14,
     <1>15, <1>16, <1>17, <1>18, <1>19, <1>20, <1>21, <1>22
  DEF Next, Supervision, Rollback, Application

LEMMA Invariance == Spec => []IInv
BY InvInit, InvNext, PTL DEF Spec

\* A power cut at any moment finds the flag up or a confirmed application.
THEOREM FlagGuards == Spec => []FlagGuardsDisk
<1>1. IInv => FlagGuardsDisk BY DEF IInv, Guarded, FlagGuardsDisk
<1> QED BY <1>1, Invariance, PTL

\* The application is not started again before its rollback is on the disk.
THEOREM Durable == Spec => []RollbackDurable
<1>1. IInv => RollbackDurable BY DEF IInv, RollbackDurable
<1> QED BY <1>1, Invariance, PTL

\* Every variable of the two units and of the file system keeps its type.
THEOREM TypeCorrect == Spec => []TypeOK
<1>1. IInv => TypeOK BY DEF IInv
<1> QED BY <1>1, Invariance, PTL

\* The installed file is rewritten only while the unit has failed and is not
\* restarted, for any number of crashes, cuts and updates.
THEOREM CopiesWhenFailed == Spec => []NoCopyWhileRunning
<1>1. IInv => NoCopyWhileRunning BY DEF IInv, NoCopyWhileRunning
<1> QED BY <1>1, Invariance, PTL

\* The rollback service takes an application away only under a raised flag.
THEOREM AcceptedIsKept == Spec => AcceptedStays
<1>1. IInv /\ [Next]_vars =>
        [(svc = "truncate" /\ svc' = "copy") => mem.app \notin accepted \/ mem.flag = "1"]_vars
  BY DEF IInv
<1> QED BY <1>1, Invariance, PTL DEF Spec, AcceptedStays

=============================================================================
