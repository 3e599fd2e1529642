-------------------------- MODULE BundleSwapProofs --------------------------
(***************************************************************************)
(* Proofs about BundleSwap, and DeployJob on top of it, for every set of   *)
(* releases, every bundle layout and every number of crashes, failing      *)
(* commands and jobs cut short.                                            *)
(***************************************************************************)
EXTENDS DeployJob, TLAPS

-----------------------------------------------------------------------------
(* Types.                                                                  *)

LEMMA OrderFacts ==
    /\ Len(Order) \in Nat \ {0}
    /\ \A k \in 1..Len(Order) : Order[k] \in File
BY FileAssumption

LEMMA ConstantTypes ==
    /\ Absent \in Content /\ Partial \in Content /\ Legacy \in Content
    /\ Release \subseteq Content
    /\ NoFiles \in Bundle /\ LegacyBundle \in Bundle /\ NoDir \in Dir
BY DEF Content, Bundle, NoFiles, LegacyBundle, NoDir, Dir

\* Deleting entries of a bundle, or tearing one of its files, gives a bundle.
LEMMA DamagedBundles ==
    ASSUME NEW b \in Bundle
    PROVE  /\ Remainders(b) \subseteq Bundle
           /\ \A f \in File : TornFile(b, f) \subseteq Bundle
           /\ \A f \in File, c \in Content : [b EXCEPT ![f] = c] \in Bundle
BY ConstantTypes DEF Remainders, TornFile, Torn, Bundle

LEMMA DamagedDirs ==
    ASSUME NEW d \in Dir
    PROVE  \A e \in Eroded(d) : e \in Dir /\ (e.ready => d.ready)
BY DamagedBundles DEF Eroded, Dir

LEMMA PartialEffectType ==
    ASSUME IInv, PartialEffect
    PROVE  /\ live' \in Bundle /\ env' \in Content /\ envPrev' \in Content
           /\ prev' \in Dir /\ old' \in Dir /\ next' \in Dir
<1> USE DEF IInv, ControlInv, TypeOK
<1>1. [ready |-> FALSE, files |-> live] \in Dir
  BY DEF Dir
<1>2. [next EXCEPT !.ready = TRUE] \in Dir
  BY DEF Dir
<1>3. pc \in {"install", "restore"} => Order[i] \in File
  BY OrderFacts
<1>4. Torn(env) \subseteq Content /\ target \in Content
  BY ConstantTypes DEF Torn
<1>. QED
  BY <1>1, <1>2, <1>3, <1>4, ConstantTypes, DamagedBundles, DamagedDirs
  DEF PartialEffect, files

LEMMA TypeStep == IInv /\ [Next]_vars => TypeOK'
<1> SUFFICES ASSUME IInv, [Next]_vars PROVE TypeOK'
  OBVIOUS
<1> USE OrderFacts, ConstantTypes DEF IInv, ControlInv, TypeOK, Go, files,
    session, history, backups, counters
<1>1. CASE Start
  <2>1. /\ installing' \in BOOLEAN /\ envPresent' \in BOOLEAN
        /\ saved' \in BOOLEAN /\ clean' \in BOOLEAN
    BY <1>1, Zenon DEF Start
  <2>2. target' \in Release /\ i' = 1 /\ by' = "none" /\ outcome' = "none"
         /\ pc' \in Pc /\ startLive' = live /\ startEnv' = env
    BY <1>1 DEF Start, FirstFile, Pc
  <2>3. UNCHANGED << live, env, envPrev, prev, old, next, crashes, faults,
                     strays, deployed, committed >>
    BY <1>1 DEF Start, FirstFile
  <2>. QED
    BY <2>1, <2>2, <2>3
<1>2. CASE SaveEnv
  BY <1>2 DEF SaveEnv, NeedsRecovery, Pc
<1>3. CASE RecoverRmPrev \/ RecoverMvOld
  BY <1>3 DEF RecoverRmPrev, RecoverMvOld, Pc
<1>4. CASE PrepareNext
  <2>1. installing' \in BOOLEAN /\ saved' \in BOOLEAN
    BY <1>4, Zenon DEF PrepareNext
  <2>. QED
    BY <1>4, <2>1 DEF PrepareNext, Pc
<1>5. CASE SnapshotFiles
  <2>1. [ready |-> FALSE, files |-> live] \in Dir
    BY DEF Dir
  <2>. QED
    BY <1>5, <2>1 DEF SnapshotFiles, SnapshotSource, Pc
<1>6. CASE MarkReady
  <2>1. [next EXCEPT !.ready = TRUE] \in Dir
    BY DEF Dir
  <2>. QED
    BY <1>6, <2>1 DEF MarkReady, Pc
<1>7. CASE SwapRmOld \/ SwapMvPrev \/ SwapMvNext
  <2>1. installing' \in BOOLEAN /\ saved' \in BOOLEAN
    BY <1>7, Zenon DEF SwapRmOld, SwapMvPrev, SwapMvNext
  <2>. QED
    BY <1>7, <2>1 DEF SwapRmOld, SwapMvPrev, SwapMvNext, Pc
<1>8. CASE InstallFile
  <2>1. live' \in Bundle
    BY <1>8, DamagedBundles DEF InstallFile, InstallFileWith, Preparing
  <2>2. i' \in 1..(Len(Order) + 1) /\ pc' \in Pc
    BY <1>8 DEF InstallFile, InstallFileWith, Pc
  <2>. QED
    BY <1>8, <2>1, <2>2 DEF InstallFile, InstallFileWith
<1>9. CASE InstallEnv \/ DeployScriptSucceeds \/ Cleanup \/ SkipCleanup
  <2>1. CASE InstallEnv
    BY <2>1 DEF InstallEnv, InstallEnvWith, Pc
  <2>2. CASE DeployScriptSucceeds
    <3>1. installing' \in BOOLEAN
      BY <2>2, Zenon DEF DeployScriptSucceeds
    <3>. QED
      BY <2>2, <3>1 DEF DeployScriptSucceeds, Pc
  <2>3. CASE Cleanup \/ SkipCleanup
    <3>1. deployed' \in BOOLEAN
      BY <2>3, Zenon DEF Cleanup, SkipCleanup
    <3>. QED
      BY <2>3, <3>1 DEF Cleanup, SkipCleanup, Pc
  <2>. QED
    BY <1>9, <2>1, <2>2, <2>3
<1>10. CASE DeployScriptFails \/ VerifyFails
  <2>1. CASE DeployScriptFails
    BY <2>1 DEF DeployScriptFails, Pc
  <2>2. CASE VerifyFails
    <3>1. clean' \in BOOLEAN
      BY <2>2, Zenon DEF VerifyFails
    <3>2. strays' \in 0..MaxTroubles
      BY <2>2, BoundsAssumption DEF VerifyFails, MoreTroubles
    <3>. QED
      BY <2>2, <3>1, <3>2 DEF VerifyFails, Pc
  <2>. QED
    BY <1>10, <2>1, <2>2
<1>11. CASE RestoreEnv
  <2>1. RestoredEnv \in Content
    BY <1>11 DEF RestoreEnv, RestoredEnv, Restoring
  <2>. QED
    BY <1>11, <2>1 DEF RestoreEnv, Pc
<1>12. CASE PickSnapshot
  <2>1. prev' \in Dir /\ old' \in Dir
    BY <1>12 DEF PickSnapshot, FirstFile
  <2>2. i' \in 1..(Len(Order) + 1)
    BY <1>12 DEF PickSnapshot, FirstFile
  <2>3. by \in {"trap", "deploy.sh", "check-deploy.sh"}
    BY <1>12 DEF PickSnapshot, Restoring
  <2>4. \/ pc' = "restore" /\ UNCHANGED << by, outcome >>
        \/ NotRestored
    BY <1>12 DEF PickSnapshot, FirstFile
  <2>5. /\ pc' \in Pc /\ by' \in {"trap", "deploy.sh", "check-deploy.sh"}
        /\ outcome' \in {outcome, "rollbackFailed"}
    BY <2>3, <2>4 DEF NotRestored, Pc
  <2>. QED
    BY <1>12, <2>1, <2>2, <2>5 DEF PickSnapshot, FirstFile
<1>13. CASE RestoreFile
  <2>1. Order[i] \in File /\ prev.files[Order[i]] \in Content
    BY <1>13 DEF RestoreFile, Dir, Bundle
  <2>2. live' \in Bundle
    BY <1>13, <2>1, DamagedBundles DEF RestoreFile, RestoredContent
  <2>3. i' \in 1..(Len(Order) + 1) /\ pc' \in Pc /\ by' \in {"trap", "deploy.sh", "check-deploy.sh"}
         /\ outcome' \in {outcome, "failed", "rolledBack"}
    <3>1. by \in {"trap", "deploy.sh", "check-deploy.sh"}
      BY <1>13 DEF RestoreFile, Restoring
    <3>2. NextFile(Restored) /\ i \in 1..Len(Order)
      BY <1>13 DEF RestoreFile
    <3>. QED
      BY <3>1, <3>2 DEF NextFile, Restored, Pc
  <2>. QED
    BY <1>13, <2>2, <2>3 DEF RestoreFile
<1>14. CASE WipeLive
  BY <1>14 DEF WipeLive, Pc
<1>15. CASE Fail
  BY <1>15, PartialEffectType DEF Fail, FailAfter, Pc
<1>16. CASE RestoreFault
  <2>1. /\ i' \in 1..(Len(Order) + 1) /\ pc' \in Pc
        /\ by' \in {"trap", "deploy.sh", "check-deploy.sh"}
        /\ outcome' \in {outcome, "rollbackFailed"}
    <3>1. by \in {"trap", "deploy.sh", "check-deploy.sh"}
      BY <1>16 DEF RestoreFault, Restoring
    <3>2. \/ pc = "restoreEnv" /\ pc' = "pick" /\ UNCHANGED << i, by, outcome >>
          \/ NextFile(NotRestored) /\ i \in 1..Len(Order)
      BY <1>16 DEF RestoreFault
    <3>. QED
      BY <3>1, <3>2 DEF NextFile, NotRestored, Pc
  <2>2. faults' \in 0..MaxTroubles
    BY <1>16, BoundsAssumption DEF RestoreFault, MoreTroubles
  <2>. QED
    BY <1>16, <2>1, <2>2, PartialEffectType DEF RestoreFault
<1>17. CASE Crash
  <2>1. crashes' \in 0..MaxTroubles
    BY <1>17, BoundsAssumption DEF Crash, CrashAfter, MoreTroubles
  <2>. QED
    BY <1>17, <2>1, PartialEffectType DEF Crash, CrashAfter, Pc
<1>18. CASE UNCHANGED vars
  BY <1>18 DEF vars
<1>. QED
  BY <1>1, <1>2, <1>3, <1>4, <1>5, <1>6, <1>7, <1>8, <1>9, <1>10, <1>11,
     <1>12, <1>13, <1>14, <1>15, <1>16, <1>17, <1>18 DEF Next

-----------------------------------------------------------------------------
(* The snapshot.                                                           *)

\* Nothing that cuts a command short changes what a restore would use, and
\* before the swap is over nothing cut short is live.
LEMMA PartialEffectSafe ==
    ASSUME IInv, PartialEffect
    PROVE  /\ Selected' = Selected
           /\ pc \in Preparing => live' = live /\ env' = env
           /\ pc # "saveEnv" => envPrev' = envPrev
<1> USE DEF IInv, TypeOK
<1>1. Selected' = Selected
  <2>1. CASE prev' = prev /\ old' = old
    BY <2>1 DEF Selected
  <2>2. CASE pc = "rmPrev" /\ prev' \in Eroded(prev) /\ old' = old
    BY <2>2, DamagedDirs DEF Selected, SnapshotInv
  <2>3. CASE pc \in {"rmOld", "cleanup"} /\ old' \in Eroded(old) /\ prev' = prev
    BY <2>3, DamagedDirs DEF Selected, SnapshotInv, BeforeSwap
  <2>. QED
    BY <2>1, <2>2, <2>3 DEF PartialEffect, files
<1>2. pc \in Preparing => live' = live /\ env' = env
  BY DEF PartialEffect, files, Preparing, BeforeSwap
<1>3. pc # "saveEnv" => envPrev' = envPrev
  BY DEF PartialEffect, files
<1>. QED
  BY <1>1, <1>2, <1>3

\* A command cut short ends the session or leads into the restore.
LEMMA CutShortPc ==
    /\ Fail => pc' \in {"idle", "restoreEnv"}
    /\ IInv /\ RestoreFault => pc' \in Restoring \cup {"idle", "wipe"}
    /\ Crash => pc' = "idle"
<1>1. Fail => pc' \in {"idle", "restoreEnv"}
  BY DEF Fail, FailAfter, Go
<1>2. ASSUME IInv, RestoreFault
      PROVE  pc' \in Restoring \cup {"idle", "wipe"}
  <2>1. pc' = "pick" \/ NextFile(NotRestored)
    BY <1>2 DEF RestoreFault, Go
  <2>. QED
    BY <2>1 DEF NextFile, NotRestored, Go, Restoring
<1>3. Crash => pc' = "idle"
  BY DEF Crash, CrashAfter, Go
<1>. QED
  BY <1>1, <1>2, <1>3

LEMMA SnapshotStep == IInv /\ [Next]_vars => SnapshotInv'
<1> SUFFICES ASSUME IInv, [Next]_vars PROVE SnapshotInv'
  OBVIOUS
<1> USE DEF IInv, SnapshotInv, Selected, Go, files, session, history, backups,
            BeforeSwap
<1>1. CASE Start \/ SaveEnv
  BY <1>1 DEF Start, SaveEnv, NeedsRecovery
<1>2. CASE RecoverRmPrev \/ RecoverMvOld
  BY <1>2 DEF RecoverRmPrev, RecoverMvOld, NoDir
<1>3. CASE PrepareNext \/ SnapshotFiles \/ MarkReady
  <2>1. CASE PrepareNext
    BY <2>1 DEF PrepareNext, WorthSnapshot
  <2>2. CASE SnapshotFiles
    BY <2>2 DEF SnapshotFiles, SnapshotSource
  <2>3. CASE MarkReady
    <3>1. next'.ready /\ next'.files = next.files
      BY <2>3 DEF MarkReady, TypeOK, Dir
    <3>. QED
      BY <2>3, <3>1 DEF MarkReady
  <2>. QED
    BY <1>3, <2>1, <2>2, <2>3
<1>4. CASE SwapRmOld
  BY <1>4 DEF SwapRmOld, NoDir
<1>5. CASE SwapMvPrev
  BY <1>5 DEF SwapMvPrev, NoDir
<1>6. CASE SwapMvNext
  BY <1>6 DEF SwapMvNext
<1>7. CASE InstallFile \/ InstallEnv \/ DeployScriptSucceeds
  BY <1>7 DEF InstallFile, InstallFileWith, InstallEnv, InstallEnvWith,
      DeployScriptSucceeds
<1>8. CASE Cleanup \/ SkipCleanup
  BY <1>8 DEF Cleanup, SkipCleanup, NoDir
<1>9. CASE DeployScriptFails \/ VerifyFails \/ RestoreEnv \/ WipeLive
  BY <1>9 DEF DeployScriptFails, VerifyFails, RestoreEnv, WipeLive
<1>10. CASE PickSnapshot
  <2>1. Selected' = Selected /\ committed' = committed
    BY <1>10 DEF PickSnapshot, NoDir
  <2>2. pc' = "restore" \/ NotRestored
    BY <1>10 DEF PickSnapshot, FirstFile
  <2>3. pc' \in {"restore", "wipe", "restoreEnv", "idle"}
    BY <2>2 DEF NotRestored
  <2>. QED
    BY <2>1, <2>3
<1>11. CASE RestoreFile
  <2>1. UNCHANGED << prev, old, committed >> /\ NextFile(Restored)
    BY <1>11 DEF RestoreFile
  <2>2. pc' \in {"restore", "restoreEnv", "idle"}
    BY <2>1 DEF NextFile, Restored
  <2>. QED
    BY <2>1, <2>2
<1>12. CASE Fail \/ RestoreFault \/ Crash
  <2>1. PartialEffect /\ committed' = committed
    BY <1>12 DEF Fail, FailAfter, RestoreFault, Crash, CrashAfter
  <2>2. pc' \in Restoring \cup {"idle", "wipe"}
    BY <1>12, CutShortPc DEF Restoring
  <2>. QED
    BY <2>1, <2>2, PartialEffectSafe DEF Restoring
<1>13. CASE UNCHANGED vars
  BY <1>13 DEF vars
<1>. QED
  BY <1>1, <1>2, <1>3, <1>4, <1>5, <1>6, <1>7, <1>8, <1>9, <1>10, <1>11,
     <1>12, <1>13 DEF Next

-----------------------------------------------------------------------------
(* Control flow.                                                           *)

LEMMA ControlStep == IInv /\ [Next]_vars => ControlInv'
<1> SUFFICES ASSUME IInv, [Next]_vars PROVE ControlInv'
  OBVIOUS
<1> USE OrderFacts DEF IInv, ControlInv, Go, files, session, history,
                       backups, Preparing, BeforeSwap, Restoring
<1>1. CASE Start \/ SaveEnv \/ RecoverRmPrev \/ RecoverMvOld
  BY <1>1 DEF Start, FirstFile, SaveEnv, RecoverRmPrev, RecoverMvOld
<1>2. CASE PrepareNext \/ SnapshotFiles \/ MarkReady
  BY <1>2 DEF PrepareNext, SnapshotFiles, MarkReady
<1>3. CASE SwapRmOld \/ SwapMvPrev \/ SwapMvNext
  BY <1>3 DEF SwapRmOld, SwapMvPrev, SwapMvNext
<1>4. CASE InstallFile
  <2>1. i \in 1..Len(Order)
    BY <1>4 DEF InstallFile, InstallFileWith
  <2>. QED
    BY <1>4, <2>1 DEF InstallFile, InstallFileWith
<1>5. CASE InstallEnv \/ DeployScriptSucceeds \/ Cleanup \/ SkipCleanup
  BY <1>5 DEF InstallEnv, InstallEnvWith, DeployScriptSucceeds, Cleanup,
      SkipCleanup
<1>6. CASE DeployScriptFails \/ VerifyFails \/ RestoreEnv \/ WipeLive
  BY <1>6 DEF DeployScriptFails, VerifyFails, RestoreEnv, WipeLive
<1>7. CASE PickSnapshot
  <2>1. \/ pc' = "restore" /\ i' = 1 /\ UNCHANGED << by, outcome >>
        \/ NotRestored
    BY <1>7 DEF PickSnapshot, FirstFile
  <2>2. by # "none"
    BY <1>7 DEF PickSnapshot, FirstFile
  <2>. QED
    BY <2>1, <2>2 DEF NotRestored
<1>8. CASE RestoreFile
  <2>1. NextFile(Restored) /\ by # "none" /\ i \in 1..Len(Order)
    BY <1>8 DEF RestoreFile
  <2>. QED
    BY <2>1 DEF NextFile, Restored
<1>9. CASE Fail
  BY <1>9 DEF Fail, FailAfter
<1>10. CASE RestoreFault
  <2>1. /\ \/ pc' = "pick" /\ UNCHANGED << i, by, outcome >>
           \/ NextFile(NotRestored) /\ i \in 1..Len(Order)
        /\ by # "none"
    BY <1>10 DEF RestoreFault
  <2>. QED
    BY <2>1 DEF NextFile, NotRestored
<1>11. CASE Crash
  BY <1>11 DEF Crash, CrashAfter
<1>12. CASE UNCHANGED vars
  BY <1>12 DEF vars
<1>. QED
  BY <1>1, <1>2, <1>3, <1>4, <1>5, <1>6, <1>7, <1>8, <1>9, <1>10, <1>11,
     <1>12 DEF Next

-----------------------------------------------------------------------------
(* What the session found can be put back.                                 *)

LEMMA ReplacedStep == IInv /\ [Next]_vars => ReplacedInv'
<1> SUFFICES ASSUME IInv, [Next]_vars PROVE ReplacedInv'
  OBVIOUS
<1> USE DEF IInv, ControlInv, ReplacedInv, Go, files, session, history,
            backups, Preparing, BeforeSwap, Restoring
<1>0. pc \in Preparing \cup {"install", "mvEnv", "deploy", "cleanup"}
         => by # "check-deploy.sh"
  BY DEF InstallInv
<1>1. CASE Start
  BY <1>1 DEF Start, FirstFile
<1>2. CASE SaveEnv \/ RecoverRmPrev \/ RecoverMvOld
  BY <1>0, <1>2 DEF SaveEnv, RecoverRmPrev, RecoverMvOld
<1>3. CASE PrepareNext
  <2>1. /\ pc = "rmNext" /\ ~saved /\ by # "check-deploy.sh"
        /\ UNCHANGED << live, env, envPrev, by, committed, startLive, startEnv >>
    BY <1>0, <1>3 DEF PrepareNext
  <2>2. startLive = live
    BY <2>1
  <2>3. HasRequired(startLive)' = HasRequired(live)
    BY <2>1, <2>2 DEF HasRequired
  <2>4. CASE HasRequired(live)
    <3>1. pc' = "snapshot" /\ ~saved' /\ ~installing'
      BY <1>3, <2>4, Zenon DEF PrepareNext, WorthSnapshot
    <3>. QED
      BY <2>1, <3>1
  <2>5. CASE ~HasRequired(live)
    <3>1. pc' = "install" /\ saved'
      BY <1>3, <2>5, Zenon DEF PrepareNext, WorthSnapshot
    <3>. QED
      BY <2>1, <2>3, <2>5, <3>1
  <2>. QED
    BY <2>4, <2>5
<1>4. CASE SnapshotFiles \/ MarkReady \/ SwapRmOld \/ SwapMvPrev
  BY <1>0, <1>4 DEF SnapshotFiles, MarkReady, SwapRmOld, SwapMvPrev
<1>5. CASE SwapMvNext
  <2>1. next = [ready |-> TRUE, files |-> startLive]
    BY <1>0, <1>5 DEF SwapMvNext, SnapshotInv, TypeOK, Dir
  <2>2. live = startLive /\ env = startEnv
    BY <1>0, <1>5 DEF SwapMvNext
  <2>3. saved'
    BY <1>5, Zenon DEF SwapMvNext
  <2>. QED
    BY <1>0, <1>5, <2>1, <2>2, <2>3 DEF SwapMvNext
<1>6. CASE InstallFile \/ InstallEnv \/ DeployScriptSucceeds
  BY <1>0, <1>6 DEF InstallFile, InstallFileWith, InstallEnv, InstallEnvWith,
      DeployScriptSucceeds
<1>7. CASE Cleanup \/ SkipCleanup
  BY <1>7 DEF Cleanup, SkipCleanup
<1>8. CASE DeployScriptFails \/ VerifyFails
  BY <1>8 DEF DeployScriptFails, VerifyFails
<1>9. CASE RestoreEnv \/ WipeLive
  BY <1>9 DEF RestoreEnv, WipeLive
<1>10. CASE PickSnapshot
  <2>1. UNCHANGED << live, env, envPrev, backups, installing >>
    BY <1>10 DEF PickSnapshot, FirstFile
  <2>2. \/ pc' = "restore" /\ by' = by
        \/ NotRestored
    BY <1>10 DEF PickSnapshot, FirstFile
  <2>3. /\ pc' \in {"restore", "wipe", "restoreEnv", "idle"}
        /\ by # "check-deploy.sh" => saved
        /\ by = "check-deploy.sh" => by' = by /\ pc' \in {"restore", "idle"}
    BY <1>10, <2>2 DEF NotRestored, PickSnapshot
  <2>. QED
    BY <2>1, <2>3
<1>11. CASE RestoreFile
  <2>1. UNCHANGED << env, envPrev, backups >> /\ NextFile(Restored)
        /\ pc = "restore"
    BY <1>11 DEF RestoreFile
  <2>2. /\ pc' \in {"restore", "restoreEnv", "idle"}
        /\ by # "check-deploy.sh" => saved
        /\ by = "check-deploy.sh" => by' = by
    BY <2>1 DEF NextFile, Restored
  <2>. QED
    BY <2>1, <2>2
<1>12. CASE Fail
  <2>1. PartialEffect /\ UNCHANGED << backups, installing >>
    BY <1>12 DEF Fail, FailAfter
  <2>2. pc \in Preparing => pc' = "idle" /\ by' = by
    BY <1>12 DEF Fail, FailAfter
  <2>3. pc \in Preparing \cup {"install", "mvEnv"} /\ pc' \in {"idle", "restoreEnv"}
    BY <1>12 DEF Fail, FailAfter
  <2>4. pc \in Preparing => live' = live /\ env' = env
    BY <2>1, PartialEffectSafe
  <2>5. pc # "saveEnv" => envPrev' = envPrev
    BY <2>1, PartialEffectSafe
  <2>. QED
    BY <1>0, <2>1, <2>2, <2>3, <2>4, <2>5
<1>13. CASE RestoreFault
  <2>1. PartialEffect /\ UNCHANGED backups /\ pc \in Restoring
    BY <1>13 DEF RestoreFault
  <2>2. /\ pc' \in Restoring \cup {"idle", "wipe"}
        /\ by = "check-deploy.sh" => by' = by /\ pc' # "wipe"
    <3>1. \/ pc' = "pick" /\ by' = by
          \/ NextFile(NotRestored)
      BY <1>13 DEF RestoreFault
    <3>. QED
      BY <3>1 DEF NextFile, NotRestored
  <2>3. envPrev' = envPrev
    BY <2>1, PartialEffectSafe
  <2>. QED
    BY <2>1, <2>2, <2>3
<1>14. CASE Crash
  <2>1. PartialEffect /\ UNCHANGED << backups, installing, by >>
        /\ pc' = "idle" /\ pc # "idle"
    BY <1>14 DEF Crash, CrashAfter
  <2>2. pc \in Preparing => live' = live /\ env' = env
    BY <2>1, PartialEffectSafe
  <2>3. pc # "saveEnv" => envPrev' = envPrev
    BY <2>1, PartialEffectSafe
  <2>4. pc \in Preparing \cup Overwriting
    BY <2>1 DEF TypeOK, Pc, Overwriting
  <2>5. CASE pc \in Preparing
    BY <1>0, <2>1, <2>2, <2>3, <2>5
  <2>6. CASE pc \in Overwriting
    BY <2>1, <2>3, <2>6 DEF Overwriting
  <2>. QED
    BY <2>4, <2>5, <2>6
<1>15. CASE UNCHANGED vars
  BY <1>15 DEF vars
<1>. QED
  BY <1>1, <1>2, <1>3, <1>4, <1>5, <1>6, <1>7, <1>8, <1>9, <1>10, <1>11,
     <1>12, <1>13, <1>14, <1>15 DEF Next

-----------------------------------------------------------------------------
(* The progress of an installation.                                        *)

LEMMA InstallStep == IInv /\ [Next]_vars => InstallInv'
<1> SUFFICES ASSUME IInv, [Next]_vars PROVE InstallInv'
  OBVIOUS
<1> USE OrderFacts DEF IInv, ControlInv, InstallInv, Installed, Go, files,
                       session, history, backups, Preparing, BeforeSwap,
                       Restoring
<1>1. CASE Start
  BY <1>1 DEF Start, FirstFile
<1>2. CASE SaveEnv
  <2>1. envPresent' = (startEnv # Absent)
    BY <1>2 DEF SaveEnv, ReplacedInv
  <2>. QED
    BY <1>2, <2>1 DEF SaveEnv
<1>3. CASE RecoverRmPrev \/ RecoverMvOld
  BY <1>3 DEF RecoverRmPrev, RecoverMvOld
<1>4. CASE PrepareNext
  <2>1. i' = 1 /\ UNCHANGED << by, target, envPresent, outcome, startEnv >>
    BY <1>4 DEF PrepareNext
  <2>2. \/ pc' = "snapshot"
        \/ pc' = "install" /\ installing'
    BY <1>4 DEF PrepareNext
  <2>3. pc = "rmNext"
    BY <1>4 DEF PrepareNext
  <2>. QED
    BY <2>1, <2>2, <2>3
<1>5. CASE SnapshotFiles \/ MarkReady \/ SwapRmOld \/ SwapMvPrev
  BY <1>5 DEF SnapshotFiles, MarkReady, SwapRmOld, SwapMvPrev
<1>6. CASE SwapMvNext
  BY <1>6 DEF SwapMvNext
<1>7. CASE InstallFile
  <2>1. \A k \in 1..i : live'[Order[k]] = target
    BY <1>7 DEF InstallFile, InstallFileWith, TypeOK, Bundle
  <2>2. i' - 1 = i /\ pc' = (IF i = Len(Order) THEN "mvEnv" ELSE "install")
    BY <1>7 DEF InstallFile, InstallFileWith
  <2>3. pc = "install" /\ UNCHANGED << by, target, envPresent, installing, outcome, startEnv >>
    BY <1>7 DEF InstallFile, InstallFileWith
  <2>. QED
    BY <2>1, <2>2, <2>3
<1>8. CASE InstallEnv \/ DeployScriptSucceeds \/ Cleanup \/ SkipCleanup
  BY <1>8 DEF InstallEnv, InstallEnvWith, DeployScriptSucceeds, Cleanup,
      SkipCleanup
<1>9. CASE DeployScriptFails \/ VerifyFails \/ RestoreEnv \/ WipeLive
  BY <1>9 DEF DeployScriptFails, VerifyFails, RestoreEnv, WipeLive
<1>10. CASE PickSnapshot
  BY <1>10 DEF PickSnapshot, NotRestored
<1>11. CASE RestoreFile
  BY <1>11 DEF RestoreFile, NextFile, Restored
<1>12. CASE Fail
  BY <1>12 DEF Fail, FailAfter, ReplacedInv
<1>13. CASE RestoreFault
  BY <1>13 DEF RestoreFault, NextFile, NotRestored
<1>14. CASE Crash
  BY <1>14 DEF Crash, CrashAfter
<1>15. CASE UNCHANGED vars
  BY <1>15 DEF vars
<1>. QED
  BY <1>1, <1>2, <1>3, <1>4, <1>5, <1>6, <1>7, <1>8, <1>9, <1>10, <1>11,
     <1>12, <1>13, <1>14, <1>15 DEF Next

-----------------------------------------------------------------------------
(* A restore of which no command has failed puts back what was found.      *)

\* What a restore has to put back is where it looks first.
LEMMA RestoreSource ==
    ASSUME IInv, saved, HasRequired(startLive)
    PROVE  /\ Selected = [ready |-> TRUE, files |-> startLive]
           /\ prev.ready => prev = Selected
           /\ ~prev.ready => old.ready /\ old = Selected
           /\ Selected.ready /\ Selected.files[Compose] # Absent
<1>1. Selected = [ready |-> TRUE, files |-> startLive]
  BY DEF IInv, SnapshotInv, ReplacedInv
<1>2. Selected.ready /\ Selected.files = startLive
  BY <1>1
<1>3. startLive[Compose] # Absent
  BY FileAssumption DEF HasRequired
<1>4. ~NoDir.ready
  BY DEF NoDir
<1>. QED
  BY <1>1, <1>2, <1>3, <1>4 DEF Selected

\* The last file of a restore completes the bundle.
LEMMA RestoredBundle ==
    ASSUME IInv, RestoreFile, clean
    PROVE  /\ \A k \in 1..i : live'[Order[k]] = prev.files[Order[k]]
           /\ i = Len(Order) => live' = committed.files
<1>1. \A k \in 1..i : live'[Order[k]] = prev.files[Order[k]]
  BY OrderFacts DEF IInv, RestoreInv, ControlInv, TypeOK, Bundle, RestoreFile,
                    RestoredContent
<1>2. live' \in Bundle /\ prev.files \in Bundle /\ prev = committed
  <2>1. RestoredContent(Order[i]) \in Content
    BY OrderFacts DEF IInv, ControlInv, TypeOK, Dir, Bundle, RestoreFile,
                      RestoredContent
  <2>. QED
    BY <2>1, OrderFacts, DamagedBundles DEF IInv, RestoreInv, ControlInv,
       TypeOK, Dir, RestoreFile
<1>3. ASSUME i = Len(Order)
      PROVE  \A f \in File : live'[f] = prev.files[f]
  BY <1>1, <1>3, FileAssumption
<1>. QED
  BY <1>1, <1>2, <1>3 DEF Bundle

LEMMA RestoreStep == IInv /\ [Next]_vars => RestoreInv'
<1> SUFFICES ASSUME IInv, [Next]_vars PROVE RestoreInv'
  OBVIOUS
<1> USE OrderFacts DEF IInv, ControlInv, RestoreInv, SessionUndone, HasRequired,
        Go, files, session, history, backups, counters, Preparing, BeforeSwap, Restoring
<1>1. CASE Start \/ SaveEnv \/ RecoverRmPrev \/ RecoverMvOld
  BY <1>1 DEF Start, SaveEnv, RecoverRmPrev, RecoverMvOld
<1>2. CASE PrepareNext \/ SnapshotFiles \/ MarkReady
  BY <1>2 DEF PrepareNext, SnapshotFiles, MarkReady
<1>3. CASE SwapRmOld \/ SwapMvPrev \/ SwapMvNext
  BY <1>3 DEF SwapRmOld, SwapMvPrev, SwapMvNext
<1>4. CASE InstallFile \/ InstallEnv \/ DeployScriptSucceeds
  BY <1>4 DEF InstallFile, InstallFileWith, InstallEnv, InstallEnvWith,
      DeployScriptSucceeds
<1>5. CASE Cleanup \/ SkipCleanup
  BY <1>5 DEF Cleanup, SkipCleanup, InstallInv
<1>6. CASE DeployScriptFails \/ VerifyFails
  BY <1>6 DEF DeployScriptFails, VerifyFails
<1>7. CASE RestoreEnv
  <2>1. pc = "restoreEnv" /\ pc' = "pick" /\ env' = RestoredEnv
        /\ UNCHANGED << by, saved, clean, startEnv, startLive, outcome >>
    BY <1>7 DEF RestoreEnv
  <2>2. saved /\ startEnv # Absent => envPrev = startEnv
    BY DEF ReplacedInv
  <2>3. by = "trap" => RestoredEnv = startEnv
    BY <2>1, <2>2 DEF RestoredEnv, InstallInv, ReplacedInv
  <2>4. by = "check-deploy.sh" /\ saved /\ startEnv # Absent
           => RestoredEnv = startEnv
    BY <2>2 DEF RestoredEnv
  <2>5. by \in {"trap", "deploy.sh", "check-deploy.sh"}
    BY <2>1 DEF TypeOK
  <2>. QED
    BY <2>1, <2>3, <2>4, <2>5
<1>8. CASE PickSnapshot
  <2>1. pc = "pick" /\ UNCHANGED << live, env, clean, backups >>
    BY <1>8 DEF PickSnapshot
  <2>2. CASE pc' = "restore" /\ i' = 1 /\ UNCHANGED << by, outcome >> /\ prev'.ready
    <3>1. prev' = committed
      BY <1>8, <2>2 DEF PickSnapshot, SnapshotInv, Selected
    <3>. QED
      BY <2>1, <2>2, <3>1
  <2>3. CASE NotRestored
    <3>1. HasRequired(startLive) => by # "trap"
      <4>1. by = "trap" => saved
        BY <2>1 DEF ReplacedInv
      <4>. QED
        BY <1>8, <2>1, <2>3, <4>1, RestoreSource DEF PickSnapshot, NotRestored
    <3>. QED
      BY <2>1, <2>3, <3>1 DEF NotRestored
  <2>. QED
    BY <1>8, <2>2, <2>3 DEF PickSnapshot, FirstFile
<1>9. CASE RestoreFile
  <2>1. pc = "restore" /\ NextFile(Restored) /\ i \in 1..Len(Order)
        /\ UNCHANGED << env, prev, clean, backups >>
    BY <1>9 DEF RestoreFile
  <2>2. CASE i < Len(Order) /\ pc' = "restore" /\ i' = i + 1
             /\ UNCHANGED << by, outcome >>
    <3>1. clean => \A k \in 1..(i' - 1) : live'[Order[k]] = prev.files[Order[k]]
      BY <1>9, <2>1, <2>2, RestoredBundle
    <3>. QED
      BY <2>1, <2>2, <3>1
  <2>3. CASE i = Len(Order) /\ Restored
    <3>1. clean => live' = committed.files
      BY <1>9, <2>3, RestoredBundle
    <3>2. saved /\ HasRequired(startLive) => committed.files = startLive
      BY DEF ReplacedInv
    <3>3. /\ pc' \in {"idle", "restoreEnv"}
          /\ pc' = "idle" => \/ by = "trap" /\ outcome' = "failed"
                             \/ /\ by = "check-deploy.sh" /\ by' = by
                                /\ outcome' = "rolledBack"
      BY <2>3 DEF Restored
    <3>4. by = "trap" => saved
      BY <2>1 DEF ReplacedInv
    <3>5. by = "check-deploy.sh" /\ by' = by => saved \/ Stray'
      BY <2>1 DEF Stray
    <3>6. CASE pc' = "idle" /\ clean /\ ~Stray'
      <4>1. live' = committed.files /\ UNCHANGED << env, backups >>
        BY <2>1, <3>1, <3>6
      <4>2. CASE by = "trap" /\ outcome' = "failed"
        BY <2>1, <3>2, <3>4, <3>6, <4>1, <4>2
      <4>3. CASE by = "check-deploy.sh" /\ by' = by /\ outcome' = "rolledBack"
        BY <2>1, <3>2, <3>5, <3>6, <4>1, <4>3
      <4>. QED
        BY <3>3, <3>6, <4>2, <4>3
    <3>7. CASE ~(pc' = "idle" /\ clean /\ ~Stray')
      BY <2>1, <3>3, <3>7
    <3>. QED
      BY <3>6, <3>7
  <2>. QED
    BY <2>1, <2>2, <2>3 DEF NextFile
<1>10. CASE WipeLive
  BY <1>10 DEF WipeLive
<1>11. CASE Fail
  <2>1. PartialEffect /\ UNCHANGED << backups, clean >>
    BY <1>11 DEF Fail, FailAfter
  <2>2. \/ pc' = "restoreEnv"
        \/ pc' = "idle" /\ pc \in Preparing
    BY <1>11 DEF Fail, FailAfter, InstallInv
  <2>3. pc \in Preparing => live' = startLive /\ env' = startEnv
    BY <2>1, PartialEffectSafe DEF ReplacedInv, InstallInv
  <2>. QED
    BY <2>1, <2>2, <2>3
<1>12. CASE RestoreFault
  <2>1. clean' = FALSE /\ committed' = committed
    BY <1>12 DEF RestoreFault
  <2>2. pc' = "restore" => pc = "restore" /\ prev' = prev
    BY <1>12 DEF RestoreFault, NextFile, NotRestored, PartialEffect
  <2>. QED
    BY <2>1, <2>2
<1>13. CASE Crash
  BY <1>13 DEF Crash, CrashAfter
<1>14. CASE UNCHANGED vars
  BY <1>14 DEF vars, Stray
<1>. QED
  BY <1>1, <1>2, <1>3, <1>4, <1>5, <1>6, <1>7, <1>8, <1>9, <1>10, <1>11,
     <1>12, <1>13, <1>14 DEF Next

-----------------------------------------------------------------------------
(* One release between sessions.                                           *)

LEMMA WholeFacts ==
    ASSUME NEW l, NEW e, Whole(l, e)
    PROVE  /\ l = NoFiles => e = Absent
           /\ l # NoFiles => HasRequired(l) /\ e # Absent
           /\ ~HasRequired(NoFiles)
<1>1. ~HasRequired(NoFiles)
  BY FileAssumption DEF HasRequired, NoFiles
<1>2. HasRequired(LegacyBundle) /\ Legacy # Absent
  BY FileAssumption, ContentAssumption DEF HasRequired, LegacyBundle
<1>3. \A r \in Release : HasRequired(BundleOf(r)) /\ r # Absent
  BY FileAssumption, ContentAssumption DEF HasRequired, BundleOf
<1>. QED
  BY <1>1, <1>2, <1>3 DEF Whole

\* What a session finds when none has crashed and no restore has failed.
LEMMA IdleWhole ==
    ASSUME IInv, pc = "idle", crashes = 0, faults = 0, strays = 0
    PROVE  /\ Whole(live, env)
           /\ live = NoFiles => committed = NoDir /\ envPrev = Absent
<1> USE DEF IInv, WholeInv
<1>1. /\ clean /\ Whole(startLive, startEnv)
      /\ startLive = NoFiles => committed = NoDir /\ envPrev = Absent
  OBVIOUS
<1>2. CASE outcome = "none"
  BY <1>1, <1>2
<1>3. CASE outcome = "deployed"
  <2>1. /\ target \in Release /\ env = target
        /\ \A k \in 1..Len(Order) : live[Order[k]] = target
    BY <1>3 DEF InstallInv, Installed
  <2>2. live = BundleOf(target)
    BY <2>1, FileAssumption DEF TypeOK, Bundle, BundleOf
  <2>3. Whole(live, env)
    BY <2>1, <2>2 DEF Whole
  <2>4. live # NoFiles
    BY <2>1, <2>3, WholeFacts, ContentAssumption
  <2>. QED
    BY <2>3, <2>4
<1>4. CASE outcome = "failed"
  <2>1. /\ env = startEnv
        /\ \/ live = startLive
           \/ ~HasRequired(startLive) /\ live \in {committed.files, NoFiles}
    BY <1>1, <1>4 DEF RestoreInv, SessionUndone
  <2>2. ~HasRequired(startLive) => startLive = NoFiles
    BY <1>1, WholeFacts
  <2>3. NoDir.files = NoFiles
    BY DEF NoDir
  <2>4. live = startLive
    BY <1>1, <2>1, <2>2, <2>3
  <2>. QED
    BY <1>1, <2>1, <2>4
<1>5. CASE outcome = "rolledBack"
  <2>1. startEnv # Absent /\ HasRequired(startLive)
    BY <1>1, <1>5, WholeFacts
  <2>2. env = startEnv /\ live = startLive
    BY <1>1, <1>5, <2>1 DEF RestoreInv, SessionUndone
  <2>. QED
    BY <1>1, <2>2
<1>. QED
  BY <1>2, <1>3, <1>4, <1>5 DEF TypeOK

\* Nothing loses the snapshot that a rollback from here would use.
LEMMA SourceStep ==
    ASSUME IInv, [Next]_vars
    PROVE  saved' => (prev.ready \/ ~old.ready)'
<1> USE DEF IInv, WholeInv, SnapshotInv, ReplacedInv, Go, files, session, history,
            backups, Preparing, BeforeSwap, Restoring
<1>1. CASE Start \/ SaveEnv \/ RecoverRmPrev \/ RecoverMvOld
  BY <1>1 DEF Start, SaveEnv, RecoverRmPrev, RecoverMvOld
<1>2. CASE PrepareNext \/ SnapshotFiles \/ MarkReady
  BY <1>2 DEF PrepareNext, SnapshotFiles, MarkReady
<1>3. CASE SwapRmOld \/ SwapMvPrev \/ SwapMvNext
  BY <1>3 DEF SwapRmOld, SwapMvPrev, SwapMvNext
<1>4. CASE InstallFile \/ InstallEnv \/ DeployScriptSucceeds
  BY <1>4 DEF InstallFile, InstallFileWith, InstallEnv, InstallEnvWith,
      DeployScriptSucceeds
<1>5. CASE Cleanup \/ SkipCleanup
  <2>1. (prev.ready \/ ~old.ready) /\ UNCHANGED << prev, saved >>
    BY <1>5 DEF Cleanup, SkipCleanup
  <2>2. old' = old \/ old' = NoDir
    BY <1>5 DEF Cleanup, SkipCleanup
  <2>. QED
    BY <2>1, <2>2 DEF NoDir
<1>6. CASE DeployScriptFails \/ VerifyFails \/ RestoreEnv \/ WipeLive
  BY <1>6 DEF DeployScriptFails, VerifyFails, RestoreEnv, WipeLive
<1>7. CASE PickSnapshot
  BY <1>7 DEF PickSnapshot, NotRestored
<1>8. CASE RestoreFile
  BY <1>8 DEF RestoreFile, NextFile, Restored
<1>9. CASE Fail \/ Crash
  <2>1. PartialEffect /\ saved' = saved
    BY <1>9 DEF Fail, FailAfter, Crash, CrashAfter
  <2>2. CASE pc = "cleanup" /\ old' \in Eroded(old) /\ prev' = prev
    BY <2>1, <2>2, DamagedDirs DEF TypeOK
  <2>3. CASE pc \in Preparing
    BY <2>1, <2>3
  <2>4. CASE prev' = prev /\ old' = old
    BY <2>1, <2>4
  <2>. QED
    BY <2>1, <2>2, <2>3, <2>4 DEF PartialEffect
<1>10. CASE RestoreFault
  <2>1. pc \in {"restoreEnv", "restore"} /\ prev' = prev /\ old' = old
    BY <1>10 DEF RestoreFault, PartialEffect
  <2>. QED
    BY <1>10, <2>1 DEF RestoreFault, NextFile, NotRestored
<1>11. CASE UNCHANGED vars
  BY <1>11 DEF vars
<1>. QED
  BY <1>1, <1>2, <1>3, <1>4, <1>5, <1>6, <1>7, <1>8, <1>9, <1>10, <1>11
  DEF Next

\* Only a host that has had no release has neither a snapshot nor a saved .env.
LEMMA FirstReleaseStep ==
    ASSUME IInv, [Next]_vars, crashes = 0, faults = 0, strays = 0, ~Start,
           startLive = NoFiles
    PROVE  committed' = committed /\ envPrev' = envPrev
<1> USE DEF IInv, WholeInv, files, session, history, backups
<1>1. startEnv = Absent /\ ~HasRequired(startLive)
  BY WholeFacts
<1>2. pc = "saveEnv" => env = Absent
  BY <1>1 DEF ReplacedInv, InstallInv, Preparing
<1>3. ~SwapMvNext
  <2>1. pc = "mvNext" => HasRequired(live) /\ live = startLive
    BY DEF SnapshotInv, ReplacedInv, InstallInv, Preparing
  <2>. QED
    BY <1>1, <2>1 DEF SwapMvNext
<1>4. PartialEffect => envPrev' = envPrev
  BY <1>2 DEF PartialEffect
<1>5. Fail \/ RestoreFault \/ Crash => PartialEffect /\ committed' = committed
  BY DEF Fail, FailAfter, RestoreFault, Crash, CrashAfter
<1>6. SaveEnv => envPrev' = envPrev /\ committed' = committed
  BY <1>2 DEF SaveEnv
<1>. QED
  BY <1>3, <1>4, <1>5, <1>6
  DEF Next, vars, RecoverRmPrev, RecoverMvOld, PrepareNext, SnapshotFiles,
      MarkReady, SwapRmOld, SwapMvPrev, InstallFile, InstallFileWith,
      InstallEnv, InstallEnvWith, DeployScriptSucceeds, Cleanup, SkipCleanup,
      DeployScriptFails, VerifyFails, RestoreEnv, PickSnapshot, RestoreFile,
      WipeLive

\* A step after which there has been no trouble is not one of trouble.
LEMMA TroubleFree ==
    ASSUME IInv, [Next]_vars, crashes' = 0, faults' = 0, strays' = 0
    PROVE  /\ crashes = 0 /\ faults = 0 /\ strays = 0 /\ ~RestoreFault /\ ~Crash
           /\ VerifyFails => saved
           /\ ~Start => UNCHANGED << startLive, startEnv >> /\ (clean => clean')
BY DEF IInv, TypeOK, WholeInv, history, backups, counters, RestoreFault, Crash,
    CrashAfter, Next, vars, Start, SaveEnv, RecoverRmPrev, RecoverMvOld, PrepareNext,
    SnapshotFiles, MarkReady, SwapRmOld, SwapMvPrev, SwapMvNext, InstallFile,
    InstallFileWith, InstallEnv, InstallEnvWith, DeployScriptSucceeds,
    Cleanup, SkipCleanup, DeployScriptFails, VerifyFails, RestoreEnv,
    PickSnapshot, RestoreFile, WipeLive, Fail, FailAfter

\* A rollback of a host that ran a release does not find the snapshot missing.
LEMMA OutcomeStep ==
    ASSUME IInv, [Next]_vars, crashes' = 0, faults' = 0, strays' = 0
    PROVE  /\ outcome' \notin {"crashed", "rollbackFailed"}
           /\ RollsBack' \/ outcome' = "rolledBack" => startEnv' # Absent
<1> USE DEF IInv, WholeInv, RollsBack, Go, files, session, history, backups,
            counters, Restoring
<1>1. /\ crashes = 0 /\ faults = 0 /\ strays = 0 /\ ~RestoreFault /\ ~Crash
      /\ RollsBack => saved
  BY TroubleFree DEF Stray
<1>2. CASE Start \/ SaveEnv \/ RecoverRmPrev \/ RecoverMvOld
  BY <1>1, <1>2 DEF Start, SaveEnv, RecoverRmPrev, RecoverMvOld
<1>3. CASE PrepareNext \/ SnapshotFiles \/ MarkReady
  BY <1>1, <1>3 DEF PrepareNext, SnapshotFiles, MarkReady
<1>4. CASE SwapRmOld \/ SwapMvPrev \/ SwapMvNext
  BY <1>1, <1>4 DEF SwapRmOld, SwapMvPrev, SwapMvNext
<1>5. CASE InstallFile \/ InstallEnv \/ DeployScriptSucceeds
  BY <1>1, <1>5 DEF InstallFile, InstallFileWith, InstallEnv, InstallEnvWith,
      DeployScriptSucceeds
<1>6. CASE Cleanup \/ SkipCleanup
  BY <1>1, <1>6 DEF Cleanup, SkipCleanup
<1>7. CASE DeployScriptFails \/ RestoreEnv \/ WipeLive
  BY <1>1, <1>7 DEF DeployScriptFails, RestoreEnv, WipeLive
<1>8. CASE VerifyFails
  <2>1. startEnv # Absent
    BY <1>1, <1>8, WholeFacts DEF VerifyFails
  <2>. QED
    BY <1>1, <1>8, <2>1 DEF VerifyFails
<1>9. CASE PickSnapshot
  <2>1. CASE RollsBack
    <3>1. HasRequired(startLive) /\ saved
      BY <1>1, <2>1, WholeFacts
    <3>2. prev.ready /\ prev.files[Compose] # Absent
      BY <1>9, <2>1, <3>1, RestoreSource DEF PickSnapshot
    <3>. QED
      BY <1>1, <1>9, <2>1, <3>2 DEF PickSnapshot
  <2>2. CASE ~RollsBack
    BY <1>1, <1>9, <2>2 DEF PickSnapshot, NotRestored
  <2>. QED
    BY <2>1, <2>2
<1>10. CASE RestoreFile
  BY <1>1, <1>10 DEF RestoreFile, NextFile, Restored
<1>11. CASE Fail
  BY <1>1, <1>11 DEF Fail, FailAfter
<1>12. CASE UNCHANGED vars
  BY <1>1, <1>12 DEF vars
<1>. QED
  BY <1>1, <1>2, <1>3, <1>4, <1>5, <1>6, <1>7, <1>8, <1>9, <1>10, <1>11,
     <1>12 DEF Next

\* Only the verify job starts to stray, and only a new session ends it.
LEMMA StrayKept ==
    ASSUME IInv, [Next]_vars, ~Start, ~VerifyFails
    PROVE  strays' = strays /\ (Stray' <=> Stray)
<1> USE DEF Stray, Go, files, session, history, backups, counters
<1>1. CASE by = "check-deploy.sh"
  <2>1. pc \in Restoring \cup {"idle", "wipe"}
    BY <1>1 DEF IInv, InstallInv, TypeOK, Pc, Preparing, BeforeSwap, Restoring
  <2>2. CASE RestoreEnv \/ WipeLive \/ UNCHANGED vars
    BY <2>2 DEF RestoreEnv, WipeLive, vars
  <2>3. CASE PickSnapshot
    <3>1. UNCHANGED << strays, saved >>
      BY <2>3 DEF PickSnapshot
    <3>2. by' = by \/ NotRestored
      BY <2>3 DEF PickSnapshot
    <3>. QED
      BY <1>1, <3>1, <3>2 DEF NotRestored
  <2>4. CASE RestoreFile
    BY <1>1, <2>4 DEF RestoreFile, NextFile, Restored
  <2>5. CASE RestoreFault
    <3>1. UNCHANGED << strays, saved >>
      BY <2>5 DEF RestoreFault
    <3>2. by' = by \/ NextFile(NotRestored)
      BY <2>5 DEF RestoreFault
    <3>. QED
      BY <1>1, <3>1, <3>2 DEF NextFile, NotRestored
  <2>6. CASE Crash
    BY <2>6 DEF Crash, CrashAfter
  <2>. QED
    BY <2>1, <2>2, <2>3, <2>4, <2>5, <2>6
    DEF Next, Restoring, SaveEnv, RecoverRmPrev, RecoverMvOld, PrepareNext,
        SnapshotFiles, MarkReady, SwapRmOld, SwapMvPrev, SwapMvNext,
        InstallFile, InstallFileWith, InstallEnv, InstallEnvWith,
        DeployScriptSucceeds, Cleanup, SkipCleanup, DeployScriptFails, Fail,
        FailAfter
<1>2. CASE by # "check-deploy.sh"
  <2>1. strays' = strays /\ by' # "check-deploy.sh"
    BY <1>2 DEF Next, vars, SaveEnv, RecoverRmPrev, RecoverMvOld, PrepareNext,
       SnapshotFiles, MarkReady, SwapRmOld, SwapMvPrev, SwapMvNext, InstallFile,
       InstallFileWith, InstallEnv, InstallEnvWith, DeployScriptSucceeds,
       Cleanup, SkipCleanup, DeployScriptFails, RestoreEnv, PickSnapshot,
       NotRestored, RestoreFile, NextFile, Restored, WipeLive, Fail, FailAfter,
       RestoreFault, Crash, CrashAfter
  <2>. QED
    BY <1>2, <2>1
<1>. QED
  BY <1>1, <1>2

\* A rollback that strays is counted.
LEMMA StrayStep ==
    ASSUME IInv, [Next]_vars
    PROVE  Stray' => strays' > 0
<1>1. strays \in Nat /\ (Stray => strays > 0)
  BY BoundsAssumption DEF IInv, TypeOK, WholeInv
<1>2. CASE VerifyFails
  BY <1>1, <1>2 DEF VerifyFails, Stray, backups
<1>3. CASE Start
  BY <1>3 DEF Start, Stray
<1>4. CASE ~Start /\ ~VerifyFails
  BY <1>1, <1>4, StrayKept
<1>. QED
  BY <1>2, <1>3, <1>4

LEMMA WholeStep == IInv /\ [Next]_vars => WholeInv'
<1> SUFFICES ASSUME IInv, [Next]_vars PROVE WholeInv'
  OBVIOUS
<1>1. (pc = "idle" /\ outcome = "none")'
         => (live = startLive /\ env = startEnv /\ ~deployed)'
  BY DEF IInv, WholeInv, ControlInv, InstallInv, Go, files, session, history,
      backups, Next, vars, Start, SaveEnv, RecoverRmPrev, RecoverMvOld, PrepareNext,
      SnapshotFiles, MarkReady, SwapRmOld, SwapMvPrev, SwapMvNext,
      InstallFile, InstallFileWith, InstallEnv, InstallEnvWith,
      DeployScriptSucceeds, Cleanup, SkipCleanup, DeployScriptFails,
      VerifyFails, RestoreEnv, PickSnapshot, NotRestored, RestoreFile,
      NextFile, Restored, WipeLive, Fail, FailAfter, RestoreFault, Crash,
      CrashAfter
<1>2. ASSUME crashes' = 0, faults' = 0, strays' = 0
      PROVE  /\ clean'
             /\ Whole(startLive', startEnv')
             /\ startLive' = NoFiles => committed' = NoDir /\ envPrev' = Absent
  <2>1. \/ Start
        \/ ~Start /\ UNCHANGED << startLive, startEnv >> /\ (clean => clean')
    BY <1>2, TroubleFree
  <2>2. crashes = 0 /\ faults = 0 /\ strays = 0
    BY <1>2, TroubleFree
  <2>3. CASE Start
    <3>1. pc = "idle" /\ clean'
          /\ startLive' = live /\ startEnv' = env
          /\ UNCHANGED << committed, envPrev >>
      BY <2>3 DEF Start, files
    <3>. QED
      BY <2>2, <3>1, IdleWhole
  <2>4. CASE ~Start /\ UNCHANGED << startLive, startEnv >> /\ (clean => clean')
    BY <2>2, <2>4, FirstReleaseStep DEF IInv, WholeInv
  <2>. QED
    BY <2>1, <2>3, <2>4
<1>3. Whole(startLive, startEnv)' <=> Whole(startLive', startEnv')
  BY DEF Whole
<1>4. Stray' => strays' > 0
  BY StrayStep
<1>. QED
  BY <1>1, <1>2, <1>3, <1>4, SourceStep, OutcomeStep DEF WholeInv

-----------------------------------------------------------------------------
(* The theorems.                                                           *)

LEMMA InvStep == IInv /\ [Next]_vars => IInv'
BY TypeStep, ControlStep, SnapshotStep, ReplacedStep, InstallStep,
   RestoreStep, WholeStep DEF IInv

LEMMA InvInit == Init => IInv
<1> SUFFICES ASSUME Init PROVE IInv
  OBVIOUS
<1>1. TypeOK
  <2>1. live \in Bundle /\ env \in Content
    BY ConstantTypes DEF Init
  <2>2. crashes \in 0..MaxTroubles /\ faults \in 0..MaxTroubles
        /\ i \in 1..(Len(Order) + 1)
    BY OrderFacts, BoundsAssumption DEF Init
  <2>3. envPresent \in BOOLEAN /\ installing \in BOOLEAN /\ clean \in BOOLEAN
    BY Zenon DEF Init
  <2>. QED
    BY <2>1, <2>2, <2>3, ConstantTypes DEF Init, TypeOK, Pc
<1>2. ControlInv
  BY OrderFacts DEF Init, ControlInv, Preparing, BeforeSwap, Restoring
<1>3. SnapshotInv
  BY DEF Init, SnapshotInv, Selected, BeforeSwap, NoDir
<1>4. ReplacedInv
  BY DEF Init, ReplacedInv, Preparing, BeforeSwap, Overwriting, Restoring
<1>5. InstallInv /\ RestoreInv
  BY DEF Init, InstallInv, RestoreInv, SessionUndone, Preparing,
      BeforeSwap
<1>6. WholeInv
  BY DEF Init, WholeInv, RollsBack, Restoring, NoDir, Whole, Stray
<1>. QED
  BY <1>1, <1>2, <1>3, <1>4, <1>5, <1>6 DEF IInv

\* The conjunction of the parts is inductive.
THEOREM Invariance == Spec => []IInv
BY InvInit, InvStep, PTL DEF Spec

\* The files, directories and variables of the scripts keep their types.
THEOREM TypeCorrect == Spec => []TypeOK
<1>1. IInv => TypeOK
  BY DEF IInv
<1>. QED
  BY <1>1, Invariance, PTL

\* At every instant of every behaviour, a crash between any two commands or in
\* the middle of one included, the snapshot a restore would use is the last
\* one completed (deploy.yml 582-633).
THEOREM SnapshotSafe == Spec => []SnapshotNeverLost
<1>1. IInv => SnapshotNeverLost
  BY DEF IInv, SnapshotInv, SnapshotNeverLost
<1>. QED
  BY <1>1, Invariance, PTL

\* What a session overwrites is in the snapshot and in .env.previous, at every
\* instant from the first file it changes until the next session starts,
\* unless a verify job rolls back over a session that has made no backups
\* (deploy.yml 576-633, 690).
THEOREM Recoverable == Spec => []ReplacedReleaseRecoverable
<1>1. IInv => ReplacedReleaseRecoverable
  BY DEF IInv, SnapshotInv, ReplacedInv, ReplacedReleaseRecoverable, Stray
<1>. QED
  BY <1>1, Invariance, PTL

\* A session that fails, or is rolled back by a verify job, has undone what it
\* installed, if no command of that restore failed and the session had made its
\* backups before a verify job rolled back over it (deploy.yml 474-550, 690,
\* check-deploy.sh 86-124, 329-346).
THEOREM Undone == Spec => []SessionUndone
<1>1. IInv => SessionUndone
  BY DEF IInv, RestoreInv
<1>. QED
  BY <1>1, Invariance, PTL

\* Between sessions .env and the bundle belong to one release, without a crash,
\* without a command of a restore that fails, and without a verify job that
\* rolls back over a session that has made no backups (deploy.yml 690).
THEOREM OneReleaseLive == Spec => []OneRelease
<1>1. IInv => OneRelease
  BY IdleWhole DEF OneRelease, Whole
<1>. QED
  BY <1>1, Invariance, PTL

-----------------------------------------------------------------------------
(* The swap implements a slot that is filled in one step.                  *)

LEMMA StoreStep == IInv /\ IInv' /\ [Next]_vars => [Store!Next]_(Store!vars)
<1> SUFFICES ASSUME IInv, IInv', [Next]_vars
             PROVE  [Store!Next]_(Store!vars)
  OBVIOUS
<1> USE DEF Store!Next, Store!vars, Go
<1>1. CASE Start
  <2>1. Selected' = Selected
    BY <1>1 DEF Start, Selected, files
  <2>2. Stray' = FALSE
    BY <1>1 DEF Start, Stray
  <2>. QED
    BY <1>1, <2>1, <2>2 DEF Start, Store!Begin, files
<1>2. CASE SwapMvNext
  <2>1. next = [ready |-> TRUE, files |-> live] /\ live = startLive
        /\ HasRequired(live)
    BY <1>2 DEF SwapMvNext, IInv, TypeOK, SnapshotInv, ReplacedInv, InstallInv,
                Dir, Preparing
  <2>2. Selected' = next
    BY <1>2, <2>1 DEF SwapMvNext, Selected
  <2>3. ~Stray /\ ~Stray'
    BY <1>2 DEF SwapMvNext, Stray, IInv, InstallInv, Preparing
  <2>4. Stray' = Stray
    BY <2>3 DEF Stray
  <2>. QED
    BY <1>2, <2>1, <2>2, <2>3, <2>4 DEF SwapMvNext, Store!Save, Store!Kept
<1>3. CASE VerifyFails
  <2>1. UNCHANGED << live, startLive, saved >> /\ Selected' = Selected
    BY <1>3 DEF VerifyFails, files, backups, Selected
  <2>2. CASE Stray' = Stray
    BY <2>1, <2>2
  <2>3. CASE Stray' # Stray
    <3>1. Stray' /\ ~Stray
      BY <1>3, <2>1, <2>3 DEF VerifyFails, Stray
    <3>2. live = startLive
      BY <2>1, <3>1 DEF Stray, IInv, ReplacedInv
    <3>3. Stray' = TRUE
      BY <3>1 DEF Stray
    <3>. QED
      BY <2>1, <3>2, <3>3 DEF Store!GiveUp
  <2>. QED
    BY <2>2, <2>3
<1>4. ASSUME UNCHANGED << committed, startLive >>, ~Start, ~VerifyFails
      PROVE  [Store!Next]_(Store!vars)
  <2>1. Selected' = Selected
    BY <1>4 DEF IInv, SnapshotInv
  <2>2. live' \in Bundle
    BY DEF IInv, TypeOK
  <2>3. live' # live => pc \in Overwriting
    <3>1. PartialEffect /\ live' # live => pc \in Overwriting
      BY DEF PartialEffect, files, Overwriting, Restoring
    <3>2. InstallFile \/ RestoreFile \/ WipeLive => pc \in Overwriting
      BY DEF InstallFile, InstallFileWith, RestoreFile, WipeLive, Overwriting,
          Restoring
    <3>3. Fail \/ RestoreFault \/ Crash => PartialEffect
      BY DEF Fail, FailAfter, RestoreFault, Crash, CrashAfter
    <3>4. live' # live => \/ InstallFile \/ RestoreFile \/ WipeLive
                          \/ Fail \/ RestoreFault \/ Crash
      BY DEF Next, vars, files, Start, SaveEnv, RecoverRmPrev, RecoverMvOld,
          PrepareNext, SnapshotFiles, MarkReady, SwapRmOld, SwapMvPrev,
          SwapMvNext, InstallEnv, InstallEnvWith, DeployScriptSucceeds,
          Cleanup, SkipCleanup, DeployScriptFails, VerifyFails, RestoreEnv,
          PickSnapshot
    <3>. QED
      BY <3>1, <3>2, <3>3, <3>4
  <2>4. pc \in Overwriting /\ ~Stray /\ HasRequired(startLive)
           => Selected = [ready |-> TRUE, files |-> startLive]
    BY DEF IInv, SnapshotInv, ReplacedInv, Overwriting, Stray
  <2>5. Stray' <=> Stray
    BY <1>4, StrayKept
  <2>6. Stray' = Stray
    BY <2>5 DEF Stray
  <2>. QED
    BY <1>4, <2>1, <2>2, <2>3, <2>4, <2>6 DEF Store!Overwrite, Store!Kept
<1>5. \/ Start \/ SwapMvNext \/ VerifyFails
      \/ UNCHANGED << committed, startLive >> /\ ~Start /\ ~VerifyFails
  BY DEF Next, vars, history, backups, SaveEnv, RecoverRmPrev, RecoverMvOld,
      PrepareNext, SnapshotFiles, MarkReady, SwapRmOld, SwapMvPrev,
      InstallFile, InstallFileWith, InstallEnv, InstallEnvWith,
      DeployScriptSucceeds, Cleanup, SkipCleanup, DeployScriptFails,
      RestoreEnv, PickSnapshot, RestoreFile, WipeLive, Fail, FailAfter,
      RestoreFault, Crash, CrashAfter
<1>. QED
  BY <1>1, <1>2, <1>3, <1>4, <1>5

\* Seen through the snapshot a restore would use, the copying, marking,
\* deleting and renaming of directories is one atomic Save, and no file of the
\* live bundle is overwritten while the bundle of before is not in the slot,
\* but by a verify job that rolls back over a session that has made no backups.
THEOREM SwapImplementsStore == Spec => StoreSpec
<1>1. Init => Store!Init
  <2> SUFFICES ASSUME Init PROVE Store!Init
    OBVIOUS
  <2>1. live \in Bundle /\ startLive = live /\ Selected = NoDir
    BY ConstantTypes DEF Init, Selected, NoDir
  <2>2. Stray = FALSE
    BY DEF Init, Stray
  <2>. QED
    BY <2>1, <2>2 DEF Store!Init
<1>2. [][Next]_vars /\ []IInv => [][Store!Next]_(Store!vars)
  BY StoreStep, PTL
<1>. QED
  BY <1>1, <1>2, Invariance, PTL DEF Spec, StoreSpec, Store!Spec

-----------------------------------------------------------------------------
(* The deploy job: what a session installs is what its job has uploaded.   *)

\* With StagedInv a step of the job is one of BundleSwap, or none.
LEMMA JobStepImplements == JobInv /\ [JobNext]_jobVars => [Next]_vars
<1> SUFFICES ASSUME JobInv, [JobNext]_jobVars PROVE [Next]_vars
  OBVIOUS
<1> USE DEF JobInv, StagedInv, Next
<1>1. CASE JobStarts \/ UploadFile \/ SendEnv \/ JobFails
  BY <1>1 DEF JobStarts, UploadFile, SendEnv, JobFails
<1>2. CASE JobInstalls
  BY <1>2 DEF JobInstalls
<1>3. CASE InstallStagedFile
  <2>1. Order[i] \in File
    BY <1>3, OrderFacts DEF InstallStagedFile, InstallFileWith, IInv, ControlInv
  <2>2. staged[Order[i]] = target
    BY <1>3, <2>1 DEF InstallStagedFile, InstallFileWith, BundleOf
  <2>3. InstallFileWith(target)
    BY <1>3, <2>2 DEF InstallStagedFile
  <2>. QED
    BY <2>3 DEF InstallFile
<1>4. CASE InstallStagedEnv
  <2>1. envNext = target /\ InstallEnvWith(envNext)
    BY <1>4 DEF InstallStagedEnv, InstallEnvWith
  <2>. QED
    BY <2>1 DEF InstallEnv
<1>5. CASE SessionFails
  <2>1. StagedEffect => PartialEffect
    BY DEF StagedEffect, PartialEffect
  <2>2. FailAfter(StagedEffect) => Fail
    BY <2>1 DEF FailAfter, Fail
  <2>3. CrashAfter(StagedEffect) => Crash
    BY <2>1 DEF CrashAfter, Crash
  <2>. QED
    BY <1>5, <2>2, <2>3 DEF SessionFails
<1>6. CASE Verifies \/ SessionGoesOn
  BY <1>6 DEF Verifies, SessionGoesOn
<1>7. CASE UNCHANGED jobVars
  BY <1>7 DEF jobVars
<1>. QED
  BY <1>1, <1>2, <1>3, <1>4, <1>5, <1>6, <1>7 DEF JobNext

LEMMA JobTypeStep ==
    ASSUME JobInv, [JobNext]_jobVars
    PROVE  JobTypeOK'
<1>1. TypeOK'
  BY JobStepImplements, InvStep DEF JobInv, IInv
<1> USE OrderFacts, ConstantTypes DEF JobInv, JobTypeOK, StagedInv, staging, run
<1>2. CASE JobStarts
  BY <1>1, <1>2 DEF JobStarts, Step, vars
<1>3. CASE UploadFile
  <2>1. staged' \in Bundle
    BY <1>3, DamagedBundles DEF UploadFile, Uploaded
  <2>. QED
    BY <1>1, <1>3, <2>1 DEF UploadFile, Step, vars
<1>4. CASE SendEnv
  BY <1>1, <1>4 DEF SendEnv, Step, vars
<1>5. CASE JobFails
  <2>1. staged' \in Bundle /\ envNext' \in Content
    BY <1>5, DamagedBundles DEF JobFails
  <2>2. stops' \in 0..MaxTroubles
    BY <1>5, BoundsAssumption DEF JobFails, MoreTrouble, TypeOK
  <2>. QED
    BY <1>1, <1>5, <2>1, <2>2 DEF JobFails, Step, vars
<1>6. CASE JobInstalls
  BY <1>1, <1>6 DEF JobInstalls, Step
<1>7. CASE InstallStagedFile
  BY <1>1, <1>7 DEF InstallStagedFile, InstallFileWith
<1>8. CASE InstallStagedEnv
  BY <1>1, <1>8 DEF InstallStagedEnv, InstallEnvWith
<1>9. CASE SessionFails
  <2>1. pc # "idle" /\ UNCHANGED << staged, run >>
    BY <1>9 DEF SessionFails, FailAfter, CrashAfter
  <2>2. envNext' \in {envNext, Absent}
    BY <1>9 DEF SessionFails, FailAfter, CrashAfter, StagedEffect
  <2>. QED
    BY <1>1, <2>1, <2>2
<1>10. CASE Verifies \/ SessionGoesOn
  <2>1. job = "none" /\ UNCHANGED << staging, run >>
    BY <1>10 DEF Verifies, SessionGoesOn, SaveEnv, RecoverRmPrev, RecoverMvOld,
       PrepareNext, SnapshotFiles, MarkReady, SwapRmOld, SwapMvPrev,
       SwapMvNext, DeployScriptSucceeds, Cleanup, SkipCleanup,
       DeployScriptFails, RestoreEnv, PickSnapshot, RestoreFile, WipeLive,
       RestoreFault
  <2>. QED
    BY <1>1, <2>1
<1>11. CASE UNCHANGED jobVars
  BY <1>1, <1>11 DEF jobVars, vars
<1>. QED
  BY <1>2, <1>3, <1>4, <1>5, <1>6, <1>7, <1>8, <1>9, <1>10, <1>11 DEF JobNext

LEMMA StagedStep == JobInv /\ [JobNext]_jobVars => StagedInv'
<1> SUFFICES ASSUME JobInv, [JobNext]_jobVars PROVE StagedInv'
  OBVIOUS
<1> USE OrderFacts DEF JobInv, JobTypeOK, StagedInv, staging, run, Go,
        Preparing, BeforeSwap
<1>1. CASE JobStarts
  BY <1>1 DEF JobStarts, vars
<1>2. CASE UploadFile
  <2>1. \A k \in 1..n : staged'[Order[k]] = release
    BY <1>2 DEF UploadFile, Uploaded, Bundle
  <2>2. n = Len(Order) => staged' = BundleOf(release)
    <3>1. staged' \in Bundle
      BY JobTypeStep
    <3>. QED
      BY <2>1, <3>1, FileAssumption DEF Bundle, BundleOf
  <2>3. pc = "idle" /\ UNCHANGED << pc, release >> /\ n' = n + 1
        /\ job' = (IF n = Len(Order) THEN "sendEnv" ELSE "upload")
    BY <1>2 DEF UploadFile, vars
  <2>4. job' = "upload" => n' \in 1..Len(Order) /\ n' - 1 = n
    BY <1>2, <2>3 DEF UploadFile
  <2>5. job' # "none" /\ job' # "install" /\ release \in Release
    BY <1>2, <2>3 DEF UploadFile
  <2>. QED
    BY <2>1, <2>2, <2>3, <2>4, <2>5
<1>3. CASE SendEnv
  BY <1>3 DEF SendEnv, vars
<1>4. CASE JobFails
  BY <1>4 DEF JobFails, vars
<1>5. CASE JobInstalls
  BY <1>5 DEF JobInstalls, Start
<1>6. CASE InstallStagedFile \/ InstallStagedEnv
  BY <1>6 DEF InstallStagedFile, InstallFileWith, InstallStagedEnv, InstallEnvWith
<1>7. CASE SessionFails
  <2>1. /\ pc' \in {"idle", "restoreEnv"} /\ pc # "idle"
        /\ UNCHANGED << staged, run >>
    BY <1>7 DEF SessionFails, FailAfter, CrashAfter
  <2>. QED
    BY <2>1
<1>8. CASE Verifies
  BY <1>8 DEF Verifies, VerifyFails
<1>9. CASE SessionGoesOn
  <2>1. UNCHANGED << staging, run, target >>
    BY <1>9 DEF SessionGoesOn, session, SaveEnv, RecoverRmPrev, RecoverMvOld,
       PrepareNext, SnapshotFiles, MarkReady, SwapRmOld, SwapMvPrev,
       SwapMvNext, DeployScriptSucceeds, Cleanup, SkipCleanup,
       DeployScriptFails, RestoreEnv, PickSnapshot, RestoreFile, WipeLive,
       RestoreFault
  <2>2. pc \in {"restoreEnv", "pick", "restore", "wipe", "deploy", "cleanup"}
        => pc' \notin Preparing \cup {"install", "mvEnv"}
    BY <1>9 DEF SessionGoesOn, SaveEnv, RecoverRmPrev, RecoverMvOld,
       PrepareNext, SnapshotFiles, MarkReady, SwapRmOld, SwapMvPrev,
       SwapMvNext, DeployScriptSucceeds, Cleanup, SkipCleanup,
       DeployScriptFails, RestoreEnv, PickSnapshot, NotRestored, RestoreFile,
       NextFile, Restored, WipeLive, RestoreFault
  <2>3. pc # "idle" /\ pc \in Pc
    BY <1>9 DEF SessionGoesOn, SaveEnv, RecoverRmPrev, RecoverMvOld, TypeOK,
       PrepareNext, SnapshotFiles, MarkReady, SwapRmOld, SwapMvPrev,
       SwapMvNext, DeployScriptSucceeds, Cleanup, SkipCleanup,
       DeployScriptFails, RestoreEnv, PickSnapshot, RestoreFile, WipeLive,
       RestoreFault
  <2>4. pc' \in Preparing \cup {"install", "mvEnv"}
        => pc \in Preparing \cup {"install", "mvEnv"}
    BY <2>2, <2>3 DEF Pc
  <2>5. job = "none"
    BY <2>3
  <2>6. UNCHANGED << staged, envNext, job, n, release, target >>
    BY <2>1
  <2>. QED
    BY <2>4, <2>5, <2>6
<1>10. CASE UNCHANGED jobVars
  BY <1>10 DEF jobVars, vars, session
<1>. QED
  BY <1>1, <1>2, <1>3, <1>4, <1>5, <1>6, <1>7, <1>8, <1>9, <1>10 DEF JobNext

THEOREM JobInvariance == JobSpec => []JobInv
<1>1. JobInit => JobInv
  <2> SUFFICES ASSUME JobInit PROVE JobInv
    OBVIOUS
  <2>1. IInv
    BY InvInit DEF JobInit
  <2>2. JobTypeOK /\ StagedInv
    BY <2>1, OrderFacts, ConstantTypes, BoundsAssumption
    DEF JobInit, Init, IInv, JobTypeOK, StagedInv, Step, Preparing, BeforeSwap
  <2>. QED
    BY <2>1, <2>2 DEF JobInv
<1>2. JobInv /\ [JobNext]_jobVars => JobInv'
  BY JobStepImplements, InvStep, JobTypeStep, StagedStep DEF JobInv
<1>. QED
  BY <1>1, <1>2, PTL DEF JobSpec

\* The variables of the scripts, of the job and the staged files keep their
\* types.
THEOREM JobTypeCorrect == JobSpec => []JobTypeOK
<1>1. JobInv => JobTypeOK
  BY DEF JobInv
<1>. QED
  BY <1>1, JobInvariance, PTL

\* The uploads, with all that earlier jobs have left behind, implement
\* BundleSwap (deploy.yml 395-409, 443-455, 553-569): its theorems hold of the
\* whole job.
THEOREM JobInstallsUploaded == JobSpec => InstallsUploaded
<1>1. JobInit => Init
  BY DEF JobInit
<1>2. JobInv /\ [JobNext]_jobVars => [Next]_vars
  BY JobStepImplements
<1>. QED
  BY <1>1, <1>2, JobInvariance, PTL DEF JobSpec, InstallsUploaded, Spec
=============================================================================
