---------------------------- MODULE RolloutProofs ----------------------------
(***************************************************************************)
(* Proofs about Rollout: its type invariant and, for any set of releases   *)
(* and any number of troubles, the safety invariants of its run, by one    *)
(* inductive invariant that says, for every command of deploy.sh and       *)
(* check-deploy.sh, what the host and its backups are before it; then that *)
(* a session runs nothing twice and comes to its end.                      *)
(***************************************************************************)
EXTENDS Rollout, TLAPS

\* A rollback of this session has what it needs, and nothing failed unnoticed.
Sound == found # Mixture /\ ~faulty /\ BackupsOfSession

BeforeUpdate ==
    InstallStep \cup {"marker", "data", "cert", "bootstrap", "issue", "pull",
                      "app", "early"}

InShell == \/ pc \in InstallStep \cup DeployStep \cup {"early", "trap"}
           \/ pc \in RollbackStep /\ by = "deploy.sh"

\* The backups in the files are those of this session.
Kept == \/ recorded
        \/ redone = "no" /\ pc \notin {"idle", "keepEnv", "keepBundle"}

\* What never existed was never backed up; what did exist was.
InvBackups ==
    /\ env = None => envPrev = None
    /\ bundle = None => snapshot = None
    /\ InShell /\ pc # "keepEnv" => envPresent = (envPrev # None)
    /\ found # Mixture /\ pc \in {"keepEnv", "keepBundle"} => FilesOf(found)
    /\ found # Mixture /\ pc = "keepBundle" => envPrev = found
    /\ found # Mixture /\ Kept => envPrev = found /\ snapshot = found
    /\ found # Mixture => foundApp = [image |-> found, env |-> found]
    /\ recorded => marker \in {foundApp.image, None}

InvSession ==
    /\ InShell => redone = "no"
    /\ pc \in InstallStep => target \in Release
    /\ pc = "settings" => bundle = target
    /\ pc \in DeployStep \cup {"early"} => target \in Release /\ FilesOf(target)
    /\ redone = "no"
            /\ pc \notin InstallStep \cup {"idle", "marker", "early", "trap"}
           => recorded
    /\ pc \in InstallStep \cup DeployStep =>
           updateStarted = (pc \in {"app", "nginx", "certbot"})

\* Which image a rollback starts.
InvImage ==
    /\ pc \in {"rbData", "rbApp"} => marker # None
    /\ BackupsOfSession /\ pc \in {"rbNginx", "rbCertbot", "rbReady"}
           => app.image = foundApp.image
    /\ BackupsOfSession /\ pc \in {"idle", "trap"} /\ result = "rolledBack"
           => app.image = foundApp.image

InvEarly ==
    /\ pc \in BeforeUpdate => app = foundApp
    /\ pc \in BeforeUpdate /\ found # Mixture => certbot = HasNginx(found)
    /\ pc \in BeforeUpdate /\ found # Mixture /\ ~bootstrapped /\ pc # "app"
           => EntryOf(found)
    /\ pc \in InstallStep \cup {"marker", "data", "cert"} /\ found # Mixture
           => EntryOf(found)
    /\ pc \in {"bootstrap", "issue"} => bootstrapped

InvDeployed ==
    /\ Sound => app.image = app.env
    /\ pc \in {"nginx", "certbot"} => AppOf(target)
    /\ pc = "certbot" => nginx = Https(target)
    /\ pc \in {"verify", "external"} /\ redone = "no"
           => target \in Release /\ Runs(target)
    /\ pc = "verify" /\ redone = "clean" /\ Sound => Runs(bundle)
    /\ pc = "external" /\ redone = "clean" /\ Sound => Runs(target)

InvRollback ==
    Sound /\ pc \in RollbackStep =>
        /\ pc # "rbEnv" => env = found
        /\ pc \notin {"rbEnv", "rbBundle"} => bundle = found
        /\ pc \notin {"rbEnv", "rbBundle", "rbMarker"} => marker = found
        /\ pc \in {"rbNginx", "rbCertbot", "rbReady"} => AppOf(found)
        /\ pc = "rbCertbot" => nginx = Https(found) /\ HasNginx(found)
        /\ pc = "rbReady" => EntryOf(found)

InvTrap ==
    pc = "trap" =>
        /\ result \in {"failedEarly", "rolledBack", "rollbackFailed"}
        /\ result = "failedEarly" => app = foundApp
        /\ result = "failedEarly" /\ found # Mixture /\ ~faulty
               => EntryOf(found)
        /\ result = "rolledBack" /\ Sound => AppOf(found) /\ EntryOf(found)

InvIdle ==
    pc = "idle" =>
        /\ result = "failedEarly" => app = foundApp
        /\ result = "failedEarly" /\ found # Mixture /\ ~faulty => Runs(found)
        /\ result = "rolledBack" /\ Sound => Runs(found)
        /\ result = "verified"
               /\ (redone = "no" \/ (redone = "clean" /\ Sound)) => Runs(target)
        /\ result = "unverified"
               /\ (redone = "no" \/ (redone = "clean" /\ Sound)) => Runs(bundle)
        /\ result = "none" => Runs(bundle) /\ redone = "no"

IInv == /\ InvBackups /\ InvSession /\ InvImage /\ InvEarly /\ InvDeployed
        /\ InvRollback /\ InvTrap /\ InvIdle
-----------------------------------------------------------------------------
(* Types.                                                                  *)

LEMMA ReleaseTypes ==
    /\ NoApp \in App /\ NoNginx \in Nginx
    /\ None \in AnyRelease /\ Legacy \in AnyRelease
    /\ Mixture \notin AnyRelease /\ Release \subseteq AnyRelease
    /\ \A r \in AnyRelease : Http(r) \in Nginx /\ Https(r) \in Nginx
    /\ \A r, e \in AnyRelease : [image |-> r, env |-> e] \in App
BY RolloutAssumption
DEF NoApp, App, NoNginx, Nginx, AnyRelease, Http, Https

LEMMA RunningType == TypeOK => Running \in AnyRelease \cup {Mixture}
<1> SUFFICES ASSUME TypeOK PROVE Running \in AnyRelease \cup {Mixture}
  OBVIOUS
<1>1. app.image \in AnyRelease
  BY DEF TypeOK, App
<1>. QED
  BY <1>1 DEF Running

LEMMA TypeInstall ==
    ASSUME TypeOK, NEW r \in Release, Install(r) PROVE TypeOK'
<1>1. found' \in AnyRelease \cup {Mixture}
  BY RunningType DEF Install
<1>2. /\ envPresent' \in BOOLEAN /\ updateStarted' \in BOOLEAN
      /\ bootstrapped' \in BOOLEAN /\ recorded' \in BOOLEAN
  BY Zenon DEF Install
<1>. QED
  BY <1>1, <1>2, ReleaseTypes
  DEF TypeOK, Install, Go, host, counters, InstallStep

LEMMA TypeRerun ==
    ASSUME TypeOK, NEW r \in Release, RerunVerify(r) PROVE TypeOK'
<1>1. troubles' \in 0..MaxTroubles
  BY RolloutAssumption DEF TypeOK, RerunVerify, OneMoreTrouble
<1>2. redone' \in {"no", "clean", "half"}
  BY DEF RerunVerify
<1>. QED
  BY <1>1, <1>2, ReleaseTypes DEF TypeOK, RerunVerify, Go, host

LEMMA ShellEndsType ==
    ShellEnds => /\ envPresent' \in BOOLEAN /\ updateStarted' \in BOOLEAN
                 /\ bootstrapped' \in BOOLEAN
BY Zenon DEF ShellEnds

LEMMA TypeDeploy == ASSUME TypeOK, InvSession, DeployJob PROVE TypeOK'
<1> USE ReleaseTypes, ShellEndsType
    DEF TypeOK, Go, host, flags, counters, history, InstallStep, DeployStep,
        RollbackStep
<1>0. CASE \/ KeepEnv \/ KeepBundle \/ InstallFiles \/ InstallSettings
           \/ InstallCommandFails
  <2>1. CASE KeepEnv
    <3>1. envPresent' \in BOOLEAN
      BY <2>1 DEF KeepEnv
    <3>. QED
      BY <2>1, <3>1 DEF KeepEnv
  <2>2. CASE KeepBundle \/ InstallFiles \/ InstallSettings
    BY <2>2 DEF KeepBundle, InstallFiles, InstallSettings, InstalledEnv, InvSession
  <2>3. CASE InstallCommandFails
    BY <2>3 DEF InstallCommandFails
  <2>. QED
    BY <1>0, <2>1, <2>2, <2>3
<1>1. CASE RecordMarker
  BY <1>1 DEF RecordMarker, InspectedImage, App
<1>2. CASE StartData
  BY <1>2 DEF StartData
<1>3. CASE CheckCertificate
  BY <1>3 DEF CheckCertificate
<1>4. CASE BootstrapNginx
  BY <1>4 DEF BootstrapNginx
<1>5. CASE IssueCertificate
  BY <1>5 DEF IssueCertificate
<1>6. CASE PullApp
  BY <1>6 DEF PullApp
<1>7. CASE RecreateApp
  BY <1>7 DEF RecreateApp
<1>8. CASE RecreateNginx
  BY <1>8 DEF RecreateNginx
<1>9. CASE StartCertbot
  <2>1. target \in Release
    BY <1>9 DEF StartCertbot, InvSession
  <2>2. deployed' \subseteq Release /\ certbot' \in BOOLEAN
    BY <1>9, <2>1 DEF StartCertbot
  <2>. QED
    BY <1>9, <2>2 DEF StartCertbot
<1>10. CASE DeployCommandFails
  BY <1>10 DEF DeployCommandFails, Recreated
<1>11. CASE ExitEarly
  <2>1. certbot' \in BOOLEAN
    BY <1>11 DEF ExitEarly
  <2>2. env' \in AnyRelease /\ bundle' \in AnyRelease /\ nginx' \in Nginx
    BY <1>11 DEF ExitEarly
  <2>. QED
    BY <1>11, <2>1, <2>2 DEF ExitEarly
<1>12. CASE ExitEarlyFault
  BY <1>12, RolloutAssumption DEF ExitEarlyFault, OneMoreTrouble
<1>13. CASE RestoreInterruptedInstall
  <2>1. env' \in AnyRelease /\ bundle' \in AnyRelease
    BY <1>13 DEF RestoreInterruptedInstall
  <2>. QED
    BY <1>13, <2>1 DEF RestoreInterruptedInstall
<1>. QED
  BY <1>1, <1>2, <1>3, <1>4, <1>5, <1>6, <1>7, <1>8, <1>9, <1>10, <1>11,
     <1>12, <1>13, <1>0 DEF DeployJob

LEMMA TypeVerify == ASSUME TypeOK, VerifyJob PROVE TypeOK'
<1> USE ReleaseTypes, ShellEndsType
    DEF TypeOK, Go, host, flags, counters, history, InstallStep, DeployStep,
        RollbackStep
<1>1. CASE VerifySucceeds
  BY <1>1 DEF VerifySucceeds
<1>2. CASE VerifyFails
  BY <1>2 DEF VerifyFails
<1>3. CASE ExternalSucceeds
  BY <1>3 DEF ExternalSucceeds
<1>4. CASE ExternalFails
  BY <1>4 DEF ExternalFails
<1>5. CASE Unreachable
  BY <1>5 DEF Unreachable
<1>. QED
  BY <1>1, <1>2, <1>3, <1>4, <1>5 DEF VerifyJob

LEMMA TypeRollback == ASSUME TypeOK, Rollback PROVE TypeOK'
<1> USE ReleaseTypes, ShellEndsType
    DEF TypeOK, Go, host, flags, counters, history, InstallStep, DeployStep,
        RollbackStep
<1>1. CASE RollbackEnv
  BY <1>1 DEF RollbackEnv, EnvToRestore
<1>2. CASE RollbackEnvFault
  BY <1>2, RolloutAssumption DEF RollbackEnvFault, OneMoreTrouble
<1>3. CASE RollbackBundle
  BY <1>3 DEF RollbackBundle
<1>4. CASE RollbackImage
  BY <1>4 DEF RollbackImage
<1>5. CASE RollbackData
  BY <1>5 DEF RollbackData
<1>6. CASE RollbackApp
  BY <1>6 DEF RollbackApp
<1>7. CASE RollbackNginx
  <2>1. certbot' \in BOOLEAN
    BY <1>7, Zenon DEF RollbackNginx, EntryRemoved
  <2>2. nginx' \in Nginx
    BY <1>7 DEF RollbackNginx, EntryRemoved
  <2>. QED
    BY <1>7, <2>1, <2>2 DEF RollbackNginx
<1>8. CASE RollbackCertbot
  BY <1>8 DEF RollbackCertbot
<1>9. CASE RollbackReady
  BY <1>9 DEF RollbackReady, AfterRollback
<1>10. CASE RollbackStops
  BY <1>10 DEF RollbackStops, StopsAt, AfterRollback, Recreated
<1>. QED
  BY <1>1, <1>2, <1>3, <1>4, <1>5, <1>6, <1>7, <1>8, <1>9, <1>10 DEF
     Rollback

LEMMA TypeOther == ASSUME TypeOK, Crash \/ CertificateExpires PROVE TypeOK'
<1> USE ReleaseTypes, ShellEndsType
    DEF TypeOK, Go, host, flags, counters, history, InstallStep, DeployStep,
        RollbackStep
<1>1. CASE Crash
  BY <1>1, RolloutAssumption DEF Crash, OneMoreTrouble
<1>2. CASE CertificateExpires
  BY <1>2 DEF CertificateExpires
<1>. QED
  BY <1>1, <1>2

-----------------------------------------------------------------------------
(* The inductive invariant.                                                *)

LEMMA DeployJobInv ==
    ASSUME TypeOK, IInv, DeployJob PROVE IInv'
<1> USE RolloutAssumption DEF IInv, InvBackups, InvSession, InvImage, InvEarly,
     Kept, InstallStep, InvDeployed, InvRollback, InvTrap, InvIdle, Sound,
     BackupsOfSession, BeforeUpdate, InShell, FilesOf, AppOf, EntryOf, Runs, Go, ShellEnds,
     host, flags, counters, history, DeployStep, RollbackStep, TypeOK, App,
     Nginx, AnyRelease, HasNginx, Http, Https, NoNginx, NoApp
<1>0. CASE \/ KeepEnv \/ KeepBundle \/ InstallFiles \/ InstallSettings
           \/ InstallCommandFails
  <2>1. CASE KeepEnv
    BY <2>1 DEF KeepEnv
  <2>2. CASE KeepBundle
    BY <2>2 DEF KeepBundle
  <2>3. CASE InstallFiles
    BY <2>3 DEF InstallFiles
  <2>4. CASE InstallSettings
    BY <2>4 DEF InstallSettings, InstalledEnv
  <2>5. CASE InstallCommandFails
    BY <2>5 DEF InstallCommandFails
  <2>. QED
    BY <1>0, <2>1, <2>2, <2>3, <2>4, <2>5
<1>1. CASE RecordMarker
  BY <1>1 DEF RecordMarker, InspectedImage
<1>2. CASE StartData
  BY <1>2 DEF StartData
<1>3. CASE CheckCertificate
  <2>1. pc' \in {"pull", "bootstrap"} /\ (pc' = "bootstrap" => bootstrapped')
    BY <1>3 DEF CheckCertificate
  <2>2. InvBackups' /\ InvSession' /\ InvDeployed'
    BY <1>3, <2>1 DEF CheckCertificate
  <2>3. InvEarly'
    BY <1>3, <2>1 DEF CheckCertificate
  <2>. QED
    BY <1>3, <2>1, <2>2, <2>3 DEF CheckCertificate
<1>4. CASE BootstrapNginx
  BY <1>4 DEF BootstrapNginx
<1>5. CASE IssueCertificate
  BY <1>5 DEF IssueCertificate
<1>6. CASE PullApp
  BY <1>6 DEF PullApp
<1>7. CASE RecreateApp
  BY <1>7 DEF RecreateApp
<1>8. CASE RecreateNginx
  BY <1>8 DEF RecreateNginx
<1>9. CASE StartCertbot
  BY <1>9 DEF StartCertbot
<1>10. CASE DeployCommandFails
  BY <1>10 DEF DeployCommandFails, Recreated
<1>11. CASE ExitEarly
  BY <1>11 DEF ExitEarly, EntryTaken
<1>12. CASE ExitEarlyFault
  BY <1>12 DEF ExitEarlyFault
<1>13. CASE RestoreInterruptedInstall
  <2>1. InvBackups'
    BY <1>13 DEF RestoreInterruptedInstall
  <2>2. InvSession' /\ InvImage'
    BY <1>13 DEF RestoreInterruptedInstall
  <2>3. InvEarly' /\ InvDeployed' /\ InvRollback' /\ InvTrap'
    BY <1>13 DEF RestoreInterruptedInstall
  <2>4. InvIdle'
    BY <1>13 DEF RestoreInterruptedInstall
  <2>. QED
    BY <2>1, <2>2, <2>3, <2>4
<1>. QED
  BY <1>1, <1>2, <1>3, <1>4, <1>5, <1>6, <1>7, <1>8, <1>9, <1>10, <1>11,
     <1>12, <1>13, <1>0 DEF DeployJob

LEMMA VerifyJobInv ==
    ASSUME TypeOK, IInv, VerifyJob PROVE IInv'
<1> USE RolloutAssumption DEF IInv, InvBackups, InvSession, InvImage, InvEarly,
     Kept, InstallStep, InvDeployed, InvRollback, InvTrap, InvIdle, Sound,
     BackupsOfSession, BeforeUpdate, InShell, FilesOf, AppOf, EntryOf, Runs, Go, ShellEnds,
     host, flags, counters, history, DeployStep, RollbackStep, TypeOK, App,
     Nginx, AnyRelease, HasNginx, Http, Https, NoNginx, NoApp
<1>1. CASE VerifySucceeds
  <2>1. app.image = target
    BY <1>1 DEF VerifySucceeds, DeploymentLooksRight
  <2>2. Runs(bundle) => bundle = app.image
    OBVIOUS
  <2>3. InvDeployed'
    BY <1>1, <2>1, <2>2 DEF VerifySucceeds
  <2>. QED
    BY <1>1, <2>3 DEF VerifySucceeds
<1>2. CASE VerifyFails
  BY <1>2 DEF VerifyFails
<1>3. CASE ExternalSucceeds
  BY <1>3 DEF ExternalSucceeds
<1>4. CASE ExternalFails
  BY <1>4 DEF ExternalFails
<1>5. CASE Unreachable
  BY <1>5 DEF Unreachable
<1>. QED
  BY <1>1, <1>2, <1>3, <1>4, <1>5 DEF VerifyJob

LEMMA RollbackInv ==
    ASSUME TypeOK, IInv, Rollback PROVE IInv'
<1> USE RolloutAssumption DEF IInv, InvBackups, InvSession, InvImage, InvEarly,
     Kept, InstallStep, InvDeployed, InvRollback, InvTrap, InvIdle, Sound,
     BackupsOfSession, BeforeUpdate, InShell, FilesOf, AppOf, EntryOf, Runs, Go, ShellEnds,
     host, flags, counters, history, DeployStep, RollbackStep, TypeOK, App,
     Nginx, AnyRelease, HasNginx, Http, Https, NoNginx, NoApp
<1>1. CASE RollbackEnv
  BY <1>1 DEF RollbackEnv, EnvToRestore
<1>2. CASE RollbackEnvFault
  BY <1>2 DEF RollbackEnvFault
<1>3. CASE RollbackBundle
  BY <1>3 DEF RollbackBundle
<1>4. CASE RollbackImage
  BY <1>4 DEF RollbackImage
<1>5. CASE RollbackData
  BY <1>5 DEF RollbackData
<1>6. CASE RollbackApp
  BY <1>6 DEF RollbackApp
<1>7. CASE RollbackNginx
  <2>1. pc = "rbNginx" /\ pc' \in {"rbCertbot", "rbReady"}
        /\ UNCHANGED << bundle, snapshot, env, envPrev, marker, app, cert, flags,
                         result, counters, history >>
    BY <1>7 DEF RollbackNginx, EntryRemoved
  <2>2. InvBackups' /\ InvSession' /\ InvImage' /\ InvEarly' /\ InvTrap' /\ InvIdle'
    BY <2>1
  <2>3. InvDeployed'
    BY <2>1
  <2>4. InvRollback'
    <3>1. CASE HasNginx(bundle)
      BY <1>7, <3>1 DEF RollbackNginx
    <3>2. CASE ~HasNginx(bundle)
      BY <1>7, <3>2 DEF RollbackNginx, EntryRemoved
    <3>. QED
      BY <3>1, <3>2
  <2>. QED
    BY <2>2, <2>3, <2>4
<1>8. CASE RollbackCertbot
  BY <1>8 DEF RollbackCertbot
<1>9. CASE RollbackReady
  BY <1>9 DEF RollbackReady, AfterRollback
<1>10. CASE RollbackStops
  BY <1>10 DEF RollbackStops, StopsAt, AfterRollback, Recreated
<1>. QED
  BY <1>1, <1>2, <1>3, <1>4, <1>5, <1>6, <1>7, <1>8, <1>9, <1>10 DEF
     Rollback

LEMMA OtherInv ==
    ASSUME TypeOK, IInv, Crash \/ CertificateExpires PROVE IInv'
<1> USE RolloutAssumption DEF IInv, InvBackups, InvSession, InvImage, InvEarly,
     Kept, InstallStep, InvDeployed, InvRollback, InvTrap, InvIdle, Sound,
     BackupsOfSession, BeforeUpdate, InShell, FilesOf, AppOf, EntryOf, Runs, Go, ShellEnds,
     host, flags, counters, history, DeployStep, RollbackStep, TypeOK, App,
     Nginx, AnyRelease, HasNginx, Http, Https, NoNginx, NoApp
<1>1. CASE Crash
  BY <1>1 DEF Crash
<1>2. CASE CertificateExpires
  BY <1>2 DEF CertificateExpires
<1>. QED
  BY <1>1, <1>2

LEMMA InstallInv ==
    ASSUME TypeOK, IInv, NEW r \in Release, Install(r) PROVE IInv'
<1> USE RolloutAssumption DEF IInv, InvBackups, InvSession, InvImage, InvEarly,
     Kept, InstallStep, InvDeployed, InvRollback, InvTrap, InvIdle, Sound,
     BackupsOfSession, BeforeUpdate, InShell, FilesOf, AppOf, EntryOf, Runs, Go, ShellEnds,
     host, flags, counters, history, DeployStep, RollbackStep, TypeOK, App,
     Nginx, AnyRelease, HasNginx, Http, Https, NoNginx, NoApp
<1>1. found' # Mixture => Runs(found')
  <2>1. CASE \E x \in AnyRelease : Runs(x)
    BY <2>1 DEF Install, Running
  <2>2. CASE ~ \E x \in AnyRelease : Runs(x)
    BY <2>2 DEF Install, Running
  <2>. QED
    BY <2>1, <2>2
<1>2. InvBackups'
  BY <1>1 DEF Install
<1>3. InvSession'
  <2>1. /\ pc' = "keepEnv" /\ redone' = "no" /\ ~updateStarted'
        /\ target' \in Release
    BY DEF Install
  <2>2. updateStarted' = (pc' \in {"app", "nginx", "certbot"})
    <3>1. (pc' \in {"app", "nginx", "certbot"}) = FALSE
      BY <2>1
    <3>2. updateStarted' = FALSE
      BY Zenon DEF Install
    <3>. QED
      BY <3>1, <3>2, Zenon
  <2>. QED
    BY <2>1, <2>2
<1>4. InvEarly'
  BY <1>1 DEF Install
<1>5. InvDeployed'
  BY <1>1 DEF Install
<1>6. InvImage' /\ InvRollback' /\ InvTrap' /\ InvIdle'
  BY DEF Install
<1>. QED
  BY <1>2, <1>3, <1>4, <1>5, <1>6

LEMMA RerunVerifyInv ==
    ASSUME TypeOK, IInv, NEW r \in Release, RerunVerify(r) PROVE IInv'
<1> USE RolloutAssumption DEF IInv, InvBackups, InvSession, InvImage, InvEarly,
     Kept, InstallStep, InvDeployed, InvRollback, InvTrap, InvIdle, Sound,
     BackupsOfSession, BeforeUpdate, InShell, FilesOf, AppOf, EntryOf, Runs, Go, ShellEnds,
     host, flags, counters, history, DeployStep, RollbackStep, TypeOK, App,
     Nginx, AnyRelease, HasNginx, Http, Https, NoNginx, NoApp
<1>1. InvBackups'
  BY DEF RerunVerify
<1>2. InvSession' /\ InvImage' /\ InvEarly' /\ InvRollback' /\ InvTrap' /\ InvIdle'
  BY DEF RerunVerify
<1>3. InvDeployed'
  BY DEF RerunVerify
<1>. QED
  BY <1>1, <1>2, <1>3

LEMMA InitInv == Init => TypeOK /\ IInv
<1> SUFFICES ASSUME Init PROVE TypeOK /\ IInv
  OBVIOUS
<1>1. PICK r \in {None, Legacy} :
          bundle = r /\ env = r /\ app = [image |-> r, env |-> r]
  BY DEF Init
<1>2. r \in AnyRelease /\ app.image = r
  BY <1>1, ReleaseTypes
<1>3. TypeOK
  <2>1. certbot \in BOOLEAN /\ envPresent \in BOOLEAN /\ faulty \in BOOLEAN
        /\ updateStarted \in BOOLEAN /\ bootstrapped \in BOOLEAN
        /\ recorded \in BOOLEAN
    BY Zenon DEF Init
  <2>. QED
    BY <1>1, <1>2, <2>1, RolloutAssumption, ReleaseTypes DEF Init, TypeOK
<1>4. Runs(r)
  BY <1>1 DEF Init, Runs, FilesOf, AppOf, EntryOf, HasNginx
<1>5. IInv
  BY <1>1, <1>2, <1>4, RolloutAssumption
  DEF Init, IInv, InvBackups, InvSession, InvImage, InvEarly, InvDeployed,
     InvRollback, Kept, InstallStep, InvTrap, InvIdle, Sound, BackupsOfSession, BeforeUpdate, InShell,
     FilesOf, AppOf, EntryOf, Runs, DeployStep, RollbackStep, TypeOK, App,
     Nginx, AnyRelease, HasNginx, Http, Https, NoNginx, NoApp
<1>. QED
  BY <1>3, <1>5

LEMMA StepInv == TypeOK /\ IInv /\ [Next]_vars => (TypeOK /\ IInv)'
<1> SUFFICES ASSUME TypeOK, IInv, [Next]_vars PROVE (TypeOK /\ IInv)'
  OBVIOUS
<1>1. ASSUME NEW r \in Release, Install(r) PROVE (TypeOK /\ IInv)'
  BY <1>1, TypeInstall, InstallInv
<1>2. ASSUME NEW r \in Release, RerunVerify(r) PROVE (TypeOK /\ IInv)'
  BY <1>2, TypeRerun, RerunVerifyInv
<1>3. CASE DeployJob
  BY <1>3, TypeDeploy, DeployJobInv DEF IInv
<1>4. CASE VerifyJob
  BY <1>4, TypeVerify, VerifyJobInv
<1>5. CASE Rollback
  BY <1>5, TypeRollback, RollbackInv
<1>6. CASE Crash \/ CertificateExpires
  BY <1>6, TypeOther, OtherInv
<1>7. CASE UNCHANGED vars
  BY <1>7 DEF vars, IInv, InvBackups, InvSession, InvImage, InvEarly,
     InvDeployed, InvRollback, Kept, InstallStep, InvTrap, InvIdle, Sound, BackupsOfSession, BeforeUpdate,
     InShell, FilesOf, AppOf, EntryOf, Runs, host, flags, counters, history,
     DeployStep, RollbackStep, TypeOK, App, Nginx, AnyRelease, HasNginx, Http,
     Https, NoNginx, NoApp
<1>. QED
  BY <1>1, <1>2, <1>3, <1>4, <1>5, <1>6, <1>7 DEF Next, Session

\* Before every command of a job, and between jobs, the host and its backups are
\* as the inductive invariant says.
THEOREM Invariance == Spec => [](TypeOK /\ IInv)
BY InitInv, StepInv, PTL DEF Spec

\* Every variable keeps its type.
THEOREM TypeCorrect == Spec => []TypeOK
BY Invariance, PTL

\* A rollback that reports success has brought back the release the session
\* found, whichever job ran it and however often verify was run again, if the
\* session had completed its backups (deploy.sh:395).
THEOREM RollbackRestores == Spec => []RollbackRestoresHost
<1>1. IInv => RollbackRestoresHost
  BY DEF IInv, InvIdle, Sound, RollbackRestoresHost
<1>. QED
  BY <1>1, Invariance, PTL

\* The image that a rollback starts is the one the session found, whatever had
\* failed before, if the session had completed its backups (deploy.sh 395-407).
THEOREM RollbackImageFound == Spec => []RollbackImageWasFound
<1>1. IInv => RollbackImageWasFound
  BY DEF IInv, InvImage, RollbackImageWasFound
<1>. QED
  BY <1>1, Invariance, PTL

\* A deployment that fails before the application update changes nothing.
THEOREM EarlyFailure == Spec => []EarlyFailureHarmless
<1>1. IInv => EarlyFailureHarmless
  BY DEF IInv, InvIdle, EarlyFailureHarmless
<1>. QED
  BY <1>1, Invariance, PTL

\* What verify accepts is wholly the release it was asked for.
THEOREM VerifiedInstalled == Spec => []VerifiedIsInstalled
<1>1. IInv => VerifiedIsInstalled
  BY DEF IInv, InvIdle, Sound, BackupsOfSession, VerifiedIsInstalled
<1>. QED
  BY <1>1, Invariance, PTL

\* Jobs that are over have left one release, not a mixture, unless a rollback
\* stopped half-way, the session was killed, or the verify job was run again over
\* a session that had not completed its backups (deploy.sh:395).
THEOREM NoMixture == Spec => []NoMixtureLeft
<1>1. ASSUME NEW r \in AnyRelease, TypeOK, Runs(r) PROVE Running # Mixture
  BY <1>1, ReleaseTypes DEF Running, TypeOK, App
<1>2. TypeOK /\ IInv => NoMixtureLeft
  <2> SUFFICES ASSUME TypeOK, IInv, ~NoMixtureLeft PROVE FALSE
    OBVIOUS
  <2>1. /\ bundle \in AnyRelease /\ target \in AnyRelease
        /\ found \in AnyRelease \cup {Mixture}
    BY DEF TypeOK
  <2>2. /\ pc = "idle" /\ Sound /\ redone # "half" /\ Running = Mixture
        /\ result \notin {"rollbackFailed", "crashed"}
    BY DEF NoMixtureLeft, Sound
  <2>3. Runs(found) \/ Runs(target) \/ Runs(bundle)
    BY <2>2 DEF IInv, InvIdle, TypeOK, Sound
  <2>. QED
    BY <1>1, <2>1, <2>2, <2>3 DEF Sound
<1>. QED
  BY <1>2, Invariance, PTL

\* No container runs an image with the settings of another release, while
\* sessions start from one release and the verify job is not run again over one
\* that had not completed its backups (deploy.sh:395).
THEOREM ImageSettings == Spec => []ImageWithItsSettings
<1>1. IInv => ImageWithItsSettings
  BY DEF IInv, InvDeployed, Sound, ImageWithItsSettings
<1>. QED
  BY <1>1, Invariance, PTL

-----------------------------------------------------------------------------
(***************************************************************************)
(* The end of a session.  Weak fairness helps an action that stays         *)
(* possible; that a session always has a command to run (SessionCanGoOn)   *)
(* is about ENABLED, which is model-checked and a premise here.            *)
(***************************************************************************)
LEMMA CommandsShrink ==
    ASSUME TypeOK, pc # "idle", [Next]_vars, ~UNCHANGED vars
    PROVE  CommandsLeft[pc'] < CommandsLeft[pc]
<1> USE DEF CommandsLeft, Go, AfterRollback, TypeOK, InstallStep, DeployStep,
            RollbackStep
<1>1. CASE DeployJob
  <2>0. CASE \/ KeepEnv \/ KeepBundle \/ InstallFiles \/ InstallSettings
             \/ InstallCommandFails
    BY <2>0 DEF KeepEnv, KeepBundle, InstallFiles, InstallSettings,
                InstallCommandFails
  <2>1. CASE DeployCommandFails
    BY <2>1 DEF DeployCommandFails
  <2>2. CASE RecordMarker \/ StartData \/ CheckCertificate \/ BootstrapNginx
    BY <2>2 DEF RecordMarker, StartData, CheckCertificate, BootstrapNginx
  <2>3. CASE IssueCertificate \/ PullApp \/ RecreateApp \/ RecreateNginx \/ StartCertbot
    BY <2>3 DEF IssueCertificate, PullApp, RecreateApp, RecreateNginx, StartCertbot
  <2>4. CASE ExitEarly \/ ExitEarlyFault \/ RestoreInterruptedInstall
    BY <2>4 DEF ExitEarly, ExitEarlyFault, RestoreInterruptedInstall
  <2>. QED
    BY <1>1, <2>0, <2>1, <2>2, <2>3, <2>4 DEF DeployJob
<1>2. CASE VerifyJob
  BY <1>2 DEF VerifyJob, VerifySucceeds, VerifyFails, ExternalSucceeds, ExternalFails,
              Unreachable
<1>3. CASE Rollback
  <2>1. CASE RollbackEnv \/ RollbackEnvFault \/ RollbackBundle \/ RollbackImage
    BY <2>1 DEF RollbackEnv, RollbackEnvFault, RollbackBundle, RollbackImage
  <2>2. CASE RollbackData \/ RollbackApp \/ RollbackNginx \/ RollbackCertbot
    BY <2>2 DEF RollbackData, RollbackApp, RollbackNginx, RollbackCertbot
  <2>3. CASE RollbackReady \/ RollbackStops
    BY <2>3 DEF RollbackReady, RollbackStops, StopsAt
  <2>. QED
    BY <1>3, <2>1, <2>2, <2>3 DEF Rollback
<1>4. CASE Crash
  BY <1>4 DEF Crash
<1>. QED
  BY <1>1, <1>2, <1>3, <1>4 DEF Next, Session, Install, RerunVerify, CertificateExpires

\* No command of a session is run again in it, whatever fails.
THEOREM NeverTwice == Spec => NothingTwice
<1>1. TypeOK /\ [Next]_vars => [pc # "idle" => CommandsLeft[pc'] < CommandsLeft[pc]]_vars
  BY CommandsShrink
<1>. QED
  BY <1>1, TypeCorrect, PTL DEF Spec, NothingTwice

Left == CommandsLeft[pc]

LEMMA LeftType == TypeOK => Left \in 0..24 /\ (Left = 0 <=> pc = "idle")
  BY DEF TypeOK, Left, CommandsLeft, InstallStep, DeployStep, RollbackStep

\* One command is taken, or the session is killed, or over.
LEMMA OneCommand ==
    ASSUME NEW n \in 1..24
    PROVE  FairSpec /\ []SessionCanGoOn => (Left = n ~> Left < n)
<1>1. TypeOK /\ Left = n /\ [Next]_vars => (Left = n)' \/ (Left < n)'
  <2>1. ASSUME TypeOK, Left = n, [Next]_vars, ~UNCHANGED vars PROVE (Left < n)'
    BY <2>1, LeftType, CommandsShrink DEF Left
  <2>. QED
    BY <2>1 DEF Left, vars
<1>2. TypeOK /\ Left = n /\ << Session >>_vars => (Left < n)'
  BY LeftType, CommandsShrink DEF Left, Next
<1>3. TypeOK /\ Left = n /\ SessionCanGoOn => ENABLED << Session >>_vars
  <2>1. TypeOK /\ Left = n => pc # "idle"
    BY LeftType
  <2>. QED
    BY <2>1 DEF SessionCanGoOn
<1>. QED
  BY <1>1, <1>2, <1>3, TypeCorrect, PTL DEF FairSpec, Spec

\* A session with fewer than n commands left comes to its end; if it does, so
\* does one with n.
Ends(n) == Left < n ~> Left = 0

LEMMA OneMore ==
    ASSUME NEW n \in 1..24, NEW m \in 2..25, m = n + 1
    PROVE  FairSpec /\ []SessionCanGoOn /\ Ends(n) => Ends(m)
<1>1. TypeOK /\ Left < m => Left = n \/ Left < n
  BY LeftType
<1>2. FairSpec /\ []SessionCanGoOn => (Left = n ~> Left < n)
  BY OneCommand
<1>. QED
  BY <1>1, <1>2, TypeCorrect, PTL DEF FairSpec, Ends

\* However many of its commands fail, a session comes to its end, provided that
\* it always has a command to run (SessionCanGoOn).
THEOREM SessionsEnd == FairSpec /\ []SessionCanGoOn => SessionEnds
<1>1. TypeOK /\ Left < 1 => Left = 0
  BY LeftType
<1>2. FairSpec => Ends(1)
  BY <1>1, TypeCorrect, PTL DEF FairSpec, Ends
<1>3. FairSpec /\ []SessionCanGoOn /\ Ends(1)
          => Ends(2) /\ Ends(3) /\ Ends(4) /\ Ends(5) /\ Ends(6)
  BY OneMore
<1>4. FairSpec /\ []SessionCanGoOn /\ Ends(6)
          => Ends(7) /\ Ends(8) /\ Ends(9) /\ Ends(10) /\ Ends(11)
  BY OneMore
<1>5. FairSpec /\ []SessionCanGoOn /\ Ends(11)
          => Ends(12) /\ Ends(13) /\ Ends(14) /\ Ends(15) /\ Ends(16)
  BY OneMore
<1>6. FairSpec /\ []SessionCanGoOn /\ Ends(16)
          => Ends(17) /\ Ends(18) /\ Ends(19) /\ Ends(20) /\ Ends(21)
  BY OneMore
<1>7. FairSpec /\ []SessionCanGoOn /\ Ends(21)
          => Ends(22) /\ Ends(23) /\ Ends(24) /\ Ends(25)
  BY OneMore
<1>8. TypeOK => Left < 25 /\ (Left = 0 => pc = "idle")
  BY LeftType
<1>. QED
  BY <1>2, <1>3, <1>4, <1>5, <1>6, <1>7, <1>8, TypeCorrect, PTL
  DEF SessionEnds, FairSpec, Ends
==============================================================================
