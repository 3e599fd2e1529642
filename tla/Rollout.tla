------------------------------- MODULE Rollout -------------------------------
(***************************************************************************)
(* One production host and the jobs `deploy` and `verify` of deploy.yml:   *)
(* the commands of scripts/deploy.sh and scripts/check-deploy.sh that      *)
(* change a file, a container or the certificate, in their order, each of  *)
(* which may fail.  The files of a bundle move together here; BundleSwap   *)
(* has them one by one.  mysql and redis are only ever started with        *)
(* --no-recreate: what matters of them is that waiting for them can fail.  *)
(***************************************************************************)
EXTENDS Integers

CONSTANTS
    Release,     \* releases that are deployed
    Legacy,      \* a release whose Compose file has no nginx
    None,        \* no release: a missing file, container or marker
    Mixture,     \* parts of several releases
    MaxTroubles  \* bound: SIGKILLs and reboots in the middle of a session,
                 \* unnoticed failures in a rollback, and re-runs of the verify
                 \* job of an older run

ASSUME RolloutAssumption ==
    /\ MaxTroubles \in Nat
    /\ Legacy # None /\ None \notin Release /\ Legacy \notin Release
    /\ Mixture \notin Release \cup {Legacy, None}

VARIABLES
    bundle,      \* release of the live Compose file, templates and scripts
    snapshot,    \* release in .deploy.previous
    env,         \* release whose settings are in .env
    envPrev,     \* release whose settings are in .env.previous
    marker,      \* image named by .previous-image
    app,         \* container aandi-app: its image, and the .env it was given
    nginx,       \* container aandi-nginx: its template, and whose
    certbot,     \* is aandi-certbot up
    cert,        \* the TLS certificate: "none", "usable" or "expired"
    pc,
    by,          \* who rolls back: deploy.sh or a mode of check-deploy.sh
    target,      \* release of the workflow run
    envPresent,  \* current_env_was_present
    updateStarted,  \* APPLICATION_UPDATE_STARTED
    bootstrapped,   \* BOOTSTRAP_NGINX_STARTED
    result,      \* how the last session ended
    troubles,    \* how many of them so far
    faulty,      \* a command of a rollback has failed unnoticed
    deployed,    \* releases whose deploy job has succeeded in some run
    found,       \* history: the release the host ran when the session started
    foundApp,    \* history: the application container it had then
    recorded,    \* history: .previous-image is not of an earlier session
    redone       \* history: was verify run again since the last deploy job,
                 \* and that after a kill or a rollback that stopped half-way

host    == << bundle, snapshot, env, envPrev, marker, app, nginx, certbot, cert >>
flags   == << by, target, envPresent, updateStarted, bootstrapped >>
counters == << troubles, faulty >>
history == << deployed, found, foundApp, recorded, redone >>
vars    == << host, pc, flags, result, counters, history >>

AnyRelease == Release \cup {Legacy, None}
App   == [image : AnyRelease, env : AnyRelease]
NoApp == [image |-> None, env |-> None]
Nginx == [template : {"none", "http", "https"}, of : AnyRelease]
NoNginx  == [template |-> "none", of |-> None]
Http(r)  == [template |-> "http",  of |-> r]
Https(r) == [template |-> "https", of |-> r]
HasNginx(r) == r \notin {Legacy, None}

InstallStep == { "keepEnv", "keepBundle", "files", "settings" }
DeployStep == { "marker", "data", "cert", "bootstrap", "issue", "pull", "app",
                "nginx", "certbot" }
RollbackStep == { "rbEnv", "rbBundle", "rbMarker", "rbData", "rbApp",
                  "rbNginx", "rbCertbot", "rbReady" }

TypeOK ==
    /\ bundle \in AnyRelease /\ snapshot \in AnyRelease
    /\ env \in AnyRelease /\ envPrev \in AnyRelease /\ marker \in AnyRelease
    /\ app \in App /\ nginx \in Nginx /\ certbot \in BOOLEAN
    /\ cert \in {"none", "usable", "expired"}
    /\ pc \in {"idle", "early", "trap", "verify", "external"}
               \cup InstallStep \cup DeployStep \cup RollbackStep
    /\ by \in {"none", "deploy.sh", "check-deploy.sh", "--rollback-only"}
    /\ target \in AnyRelease
    /\ envPresent \in BOOLEAN /\ updateStarted \in BOOLEAN
    /\ bootstrapped \in BOOLEAN
    /\ result \in {"none", "verified", "failedEarly", "rolledBack",
                   "rollbackFailed", "unverified", "crashed"}
    /\ troubles \in 0..MaxTroubles /\ faulty \in BOOLEAN
    /\ found \in AnyRelease \cup {Mixture} /\ foundApp \in App
    /\ deployed \subseteq Release
    /\ recorded \in BOOLEAN /\ redone \in {"no", "clean", "half"}

\* Every part of the host belongs to release r (None: nothing is deployed).
FilesOf(r) == bundle = r /\ env = r
AppOf(r)   == app = [image |-> r, env |-> r]
EntryOf(r) == /\ nginx = IF HasNginx(r) THEN Https(r) ELSE NoNginx
              /\ certbot = HasNginx(r)
Runs(r)    == FilesOf(r) /\ AppOf(r) /\ EntryOf(r)

Running == IF \E r \in AnyRelease : Runs(r) THEN app.image ELSE Mixture

\* A new host, or one that serves a release from before nginx over HTTP.
Init ==
    /\ \E r \in {None, Legacy} :
           bundle = r /\ env = r /\ app = [image |-> r, env |-> r]
    /\ snapshot = None /\ envPrev = None /\ marker = None
    /\ nginx = NoNginx /\ certbot = FALSE /\ cert = "none"
    /\ pc = "idle" /\ by = "none" /\ target = None
    /\ envPresent = FALSE /\ updateStarted = FALSE /\ bootstrapped = FALSE
    /\ result = "none" /\ troubles = 0 /\ faulty = FALSE
    /\ found = app.image /\ foundApp = app /\ deployed = {}
    /\ recorded = FALSE /\ redone = "no"

Go(l) == pc' = l

OneMoreTrouble == troubles < MaxTroubles /\ troubles' = troubles + 1

\* The variables of the install step's shell and of deploy.sh end with them.
ShellEnds == envPresent' = FALSE /\ updateStarted' = FALSE /\ bootstrapped' = FALSE

-----------------------------------------------------------------------------
(* The deploy job: install the files, then deploy.sh.                      *)

\* The session of the install step begins.
Install(r) ==
    /\ pc = "idle"
    /\ target' = r
    /\ envPresent' = FALSE /\ updateStarted' = FALSE /\ bootstrapped' = FALSE
    /\ by' = "none" /\ result' = "none" /\ recorded' = FALSE /\ redone' = "no"
    /\ found' = Running /\ foundApp' = app
    /\ Go("keepEnv")
    /\ UNCHANGED << host, counters, deployed >>

KeepEnv ==
    /\ pc = "keepEnv"
    /\ envPresent' = (env # None)
    /\ envPrev' = IF env # None THEN env ELSE envPrev
    /\ Go("keepBundle")
    /\ UNCHANGED << bundle, snapshot, env, marker, app, nginx, certbot, cert, by,
                    target, updateStarted, bootstrapped, result, counters,
                    history >>

KeepBundle ==
    /\ pc = "keepBundle"
    /\ snapshot' = IF bundle # None THEN bundle ELSE snapshot
    /\ Go("files")
    /\ UNCHANGED << bundle, env, envPrev, marker, app, nginx, certbot, cert,
                    flags, result, counters, history >>

InstallFiles ==
    /\ pc = "files"
    /\ bundle' = target
    /\ Go("settings")
    /\ UNCHANGED << snapshot, env, envPrev, marker, app, nginx, certbot, cert,
                    flags, result, counters, history >>

\* Mutant: .env.next is never moved to .env.
EnvNotMoved == env

InstalledEnv == target

InstallSettings ==
    /\ pc = "settings"
    /\ env' = InstalledEnv
    /\ Go("marker")
    /\ UNCHANGED << bundle, snapshot, envPrev, marker, app, nginx, certbot, cert,
                    flags, result, counters, history >>

\* Once the bundle is being replaced, install_in_progress is 1 and the trap puts
\* it back.  A step that ends before leaves the host alone, but .env.previous
\* may be of this session already, and the snapshot of an earlier one.
InstallCommandFails ==
    /\ pc \in InstallStep
    /\ result' = "failedEarly"
    /\ IF pc \in {"keepEnv", "keepBundle"}
       THEN Go("idle") /\ ShellEnds
       ELSE Go("trap") /\ UNCHANGED << envPresent, updateStarted, bootstrapped >>
    /\ UNCHANGED << host, by, target, counters, history >>

\* Mutant: the whole inspection is recorded.
Inspection == app

\* Mutant: the image that the installed .env belongs to.
ImageOfSettings == env

\* Mutant: .previous-image is not removed first.
ImageIfRunning == IF app.image = None THEN marker ELSE app.image

\* docker inspect --format '{{.Config.Image}}' aandi-app
InspectedImage == app.image

\* rm .previous-image, then name the image the container aandi-app has now.
RecordMarker ==
    /\ pc = "marker"
    /\ marker' = InspectedImage /\ recorded' = TRUE
    /\ Go("data")
    /\ UNCHANGED << bundle, snapshot, env, envPrev, app, nginx, certbot, cert,
                    flags, result, counters, deployed, found, foundApp,
                    redone >>

StartData ==
    /\ pc = "data"
    /\ Go("cert")
    /\ UNCHANGED << host, flags, result, counters, history >>

CheckCertificate ==
    /\ pc = "cert"
    /\ Go(IF cert = "usable" THEN "pull" ELSE "bootstrap")
    /\ bootstrapped' = (cert # "usable")
    /\ UNCHANGED << host, by, target, envPresent, updateStarted, result,
                    counters, history >>

\* nginx answers the ACME challenge with http.conf.template
BootstrapNginx ==
    /\ pc = "bootstrap"
    /\ nginx' = Http(bundle)
    /\ Go("issue")
    /\ UNCHANGED << bundle, snapshot, env, envPrev, marker, app, certbot, cert,
                    flags, result, counters, history >>

IssueCertificate ==
    /\ pc = "issue"
    /\ cert' = "usable"
    /\ Go("pull")
    /\ UNCHANGED << bundle, snapshot, env, envPrev, marker, app, nginx, certbot,
                    flags, result, counters, history >>

PullApp ==
    /\ pc = "pull"
    /\ updateStarted' = TRUE
    /\ Go("app")
    /\ UNCHANGED << host, by, target, envPresent, bootstrapped, result,
                    counters, history >>

RecreateApp ==
    /\ pc = "app"
    /\ app' = [image |-> target, env |-> env]
    /\ Go("nginx")
    /\ UNCHANGED << bundle, snapshot, env, envPrev, marker, nginx, certbot, cert,
                    flags, result, counters, history >>

RecreateNginx ==
    /\ pc = "nginx"
    /\ nginx' = Https(bundle)
    /\ Go("certbot")
    /\ UNCHANGED << bundle, snapshot, env, envPrev, marker, app, certbot, cert,
                    flags, result, counters, history >>

StartCertbot ==
    /\ pc = "certbot"
    /\ certbot' = TRUE
    /\ Go("verify") /\ ShellEnds
    /\ deployed' = deployed \cup {target}
    /\ UNCHANGED << bundle, snapshot, env, envPrev, marker, app, nginx, cert,
                    by, target, result, counters, found, foundApp, recorded,
                    redone >>

\* Recreating a container that fails may leave the old one, none, or the new
\* one; a certificate may be issued and still not pass the check.
Recreated(c, none, new) == {c, none, new}

DeployCommandFails ==
    /\ pc \in DeployStep
    /\ \/ UNCHANGED host
       \/ /\ pc = "marker" /\ marker' = None
          /\ UNCHANGED << bundle, snapshot, env, envPrev, app, nginx, certbot,
                          cert >>
       \/ /\ pc = "bootstrap"
          /\ nginx' \in Recreated(nginx, NoNginx, Http(bundle))
          /\ UNCHANGED << bundle, snapshot, env, envPrev, marker, app, certbot,
                          cert >>
       \/ /\ pc = "issue" /\ cert' = "usable"
          /\ UNCHANGED << bundle, snapshot, env, envPrev, marker, app, nginx,
                          certbot >>
       \/ /\ pc = "app"
          /\ app' \in Recreated(app, NoApp, [image |-> target, env |-> env])
          /\ UNCHANGED << bundle, snapshot, env, envPrev, marker, nginx, certbot,
                          cert >>
       \/ /\ pc = "nginx"
          /\ nginx' \in Recreated(nginx, NoNginx, Https(bundle))
          /\ UNCHANGED << bundle, snapshot, env, envPrev, marker, app, certbot,
                          cert >>
    /\ recorded' = (recorded \/ marker' # marker)
    /\ IF updateStarted THEN Go("rbEnv") /\ by' = "deploy.sh"
                        ELSE Go("early") /\ UNCHANGED by
    /\ UNCHANGED << target, envPresent, updateStarted, bootstrapped, result,
                    counters, deployed, found, foundApp, redone >>

\* Mutant: the challenge is not known to have used the entry point.
EntryNotTaken == FALSE

EntryTaken == bootstrapped

\* handle_deploy_exit before the application update: the files come back, and
\* the entry point if the certificate challenge had taken it over.
ExitEarly ==
    /\ pc = "early"
    /\ env' = IF envPrev # None THEN envPrev ELSE env
    /\ bundle' = IF snapshot # None THEN snapshot ELSE bundle
    /\ IF ~EntryTaken THEN UNCHANGED << nginx, certbot >>
       ELSE IF snapshot # None /\ HasNginx(snapshot)
       THEN nginx' = Https(snapshot) /\ UNCHANGED certbot
       ELSE nginx' = NoNginx /\ certbot' = FALSE
    /\ result' = "failedEarly"
    /\ Go("trap")
    /\ UNCHANGED << snapshot, envPrev, marker, app, cert, flags, counters,
                    history >>

\* The same with `compose up ... nginx || true` failing unnoticed.
ExitEarlyFault ==
    /\ pc = "early" /\ bootstrapped
    /\ snapshot # None /\ HasNginx(snapshot)
    /\ OneMoreTrouble /\ faulty' = TRUE
    /\ env' = IF envPrev # None THEN envPrev ELSE env
    /\ bundle' = snapshot
    /\ nginx' \in {nginx, NoNginx}
    /\ result' = "failedEarly"
    /\ Go("trap")
    /\ UNCHANGED << snapshot, envPrev, marker, app, certbot, cert, flags, history >>

\* restore_interrupted_install of the install step, after deploy.sh has failed
RestoreInterruptedInstall ==
    /\ pc = "trap"
    /\ env' = IF envPresent THEN envPrev ELSE None
    /\ bundle' = snapshot
    /\ Go("idle") /\ ShellEnds
    /\ UNCHANGED << snapshot, envPrev, marker, app, nginx, certbot, cert, by,
                    target, result, counters, history >>

-----------------------------------------------------------------------------
(* The verify job.                                                         *)

\* What verify_deployment compares: containers up, and the application
\* container made from the image of the release.
DeploymentLooksRight ==
    app.image = target /\ nginx.template = "https" /\ certbot

VerifySucceeds ==
    /\ pc = "verify"
    /\ DeploymentLooksRight
    /\ Go("external")
    /\ UNCHANGED << host, flags, result, counters, history >>

\* A comparison fails, or readiness or the redirect does: roll back.
VerifyFails ==
    /\ pc = "verify"
    /\ by' = "check-deploy.sh"
    /\ Go("rbEnv")
    /\ UNCHANGED << host, target, envPresent, updateStarted, bootstrapped,
                    result, counters, history >>

ExternalSucceeds ==
    /\ pc = "external"
    /\ result' = "verified"
    /\ Go("idle")
    /\ UNCHANGED << host, flags, counters, history >>

ExternalFails ==
    /\ pc = "external"
    /\ by' = "--rollback-only"
    /\ Go("rbEnv")
    /\ UNCHANGED << host, target, envPresent, updateStarted, bootstrapped,
                    result, counters, history >>

\* The runner cannot reach the host: nothing is verified nor rolled back.
Unreachable ==
    /\ pc \in {"verify", "external"}
    /\ result' = "unverified"
    /\ Go("idle")
    /\ UNCHANGED << host, flags, counters, history >>

\* The verify job of any run whose deploy job has succeeded can be run again,
\* also after deployments of other releases: `concurrency` only keeps it from
\* running beside them.
RerunVerify(r) ==
    /\ pc = "idle"
    /\ r \in deployed
    /\ IF r = target /\ by # "deploy.sh"
            /\ result \in {"unverified", "rolledBack", "rollbackFailed"}
       THEN UNCHANGED troubles
       ELSE OneMoreTrouble
    /\ target' = r
    /\ redone' = IF redone = "half" \/ result \in {"rollbackFailed", "crashed"}
                 THEN "half" ELSE "clean"
    /\ result' = "none" /\ by' = "none"
    /\ Go("verify")
    /\ UNCHANGED << host, envPresent, updateStarted, bootstrapped, faulty,
                    found, foundApp, recorded, deployed >>

-----------------------------------------------------------------------------
(* rollback_before_verification of deploy.sh, rollback of check-deploy.sh. *)

\* Mutant: .env stays the one of the failed release.
EnvOfFailedRelease == env

EnvToRestore == envPrev

\* check-deploy.sh does nothing without .env.previous and .previous-image;
\* deploy.sh looks at the marker only later.
RollbackEnv ==
    /\ pc = "rbEnv"
    /\ envPrev # None
    /\ by # "deploy.sh" => marker # None
    /\ env' = EnvToRestore
    /\ Go("rbBundle")
    /\ UNCHANGED << bundle, snapshot, envPrev, marker, app, nginx, certbot, cert,
                    flags, result, counters, history >>

\* `if ! rollback` switches `set -e` off inside the function: when .env cannot
\* be put back the rollback goes on.
RollbackEnvFault ==
    /\ pc = "rbEnv" /\ by = "check-deploy.sh"
    /\ envPrev # None /\ marker # None
    /\ OneMoreTrouble /\ faulty' = TRUE
    /\ Go("rbBundle")
    /\ UNCHANGED << host, flags, result, history >>

RollbackBundle ==
    /\ pc = "rbBundle"
    /\ snapshot # None
    /\ bundle' = snapshot
    /\ Go("rbMarker")
    /\ UNCHANGED << snapshot, env, envPrev, marker, app, nginx, certbot, cert,
                    flags, result, counters, history >>

RollbackImage ==
    /\ pc = "rbMarker"
    /\ marker # None
    /\ Go("rbData")
    /\ UNCHANGED << host, flags, result, counters, history >>

RollbackData ==
    /\ pc = "rbData"
    /\ Go("rbApp")
    /\ UNCHANGED << host, flags, result, counters, history >>

RollbackApp ==
    /\ pc = "rbApp"
    /\ app' = [image |-> marker, env |-> env]
    /\ Go("rbNginx")
    /\ UNCHANGED << bundle, snapshot, env, envPrev, marker, nginx, certbot, cert,
                    flags, result, counters, history >>

\* Mutant: nginx and certbot survive.
EntryKept == UNCHANGED << nginx, certbot >>

\* docker rm -f aandi-certbot aandi-nginx
EntryRemoved == nginx' = NoNginx /\ certbot' = FALSE

RollbackNginx ==
    /\ pc = "rbNginx"
    /\ IF HasNginx(bundle)
       THEN nginx' = Https(bundle) /\ Go("rbCertbot") /\ UNCHANGED certbot
       ELSE EntryRemoved /\ Go("rbReady")
    /\ UNCHANGED << bundle, snapshot, env, envPrev, marker, app, cert, flags,
                    result, counters, history >>

RollbackCertbot ==
    /\ pc = "rbCertbot"
    /\ certbot' = TRUE
    /\ Go("rbReady")
    /\ UNCHANGED << bundle, snapshot, env, envPrev, marker, app, nginx, cert,
                    flags, result, counters, history >>

\* Mutant: verify is tried again after a rollback of the verify job.
VerifyAgain == Go(IF by = "deploy.sh" THEN "trap" ELSE "verify")

AfterRollback == Go(IF by = "deploy.sh" THEN "trap" ELSE "idle")

RollbackReady ==
    /\ pc = "rbReady"
    /\ result' = "rolledBack"
    /\ AfterRollback
    /\ UNCHANGED << host, flags, counters, history >>

\* Mutant: .env.previous is waited for.
StopsLater == RollbackStep \ {"rbEnv"}

StopsAt == RollbackStep

\* A guard does not hold, or a command fails: the rollback stops where it is.
RollbackStops ==
    /\ pc \in StopsAt
    /\ \/ UNCHANGED host
       \/ /\ pc = "rbApp"
          /\ app' \in Recreated(app, NoApp, [image |-> marker, env |-> env])
          /\ UNCHANGED << bundle, snapshot, env, envPrev, marker, nginx, certbot,
                          cert >>
       \/ /\ pc = "rbNginx" /\ HasNginx(bundle)
          /\ nginx' \in Recreated(nginx, NoNginx, Https(bundle))
          /\ UNCHANGED << bundle, snapshot, env, envPrev, marker, app, certbot,
                          cert >>
    /\ result' = "rollbackFailed"
    /\ AfterRollback
    /\ UNCHANGED << flags, counters, history >>

-----------------------------------------------------------------------------
\* SIGKILL or a reboot: no trap runs; Docker restarts the containers.
Crash ==
    /\ OneMoreTrouble
    /\ pc \notin {"idle", "verify", "external"}
    /\ result' = "crashed"
    /\ Go("idle") /\ ShellEnds
    /\ UNCHANGED << host, by, target, faulty, history >>

\* The certificate comes within a day of its end and renewal has not helped.
CertificateExpires ==
    /\ pc = "idle" /\ cert = "usable"
    /\ cert' = "expired"
    /\ UNCHANGED << bundle, snapshot, env, envPrev, marker, app, nginx, certbot,
                    pc, flags, result, counters, history >>

DeployJob ==
    \/ KeepEnv \/ KeepBundle \/ InstallFiles \/ InstallSettings
    \/ InstallCommandFails
    \/ RecordMarker \/ StartData \/ CheckCertificate \/ BootstrapNginx
    \/ IssueCertificate \/ PullApp \/ RecreateApp \/ RecreateNginx
    \/ StartCertbot \/ DeployCommandFails
    \/ ExitEarly \/ ExitEarlyFault \/ RestoreInterruptedInstall

VerifyJob ==
    \/ VerifySucceeds \/ VerifyFails \/ ExternalSucceeds \/ ExternalFails
    \/ Unreachable

Rollback ==
    \/ RollbackEnv \/ RollbackEnvFault \/ RollbackBundle \/ RollbackImage
    \/ RollbackData \/ RollbackApp \/ RollbackNginx \/ RollbackCertbot
    \/ RollbackReady \/ RollbackStops

\* What the scripts of a session do themselves.
Session == DeployJob \/ VerifyJob \/ Rollback

Next ==
    \/ \E r \in Release : Install(r)
    \/ \E r \in Release : RerunVerify(r)
    \/ Session
    \/ Crash \/ CertificateExpires

Spec == Init /\ [][Next]_vars

\* Every wait in the scripts and in the workflow has a bounded number of
\* attempts, so a session that is not killed keeps going.
FairSpec == Spec /\ WF_vars(Session)

-----------------------------------------------------------------------------
(* Properties.                                                             *)

\* What a rollback goes back to, files and image, is what this session found.
BackupsOfSession == redone = "no" \/ recorded

\* A rollback that reports success, deploy.sh's or check-deploy.sh's, at the
\* first attempt or when verify is run again after a failed rollback or a kill,
\* brings back all of what a host that ran one release had: files, image,
\* settings of the container, entry point.  So it does when the verify job of an
\* older run is run again and undoes the newer deployment; not over a session
\* that ended before deploy.sh:395, when .previous-image is of an older one.
RollbackRestoresHost ==
    pc = "idle" /\ result = "rolledBack" /\ ~faulty /\ found # Mixture
            /\ BackupsOfSession
        => Runs(found)

\* Also when what the host had was a mixture of releases, or no rollback has
\* gone right before: the image that a rollback starts again is the one the
\* application container had when the session began, never that of an earlier
\* session's .previous-image (with the same exception).
RollbackImageWasFound ==
    pc = "idle" /\ result = "rolledBack" /\ BackupsOfSession
        => app.image = foundApp.image

\* A deployment that fails before the application update leaves the host as
\* it was, with the entry point back if the certificate challenge had taken
\* it over; the application container is in no case touched.
EarlyFailureHarmless ==
    pc = "idle" /\ result = "failedEarly" =>
        /\ app = foundApp
        /\ ~faulty /\ found # Mixture => Runs(found)

\* check-deploy.sh compares image and labels only; that the .env, the bundle
\* and the settings of the container are of that release too follows from the
\* way the host got there; also when the verify job, of this run or of an older
\* one, is run again over whole sessions.  (After a rollback that failed
\* half-way or a kill it may accept a mixture.)
VerifiedIsInstalled ==
    pc = "idle" /\ result = "verified"
            /\ (redone = "no" \/ (redone = "clean" /\ recorded /\ ~faulty
                                        /\ found # Mixture))
        => Runs(target)

\* After deployments, failures and re-runs of verify jobs, old or new, in any
\* sequence, a host that ran one release runs one release again once the jobs
\* are over.  Not so if a rollback stopped half-way or the session was killed,
\* and not if an older verify job is run again over a session that ended before
\* its backups were complete (deploy.sh:395): it puts back files, .env and image
\* of several sessions, and the scripts cannot tell.
NoMixtureLeft ==
    pc = "idle" /\ result \notin {"rollbackFailed", "crashed"}
            /\ redone # "half" /\ ~faulty /\ found # Mixture
            /\ BackupsOfSession
        => Running # Mixture

\* As long as sessions start from a host that runs one release, and no older
\* verify job is run again over a session whose backups were not complete
\* (deploy.sh:395), no container runs an image with the settings of another
\* release.
ImageWithItsSettings ==
    found # Mixture /\ ~faulty /\ BackupsOfSession => app.image = app.env

\* Whatever has failed before, a session that is not over has a command to run:
\* no trap or rollback waits for a backup that is not there.
SessionCanGoOn == pc # "idle" => ENABLED << Session >>_vars

\* The commands a session has left at most, however they turn out.
CommandsLeft ==
    [ idle      |-> 0,  trap     |-> 1,  early    |-> 2,  rbReady |-> 2,
      rbCertbot |-> 3,  rbNginx  |-> 4,  rbApp    |-> 5,  rbData  |-> 6,
      rbMarker  |-> 7,  rbBundle |-> 8,  rbEnv    |-> 9,  external |-> 10,
      verify    |-> 11, certbot  |-> 12, nginx    |-> 13, app     |-> 14,
      pull      |-> 15, issue    |-> 16, bootstrap |-> 17, cert   |-> 18,
      data      |-> 19, marker   |-> 20, settings |-> 21, files   |-> 22,
      keepBundle |-> 23, keepEnv |-> 24 ]

\* A session never comes back to a command: neither a rollback nor the trap
\* starts over, so it is over after 24 commands, the rollback included.
NothingTwice ==
    [][pc # "idle" => CommandsLeft[pc'] < CommandsLeft[pc]]_vars

\* Every session that is not killed comes to an end.
SessionEnds == pc # "idle" ~> pc = "idle"

\* README.md:143: the previous bundle, .env and image are rolled back
\* together.  After a rollback that failed before it recreated the container,
\* .previous-image of the next deployment names the failed image while .env
\* and the bundle are the ones of the release before.
RollbackIsOneRelease ==
    pc = "idle" /\ result = "rolledBack" => Running # Mixture

=============================================================================
