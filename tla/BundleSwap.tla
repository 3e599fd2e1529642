----------------------------- MODULE BundleSwap -----------------------------
(***************************************************************************)
(* The files under RELEASE_DIR on the production host while the remote     *)
(* "Install runtime environment and deploy exact image" step of            *)
(* .github/workflows/deploy.yml replaces them, and while deploy.sh and     *)
(* check-deploy.sh put the previous ones back.                             *)
(*                                                                         *)
(* One action is one shell command that touches a file.  A command can be  *)
(* cut short: by an error (Fail, under `set -e`; RestoreFault, in the      *)
(* places where `set -e` is off) or by a SIGKILL or a reboot of the host   *)
(* (Crash, which runs no trap).  What the containers do is in Rollout.     *)
(***************************************************************************)
EXTENDS Integers, Sequences

CONSTANTS
    Release,     \* the releases whose workflow may run, again and again
    Legacy,      \* the release found on a host deployed before the templates
    Absent,      \* content of a file that does not exist
    Partial,     \* content of a file whose write was cut short
    File,        \* the files of a bundle (six in the code)
    Compose,     \* deploy/compose.prod.yaml
    Check,       \* scripts/check-deploy.sh
    Required,    \* with these two, scripts/deploy.sh
    Order,       \* the order in which the files are installed and restored
    Removed,     \* bound: the sets of files that are gone when an rm is cut
                 \* short; all sets in the code
    MaxTroubles  \* bound: SIGKILLs and reboots in a behaviour, restore
                 \* commands that fail with `set -e` off, and verify jobs
                 \* that stray

ASSUME BoundsAssumption == MaxTroubles \in Nat
ASSUME RemovedAssumption == Removed \subseteq SUBSET File
ASSUME ContentAssumption ==
    /\ Absent # Partial
    /\ Absent \notin Release \cup {Legacy}
    /\ Partial \notin Release \cup {Legacy}

ASSUME FileAssumption ==
    /\ Compose \in Required /\ Check \in Required /\ Required \subseteq File
    /\ Order \in Seq(File) /\ Order # << >>
    /\ \A f \in File : \E k \in 1..Len(Order) : Order[k] = f

(***************************************************************************)
(* A bundle is what its files contain; a file contains the text of one     *)
(* release.  A snapshot directory also has the marker file .ready; one     *)
(* that does not exist is the same to every command as an empty one.       *)
(***************************************************************************)
Content == Release \cup {Legacy, Absent, Partial}
Bundle  == [File -> Content]
Dir     == [ready : BOOLEAN, files : Bundle]

NoFiles == [f \in File |-> Absent]
NoDir   == [ready |-> FALSE, files |-> NoFiles]

BundleOf(r)    == [f \in File |-> r]
LegacyBundle   == [f \in File |-> IF f \in Required THEN Legacy ELSE Absent]
HasRequired(b) == \A f \in Required : b[f] # Absent

Pc == { "idle", "saveEnv", "rmPrev", "mvOld", "rmNext", "snapshot", "ready",
        "rmOld", "mvPrev", "mvNext", "install", "mvEnv", "deploy", "cleanup",
        "restoreEnv", "pick", "restore", "wipe" }

VARIABLES
    live,        \* the bundle in RELEASE_DIR
    env,         \* .env
    envPrev,     \* .env.previous
    prev,        \* .deploy.previous
    old,         \* .deploy.previous.old
    next,        \* .deploy.previous.next
    pc,          \* the next command of the session, "idle" between sessions
    i,           \* position in Order of the next file to install or restore
    by,          \* which script's restore_previous_bundle is running
    target,      \* the release being installed: .deploy-next and .env.next
    envPresent,  \* current_env_was_present
    installing,  \* install_in_progress
    outcome,     \* how the last session ended
    crashes, faults, strays,  \* how many of each so far
    deployed,    \* some run's deploy job has succeeded: its verify job may be
                 \* run, and run again at any later time
    \* history variables
    committed,   \* the last snapshot that became .deploy.previous
    startLive,   \* the bundle when the session started
    startEnv,    \* .env when the session started
    saved,       \* the session has made its backups of both
    clean        \* no restore command has failed since the session, or the
                 \* last rollback of a verify job, began

files   == << live, env, envPrev, prev, old, next >>
session == << i, by, target, envPresent, installing >>
backups == << committed, startLive, startEnv, saved >>
history == << deployed, backups, clean >>
counters == << crashes, faults, strays >>
vars == << files, pc, session, outcome, counters, history >>

TypeOK ==
    /\ live \in Bundle
    /\ env \in Content /\ envPrev \in Content
    /\ prev \in Dir /\ old \in Dir /\ next \in Dir
    /\ pc \in Pc
    /\ i \in 1..(Len(Order) + 1)
    /\ by \in {"none", "deploy.sh", "trap", "check-deploy.sh"}
    /\ target \in Release \cup {Absent}
    /\ envPresent \in BOOLEAN /\ installing \in BOOLEAN
    /\ outcome \in {"none", "deployed", "failed", "rolledBack",
                    "rollbackFailed", "crashed"}
    /\ crashes \in 0..MaxTroubles /\ faults \in 0..MaxTroubles
    /\ strays \in 0..MaxTroubles
    /\ committed \in Dir
    /\ startLive \in Bundle /\ startEnv \in Content
    /\ deployed \in BOOLEAN /\ saved \in BOOLEAN
    /\ clean \in BOOLEAN

\* A host that has never been deployed to, or one that runs the release from
\* before the nginx templates were part of the bundle.
Init ==
    /\ \/ live = NoFiles /\ env = Absent
       \/ live = LegacyBundle /\ env = Legacy
    /\ envPrev = Absent
    /\ prev = NoDir /\ old = NoDir /\ next = NoDir
    /\ pc = "idle" /\ i = 1 /\ by = "none" /\ target = Absent
    /\ envPresent = FALSE /\ installing = FALSE
    /\ outcome = "none"
    /\ crashes = 0 /\ faults = 0 /\ strays = 0
    /\ committed = NoDir
    /\ startLive = live /\ startEnv = env
    /\ deployed = FALSE /\ saved = FALSE
    /\ clean = TRUE

Go(l) == pc' = l

\* Mutant: positions counted from 0.
ZeroBased == 0

FirstFile == 1

-----------------------------------------------------------------------------
(* The session: validated upload, snapshot, swap, install.                 *)

\* cd, docker info, the tests on .env.next and .deploy-next, bash -n and
\* `compose config` have passed; install_in_progress and
\* current_env_was_present are reset.
Start ==
    /\ pc = "idle"
    /\ target' \in Release
    /\ installing' = FALSE /\ envPresent' = FALSE /\ by' = "none" /\ i' = FirstFile
    /\ startLive' = live /\ startEnv' = env /\ saved' = FALSE /\ clean' = TRUE
    /\ outcome' = "none"
    /\ Go("saveEnv")
    /\ UNCHANGED << files, counters, deployed, committed >>

\* Mutant: the snapshot left in .deploy.previous.old is not taken back.
NeverRecovers == FALSE

NeedsRecovery == ~prev.ready /\ old.ready

\* if [[ -f .env ]]: cp -p .env .env.previous
SaveEnv ==
    /\ pc = "saveEnv"
    /\ envPresent' = (env # Absent)
    /\ envPrev' = IF env # Absent THEN env ELSE envPrev
    /\ IF NeedsRecovery THEN Go("rmPrev") ELSE Go("rmNext")
    /\ UNCHANGED << live, env, prev, old, next, i, by, target, installing,
                    outcome, counters, history >>

\* A session that died between the two renames of the swap left the last
\* snapshot in .deploy.previous.old: take it back.
RecoverRmPrev ==
    /\ pc = "rmPrev"
    /\ prev' = NoDir
    /\ Go("mvOld")
    /\ UNCHANGED << live, env, envPrev, old, next, session, outcome,
                    counters, history >>

RecoverMvOld ==
    /\ pc = "mvOld"
    /\ prev' = old /\ old' = NoDir
    /\ Go("rmNext")
    /\ UNCHANGED << live, env, envPrev, next, session, outcome,
                    counters, history >>

\* Mutant: no new snapshot while there is one already.
WorthFirstSnapshot == HasRequired(live) /\ ~prev.ready

WorthSnapshot == HasRequired(live)

\* rm -rf .deploy.previous.next, then recreate its directories.  Without the
\* three required files there is nothing worth a snapshot.
PrepareNext ==
    /\ pc = "rmNext"
    /\ next' = NoDir
    /\ Go(IF WorthSnapshot THEN "snapshot" ELSE "install")
    /\ installing' = ~WorthSnapshot /\ saved' = ~WorthSnapshot
    /\ UNCHANGED << live, env, envPrev, prev, old, i, by, target, envPresent,
                    outcome, counters, deployed, committed, startLive, startEnv,
                    clean >>

\* Mutant: the snapshot is taken of the uploaded bundle.
UploadedBundle == BundleOf(target)

SnapshotSource == live

\* snapshot_file for the six files
SnapshotFiles ==
    /\ pc = "snapshot"
    /\ next' = [ready |-> FALSE, files |-> SnapshotSource]
    /\ Go("ready")
    /\ UNCHANGED << live, env, envPrev, prev, old, session, outcome,
                    counters, history >>

MarkReady ==
    /\ pc = "ready"
    /\ next' = [next EXCEPT !.ready = TRUE]
    /\ Go("rmOld")
    /\ UNCHANGED << live, env, envPrev, prev, old, session, outcome,
                    counters, history >>

SwapRmOld ==
    /\ pc = "rmOld"
    /\ old' = NoDir
    /\ Go("mvPrev")
    /\ UNCHANGED << live, env, envPrev, prev, next, session, outcome,
                    counters, history >>

SwapMvPrev ==
    /\ pc = "mvPrev"
    /\ old' = prev /\ prev' = NoDir
    /\ Go("mvNext")
    /\ UNCHANGED << live, env, envPrev, next, session, outcome,
                    counters, history >>

SwapMvNext ==
    /\ pc = "mvNext"
    /\ prev' = next /\ next' = NoDir
    /\ committed' = next /\ saved' = TRUE
    /\ installing' = TRUE
    /\ Go("install")
    /\ UNCHANGED << live, env, envPrev, old, i, by, target, envPresent,
                    outcome, counters, deployed, startLive, startEnv, clean >>

InstallFileWith(content) ==
    /\ pc = "install"
    /\ live' = [live EXCEPT ![Order[i]] = content]
    /\ i' = i + 1
    /\ Go(IF i = Len(Order) THEN "mvEnv" ELSE "install")
    /\ UNCHANGED << env, envPrev, prev, old, next, by, target, envPresent,
                    installing, outcome, counters, history >>

InstallFile == InstallFileWith(target)

\* mv .env.next .env
InstallEnvWith(content) ==
    /\ pc = "mvEnv"
    /\ env' = content
    /\ Go("deploy")
    /\ UNCHANGED << live, envPrev, prev, old, next, session, outcome,
                    counters, history >>

InstallEnv == InstallEnvWith(target)

DeployScriptSucceeds ==
    /\ pc = "deploy"
    /\ installing' = FALSE
    /\ outcome' = "deployed"
    /\ Go("cleanup")
    /\ UNCHANGED << files, i, by, target, envPresent, counters, history >>

\* rm -rf .deploy.previous.old .deploy.previous.next || true; the job succeeds.
Cleanup ==
    /\ pc = "cleanup"
    /\ old' = NoDir /\ next' = NoDir
    /\ deployed' = TRUE
    /\ Go("idle")
    /\ UNCHANGED << live, env, envPrev, prev, session, outcome, counters,
                    backups, clean >>

\* The script is the standard input of `bash -s`, and deploy.sh runs
\* `docker compose run` with that same standard input: what is left of the
\* script may be consumed, and bash then ends with status 0.
SkipCleanup ==
    /\ pc = "cleanup"
    /\ deployed' = TRUE
    /\ Go("idle")
    /\ UNCHANGED << files, session, outcome, counters, backups, clean >>

-----------------------------------------------------------------------------
(* Putting the previous bundle and .env back.                              *)

\* deploy.sh exits with an error: its own EXIT trap restores first.  After
\* the application update it gives up at once without .env.previous.
DeployScriptFails ==
    /\ pc = "deploy"
    /\ \E updateStarted \in BOOLEAN :
           by' = IF updateStarted /\ envPrev = Absent
                 THEN "trap" ELSE "deploy.sh"
    /\ Go("restoreEnv")
    /\ UNCHANGED << files, i, target, envPresent, installing, outcome,
                    counters, history >>

\* The verify job of an older run has rolled back over a session that ended
\* before its backups were complete: it puts the last complete ones back,
\* whatever release they are of, with .env.previous, which may be of another.
\* The scripts cannot tell.
Stray == by = "check-deploy.sh" /\ ~saved

MoreTroubles == crashes + faults + strays < MaxTroubles

\* check-deploy.sh in a verify job fails and rolls back.  It may be the verify
\* job of the run that has just deployed, or that of any run that ever has,
\* run again after sessions that deployed, failed or were killed.  Without
\* .env.previous or .previous-image it does nothing; whether there is an image
\* to go back to is a question of Rollout, here there may always be one.
VerifyFails ==
    /\ pc = "idle"
    /\ deployed
    /\ live[Check] # Absent
    /\ envPrev # Absent
    /\ by' = "check-deploy.sh" /\ clean' = TRUE
    /\ IF saved \/ Stray THEN UNCHANGED strays
                         ELSE MoreTroubles /\ strays' = strays + 1
    /\ Go("restoreEnv")
    /\ UNCHANGED << files, i, target, envPresent, installing, outcome, crashes,
                    faults, deployed, backups >>

\* Mutant: the trap leaves the new .env on a host that had none.
RestoredEnvKept ==
    CASE by = "trap"            -> IF envPresent THEN envPrev ELSE env
      [] by = "deploy.sh"       -> IF envPrev # Absent THEN envPrev ELSE env
      [] by = "check-deploy.sh" -> envPrev

RestoredEnv ==
    CASE by = "trap"            -> IF envPresent THEN envPrev ELSE Absent
      [] by = "deploy.sh"       -> IF envPrev # Absent THEN envPrev ELSE env
      [] by = "check-deploy.sh" -> envPrev

RestoreEnv ==
    /\ pc = "restoreEnv"
    /\ env' = RestoredEnv
    /\ Go("pick")
    /\ UNCHANGED << live, envPrev, prev, old, next, session, outcome,
                    counters, history >>

\* What a restore that cannot, or did not, restore the bundle leads to.
NotRestored ==
    \/ by = "trap" /\ Go("wipe") /\ UNCHANGED << by, outcome >>
    \/ by = "deploy.sh" /\ Go("restoreEnv") /\ by' = "trap" /\ UNCHANGED outcome
    \/ /\ by = "check-deploy.sh"
       /\ Go("idle") /\ outcome' = "rollbackFailed" /\ UNCHANGED by

Restored ==
    \/ by = "trap" /\ Go("idle") /\ outcome' = "failed" /\ UNCHANGED by
    \/ by = "deploy.sh" /\ Go("restoreEnv") /\ by' = "trap" /\ UNCHANGED outcome
    \/ /\ by = "check-deploy.sh"
       /\ Go("idle") /\ outcome' = "rolledBack" /\ UNCHANGED by

\* The guards of restore_previous_bundle.  Only the workflow's copy of the
\* function looks at .deploy.previous.old.
PickSnapshot ==
    /\ pc = "pick"
    /\ LET takeOld == by = "trap" /\ ~prev.ready /\ old.ready
           dir     == IF takeOld THEN old ELSE prev
       IN  /\ prev' = dir
           /\ old' = IF takeOld THEN NoDir ELSE old
           /\ IF dir.ready /\ dir.files[Compose] # Absent
              THEN Go("restore") /\ i' = FirstFile /\ UNCHANGED << by, outcome >>
              ELSE NotRestored /\ UNCHANGED i
    /\ UNCHANGED << live, env, envPrev, next, target, envPresent, installing,
                    counters, history >>

NextFile(end) ==
    \/ i < Len(Order) /\ Go("restore") /\ i' = i + 1 /\ UNCHANGED << by, outcome >>
    \/ i = Len(Order) /\ end /\ UNCHANGED i

\* Mutant: a file that the snapshot does not have is left in place.
RestoredIfPresent(f) ==
    IF prev.files[f] = Absent THEN live[f] ELSE prev.files[f]

\* install the file if the snapshot has it, rm -f it otherwise
RestoredContent(f) == prev.files[f]

RestoreFile ==
    /\ pc = "restore"
    /\ live' = [live EXCEPT ![Order[i]] = RestoredContent(Order[i])]
    /\ NextFile(Restored)
    /\ UNCHANGED << env, envPrev, prev, old, next, target, envPresent,
                    installing, counters, history >>

\* restore_interrupted_install without a snapshot removes the live bundle
WipeLive ==
    /\ pc = "wipe"
    /\ live' = NoFiles
    /\ Go("idle")
    /\ outcome' = "failed"
    /\ UNCHANGED << env, envPrev, prev, old, next, session, counters,
                    history >>

-----------------------------------------------------------------------------
(* Commands cut short.                                                     *)

\* install: the destination is removed, created anew and filled
Torn(c) == {c, Absent, Partial}
TornFile(b, f) == { [b EXCEPT ![f] = c] : c \in Torn(b[f]) }
\* rm: any of the entries may be gone
Remainders(b)  == { [f \in File |-> IF f \in S THEN Absent ELSE b[f]]
                      : S \in Removed }
Eroded(d) == { [ready |-> r /\ d.ready, files |-> b]
                 : r \in BOOLEAN, b \in Remainders(d.files) }

\* What the command at pc may leave behind when it does not finish.
PartialEffect ==
    \/ UNCHANGED files
    \/ /\ pc = "saveEnv" /\ env # Absent
       /\ envPrev' \in {Partial, env}
       /\ UNCHANGED << live, env, prev, old, next >>
    \/ /\ pc = "rmPrev"
       /\ prev' \in Eroded(prev)
       /\ UNCHANGED << live, env, envPrev, old, next >>
    \/ /\ \/ pc = "rmNext"   /\ next' \in Eroded(next)
          \/ pc = "snapshot" /\ next' \in Eroded([ready |-> FALSE, files |-> live])
          \/ pc = "ready"    /\ next' = [next EXCEPT !.ready = TRUE]
       /\ UNCHANGED << live, env, envPrev, prev, old >>
    \/ /\ pc \in {"rmOld", "cleanup"}
       /\ old' \in Eroded(old)
       /\ UNCHANGED << live, env, envPrev, prev, next >>
    \/ /\ \/ pc \in {"install", "restore"} /\ live' \in TornFile(live, Order[i])
          \/ pc = "wipe" /\ live' \in Remainders(live)
       /\ UNCHANGED << env, envPrev, prev, old, next >>
    \/ /\ \/ pc = "mvEnv"      /\ env' = target
          \/ pc = "restoreEnv" /\ env' \in Torn(env)
       /\ UNCHANGED << live, envPrev, prev, old, next >>

\* `set -e`: the script exits, and its EXIT trap restores what it replaced if
\* install_in_progress is 1.
FailAfter(Effect) ==
    /\ pc \in {"saveEnv", "rmPrev", "mvOld", "rmNext", "snapshot", "ready",
               "rmOld", "mvPrev", "mvNext", "install", "mvEnv"}
    /\ Effect
    /\ IF installing
       THEN Go("restoreEnv") /\ by' = "trap" /\ UNCHANGED outcome
       ELSE Go("idle") /\ UNCHANGED by /\ outcome' = "failed"
    /\ UNCHANGED << i, target, envPresent, installing, counters, history >>

Fail == FailAfter(PartialEffect)

\* `set +e`, or a function called as a condition: a command of the restore
\* fails and the next one runs all the same.  The function's status is that
\* of its last command.
RestoreFault ==
    /\ MoreTroubles
    /\ faults' = faults + 1
    /\ clean' = FALSE
    /\ pc \in {"restoreEnv", "restore"}
    /\ PartialEffect
    /\ IF pc = "restoreEnv"
       THEN Go("pick") /\ UNCHANGED << i, by, outcome >>
       ELSE NextFile(NotRestored)
    /\ UNCHANGED << target, envPresent, installing, crashes, strays, deployed,
                    backups >>

\* SIGKILL or a reboot: no trap runs.
CrashAfter(Effect) ==
    /\ MoreTroubles
    /\ crashes' = crashes + 1
    /\ pc # "idle"
    /\ Effect
    /\ Go("idle")
    /\ outcome' = "crashed"
    /\ UNCHANGED << session, faults, strays, history >>

Crash == CrashAfter(PartialEffect)

Next ==
    \/ Start \/ SaveEnv \/ RecoverRmPrev \/ RecoverMvOld \/ PrepareNext
    \/ SnapshotFiles \/ MarkReady \/ SwapRmOld \/ SwapMvPrev \/ SwapMvNext
    \/ InstallFile \/ InstallEnv \/ DeployScriptSucceeds
    \/ Cleanup \/ SkipCleanup
    \/ DeployScriptFails \/ VerifyFails
    \/ RestoreEnv \/ PickSnapshot \/ RestoreFile \/ WipeLive
    \/ Fail \/ RestoreFault \/ Crash

Spec == Init /\ [][Next]_vars

-----------------------------------------------------------------------------
(* Properties.                                                             *)

\* The snapshot a restore would use, .deploy.previous.old standing in for a
\* .deploy.previous that is not ready.
Selected == IF prev.ready THEN prev ELSE IF old.ready THEN old ELSE NoDir

\* Whatever command is cut short, and wherever the host dies, the snapshot
\* that the next restore would use is exactly the last one that was completed:
\* `rm -rf old; mv previous old; mv next previous` never loses it, and a
\* half-copied or half-deleted directory is never taken for it.
SnapshotNeverLost == Selected = committed

\* As soon as a session has changed the live bundle, or .env, what it found
\* can be put back: the snapshot holds the bundle and .env.previous the
\* environment.  So it is after crashes and failed restores, and whatever
\* verify jobs are run again, unless they stray.  (A bundle without the
\* required files is not kept.)
ReplacedReleaseRecoverable ==
    ~Stray =>
        /\ live # startLive /\ HasRequired(startLive)
              => Selected = [ready |-> TRUE, files |-> startLive]
        /\ env # startEnv /\ startEnv # Absent => envPrev = startEnv

\* A session that fails leaves the bundle and .env it found, provided no
\* restore command itself failed; a host without a complete bundle gets its
\* last snapshot, or nothing.  A verify job that rolls back brings them back
\* too, also when it is run again after a rollback in which a command failed,
\* after a crash in the middle of the installation, or over a later session
\* that has made its backups (if it has not, the job is stray).
SessionUndone ==
    pc = "idle" /\ clean /\ ~Stray =>
        /\ outcome = "failed" =>
              /\ env = startEnv
              /\ \/ live = startLive
                 \/ /\ ~HasRequired(startLive)
                    /\ live \in {committed.files, NoFiles}
        /\ outcome = "rolledBack" /\ startEnv # Absent =>
              /\ env = startEnv
              /\ HasRequired(startLive) => live = startLive

\* Between sessions .env and all six files belong to one release, as long as
\* the host has not died in a session, no restore command has failed, and no
\* verify job has strayed.
OneRelease ==
    pc = "idle" /\ crashes = 0 /\ faults = 0 /\ strays = 0 =>
        \/ live = NoFiles /\ env = Absent
        \/ live = LegacyBundle /\ env = Legacy
        \/ \E r \in Release : live = BundleOf(r) /\ env = r

\* All files that a release has, and none of another.
OfOneRelease(b) == b = LegacyBundle \/ \E r \in Release : b = BundleOf(r)

\* Whole files of two releases.
Mixes(b) ==
    /\ \A f \in File : b[f] # Partial
    /\ \E f, g \in File :
           b[f] # b[g] /\ {b[f], b[g]} \subseteq Release \cup {Legacy}

\* docs/theory.md:232 of the snapshot: "complete", and able to recover even
\* when the installation was interrupted.  A crash in the middle of the
\* install leaves a mixture of two releases, and the next session replaces the
\* complete snapshot of the release before by one of the mixture.
SnapshotComplete ==
    ~ /\ old.ready /\ OfOneRelease(old.files)
      /\ prev.ready /\ Mixes(prev.files)

\* README.md:143: the previous bundle and .env come back together.  With
\* `set -e` off in the rollback, a restore command that fails does not stop
\* it, and the rollback still reports success.
RollbackIsWhole ==
    pc = "idle" /\ outcome = "rolledBack" /\ crashes = 0 =>
        \/ live = LegacyBundle /\ env = Legacy
        \/ \E r \in Release : live = BundleOf(r) /\ env = r

\* The inductive invariant.  Behind the first two: up to the last rename of
\* the swap a session has changed nothing that is live; from there on the
\* snapshot is the bundle it found.
BeforeSwap  == {"rmNext", "snapshot", "ready", "rmOld", "mvPrev"}
Preparing   == {"saveEnv", "rmPrev", "mvOld", "mvNext"} \cup BeforeSwap
Restoring   == {"restoreEnv", "pick", "restore"}
Overwriting == {"install", "mvEnv", "deploy", "cleanup", "wipe"} \cup Restoring

SnapshotInv ==
    /\ Selected = committed
    /\ pc \in {"rmPrev", "mvOld"} => ~prev.ready /\ old.ready
    /\ pc \in BeforeSwap \cup {"install", "mvEnv", "deploy", "cleanup"}
          => prev.ready \/ ~old.ready
    /\ pc = "mvNext" => ~prev.ready
    /\ pc \in {"snapshot", "ready", "rmOld", "mvPrev", "mvNext"}
          => HasRequired(live)
    /\ pc \in {"ready", "rmOld", "mvPrev", "mvNext"} => next.files = live
    /\ pc \in {"rmOld", "mvPrev", "mvNext"} => next.ready

ReplacedInv ==
    /\ pc \in Preparing => ~saved /\ ~installing
    /\ pc \in {"install", "mvEnv", "deploy", "cleanup", "wipe"} => saved
    /\ pc \in Restoring /\ by # "check-deploy.sh" => saved
    /\ pc \in {"install", "mvEnv"} => env = startEnv
    /\ ~saved /\ by # "check-deploy.sh" => live = startLive /\ env = startEnv
    /\ saved /\ HasRequired(startLive)
          => committed = [ready |-> TRUE, files |-> startLive]
    /\ (saved \/ pc \in Preparing \ {"saveEnv"}) /\ startEnv # Absent
          => envPrev = startEnv

ControlInv ==
    /\ pc \in Preparing \cup {"install", "restore"} => i \in 1..Len(Order)
    /\ pc \in Restoring => by # "none"
    /\ pc \in Preparing => outcome = "none"

\* Behind SessionUndone: how much of the new release is there at each command
\* of the installation, and how much of the old one at each of the restore.
Installed(n) == \A k \in 1..n : live[Order[k]] = target

InstallInv ==
    /\ pc \notin {"idle", "saveEnv"} /\ by # "check-deploy.sh"
          => envPresent = (startEnv # Absent)
    /\ (pc # "idle" /\ by # "check-deploy.sh") \/ outcome = "deployed"
          => target \in Release
    /\ pc \in Preparing => i = 1
    /\ pc \in {"install", "mvEnv"} => installing
    /\ pc = "install" => Installed(i - 1)
    /\ pc \in {"mvEnv", "deploy", "cleanup"} => Installed(Len(Order))
    /\ pc \in {"deploy", "cleanup"} => env = target
    /\ pc = "cleanup" => outcome = "deployed"
    /\ pc \in Preparing \cup {"install", "mvEnv", "deploy", "cleanup"}
          => by # "check-deploy.sh"
    /\ pc = "idle" /\ outcome = "deployed" => Installed(Len(Order)) /\ env = target

RestoreInv ==
    /\ pc = "restore" =>
          /\ prev = committed
          /\ clean => \A k \in 1..(i - 1) : live[Order[k]] = prev.files[Order[k]]
    /\ clean /\ pc \in {"pick", "restore", "wipe"} =>
          \/ by = "trap" /\ env = startEnv
          \/ by = "deploy.sh" /\ pc # "wipe"
          \/ /\ by = "check-deploy.sh" /\ pc # "wipe"
             /\ saved /\ startEnv # Absent => env = startEnv
    /\ clean /\ pc = "wipe" => ~HasRequired(startLive)
    /\ SessionUndone

\* Behind OneRelease: without a crash and an unnoticed failure a session also
\* starts from one release, and a rollback finds the snapshot it needs.
Whole(l, e) ==
    \/ l = NoFiles /\ e = Absent
    \/ l = LegacyBundle /\ e = Legacy
    \/ \E r \in Release : l = BundleOf(r) /\ e = r

RollsBack == by = "check-deploy.sh" /\ pc \in Restoring

WholeInv ==
    /\ saved => prev.ready \/ ~old.ready
    /\ pc = "idle" /\ outcome = "none" =>
          live = startLive /\ env = startEnv /\ ~deployed
    /\ Stray => strays > 0
    /\ crashes = 0 /\ faults = 0 /\ strays = 0 =>
          /\ clean /\ outcome \notin {"crashed", "rollbackFailed"}
          /\ Whole(startLive, startEnv)
          /\ startLive = NoFiles => committed = NoDir /\ envPrev = Absent
          /\ RollsBack \/ outcome = "rolledBack" => startEnv # Absent

IInv ==
    /\ TypeOK /\ ControlInv /\ SnapshotInv /\ ReplacedInv
    /\ InstallInv /\ RestoreInv /\ WholeInv

-----------------------------------------------------------------------------
(* The promise: a one-place store, filled in one step, that always holds   *)
(* the bundle a session is overwriting, unless a verify job has strayed.   *)

Store == INSTANCE BundleStore
           WITH Value <- Bundle, Empty <- NoDir, Complete <- HasRequired,
                base <- startLive, slot <- Selected, givenUp <- Stray

\* BundleSwap implements that store: what is put over the live bundle without
\* the slot holding it is a rollback that began before anything else of the
\* session had been replaced.
StoreSpec == Store!Spec

=============================================================================
