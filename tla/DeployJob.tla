------------------------------ MODULE DeployJob ------------------------------
(***************************************************************************)
(* The deploy job of .github/workflows/deploy.yml from the upload of the   *)
(* bundle to the installation.  What BundleSwap takes as given, the new    *)
(* release in .deploy-next and .env.next, is here uploaded file by file    *)
(* over whatever earlier jobs have left there: nobody empties these files, *)
(* and a job can end, be cancelled or lose its connection at any of them.  *)
(*                                                                         *)
(* The concurrency group of the workflow (deploy.yml 11-13) keeps the jobs *)
(* of two runs apart.  A job that loses its host in the middle of the      *)
(* session (Crash) is over.                                                *)
(***************************************************************************)
EXTENDS BundleSwap

VARIABLES
    staged,    \* the files under .deploy-next
    envNext,   \* .env.next; Partial if empty or cut short
    job,       \* the next step of the deploy job, "none" before and in a session
    n,         \* position in Order of the next file to upload
    release,   \* the release of the job, while it runs
    stops      \* jobs that have ended before their session

staging == << staged, envNext >>
run     == << job, n, release, stops >>
jobVars == << vars, staging, run >>

\* MaxTroubles bounds the jobs cut short together with the other troubles.
MoreTrouble == crashes + faults + strays + stops < MaxTroubles

Step == {"none", "upload", "sendEnv", "install"}

JobTypeOK ==
    /\ TypeOK
    /\ staged \in Bundle /\ envNext \in Content
    /\ job \in Step
    /\ n \in 1..(Len(Order) + 1)
    /\ release \in Release \cup {Absent}
    /\ stops \in 0..MaxTroubles
    /\ job # "none" => pc = "idle"

JobInit ==
    /\ Init
    /\ staged = NoFiles /\ envNext = Absent
    /\ job = "none" /\ n = 1 /\ release = Absent /\ stops = 0

-----------------------------------------------------------------------------
(* The steps before the session.                                           *)

\* A run of the workflow reaches the upload: APP_IMAGE is published, the
\* settings are valid, the name resolves to the host, and SSH answers.
JobStarts ==
    /\ pc = "idle" /\ job = "none"
    /\ release' \in Release
    /\ job' = "upload"
    /\ UNCHANGED << vars, staging, n, stops >>

\* Mutant: a file that is already staged is not uploaded again.
UploadMissing(f) == IF staged[f] = Absent THEN release ELSE staged[f]

Uploaded(f) == release

\* scp, one file after the other
UploadFile ==
    /\ job = "upload"
    /\ staged' = [staged EXCEPT ![Order[n]] = Uploaded(Order[n])]
    /\ n' = n + 1
    /\ job' = IF n = Len(Order) THEN "sendEnv" ELSE "upload"
    /\ UNCHANGED << vars, envNext, release, stops >>

\* What comes between the uploads, ensure-compose.sh and the access to docker,
\* is outside RELEASE_DIR.  .env.next is emptied first (install -m 600
\* /dev/null), so that its content is never readable by others, then filled.
SendEnv ==
    /\ job = "sendEnv"
    /\ envNext' = release
    /\ job' = "install"
    /\ UNCHANGED << vars, staged, n, release, stops >>

\* A command fails, the runner is lost, or the job is cancelled: the file under
\* way is what it was, empty or cut short, or already there, and no later step
\* runs.
JobFails ==
    /\ job # "none" /\ MoreTrouble
    /\ job' = "none" /\ n' = 1 /\ release' = Absent
    /\ stops' = stops + 1
    /\ \/ UNCHANGED staging
       \/ /\ job = "upload"
          /\ \E c \in {Partial, release} :
                 staged' = [staged EXCEPT ![Order[n]] = c]
          /\ UNCHANGED envNext
       \/ /\ job = "sendEnv"
          /\ envNext' \in {Partial, release}
          /\ UNCHANGED staged
    /\ UNCHANGED vars

-----------------------------------------------------------------------------
(* The session works with what is staged.                                  *)

\* test -f on every file; the three settings of this job are the first lines
\* of .env.next, so a file that has been cut short may have them too.
Checked ==
    /\ \A f \in File : staged[f] # Absent
    /\ envNext \in {release, Partial}

JobInstalls ==
    /\ job = "install"
    /\ Checked
    /\ Start /\ target' = release
    /\ job' = "none" /\ n' = 1 /\ release' = Absent
    /\ UNCHANGED << staging, stops >>

InstallStagedFile ==
    /\ InstallFileWith(staged[Order[i]])
    /\ UNCHANGED << staging, run >>

\* mv .env.next .env
InstallStagedEnv ==
    /\ InstallEnvWith(envNext)
    /\ envNext' = Absent
    /\ UNCHANGED << staged, run >>

\* The rename has been done or has not; the other commands do not touch what
\* is staged.
StagedEffect ==
    \/ pc # "mvEnv" /\ PartialEffect /\ UNCHANGED envNext
    \/ pc = "mvEnv" /\ UNCHANGED << files, envNext >>
    \/ /\ pc = "mvEnv" /\ env' = envNext /\ envNext' = Absent
       /\ UNCHANGED << live, envPrev, prev, old, next >>

SessionFails ==
    /\ FailAfter(StagedEffect) \/ (MoreTrouble /\ CrashAfter(StagedEffect))
    /\ UNCHANGED << staged, run >>

\* The verify job is in the same concurrency group, and so is one that is run
\* again.
Verifies ==
    /\ job = "none" /\ VerifyFails
    /\ saved \/ Stray \/ MoreTrouble
    /\ UNCHANGED << staging, run >>

\* The rest of the session, as in BundleSwap
SessionGoesOn ==
    /\ \/ SaveEnv \/ RecoverRmPrev \/ RecoverMvOld \/ PrepareNext
       \/ SnapshotFiles \/ MarkReady \/ SwapRmOld \/ SwapMvPrev \/ SwapMvNext
       \/ DeployScriptSucceeds \/ Cleanup \/ SkipCleanup \/ DeployScriptFails
       \/ RestoreEnv \/ PickSnapshot \/ RestoreFile \/ WipeLive
       \/ (MoreTrouble /\ RestoreFault)
    /\ UNCHANGED << staging, run >>

JobNext ==
    \/ JobStarts \/ UploadFile \/ SendEnv \/ JobFails
    \/ JobInstalls \/ InstallStagedFile \/ InstallStagedEnv
    \/ SessionFails \/ Verifies \/ SessionGoesOn

JobSpec == JobInit /\ [][JobNext]_jobVars

-----------------------------------------------------------------------------
(* Properties.                                                             *)

\* Whatever earlier jobs have left in .deploy-next and .env.next, in whatever
\* file they were cut short: a session installs, file by file, the release its
\* own job has uploaded.  The job implements BundleSwap, whose sessions know
\* one target only.
InstallsUploaded == Spec

\* The inductive invariant: before the session the files up to the one under
\* way are of the job's release, in the session all of them are of its target.
StagedInv ==
    /\ job = "none" => n = 1
    /\ job = "upload" =>
          /\ n \in 1..Len(Order)
          /\ \A k \in 1..(n - 1) : staged[Order[k]] = release
    /\ job \in {"sendEnv", "install"} => staged = BundleOf(release)
    /\ job = "install" => envNext = release
    /\ job # "none" => release \in Release
    /\ pc \in Preparing \cup {"install", "mvEnv"} =>
          staged = BundleOf(target) /\ envNext = target

JobInv == IInv /\ JobTypeOK /\ StagedInv
=============================================================================
