-------------------------------- MODULE Publish --------------------------------
(***************************************************************************)
(* The publish job of deploy.yml: a push of a deployment tag starts a run  *)
(* of the workflow, which checks the tag against the remote repository,    *)
(* takes the image of the commit from the registry or builds it, and puts  *)
(* it under the tag of the commit and under the alias of the release.      *)
(* Between the push and the check the tag may be moved, deleted or created *)
(* again; others put images under the tags of commits; and every command   *)
(* may fail, before or after it has had its effect.                        *)
(***************************************************************************)
CONSTANTS
    Commit,
    Tag,        \* names deploy-https-v<major>.<minor>.<patch>
    Run,        \* bound: runs of the workflow
    BuildId,    \* bound: builds
    Foreign,    \* in place of a build: the image was not built by the workflow
    None

ASSUME NamesAssumption ==
    /\ None \notin Commit \cup Tag
    /\ Foreign \notin BuildId

VARIABLES
    names,       \* external, git: the commit each tag names
    annotated,   \* external, git: the annotated tags
    branch,      \* external, git: the commits contained in 10-answer
    phase,       \* of each run
    ofTag,       \* github.ref_name
    ofCommit,    \* GITHUB_SHA, what is checked out
    created,     \* runs whose event created the tag
    releaseSha,  \* output sha of the validation
    local,       \* image on the runner
    registry,    \* external, Docker Hub: image under the tag of each commit
    alias,       \* external, Docker Hub: image under each release tag
    built,       \* history: images built by the workflow
    under        \* history: images the tag of a commit has stood for

git  == << names, annotated, branch >>
runs == << phase, ofTag, ofCommit, created, releaseSha, local >>
hub  == << registry, alias, under >>
vars == << git, runs, hub, built >>

Image == [id : BuildId \cup {Foreign}, revision : Commit, source : Commit]
Own(i) == i.id # Foreign
NoImage == [id |-> Foreign, revision |-> None, source |-> None]

Active == {"validate", "pull", "inspect", "build", "pushSha", "pushRelease"}

TypeOK ==
    /\ names \in [Tag -> Commit \cup {None}]
    /\ annotated \subseteq Tag
    /\ branch \subseteq Commit
    /\ phase \in [Run -> Active \cup {"unused", "queued", "failed", "published"}]
    /\ ofTag \in [Run -> Tag \cup {None}]
    /\ ofCommit \in [Run -> Commit \cup {None}]
    /\ created \subseteq Run
    /\ releaseSha \in [Run -> Commit \cup {None}]
    /\ local \in [Run -> Image \cup {NoImage}]
    /\ registry \in [Commit -> Image \cup {NoImage}]
    /\ alias \in [Tag -> Image \cup {NoImage}]
    /\ built \subseteq Image
    /\ under \in [Commit -> SUBSET Image]

Init ==
    /\ names = [t \in Tag |-> None] /\ annotated = {} /\ branch = {}
    /\ phase = [r \in Run |-> "unused"]
    /\ ofTag = [r \in Run |-> None]
    /\ ofCommit = [r \in Run |-> None]
    /\ created = {}
    /\ releaseSha = [r \in Run |-> None]
    /\ local = [r \in Run |-> NoImage]
    /\ registry = [c \in Commit |-> NoImage]
    /\ alias = [t \in Tag |-> NoImage]
    /\ built = {}
    /\ under = [c \in Commit |-> {}]

-----------------------------------------------------------------------------
(* Around the workflow                                                     *)

\* concurrency, cancel-in-progress: false: a new run waits for the one in
\* progress; one that waits already is cancelled.
Enqueue(r) ==
    phase' = [s \in Run |->
                IF s = r THEN "queued" ELSE IF phase[s] = "queued" THEN "failed" ELSE phase[s]]

\* The push of a tag: new, moved (a forced update), or created again after a
\* delete; annotated or not.
PushTag(r, t, c) ==
    /\ phase[r] = "unused"
    /\ names[t] # c
    /\ names' = [names EXCEPT ![t] = c]
    /\ annotated' \in {annotated \cup {t}, annotated \ {t}}
    /\ Enqueue(r)
    /\ ofTag' = [ofTag EXCEPT ![r] = t]
    /\ ofCommit' = [ofCommit EXCEPT ![r] = c]
    /\ created' = IF names[t] = None THEN created \cup {r} ELSE created
    /\ UNCHANGED << branch, releaseSha, local, hub, built >>

DeleteTag(t) ==
    /\ names[t] # None
    /\ names' = [names EXCEPT ![t] = None]
    /\ UNCHANGED << annotated, branch, runs, hub, built >>

Merge(c) ==
    /\ branch' = branch \cup {c}
    /\ UNCHANGED << names, annotated, runs, hub, built >>

\* Another holder of the credentials of the registry pushes an image of v
\* under the tag of a commit, which is where the workflow looks for one.  It
\* never reads the alias of a release: what others put there is not modelled.
ForeignPush(c, v) ==
    LET i == [id |-> Foreign, revision |-> v, source |-> v] IN
    /\ registry' = [registry EXCEPT ![c] = i]
    /\ under' = [under EXCEPT ![c] = @ \cup {i}]
    /\ UNCHANGED << git, runs, alias, built >>

\* "Re-run jobs": the same event once more, on a new runner.
Rerun(r) ==
    /\ phase[r] \in {"failed", "published"}
    /\ Enqueue(r)
    /\ local' = [local EXCEPT ![r] = NoImage]
    /\ UNCHANGED << git, ofTag, ofCommit, created, releaseSha, hub, built >>

-----------------------------------------------------------------------------
(* The job                                                                 *)

Goto(r, l) == phase' = [phase EXCEPT ![r] = l]

Start(r) ==
    /\ phase[r] = "queued" /\ \A s \in Run : phase[s] \notin Active
    /\ Goto(r, "validate")
    /\ UNCHANGED << git, ofTag, ofCommit, created, releaseSha, local, hub, built >>

\* Mutant: whatever the remote tag names now is released.
AnyRevision(r) == TRUE

SameRevision(r) == names[ofTag[r]] = ofCommit[r]

\* Validate deployment tag.  releaseSha is what ls-remote says the tag names.
Validate(r) ==
    /\ phase[r] = "validate"
    /\ r \in created
    /\ names[ofTag[r]] # None /\ ofTag[r] \in annotated
    /\ SameRevision(r)
    /\ names[ofTag[r]] \in branch
    /\ releaseSha' = [releaseSha EXCEPT ![r] = names[ofTag[r]]]
    /\ Goto(r, "pull")
    /\ UNCHANGED << git, ofTag, ofCommit, created, local, hub, built >>

PullFound(r) ==
    /\ phase[r] = "pull"
    /\ registry[releaseSha[r]] # NoImage
    /\ local' = [local EXCEPT ![r] = registry[releaseSha[r]]]
    /\ Goto(r, "inspect")
    /\ UNCHANGED << git, ofTag, ofCommit, created, releaseSha, hub, built >>

\* `if docker pull`: no image, or no answer, is all the same.
PullFails(r) ==
    /\ phase[r] = "pull"
    /\ Goto(r, "build")
    /\ UNCHANGED << git, ofTag, ofCommit, created, releaseSha, local, hub, built >>

\* Mutant: the label of an image that exists is not looked at.
AnyLabel(r) == TRUE

LabelMatches(r) == local[r].revision = releaseSha[r]

Inspect(r) ==
    /\ phase[r] = "inspect" /\ LabelMatches(r)
    /\ Goto(r, "pushRelease")
    /\ UNCHANGED << git, ofTag, ofCommit, created, releaseSha, local, hub, built >>

\* Mutant: no build argument; the label has its default.
DefaultLabel(r) == None

Label(r) == releaseSha[r]

\* Mutant: the new image is pushed under the release tag only.
AliasOnly == "pushRelease"

AfterBuild == "pushSha"

\* docker build, of the sources that are checked out
Build(r, b) ==
    /\ phase[r] = "build" /\ \A i \in built : i.id # b
    /\ local' = [local EXCEPT ![r] =
                    [id |-> b, revision |-> Label(r), source |-> ofCommit[r]]]
    /\ built' = built \cup {local'[r]}
    /\ Goto(r, AfterBuild)
    /\ UNCHANGED << git, ofTag, ofCommit, created, releaseSha, hub >>

\* docker push: a push that is reported as failed may have been done.
PushSha(r) ==
    /\ phase[r] = "pushSha"
    /\ registry' = [registry EXCEPT ![releaseSha[r]] = local[r]]
    /\ under' = [under EXCEPT ![releaseSha[r]] = @ \cup {local[r]}]
    /\ Goto(r, "pushRelease") \/ Goto(r, "failed")
    /\ UNCHANGED << git, ofTag, ofCommit, created, releaseSha, local, alias, built >>

PushRelease(r) ==
    /\ phase[r] = "pushRelease"
    /\ alias' = [alias EXCEPT ![ofTag[r]] = local[r]]
    /\ Goto(r, "published") \/ Goto(r, "failed")
    /\ UNCHANGED << git, ofTag, ofCommit, created, releaseSha, local, registry, under, built >>

\* A check does not hold, a test or a command fails, the job is cancelled or
\* has taken 30 minutes.
Fails(r) ==
    /\ phase[r] \in Active
    /\ Goto(r, "failed")
    /\ UNCHANGED << git, ofTag, ofCommit, created, releaseSha, local, hub, built >>

Job(r) ==
    \/ Start(r) \/ Validate(r) \/ PullFound(r) \/ PullFails(r) \/ Inspect(r)
    \/ \E b \in BuildId : Build(r, b)
    \/ PushSha(r) \/ PushRelease(r) \/ Fails(r)

Next ==
    \/ \E r \in Run :
          Job(r) \/ Rerun(r) \/ \E t \in Tag, c \in Commit : PushTag(r, t, c)
    \/ \E t \in Tag : DeleteTag(t)
    \/ \E c \in Commit : Merge(c) \/ \E v \in Commit : ForeignPush(c, v)

Spec == Init /\ [][Next]_vars

-----------------------------------------------------------------------------
(* Under the tag of a commit the workflow puts only what it has built from *)
(* the sources of that commit, and only commits of 10-answer, however tags *)
(* are moved while a run waits, fails or is run again.                     *)
SourceIsRevision ==
    \A c \in Commit : \A i \in under[c] :
        Own(i) => i.revision = c /\ i.source = c /\ c \in branch

(* What the workflow puts under the alias of a release is labelled with    *)
(* the commit that one of the pushes of the tag named, whatever others     *)
(* have put under the tag of the commit.                                   *)
AliasIsOfRelease ==
    \A t \in Tag : alias[t] # NoImage =>
        \E r \in Run : ofTag[r] = t /\ alias[t].revision = ofCommit[r]

(* What the workflow puts under an alias could be deployed: it has been    *)
(* the image of its commit, even when a run ended between the two pushes.  *)
AliasWasDeployable ==
    \A t \in Tag : alias[t] # NoImage => alias[t] \in under[alias[t].revision]

(* theory.md: the tag of the commit is the immutable identifier that is    *)
(* deployed and verified.  The workflow never puts a second image of its   *)
(* own under it.                                                           *)
ShaTagImmutable ==
    \A c \in Commit : \A i, j \in under[c] : Own(i) /\ Own(j) => i = j

-----------------------------------------------------------------------------
\* What a run knows once its tag is validated, and has in hand.
RunInv ==
    /\ \A r \in Run : phase[r] # "unused" => ofTag[r] \in Tag /\ ofCommit[r] \in Commit
    /\ \A r \in Run : phase[r] = "unused" => ofTag[r] = None
    /\ \A r \in Run : phase[r] \in Active \ {"validate"} =>
          releaseSha[r] = ofCommit[r] /\ releaseSha[r] \in branch
    /\ \A r \in Run : phase[r] \in {"inspect", "pushSha", "pushRelease"} => local[r] \in Image
    /\ \A r \in Run : phase[r] = "pushSha" =>
          local[r].revision = releaseSha[r] /\ local[r].source = releaseSha[r]
    /\ \A r \in Run : phase[r] = "inspect" => local[r] \in under[releaseSha[r]]
    /\ \A r \in Run : phase[r] = "pushRelease" =>
          local[r].revision = releaseSha[r] /\ local[r] \in under[releaseSha[r]]

RegistryInv ==
    \A c \in Commit : registry[c] # NoImage => registry[c] \in under[c]

IInv ==
    /\ TypeOK /\ RunInv /\ RegistryInv
    /\ SourceIsRevision /\ AliasIsOfRelease /\ AliasWasDeployable
=============================================================================
