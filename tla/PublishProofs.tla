----------------------------- MODULE PublishProofs -----------------------------
(* Proofs about Publish, for any numbers of commits, tags, runs and builds. *)
EXTENDS Publish, TLAPS

LEMMA InitIInv == Init => IInv
  BY NamesAssumption, SMT DEF Init, IInv, TypeOK, RunInv, RegistryInv, Active, Image,
     NoImage, SourceIsRevision, AliasIsOfRelease, AliasWasDeployable

\* The label of a build is a commit because the tag has been validated.
LEMMA TypeStep == TypeOK /\ RunInv /\ [Next]_vars => TypeOK'
<1> SUFFICES ASSUME TypeOK, RunInv, [Next]_vars PROVE TypeOK'
  OBVIOUS
<1> USE NamesAssumption DEF TypeOK, Image, NoImage, Active, RunInv,
        git, runs, hub, Goto, Enqueue
<1>1. ASSUME NEW r \in Run, Job(r) PROVE TypeOK'
  <2>1. CASE Start(r)
    BY <2>1, SMT DEF Start
  <2>2. CASE Validate(r)
    BY <2>2, SMT DEF Validate, SameRevision
  <2>3. CASE PullFound(r)
    BY <2>3, SMT DEF PullFound
  <2>4. CASE PullFails(r)
    BY <2>4, SMT DEF PullFails
  <2>5. CASE Inspect(r)
    BY <2>5, SMT DEF Inspect, LabelMatches
  <2>6. ASSUME NEW b \in BuildId, Build(r, b) PROVE TypeOK'
    BY <2>6, SMT DEF Build, Label, AfterBuild
  <2>7. CASE PushSha(r)
    <3>1. releaseSha[r] \in Commit /\ local[r] \in Image
      BY <2>7, SMT DEF PushSha
    <3>2. registry' \in [Commit -> Image \cup {NoImage}]
      BY <2>7, <3>1, Zenon DEF PushSha
    <3>3. under' \in [Commit -> SUBSET Image]
      BY <2>7, <3>1, SMT DEF PushSha
    <3>4. phase' \in [Run -> Active \cup {"unused", "queued", "failed", "published"}]
      BY <2>7, SMT DEF PushSha
    <3>q. QED
      BY <2>7, <3>2, <3>3, <3>4, Zenon DEF PushSha
  <2>8. CASE PushRelease(r)
    BY <2>8, SMT DEF PushRelease
  <2>9. CASE Fails(r)
    BY <2>9, SMT DEF Fails
  <2>q. QED
    BY <1>1, <2>1, <2>2, <2>3, <2>4, <2>5, <2>6, <2>7, <2>8, <2>9, Zenon DEF Job
<1>2. ASSUME NEW r \in Run, Rerun(r) PROVE TypeOK'
  BY <1>2, SMT DEF Rerun
<1>3. ASSUME NEW r \in Run, NEW t \in Tag, NEW c \in Commit, PushTag(r, t, c)
      PROVE TypeOK'
  BY <1>3, SMT DEF PushTag
<1>4. ASSUME NEW t \in Tag, DeleteTag(t) PROVE TypeOK'
  BY <1>4, SMT DEF DeleteTag
<1>5. ASSUME NEW c \in Commit, Merge(c) PROVE TypeOK'
  BY <1>5, SMT DEF Merge
<1>6. ASSUME NEW c \in Commit, NEW v \in Commit, ForeignPush(c, v) PROVE TypeOK'
  BY <1>6, SMT DEF ForeignPush
<1>7. CASE UNCHANGED vars
  BY <1>7, SMT DEF vars
<1>q. QED
  BY <1>1, <1>2, <1>3, <1>4, <1>5, <1>6, <1>7, Zenon DEF Next

\* What a run has in hand is of its own commit, whatever happens to the tag,
\* and stays among the images its commit has had.
LEMMA RunStep == TypeOK /\ RunInv /\ RegistryInv /\ [Next]_vars => RunInv'
<1> SUFFICES ASSUME TypeOK, RunInv, RegistryInv, [Next]_vars PROVE RunInv'
  OBVIOUS
<1> USE NamesAssumption DEF TypeOK, Image, NoImage, Active, RunInv, RegistryInv,
        git, runs, hub, Goto, Enqueue
<1>1. ASSUME NEW r \in Run, Job(r) PROVE RunInv'
  <2>1. CASE Start(r)
    BY <2>1, SMT DEF Start
  <2>2. CASE Validate(r)
    BY <2>2, SMT DEF Validate, SameRevision
  <2>3. CASE PullFound(r)
    BY <2>3, SMT DEF PullFound
  <2>4. CASE PullFails(r)
    BY <2>4, SMT DEF PullFails
  <2>5. CASE Inspect(r)
    BY <2>5, SMT DEF Inspect, LabelMatches
  <2>6. ASSUME NEW b \in BuildId, Build(r, b) PROVE RunInv'
    BY <2>6, SMT DEF Build, Label, AfterBuild
  <2>7. CASE PushSha(r)
    BY <2>7, SMT DEF PushSha
  <2>8. CASE PushRelease(r)
    <3>1. PICK l \in {"published", "failed"} : phase' = [phase EXCEPT ![r] = l]
      BY <2>8, Zenon DEF PushRelease
    <3>2. UNCHANGED << ofTag, ofCommit, releaseSha, local, branch, under >>
      BY <2>8, Zenon DEF PushRelease
    <3>3. \A s \in Run : phase'[s] \in Active => phase[s] \in Active /\ phase'[s] = phase[s]
      BY <3>1, SMT
    <3>4. \A s \in Run : phase'[s] = "unused" => phase[s] = "unused"
      BY <3>1, SMT
    <3>5. \A s \in Run : phase'[s] # "unused" => phase[s] # "unused"
      BY <3>1, <2>8, SMT DEF PushRelease
    <3>q. QED
      BY <3>2, <3>3, <3>4, <3>5, SMT
  <2>9. CASE Fails(r)
    BY <2>9, SMT DEF Fails
  <2>q. QED
    BY <1>1, <2>1, <2>2, <2>3, <2>4, <2>5, <2>6, <2>7, <2>8, <2>9, Zenon DEF Job
<1>2. ASSUME NEW r \in Run, Rerun(r) PROVE RunInv'
  BY <1>2, SMT DEF Rerun
<1>3. ASSUME NEW r \in Run, NEW t \in Tag, NEW c \in Commit, PushTag(r, t, c)
      PROVE RunInv'
  BY <1>3, SMT DEF PushTag
<1>4. ASSUME NEW t \in Tag, DeleteTag(t) PROVE RunInv'
  BY <1>4, SMT DEF DeleteTag
<1>5. ASSUME NEW c \in Commit, Merge(c) PROVE RunInv'
  BY <1>5, SMT DEF Merge
<1>6. ASSUME NEW c \in Commit, NEW v \in Commit, ForeignPush(c, v) PROVE RunInv'
  BY <1>6, SMT DEF ForeignPush
<1>7. CASE UNCHANGED vars
  BY <1>7, SMT DEF vars
<1>q. QED
  BY <1>1, <1>2, <1>3, <1>4, <1>5, <1>6, <1>7, Zenon DEF Next

\* The registry forgets images, the history does not.
LEMMA RegistryStep == TypeOK /\ RunInv /\ RegistryInv /\ [Next]_vars => RegistryInv'
<1> SUFFICES ASSUME TypeOK, RunInv, RegistryInv, [Next]_vars PROVE RegistryInv'
  OBVIOUS
<1> USE NamesAssumption DEF TypeOK, Image, NoImage, Active, RunInv, RegistryInv,
        git, runs, hub, Goto, Enqueue
<1>1. ASSUME NEW r \in Run, Job(r) PROVE RegistryInv'
  <2>1. CASE Start(r)
    BY <2>1, SMT DEF Start
  <2>2. CASE Validate(r)
    BY <2>2, SMT DEF Validate, SameRevision
  <2>3. CASE PullFound(r)
    BY <2>3, SMT DEF PullFound
  <2>4. CASE PullFails(r)
    BY <2>4, SMT DEF PullFails
  <2>5. CASE Inspect(r)
    BY <2>5, SMT DEF Inspect, LabelMatches
  <2>6. ASSUME NEW b \in BuildId, Build(r, b) PROVE RegistryInv'
    BY <2>6, SMT DEF Build, Label, AfterBuild
  <2>7. CASE PushSha(r)
    BY <2>7, SMT DEF PushSha
  <2>8. CASE PushRelease(r)
    BY <2>8, SMT DEF PushRelease
  <2>9. CASE Fails(r)
    BY <2>9, SMT DEF Fails
  <2>q. QED
    BY <1>1, <2>1, <2>2, <2>3, <2>4, <2>5, <2>6, <2>7, <2>8, <2>9, Zenon DEF Job
<1>2. ASSUME NEW r \in Run, Rerun(r) PROVE RegistryInv'
  BY <1>2, SMT DEF Rerun
<1>3. ASSUME NEW r \in Run, NEW t \in Tag, NEW c \in Commit, PushTag(r, t, c)
      PROVE RegistryInv'
  BY <1>3, SMT DEF PushTag
<1>4. ASSUME NEW t \in Tag, DeleteTag(t) PROVE RegistryInv'
  BY <1>4, SMT DEF DeleteTag
<1>5. ASSUME NEW c \in Commit, Merge(c) PROVE RegistryInv'
  BY <1>5, SMT DEF Merge
<1>6. ASSUME NEW c \in Commit, NEW v \in Commit, ForeignPush(c, v) PROVE RegistryInv'
  BY <1>6, SMT DEF ForeignPush
<1>7. CASE UNCHANGED vars
  BY <1>7, SMT DEF vars
<1>q. QED
  BY <1>1, <1>2, <1>3, <1>4, <1>5, <1>6, <1>7, Zenon DEF Next

\* Only PushSha adds an image of the workflow to the history.
LEMMA SourceStep == TypeOK /\ RunInv /\ SourceIsRevision /\ [Next]_vars => SourceIsRevision'
<1> SUFFICES ASSUME TypeOK, RunInv, SourceIsRevision, [Next]_vars PROVE SourceIsRevision'
  OBVIOUS
<1> USE NamesAssumption DEF TypeOK, Image, NoImage, Active, RunInv, SourceIsRevision, Own,
        git, runs, hub, Goto, Enqueue
<1>1. ASSUME NEW r \in Run, Job(r) PROVE SourceIsRevision'
  <2>1. CASE Start(r)
    BY <2>1, SMT DEF Start
  <2>2. CASE Validate(r)
    BY <2>2, SMT DEF Validate, SameRevision
  <2>3. CASE PullFound(r)
    BY <2>3, SMT DEF PullFound
  <2>4. CASE PullFails(r)
    BY <2>4, SMT DEF PullFails
  <2>5. CASE Inspect(r)
    BY <2>5, SMT DEF Inspect, LabelMatches
  <2>6. ASSUME NEW b \in BuildId, Build(r, b) PROVE SourceIsRevision'
    BY <2>6, SMT DEF Build, Label, AfterBuild
  <2>7. CASE PushSha(r)
    BY <2>7, SMT DEF PushSha
  <2>8. CASE PushRelease(r)
    BY <2>8, SMT DEF PushRelease
  <2>9. CASE Fails(r)
    BY <2>9, SMT DEF Fails
  <2>q. QED
    BY <1>1, <2>1, <2>2, <2>3, <2>4, <2>5, <2>6, <2>7, <2>8, <2>9, Zenon DEF Job
<1>2. ASSUME NEW r \in Run, Rerun(r) PROVE SourceIsRevision'
  BY <1>2, SMT DEF Rerun
<1>3. ASSUME NEW r \in Run, NEW t \in Tag, NEW c \in Commit, PushTag(r, t, c)
      PROVE SourceIsRevision'
  BY <1>3, SMT DEF PushTag
<1>4. ASSUME NEW t \in Tag, DeleteTag(t) PROVE SourceIsRevision'
  BY <1>4, SMT DEF DeleteTag
<1>5. ASSUME NEW c \in Commit, Merge(c) PROVE SourceIsRevision'
  BY <1>5, SMT DEF Merge
<1>6. ASSUME NEW c \in Commit, NEW v \in Commit, ForeignPush(c, v) PROVE SourceIsRevision'
  BY <1>6, SMT DEF ForeignPush
<1>7. CASE UNCHANGED vars
  BY <1>7, SMT DEF vars
<1>q. QED
  BY <1>1, <1>2, <1>3, <1>4, <1>5, <1>6, <1>7, Zenon DEF Next

\* Only PushRelease sets an alias, and no run gets another tag or commit.
LEMMA AliasStep == TypeOK /\ RunInv /\ AliasIsOfRelease /\ [Next]_vars => AliasIsOfRelease'
<1> SUFFICES ASSUME TypeOK, RunInv, AliasIsOfRelease, [Next]_vars PROVE AliasIsOfRelease'
  OBVIOUS
<1> USE NamesAssumption DEF TypeOK, Image, NoImage, Active, RunInv, AliasIsOfRelease,
        git, runs, hub, Goto, Enqueue
<1>1. ASSUME NEW r \in Run, Job(r) PROVE AliasIsOfRelease'
  <2>1. CASE Start(r)
    BY <2>1, SMT DEF Start
  <2>2. CASE Validate(r)
    BY <2>2, SMT DEF Validate, SameRevision
  <2>3. CASE PullFound(r)
    BY <2>3, SMT DEF PullFound
  <2>4. CASE PullFails(r)
    BY <2>4, SMT DEF PullFails
  <2>5. CASE Inspect(r)
    BY <2>5, SMT DEF Inspect, LabelMatches
  <2>6. ASSUME NEW b \in BuildId, Build(r, b) PROVE AliasIsOfRelease'
    BY <2>6, SMT DEF Build, Label, AfterBuild
  <2>7. CASE PushSha(r)
    BY <2>7, SMT DEF PushSha
  <2>8. CASE PushRelease(r)
    BY <2>8, SMT DEF PushRelease
  <2>9. CASE Fails(r)
    BY <2>9, SMT DEF Fails
  <2>q. QED
    BY <1>1, <2>1, <2>2, <2>3, <2>4, <2>5, <2>6, <2>7, <2>8, <2>9, Zenon DEF Job
<1>2. ASSUME NEW r \in Run, Rerun(r) PROVE AliasIsOfRelease'
  BY <1>2, SMT DEF Rerun
<1>3. ASSUME NEW r \in Run, NEW t \in Tag, NEW c \in Commit, PushTag(r, t, c)
      PROVE AliasIsOfRelease'
  BY <1>3, SMT DEF PushTag
<1>4. ASSUME NEW t \in Tag, DeleteTag(t) PROVE AliasIsOfRelease'
  BY <1>4, SMT DEF DeleteTag
<1>5. ASSUME NEW c \in Commit, Merge(c) PROVE AliasIsOfRelease'
  BY <1>5, SMT DEF Merge
<1>6. ASSUME NEW c \in Commit, NEW v \in Commit, ForeignPush(c, v) PROVE AliasIsOfRelease'
  BY <1>6, SMT DEF ForeignPush
<1>7. CASE UNCHANGED vars
  BY <1>7, SMT DEF vars
<1>q. QED
  BY <1>1, <1>2, <1>3, <1>4, <1>5, <1>6, <1>7, Zenon DEF Next

\* What is pushed under an alias is in the history, which only grows.
LEMMA DeployableStep == TypeOK /\ RunInv /\ AliasWasDeployable /\ [Next]_vars => AliasWasDeployable'
<1> SUFFICES ASSUME TypeOK, RunInv, AliasWasDeployable, [Next]_vars PROVE AliasWasDeployable'
  OBVIOUS
<1> USE NamesAssumption DEF TypeOK, Image, NoImage, Active, RunInv, AliasWasDeployable,
        git, runs, hub, Goto, Enqueue
<1>1. ASSUME NEW r \in Run, Job(r) PROVE AliasWasDeployable'
  <2>1. CASE Start(r)
    BY <2>1, SMT DEF Start
  <2>2. CASE Validate(r)
    BY <2>2, SMT DEF Validate, SameRevision
  <2>3. CASE PullFound(r)
    BY <2>3, SMT DEF PullFound
  <2>4. CASE PullFails(r)
    BY <2>4, SMT DEF PullFails
  <2>5. CASE Inspect(r)
    BY <2>5, SMT DEF Inspect, LabelMatches
  <2>6. ASSUME NEW b \in BuildId, Build(r, b) PROVE AliasWasDeployable'
    BY <2>6, SMT DEF Build, Label, AfterBuild
  <2>7. CASE PushSha(r)
    BY <2>7, SMT DEF PushSha
  <2>8. CASE PushRelease(r)
    BY <2>8, SMT DEF PushRelease
  <2>9. CASE Fails(r)
    BY <2>9, SMT DEF Fails
  <2>q. QED
    BY <1>1, <2>1, <2>2, <2>3, <2>4, <2>5, <2>6, <2>7, <2>8, <2>9, Zenon DEF Job
<1>2. ASSUME NEW r \in Run, Rerun(r) PROVE AliasWasDeployable'
  BY <1>2, SMT DEF Rerun
<1>3. ASSUME NEW r \in Run, NEW t \in Tag, NEW c \in Commit, PushTag(r, t, c)
      PROVE AliasWasDeployable'
  BY <1>3, SMT DEF PushTag
<1>4. ASSUME NEW t \in Tag, DeleteTag(t) PROVE AliasWasDeployable'
  BY <1>4, SMT DEF DeleteTag
<1>5. ASSUME NEW c \in Commit, Merge(c) PROVE AliasWasDeployable'
  BY <1>5, SMT DEF Merge
<1>6. ASSUME NEW c \in Commit, NEW v \in Commit, ForeignPush(c, v) PROVE AliasWasDeployable'
  BY <1>6, SMT DEF ForeignPush
<1>7. CASE UNCHANGED vars
  BY <1>7, SMT DEF vars
<1>q. QED
  BY <1>1, <1>2, <1>3, <1>4, <1>5, <1>6, <1>7, Zenon DEF Next

-----------------------------------------------------------------------------
(* The invariant holds in every reachable state.                           *)
THEOREM Invariance == Spec => []IInv
<1>1. IInv /\ [Next]_vars => IInv'
  BY TypeStep, RunStep, RegistryStep, SourceStep, AliasStep, DeployableStep, Zenon DEF IInv
<1>q. QED
  BY InitIInv, <1>1, PTL DEF Spec

(* The types of the remote, the runs and the registry.                     *)
THEOREM TypeCorrect == Spec => []TypeOK
<1>1. IInv => TypeOK
  BY DEF IInv
<1>q. QED
  BY Invariance, <1>1, PTL

(* Under the tag of a commit the workflow has only put images built from   *)
(* the sources of that commit, a commit of 10-answer.                      *)
THEOREM SourcesAreReleased == Spec => []SourceIsRevision
<1>1. IInv => SourceIsRevision
  BY DEF IInv
<1>q. QED
  BY Invariance, <1>1, PTL

(* What the workflow puts under a release tag is labelled with a commit    *)
(* that a push of this git tag named, also when others push images under   *)
(* the tags of commits.                                                    *)
THEOREM AliasesAreOfReleases == Spec => []AliasIsOfRelease
<1>1. IInv => AliasIsOfRelease
  BY DEF IInv
<1>q. QED
  BY Invariance, <1>1, PTL

(* What the workflow puts under a release tag has been the image of its    *)
(* commit, wherever a run was cut short.                                   *)
THEOREM AliasesWereDeployable == Spec => []AliasWasDeployable
<1>1. IInv => AliasWasDeployable
  BY DEF IInv
<1>q. QED
  BY Invariance, <1>1, PTL
=============================================================================
