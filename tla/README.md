# Formal models of the deployment runtime lab

TLA+ modules, TLC runs and TLAPS proofs about the program in this repository: a
Spring Boot application (posts, accounts, chat), the GitHub Actions workflow and
shell scripts that deploy it to one host, and the "visual lab" pages that teach
both. Paths below are relative to the repository root; `kt/` stands for
`src/main/kotlin/com/andi/rest_crud/`. `PROJECT.json` maps each definition to the
lines it models.

Contents: [inventory](#inventory), [modules and code](#modules-and-the-code),
[runs](#runs), [fairness](#fairness), [proofs](#proofs),
[disagreements found](#disagreements-between-documents-and-code),
[not modelled](#not-modelled), [plan](#plan), [running](#running).

## Inventory

| part | state | operations | talks to |
| --- | --- | --- | --- |
| publish job (`deploy.yml` 1-163, `Dockerfile`) | image on the runner; the registry's SHA tag and release alias | validate tag, pull or build, inspect label, two pushes | git remote (tags, branch), Docker Hub; hands the commit to the deploy job |
| deploy job, before the installation (`deploy.yml` 165-454) | `runtime.env`, staging directory of this run | checks, DNS, upload of the bundle file by file, of `.env.next` | leaves `.env.next` and a staged bundle on the host, over what earlier runs have left |
| install step (`deploy.yml` 456-653) | six bundle files, `.env`, `.env.previous`, `.deploy.previous{,.next,.old}` | recover an interrupted swap, snapshot, swap, install, exit trap | starts `deploy.sh`; its snapshot is read by `check-deploy.sh` |
| `scripts/deploy.sh` | containers app, nginx, certbot; certificate; `.previous-image` | start data services, issue the certificate, pull, recreate; exit trap with rollback | Docker, files of the install step |
| `scripts/check-deploy.sh`, verify job | the same | verify, roll back, external check from the runner | second and third ssh session on the same host |
| certificate renewal (`deploy/compose.prod.yaml` 34-80) | the certificate in the volume, the one nginx has read, two sleeps | renew, reload, restart | `deploy.sh` (issue, recreate nginx) |
| posts with a Redis cache (`kt/controller/PostController.kt`, `kt/service/Post*.kt`) | row in MySQL, entry with a TTL in Redis, requests in progress | GET, PUT, DELETE, expiry | both stores; the application container is recreated by a rollout |
| accounts (`kt/service/AuthService.kt`, `OAuthAccountService.kt`, `kt/domain/User.kt`) | table `users` (unique e-mail), requests in progress | sign-up, first and later Google logins | Google (address of an account may change) |
| tokens and filters (`kt/security/`) | none on the server (a token is a signed e-mail address with an end) | create, validate | accounts, posts (author by e-mail) |
| recovery mail (`kt/service/AccountRecoveryService.kt`) | none | look up, send | SMTP |
| chat (`kt/config/WebSocketConfig.kt`, `WebSocketController.kt`, `realtime-demo.html`) | the page's `stompClient`, connections, subscriptions, frames in two pools | Connect, Disconnect, Send, the callback of a connection | Spring's simple broker |
| visual lab (`docs/visual-lab/visual-lab.js` and its data) | the open page; scenario, predictions, revealed scenarios, one step index; the focus, and callbacks that wait for the next frame | clicks, links, a change of the motion setting | the browser (frames, style sheet) |
| `ensure-compose.sh`, `auth-demo.html`, CI, `compose.yaml` | none that is shared | | |

What makes each part right, and what is hard about it:

- **Publish.** The image under a SHA tag was built from that commit, and the
  commit is on the branch. Hard: the tag may be moved while a run waits or
  before it is run again; two pushes that fail separately; a pull whose failure
  has several causes.
- **Upload and install step.** The last complete bundle can always be put back, and
  what is installed is what this run has uploaded. Hard: a reboot between any two
  commands, errors in the exit trap where `set -e` is off, an upload that ends in the
  middle and leaves files of two releases for the next run.
- **Rollout.** A failed release leaves the host as it was, from three different
  places and with state split over files, containers and markers. Hard: partial
  failure of the rollback, verify run again, also that of an older run over a newer
  deployment, certificate bootstrap that takes over the entry point.
- **Certificate.** nginx never serves an expired one. Hard: two unsynchronised
  loops, restarts, failed renewals.
- **Posts.** A stale answer is bounded in time and has a known cause. Hard:
  interleavings of cache fill, commit and evict; evict that fails.
- **Accounts.** One account per address and per Google account, although neither
  service is transactional. Hard: check and write in different transactions.
- **Tokens and posts.** A token opens the posts of its account, although both know
  the account by an address that may change. Hard: logins that change an address
  while tokens and posts with the old one are about.
- **Chat.** Who is subscribed, and what a subscriber sees. Hard: callbacks that
  read a global, pools that reorder frames, lost connections.
- **Visual lab.** One index stands for lane and position, across forks and joins;
  every click redraws the page, and the keyboard's focus has to survive that. Hard:
  index arithmetic at the ends of lanes, two roundings between nodes and steps,
  callbacks of an earlier click that run over what a later one has drawn.

`PROJECT.json` lists these hazards with their lines and the properties that catch
them, or a note that says why none does.

## Modules and the code

Each proof module extends its model, each `MC` module instantiates one for TLC.

### `BundleStore`, `BundleSwap`, `DeployJob`, `BundleSwapProofs`: upload and install step

`BundleSwap` has one action per shell command that touches a file: `Start` to
`DeployScriptSucceeds` for `deploy.yml` 554-651, the trap's restore for 520-552,
and the restores of `deploy.sh` and `check-deploy.sh`. `live` is the six files,
`env`/`envPrev` the two environment files, `prev`, `next` and `old` the snapshot
directories with their `.ready` marker, `i` the position in a copy loop.
`Crash` (SIGKILL, reboot) may happen between any two commands and in the middle of
one (a file is then `Partial`); `Fail` is an error under `set -e`, and
`RestoreFault` one where `set -e` is off. `VerifyFails` is the rollback of a verify
job: of the run that has just deployed, or of any run whose deploy job ever succeeded
(`deployed`), run again after whatever sessions came in between
(`deploy.yml:690`); all that `check-deploy.sh` (329-346) asks for are the backups, not
whose they are. `committed`, `startLive`, `startEnv`, `saved` (the session has made its
backups) and `clean` are history.

A rollback over a session that has not made its backups is *stray* (`Stray`): run 2
copies `.env` to `.env.previous`, fails before the swap, and the verify job of run 1 is
run again. It puts back the snapshot of the session before and the `.env` of run 2's
session, of two releases; no restore command has failed and nothing has crashed. The
code has nothing that would prevent this, so `ReplacedReleaseRecoverable` and
`SessionUndone` exclude it until the next session begins, and `OneRelease` altogether
(`strays = 0`); `SnapshotNeverLost` and `InstallsUploaded` hold all the same.

`BundleStore` is the promise: a one-place store that is filled in one step
(`Save`), and must hold what is being overwritten before `Overwrite`, unless its
promise has been given up for the session (`GiveUp`), which is possible only while
nothing has been overwritten. The refinement maps the slot to `Selected`, the directory
the next restore would use, and `givenUp` to `Stray`.

`DeployJob` extends `BundleSwap`, which takes the new release as given, with the
steps that bring it to the host: `UploadFile` for each `scp` into `.deploy-next`,
`SendEnv` for `.env.next`, `JobInstalls` for the tests at the head of the session,
`InstallStagedFile` and `InstallStagedEnv` for the installation from what is
staged. Nothing empties the staged files, so a job that ends in the middle
(`JobFails`: an error, a lost runner, a cancelled run) leaves them to the next one,
of two releases and with one cut short. `Checked` is only what the script tests: the
files exist, and the first lines of `.env.next` are there. The jobs of two runs are
kept apart by the concurrency group (`deploy.yml` 11-13). That it implements
`BundleSwap`, with one target per session, is `InstallsUploaded`.

### `Rollout`, `RolloutProofs`: the host and the three ways back

Whole bundles instead of files; one action per command of `deploy.sh`,
`check-deploy.sh` and the verify job that changes a container, the certificate or
a marker. The install step before `deploy.sh` is four commands (`InstallStep`:
`KeepEnv`, `KeepBundle`, `InstallFiles`, `InstallSettings`), each of which may be the
last (`InstallCommandFails`): `.env.previous` is then of this session already, while
the snapshot and the marker may be of older ones. `app` and `nginx` record the
release of the image and of the settings they were created with. A rollback is
started by the trap of `deploy.sh`, by `check-deploy.sh`, or by its `--rollback-only`
mode when the external check fails (`by`). `RerunVerify(r)` is GitHub's "re-run
failed jobs" for the latest run or for an older one whose deploy job has succeeded
(`deployed`). `found` (what the host ran
when the session began, or `Mixture`), `foundApp`, `recorded` and `redone` are
history. `recorded` matters because `.previous-image` is of an older session than
`.env.previous` and the snapshot until `deploy.sh:395` has removed it: a rollback
that a re-run starts over a session that ended before that line restores files, `.env`
and image of different releases. The model has these behaviours, and the properties
that they break exclude them in so many words (`BackupsOfSession`, in
`VerifiedIsInstalled` `recorded`).

### `Publish`, `PublishProofs`: the publish job

One action per step: `Validate`, `PullFound`, `PullFails`, `Inspect`, `Build`,
`PushSha`, `PushRelease`; `Enqueue` is the concurrency group (one run in progress,
one that waits). Around it, external: pushes that create, move or delete a tag,
merges into `10-answer`, re-runs, and images that others push under the tag of a
commit, which is the only one the workflow ever reads. An image is what
was built (`source`), what it is labelled with (`revision`), and a build id.
`under` (all images a SHA tag has stood for) and `built` are history.

### `Certificate`, `CertificateProofs`: renewal and reload

`left` and `loaded` are the remaining times of the certificate in the volume and
of the one nginx serves; `certbotIn` and `reloadIn` the remaining sleeps.
`Renew` is one turn of certbot's loop, `Reload` one of nginx's, `Deploy` the
certificate part of a deployment, and containers restart at any time. Time stops
when a sleep is over until its command has run: the commands take no time
compared with hours.

### `PostCache`, `PostCacheProofs`: cache-aside reads

One post id. `exists` and `current` are the row (a version per update), `cache`
the entry and what is left of its TTL; each request has a program counter, and
every call to MySQL or Redis is an action: `GetHit`/`GetMiss`, `Load`, `Fill`;
`Find`, `CommitUpdate`/`CommitNothing`/`CommitDelete`, `Evict`. `Tick` passes time;
a request takes at most `MaxDelay` ticks. `Abort` and `EvictFails` are errors,
`AppStops` the container recreated by a rollout. `superseded`, `overlapped`,
`overtaken` and `missed` are history.

### `Accounts`, `AccountsProofs`: sign-up and Google login

`email` and `identity` are the columns of the table; each request runs call by
call: `ExistsByEmail`, `Insert`, `FindIdentity`, `NewAddressTaken`, `SaveAddress`,
`FindAddress`. `Accepts` is the unique column, the only constraint of the
database. `Rename` is the owner of a Google account changing its address,
`Killed` the application stopping between two calls. `FindIdentity` throws if
several rows have the identity, as the repository's `Optional` query does.

### `Authors`, also in `AccountsProofs`: tokens and posts on top of the accounts

`Authors` extends `Accounts`: the steps of sign-ups and logins are those of
`Accounts`, and a login ends with a token (`Answer`, which may get lost).
`PasswordLogin`, `Expire` and, with a token, `CreatePost`, `UpdatePost` and
`DeletePost` are new. A token has a `subject`, a post an `author`: addresses, as in
the code. Whose login it was (`account`), who wrote and who last changed a post
(`writer`, `changedBy`), and the addresses accounts have given up (`left`) are
history. That the added part leaves the accounts as they were is a theorem
(`AuthorsImplementsAccounts`), so what is proved of `Accounts` holds here.

### `Chat`, `ChatProofs`

`stompClient` is the page's global; a connection is connecting, open, closing
(DISCONNECT sent) or gone. `Opened` is CONNECTED together with the callback,
which subscribes the client that the *global* names, and fails if that one is not
connected. SUBSCRIBE and SEND frames wait on the server and are taken in any
order (`Register`, `Broadcast`): `WebSocketConfig` does not ask for the order of a
session to be kept. `Deliver` shows a message. Which of two messages is shown
first is left out.

### `LaneWalk`, `VisualLab`, `VisualLabData`, `VisualLabProofs`

`VisualLabData` holds, for the eight scenarios of pages 09 and 10, the options of
the prediction, the lanes with the ends of their steps and where the evidence of a
step is said to be; and the code points, nodes, and links of the pages and the hub.
`VisualLab` keeps the page's variables and has one action per kind of click;
`activeLane`, `Shown`, `PreviousDisabled`, `NextDisabled` and the targets are what
`renderSemanticDiagram` computes, `LinkedCodePoints` the set of what `renderEvidence` shows,
`ActiveNode` and `StepOfNode` the two conversions between the nodes of a route and
the steps of a flow. `Click` is `render({ focusKey })`: the page is drawn again, the
focus is lost, and `frames` gets a callback that `Frame` runs over what is drawn by
then; `Focusable` says where `focus()` has an effect, in a wide window or in one
where the style sheet hides the time line (`narrow`). `MotionChanged` is the render
without a `focusKey`, `Open` a link or a reload. `LaneWalk` is what the learner is
promised: a place (scenario, lane, position) and moves along the arrows. A click in a
time line skips to what is drawn, at most a window away; one on a node of a route
goes anywhere in the flow (`Reach`): a walk that skips less than a window everywhere
would be wrong for flows longer than the window, as the proof attempt and then TLC
showed, so the run has such a flow.
`MCVisualLab` adds a page with longer lanes, forks and joins than the data has, and
one whose scenarios have routes instead of diagrams: the viewer handles both, and is
shared with the pages of other repositories.

Scenarios that `normalizedWorkbench` makes up for a page without a workbench
(`visual-lab.js:187-211`) have no prediction, so `renderPrediction` draws no button
that opens them; no data file here has such a page, and the model has none.

## Runs

| run | checks | bounds, and why they are enough |
| --- | --- | --- |
| `bundle_swap` | `SnapshotNeverLost`, `ReplacedReleaseRecoverable`, `OneRelease`, `SessionUndone`, refinements `StoreSpec`, `InstallsUploaded` | 2 releases that alternate without end, 3 files (first, last, optional), errors at any command, 4 of the 8 sets of files that an interrupted `rm` may have removed (`PartOfFiles`; with all 8, `Removed = SUBSET File`, the run passes too, with 8.5 million states instead of 3, and the proofs hold for any sets), 1 trouble (`MaxTroubles`: a crash, a restore command that fails unnoticed, a job that is cut short before its session, or a stray rollback; a verify job run again over a session with backups is not counted). A second one only matters from the states the first has left, from which sessions start again; the proofs have no bound |
| `bundle_mixed`, `bundle_half` | violations, see below | the same, without the upload |
| `rollout` | `RollbackRestoresHost`, `RollbackImageWasFound`, `EarlyFailureHarmless`, `VerifiedIsInstalled`, `NoMixtureLeft`, `ImageWithItsSettings`, `SessionCanGoOn`, `SessionEnds` | 2 releases and the legacy one, 1 trouble (`MaxTroubles`: a crash, an unnoticed failure, or a re-run of an older verify job; the proofs have no bound), errors at any command, with fairness; sessions follow each other without end. A session that is killed is over |
| `rollout_mixed` | violation, see below | no crash and no unnoticed failure is needed |
| `publish` | `SourceIsRevision`, `AliasIsOfRelease`, `AliasWasDeployable` | 2 runs, 2 builds, 2 commits, 1 tag: one run to wait while the other works, one commit to move the tag to; runs are run again without end |
| `publish_twice` | violation, see below | one run that is run again |
| `certificate` | `ServedIsValid` | the real periods in units of 6 hours: 90 days, 30 days, 12 h, 6 h, 24 h; 58 failures in a row |
| `post_cache` | `StaleIsExplained`, `StalenessBounded` | 3 requests (a reader, a writer, one more to read what they leave), TTL 2, delay 1, 2 versions |
| `authors` | `OneAccountPerIdentity`, `AccountsKept`, `TokenOpensOwnPosts`, `ChangedByWriter` | 2 requests, 3 rows, 3 addresses, 1 Google account, 2 tokens, 1 post: the races are between two requests; the third address is for a change; two tokens for two accounts, or for one before and after a change. The proofs have no bounds |
| `chat` | `CurrentSubscribed`, `ShownByClicks`, `Heard` | 2 pages, 3 clicks on Connect, 1 message, with fairness: enough for a page whose two callbacks race, beside another page; messages do not affect each other |
| `visual_lab` | `LockedAtStart`, `ActiveStepShown`, `FocusFollows`, `CodeIsOfStep`, `ButtonsAreInverse`, `ClickedNodeActive`, refinement `WalkSpec` | the pages as they are, one wider than the window of 7 steps, one with routes longer than, as long as and shorter than their flow, one of the flows longer than the window; 2 clicks within a frame (a third would only push the first back further), 2 scenarios with a prediction (they do not affect each other), both widths |

The passing runs check the type invariants too (`TypeOK`, `JobTypeOK`,
`AuthorsTypeOK`), but for those of `PostCache` and `Certificate`, which say little more
than ranges and are theorems; so is `NothingTwice` of `Rollout`, which no run checks. The chat run does not check for deadlock: once the clicks of the
bound are used up and everything is delivered, nothing is left to do.

What they show:

- *Install.* At every instant the restore would use exactly the last completed
  snapshot. `rm -rf old; mv previous old; mv next previous` never loses it; a
  half-copied directory is never taken for it; and nothing live is overwritten
  before it is in place. Without a crash, `.env` and the files agree between
  sessions, and a session that fails leaves what it found. Both of the last hold
  also when old verify jobs are run again over sessions that have made their backups,
  and for no others (see `Stray` above). Whatever earlier jobs have
  left of their uploads, a session installs what its own job has uploaded.
- *Rollout.* A rollback that reports success, when no command of it failed
  unnoticed, restores files, image, settings and entry point of a host that ran
  one release. On any host, the image it starts is the one the session found, never
  that of an older `.previous-image` (`RollbackImageWasFound`). A deployment that fails before the application update does not
  touch the application. What verification accepts is entirely the new release,
  unless verify was run again after a rollback that stopped half-way. The verify job
  of an older run, run again, rolls a newer deployment back as a whole
  (`NoMixtureLeft`), if the session had come past `deploy.sh:395`; over one that ended
  before, it leaves parts of several releases, and with it an image with settings of
  another release, which `NoMixtureLeft` and `ImageWithItsSettings` exclude. No session
  waits for something that is not there (`SessionCanGoOn`: in every state reached, one
  of its commands can run), and each one ends.
- *Publish.* However tags move, the workflow puts under a SHA tag only what it
  built from that commit, and what it puts under an alias is labelled with a commit
  one of the pushes of the tag named, also when others push images under SHA tags.
- *Certificate.* nginx serves a valid certificate unless renewal fails for 29
  days in a row; neither restarts nor deployments at awkward moments change that.
- *Posts.* The cache differs from the row only between a commit and its evict, or
  if a write overtook the read that filled it, or if the evict failed; and no
  answer is older than one TTL and two request durations.
- *Accounts.* The unique column alone keeps addresses unique; it also keeps a
  Google account from having two rows, unless its address changes in the middle of a
  login. No request changes another identity's account.
- *Tokens and posts.* Among addresses no account has given up, comparing addresses is
  as good as comparing accounts: a token opens all the posts of its account and no
  others. (After an address has changed, a post and the tokens of its writer may name
  different addresses; the code has nothing that would connect them.)
- *Chat.* Whatever the order in which connections open, the one a page would send
  on has asked for the topic; a message is shown at most once per click on
  Connect; a message sent when a subscription is registered is shown, or one of the
  two connections is lost. One sent right after the click on Connect may overtake its
  own SUBSCRIBE frame and is then not shown.
- *Visual lab.* A locked scenario stands at its first step, the step described is
  among those drawn, and the two buttons undo each other across forks and joins. The
  focus ends up where the last click sends it, however clicks and frames interleave.
  Where a step is said to be checked in code, the code shown is that of the step or
  its ends. A node that is clicked becomes the active one where the flow has at least
  as many steps as the route has nodes.

Each property of a passing run has a mutant in `PROJECT.json`: a change a plausible
bug would make (definitions marked "Mutant" beside the ones they replace), under
which TLC finds the property violated.

## Fairness

- `Rollout!FairSpec`: weak fairness of the session's own steps. All waits in the
  scripts have a bounded number of attempts, `curl` and `ssh` have timeouts and the
  jobs have `timeout-minutes`, so a session that is not killed keeps going. Nothing
  is assumed of crashes, of new releases or of which branch a step takes.
- `Chat!FairSpec`: weak fairness of `Register`, `Broadcast` and `Deliver` per
  connection and message. The pools have unbounded queues and their threads take
  every frame in the end. Nothing is assumed of clicks, of opening or of losing
  connections.

## Proofs

TLAPS proves these for all values of the constants; the assumptions are the named
`ASSUME`s of the models, and TLC evaluates them in the runs.

| module | theorem | states |
| --- | --- | --- |
| `BundleSwapProofs` | `TypeCorrect`, `SnapshotSafe`, `Recoverable`, `Undone`, `OneReleaseLive`, `SwapImplementsStore`, `JobTypeCorrect`, `JobInstallsUploaded` | `TypeOK`, `SnapshotNeverLost`, `ReplacedReleaseRecoverable`, `SessionUndone`, `OneRelease`, `StoreSpec`, `JobTypeOK`, `InstallsUploaded` |
| `RolloutProofs` | `TypeCorrect`, `RollbackRestores`, `RollbackImageFound`, `EarlyFailure`, `VerifiedInstalled`, `NoMixture`, `ImageSettings`, `NeverTwice`, `SessionsEnd` | `TypeOK`, `RollbackRestoresHost`, `RollbackImageWasFound`, `EarlyFailureHarmless`, `VerifiedIsInstalled`, `NoMixtureLeft`, `ImageWithItsSettings`, `NothingTwice`, `SessionEnds` (if `[]SessionCanGoOn`) |
| `PostCacheProofs` | `TypeCorrect`, `StalenessExplained`, `StalenessIsBounded` | `TypeOK`, `StaleIsExplained`, `StalenessBounded` |
| `AccountsProofs` | `TypeCorrect`, `AddressesUnique`, `OneAccount`, `Ownership`; of `Authors`: `AuthorsImplementsAccounts`, `AuthorsTypeCorrect`, `OwnPostsOnly`, `WritersOnly` | `TypeOK`, `EmailUnique`, `OneAccountPerIdentity`, `AccountsKept`; `Spec` of `Accounts`, `AuthorsTypeOK`, `TokenOpensOwnPosts`, `ChangedByWriter` |
| `PublishProofs` | `TypeCorrect`, `SourcesAreReleased`, `AliasesAreOfReleases`, `AliasesWereDeployable` | `TypeOK`, `SourceIsRevision`, `AliasIsOfRelease`, `AliasWasDeployable` |
| `CertificateProofs` | `TypeCorrect`, `CertificateServed` | `TypeOK`, `ServedIsValid` |
| `ChatProofs` | `SenderSubscribed`, `TypeCorrect`, `ShownAtMost`, `AllHeard` | `CurrentSubscribed`, `TypeOK`, `ShownByClicks`, `Heard` (if `[]FramesCanBeTaken`) |
| `VisualLabProofs` | `TypeCorrect`, `Locked`, `StepDrawn`, `FocusThere`, `CodeShown`, `InverseButtons`, `NodeShown`, `WalkImplemented` | `TypeOK`, `LockedAtStart`, `ActiveStepShown`, `FocusFollows`, `CodeIsOfStep`, `ButtonsAreInverse`, `ClickedNodeActive`, `WalkSpec` |

The assumptions say what the code relies on: disjoint names, positive periods; for
`Chat` that the clicks are finitely many (`ConnectionAssumption`); for `VisualLab`
what the viewer takes for granted of its data and does not check
(`PagesAssumption`): a page has a scenario, a lane has a step and an id of its own, a
scenario without lanes has a flow and a route, and `stopAfter` is one of its nodes.
Arrows between lanes may lead anywhere. `EvidenceAssumption` is about what the data
files say of the code: a step that can be checked there names code points, itself or
by one of its ends, and the page has what is named. The viewer filters what a step
names by what the page has, so without it nothing of the step need be left; TLC
evaluates it on the data of pages 09 and 10.

The arguments, each an inductive invariant of its model (`IInv`, in `ChatProofs` also
`MInv`, in `VisualLabProofs` `Inv`):

- *BundleSwap.* `SnapshotNeverLost` is not inductive: between the renames it
  depends on which directories are ready at which command (`SnapshotInv`: once the
  swap begins `.deploy.previous` is ready or `.old` is not, and what is renamed
  into place is complete). `ReplacedInv` says that up to the last rename (`~saved`)
  nothing live has changed, unless by a stray rollback, and that from there on the
  snapshot is the bundle found, through every later re-run of a verify job.
  The refinement follows: the last rename is `Save`, the step into the installation
  is `Overwrite`, the beginning of a stray rollback `GiveUp`, everything else stutters or starts a session. `SessionUndone` needs
  more: `InstallInv` and `RestoreInv` say for each position of a copy loop which files
  are already of the new release and which are back. `OneRelease` holds between
  sessions only; `WholeInv` says what a session without trouble starts from and that
  a rollback finds a snapshot of one release.
- *DeployJob.* The files up to the one under way are of the job's release, whatever
  the others are (`StagedInv`); when the session starts there are no others, so each
  of its commands is that of `BundleSwap` for its target, and what is proved of
  `BundleSwap` holds.
- *Rollout.* What a rollback needs is whether each part of the host is already of the
  new release, still of the one found, or both at once; the invariant says so for
  every command: `InvEarly` before the application update, `InvDeployed` after it,
  `InvRollback` for the restores, `InvTrap` and `InvIdle` for what a result means,
  `InvBackups` for the release `.env.previous`, the snapshot and the marker are of,
  command by command of the install step, and `InvImage` for the image named by the
  marker, which does not need that the host ran one release.
  A session that found a mixture, or that had a command fail unnoticed, is left out
  (`Sound`), as it is in the properties. For the end of a session, `CommandsLeft`
  ranks the labels and `CommandsShrink` shows that every step of a session lowers the
  rank, a failure, the trap and the rollback included (`NothingTwice`). Under weak
  fairness a session with `n` commands left comes to one with fewer (`OneCommand`), and
  24 of these lead to the end (`SessionsEnd`).
- *PostCache.* An entry has been superseded for at most the part of its TTL that is
  over plus one request (`EntryInv`: superseded + left <= TTL + MaxDelay), because
  the read that filled it had loaded its version itself (`ReadInv`); a hit only adds
  the time of its own request. For `StaleIsExplained`, a commit overtakes every
  request in progress, so one that is about to fill the cache and has not been
  overtaken holds the row as it is (`FillInv`).
- *Accounts.* Everything known of a Google account whose address has not changed in
  the middle of a login (its rows, the requests for it) carries its one address
  (`AddressesAgree`); two rows would carry the same address, which the unique column
  excludes. `InProgress`: the row that was found is still there, and its own, when it
  is saved.
- *Authors.* The address in a token or a post is the one its account has, or one that
  some account has given up (`TokensNamed`, `PostsNamed`); addresses in use are unique
  by the theorem about `Accounts`, which the refinement brings over.
- *Publish.* Once validated, a run's revision is the commit it has checked out, and
  the image in its hands is of that commit and in its history (`RunInv`); the history
  contains what the registry holds (`RegistryInv`).
- *Certificate.* In the renewal window each failure costs one period of certbot
  (`OnDisk`), and what nginx has not read yet costs at most one of its own
  (`Served`); the theorem holds whenever
  `(Retries + 1) * RenewEvery + ReloadEvery <= Window`, which is exactly the room
  the real periods leave for 58 retries.
- *Chat.* The global of a page names a connection the page itself has opened
  (`OwnClient`), so a callback subscribes a connection of its own page, and a
  connection that is named when it opens is subscribed by its own callback. How often
  a message is shown needs sums over the connections of a page. They are counted as
  sets of pairs (connection, 1..n): an opening adds one pair of subscriptions for one
  connection opened (`SubscribedOnce`), a broadcast turns subscriptions into copies
  once per message (`OnceSent`), and a delivery takes one copy away for one more
  showing (`ShownOnce`: shown + copies under way <= connections of the page). A message
  is heard in two stages: until its broadcast the frame and the subscription stay, or a
  connection is lost (`SentStep`, `KnownStep`); from then on a copy stays on its way
  until it is shown (`WayStep`); each stage ends by weak fairness of one action.
- *VisualLab.* The page keeps one index into all steps; the properties are about
  lanes. `FlattenSeq` and the sum of lane lengths (`StartOf`) are recursive, so the
  proofs begin with induction: the library's theorem about least elements of a
  well-founded order gives induction on sets of numbers (`InductionOnSet`) and from it
  the existence of recursive functions (`Recursion`). Then `Flattened` and `Starts`
  say, for lanes of any number and length, that step `StartOf(l) + i` is the `i`-th
  of lane `l` and that nothing else is in the sequence. `Place` is the consequence for
  a state: the lane, its start, its end and the position of the active step, from
  which the window, the targets of the buttons and the refinement follow by arithmetic.
  `Inv` adds to the type that a locked scenario stands at its first step, and to the
  focus that the callback of the last click is still among the frames, and looks for
  a control the page will have (`FocusKept`). `InverseButtons` needs the lane on the
  far side of an arrow: a button crosses to another lane only if there is exactly one
  (`LanesAround`), and if the arrows back name exactly one too, it is the lane left. `NodeShown` is a lemma about rounding alone
  (`NodeAndBack`): `Round` and back is the identity if there are at least as many
  steps as nodes. `CodeShown` needs `Place`, by which the active step is one of the
  data, and the order in which the three lists are tried (`CodeOfStep`).

Only model-checked: `SessionCanGoOn`. Weak fairness of an
action promises something where the action is ENABLED, and the prover cannot compute
ENABLED: it treats `ENABLED <<A>>_vars` as a formula without structure. So the theorems
about liveness have the form `FairSpec /\ []CanGoOn => Live`, where the premise says
only that in the states named the fair action is enabled. For `Rollout` that is
`SessionCanGoOn`, which TLC checks; for `Chat` it is `FramesCanBeTaken` of `ChatProofs`,
the guards of `Broadcast` and `Deliver` read as an ENABLED formula, which says nothing
of the code and is no property of a run. TLC checks `SessionEnds` and `Heard`
themselves on the instance of the run. All the rest of the
argument (what stays true until the action, what the action brings about, that the
ranks come to an end) is proved for all values of the constants. Everything else a
passing run checks is a theorem.

## Disagreements between documents and code

Each is the counterexample of a run that expects a violation.

| run | the text | what the code does |
| --- | --- | --- |
| `bundle_mixed` | `docs/theory.md:232`: the snapshot recovers even an interrupted installation | a reboot between two file installs leaves whole files of two releases, and the next session replaces the complete snapshot of the release before by one of the mixture |
| `bundle_half` | `README.md:143`: bundle, `.env` and image are rolled back together | `if ! rollback` switches `set -e` off; a restore command that fails is passed over and success is reported |
| `rollout_mixed` | `README.md:143` | after a rollback that failed half-way, the next deployment records the failed image as the previous one and later restores it with the files of another release |
| `publish_twice` | `docs/theory.md:132`: the SHA tag is an immutable identifier | any failure of `docker pull` leads to a new build that is pushed over the SHA tag |

## Not modelled

- Of the deploy job before the installation: the checks on secrets, settings and DNS
  and the retries of SSH, which change nothing on the host. `ensure-compose.sh`, which
  replaces a file outside `RELEASE_DIR`, CI and the build: they keep no state that
  another step could find changed.
- Of tokens: signature, header and the paths that need one. Recovery mail: the token
  in its link is stored nowhere.
- `auth-demo.html`: one request per click.
- In the visual lab: the signal trace for scenarios without a diagram (no data file
  has one), check marks and notes (written and shown, read by nothing else), texts,
  and the highlighting of the section that is scrolled to.
- Two remote sessions at once: a job that is cancelled leaves its script running on
  the host, beside the session of the next run. The code relies on the concurrency
  group and has nothing on the host that would tell two scripts apart, so no promise
  of the install step is left to state.
- What a stray rollback leaves is modelled, but nothing is promised of it (see
  `BundleSwap` and `Rollout` above). Nor of a host on which a restore command has failed,
  the removal of the whole bundle when that was the last one (`deploy.yml:536`)
  included: `RestoreFault` and `WipeLive` are in the model, and `SessionUndone` has
  `clean` as its premise.
- The waits of the scripts: each is one step that succeeds or fails, and that it is
  bounded is read from the code, not checked.
- A force-push of the branch `10-answer`, images labelled with a commit they
  were not built from, and images that others push under the tag of a release: the
  workflow never reads one, so nothing it does depends on them.

## Plan

In the order of importance; the first fourteen are done.

1. `BundleSwap` with `BundleStore`: the snapshot and its refinement, proved.
2. `Rollout`: the host, on top of the promise of 1 (bundles move as a whole).
3. `PostCache`, with its proof of bounded staleness.
4. `Accounts`, with proofs.
5. `Publish`, with proofs.
6. `Certificate`, with proofs.
7. `VisualLab` with `LaneWalk`: refinement; hub, evidence, routes and focus.
8. `Chat`: safety and liveness.
9. `RolloutProofs`: all safety properties of `Rollout`, with re-runs of old verify jobs.
10. `Authors`: `Accounts` with posts and tokens that name an e-mail address, proved.
11. Proofs of `SessionUndone`, `OneRelease`, `StaleIsExplained`, `CurrentSubscribed`.
12. `DeployJob`: uploads over leftovers (`deploy.yml` 395-455), a refinement of 1,
    proved.
13. `VisualLabProofs`: the index arithmetic, the focus and the refinement for any
    data; `ShownByClicks` and the types of `Chat`, with sums counted as sets.
14. Liveness of `Rollout` and `Chat` proved from what TLC checks of ENABLED, and
    `CodeIsOfStep` for any data that keeps to `EvidenceAssumption`.
15. Composition of `Publish` and `Rollout` over several workflow runs: a rollback by
    image reference when the SHA tag has a second image.
16. The waits of the scripts as counters with their bounds.

## Running

    tlc -workers 2 -config Publish.cfg MCPublish.tla      # any run of PROJECT.json
    tlapm PublishProofs.tla                               # any proof module
