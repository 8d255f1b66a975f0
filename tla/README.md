# A TLA+ model of the analysis worker

The worker (Go module `worker_GoVer`) takes *analysis jobs* from an SQS queue,
clones or updates a Git repository, builds a code graph, asks an AI provider to
write a knowledge base, quests, a roadmap and a user view, stores them in S3
and MySQL, and publishes a notification of the outcome. This directory holds
TLA+ modules of the parts where the order of events matters, TLC
configurations that check them on small instances, and machine-checked proofs,
for instances of any size, of every safety property those runs check.

`PROJECT.json` lists components, runs, mutants (a plausible mistake for every
property, under which the property fails), hazards, theorems, and for each
definition the source lines it models. Paths below are relative to the
repository (`src/` is its root).

- [1. The system](#1-the-system)
- [2. The modules](#2-the-modules)
- [3. Runs, bounds and what they show](#3-runs-bounds-and-what-they-show)
- [4. Fairness](#4-fairness)
- [5. Proofs](#5-proofs)
- [6. What disagrees with the code's own words](#6-what-disagrees-with-the-codes-own-words)
- [7. Assumptions](#7-assumptions)
- [8. What is not modelled](#8-what-is-not-modelled)
- [9. Plan](#9-plan)

## 1. The system

| Component | State it keeps | Operations | Talks to |
|---|---|---|---|
| `bootStrap`, `main` | the root context | initialise, start the listener, wait for SIGTERM, exit | everything, once |
| deployment (`.github/workflows/deploy.yml`) | none | the systemd service restarts the process when it ends | `main` |
| `sqs` consumer | semaphore channel, wait group, heartbeats | poll, spawn, handle a message, extend its visibility, delete it, publish | SQS, `db`, strategies |
| `sqs/strategy` | `rollbackList`, locals of one run | claim, 20-odd steps of the normal analysis or the full scan, rollback | all below |
| `disk` | `<base>/<installation>/<repository>` directories, `.lock` files | make room, lock, unlock, write artifacts | file system |
| `git` | clones | clone, fetch, checkout, diff, list changed files | GitHub, `disk` |
| `db` | the tables of jobs, reports, quests, evaluations, roadmaps, keywords | conditional updates, inserts, transactions, deletes | MySQL |
| `s3` | objects of reports | upload, delete, download | S3 |
| `artifact/projectContext` | temporary files, goroutines of the chunks | generate, update, persist the knowledge base | `ai`, `db`, `s3` |
| `artifact/roadmap` | plan of one job, previous milestone statuses | normalise, generate, persist, evaluate milestones | `ai`, `db` |
| `artifact/userView`, `keyword` | none | generate and persist | `ai`, `db`, `s3` |
| `artifact/codeGraph`, `codeContent` | none | parse the tree | `disk` |
| `quest` | none | evaluate, propose, save results | `ai`, `db` |
| `ai` | objects at the provider: files, assistants, threads, runs | chat completion, call with files | the provider |
| `logger`, `metrics` | log file, counters | write and rotate, count | file system, HTTP |
| `config`, `apperrors` | none after start | read the environment | |

How a job runs: `StartAnalysisListener` receives up to ten messages and starts
one goroutine per message after it got a token of `sem`.
`handleAnalysisMessage` loads the job's row, checks its input and calls the
strategy, which first *claims* the job with a conditional update
(`QUEUED → RUNNING`). A goroutine that loses the claim ends silently and
deletes the message. A strategy that fails undoes what it did
(`rollbackList`), writes `NOTIFICATION_QUEUED`, and the consumer deletes the
message, then publishes the failure; if that publish fails it writes `FAILED`.
A strategy that succeeds writes `ANALYSIS_JOB_COMPLETED`, and the consumer
deletes the message and publishes the success.

What is hard, and which component must get it right:

- **Delivery.** SQS delivers at least once, heartbeats fail, and every database
  or AWS call may fail or have its reply lost. *Correct* is: a job is executed
  and announced at most once, its status and its notification agree, and it is
  not forgotten. (consumer)
- **Concurrency on one clone.** The lock is a file that is looked at, then
  renamed into place; checkouts happen before the look, and cleanup deletes
  directories without regard to locks. *Correct* is: one job at a time, which
  reads its own commit, and a lock has a holder unless removing it failed.
  (strategies, disk, git)
- **Partial failure.** One job writes an S3 object or a row at each of a dozen
  steps. *Correct* is: a failed job leaves nothing, a row lacks its object only
  when the rollback is about to take the row or a call about it failed, and the
  notification names what is stored. (strategies, rollback, persisting)
- **Knowledge across jobs.** Each push's report extends the one before. *Correct*
  is: versions rise, the chain has no hole, and no change between two commits
  is missed, whichever jobs fail or come late. (projectContext, git, db)
- **The roadmap across jobs.** Keys an AI invents are made unique, twice; quests
  refer to milestones by key, then by id; statuses only move forward.
  (roadmap, quest, db)
- **Reading code line by line.** The graph of Python and Java files comes from
  regular expressions, indentation and counted braces. *Correct* is: a method
  belongs to the class around it and a call to the method around it; cycles and
  depth do not depend on the order of a map. (codeGraph, projectContext)
- **Telling about it.** All goroutines share one log file that rotates, is
  cleaned up and survives the process, and a gauge that does not. *Correct* is:
  kept lines stay in order, a fault costs one line or, where the names of the
  archives cannot be read, one archive, the disk does not fill, the gauge counts
  the analyses at work. (logger, metrics)
- **Fan-out.** Chunks are analysed side by side from temporary files, through a
  provider that may fail or never finish. *Correct* is: nothing is lost but what
  an answer leaves out, nothing is left behind, and a cancelled generation ends.
  (projectContext, ai)

Which property answers which hazard, at which line, is in `PROJECT.json`.

## 2. The modules

Every model states the control of the code: guards, early returns, the order
of calls and the outcomes of each call. Texts are left out.

### Conventions

- One action is one call on shared state with the branch taken on its result.
  Steps that touch only local state are part of the action before or after.
- `pc`, `at`, `gen` name the next step; each value is a call in the source.
- *An error may have had its effect.* `Outcome(ok, before, after)` is `{after}`
  if the call worked and `{before, after}` if it reported an error.
- Faults are bounded by a constant (`MaxFaults`, `MaxErrors`, `MaxStops`,
  `MaxSweeps`, `MaxCrashes`) that the guard of the failing branch reads.
  Branches that fail by legitimate causes, such as an AI answer that does not
  parse, are not bounded where the state space stays finite without.
- An operator `XMutant` stands before an `X` with the same parameters: it is `X`
  as a plausible mistake would have it, and used by no action. With it in the
  place of `X` the property named in `PROJECT.json` fails, so each property is
  shown to depend on the code.
- *History* variables record what the code does not know; no guard of the code
  reads them. In PythonStrategy and JavaStrategy they are the language's view of
  a file and decide which lines may come next.

### AnalysisConsumer — `src/sqs/sqs.go`, `src/bootStrap`, job writes of `src/db`

| Model | Code |
|---|---|
| `queue[m]` | the message: visible, in flight (received, hidden), deleted |
| `listener`, `batch` | where `StartAnalysisListener` stands and what it received |
| `sem` | tokens in `Consumer.sem` |
| `pc[h]`, `msgOf[h]` | a goroutine of `handleAnalysisMessage` and the strategy it calls |
| `proc`, `stops` | process: running, context cancelled, down |
| `status` | `analysis_jobs.job_status` |
| `succ`, `fail` | notifications published, counted up to 2 |
| `Poll`, `Spawn`, `StopListening`, `Drained` | receive, token and `wg.Add`, `ctx.Done`, `wg.Wait` |
| `Load`, `Claim`, `Work`, `Complete`, `Abandon` | row and input checks, the conditional update, the strategy, its two ends |
| `Delete`, `PublishSuccess`, `PublishFailure`, `MarkFailed`, `Exit` | the tail of the handler |
| `Redeliver` | visibility times out, at any moment: heartbeat late, failed, or stopped |
| `SigTerm`, `ProcessExit`, `Crash`, `Restart` | signal, `main` returns, process dies, systemd |

The whole run of a strategy is one step, `Work`, which nothing forces to
happen; AnalysisPipeline and Workspace model its inside. A visible message is received while its first
delivery is handled, so two goroutines for one job are common in the model.

**JobLifecycle** is the abstract promise: for one job, what its status column
and its notifications may do. It knows no message, goroutine or process.
AnalysisConsumer implements it by the identity on
`status`, `succ`, `fail` and `doubtful` (`INSTANCE JobLifecycle`). A job whose
claim query returned an error is *doubtful*: the code then publishes a failure
though it cannot know whether another goroutine has the job, and JobLifecycle
promises less for it.

### Workspace — steps 2 to 7 of both strategies, `src/disk`, `src/git`

`dir`, `tree` and `lock` are the disk: whether a clone exists (and whether it
is whole), the commit checked out, and who wrote `.lock`. A job cleans up
(`Cleanup`, `RemoveAll`, `SweepEnds`), looks whether the directory exists,
clones (`BeginClone`, `EndClone`) or fetches, checks out branch and commit,
looks at the lock (`PeekLock`), creates it (`CreateLock`), reads the tree and
writes artifacts any number of times, and unlocks through the deferred call
(`RemoveLock`), which may fail: the error is only logged, the lock stays, and
`unremoved` remembers whose it is.

go-git clones into a directory that is there as long as it holds no repository.
If the clone fails it clears a directory it created or found empty (`fresh`,
`CloneCleared`), whose own failure is not reported; what it put among other
files stays (`CloneAbandoned`, remembered in `halfMade`). `hollow` is a directory
an artifact write brought back after a cleanup. Locks lie in
`<installation>/<repository>/.lock`, while cleanup looks for
`<installation>/.lock`: `lock` is therefore a function of both kinds of
directories, and the second kind is never written. `DiskInv` bundles the type
invariant, `LockHasHolder` and `PartialIsInProgress`.

### AnalysisPipeline — steps 8 to 21, `rollback.go`, the Persist functions

The job's effects are pairs such as `<<"row", "kb">>`; `world` is the set that
exists, `rb` the sequence of undo calls, each the set of effects it removes,
and `result` what the success notification will name. `kind` chooses the
strategy; both run through the same actions, with the branches the two source
files have. `astray` collects effects the code cannot know about (an error whose
effect took place) or failed to undo; the properties excuse exactly these.
Another job of the project reads the active quests, completes some and ends or
rolls back at any time (`OtherJob`); `completed` is the column both write.
`StorageInv` bundles the type invariant, `RowHasObject` and `DerivedNeedsKB`.

### KnowledgeBase — report rows of one project across jobs

Commits are numbered and `Push` adds one. A row has id, version, `prev`,
`before`, `after`, and what the table does not record: the commit its text
describes (`at`), whether the text follows from its base (`sound`), and whether
a known gap of the code explains it if not (`blamed`). A job looks at the lock of
its clone and writes it in two steps (`PeekLock`, `CreateLock`), the second of
which replaces a lock made in between; cleanups and checkouts of others delete it
(`LoseLock`), and `Unlock` may fail. `disturbed` has the clones whose lock was
replaced or deleted: there two jobs may read the same latest report. A project
may have several clones, since a clone's directory is named by its installation.
`ReportsInv` bundles the type invariant, `VersionsFollowIds` and
`ChainUnbroken`.

### Roadmap — `src/artifact/roadmap` and its tables

Scans generate a plan (normalised by `UniqueKeys` and
`normalizeMilestoneStatus`), save a quest that names a milestone key, and
replace the stored roadmap in one transaction of two steps: `BeginReplace` reads
in its snapshot which rows to delete (`seen`), without locking them; `Persist`
normalises again, deletes these rows by id and inserts the new ones, so that rows
another scan stored in between stay (`Kept`). Quests are unlinked and linked.
Analyses read the active milestones, get an answer, save each evaluation and
raise statuses, and may fail and undo. Any two jobs may overlap: they may work in
different clones, and the lock of a clone excludes nobody for certain. A key is a
record of a name and the numbers appended to it: `a-3` is `a` with 3, so that
`a-3` the AI wrote and an `a` that was numbered 3 are the same key. The history
`muddled` says that the rows come of a plan that is not *tame* (`untame`, see
section 5) or of transactions that overlapped.
`RoadmapInv` bundles the type invariant, `LinksResolve` and `MilestonesOnce`.

### AiRequest and ContextGeneration — one generation of a knowledge base

AiRequest is a set of concurrent calls of `GenerateMessageWithFiles`: parallel
uploads into slots, assistant, thread, run, polling, answer, and the deferred
deletions in reverse order. ContextGeneration extends it with
`GenerateProjectContext`: chunking (`Chunked`, which follows the loop over
modules in order of size, one `Place` after the other), one call per chunk, one
for the overview, and the temporary files. A chunk's answer that parses holds
*some* list of details (`Answers`): `analyzeModuleChunk` fills in names that are
missing by the place in the list (`Filled`) and keeps the list as it is, modules
left out, doubled or reordered included. `told` has what each chunk's result is
about, and `astray` the chunks whose list was not of their modules in order
(`KeepsTo`). `run` is the provider's: it may move or stay for ever.
`LoseFiles` is another job's cleanup that deletes the clone under the call.
`ModulesKept` bundles the type invariant, `ChunksPartition` and `DetailsAreWhole`.

### Stacks, PythonStrategy, JavaStrategy, CallGraphMetrics, CodeGraph — the graph of the code

A *line* of a file is a pair of what the language makes of it (`is`) and what
the scanner's first matching regular expression takes it for (`looks`), with its
indentation (Python) or what its braces do, what the counting loop adds for
them, what the line does to a block comment and which of the marks `/*` and `*/`
the scanner finds in it (Java). The two differ for comments, strings,
`async def`, one-line bodies and braces on a line of their own. The variables of
the code (`classStack`, `funcStack`; `inBlockComment`, `depth`, `javaStack`,
`currentMethod`, `currentMethodDepth`) are updated as `parseFile` does, lines in
what it takes for a comment being skipped with all their braces (`Skips`,
`JavaSkipped`); history variables (`blocks`; `nest`, `header`, `commented`) keep
what the language sees; the properties relate the two. `misled` and `odd`
remember which layouts have occurred. Among those of Java, `Miscounted` are lines
whose braces the quote-toggling loop counts wrong (`"\""`, `'"'`, a brace in a
comment behind a statement), and `Mistaken` those whose marks are not what the
scanner takes them for (`"/api/**"`, `// /*`). Stacks has what both scanners do
to a stack: pop from the top until a frame stays (`Popping`).

CallGraphMetrics has the recursion of `countCircularDeps` as a stack (`path`)
that starts anywhere, since Go ranges over maps in random order; `Deepest` is
`calcMaxCallDepth`, with its `dfs` as a recursive function (`DepthFrom`). CodeGraph runs the strategies one
after the other (`Skip`, `WalkFails`, `Analyze`, `ScanPython`, `ScanJava`),
merges, and measures any graph of three names. The first file of a project is
followed line by line; the remaining ones, and Go files, are outcomes.

### LogRotation and Telemetry — `src/logger`, `src/metrics`

`active` and `archives` are the files, `file` and `size` the fields of
`rotatingFileWriter`, `line` the line in hand of whoever has the mutex, and
`step` the next call of the file system: `Write`, `OpenActiveFile`, `Close`,
`Rename` or `NothingToRename`, `Reopen`, `RemoveExpired`, `TrimOldest`,
`AppendLine`. Any of them may fail (`LogFails`), the process may die between any
two (`LogCrash`), and a start opens the file and cleans up (`LogRestart`). A
partial write counts as one that failed whole. One failure is not an error:
`filepath.Glob` hides that it could not read the directory and returns the names
it has, none as a rule. Then the index of the archive starts again at 0, or too
low, and the rename replaces an archive of the day (`RenameUnread`, counted in
`unread`; `replaced` counts the archives).

Telemetry `EXTENDS` LogRotation with the goroutines' events of messages and
analyses: the code counts first (`inflight`, `total`), then hands a line to
`Write`. Adding to the gauge and to the counter are two sections of a mutex each,
which commute and are one step here.

**BoundedLog** is the abstract promise: one sequence of lines that grows at the
end and loses a stretch that is too old, its old end while there is too much, or
one stretch of older lines each time the archives' names could not be read.
LogRotation implements it with `kept <- Kept`, the archives and the active
file read in order.

### How they compose

JobLifecycle ⇐ AnalysisConsumer, and BoundedLog ⇐ LogRotation inside Telemetry
(refinements, checked as `LifecycleSpec` and `LogSpec` and proved as
`LifecycleCorrect` and `LogCorrect`).
CodeGraph `EXTENDS` PythonStrategy, JavaStrategy and CallGraphMetrics and calls
their actions; Telemetry `EXTENDS` LogRotation.
AnalysisConsumer's `work` ⊇ Workspace ; AnalysisPipeline (by correspondence of
steps, not by refinement: their state has nothing in common but the status).
KnowledgeBase repeats the lock of Workspace step by step, with whatever may
happen to it, and Roadmap assumes no exclusion.
ContextGeneration `EXTENDS` AiRequest. Each component is checked against the
worst its environment does: Workspace and AnalysisPipeline let every step fail,
KnowledgeBase and Roadmap let jobs fail at every point.

## 3. Runs, bounds and what they show

Sizes are distinct states of a complete search.

| Run | Instance | Shows |
|---|---|---|
| `consumer_faults` (symmetric) | job `j1` (two messages) and `j2` (row missing), 2 goroutines, capacity 2, 2 failing calls, signals or crashes in all | the type invariant, `ClaimExclusive`, `AnnouncedOnce`, `StatusAgrees`, `UnclaimedKeepsMessage`, `ClaimedNotForgotten`, `StoppedIsQuiet`, and that the consumer implements JobLifecycle |
| `consumer_liveness` | a valid job, one with invalid input, a message that does not parse, 2 goroutines, capacity 1, 1 fault, 1 stop, fairness | `SemaphoreCounts` (the capacity is smaller than the goroutines could be), `EveryJobSettles` |
| `workspace_shared` (2.6 M, symmetric) | two analyses and a full scan of one clone, 1 cleanup, 1 crash, 1 removal that fails | who may be between lock and unlock; what failures and crashes leave |
| `pipeline_faults` (2.5 M, symmetric) | 2 evaluated quests, 1 proposed, 2 milestones, any call fails, cancel, crash, another job at the quests during a full scan | what a job leaves and reports, and which completed quests stay so |
| `knowledge_chain` (1.4 M) | a full scan and two pushes (the first a merge), one or two clones, locks replaced and deleted, 2 logged errors | versions, chain, soundness of updates |
| `roadmap_jobs` (1.0 M, symmetric) | any three of 2 scans and 2 analyses, 5 plans, one not tame, answers of up to 2 evaluations, 1 error | links, keys, rollback, final statuses |
| `context_faults` (0.2 M) | 3 modules, 2 chunks, five lists an answer may hold, overview with 3 files, 2 errors, a signal, a vanishing clone, fairness | chunks, files, uploads, deletions, termination |
| `code_graph` (1.2 M) | Python files of 5 lines and 3 indentations, Java files of 6 lines and 5 open braces, of every form; all graphs on 3 names | owners, callers, cycles, depth |
| `observability` (2.0 M, symmetric) | 2 goroutines, 2 messages, active file of 2, archives of 4, lines of 1 to 3, 2 days, 2 failing calls or crashes | the gauge, lines lost, space, and that the files implement BoundedLog |
| `workspace_lock_race` | two analyses, no cleanup, no crash | *violation*: both hold the lock |
| `workspace_tree` | two analyses, no cleanup, no crash | *violation*: one reads the other's commit |
| `roadmap_downgrade` | one scan, one analysis, 2 evaluations | *violation*: a status is lowered |

Why the bounds are enough:

- *Two goroutines* are what exclusion, announcements and the semaphore are
  about; two messages of one job, each redelivered without limit, give every
  order of two deliveries. The proofs of section 5 need no bound.
- *Two troubles in all* (constraint `TwoTroubles`) let a first failure be
  followed by one on its handling path (publish, then `MarkFailed`), by a
  signal or by a crash; two stops allow a signal and a crash, or two crashes
  with a restart between. `ClaimedNotForgotten` excuses two troubles, wherever
  they fall, because a failed publish followed by a failed status write leaves
  nothing; it is a statement about one failing call or one stop.
- *Three jobs on one clone* are needed for the lock: a holder, one that was
  refused, and one that cleans up or finds the stale lock. One failing removal
  leaves a lock without a holder, or a half-made clone, to two others.
- *Two items* per loop of the pipeline let one succeed and the other fail.
- *Two pushes, of the commits 2 and 4 of four,* leave a commit between them that
  never came to a job, and come in either order; the merge is the first, since
  its parent is then not where a full scan of a later tip ends. With one lock
  that fails, three jobs are two that work side by side and one before or after.
- *The other job* of the pipeline meets a full scan only (constraint
  `OtherMeetsFullScan`): both strategies save and undo quests by the same
  calls, and the full scan has more steps around them.
- *Five lines* of Python are a class, a method, a nested block, a call and
  whatever disturbs; *six* of Java are a class, a method, a block, a call, and two
  more to open and close a comment or to close what is open. A blank line left
  of the body, the shortest thing that misleads the Python scanner, needs three.
- *Three names* give every cycle of length one to three, two cycles that share
  a name, and searches that enter a cycle from outside.
- *A file of two and lines up to three* let a line alone exceed the file, a
  rotation follow at once, and cleanup remove one, two or no archives; two days
  with `MaxAge` 0 let archives of both days meet. Two messages are enough to
  fill both limits.
- *Plans* of `MCRoadmap` have plain, missing, repeated and already numbered
  keys, and no phases or milestones at all; one, `Twice`, is not tame. Two scans
  are enough to overlap in a transaction, and two analyses to evaluate the same
  milestone. At most three of the four jobs start (constraint `ThreeStart`): two
  scans with an analysis, or two analyses with a scan.
- *Answers* of `MCContextGeneration` are no details, unnamed ones, one left out,
  the order changed and one doubled.
- `ChunksPartition` is evaluated for all sizes drawn from {0, 1, 2, 5}, up to
  four modules and three chunks; zero, equal, and one dominating module occur.
  The dynamic part runs the chunkings of the three-module instance.

`CHECK_DEADLOCK FALSE` stands in every configuration because every system may
stop: all messages deleted and the process down, all jobs ended, a provider
that leaves a run as it is.

### The properties in a sentence each

- `AnnouncedOnce`, `StatusAgrees`: at most one notification per job, never one
  that contradicts the column; jobs with a failed claim query are excluded,
  because for them the code really announces both.
- `UnclaimedKeepsMessage`: no error before the claim costs the message.
- `ClaimedNotForgotten`: after the claim, a job is in somebody's hands or has an
  outcome; excused are a process that died with it (its redelivered message is
  then deleted silently) and two troubles anywhere.
- `EveryJobSettles`: as long as strategies end (`StrategiesEnd`), every valid job
  gets an outcome, with the same two excuses.
- `StoppedIsQuiet`: when `wg.Wait` returned, no goroutine and no received
  message remain.
- `ExclusiveUnlessDisturbed`: two jobs are in the critical section only after
  the rename race, or after a cleanup or checkout deleted the lock. Refusals,
  failures and releases never open the door.
- `DiskInv` (`LockHasHolder`, `PartialIsInProgress`), `StaleLockStays`: a lock is
  held, its holder was killed, or removing it failed; nobody takes over a dead
  job's lock; a half-made clone is being made, its maker was killed, or it lies
  among files that were there or could not be cleared. No return path and no
  cleanup adds a case.
- `FailureLeavesNoTrace`: a failed job leaves only what went astray,
  `last_evaluated_at`, and, if it changed no milestone, its milestone
  evaluations: the code adds no undo for these two.
- `CompletionStays`: a quest completed by one of two jobs is active again only
  if a job that completed it rolled back. If both completed it, one rollback
  reopens what the other announced: `RevertQuestCompletion` goes by id.
- `StorageInv` (`RowHasObject`, `DerivedNeedsKB`), `FinalIsFinal`,
  `ResultIsStored`: a row stands without its object only if the rollback, which
  deletes the object first, comes to the row with its very next call (and may die
  before it), or a call about the row itself gave no sure answer (its insert took
  effect unnoticed, or its deletion failed); undoing goes backwards; nothing is undone after the
  roadmap or the keywords, which have no undo; the notification names exactly
  what is stored.
- `ReportsInv` (`VersionsFollowIds`, `ChainUnbroken`): on one clone whose lock
  was neither replaced nor deleted, versions rise with ids and each update extends
  the report before it. Where the lock failed the code promises neither.
- `KBSound`: an update's diff starts where its base's knowledge ends, but for
  four cases in the code: the base is a full scan (which records no commit) of
  something other than the push's parent; a merge is compared with its first
  parent; the file list could not be read; the answer did not parse.
- `RoadmapInv` (`LinksResolve`, `MilestonesOnce`), `LinkFollowsKey`: quests point
  to milestones that exist, whichever transactions overlap; stored milestones are
  distinct, but for plans that are not tame and scans that overlapped; and a quest
  gets the milestone whose key it was told.
- `RollbackRestores`, `FinalStays`: an analysis alone takes back exactly what it
  did; milestones decided by one job stay decided for those that come after it
  (jobs that overlap it, or whose calls fail, are excused).
- `ModulesKept` (`ChunksPartition`, `DetailsAreWhole`): every module in one chunk,
  and the result of every chunk in the overview, in order; where an answer kept to
  its modules, or did not parse, with details of exactly these. If none went
  astray the overview is told of every module once.
- `TemporaryFiles`, `NothingLeftBehind`, `AnswerIsWhole`: a file lives as long
  as an upload reads it; each object created at the provider is asked to be
  deleted; an answer comes from a run that had all the files.
- `CancelEndsGeneration`, `EndsIfProviderDoes`: a cancelled generation ends
  whatever the provider does; any generation ends if no run stays unfinished.
- `PyStacksFollow`, `PyOwnersEnclose`: the stacks hold open blocks only, exactly
  these as long as no line misled the scanner, and whatever the file looks like
  a call lies in the lines `findBlockEnd` computes for its caller.
- `JavaClassesFollow`, `JavaCallersEnclose`: classes and methods are filed under
  the class they are in and calls under a method around them, through nesting and
  block comments, unless the file has one of the layouts named in the properties:
  one-line bodies, braces on the next line, and lines misread (`Misread`: braces
  counted wrong, marks of comments in texts).
- `CyclesFound`, `DepthIsLongestChain`: in every order of the search the count is
  positive exactly if there is a cycle, and the depth is the longest chain.
- `InFlightCounts`: the gauge is what started less what finished, which is the
  analyses at work and those that lost their claim.
- `FailureCostIsBounded`, `SpaceBounded`, `LogSpec`: a failing call or a death
  costs the line in hand, or one archive where the directory could not be read,
  and nothing else replaces an archive; only after a failing `Close` is the log
  deaf until the next start; files stay within their limits by a margin per
  failure; the files together are a bounded log.

## 4. Fairness

*AnalysisConsumer*: weak fairness of the listener's poll and spawn and of each
goroutine's single calls to AWS and MySQL (`ShortStep`: the Go scheduler; that such
a call returns, with an error at worst, is assumed), of `ProcessExit` (main returns after the signal),
of `Restart` (`Restart=always` of the systemd service in `.github/workflows/deploy.yml`) and of `Redeliver` (SQS makes an
undeleted message visible again). Signals, crashes and failing calls are not
fair. `Poll` is one action over all sets of visible messages, so nothing says
*which* message SQS hands out; with two messages this does not starve either,
because a message handled is deleted or comes back behind a bound on faults.

There is no fairness of `Work`. A strategy polls an assistant without a deadline
(`openAiStrategy.go:185`) and clones and fetches without one, so it may hang for
ever with its token of the semaphore. That strategies end is a premise of
`EveryJobSettles` (`StrategiesEnd`), and no fact of the code.

*ContextGeneration*: weak fairness of the steps of the generation and of each
call that are not errors (errors are bounded and never forced), and none of the
provider's runs: that a run moves is a premise of `EndsIfProviderDoes`, not an
assumption.

The other modules state safety only and have no fairness.

## 5. Proofs

Eight modules hold theorems, each about the component it is named after;
`AnalysisConsumer_proofs` has the refinement of JobLifecycle too,
`ContextGeneration_proofs` covers AiRequest, and `CodeGraph_proofs` the two
scanners and the metrics. They hold for every value of
the constants that satisfies the module's assumptions, so the bounds of
section 3 do not restrict them: the numbers of jobs, goroutines, messages,
files, failing calls and crashes are arbitrary.

| Module | Theorem | Says |
|---|---|---|
| `AnalysisConsumer_proofs` | `TypeCorrect`, `SemaphoreCorrect` | `TypeOK`, `SemaphoreCounts` always hold |
| | `ClaimExclusiveCorrect` | so does `ClaimExclusive` |
| | `AnnouncedOnceCorrect`, `StatusAgreesCorrect` | `AnnouncedOnce`, `StatusAgrees` |
| | `StoppedIsQuietCorrect`, `UnclaimedKeepsMessageCorrect`, `ClaimedNotForgottenCorrect` | the rest of the consumer's invariants |
| | `LifecycleCorrect` | `Spec => LifecycleSpec`: the consumer implements JobLifecycle |
| `Workspace_proofs` | `DiskCorrect`, `ExclusiveCorrect` | `DiskInv`, `ExclusiveUnlessDisturbed` |
| | `StaleLockCorrect` | `StaleLockStays`, about steps |
| `AnalysisPipeline_proofs` | `FailureLeavesNoTraceCorrect`, `StorageCorrect`, `FinalCorrect`, `ResultCorrect`, `CompletionCorrect` | all its invariants |
| `ContextGeneration_proofs` | `AnswerCorrect`, `NothingLeftCorrect`, `TemporaryFilesCorrect` | `AnswerIsWhole`, `NothingLeftBehind`, `TemporaryFiles` |
| | `ModulesKeptCorrect` | `ModulesKept` |
| `CodeGraph_proofs` | `PyStacksCorrect`, `PyOwnersCorrect` | `PyStacksFollow`, `PyOwnersEnclose` |
| | `JavaClassesCorrect`, `JavaCallersCorrect` | `JavaClassesFollow`, `JavaCallersEnclose` |
| | `CyclesCorrect`, `DepthCorrect` | `CyclesFound`, `DepthIsLongestChain` |
| `KnowledgeBase_proofs` | `ReportsCorrect`, `KBSoundCorrect` | `ReportsInv`, `KBSound` |
| `Roadmap_proofs` | `RoadmapCorrect` | `RoadmapInv`, for any plans and any overlap |
| | `LinkFollowsKeyCorrect`, `RollbackRestoresCorrect`, `FinalStaysCorrect` | its three properties of steps, likewise |
| `Telemetry_proofs` | `InFlightCorrect`, `FailureCostCorrect`, `SpaceBoundedCorrect` | all its invariants |
| | `LogCorrect` | `Spec => LogSpec`: the rotated files implement BoundedLog |

### Assumptions

On constants, only the named assumptions of the modules: that functions on
constants have their types (`JobOf`, `RepoOf`, `Layouts`, `FilesOf`), that
`None`, `NoJob` and the like are not values of the other kind, that bounds are
numbers, that there are finitely many names in a call graph, and two about the
program: capacity and batch size are positive (section 6), and a line of an error
is longer than a plain one. No theorem has a hypothesis of its own. What the code
does not keep is an excuse in the property, over history variables that the model
sets where it happens: a lock that was disturbed, an answer that went astray, a
line that was misread, a plan that is not tame.

*Tame plans.* `UniqueKeys` appends its place to a repeated key, once when the
plan is generated and once when it is stored. After the second time all keys
are distinct, unless a key is another one with that one's place appended
*twice*: `a-4-4`, `a-4`, `a`, `a` become `a-4-4`, `a-4`, `a`, `a-4` and then
`a-4-4`, `a-4`, `a`, `a-4-4`. `TamePlan` excludes exactly this form, and lemma
`SecondParts` shows that it suffices. The AI may write other plans: they are
`untame`, and links, rollbacks and statuses do not depend on it.

### Inductive invariants, and why they are needed

Hardly any property is inductive by itself: what keeps it true is knowledge that
the code has at one step and uses at a later one. The invariants below name
that knowledge.

*AnalysisConsumer.* `TypeInv` adds `HoldsJob` (a goroutine at the claim or later
has a message that names a valid job) and `SemaphoreCounts` to the types: `Exit`
gives a token back, so `sem ∈ Nat` needs that the semaphore counts the live
goroutines. `ClaimInv`: no write brings a job back to `QUEUED`, so a claim that
was won is never won again. `OwedInv`: of the goroutines that won a job and
have not announced an outcome there is one, and the step it is at determines
the statuses and failures possible.

Of a job and its message, `QuietInv`: only a listener that spawns has received
messages. `KeepInv`: a goroutine that deletes its message silently has no job or
one that left `QUEUED`. `RememberInv`: a goroutine at its last call has either
written a status or met a trouble already, so losing the job takes two.
For the refinement, `OwedInv` says what a protected job's status may be when a
goroutine writes it, and `HandInv` the little that is known of doubtful ones;
each action is shown to be one of JobLifecycle's or to leave the four mapped
variables alone (`LifecycleStep`).

*Workspace.* `LockInv` adds two facts to `LockHasHolder`. `LockIsOfSection`: who
is in the section of a clone wrote its lock unless the clone was disturbed.
`StaleKeepsOut`: with a dead job's lock before it no job can be in the section or
about to rename. A lock that could not be removed keeps others out just as well,
so nothing more is needed for it.

*AnalysisPipeline.* `TraceInv` is an account: every effect in `world` is in the
rollback list, in hand between two steps (`InHand`), astray, or one of the
two without an undo. `ObjectInv` says why a row is alone so briefly: in the
rollback list the undo of a row comes straight after that of its object
(`Paired`), and a row that failed to be inserted is out or astray (`RowLater`).
`BaseInv`: the undo of the knowledge base's row is last, so
nothing derived is left when it goes. `ResultInv`: while the job goes forward,
its result is what it stored. `MineInv`: it reopens only quests it completed.

*ContextGeneration.* `WholeInv`: a call is past its uploads only with all of its
files. `CleanInv`: each object a call created is covered by a deferred
deletion, or is an upload still to be collected. `StageInv` ties the chunk calls to
the stage of the generation, and `FilesInv` says that an upload not yet made
finds its file. `Loop` is the invariant of `chunkModulesByNodeCount` after each
module: closed chunks and the current one, in a row, are the modules so far;
`count` is the nodes of the current one; every closed chunk fits (one module, or
no more than its share), and the current one does unless it is the last
(`PlaceKeeps`). `KeptInv` carries this to the overview: once split, the chunks in
a row are all modules; a result that did not go astray is told of its chunk
(`FilledKeeps`), and from `Join` on the details are the results in a row. `OwnTypes` has the
rest of the types; that a call defers the deletion of its own objects only is
part of them.

*CodeGraph.* Python: frames get deeper towards the top (`Deeper`), so popping
leaves exactly those left of a line (`PoppedIs`); frames and blocks know each
other by line *and* indentation, so that both leave together (`FollowInv`); the
node of a frame on a stack has not ended (`NodesInv`), which is why a call lies
within its caller although `findBlockEnd` computes the end on its own.
Java: while no mark was mistaken the scanner is in a block comment exactly when the
file is (`CommentInv`), so that it skips nothing else; while braces are also
counted right the depth is the length of the nest (`CountedInv`), and the depth kept with a class or the current method is the
place of that class or method in the nest (`FiledInv`, `MethodInv`).
The search for cycles: the path is a chain of distinct names coloured "stack"
(`PathInv`), and as long as no cycle was counted every callee the search is
through with is done (`NoneYet`): a cycle among done names would need a callee
that was on the path when it was met. The depth: the longest chain from each
name, past those being visited, solves the equation of `DepthFrom`
(`LongestDeepens`), and by induction on the names that are left it is the
only solution (`DepthIs`).

*KnowledgeBase.* `LockInv`: a job at work holds the lock of its clone until that
is disturbed; so jobs of one clone work one after the other until then.
`NumberInv`: versions are at most the number of rows ever stored.
`HistoryInv`: on one such clone, a job's version is above all rows and its base
the last of them, from the query to the insert minutes later. `HonestInv`:
every row tells what it describes or was blamed.

*Roadmap.* `RowsInv`: ids are distinct and new (a cardinality argument, since
`Inserted` counts what goes before a row), keys are distinct unless the rows are
`muddled`. `SeenInv`: a transaction that has read a phase has read its milestones,
so that what it leaves still fits together. `ScansInv`: the key a quest names is one of the plan, and
keys of a plan survive the second normalisation (`KeysKept`). `EvalsInv`: what will be
restored is what was read. `AloneInv`: an analysis alone finds each
milestone as it was read or has raised it, and `OverlapInv` says who is alone.

*Telemetry.* `StepInv` says what each step knows of the open file, `ActiveInv`
and `ArchiveInv` how full the files can be there, with a margin for each
failing call; `OrderInv` that lines are in order of their days; `LostInv` is
the account of lines and archives. `CountInv` relates the gauge to the set of busy
goroutines and to the counter. For `LogCorrect`, `KeptIs` and `Cut` say what
removing one file does to the concatenation of all; a removal is then a `Trim` or
`Expire` of BoundedLog, an append a `Write`, a rename that saw all archives a
stutter, and one that did not an `Unread`: it takes one archive at most, and the
active file behind it is not empty.

### Recursion

The provers cannot use the library's induction theorems, which take an operator as
a parameter. Recursive *functions* are reasoned about with a set in its place:
lemma `Induction` (a set with 0 and all successors has every number) and
`Least`, both from the well-foundedness of `<` on numbers. In this way what
`SizeOf`, `Archived`, `NextIndex` (LogRotation), `UniqueKeys` (Roadmap), `Nodes`,
`Chunked` (ContextGeneration) and `DepthFrom` (CallGraphMetrics) compute is proved
for every input, as lemmas. Where a recursion only goes from each number to the
next, lemma `Recursion` gives its solution once and for all, with a function in
the place of the operator, and `Alike` says that there is no other.

### Only model-checked

Liveness: `EveryJobSettles`, `CancelEndsGeneration`, `EndsIfProviderDoes`. The
prover has no rules for fairness. Every other property of a passing run is stated
by a theorem.

## 6. What disagrees with the code's own words

Three runs end in a violation on purpose; each quotes a comment of the code.
Details and lines are under `findings`.

1. **The lock is not atomic** (`LockExclusive`). `CreateLockFileAtomic` renames a
   temporary file over `.lock`, which succeeds if `.lock` exists. Two jobs that
   both looked first both work.
2. **A refused job moves the tree** (`AnalysisReadsOwnCommit`). Checkouts precede
   the look at the lock, so a running analysis reads another job's commit.
3. **A status can go down** (`NeverDowngraded`). Each evaluation is compared with
   the status read at the start; the second of two evaluations of a milestone
   may lower what the first raised.

Seen while modelling, without a run of their own. In the worker:

- The log says "waiting for in-flight jobs" (`bootStrap.go:93`), but `AppStart`
  returns and `main` ends while `wg.Wait` still waits in the listener's
  goroutine. Jobs under way stay `RUNNING` and are never taken again: the
  excuse "interrupted" of `ClaimedNotForgotten` and `EveryJobSettles`.

- Making keys unique twice still leaves equal ones in plans such as `a-4-4`,
  `a-4`, `a`, `a` (section 5); the quests that name the key get the last.
- Two full scans whose transactions overlap both insert their roadmap, since
  `deleteProjectRoadMapTx` reads which rows to delete without locking them
  (`db.go:252-291`). Two jobs that came past one lock, or work in two clones, get
  there (`MilestonesOnce`), and so do two reports with one version
  (`VersionsFollowIds`).
- A lock that cannot be removed stays, and the error is only logged
  (`normalAnalysisStrategy.go:160-164`, `fullScanStrategy.go:153-157`): every later
  job on the clone is refused until a cleanup or a checkout deletes it
  (`unremoved` in `LockHasHolder`).
- A clone into a directory that is not empty, such as one an artifact write brought
  back, is not cleared away when it fails; the next job fetches into half a
  repository (`halfMade` in `PartialIsInProgress`).
- `analyzeModuleChunk` keeps the list of details the AI returned whatever it
  leaves out or doubles (`projectContext.go:354-373`; `astray` in
  `DetailsAreWhole`), and nothing tells the overview that modules are missing.
- A failed version query stores version 1, so `GetLatestProjectKBReport` keeps
  returning an older report (`VersionsFollowIds` and `ChainUnbroken` exclude it).
- An error of `DiffFileList` is taken for an empty list, and the base's text is
  stored under the new commit (a blamed case of `KBSound`).
- Cleanup looks for `.lock` and `.touch` in the installation directory, while
  both lie, or would lie, one level deeper; it therefore neither spares locked
  clones nor finds the oldest (the order of deletion is left open here).
- The deferred deletions use the context of the call, so after a cancellation
  the client refuses to send them (`NothingLeftBehind` says they are asked for).
- A concurrency of 0 would make the listener block for ever; the model assumes
  a positive one, like the default.
- A goroutine that loses its claim has announced the start of an analysis and
  never announces its end: `analysisInflight` stays one too high until the
  process restarts (`skipped` in `InFlightCounts`).

In the log:

- A failing `Close` leaves `w.file` closed but not nil. If the file is full,
  every later line tries to rotate and fails at the same `Close`, until the
  process restarts (`closeFailed` in `FailureCostIsBounded`).
- `nextArchivePath` takes an error of reading the directory for an empty one, since
  `filepath.Glob` hides it: the index starts again at 0 and `os.Rename` replaces
  the first archive of the day (`rotating_writer.go:114`, `129-147`;
  `unread`, `replaced`).
- A failing `Stat` in `rotate` skips the archiving; the file goes on growing.
- `jsonOpts.Level` is changed after `NewJSONHandler` has copied the options, so
  the debug setting does not reach the JSON handler.

In the code graph:

- Python: `from x import a,` or `from x import (a,` ends in an empty name, and
  `strings.Fields("")[0]` panics. Nothing recovers, so the process dies with the
  job `RUNNING`; a redelivered message is then dropped (`"panic"` in CodeGraph).
- Python: a blank line has indentation 0 and pops both stacks, so calls after it
  are lost and later methods become functions, although `findBlockEnd` skips
  blank lines. Comments and strings at the margin do the same; `async def` is
  not seen; nested functions share the IDs of top-level ones.
- Java: the depth of the current method is taken behind its `{`, and the method
  ends with the first line that is not deeper: calls directly in its body are
  not recorded, only those in nested blocks. One-line classes, a brace on the
  next line, the word "class" in a text and braces in comments move methods to
  other owners; a one-line method stays the caller of what follows. A `/*` in a
  text such as `"/api/**"`, or behind `//`, swallows all lines up to the next `*/`
  with their braces; code behind `*/` is lost; escaped quotes and `'"'` make the
  loop see braces in texts and miss those of blocks.
- Metrics: how many cycles are counted depends on the order of the map; the
  longest chain is searched in exponential time; a call's target is the text of
  the call, which seldom equals the ID of a node; classes, enums and records are
  counted as no type; `isExternalImport` ignores the language.
- `extSet` includes directories a strategy skips and extensions in capitals, so
  a strategy may match and find nothing.

## 7. Assumptions

- SQS message bodies are never nil. An unsupported event type is refused by
  `buildStrategyMessage`, so the later check of the strategy never fails alone.
- A notification is one `SendMessage`; duplicates made by the queue itself are
  not counted.
- `os.RemoveAll` of one installation is one step. That go-git's `PlainClone`
  clears a directory it created or found empty, and no other, when it fails, is
  taken from its source. A forced checkout deletes an untracked
  `.lock` or does not (the model allows both).
- Rows of evaluations have no foreign key to milestones.
- In AnalysisPipeline an answer evaluates each quest and milestone once; several
  evaluations of one milestone are in Roadmap.
- Jobs of KnowledgeBase and Roadmap do not crash (a crash leaves a row as `Undo`
  with an error does, and a lock as a failing `Unlock` does). The clean reading of
  rows by `BeginReplace` and the deletions and insertions of `Replace` are two
  steps of a transaction; its commit is not apart from the second.
- In ContextGeneration a module is its place in the order of size; ties make no
  difference. In Roadmap the AI's evaluations are drawn one at a time, since
  nothing depends on later ones.
- CallGraphMetrics keeps a set of callees per name: a call repeated in a method
  changes counts, not whether there is a cycle. `implements` edges are left out.
- PythonStrategy and JavaStrategy leave out the texts of names: nodes are known
  by their lines, so that equal IDs do not hide a wrong owner.
- Telemetry has the events of messages and analyses only; those of steps and of
  the worker are further lines of the same kind. The day may change inside a
  rotation. No more than one process writes the log.
- Whether a deletion at the provider takes effect is the provider's matter.

## 8. What is not modelled

- The Go strategy: the tree comes from `go/parser`, and what is made of it is a
  walk without state. `codeContent`: reads of the tree, in Workspace.
- Matching of the regular expressions themselves: a line has the form they find.
- The counts of `metrics.go` and `signals.go`: counting and text matching.
- Prompts, answers and formats; an answer parses or does not.
- Handlers, attributes and formats of `logger`; counters and histograms of steps
  and messages in `metrics`, their rendering and the HTTP server.
- `config` and `apperrors`; connection set-up of `db` and `s3`.
- The Windows disk strategy: the same control as the Linux one.
- The main server behind the queues, which puts jobs in and reads notifications.

## 9. Plan

Done, in this order: AnalysisConsumer and JobLifecycle with the first proofs
(what every job depends on); Workspace (what jobs share); AnalysisPipeline (what
a job leaves); KnowledgeBase and Roadmap (what jobs hand to each other);
AiRequest and ContextGeneration (fan-out inside one job); the quests of two jobs
(in AnalysisPipeline); PythonStrategy, JavaStrategy, CallGraphMetrics and
CodeGraph (what an analysis reads); LogRotation, BoundedLog and Telemetry (what
it tells).

Next, modules:

1. *VisibilityHeartbeat*: the heartbeat's ticker and its stop channel against
   the message's deletion (`sqs.go`); to refine `Redeliver`.
2. *Connections*: the start of `db` and `s3` and a metrics server that cannot
   listen, if they show anything.

Runs are kept at a dozen: new questions about a module extend its instance
before they get a configuration of their own, and invariants that need no run
of their own are bundled.

Proofs, done in this order: AnalysisConsumer, JobLifecycle, Workspace,
AnalysisPipeline, ContextGeneration with AiRequest, KnowledgeBase, Telemetry with
LogRotation, Roadmap, CodeGraph with its scanners and metrics, the chunks of
ContextGeneration; both refinements are among them. A new module's theorems
would join the proofs of the component it extends: eight modules hold theorems,
and no more are wanted.
