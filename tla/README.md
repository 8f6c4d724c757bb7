# A TLA+ verification of Graft64

Graft64 (`src/` in what follows) is at its feasibility stage: an iOS host app,
GraftHost, that runs a set of probes (can this device run generated code, start
a helper process, share memory with it, survive suspension?), and a Linux
pipeline that builds an ARM64 runtime of Wine and FEX, describes it in a
manifest and tests it. This directory models both halves, checks the models
with TLC, and proves every safety property that a passing run checks with TLAPS, for all
values of the constants.

To reproduce: `tlc -config <cfg> <module>` for each row of "Runs", `tlapm <module>` for
the eight modules whose names end in `Proofs`. `PROJECT.json` holds the map from
definitions to source lines, the runs, the mutants, the hazards and the theorems.

## 1. Inventory

### The app half

| component | source | state it keeps | operations |
|---|---|---|---|
| probe engine | `platform/darwin/graft_probe.c` | configured paths; the lifecycle flags and code cache | `graft_run_probe`, `graft_run_all_probes`, `graft_configure_*`, `graft_lifecycle_note_*` |
| helper session | `graft_probe.c:150-190, 579-668` | per call: socket pair, shared page, deadline, child, what it has seen | `helper_roundtrip` in three modes |
| helper process | `probes/helper/main.c` | a counter and the shared page | read a request, mark, reply, exit on SHUTDOWN |
| IPC protocol | `graft_ipc_protocol.[ch]` | none | header validation, encode and decode |
| process adapter | `graft_process.c` | the file actions of one spawn | `graft_spawn_helper` |
| JIT region | `graft_jit.c` | a mapping, its backend and protection, the per-thread write protection | `alloc`, `write`, `invalidate`, `commit`, `free`, `check` |
| JIT probes | `graft_probe.c:342-415` | thread arguments | `jit_basic`, `jit_write_protect`, `jit_multithread` |
| other probes | `graft_probe.c:192-344, 417-571` | per call; the signal probe has process-wide handlers, and thread-local variables that outlive it | paths, dylib, page model, signal resume, Unix socket |
| GraftHost | `app/GraftHost/Sources` | result rows, export, settings, scene phase | the buttons and scene handlers |
| logging | `graft_log.c` | a callback | one line to it or to stderr; nothing calls it |

### The runtime half

| component | source | state it keeps | operations |
|---|---|---|---|
| upstream fetch | `scripts/fetch-upstream.sh` | archives, extracted trees, `fetched-manifest.tsv` | download, check hashes, extract |
| runtime build | `build-runtime-linux-arm64.sh`, `apply-patches.sh`, `prepare-*` | `build/`, `root/`, `prefix/`, the fingerprint, the applied patches | clear, extract, patch, configure, compile, install |
| manifest | `generate-runtime-manifest.py`, `verify-artifacts.sh` | manifest and checksum file | generate, verify |
| baseline | `run-linux-baseline.sh` | sample logs, the test report | run the samples, attest them |
| packaging | `package-ipa.sh`, `verify-package.sh` | IPA and checksum | build, zip, verify |
| data, CI, host tests | `deps.lock`, `patches/`, `containers/`, `tests/`, `.github/` | none at run time | |

### How they interact

GraftHost calls the probe engine on the main actor, one probe at a time, and
gets each result through a callback; scene changes call
`graft_lifecycle_note_background` and `_foreground`, which share the code cache
and its flags with the probe `lifecycle_jit`. A helper probe calls the process
adapter, which starts the helper; the two then share a socket pair and one page.
The JIT probes, `graft_jit_check` and the lifecycle code are the users of the
JIT region. In the other half everything interacts through files under
`out/runtime-linux-arm64`, which outlive each script: the build leaves a root
and a fingerprint, the baseline reads the root and rewrites the manifest, and
the next build starts from whatever is there.

### What is hard, and what makes each part correct

- *Helper session*: two processes, a kernel and a deadline. Either process can
  die between any two system calls; the deadline can pass while the helper is
  exiting; somebody else in the app's process may collect the helper first.
  Correct: a PASS is earned, a FAIL has a cause outside the programs, replies never
  slip, nothing leaks, a helper is killed only past the deadline, a verdict is
  always reached, an orphaned helper leaves.
- *Process adapter*: five file actions whose order decides what the helper's two
  numbers mean. Correct: the right files, only those, and no copy of the host's end.
- *JIT*: permission changes while a probe runs, five platforms, three ways of
  making memory executable, a writer and several readers. Correct: no call of
  code that is not executable or is being rewritten, no leak, a PASS means the code ran
  everywhere, and the status on the first screen agrees with the probe but where
  the two read a refusal differently.
- *Signal probe*: handlers for the whole process, a fault on each of two threads,
  a jump over whatever follows the faulting access, and ten calls that may fail.
  Correct: every fault is caught, a PASS means four recoveries in this run, and
  handlers, stacks and the worker are given back on every way out.
- *Page probe*: it judges by return values, on hosts whose pages are smaller than,
  equal to or larger than what it protects. Correct: it reports what the kernel did,
  wherever it looks at what the kernel did.
- *Probe runner*: errno is shared by all probes, and a probe may fail by an errno, by
  a private code, or without setting errno. Correct: a result never shows another
  probe's error, a failure is always named, and a run of all probes gets to its end
  unless a probe ends the app.
- *Lifecycle*: the scene may move faster than the view is told; flags live in C,
  rows in Swift. Correct: the flags tell the truth about the cache, a PASS
  spans a visit to the background, no stale SKIP, one row per probe.
- *Fetch*: a cache that is filled in place by runs that may be broken off, under a
  lock that changes. Correct: what is handed to the build is the whole archive the
  lock names, whatever was left in the cache.
- *Runtime build*: incremental work on files left by runs that were broken off.
  Correct: what a completed build installs is what its inputs say, and a manifest
  that verifies does not claim patches or tests that belong to another root.

`PROJECT.json` lists every hazard at its line, with the property that covers it
or the reason why none does yet.

## 2. The modules

### HelperSession, and HelperVerdict above it

Three actors. The host's `host` variable is a program counter with one value per
place in `helper_roundtrip` where another actor may get in between: the four
setup calls and the spawn, poll, write, the two reads, the look at the shared
page, `waitpid`, the 10 ms sleep, the kill and the last wait. The reaping loop is
left in three ways: with the helper (`Reap`), past the deadline (`Resume`), and when
`waitpid` fails (`WaitFails`, `graft_probe.c:648`), after which the code sends SIGKILL
without a look at the clock. It fails when the helper is no longer there to be waited
for: `HelperTaken`, another wait in the app's process, or the kernel where SIGCHLD is
ignored. KillHitsOwnChild says that this is the only way in which the signal may go to
a pid that is not the host's child any more. The locals `ok`,
`hello`, `shared_ok` keep their names; `held` is the set of descriptors and
mappings the host owns, so that each early return's list of `close` calls is
`ClosedOnFailure(stage)`. The helper's `child` is the place in the loop of
`main.c`. The kernel decides about deaths, delivery of SIGKILL, and the clock
(`unset`, `running`, `expired`: only whether ten seconds are over matters).

Abstractions: a header and its payload are two messages, each moved whole
(stream buffers are larger by far); a message keeps its request id, whether it
is valid, and the class of its payload size. `path = "foreign"` stands for a helper of
another version: it answers each request it takes with one header of any content, and
the payload that header announces, does not know the shared page, and may exit at any
time, so that the host's checks are exercised. An executable that sends more than it
is asked for is not modelled; Lockstep and PassIsEarned say nothing of it. `fault`
records that something
outside the two programs went wrong (a refused system call, a crash, an
interrupted poll, the deadline, a helper collected by somebody else): `FailHasCause` says that without it the verdict
is PASS, that is, that no ordering of the two processes makes the probe fail.

`HelperVerdict` is the promise made to the caller: at most one helper, up to
quota requests served, one report, after the helper is gone; a PASS only for one
that served everything and exited cleanly. `Abs` in HelperSession is the
refinement mapping and `ImplementsVerdict` the claim, its liveness included.

### SpawnFds

Any assignment of three distinct descriptors, any others open around them, and
two limits of the child's table. `Numbers` is `highest + 1`, `highest + 2`; the
file actions run one by one in the child on `table`. The numbers 1022 and 1024
are the constants `HostLimit` and `HelperLimit`, of which only
`HostLimit + 2 <= HelperLimit` is assumed. The model's descriptors end at
`LastFd`, so that the limits can be met with small tables.

### JitProbes

`graft_jit_check` and the three JIT probes on one region, for iOS, an arm64 Mac,
arm64 Linux, an Intel Mac and another machine that cannot run arm64 code; `Apple` and
`Arm64` are what the code's conditional compilation asks for. `policy` is the answer to
the four kinds of request, each granted, denied or failing otherwise, and one answer
may change between any two calls (a debugger that enables JIT, memory pressure).
`Exits` are the ways out: each early return has its own, and `Freed` says which of them
call `graft_jit_free`, so that one forgotten call is seen. CheckAgrees compares the
check and `jit_basic` where both answer, on arm64. It allows the one case in which the
code reads the same refusal differently: a write that is denied makes the check say
DISABLED (`graft_jit.c:63-67`) and `jit_basic` FAIL (`graft_probe.c:358`). On an Intel
Mac the check may say ENABLED while `jit_basic` is SKIP. `region` carries protection,
backend, content (`99`: half written) and whether the instruction cache was
flushed after the last write; calling code that was not flushed may run the
earlier one. `unlocked` is the per-thread write protection of macOS. A call from
a thread for which the region is not executable faults, and nothing happens
after a fault. Assumed: `pthread_join` of a started thread succeeds, and
argument checks that no caller violates are left out.

### AppLifecycle

The handlers of ContentView and ProbeStore and the lifecycle state of
`graft_probe.c`. All of them run whole on the main actor, so a handler is one
action; what interleaves is the scene, whose phase (`scene`) may move on before
the view is updated (`seen`), and the end of the app. Two probes stand for the
twelve: only `lifecycle_jit` shares state with the handlers. A prepared cache that is
called may still fail to return 42, and always does so on another processor than arm64.

### SignalResume, PageModel, and ProbeEngine around them (instance: MCProbeEngine)

`SignalResume` gives each of the two threads a place (`at`) in
`signal_resume_once`; between any two of them the other thread may move. A fault
finds its handler or ends the app (`crashed`): the handler must be installed, the
thread's recovery point set, and the alternate stack still mapped. `resumable`,
`seen` and `signal` are the thread-local variables; those of the main thread stay
from run to run, those of the worker go with it. Which signal an access raises is
left open, and a page past the end of the file may be read without one. `saved`
are the handlers of before; sigaction may decline to put them back (`refused`). The
cleanup's `sigaltstack(&previous)` and `munmap` (`graft_probe.c:476-477`), whose results
the code ignores, are assumed to succeed: the stack is not in use and the mapping is
the probe's own.

`PageModel` counts in units of 4 KiB. `Mprotect` is the kernel: it refuses an
address inside one of its pages, changes whole pages, and may refuse any call for want
of memory. The size of the region and the page sizes are constants. PageModelTruth
holds for refused calls too, with one exception that it names: on a host of 4 KiB pages
the code claims `distinct` by the page size alone (`graft_probe.c:293-294`), also when
one of the two calls was refused and the two pages have the same protection.

`ProbeEngine` extends both with the engine: the configuration calls of
`ProbeStore.init`, each of which may turn its input down; `graft_run_probe`,
whose `Return` makes a row of the return value and errno; and
`graft_run_all_probes`. A row remembers which probe set the errno it shows
(`from`). The Unix socket probe and the dylib probe are modelled by their stages
and by what they hold. For the probes that have a module of their own only the
pairs of return value and errno are listed (`JitReturns`, `HelperReturns`,
`LifecycleReturns`), and that `jit_multithread` on arm64 and the helper probes may end
the app instead (`ProbeEndsApp`: findings 2 and 1). RunAllCompletes allows just that:
either all results, or those of every probe before the one that ended the app. ESRCH is counted with ENOENT, EPIPE and ETIMEDOUT with EIO
where the engine treats them alike.

### Fetch

`fetch-upstream.sh` command by command, and of `apply-patches.sh` the checks and
the extraction. Archives and trees are `absent`, `partial`, `whole`, or, for an
archive, `other` (the server sent something else). `Stop` ends either script
anywhere, for a failing command or a kill. Between runs the developer edits the
lock, with a matching hash or not, or deletes an archive, the only way to get rid
of a bad one. `PreparedIsLocked` is what RuntimeBuild takes for granted when its
`PrepareSources` starts from the sources the lock names.

### RuntimeBuild (instance: MCRuntimeBuild)

The build and the baseline as sequences of steps on the files under the output
directory, either of which may fail or be killed (`Fail`) between any two steps,
leaving everything as it is. Inputs are a commit and a patch for each of FEX and
Wine; of each source tree one file stands for all that a patch may touch, and
`Outdated` is what ninja and make decide from its date: a patched file has just
been rewritten, an unpatched one comes from the archive with its old date. The three
builds of FEX (`build-runtime-linux-arm64.sh:216-227`) count as one part: a stop between
them is not told from one before or after all three. The manifest and the report of the
baseline are written in place and may be left `Partial`.
Assumed: the two scripts are not run at the same time, and inputs are edited only
while neither runs. `Reverts` says whether inputs used before may come back.

### Bug definitions

A definition `BugX` before `X` is not part of the model. It is a plausible
mistake in the code `X` stands for (a forgotten close, `>` for `>=`, an error
kept after a success); with it in place of `X`, the property that
`PROJECT.json` names for it is violated. That is how each property is known to
say something about the code.

## 3. Runs

| run | module, cfg | what it shows | bounds |
|---|---|---|---|
| `session` | HelperSession, `HelperSession.cfg` | type, PassIsEarned, FailHasCause, NothingLeftBehind, KillHitsOwnChild, Lockstep, VerdictReached, OrphanLeaves, ImplementsVerdict | two sessions, all four paths |
| `session_sigpipe` | `HelperSessionSigpipe.cfg` | **violated**: HostSurvives | one session |
| `spawn` | SpawnFds, `SpawnFds.cfg` | type, ChildSeesItsFiles, HelperTakesNumbers | descriptors 0..5, limits scaled to 3 and 5, tables of 5 and 8 |
| `jit` | JitProbes, `JitProbes.cfg` | type, MainNeverFaults, NoCallDuringWrite, NothingLeft, PassMeansRan, CheckAgrees | five platforms, two readers, two calls each, any number of entries and of policy changes |
| `jit_reader_fault` | `JitProbesCrash.cfg` | **violated**: NobodyFaults | iOS, two readers, one call |
| `lifecycle` | AppLifecycle, `AppLifecycle.cfg` | type, CacheTruth, NoStaleSkip, OneRowEach, PassSpansBackground | two lives, three visits each |
| `lifecycle_manual` | `AppLifecycleManual.cfg` | **violated**: ManualRerunAnswers | one life, one visit |
| `engine` | MCProbeEngine, `MCProbeEngine.cfg` | type, FaultsAreCaught, PassMeansRecovered, SignalStateGivenBack, PageModelTruth, NothingHeldBetweenProbes, ErrorIsOwn, FailureIsNamed, RunAllCompletes | three machines, a region of four logical pages, any number of runs |
| `fetch` | Fetch, `Fetch.cfg` | type, RowsVouch, PreparedIsLocked | two commits, two edits or deletions, any number of runs |
| `fetch_trees` | `FetchTrees.cfg` | **violated**: FetchedTreesWhole | one commit, no edits |
| `build` | MCRuntimeBuild, `MCRuntimeBuild.cfg` | type, CompletedIsCurrent, TestsRanOnThisRoot, VerifiedPatches, FailedRetryLeavesNoPass | three successive inputs out of five, none twice |
| `build_reverted` | `MCRuntimeRevert.cfg` | **violated**: CompletedIsCurrent | the same, inputs may come back |

Why the bounds are enough. A session starts from fresh locals and a fresh child;
what could carry over is a descriptor, a mapping or a zombie, and a second
session meets all of those. Two readers show everything one reader can do while
another runs; a reader's calls do not depend on their number, and two tell the
last call from the others. Three visits cover a preparation that fails, one
that succeeds after it, and one that finds the cache. Three inputs cover the
completed build, the one that is broken off, and the one that follows; the five
candidates differ from one another in a patch, a commit, one part and both.
In the engine a probe leaves behind errno, the thread-local variables, handlers and
what it holds; the number of runs is not bounded, so every combination is met by
every later probe. A region of four pages with host pages of one, two and four has
the same cases as one of sixteen with one, four and sixteen: each offset aligned,
some aligned, and only the first. Two edits of the lock cover a new commit whose
hash is forgotten and then corrected, a commit that goes and comes back, and an
archive deleted before or after an edit.
In SpawnFds six descriptors hold any order of three with gaps below, between
and above.

Deadlock is checked in `lifecycle`, `fetch` and `build`. It is off where the system may
stop for good: after the bounded number of sessions, after the one spawn, after
a fault, and in `engine` after a probe that ended the app; that no probe of the engine
gets stuck otherwise is part of RunAllCompletes, which runs them all.

### Fairness

`session` assumes weak fairness of the host's next step (the process is
scheduled, and each system call has one of its outcomes), of the clock and of the
delivery of SIGKILL. Nothing is assumed of the helper, which may be suspended for
ever, and nothing of interrupted polls or crashes. This is what the code relies
on: `wait_fd_deadline` passes the time that is left to `poll`, and the reaping
loop sleeps and looks at the clock. Only OrphanLeaves assumes, as its own
premise, that the bundled helper is scheduled, since it claims what that helper
does by itself. `engine` assumes weak fairness of the engine's next step: the main
thread and the worker are scheduled, and every call returns. The socket calls are
bounded by deadlines of two seconds, and that a helper session returns is
VerdictReached of `session`; nothing is assumed of the user. The other specifications state no fairness and their properties are safety.

## 4. What is proved

Every invariant and every action property that a passing run checks is stated by a
theorem, for all values of the constants, that is, without the bounds of section 3.
In the table "also" marks results that no run states.

| module | theorems | holds for any |
|---|---|---|
| HelperSessionProofs | TypeCorrect, PassEarned, NoLeak, KillSafe, LockstepHolds, FailIsJustified; also KeepsThePromise | set of paths, number of sessions |
| SpawnFdsProofs | TypeCorrect, FilesRight, NumbersTaken | descriptor tables, limits, assignment |
| JitProbesProofs | TypeCorrect, MainThreadIsSafe, WriteExcludesCalls, EverythingIsFreed, PassIsEarned, CheckIsRight | readers, number of calls, platforms |
| AppLifecycleProofs | TypeCorrect, FlagsTellTheTruth, SkipIsReplaced, RowsAreUnique, PassIsEarned | number of visits and of launches |
| RuntimeBuildProofs | TypeCorrect, TestsAreOfThisRoot, RetryLeavesNoPass; without reverts BuildIsCurrent, PatchesAreVerified | commits, patches, inputs, number of edits |
| SignalResumeProofs | EveryFaultIsCaught, PassIsEarned, SignalStateIsGivenBack | number of runs of the probe |
| ProbeEngineProofs | EngineTypeCorrect, PageReportIsTrue, ErrorsAreOwn, FailuresAreNamed, NothingIsHeld; also RunsSignalSpec, ResultsComeInOrder | region size, page sizes, hosts, number of runs |
| FetchProofs | TypeCorrect, RowsAreTrue, SourcesAreLocked | commits, number of edits |

Each module is built alike: the inductive invariant, as a conjunction of named parts,
a lemma for `Init`, a lemma (or one per part) for `[Next]_vars` with one case per
action, and the theorems as consequences. Almost none of the properties is inductive by
itself; what each invariant adds is said here.

**HelperSessionProofs.** That a PASS is earned depends on where each request is at
every earlier step. `IInv` has four parts. `Types`: the types, with unbounded
counters. `Holdings`: exactly what the host owns at each value of its program
counter; this carries NothingLeftBehind through the early returns. `Custody`: when
there is a child to reap, that a kill of it comes only after the deadline, and that a
helper that has gone without being reaped was collected by somebody else. `Ledger`:
where each request is. Before a write everything sent has been served and both
directions are empty; while a header is awaited the one request is in the socket, in
the helper's hands, or answered, and what may still be in the other direction
follows from which. FailHasCause needs a further one, `Undisturbed`: as long as
`fault` is false, the exact answer the helper has given or will give to the request
in flight, with the HELLO's payload behind it or not, and that the helper leaves only
after the SHUTDOWN, cleanly. KeepsThePromise is the refinement of HelperVerdict
without its fairness: initial states map to initial states, and `AbsStep` maps each
action to a step of HelperVerdict or to a stutter.

**SpawnFdsProofs.** `Own` says that the host's table and the session's assignment
agree, `Chosen` that both numbers lie above every descriptor of the session and
differ, and `Placed` where each of the three files is to be found at each stage. The
only assumption used about the limits is `LimitAssumption`, which holds of 1022 and
1024.

**JitProbesProofs.** `InStep` says which thread may be where while the main thread is
where it is; it is what keeps readers and writer apart, and it rests on the joins
alone. `RegionFit` says what has been written and made executable by the time the main
thread calls it. `MainRan` and `TeamRan` relate the calls made to the values kept, the
counters and the failures noted, for any set of readers. CheckAgrees compares two
runs: `FollowsPolicy` says that the check and `jit_basic`, undisturbed, are
at each place, ways out included, where the policy in force lets them be, `AnswersFit`
that the answers kept are the ones that policy determines. The constants are assumed to name readers
other than `main` and `writer` and at least one call per reader; the code has four
readers with 1000 calls each, far from what TLC can visit.

**AppLifecycleProofs.** `InOrder`: the background is noted before the foreground, and
the cache comes from a visit that has begun. `AppendedShape` and `AppendedRows` say
what `ProbeStore.append` does to a list of rows, and serve both OneRowEach and
NoStaleSkip. PassSpansBackground is an action property, proved from the invariant for
each step that changes the rows. `MaxLaunches` must not be 0, since `Init` is the
first launch.

**SignalResumeProofs.** `StackHeld`, `HandlersHeld` and `WorkerWaited` say over which
places of both threads stacks, recovery points and handlers are in force; that the
main thread waits for the worker is why putting the handlers back cannot hit it.
`PagesHeld` says which pages stay mapped, `RecordTrue` that a thread's record is
clear before each access, so that nothing of an earlier run counts. The specification
is of `signal_resume` alone; RunsSignalSpec in ProbeEngineProofs shows that the whole
engine implements it, so that the three theorems hold of the app with all its probes.

**ProbeEngineProofs.** `PageInv` gives the protection of the first two logical pages
after each of the two calls that succeeded, and that the second can only succeed on
4 KiB pages; it rests on a few
lemmas of arithmetic (`InMapping`, `FirstTwo`) that hold for every page size, where TLC
sees three. `EngineTypes` adds that errno, while a probe runs, was set by that probe
or is 0; `Holding` which probe holds what; `RowInv` what a row says. ResultsComeInOrder
is the safety half of RunAllCompletes: what was reported, followed by what is still to
run, is at all times what was asked for, also when a probe has ended the app.

**FetchProofs.** `RowsInOrder` and `Hashed` connect the rows written so far with the
position in the lock; `Accepted` and `Unpacking` say that past the check the accepted
rows are the lock's, and which archives have been extracted. It is assumed that
`absent`, `partial` and `other` are not commits: the hash of a broken or foreign
archive is not that of a whole one.

**RuntimeBuildProofs.** `IInv` needs nothing of the inputs: `NoOldReport` that a retry
has removed the report and at most begun a new one, `TestsClaimed` that tests are claimed only for the root they
passed on. CompletedIsCurrent and VerifiedPatches assume `~Reverts`, and must: the run
`build_reverted` violates the former without it. Their invariant is `NothingStale`: from
the clearing on, and whenever the recorded fingerprint is that of the present inputs,
`build/` and `root/` hold nothing of other inputs; new inputs, never used before,
make every recorded fingerprint a stale one. `RootAsRecorded` connects the applied
patches on record with what is installed. `FileAssumption` keeps `Nothing` and
`Partial` apart from real contents.

Proving JitProbes showed that guards of a CASE in `AfterCommit` overlapped: TLC takes the
first, TLA+ leaves the choice open. The definition now orders them; the behaviour TLC
saw is unchanged. No theorem failed for a reason in the code
beyond the findings of section 5.

Only model-checked, because it rests on fairness and ENABLED, which are out of the
prover's reach: VerdictReached, OrphanLeaves, RunAllCompletes, and the liveness part
of ImplementsVerdict. What the checks show and the proofs do not is also that the
mutants violate the properties and that every action is taken. Nothing here needs
induction over data, and no module uses RECURSIVE.

## 5. Findings

1. `session_sigpipe`. `write_full_deadline` polls and then writes with SIGPIPE at
   its default action. A helper that dies in between ends the app, where the
   requirements ask for a definite PASS or FAIL.
2. `jit_reader_fault`. `jit_multithread` starts its readers without looking at
   the writer's outcome. If the writer's commit failed the page is not
   executable, and the app dies in the readers instead of reporting
   `"writer_thread_transition":false`.
3. `build_reverted`. The fingerprint names the inputs of the last *completed*
   build. After a build with other inputs was broken off and the inputs are
   taken back, it matches, and the objects of the broken-off build are installed
   as current. `VerifiedPatches` fails in the same way; in `build`, without
   reverts, both hold.
4. `fetch_trees`. A fetch that is broken off while it extracts leaves a partial
   tree. The next fetch sees the directory, skips the extraction and ends with
   "Fetched and verified". The build is not affected: `apply-patches.sh` extracts
   the verified archive again, which is PreparedIsLocked of `fetch`.
5. `lifecycle_manual`. With the automatic probe switched off the view never notes
   the return to the foreground. `lifecycle_jit` run by hand, which the requirements
   ask for, keeps returning SKIP and says that it will run automatically.

## 6. What is not modelled

- Pure formatting (result JSON, details, log lines), ELF and PE parsing, the JSON
  schemas and the parsing of the lock: text in, text or an error out, without state;
  what they compute by recursion or regular expressions is better tested.
- Views that only display, `AppInfo`, logging (no caller), samples, test data,
  the container and CI.
- Packaging (`package-ipa.sh`, `verify-package.sh`): a straight line around
  xcodebuild and zip whose outcome depends on those tools.
- Left out of a modelled part: message bytes, argument checks no caller violates,
  the UUID of the binary, submodule preparation, the guard on the output directory.

- A foreign executable that sends unsolicited or surplus replies, a failing cleanup in
  `signal_resume_once`, and a stop between the three builds of FEX (section 2).

Known behaviour that no property covers, each listed as a hazard: with JIT
denied, `jit_basic` says BLOCKED and `jit_write_protect` FAIL; on iOS the JIT
check gives up before the fallback the probes use, and on an Intel Mac it may say ENABLED
where `jit_basic` is SKIP; `signal_resume` would show PASS
if a handler could not be put back; a baseline that stops at its first checks
leaves the earlier report; the baseline attests a root under a lock edited since
the build.

## 7. Plan

Done, in this order: HelperSession, HelperVerdict, HelperSessionProofs,
SpawnFds, SpawnFdsProofs, JitProbes, AppLifecycle, RuntimeBuild, SignalResume,
PageModel, ProbeEngine, Fetch; then the proofs: SignalResumeProofs,
JitProbesProofs, AppLifecycleProofs, FetchProofs, the refinement and FailHasCause
in HelperSessionProofs, RuntimeBuildProofs, ProbeEngineProofs.

Left to model: a run for the baseline that stops early, and the lock that the
baseline attests, both as extensions of RuntimeBuild.

Proofs that could be added: under which condition weaker than `~Reverts` a completed
build is current (it should be enough that the inputs that come back are not those of the
recorded fingerprint), and that every fault that is left in `jit_multithread` is a
reader's, after a writer whose commit failed.
