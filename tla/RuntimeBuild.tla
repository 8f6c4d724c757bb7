----------------------------- MODULE RuntimeBuild -----------------------------
(***************************************************************************)
(* The Linux runtime build and its baseline test, as far as they decide    *)
(* what lies in out/runtime-linux-arm64 and what its manifest says of it:  *)
(*   - build-runtime-linux-arm64.sh: fingerprint of the inputs, clearing   *)
(*     of stale output, patched sources, incremental builds, manifest;     *)
(*   - run-linux-baseline.sh: test report and the manifest that names it;  *)
(*   - generate-runtime-manifest.py and verify-artifacts.sh.               *)
(* Either script may fail or be killed between any two steps; everything   *)
(* it has written stays.  They are not run at the same time, and the       *)
(* inputs are edited only while neither runs.                              *)
(*                                                                         *)
(* Of each source tree one file stands for all that a patch may touch, and *)
(* the three builds of FEX (arm64ec, wow64, unixlib) are one part.         *)
(***************************************************************************)
EXTENDS Naturals

CONSTANTS
  Commits, Patches,  \* what deps.lock and patches/ may hold for a part
  Inputs,            \* the combinations of them that there may be
  MaxEdits,          \* bound: edits of the inputs
  Reverts,           \* whether an edit may bring back inputs used before
  Nothing, Partial   \* no such file or directory; a file cut off while written

ASSUME BuildAssumption == MaxEdits \in Nat /\ Reverts \in BOOLEAN /\ "none" \in Patches
ASSUME FileAssumption ==
  /\ Nothing # Partial
  /\ Nothing \notin Commits /\ Nothing \notin Patches /\ Nothing \notin Inputs
  /\ Nothing \notin {"pass", "fail"} /\ Partial \notin {"pass", "fail"}

Parts == {"fex", "wine"}
Sources == [commit : Commits, patch : Patches]
ASSUME InputsAssumption == Inputs \subseteq [Parts -> Sources]
LockOf(i) == [p \in Parts |-> i[p].commit]
SeriesOf(i) == [p \in Parts |-> i[p].patch]

Trees == [Parts -> Sources \cup {Nothing}]

VARIABLES
  inputs,       \* deps.lock and patches/ now; the rest of the inputs is fixed
  used,         \* inputs there have been (history)
  edits,
  \* under out/runtime-linux-arm64:
  fingerprint,  \* build-input.sha256
  sources,      \* build/sources: the patch applied to each tree, by commit
  configured,   \* build/<part>: the source tree it was configured for
  objects,      \* build/<part>: what was compiled
  root,         \* what is installed
  applied,      \* applied-patches.json
  manifest,     \* runtime-manifest.json
  checksums,    \* runtime-manifest.sha256
  log,          \* logs/hello-*.log
  report,       \* g1-baseline-tests.json
  \* the running script:
  job, pc, wanted,
  tested,       \* the root on which the samples last passed (history)
  retryFailed   \* the last baseline began anew and got no result (history)

inputVars  == <<inputs, used, edits>>
buildVars  == <<sources, configured, objects>>
resultVars == <<manifest, checksums>>
testVars   == <<log, report, tested, retryFailed>>
vars == <<inputVars, fingerprint, buildVars, root, applied, resultVars, testVars,
          job, pc, wanted>>

NoTree == [p \in Parts |-> Nothing]
NoSources == [p \in Parts |-> [c \in Commits |-> Nothing]]

\* What a manifest says.
Claims(i, tree, tests) ==
  [lock |-> LockOf(i), patches |-> SeriesOf(i), artifacts |-> tree, tests |-> tests]

Init ==
  /\ inputs \in Inputs /\ used = {inputs} /\ edits = 0
  /\ fingerprint = Nothing
  /\ sources = NoSources /\ configured = NoTree /\ objects = NoTree
  /\ root = NoTree /\ applied = Nothing
  /\ manifest = Nothing /\ checksums = Nothing
  /\ log = Nothing /\ report = Nothing /\ tested = Nothing /\ retryFailed = FALSE
  /\ job = "none" /\ pc = "idle" /\ wanted = inputs

Goto(stage) == pc' = stage /\ UNCHANGED <<job, wanted>>
Finish == job' = "none" /\ pc' = "idle" /\ UNCHANGED wanted

\* A new lock or a changed patch series.
Edit ==
  /\ job = "none" /\ edits < MaxEdits
  /\ inputs' \in Inputs \ (IF Reverts THEN {inputs} ELSE used)
  /\ used' = used \cup {inputs'} /\ edits' = edits + 1
  /\ UNCHANGED <<fingerprint, buildVars, root, applied, resultVars, testVars, job, pc,
                 wanted>>

\* Where a baseline has begun anew and has no verdict of its own yet.
Retrying == {"generate", "write", "checksums", "sample", "report", "writereport"}

\* A command fails, the script dies, or it is killed.
Fail ==
  /\ job # "none" /\ Finish
  /\ retryFailed' = (retryFailed \/ (job = "baseline" /\ pc \in Retrying))
  /\ UNCHANGED <<inputVars, fingerprint, buildVars, root, applied, resultVars, log,
                 report, tested>>

-----------------------------------------------------------------------------
(* build-runtime-linux-arm64.sh *)

\* GRAFT_RUNTIME_CLEAN=1 asks for a clean build.  Fetching and checking the archives
\* changes nothing under the output directory.
BugStale == fingerprint = Nothing \/ LockOf(fingerprint) # LockOf(wanted)
Stale == fingerprint # wanted

StartBuild(clean) ==
  /\ job = "none" /\ job' = "build" /\ wanted' = inputs
  /\ pc' = IF clean THEN "wipebuild" ELSE "compare"
  /\ UNCHANGED <<inputVars, fingerprint, buildVars, root, applied, resultVars, testVars>>

Compare ==
  /\ pc = "compare"
  /\ Goto(IF Stale THEN "wipebuild" ELSE "sources")
  /\ UNCHANGED <<inputVars, fingerprint, buildVars, root, applied, resultVars, testVars>>

\* rm -rf of build/ and then of root/ (prefix/ plays no part here).
WipeBuild ==
  /\ pc = "wipebuild" /\ Goto("wiperoot")
  /\ sources' = NoSources /\ configured' = NoTree /\ objects' = NoTree
  /\ UNCHANGED <<inputVars, fingerprint, root, applied, resultVars, testVars>>

WipeRoot ==
  /\ pc = "wiperoot" /\ Goto("sources")
  /\ root' = NoTree
  /\ UNCHANGED <<inputVars, fingerprint, buildVars, applied, resultVars, testVars>>

\* apply-patches.sh: the trees of the locked commits are extracted and patched anew;
\* trees of other commits stay.
PrepareSources ==
  /\ pc = "sources" /\ Goto("applied")
  /\ sources' = [p \in Parts |-> [sources[p] EXCEPT ![inputs[p].commit] = inputs[p].patch]]
  /\ UNCHANGED <<inputVars, fingerprint, configured, objects, root, applied, resultVars,
                 testVars>>

\* The commits recorded in place of the series.
BugRecordOf(i) == LockOf(i)
RecordOf(i) == SeriesOf(i)

RecordPatches ==
  /\ pc = "applied" /\ Goto("fex")
  /\ applied' = RecordOf(inputs)
  /\ UNCHANGED <<inputVars, fingerprint, buildVars, root, resultVars, testVars>>

\* CMake turns down a build directory configured for another source tree; Wine is not
\* configured again once config.status is there.
Tree(p) == IF configured[p] = Nothing THEN inputs[p].commit ELSE configured[p]
CanConfigure(p) == p = "fex" => Tree(p) = inputs[p].commit

\* Ninja and make recompile a file that is newer than its object: one that a patch has
\* just rewritten.  An unpatched file comes out of the archive with its old date.
Outdated(p) ==
  objects[p] = Nothing \/ (Tree(p) = inputs[p].commit /\ inputs[p].patch # "none")

Compile(p) ==
  /\ pc = p /\ CanConfigure(p) /\ sources[p][Tree(p)] # Nothing
  /\ configured' = [configured EXCEPT ![p] = Tree(p)]
  /\ objects' = [objects EXCEPT ![p] =
       IF Outdated(p) THEN [commit |-> Tree(p), patch |-> sources[p][Tree(p)]] ELSE @]
  /\ Goto(IF p = "fex" THEN "installfex" ELSE "installwine")
  /\ UNCHANGED <<inputVars, fingerprint, sources, root, applied, resultVars, testVars>>

Install(p) ==
  /\ pc = (IF p = "fex" THEN "installfex" ELSE "installwine")
  /\ root' = [root EXCEPT ![p] = objects[p]]
  /\ Goto(IF p = "fex" THEN "wine" ELSE "generate")
  /\ UNCHANGED <<inputVars, fingerprint, buildVars, applied, resultVars, testVars>>

-----------------------------------------------------------------------------
(* generate-runtime-manifest.py, from the build and twice from the baseline. *)

\* Wine and both FEX modules are there, and the recorded patches are those of patches/.
Complete == \A p \in Parts : root[p] # Nothing
PatchesMatch == applied = SeriesOf(inputs)

Generate ==
  /\ pc \in {"generate", "attest"} /\ Complete /\ PatchesMatch
  /\ manifest' = Partial
  /\ Goto(IF pc = "generate" THEN "write" ELSE "writetests")
  /\ UNCHANGED <<inputVars, fingerprint, buildVars, root, applied, checksums, testVars>>

WriteManifest ==
  /\ pc \in {"write", "writetests"}
  /\ manifest' = Claims(inputs, root, IF pc = "writetests" THEN log ELSE Nothing)
  /\ Goto(IF pc = "write" THEN "checksums" ELSE "checksumstests")
  /\ UNCHANGED <<inputVars, fingerprint, buildVars, root, applied, checksums, testVars>>

WriteChecksums ==
  /\ pc \in {"checksums", "checksumstests"}
  /\ checksums' = root
  /\ CASE job = "build" -> Goto("verify")
       [] job = "baseline" /\ pc = "checksums" -> Goto("sample")
       [] OTHER -> Finish
  /\ UNCHANGED <<inputVars, fingerprint, buildVars, root, applied, manifest, testVars>>

\* verify_manifest
BugVerified ==
  /\ manifest \notin {Nothing, Partial}
  /\ manifest.lock = LockOf(inputs) /\ manifest.patches = SeriesOf(inputs) /\ PatchesMatch
  /\ Complete /\ checksums = manifest.artifacts
  /\ manifest.tests # Nothing => manifest.tests = log
Verified ==
  /\ manifest \notin {Nothing, Partial}
  /\ manifest.lock = LockOf(inputs) /\ manifest.patches = SeriesOf(inputs) /\ PatchesMatch
  /\ manifest.artifacts = root /\ Complete /\ checksums = manifest.artifacts
  /\ manifest.tests # Nothing => manifest.tests = log

Verify ==
  /\ pc = "verify" /\ Verified /\ Goto("record")
  /\ UNCHANGED <<inputVars, fingerprint, buildVars, root, applied, resultVars, testVars>>

\* The new fingerprint is moved into place.
Record ==
  /\ pc = "record" /\ Finish
  /\ fingerprint' = wanted
  /\ UNCHANGED <<inputVars, buildVars, root, applied, resultVars, testVars>>

-----------------------------------------------------------------------------
(* run-linux-baseline.sh *)

StartBaseline ==
  /\ job = "none" /\ job' = "baseline" /\ pc' = "check" /\ UNCHANGED wanted
  /\ UNCHANGED <<inputVars, fingerprint, buildVars, root, applied, resultVars, testVars>>

\* Wine and the tools are there.
Check ==
  /\ pc = "check" /\ root["wine"] # Nothing /\ Goto("clear")
  /\ UNCHANGED <<inputVars, fingerprint, buildVars, root, applied, resultVars, testVars>>

\* The old report stays until there is a new one.
BugCleared == report
Cleared == Nothing

Clear ==
  /\ pc = "clear" /\ Goto("generate")
  /\ report' = Cleared
  /\ UNCHANGED <<inputVars, fingerprint, buildVars, root, applied, resultVars, log,
                 tested, retryFailed>>

\* The samples run under the installed Wine; their logs are overwritten.
Sample ==
  /\ pc = "sample"
  /\ \/ log' = "pass" /\ tested' = root /\ Goto("report") /\ UNCHANGED retryFailed
     \/ log' = "fail" /\ Finish /\ retryFailed' = TRUE /\ UNCHANGED tested
  /\ UNCHANGED <<inputVars, fingerprint, buildVars, root, applied, resultVars, report>>

\* The report is written in place as well.
OpenReport ==
  /\ pc = "report" /\ Goto("writereport")
  /\ report' = Partial
  /\ UNCHANGED <<inputVars, fingerprint, buildVars, root, applied, resultVars, log,
                 tested, retryFailed>>

WriteReport ==
  /\ pc = "writereport" /\ Goto("attest")
  /\ report' = "pass" /\ retryFailed' = FALSE
  /\ UNCHANGED <<inputVars, fingerprint, buildVars, root, applied, resultVars, log,
                 tested>>

Next ==
  \/ Edit \/ Fail
  \/ \E clean \in BOOLEAN : StartBuild(clean)
  \/ Compare \/ WipeBuild \/ WipeRoot \/ PrepareSources \/ RecordPatches
  \/ \E p \in Parts : Compile(p) \/ Install(p)
  \/ Generate \/ WriteManifest \/ WriteChecksums \/ Verify \/ Record
  \/ StartBaseline \/ Check \/ Clear \/ Sample \/ OpenReport \/ WriteReport

Spec == Init /\ [][Next]_vars

-----------------------------------------------------------------------------
\* Every variable keeps its type.
TypeOK ==
  /\ inputs \in Inputs /\ wanted \in Inputs /\ edits \in 0..MaxEdits
  /\ fingerprint \in Inputs \cup {Nothing}
  /\ sources \in [Parts -> [Commits -> Patches \cup {Nothing}]]
  /\ configured \in [Parts -> Commits \cup {Nothing}]
  /\ objects \in Trees /\ root \in Trees
  /\ applied \in [Parts -> Patches] \cup {Nothing}
  /\ checksums \in Trees \cup {Nothing}
  /\ job \in {"none", "build", "baseline"} /\ (job = "none" <=> pc = "idle")

\* A build that completes has installed what its inputs say, however many builds with
\* other inputs were broken off before it: nothing stale is compiled in or left over.
CompletedIsCurrent ==
  pc = "record" => root = inputs

\* A manifest that verifies and lists passed tests was written after the tests had
\* passed on this very root, whatever was rebuilt, retried or cut off since.
TestsRanOnThisRoot ==
  (job = "none" /\ Verified /\ manifest.tests = "pass") => tested = root

\* A manifest that verifies vouches for a root that was built with the patches it lists.
VerifiedPatches ==
  (job = "none" /\ Verified) => SeriesOf(root) = SeriesOf(inputs)

\* A baseline that begins anew and fails, or is cut off before it has a result of its
\* own, leaves no report of an earlier success: there is none, or one cut off while it
\* was written.
FailedRetryLeavesNoPass ==
  (job = "none" /\ retryFailed) => report # "pass"
=============================================================================
