-------------------------- MODULE RuntimeBuildProofs --------------------------
(* Whatever the lock and the patches may hold, however often they are edited   *)
(* and wherever a build or a baseline is broken off: what the output directory *)
(* says of itself is true.  That a build does not pick up what a broken-off    *)
(* one left behind is only so while no edit brings old inputs back: those      *)
(* results assume ~Reverts, as the run of MCRuntimeBuild.cfg does.             *)
EXTENDS RuntimeBuild, TLAPS

BuildStages == {"compare", "wipebuild", "wiperoot", "sources", "applied", "fex",
                "installfex", "wine", "installwine", "verify", "record"}
SharedStages == {"generate", "write", "checksums"}   \* of the manifest's generator
\* The samples have passed.
Attesting == {"report", "writereport", "attest", "writetests", "checksumstests"}
BaselineStages == {"check", "clear", "sample"} \cup Attesting

Tests == {"pass", "fail", Nothing}
Manifests == [lock : [Parts -> Commits], patches : [Parts -> Patches],
              artifacts : Trees, tests : Tests]

\* Every script is at one of its own stages, and a build's inputs do not change.
Scripts ==
  /\ job = "none" <=> pc = "idle"
  /\ job = "build" => pc \in BuildStages \cup SharedStages /\ wanted = inputs
  /\ job = "baseline" => pc \in BaselineStages \cup SharedStages

\* What the test's files hold, and that all inputs recorded were used.
Files ==
  /\ TypeOK
  /\ manifest \in Manifests \cup {Nothing, Partial}
  /\ log \in Tests /\ report \in Tests \cup {Partial} /\ retryFailed \in BOOLEAN
  /\ inputs \in used /\ fingerprint \in used \cup {Nothing}

\* A retry has removed the report before anything else, and while it has no verdict
\* there is none, or the beginning of one.
NoOldReport ==
  /\ job = "baseline" /\ pc \in Retrying => report \in {Nothing, Partial}
  /\ retryFailed => report \in {Nothing, Partial}

\* There is a whole manifest.
Written == manifest \notin {Nothing, Partial}

\* Tests are only claimed for the root they passed on.
TestsClaimed ==
  /\ pc \in Attesting => log = "pass" /\ tested = root
  /\ pc \in {"checksums", "sample"} /\ Written => manifest.tests = Nothing
  /\ Written /\ manifest.tests = "pass" => tested = manifest.artifacts

\* The invariant that needs nothing of the edits.
IInv == Scripts /\ Files /\ NoOldReport /\ TestsClaimed

\* Everything in the build directory comes from the present inputs.
CleanBuild ==
  \A p \in Parts : /\ configured[p] \in {Nothing, inputs[p].commit}
                   /\ objects[p] \in {Nothing, inputs[p]}
CleanRoot == \A p \in Parts : root[p] \in {Nothing, inputs[p]}

\* So it is once the old output has been wiped, and as long as the recorded fingerprint
\* is that of the present inputs.
Wiped == {"wiperoot", "sources", "applied", "fex", "installfex", "wine", "installwine"}
Finished == {"generate", "write", "checksums", "verify", "record"}
NothingStale ==
  /\ fingerprint = inputs \/ pc \in Wiped => CleanBuild
  /\ fingerprint = inputs \/ pc \in Wiped \ {"wiperoot"} => CleanRoot
  /\ pc \in {"applied", "fex", "installfex", "wine"} =>
       \A p \in Parts : sources[p][inputs[p].commit] = inputs[p].patch
  /\ pc \in {"fex", "installfex", "wine", "installwine"} => applied = SeriesOf(inputs)
  /\ pc = "installfex" => objects["fex"] = inputs["fex"]
  /\ pc = "installwine" => objects["wine"] = inputs["wine"]
  /\ pc \in {"wine", "installwine"} => root["fex"] = inputs["fex"]
  /\ job = "build" /\ pc \in Finished => CleanBuild /\ root = inputs

\* What is installed was built with the patches on record.
RootAsRecorded ==
  \A p \in Parts : root[p] # Nothing => root[p].patch = applied[p]

\* The invariant for inputs that never come back.
FreshInv == NothingStale /\ RootAsRecorded

\* Nothing has been built and no script runs.
LEMMA InitIInv == Init => IInv /\ FreshInv
<1> SUFFICES ASSUME Init PROVE IInv /\ FreshInv
  OBVIOUS
<1> USE DEF Init
<1>1. Scripts /\ NoOldReport
  BY DEF Scripts, NoOldReport, Retrying
<1>2. Files
  <2>1. /\ sources \in [Parts -> [Commits -> Patches \cup {Nothing}]]
        /\ configured \in [Parts -> Commits \cup {Nothing}]
    BY DEF NoTree, NoSources
  <2>2. objects \in Trees /\ root \in Trees
    BY DEF NoTree, Trees
  <2>3. edits \in 0..MaxEdits
    BY BuildAssumption
  <2> QED
    BY <2>1, <2>2, <2>3 DEF Files, TypeOK, Tests
<1>3. TestsClaimed
  BY DEF TestsClaimed, Attesting, Written
<1>4. FreshInv
  BY DEF FreshInv, NothingStale, RootAsRecorded, CleanBuild, CleanRoot, Wiped, Finished,
     NoTree
<1> QED
  BY <1>1, <1>2, <1>3, <1>4 DEF IInv

\* Every step leaves each script at a stage of its own.
LEMMA ScriptsStep ==
  ASSUME Scripts, [Next]_vars
  PROVE  Scripts'
<1> USE DEF Scripts, inputVars, buildVars, resultVars, testVars, Goto, Finish, BuildStages,
            SharedStages, BaselineStages, Attesting, Parts
<1>1. CASE Edit
  BY <1>1 DEF Edit
<1>2. CASE Fail
  BY <1>2 DEF Fail
<1>3. ASSUME NEW clean \in BOOLEAN, StartBuild(clean) PROVE Scripts'
  BY <1>3 DEF StartBuild
<1>4. CASE Compare
  BY <1>4 DEF Compare
<1>5. CASE WipeBuild
  BY <1>5 DEF WipeBuild
<1>6. CASE WipeRoot
  BY <1>6 DEF WipeRoot
<1>7. CASE PrepareSources
  BY <1>7 DEF PrepareSources
<1>8. CASE RecordPatches
  BY <1>8 DEF RecordPatches
<1>9. ASSUME NEW p \in Parts, Compile(p) PROVE Scripts'
  BY <1>9 DEF Compile
<1>10. ASSUME NEW p \in Parts, Install(p) PROVE Scripts'
  BY <1>10 DEF Install
<1>11. CASE Generate
  BY <1>11 DEF Generate
<1>12. CASE WriteManifest
  BY <1>12 DEF WriteManifest
<1>13. CASE WriteChecksums
  BY <1>13 DEF WriteChecksums
<1>14. CASE Verify
  BY <1>14 DEF Verify
<1>15. CASE Record
  BY <1>15 DEF Record
<1>16. CASE StartBaseline
  BY <1>16 DEF StartBaseline
<1>17. CASE Check
  BY <1>17 DEF Check
<1>18. CASE Clear
  BY <1>18 DEF Clear
<1>19. CASE Sample
  BY <1>19 DEF Sample
<1>20. CASE OpenReport \/ WriteReport
  BY <1>20 DEF OpenReport, WriteReport
<1>21. CASE UNCHANGED vars
  BY <1>21 DEF vars
<1> QED
  BY <1>1, <1>2, <1>3, <1>4, <1>5, <1>6, <1>7, <1>8, <1>9, <1>10, <1>11, <1>12, <1>13,
     <1>14, <1>15, <1>16, <1>17, <1>18, <1>19, <1>20, <1>21 DEF Next

\* Every step keeps the types of all files.
LEMMA FilesStep ==
  ASSUME Scripts, Files, [Next]_vars
  PROVE  Files'
<1>a. ASSUME NEW i \in Inputs
      PROVE  /\ \A p \in Parts : i[p].commit \in Commits /\ i[p].patch \in Patches
             /\ LockOf(i) \in [Parts -> Commits] /\ SeriesOf(i) \in [Parts -> Patches]
  BY InputsAssumption DEF Sources, LockOf, SeriesOf
<1>b. NoTree \in Trees /\ NoSources \in [Parts -> [Commits -> Patches \cup {Nothing}]]
      /\ NoTree \in [Parts -> Commits \cup {Nothing}]
  BY DEF NoTree, NoSources, Trees
<1>c. job = "none" <=> pc = "idle"
  BY DEF Scripts
<1> USE DEF Files, TypeOK, inputVars, buildVars, resultVars, testVars, Goto, Finish
<1>1. CASE Edit
  <2>1. inputs' \in Inputs /\ edits' \in 0..MaxEdits
    BY <1>1, BuildAssumption DEF Edit
  <2>2. inputs' \in used' /\ fingerprint' \in used' \cup {Nothing}
    BY <1>1 DEF Edit
  <2> QED
    BY <1>1, <2>1, <2>2 DEF Edit
<1>2. CASE Fail
  BY <1>2, <1>b, <1>c DEF Fail
<1>3. ASSUME NEW clean \in BOOLEAN, StartBuild(clean) PROVE Files'
  BY <1>3, <1>b, <1>c DEF StartBuild
<1>4. CASE Compare
  BY <1>4, <1>b, <1>c DEF Compare
<1>5. CASE WipeBuild
  BY <1>5, <1>b, <1>c DEF WipeBuild
<1>6. CASE WipeRoot
  BY <1>6, <1>b, <1>c DEF WipeRoot
<1>7. CASE PrepareSources
  <2>1. sources' \in [Parts -> [Commits -> Patches \cup {Nothing}]]
    BY <1>7, <1>a DEF PrepareSources
  <2> QED
    BY <1>7, <2>1, <1>c DEF PrepareSources
<1>8. CASE RecordPatches
  BY <1>8, <1>a, <1>c DEF RecordPatches, RecordOf
<1>9. ASSUME NEW p \in Parts, Compile(p) PROVE Files'
  <2>1. Tree(p) \in Commits \cup {Nothing} /\ inputs[p].commit \in Commits
    BY <1>a DEF Tree
  <2>2. Tree(p) \in Commits
    BY <1>9, <2>1, FileAssumption DEF Compile, Tree
  <2>3. sources[p][Tree(p)] \in Patches
    BY <1>9, <2>2 DEF Compile
  <2>4. [commit |-> Tree(p), patch |-> sources[p][Tree(p)]] \in Sources
    BY <2>2, <2>3 DEF Sources
  <2>5. objects' \in Trees
    BY <1>9, <2>4 DEF Compile, Trees
  <2>6. configured' \in [Parts -> Commits \cup {Nothing}]
    BY <1>9, <2>2 DEF Compile
  <2>7. pc' \in {"installfex", "installwine"} /\ pc \in {"fex", "wine"}
    BY <1>9 DEF Compile, Parts
  <2> QED
    BY <1>9, <2>5, <2>6, <2>7, <1>c DEF Compile
<1>10. ASSUME NEW p \in Parts, Install(p) PROVE Files'
  <2>1. root' \in Trees
    BY <1>10 DEF Install, Trees
  <2> QED
    BY <1>10, <2>1, <1>c DEF Install
<1>11. CASE Generate
  BY <1>11, <1>b, <1>c DEF Generate
<1>12. CASE WriteManifest
  <2>1. manifest' \in Manifests
    BY <1>12, <1>a DEF WriteManifest, Claims, Manifests, Tests
  <2> QED
    BY <1>12, <2>1, <1>c DEF WriteManifest
<1>13. CASE WriteChecksums
  BY <1>13, <1>b, <1>c DEF WriteChecksums
<1>14. CASE Verify
  BY <1>14, <1>b, <1>c DEF Verify
<1>15. CASE Record
  <2>1. wanted = inputs
    BY <1>15 DEF Record, Scripts, SharedStages, BaselineStages, Attesting
  <2> QED
    BY <1>15, <2>1 DEF Record
<1>16. CASE StartBaseline
  BY <1>16, <1>b, <1>c DEF StartBaseline
<1>17. CASE Check
  BY <1>17, <1>b, <1>c DEF Check
<1>18. CASE Clear
  BY <1>18, <1>c DEF Clear, Cleared, Tests
<1>19. CASE Sample
  BY <1>19, <1>c DEF Sample, Tests
<1>20. CASE OpenReport \/ WriteReport
  BY <1>20, <1>c DEF OpenReport, WriteReport, Tests
<1>21. CASE UNCHANGED vars
  BY <1>21, <1>b, <1>c DEF vars
<1> QED
  BY <1>1, <1>2, <1>3, <1>4, <1>5, <1>6, <1>7, <1>8, <1>9, <1>10, <1>11, <1>12, <1>13,
     <1>14, <1>15, <1>16, <1>17, <1>18, <1>19, <1>20, <1>21 DEF Next

\* A retry that fails has removed the report of an earlier success.
LEMMA ReportStep ==
  ASSUME Scripts, Files, NoOldReport, [Next]_vars
  PROVE  NoOldReport'
<1> USE DEF Scripts, NoOldReport, Retrying, inputVars, buildVars, resultVars, testVars,
            Goto, Finish, BuildStages, SharedStages, BaselineStages, Attesting, Parts
<1>1. CASE Edit
  BY <1>1 DEF Edit
<1>2. CASE Fail
  BY <1>2 DEF Fail
<1>3. ASSUME NEW clean \in BOOLEAN, StartBuild(clean) PROVE NoOldReport'
  BY <1>3 DEF StartBuild
<1>4. CASE Compare
  BY <1>4 DEF Compare
<1>5. CASE WipeBuild
  BY <1>5 DEF WipeBuild
<1>6. CASE WipeRoot
  BY <1>6 DEF WipeRoot
<1>7. CASE PrepareSources
  BY <1>7 DEF PrepareSources
<1>8. CASE RecordPatches
  BY <1>8 DEF RecordPatches
<1>9. ASSUME NEW p \in Parts, Compile(p) PROVE NoOldReport'
  BY <1>9 DEF Compile
<1>10. ASSUME NEW p \in Parts, Install(p) PROVE NoOldReport'
  BY <1>10 DEF Install
<1>11. CASE Generate
  BY <1>11 DEF Generate
<1>12. CASE WriteManifest
  BY <1>12 DEF WriteManifest
<1>13. CASE WriteChecksums
  BY <1>13 DEF WriteChecksums
<1>14. CASE Verify
  BY <1>14 DEF Verify
<1>15. CASE Record
  BY <1>15 DEF Record
<1>16. CASE StartBaseline
  BY <1>16 DEF StartBaseline
<1>17. CASE Check
  BY <1>17 DEF Check
<1>18. CASE Clear
  BY <1>18 DEF Clear, Cleared
<1>19. CASE Sample
  <2>1. pc = "sample" /\ job = "baseline"
    BY <1>19 DEF Sample, Files, TypeOK
  <2> QED
    BY <1>19, <2>1 DEF Sample
<1>20. CASE OpenReport \/ WriteReport
  BY <1>20 DEF OpenReport, WriteReport
<1>21. CASE UNCHANGED vars
  BY <1>21 DEF vars
<1> QED
  BY <1>1, <1>2, <1>3, <1>4, <1>5, <1>6, <1>7, <1>8, <1>9, <1>10, <1>11, <1>12, <1>13,
     <1>14, <1>15, <1>16, <1>17, <1>18, <1>19, <1>20, <1>21 DEF Next

\* A manifest that lists passed tests was written for the root they passed on.
LEMMA TestsStep ==
  ASSUME Scripts, Files, TestsClaimed, [Next]_vars
  PROVE  TestsClaimed'
<1>a. Nothing # "pass"
  BY FileAssumption
<1> USE DEF Scripts, TestsClaimed, Written, inputVars, buildVars, resultVars, testVars,
            Goto, Finish, BuildStages, SharedStages, BaselineStages, Attesting, Parts
<1>1. CASE Edit
  BY <1>1, <1>a DEF Edit
<1>2. CASE Fail
  BY <1>2, <1>a DEF Fail
<1>3. ASSUME NEW clean \in BOOLEAN, StartBuild(clean) PROVE TestsClaimed'
  BY <1>3, <1>a DEF StartBuild
<1>4. CASE Compare
  BY <1>4, <1>a DEF Compare
<1>5. CASE WipeBuild
  BY <1>5, <1>a DEF WipeBuild
<1>6. CASE WipeRoot
  BY <1>6, <1>a DEF WipeRoot
<1>7. CASE PrepareSources
  BY <1>7, <1>a DEF PrepareSources
<1>8. CASE RecordPatches
  BY <1>8, <1>a DEF RecordPatches
<1>9. ASSUME NEW p \in Parts, Compile(p) PROVE TestsClaimed'
  BY <1>9, <1>a DEF Compile
<1>10. ASSUME NEW p \in Parts, Install(p) PROVE TestsClaimed'
  BY <1>10, <1>a DEF Install
<1>11. CASE Generate
  BY <1>11, <1>a DEF Generate
<1>12. CASE WriteManifest
  <2>1. pc \in {"write", "writetests"} /\ pc' \in {"checksums", "checksumstests"}
        /\ UNCHANGED <<log, tested, root>>
    BY <1>12 DEF WriteManifest
  <2>2. /\ manifest'.tests = IF pc = "writetests" THEN log ELSE Nothing
        /\ manifest'.artifacts = root
    BY <1>12 DEF WriteManifest, Claims
  <2>3. pc' = "checksums" <=> pc = "write"
    BY <1>12 DEF WriteManifest
  <2> QED
    BY <2>1, <2>2, <2>3, <1>a
<1>13. CASE WriteChecksums
  BY <1>13, <1>a DEF WriteChecksums
<1>14. CASE Verify
  BY <1>14, <1>a DEF Verify
<1>15. CASE Record
  BY <1>15, <1>a DEF Record
<1>16. CASE StartBaseline
  BY <1>16, <1>a DEF StartBaseline
<1>17. CASE Check
  BY <1>17, <1>a DEF Check
<1>18. CASE Clear
  BY <1>18, <1>a DEF Clear
<1>19. CASE Sample
  BY <1>19, <1>a DEF Sample
<1>20. CASE OpenReport \/ WriteReport
  BY <1>20, <1>a DEF OpenReport, WriteReport
<1>21. CASE UNCHANGED vars
  BY <1>21, <1>a DEF vars
<1> QED
  BY <1>1, <1>2, <1>3, <1>4, <1>5, <1>6, <1>7, <1>8, <1>9, <1>10, <1>11, <1>12, <1>13,
     <1>14, <1>15, <1>16, <1>17, <1>18, <1>19, <1>20, <1>21 DEF Next

-----------------------------------------------------------------------------
(* Inputs that do not come back.                                            *)

\* An input is put together from its two fields.
LEMMA InputParts ==
  ASSUME NEW i \in Inputs, NEW p \in Parts
  PROVE  i[p] = [commit |-> i[p].commit, patch |-> i[p].patch] /\ i[p].commit \in Commits
  BY InputsAssumption DEF Sources

\* Once the old output is wiped, a build compiles and installs only what its inputs say;
\* new inputs make the recorded fingerprint a stale one.
LEMMA StaleStep ==
  ASSUME ~Reverts, IInv, NothingStale, [Next]_vars
  PROVE  NothingStale'
<1>s. Scripts /\ Files /\ inputs \in Inputs /\ wanted \in Inputs
  BY DEF IInv, Files, TypeOK
<1>p. job = "build" => wanted = inputs
  BY <1>s DEF Scripts
<1>j. /\ pc \in BuildStages => job = "build"
      /\ pc \in BaselineStages => job = "baseline"
      /\ job = "none" <=> pc = "idle"
  BY <1>s DEF Scripts, Files, TypeOK, BuildStages, BaselineStages, SharedStages, Attesting
<1>u. inputs' = inputs /\ UNCHANGED <<configured, objects>> => (CleanBuild <=> CleanBuild')
  BY DEF CleanBuild
<1>v. inputs' = inputs /\ UNCHANGED root => (CleanRoot <=> CleanRoot')
  BY DEF CleanRoot
<1>w. inputs' = inputs => SeriesOf(inputs)' = SeriesOf(inputs)
  OBVIOUS
<1> USE DEF NothingStale, inputVars, buildVars, resultVars, testVars, Goto, Finish, Wiped,
            Finished
<1>1. CASE Edit
  <2>1. inputs' \notin used /\ UNCHANGED <<fingerprint, job, pc>> /\ pc = "idle"
    BY <1>1, <1>j DEF Edit
  <2>2. fingerprint' # inputs'
    BY <2>1, <1>1, <1>s, FileAssumption DEF Edit, Files
  <2> QED
    BY <2>1, <2>2, <1>j
<1>2. CASE Fail
  BY <1>2, <1>j, <1>u, <1>v, <1>w DEF Fail
<1>3. ASSUME NEW clean \in BOOLEAN, StartBuild(clean) PROVE NothingStale'
  BY <1>3, <1>j, <1>u, <1>v, <1>w DEF StartBuild
<1>4. CASE Compare
  <2>1. /\ pc = "compare" /\ pc' = IF fingerprint # inputs THEN "wipebuild" ELSE "sources"
        /\ UNCHANGED <<inputs, fingerprint, configured, objects, root, job>>
    BY <1>4, <1>p, <1>j DEF Compare, Stale, BuildStages
  <2> QED
    BY <2>1, <1>u, <1>v
<1>5. CASE WipeBuild
  <2>1. CleanBuild'
    BY <1>5 DEF WipeBuild, CleanBuild, NoTree
  <2> QED
    BY <1>5, <2>1, <1>v DEF WipeBuild
<1>6. CASE WipeRoot
  <2>1. CleanRoot'
    BY <1>6 DEF WipeRoot, CleanRoot, NoTree
  <2> QED
    BY <1>6, <2>1, <1>u DEF WipeRoot
<1>7. CASE PrepareSources
  <2>1. ASSUME NEW p \in Parts PROVE sources'[p][inputs'[p].commit] = inputs'[p].patch
    <3>1. inputs[p].commit \in Commits /\ inputs' = inputs
      BY <1>7, <1>s, InputParts DEF PrepareSources
    <3>2. sources[p] \in [Commits -> Patches \cup {Nothing}]
      BY <1>s DEF Files, TypeOK
    <3> QED
      BY <1>7, <3>1, <3>2 DEF PrepareSources
  <2> QED
    BY <1>7, <2>1, <1>u, <1>v DEF PrepareSources
<1>8. CASE RecordPatches
  <2>1. applied' = SeriesOf(inputs)'
    BY <1>8 DEF RecordPatches, RecordOf
  <2> QED
    BY <1>8, <2>1, <1>u, <1>v DEF RecordPatches
<1>9. ASSUME NEW p \in Parts, Compile(p) PROVE NothingStale'
  <2>1. /\ pc = p /\ pc \in {"fex", "wine"}
        /\ pc' = IF p = "fex" THEN "installfex" ELSE "installwine"
        /\ UNCHANGED <<inputs, fingerprint, sources, root, applied, job>>
    BY <1>9 DEF Compile, Parts
  <2>2. CleanBuild /\ sources[p][inputs[p].commit] = inputs[p].patch
    BY <2>1
  <2>3. Tree(p) = inputs[p].commit
    BY <2>2 DEF CleanBuild, Tree
  <2>4. /\ configured' = [configured EXCEPT ![p] = inputs[p].commit]
        /\ objects' = [objects EXCEPT ![p] = inputs[p]]
    <3>1. inputs[p] = [commit |-> Tree(p), patch |-> sources[p][Tree(p)]]
      BY <2>2, <2>3, <1>s, InputParts
    <3>2. ~Outdated(p) => objects[p] = inputs[p]
      BY <2>2 DEF Outdated, CleanBuild
    <3> QED
      BY <1>9, <2>3, <3>1, <3>2 DEF Compile
  <2>5. /\ objects \in [Parts -> Sources \cup {Nothing}]
        /\ configured \in [Parts -> Commits \cup {Nothing}]
    BY <1>s DEF Files, TypeOK, Trees
  <2>6. CleanBuild' /\ objects'[p] = inputs[p]
    BY <2>1, <2>2, <2>4, <2>5 DEF CleanBuild
  <2> QED
    BY <2>1, <2>6, <1>v, <1>w
<1>10. ASSUME NEW p \in Parts, Install(p) PROVE NothingStale'
  <2>1. /\ p = "fex" \/ p = "wine"
        /\ p = "fex" => pc = "installfex" /\ pc' = "wine"
        /\ p = "wine" => pc = "installwine" /\ pc' = "generate"
        /\ root' = [root EXCEPT ![p] = objects[p]]
        /\ UNCHANGED <<inputs, fingerprint, sources, configured, objects, applied, job>>
    BY <1>10 DEF Install, Parts
  <2>2. objects[p] = inputs[p] /\ CleanRoot /\ CleanBuild
    BY <2>1
  <2>3. root \in [Parts -> Sources \cup {Nothing}] /\ inputs \in [Parts -> Sources]
    BY <1>s, InputsAssumption DEF Files, TypeOK, Trees
  <2>4. CleanRoot' /\ root'[p] = inputs[p]
    BY <2>1, <2>2, <2>3 DEF CleanRoot
  <2>5. p = "wine" => root' = inputs
    <3>1. p = "wine" => root["fex"] = inputs["fex"]
      BY <2>1
    <3> QED
      BY <2>1, <2>2, <2>3, <3>1 DEF Parts
  <2> QED
    BY <2>1, <2>4, <2>5, <1>u, <1>w
<1>11. CASE Generate
  BY <1>11, <1>j, <1>u, <1>v, <1>w DEF Generate
<1>12. CASE WriteManifest
  BY <1>12, <1>j, <1>u, <1>v, <1>w DEF WriteManifest
<1>13. CASE WriteChecksums
  <2>1. /\ pc \in {"checksums", "checksumstests"} /\ pc' \in {"verify", "sample", "idle"}
        /\ job = "build" => job' = job /\ pc' = "verify" /\ pc = "checksums"
        /\ job # "build" => pc' # "verify"
        /\ UNCHANGED <<inputs, fingerprint, configured, objects, root>>
    BY <1>13, <1>j DEF WriteChecksums, BaselineStages, Attesting
  <2> QED
    BY <2>1, <1>j, <1>u, <1>v DEF BuildStages
<1>14. CASE Verify
  BY <1>14, <1>j, <1>u, <1>v, <1>w DEF Verify
<1>15. CASE Record
  <2>1. pc = "record" /\ job = "build" /\ fingerprint' = wanted /\ job' = "none" /\ pc' = "idle"
        /\ UNCHANGED <<inputs, configured, objects, root>>
    BY <1>15, <1>j DEF Record, BuildStages
  <2>2. CleanBuild /\ root = inputs
    BY <2>1
  <2>3. CleanBuild' /\ CleanRoot'
    BY <2>1, <2>2, <1>u DEF CleanRoot
  <2> QED
    BY <2>1, <2>3
<1>16. CASE StartBaseline
  BY <1>16, <1>j, <1>u, <1>v, <1>w DEF StartBaseline
<1>17. CASE Check
  BY <1>17, <1>j, <1>u, <1>v, <1>w DEF Check
<1>18. CASE Clear
  BY <1>18, <1>j, <1>u, <1>v DEF Clear, BaselineStages
<1>19. CASE Sample
  BY <1>19, <1>j, <1>u, <1>v, <1>w DEF Sample
<1>20. CASE OpenReport \/ WriteReport
  BY <1>20, <1>j, <1>u, <1>v, <1>w DEF OpenReport, WriteReport
<1>21. CASE UNCHANGED vars
  BY <1>21, <1>j, <1>u, <1>v, <1>w DEF vars
<1> QED
  BY <1>1, <1>2, <1>3, <1>4, <1>5, <1>6, <1>7, <1>8, <1>9, <1>10, <1>11, <1>12, <1>13,
     <1>14, <1>15, <1>16, <1>17, <1>18, <1>19, <1>20, <1>21 DEF Next

\* The patches on record are those of whatever is installed.
LEMMA RecordedStep ==
  ASSUME IInv, NothingStale, RootAsRecorded, [Next]_vars
  PROVE  RootAsRecorded'
<1> USE DEF RootAsRecorded, inputVars, buildVars, resultVars, testVars, Goto, Finish
<1>1. CASE Edit
  BY <1>1 DEF Edit
<1>2. CASE Fail
  BY <1>2 DEF Fail
<1>3. ASSUME NEW clean \in BOOLEAN, StartBuild(clean) PROVE RootAsRecorded'
  BY <1>3 DEF StartBuild
<1>4. CASE Compare
  BY <1>4 DEF Compare
<1>5. CASE WipeBuild
  BY <1>5 DEF WipeBuild
<1>6. CASE WipeRoot
  BY <1>6 DEF WipeRoot, NoTree
<1>7. CASE PrepareSources
  BY <1>7 DEF PrepareSources
<1>8. CASE RecordPatches
  <2>1. CleanRoot /\ applied' = SeriesOf(inputs) /\ root' = root
    BY <1>8 DEF RecordPatches, RecordOf, NothingStale, Wiped
  <2> QED
    BY <2>1 DEF CleanRoot, SeriesOf
<1>9. ASSUME NEW p \in Parts, Compile(p) PROVE RootAsRecorded'
  BY <1>9 DEF Compile
<1>10. ASSUME NEW p \in Parts, Install(p) PROVE RootAsRecorded'
  <2>1. objects[p] = inputs[p] /\ applied = SeriesOf(inputs)
    BY <1>10 DEF Install, Parts, NothingStale
  <2>2. /\ root' = [root EXCEPT ![p] = inputs[p]] /\ applied' = applied
        /\ root \in [Parts -> Sources \cup {Nothing}]
    BY <1>10, <2>1 DEF Install, IInv, Files, TypeOK, Trees
  <2> QED
    BY <2>1, <2>2 DEF SeriesOf
<1>11. CASE Generate
  BY <1>11 DEF Generate
<1>12. CASE WriteManifest
  BY <1>12 DEF WriteManifest
<1>13. CASE WriteChecksums
  BY <1>13 DEF WriteChecksums
<1>14. CASE Verify
  BY <1>14 DEF Verify
<1>15. CASE Record
  BY <1>15 DEF Record
<1>16. CASE StartBaseline
  BY <1>16 DEF StartBaseline
<1>17. CASE Check
  BY <1>17 DEF Check
<1>18. CASE Clear
  BY <1>18 DEF Clear
<1>19. CASE Sample
  BY <1>19 DEF Sample
<1>20. CASE OpenReport \/ WriteReport
  BY <1>20 DEF OpenReport, WriteReport
<1>21. CASE UNCHANGED vars
  BY <1>21 DEF vars
<1> QED
  BY <1>1, <1>2, <1>3, <1>4, <1>5, <1>6, <1>7, <1>8, <1>9, <1>10, <1>11, <1>12, <1>13,
     <1>14, <1>15, <1>16, <1>17, <1>18, <1>19, <1>20, <1>21 DEF Next
-----------------------------------------------------------------------------
(* The theorems.                                                            *)

\* The first invariant holds throughout.
THEOREM Invariance == Spec => []IInv
<1>1. ASSUME IInv, [Next]_vars PROVE IInv'
  BY <1>1, ScriptsStep, FilesStep, ReportStep, TestsStep DEF IInv
<1> QED
  BY InitIInv, <1>1, PTL DEF Spec

\* Every file and every stage of the two scripts keeps its type.
THEOREM TypeCorrect == Spec => []TypeOK
<1>1. IInv => TypeOK
  BY DEF IInv, Files
<1> QED
  BY <1>1, Invariance, PTL

\* A manifest that verifies and lists passed tests was written for the root they
\* passed on, also when old inputs come back.
THEOREM TestsAreOfThisRoot == Spec => []TestsRanOnThisRoot
<1>1. IInv => TestsRanOnThisRoot
  BY DEF IInv, TestsClaimed, Written, TestsRanOnThisRoot, Verified
<1> QED
  BY <1>1, Invariance, PTL

\* A baseline that begins anew and gets no result leaves no report of an old one.
THEOREM RetryLeavesNoPass == Spec => []FailedRetryLeavesNoPass
<1>1. IInv => FailedRetryLeavesNoPass
  BY FileAssumption DEF IInv, NoOldReport, FailedRetryLeavesNoPass
<1> QED
  BY <1>1, Invariance, PTL

\* The second invariant holds as long as no edit brings back inputs used before.
LEMMA NothingStaleIsUsed ==
  ASSUME ~Reverts
  PROVE  Spec => []FreshInv
<1>1. ASSUME IInv, FreshInv, [Next]_vars PROVE FreshInv'
  BY <1>1, StaleStep, RecordedStep DEF FreshInv
<1> QED
  BY InitIInv, <1>1, Invariance, PTL DEF Spec

\* A build that completes has installed what its inputs say, wherever earlier builds
\* were broken off.
THEOREM BuildIsCurrent ==
  ASSUME ~Reverts
  PROVE  Spec => []CompletedIsCurrent
<1>1. ASSUME IInv, FreshInv PROVE CompletedIsCurrent
  <2>1. pc = "record" => job = "build"
    BY <1>1 DEF IInv, Scripts, Files, TypeOK, SharedStages, BaselineStages, Attesting
  <2> QED
    BY <1>1, <2>1 DEF FreshInv, NothingStale, Finished, CompletedIsCurrent
<1> QED
  BY <1>1, Invariance, NothingStaleIsUsed, PTL

\* A manifest that verifies vouches for a root built with the patches it lists.
THEOREM PatchesAreVerified ==
  ASSUME ~Reverts
  PROVE  Spec => []VerifiedPatches
<1>1. ASSUME IInv, FreshInv PROVE VerifiedPatches
  <2> SUFFICES ASSUME Verified PROVE SeriesOf(root) = SeriesOf(inputs)
    BY DEF VerifiedPatches
  <2>1. applied = SeriesOf(inputs) /\ \A p \in Parts : root[p] # Nothing
    BY DEF Verified, PatchesMatch, Complete
  <2>2. \A p \in Parts : root[p].patch = inputs[p].patch
    BY <1>1, <2>1 DEF FreshInv, RootAsRecorded, SeriesOf
  <2> QED
    BY <2>2 DEF SeriesOf
<1> QED
  BY <1>1, Invariance, NothingStaleIsUsed, PTL
=============================================================================
