-------------------------- MODULE ProbeEngineProofs --------------------------
(* The probe engine, for every region and page size and on every platform: it *)
(* runs signal_resume as SignalResume describes it, what page_model reports   *)
(* is what the kernel did (but for what it does not test), every result names *)
(* an error of its own, and no probe leaves anything behind.                  *)
EXTENDS ProbeEngine, SignalResumeProofs, SequenceTheorems

-----------------------------------------------------------------------------
(* page_model.                                                              *)

\* From the mapping on, every host page of it has a protection.
Mapped == {"scan", "first", "second", "unmap", "done"}
Protections == [1..MappingPages -> {"r", "rw"}]

\* What the calls have done when they succeeded: the first made the first page read only,
\* and the second, which only a host of 4 KiB pages allows, made the second writable.
PageInv ==
  /\ PageTypes
  /\ measuring \in Mapped => protection \in Protections
  /\ measuring = "map" => offset = 0
  /\ measuring = "scan" => offset < RegionPages
  /\ measuring \in {"second", "unmap", "done"} /\ firstOk => protection[1] = "r"
  /\ measuring \in {"unmap", "done"} /\ secondOk => hostPage = 1 /\ protection[2] = "rw"
  /\ claim # "none" =>
       measuring = "done" /\ claim = (IF Supported THEN "distinct" ELSE "same")

\* Every offset of the region lies on a host page of the mapping.
LEMMA InMapping ==
  ASSUME hostPage \in HostPages, NEW o \in 0..(RegionPages - 1)
  PROVE  PageAt(o) \in 1..MappingPages
<1> DEFINE q == o \div hostPage
           m == (RegionPages + hostPage - 1) \div hostPage
<1>1. hostPage \in Nat \ {0} /\ RegionPages \in Nat /\ o \in Nat
  BY PagesAssumption
<1>2. q \in Nat /\ hostPage * q <= o
  BY <1>1
<1>3. m \in Nat /\ RegionPages + hostPage - 1 < hostPage * m + hostPage
  <2>1. RegionPages + hostPage - 1 \in Nat
    BY <1>1
  <2> QED
    BY <1>1, <2>1
<1>4. m <= q => hostPage * m <= hostPage * q
  BY <1>1, <1>2, <1>3
<1> HIDE DEF q, m
<1>5. hostPage * m \in Nat /\ hostPage * q \in Nat
  BY <1>1, <1>2, <1>3
<1>6. q + 1 <= m
  BY <1>1, <1>2, <1>3, <1>4, <1>5
<1> QED
  BY <1>2, <1>3, <1>6 DEF PageAt, MappingPages, q, m

\* Where the first two logical pages are.
LEMMA FirstTwo ==
  ASSUME hostPage \in HostPages
  PROVE  /\ PageAt(0) = 1 /\ Aligned(0)
         /\ IF hostPage = 1 THEN PageAt(1) = 2 /\ Aligned(1)
                            ELSE PageAt(1) = 1 /\ ~Aligned(1)
<1>1. hostPage \in Nat \ {0}
  BY PagesAssumption
<1>2. 0 \div hostPage = 0 /\ 0 % hostPage = 0
  BY <1>1
<1>3. hostPage > 1 => 1 \div hostPage = 0 /\ 1 % hostPage = 1
  BY <1>1
<1>4. 1 \div 1 = 1 /\ 1 % 1 = 0
  OBVIOUS
<1> QED
  BY <1>1, <1>2, <1>3, <1>4 DEF PageAt, Aligned

\* The steps of the probe, its start and its end.
PageStep == \/ StartPage \/ MapRegion \/ PageFails \/ Scan \/ ProtectFirst
            \/ ProtectSecond \/ Unmap \/ EndPage

\* A call of mprotect leaves a protection on every page, and leaves the mapping alone
\* unless it succeeds.
LEMMA MprotectTypes ==
  ASSUME NEW o \in 0..(RegionPages - 1), NEW prot \in {"r", "rw"}, NEW ok \in BOOLEAN,
         hostPage \in HostPages, protection \in Protections,
         hostPage' = hostPage, Mprotect(o, prot, ok)
  PROVE  /\ protection' \in Protections'
         /\ ok => Aligned(o) /\ protection' = [protection EXCEPT ![PageAt(o)] = prot]
         /\ ~ok => protection' = protection
<1>1. PageAt(o) \in 1..MappingPages
  BY InMapping
<1>2. Protections' = Protections
  BY DEF Protections, MappingPages
<1>3. [protection EXCEPT ![PageAt(o)] = prot] \in Protections
  BY <1>1 DEF Protections
<1> QED
  BY <1>2, <1>3 DEF Mprotect

\* Every step of page_model keeps its invariant.
LEMMA PageStepInv ==
  ASSUME PageInv, [PageStep]_pageVars
  PROVE  PageInv'
<1>a. hostPage \in HostPages /\ RegionPages \in Nat \ {0, 1} /\ offset \in 0..RegionPages
  BY PagesAssumption DEF PageInv, PageTypes
<1>b. 0 \in 0..(RegionPages - 1) /\ 1 \in 0..(RegionPages - 1)
  BY <1>a
<1>c. hostPage' = hostPage => Protections' = Protections
  BY DEF Protections, MappingPages
<1>d. 1 \in 1..MappingPages /\ (hostPage = 1 => 2 \in 1..MappingPages)
  BY <1>a, <1>b, InMapping, FirstTwo
<1> USE DEF PageInv, PageTypes, Stages, Claims, Mapped
<1>e. ASSUME NEW place \in {"off", "map"}, Locals(place)
      PROVE  PageInv'
  <2>1. /\ measuring' = place /\ hostPage' = hostPage /\ claim' = "none" /\ offset' = 0
        /\ firstOk' = FALSE /\ secondOk' = FALSE
    BY <1>e DEF Locals
  <2>2. offset' \in 0..RegionPages
    BY <1>a, <2>1
  <2> QED
    BY <1>a, <2>1, <2>2
<1>1. CASE StartPage
  BY <1>1, <1>e DEF StartPage
<1>2. CASE MapRegion
  <2>1. protection' \in Protections'
    BY <1>2, <1>c DEF MapRegion, Protections
  <2>2. claim = "none" /\ offset = 0
    BY <1>2 DEF MapRegion
  <2> QED
    BY <1>2, <1>a, <2>1, <2>2 DEF MapRegion
<1>3. CASE PageFails
  BY <1>3, <1>e DEF PageFails
<1>4. CASE Scan
  <2>1. PICK ok \in BOOLEAN : Mprotect(offset, "r", ok)
    BY <1>4 DEF Scan
  <2>2. offset \in 0..(RegionPages - 1) /\ hostPage' = hostPage /\ claim = "none"
    BY <1>4, <1>a DEF Scan
  <2>3. protection' \in Protections'
    BY <1>4, <1>a, <2>1, <2>2, MprotectTypes DEF Scan
  <2>4. /\ measuring' \in {"first", "scan"} /\ offset' \in 0..RegionPages
        /\ measuring' = "scan" => offset' < RegionPages
    BY <1>4, <1>a, <2>2 DEF Scan, LastRound
  <2> QED
    BY <1>4, <1>a, <2>2, <2>3, <2>4 DEF Scan
<1>5. CASE ProtectFirst
  <2>1. PICK ok \in BOOLEAN : Mprotect(0, "r", ok) /\ firstOk' = ok
    BY <1>5 DEF ProtectFirst
  <2>2. /\ measuring = "first" /\ measuring' = "second" /\ claim = "none"
        /\ UNCHANGED <<hostPage, offset, secondOk, claim>>
    BY <1>5 DEF ProtectFirst
  <2>3. /\ protection' \in Protections'
        /\ ok => protection' = [protection EXCEPT ![PageAt(0)] = "r"]
    BY <1>a, <1>b, <2>1, <2>2, MprotectTypes
  <2>4. firstOk' => protection'[1] = "r"
    BY <1>a, <1>d, <2>1, <2>2, <2>3, FirstTwo DEF Protections
  <2> QED
    BY <1>a, <2>1, <2>2, <2>3, <2>4
<1>6. CASE ProtectSecond
  <2>1. PICK ok \in BOOLEAN : Mprotect(1, "rw", ok) /\ secondOk' = ok
    BY <1>6 DEF ProtectSecond
  <2>2. /\ measuring = "second" /\ measuring' = "unmap" /\ claim = "none"
        /\ UNCHANGED <<hostPage, offset, firstOk, claim>>
    BY <1>6 DEF ProtectSecond
  <2>3. /\ protection' \in Protections'
        /\ ok => Aligned(1) /\ protection' = [protection EXCEPT ![PageAt(1)] = "rw"]
        /\ ~ok => protection' = protection
    BY <1>a, <1>b, <2>1, <2>2, MprotectTypes
  <2>4. ASSUME secondOk'
        PROVE  hostPage = 1 /\ protection' = [protection EXCEPT ![2] = "rw"]
    BY <1>a, <2>1, <2>3, <2>4, FirstTwo
  <2>5. ASSUME firstOk' PROVE protection'[1] = "r"
    <3>1. protection[1] = "r" /\ protection \in Protections
      BY <2>2, <2>5
    <3>2. CASE secondOk'
      BY <1>d, <2>4, <3>1, <3>2 DEF Protections
    <3>3. CASE ~secondOk'
      BY <2>1, <2>3, <3>1, <3>3
    <3> QED
      BY <3>2, <3>3
  <2>6. ASSUME secondOk' PROVE hostPage' = 1 /\ protection'[2] = "rw"
    BY <1>d, <2>2, <2>4, <2>6 DEF Protections
  <2> QED
    BY <1>a, <2>1, <2>2, <2>3, <2>5, <2>6
<1>7. CASE Unmap
  <2>1. /\ measuring = "unmap" /\ measuring' = "done"
        /\ claim' = IF Supported THEN "distinct" ELSE "same"
        /\ UNCHANGED <<hostPage, offset, protection, firstOk, secondOk>>
    BY <1>7 DEF Unmap
  <2>2. Supported' = Supported
    BY <2>1 DEF Supported
  <2> QED
    BY <1>a, <1>c, <2>1, <2>2
<1>8. CASE EndPage
  BY <1>8, <1>e DEF EndPage
<1>9. CASE UNCHANGED pageVars
  BY <1>9, <1>c DEF pageVars, Supported
<1> QED
  BY <1>1, <1>2, <1>3, <1>4, <1>5, <1>6, <1>7, <1>8, <1>9 DEF PageStep

\* The invariant says what PageModelTruth says.
LEMMA PageInvTruth == PageInv => PageModelTruth
<1> SUFFICES ASSUME PageInv PROVE PageModelTruth
  OBVIOUS
<1>1. hostPage \in HostPages
  BY DEF PageInv, PageTypes
<1>2. measuring \in {"scan", "first", "second"} =>
        \A o \in 0..(RegionPages - 1) : PageAt(o) \in DOMAIN protection
  BY <1>1, InMapping DEF PageInv, Mapped, Protections
<1>3. claim = "same" => protection[PageAt(0)] = protection[PageAt(1)]
  <2>1. claim = "same" => hostPage # 1
    BY DEF PageInv, Supported
  <2> QED
    BY <1>1, <2>1, FirstTwo
<1>4. ASSUME claim = "distinct", (firstOk /\ secondOk) \/ hostPage # 1
      PROVE  protection[PageAt(0)] # protection[PageAt(1)]
  <2>1. measuring = "done" /\ Supported
    BY <1>4 DEF PageInv
  <2>2. firstOk /\ secondOk
    BY <1>1, <1>4, <2>1, PagesAssumption DEF Supported
  <2>3. hostPage = 1 /\ protection[1] = "r" /\ protection[2] = "rw"
    BY <2>1, <2>2 DEF PageInv
  <2> QED
    BY <1>1, <2>3, FirstTwo
<1> QED
  BY <1>2, <1>3, <1>4 DEF PageModelTruth

-----------------------------------------------------------------------------
(* The engine.                                                              *)

Left == Codes \cup {"0"}                      \* what errno may hold
Returned == Codes \cup {"0", "SKIP", "BLOCKED"}    \* what a probe may return

\* What every variable of the engine is, and that errno is that of the probe that runs.
EngineTypes ==
  /\ [platform |-> platform, page |-> hostPage] \in Hosts
  /\ launch \in {"paths", "observation", "bundle", "ready", "over"}
  /\ config \in [paths : 0..PathFields, observation : 0..ObservationFields,
                 helper : BOOLEAN, dylib : BOOLEAN]
  /\ asked \in Names \cup {"all", "nothing"} /\ probe \in Names \cup {"none"}
  /\ todo \in Seq(Names)
  /\ held \subseteq {"handle", "end0", "end1"}
  /\ errno \in Left /\ setBy \in Names \cup {"none"}
  /\ launch \notin {"ready", "over"} => todo = <<>>
  /\ probe # "none" => todo # <<>> /\ setBy = probe

\* Who holds what, and where.
Holding ==
  /\ probe \notin {"dlopen_bundle", "unix_socket"} => held = {}
  /\ stage \in {"off", "entered"} => held = {}
  /\ probe = "dlopen_bundle" =>
       stage = "entered" \/ (stage = "opened" /\ platform = "darwin" /\ config.dylib)
  /\ probe # "signal_resume" \/ ~Arm64 => at["main"] = "off"

\* What a result says.
RowInv == row.os \in Left /\ ErrorIsOwn /\ FailureIsNamed

\* The invariant of the engine.
EngineInv == EngineTypes /\ Holding /\ RowInv

\* The names of the table.
LEMMA NamesAre ==
  /\ Names = {"runtime_paths", "page_model", "jit_basic", "jit_write_protect",
              "jit_multithread", "signal_resume", "dlopen_bundle", "unix_socket",
              "shared_mapping", "helper_spawn", "helper_ipc", "lifecycle_jit"}
  /\ ProbeTable \in Seq(Names) /\ ProbeTable # <<>>
  BY DEF Names, ProbeTable

\* A result made of a probe's return value and the errno of that probe names an error
\* of its own, and one whenever it is not a PASS or a SKIP.
LEMMA ResultTrue ==
  ASSUME NEW name, NEW code \in Returned, NEW left \in Left,
         code = "BLOCKED" => left \in {"EACCES", "EPERM"},
         row' = Result(name, code, left, name)
  PROVE  RowInv'
<1>1. /\ row'.name = name /\ row'.from = name /\ row'.status = StatusOf(code)
      /\ row'.os = OsError(code, left)
      /\ row'.error = ErrorFor(StatusOf(code), OsError(code, left))
  BY DEF Result
<1>2. OsError(code, left) \in Left
  BY DEF OsError, Returned, Left
<1>3. StatusOf(code) = "FAIL" => OsError(code, left) # "0"
  BY DEF StatusOf, OsError, Returned, Codes, SignalErrors
<1>4. StatusOf(code) = "FAIL" =>
        ErrorFor(StatusOf(code), OsError(code, left)) \in
          {"PERMISSION", "ARGUMENT", "INTERNAL", "IO"}
  BY DEF ErrorFor
<1>5. StatusOf(code) = "BLOCKED" =>
        /\ OsError(code, left) \in {"EACCES", "EPERM"}
        /\ ErrorFor(StatusOf(code), OsError(code, left)) = "PERMISSION"
  BY DEF StatusOf, OsError, ErrorFor, Returned, Codes, SignalErrors
<1> QED
  BY <1>1, <1>2, <1>3, <1>4, <1>5 DEF RowInv, ErrorIsOwn, FailureIsNamed

\* So is NoRow, which stands for no result.
LEMMA NoRowTrue == row' = NoRow => RowInv'
  BY DEF NoRow, RowInv, ErrorIsOwn, FailureIsNamed, Left

\* Whatever a probe returns, the engine is left in order, and holds what it held.
LEMMA ReturnInv ==
  ASSUME EngineTypes, probe # "none",
         NEW code \in Returned, NEW left \in Left \cup {"untouched"},
         code = "BLOCKED" => left \in {"EACCES", "EPERM"},
         Return(code, left), held' = {}, hostPage' = hostPage, at'["main"] = "off"
  PROVE  EngineInv'
<1> DEFINE value == IF left = "untouched" THEN errno ELSE left
<1>1. /\ errno' = value /\ setBy' = probe /\ row' = Result(probe, code, value, probe)
      /\ todo' = Tail(todo) /\ probe' = "none" /\ stage' = "off"
      /\ UNCHANGED <<platform, launch, config, asked>>
  BY DEF EngineTypes, Return, Remaining
<1>2. value \in Left /\ (code = "BLOCKED" => value \in {"EACCES", "EPERM"})
  BY DEF EngineTypes
<1>3. todo' \in Seq(Names) /\ launch' \in {"ready", "over"}
  BY <1>1, HeadTailProperties DEF EngineTypes
<1>4. RowInv'
  BY <1>1, <1>2, ResultTrue
<1>5. EngineTypes'
  BY <1>1, <1>2, <1>3 DEF EngineTypes
<1>6. Holding'
  BY <1>1 DEF Holding
<1> QED
  BY <1>4, <1>5, <1>6 DEF EngineInv

\* The names of the errors are none of the other marks.
LEMMA CodesAre == /\ Codes = {"ENOENT", "EACCES", "EPERM", "EINVAL", "EIO", "ENOMEM", "EFAULT"}
                  /\ "untouched" \notin Left
  BY DEF Codes, SignalErrors, Left

\* A step within a probe leaves all but its own stage and what it holds.
LEMMA WithinInv ==
  ASSUME EngineInv, Within, hostPage' = hostPage, Holding',
         held' \subseteq {"handle", "end0", "end1"}
  PROVE  EngineInv'
  BY DEF EngineInv, EngineTypes, RowInv, ErrorIsOwn, FailureIsNamed, Within, runVars

\* The launch changes the configuration only, and before any probe runs.
LEMMA LaunchInv ==
  ASSUME EngineInv, NEW from \in {"paths", "observation", "bundle"},
         NEW to \in {"observation", "bundle", "ready"}, Launch(from, to),
         config' \in [paths : 0..PathFields, observation : 0..ObservationFields,
                      helper : BOOLEAN, dylib : BOOLEAN]
  PROVE  EngineInv'
<1>1. /\ launch = from /\ launch' = to /\ probe = "none" /\ todo = <<>>
      /\ UNCHANGED <<hostPage, at, platform, asked, todo, probe, row, stage, held, errno,
                     setBy>>
  BY DEF Launch, EngineInv, EngineTypes, signalVars, pageVars, runVars
<1>2. EngineTypes'
  BY <1>1 DEF EngineInv, EngineTypes
<1>3. Holding'
  BY <1>1 DEF EngineInv, Holding, Arm64
<1>4. RowInv'
  BY <1>1 DEF EngineInv, RowInv, ErrorIsOwn, FailureIsNamed
<1> QED
  BY <1>2, <1>3, <1>4 DEF EngineInv

\* At launch nothing has run.
LEMMA InitEngine == Init => EngineInv /\ PageInv
<1> SUFFICES ASSUME Init PROVE EngineInv /\ PageInv
  OBVIOUS
<1>1. EngineTypes
  <2>1. config \in [paths : 0..PathFields, observation : 0..ObservationFields,
                    helper : BOOLEAN, dylib : BOOLEAN]
    BY DEF Init, PathFields, ObservationFields
  <2>2. todo \in Seq(Names)
    BY DEF Init
  <2> QED
    BY <2>1, <2>2 DEF Init, EngineTypes, Left
<1>2. Holding
  BY DEF Init, SignalInit, Holding, Threads
<1>3. RowInv
  BY DEF Init, NoRow, RowInv, ErrorIsOwn, FailureIsNamed, Left
<1>4. PageInv
  <2>1. 0 \in 0..RegionPages
    BY PagesAssumption
  <2> QED
    BY <2>1 DEF Init, PageInit, PageInv, PageTypes, Stages, Claims, Mapped
<1> QED
  BY <1>1, <1>2, <1>3, <1>4 DEF EngineInv

\* Every step of the engine is one of page_model or leaves it alone.
LEMMA RunsPageModel == [Next]_vars => [PageStep]_pageVars
<1> SUFFICES ASSUME [Next]_vars PROVE [PageStep]_pageVars
  OBVIOUS
<1> USE DEF PageStep
<1>1. CASE Configure
  BY <1>1 DEF Configure, ConfigurePathContext, ConfigureRuntimeObservation, ConfigureBundle,
     Launch
<1>2. CASE RunAll \/ \E name \in Names : RunProbe(name)
  BY <1>2 DEF RunAll, RunProbe, Ask
<1>3. CASE Call
  BY <1>3 DEF Call
<1>4. CASE PageModelSteps
  BY <1>4 DEF PageModelSteps
<1>5. CASE SignalResumeSteps
  BY <1>5 DEF SignalResumeSteps
<1>6. CASE RuntimePaths \/ DlopenSkips \/ Dlopen \/ Dlsym \/ Socketpair \/ SocketExchange
           \/ SocketCloses \/ OtherProbe \/ ProbeEndsApp
  BY <1>6 DEF RuntimePaths, DlopenSkips, Dlopen, Dlsym, Socketpair, SocketExchange,
              SocketCloses, OtherProbe, ProbeEndsApp, In
<1>7. CASE UNCHANGED vars
  BY <1>7 DEF vars
<1> QED
  BY <1>1, <1>2, <1>3, <1>4, <1>5, <1>6, <1>7 DEF Next, Step

\* Every step of the engine is one of signal_resume or leaves it alone.
LEMMA RunsSignalResume == [Next]_vars => [SignalNext]_signalVars
<1> SUFFICES ASSUME [Next]_vars PROVE [SignalNext]_signalVars
  OBVIOUS
<1> USE DEF SignalNext
<1>1. CASE Configure
  BY <1>1 DEF Configure, ConfigurePathContext, ConfigureRuntimeObservation, ConfigureBundle,
     Launch
<1>2. CASE RunAll \/ \E name \in Names : RunProbe(name)
  BY <1>2 DEF RunAll, RunProbe, Ask
<1>3. CASE Call
  BY <1>3 DEF Call
<1>4. CASE PageModelSteps
  BY <1>4 DEF PageModelSteps
<1>5. CASE SignalResumeSteps
  BY <1>5 DEF SignalResumeSteps
<1>6. CASE RuntimePaths \/ DlopenSkips \/ Dlopen \/ Dlsym \/ Socketpair \/ SocketExchange
           \/ SocketCloses \/ OtherProbe \/ ProbeEndsApp
  BY <1>6 DEF RuntimePaths, DlopenSkips, Dlopen, Dlsym, Socketpair, SocketExchange,
              SocketCloses, OtherProbe, ProbeEndsApp, In
<1>7. CASE UNCHANGED vars
  BY <1>7 DEF vars
<1> QED
  BY <1>1, <1>2, <1>3, <1>4, <1>5, <1>6, <1>7 DEF Next, Step

\* Every step keeps the engine's invariant.
LEMMA StepEngine ==
  ASSUME EngineInv, SignalTypes, [Next]_vars
  PROVE  EngineInv'
<1>t. EngineTypes /\ Holding /\ RowInv
  BY DEF EngineInv
<1>h. hostPage' = hostPage
  BY RunsPageModel DEF PageStep, pageVars, StartPage, EndPage, PageFails, Locals, MapRegion,
     Scan,
     ProtectFirst, ProtectSecond, Unmap
<1>i. ASSUME NEW name \in Names, In(name)
      PROVE  probe = name /\ probe # "none" /\ at' = at
  BY <1>i, NamesAre DEF In, signalVars
<1>c. /\ Codes = {"ENOENT", "EACCES", "EPERM", "EINVAL", "EIO", "ENOMEM", "EFAULT"}
      /\ "untouched" \notin Left /\ Codes \subseteq Left /\ "0" \in Left
      /\ Codes \subseteq Returned /\ {"0", "SKIP", "BLOCKED"} \subseteq Returned
  BY CodesAre DEF Left, Returned
<1>1. CASE Configure
  <2>1. config \in [paths : 0..PathFields, observation : 0..ObservationFields,
                    helper : BOOLEAN, dylib : BOOLEAN]
    BY <1>t DEF EngineTypes
  <2>2. CASE ConfigurePathContext
    <3>1. PICK bad \in 0..PathFields :
            config' = [config EXCEPT !.paths = Copied(bad, PathFields)]
      BY <2>2 DEF ConfigurePathContext
    <3>2. Copied(bad, PathFields) \in 0..PathFields
      BY DEF Copied, PathFields
    <3>3. Launch("paths", "observation")
      BY <2>2 DEF ConfigurePathContext
    <3> QED
      BY <2>1, <3>1, <3>2, <3>3, LaunchInv
  <2>3. CASE ConfigureRuntimeObservation
    <3>1. PICK bad \in 0..ObservationFields :
            config' = [config EXCEPT !.observation = Copied(bad, ObservationFields)]
      BY <2>3 DEF ConfigureRuntimeObservation
    <3>2. Copied(bad, ObservationFields) \in 0..ObservationFields
      BY DEF Copied, ObservationFields
    <3>3. Launch("observation", "bundle")
      BY <2>3 DEF ConfigureRuntimeObservation
    <3> QED
      BY <2>1, <3>1, <3>2, <3>3, LaunchInv
  <2>4. CASE ConfigureBundle
    <3>1. PICK helper, dylib \in BOOLEAN :
            config' = [config EXCEPT !.helper = helper, !.dylib = dylib]
      BY <2>4 DEF ConfigureBundle
    <3>2. Launch("bundle", "ready")
      BY <2>4 DEF ConfigureBundle
    <3> QED
      BY <2>1, <3>1, <3>2, LaunchInv
  <2> QED
    BY <1>1, <2>2, <2>3, <2>4 DEF Configure
<1>2. ASSUME NEW what \in Names \cup {"all"}, NEW names \in Seq(Names), names # <<>>,
             Ask(what, names)
      PROVE  EngineInv'
  <2>1. /\ launch = "ready" /\ todo = <<>> /\ asked' = what /\ todo' = names /\ row' = NoRow
        /\ UNCHANGED <<at, platform, launch, config, probe, stage, held, errno, setBy>>
    BY <1>2 DEF Ask, signalVars
  <2>2. EngineTypes'
    BY <1>t, <1>h, <1>2, <2>1 DEF EngineTypes
  <2>3. Holding'
    BY <1>t, <2>1 DEF Holding, Arm64
  <2> QED
    BY <2>1, <2>2, <2>3, NoRowTrue DEF EngineInv
<1>3. CASE Call
  <2>1. /\ todo # <<>> /\ probe = "none" /\ probe' = Head(todo) /\ stage' = "entered"
        /\ row' = NoRow /\ errno' = "0" /\ setBy' = Head(todo)
        /\ UNCHANGED <<platform, launch, config, asked, todo, held>>
    BY <1>3 DEF Call, ErrnoReset
  <2>2. Head(todo) \in Names /\ held = {}
    BY <1>t, <2>1, HeadTailProperties DEF EngineTypes, Holding
  <2>3. EngineTypes'
    BY <1>t, <1>h, <1>c, <2>1, <2>2 DEF EngineTypes
  <2>4. probe' # "signal_resume" \/ ~Arm64' => at' = at
    BY <1>3, <2>1 DEF Call, Arm64, signalVars
  <2>5. Holding'
    BY <1>t, <2>1, <2>2, <2>4 DEF Holding
  <2> QED
    BY <2>1, <2>3, <2>5, NoRowTrue DEF EngineInv
<1>4. CASE RuntimePaths
  <2>1. In("runtime_paths") /\ held' = held
    BY <1>4 DEF RuntimePaths
  <2>2. probe # "none" /\ held = {} /\ at'["main"] = "off"
    BY <1>t, <1>i, <2>1, NamesAre DEF Holding
  <2> QED
    BY <1>4, <1>t, <1>h, <1>c, <2>1, <2>2, ReturnInv DEF RuntimePaths
<1>5. CASE PageModelSteps
  <2>1. probe = "page_model" /\ UNCHANGED <<signalVars, held>>
    BY <1>5 DEF PageModelSteps
  <2>2. held = {} /\ at["main"] = "off" /\ at' = at
    BY <1>t, <2>1 DEF Holding, signalVars
  <2>3. CASE Within /\ UNCHANGED stage
    <3>1. Holding'
      BY <1>t, <2>1, <2>2, <2>3 DEF Holding, Within, runVars, Arm64
    <3> QED
      BY <1>t, <1>h, <2>1, <2>3, <3>1, WithinInv DEF EngineTypes
  <2>4. ASSUME NEW e \in {"EINVAL", "ENOMEM"}, Return(e, e)
        PROVE  EngineInv'
    BY <1>t, <1>h, <1>c, <2>1, <2>2, <2>4, ReturnInv
  <2>5. CASE Return("0", LeftBehind)
    <3>1. LeftBehind \in Left
      BY <1>c DEF LeftBehind
    <3> QED
      BY <1>t, <1>h, <1>c, <2>1, <2>2, <2>5, <3>1, ReturnInv
  <2> QED
    BY <1>5, <2>3, <2>4, <2>5 DEF PageModelSteps
<1>6. CASE SignalResumeSteps
  <2>1. probe = "signal_resume" /\ UNCHANGED held /\ held = {}
    BY <1>6, <1>t DEF SignalResumeSteps, Holding
  <2>2. CASE Arm64 /\ Within /\ UNCHANGED stage
    <3>1. Holding'
      BY <1>t, <2>1, <2>2 DEF Holding, Within, runVars, Arm64
    <3> QED
      BY <1>t, <1>h, <2>1, <2>2, <3>1, WithinInv DEF EngineTypes
  <2>3. ASSUME EndSignal, NEW left \in {"untouched", "ENOENT"}, Return(rc, left)
        PROVE  EngineInv'
    <3>1. rc \in Returned /\ rc # "BLOCKED"
      BY <1>c, <2>3 DEF SignalTypes, EndSignal, SignalErrors
    <3>2. at'["main"] = "off"
      BY <2>3 DEF EndSignal, Threads
    <3> QED
      BY <1>t, <1>h, <1>c, <2>1, <2>3, <3>1, <3>2, ReturnInv
  <2>4. CASE ~Arm64 /\ Return("SKIP", "untouched") /\ UNCHANGED signalVars
    <3>1. at'["main"] = "off"
      BY <1>t, <2>4 DEF Holding, signalVars
    <3> QED
      BY <1>t, <1>h, <1>c, <2>1, <2>4, <3>1, ReturnInv
  <2> QED
    BY <1>6, <2>2, <2>3, <2>4 DEF SignalResumeSteps
<1>7. CASE DlopenSkips
  <2>1. /\ In("dlopen_bundle") /\ held' = held /\ Return("SKIP", "untouched")
        /\ platform # "darwin" \/ ~config.dylib
    BY <1>7 DEF DlopenSkips
  <2>2. probe = "dlopen_bundle" /\ at'["main"] = "off"
    BY <1>t, <1>i, <2>1, NamesAre DEF Holding
  <2>3. held = {}
    BY <1>t, <2>1, <2>2 DEF Holding
  <2> QED
    BY <1>t, <1>h, <1>c, <2>1, <2>2, <2>3, ReturnInv
<1>8. CASE Dlopen
  <2>1. In("dlopen_bundle") /\ stage = "entered" /\ platform = "darwin" /\ config.dylib
    BY <1>8 DEF Dlopen
  <2>2. probe = "dlopen_bundle" /\ at' = at /\ at["main"] = "off" /\ held = {}
    BY <1>t, <1>i, <2>1, NamesAre DEF Holding
  <2>3. CASE held' = {"handle"} /\ stage' = "opened" /\ Within
    <3>1. Holding'
      BY <2>1, <2>2, <2>3 DEF Holding, Within, runVars
    <3> QED
      BY <1>h, <2>3, <3>1, WithinInv
  <2>4. CASE Return("EFAULT", "untouched") /\ UNCHANGED held
    BY <1>t, <1>h, <1>c, <2>2, <2>4, ReturnInv
  <2> QED
    BY <1>8, <2>3, <2>4 DEF Dlopen
<1>9. CASE Dlsym
  <2>1. PICK ok \in BOOLEAN : held' = {} /\ Return(IF ok THEN "0" ELSE "EFAULT", "untouched")
    BY <1>9 DEF Dlsym, Closed
  <2>2. In("dlopen_bundle")
    BY <1>9 DEF Dlsym
  <2>3. probe = "dlopen_bundle" /\ at'["main"] = "off"
    BY <1>t, <1>i, <2>2, NamesAre DEF Holding
  <2> QED
    BY <1>t, <1>h, <1>c, <2>1, <2>3, ReturnInv
<1>10. CASE Socketpair
  <2>1. In("unix_socket") /\ stage = "entered"
    BY <1>10 DEF Socketpair
  <2>2. probe = "unix_socket" /\ at' = at /\ at["main"] = "off" /\ held = {}
    BY <1>t, <1>i, <2>1, NamesAre DEF Holding
  <2>3. CASE held' = {"end0", "end1"} /\ stage' = SocketStages[1] /\ Within
    <3>1. Holding'
      BY <2>2, <2>3 DEF Holding, Within, runVars, SocketStages
    <3> QED
      BY <1>h, <2>3, <3>1, WithinInv
  <2>4. CASE Return("ENOMEM", "ENOMEM") /\ UNCHANGED held
    BY <1>t, <1>h, <1>c, <2>2, <2>4, ReturnInv
  <2> QED
    BY <1>10, <2>3, <2>4 DEF Socketpair
<1>11. CASE SocketExchange
  <2>1. In("unix_socket") /\ held' = held /\ Within
    BY <1>11 DEF SocketExchange
  <2>2. probe = "unix_socket" /\ at' = at /\ at["main"] = "off"
    BY <1>t, <1>i, <2>1, NamesAre DEF Holding
  <2>3. stage' \notin {"off", "entered"}
    BY <1>11 DEF SocketExchange, SocketStages
  <2>4. Holding'
    BY <2>1, <2>2, <2>3 DEF Holding, Within, runVars
  <2> QED
    BY <1>t, <1>h, <2>1, <2>4, WithinInv DEF EngineTypes
<1>12. CASE SocketCloses
  <2>1. /\ In("unix_socket") /\ held' = {}
        /\ \/ Return("0", "untouched")
           \/ \E left \in {"untouched", "EIO"} : Return("EIO", left)
    BY <1>12 DEF SocketCloses
  <2>2. probe = "unix_socket" /\ at'["main"] = "off"
    BY <1>t, <1>i, <2>1, NamesAre DEF Holding
  <2> QED
    BY <1>t, <1>h, <1>c, <2>1, <2>2, ReturnInv
<1>13. CASE OtherProbe
  <2>1. /\ probe \in JitNames \cup HelperNames \cup {"lifecycle_jit"}
        /\ UNCHANGED <<signalVars, held>>
    BY <1>13 DEF OtherProbe, In
  <2>2. probe # "none" /\ held' = {} /\ at'["main"] = "off"
    BY <1>t, <2>1 DEF Holding, JitNames, HelperNames, signalVars
  <2>3. \E r \in JitReturns(probe) \cup HelperReturns \cup LifecycleReturns : Return(r[1], r[2])
    BY <1>13 DEF OtherProbe
  <2>4. ASSUME NEW r \in JitReturns(probe) \cup HelperReturns \cup LifecycleReturns
        PROVE  /\ r[1] \in Returned /\ r[2] \in Left \cup {"untouched"}
               /\ r[1] = "BLOCKED" => r[2] \in {"EACCES", "EPERM"}
    BY <1>c, <2>4 DEF JitReturns, HelperReturns, LifecycleReturns
  <2> QED
    BY <1>t, <1>h, <2>2, <2>3, <2>4, ReturnInv
<1>14. CASE UNCHANGED vars
  <2>1. UNCHANGED engineVars /\ at' = at
    BY <1>14 DEF vars, signalVars
  <2> QED
    BY <1>t, <1>h, <2>1 DEF EngineInv, EngineTypes, Holding, Arm64, RowInv, ErrorIsOwn,
       FailureIsNamed, engineVars, runVars
<1>15. CASE ProbeEndsApp
  <2>1. /\ launch' = "over" /\ probe # "none"
        /\ UNCHANGED <<signalVars, platform, config, asked, todo, probe, row, stage, held,
                       errno, setBy>>
    BY <1>15, <1>t DEF ProbeEndsApp, In, Deadly, HelperNames, runVars
  <2>2. EngineTypes'
    BY <1>t, <1>h, <2>1 DEF EngineTypes
  <2>3. Holding'
    BY <1>t, <2>1 DEF Holding, Arm64, signalVars
  <2> QED
    BY <1>t, <2>1, <2>2, <2>3 DEF EngineInv, RowInv, ErrorIsOwn, FailureIsNamed
<1>16. ASSUME NEW name \in Names, RunProbe(name) PROVE EngineInv'
  <2>1. <<name>> \in Seq(Names) /\ <<name>> # <<>>
    OBVIOUS
  <2> QED
    BY <1>2, <1>16, <2>1 DEF RunProbe
<1>17. CASE RunAll
  BY <1>2, <1>17, NamesAre DEF RunAll
<1> QED
  BY <1>1, <1>3, <1>4, <1>5, <1>6, <1>7, <1>8, <1>9, <1>10, <1>11, <1>12, <1>13, <1>14,
     <1>15, <1>16, <1>17 DEF Next, Step

-----------------------------------------------------------------------------
(* The order of the results.                                                *)

\* What the user asked for, as the probes to run.
Wanted == IF asked = "all" THEN ProbeTable ELSE IF asked = "nothing" THEN <<>> ELSE <<asked>>

\* The results handed to the callback so far, followed by the probes still to run, are
\* what was asked for: graft_run_all_probes skips, repeats and reorders nothing,
\* whatever the probes return.
ResultsInOrder == reported \o todo = Wanted

\* Its invariant: the probe that runs is the first of those still to run.
OrderInv ==
  /\ reported \in Seq(Names) /\ ResultsInOrder
  /\ probe # "none" => probe = Head(todo)

\* Moving the first of the probes still to run to the results changes nothing.
LEMMA MoveFirst ==
  ASSUME NEW S, NEW r \in Seq(S), NEW t \in Seq(S), t # <<>>
  PROVE  Append(r, Head(t)) \o Tail(t) = r \o t
<1>0. \A a, b, c \in Seq(S) : (a \o b) \o c = a \o (b \o c)
  <2> TAKE a, b, c \in Seq(S)
  <2> QED
    BY SMTT(60)
<1> DEFINE h == <<Head(t)>>
<1>1. Head(t) \in S /\ h \in Seq(S) /\ Tail(t) \in Seq(S) /\ Len(Tail(t)) = Len(t) - 1
  BY HeadTailProperties
<1>2. h \o Tail(t) = t
  <2>1. Len(h) = 1 /\ h[1] = t[1] /\ Len(t) \in Nat
    OBVIOUS
  <2>2. h \o Tail(t) \in Seq(S) /\ Len(h \o Tail(t)) = Len(t)
    BY <1>1, <2>1, ConcatProperties
  <2>3. \A i \in 1..Len(t) : (h \o Tail(t))[i] = IF i <= 1 THEN h[i] ELSE Tail(t)[i - 1]
    BY <1>1, <2>1, ConcatProperties
  <2>4. \A i \in 1..(Len(t) - 1) : Tail(t)[i] = t[i + 1]
    OBVIOUS
  <2>5. \A i \in 1..Len(t) : (h \o Tail(t))[i] = t[i]
    BY <2>1, <2>3, <2>4
  <2> QED
    BY <2>2, <2>5, SeqEqual
<1>3. Append(r, Head(t)) = r \o h
  BY <1>1, AppendIsConcat
<1> HIDE DEF h
<1>4. (r \o h) \o Tail(t) = r \o (h \o Tail(t))
  BY ONLY <1>0, <1>1, r \in Seq(S), Zenon
<1> QED
  BY ONLY <1>2, <1>3, <1>4, Zenon

\* Every step starts what is asked, calls the first probe, returns from it, or changes
\* neither the results nor the probes still to run.
LEMMA StepKinds ==
  ASSUME [Next]_vars
  PROVE  \/ \E name \in Names : RunProbe(name)
         \/ RunAll
         \/ Call
         \/ probe # "none" /\ \E code, left : Return(code, left)
         \/ UNCHANGED <<asked, todo, probe, reported>>
<1> USE NamesAre DEF In, Within, runVars
<1>1. CASE Configure
  BY <1>1 DEF Configure, ConfigurePathContext, ConfigureRuntimeObservation, ConfigureBundle,
              Launch
<1>2. CASE RuntimePaths \/ DlopenSkips \/ SocketCloses
  BY <1>2 DEF RuntimePaths, DlopenSkips, SocketCloses
<1>3. CASE PageModelSteps
  BY <1>3 DEF PageModelSteps
<1>4. CASE SignalResumeSteps
  BY <1>4 DEF SignalResumeSteps
<1>5. CASE Dlopen \/ Socketpair
  BY <1>5 DEF Dlopen, Socketpair
<1>6. CASE Dlsym
  BY <1>6 DEF Dlsym
<1>7. CASE SocketExchange
  BY <1>7 DEF SocketExchange
<1>8. CASE OtherProbe
  BY <1>8 DEF OtherProbe, JitNames, HelperNames
<1>9. CASE ProbeEndsApp
  BY <1>9 DEF ProbeEndsApp
<1>10. CASE UNCHANGED vars
  BY <1>10 DEF vars, engineVars
<1> QED
  BY <1>1, <1>2, <1>3, <1>4, <1>5, <1>6, <1>7, <1>8, <1>9, <1>10 DEF Next, Step

\* Every step keeps the results in order.
LEMMA OrderStep ==
  ASSUME EngineTypes, OrderInv, [Next]_vars
  PROVE  OrderInv'
<1>t. todo \in Seq(Names) /\ (probe # "none" => todo # <<>>)
  BY DEF EngineTypes
<1>1. ASSUME NEW name \in Names, RunProbe(name) PROVE OrderInv'
  <2>1. /\ todo = <<>> /\ asked' = name /\ todo' = <<name>> /\ reported' = <<>>
        /\ probe' = probe
    BY <1>1 DEF RunProbe, Ask
  <2>2. Wanted' = <<name>> /\ <<>> \o <<name>> = <<name>>
    BY <1>1, <2>1, NamesAre DEF Wanted
  <2> QED
    BY <1>t, <2>1, <2>2 DEF OrderInv, ResultsInOrder
<1>2. CASE RunAll
  <2>1. /\ todo = <<>> /\ asked' = "all" /\ todo' = ProbeTable /\ reported' = <<>>
        /\ probe' = probe
    BY <1>2 DEF RunAll, Ask
  <2>2. Wanted' = ProbeTable /\ <<>> \o ProbeTable = ProbeTable
    BY <2>1, NamesAre, ConcatEmptySeq DEF Wanted
  <2> QED
    BY <1>t, <2>1, <2>2 DEF OrderInv, ResultsInOrder
<1>3. CASE Call
  BY <1>3 DEF Call, OrderInv, ResultsInOrder, Wanted
<1>4. ASSUME probe # "none", NEW code, NEW left, Return(code, left) PROVE OrderInv'
  <2>1. /\ reported' = Append(reported, probe) /\ todo' = Tail(todo) /\ probe' = "none"
        /\ asked' = asked
    BY <1>4 DEF Return, Remaining
  <2>2. probe = Head(todo) /\ probe \in Names /\ reported \in Seq(Names)
    BY <1>4, <1>t, HeadTailProperties DEF OrderInv
  <2>3. reported' \o todo' = reported \o todo /\ reported' \in Seq(Names)
    BY <1>4, <1>t, <2>1, <2>2, MoveFirst, AppendProperties
  <2> QED
    BY <2>1, <2>3 DEF OrderInv, ResultsInOrder, Wanted
<1>5. CASE UNCHANGED <<asked, todo, probe, reported>>
  BY <1>5 DEF OrderInv, ResultsInOrder, Wanted
<1> QED
  BY <1>1, <1>2, <1>3, <1>4, <1>5, StepKinds

-----------------------------------------------------------------------------
(* The theorems.                                                            *)

\* graft_run_probe runs signal_resume as SignalResume describes it, so whatever holds of
\* that module holds of the probe in the app.
THEOREM RunsSignalSpec == Spec => SignalSpec
<1>1. Init => SignalInit
  BY DEF Init
<1> QED
  BY <1>1, RunsSignalResume, PTL DEF Spec, SignalSpec

\* The app survives signal_resume, however often the user runs it among the others.
THEOREM AppSurvivesFaults == Spec => []FaultsAreCaught
  BY RunsSignalSpec, EveryFaultIsCaught, PTL

\* Whatever the region, the host's pages and the refused calls, page_model stays in its
\* mapping and reports what the kernel did, but for the claim it makes untested on hosts
\* of 4 KiB pages.
THEOREM PageReportIsTrue == Spec => []PageModelTruth
<1>1. ASSUME PageInv, [Next]_vars PROVE PageInv'
  BY <1>1, RunsPageModel, PageStepInv
<1> QED
  BY InitEngine, PageInvTruth, <1>1, PTL DEF Spec

\* The engine's invariant holds throughout.
THEOREM EngineInvariance == Spec => [](EngineInv /\ PageInv /\ SignalTypes)
<1>1. ASSUME EngineInv, PageInv, SignalTypes, [Next]_vars
      PROVE  EngineInv' /\ PageInv'
  BY <1>1, RunsPageModel, PageStepInv, StepEngine
<1>2. Spec => []SignalTypes
  BY RunsSignalSpec, SignalTypesHold, PTL
<1> QED
  BY InitEngine, <1>1, <1>2, PTL DEF Spec

\* Every variable of the probe engine keeps its type.
THEOREM EngineTypeCorrect == Spec => []TypeOK
<1>1. ASSUME EngineInv, PageInv, SignalTypes PROVE TypeOK
  BY <1>1 DEF EngineInv, EngineTypes, RowInv, PageInv, TypeOK, Left
<1> QED
  BY <1>1, EngineInvariance, PTL

\* No result shows an error that an earlier probe met.
THEOREM ErrorsAreOwn == Spec => []ErrorIsOwn
<1>1. EngineInv => ErrorIsOwn
  BY DEF EngineInv, RowInv
<1> QED
  BY <1>1, EngineInvariance, PTL

\* A result that is not a PASS or a SKIP names an error.
THEOREM FailuresAreNamed == Spec => []FailureIsNamed
<1>1. EngineInv => FailureIsNamed
  BY DEF EngineInv, RowInv
<1> QED
  BY <1>1, EngineInvariance, PTL

\* Between two probes no descriptor, dlopen handle or signal stack is held.
THEOREM NothingIsHeld == Spec => []NothingHeldBetweenProbes
<1>1. ASSUME EngineInv, SignalStateGivenBack PROVE NothingHeldBetweenProbes
  BY <1>1 DEF EngineInv, Holding, SignalStateGivenBack, NothingHeldBetweenProbes
<1>2. Spec => []SignalStateGivenBack
  BY RunsSignalSpec, SignalStateIsGivenBack, PTL
<1> QED
  BY <1>1, <1>2, EngineInvariance, PTL

\* Results come in the order of the table and each probe that was asked for has exactly
\* one, whatever the others returned: what is left of RunAllCompletes without fairness.
THEOREM ResultsComeInOrder == Spec => []ResultsInOrder
<1>1. Init => OrderInv
  BY ConcatEmptySeq DEF Init, OrderInv, ResultsInOrder, Wanted
<1>2. ASSUME EngineInv, OrderInv, [Next]_vars PROVE OrderInv'
  BY <1>2, OrderStep DEF EngineInv
<1>3. OrderInv => ResultsInOrder
  BY DEF OrderInv
<1> QED
  BY <1>1, <1>2, <1>3, EngineInvariance, PTL DEF Spec
=============================================================================
