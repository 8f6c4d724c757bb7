----------------------------- MODULE ProbeEngine -----------------------------
(***************************************************************************)
(* The probe engine of graft_probe.c as GraftHost uses it: ProbeStore      *)
(* configures the paths at launch and then runs one probe or all twelve,   *)
(* on the main thread.  A result is made of what the probe returned and of *)
(* errno, and handed to a callback.                                        *)
(*                                                                         *)
(* signal_resume and page_model are the modules SignalResume and PageModel;*)
(* unix_socket, dlopen_bundle and runtime_paths are here.  Of the JIT      *)
(* probes (module JitProbes), the helper probes (HelperSession) and        *)
(* lifecycle_jit (AppLifecycle) only what they can return matters, and that*)
(* some of them can end the app instead.                                   *)
(***************************************************************************)
EXTENDS SignalResume, PageModel, Sequences

CONSTANT
  Hosts   \* the machines considered: a platform and its page size

Platforms == {"darwin", "linux", "x86"}   \* x86: no arm64 code runs
ASSUME HostsAssumption == Hosts \subseteq [platform : Platforms, page : HostPages]

ProbeTable ==
  <<"runtime_paths", "page_model", "jit_basic", "jit_write_protect", "jit_multithread",
    "signal_resume", "dlopen_bundle", "unix_socket", "shared_mapping", "helper_spawn",
    "helper_ipc", "lifecycle_jit">>
Names == {ProbeTable[i] : i \in DOMAIN ProbeTable}
JitNames == {"jit_basic", "jit_write_protect", "jit_multithread"}
HelperNames == {"shared_mapping", "helper_spawn", "helper_ipc"}

\* ESRCH counts as ENOENT, EPIPE and ETIMEDOUT as EIO, any other errno as ENOMEM.
Codes == {"ENOENT", "EACCES", "EPERM", "EINVAL", "EIO"} \cup SignalErrors
NoRow == [name |-> "none", status |-> "none", reason |-> "none", error |-> "none",
          os |-> "0", from |-> "none"]

PathFields == 4           \* of graft_path_context
ObservationFields == 10   \* of graft_runtime_observation

VARIABLES
  platform,
  launch,    \* what ProbeStore.init does next; "over" when a probe has ended the app
  config,    \* how many fields are filled in, and which paths are there
  asked,     \* what the user asked for last
  todo,      \* the probes still to run
  probe,     \* the one that runs
  stage,     \* where unix_socket or dlopen_bundle is
  held,      \* the descriptors and handles they hold
  errno,     \* errno of the main thread
  setBy,     \* the probe that set it (history)
  row,       \* the last result handed to the callback
  reported   \* the names of the results since the user last asked

runVars == <<asked, todo, probe, row, reported>>
engineVars == <<platform, launch, config, runVars, stage, held, errno, setBy>>
vars == <<signalVars, pageVars, engineVars>>

Init ==
  /\ SignalInit /\ PageInit /\ platform \in Platforms
  /\ [platform |-> platform, page |-> hostPage] \in Hosts /\ launch = "paths"
  /\ config = [paths |-> 0, observation |-> 0, helper |-> FALSE, dylib |-> FALSE]
  /\ asked = "nothing" /\ todo = <<>> /\ probe = "none" /\ stage = "off"
  /\ held = {} /\ errno = "0" /\ setBy = "none"
  /\ row = NoRow /\ reported = <<>>

-----------------------------------------------------------------------------
(* Launch: the configuration calls of ProbeStore.init. *)

\* Fields are checked first and copied afterwards; bad is the first that is missing,
\* empty or too long, 0 if there is none.
Copied(bad, fields) == IF bad = 0 THEN fields ELSE 0

Launch(from, to) ==
  /\ launch = from /\ launch' = to
  /\ UNCHANGED <<signalVars, pageVars, platform, runVars, stage, held, errno, setBy>>

ConfigurePathContext ==
  /\ Launch("paths", "observation")
  /\ \E bad \in 0..PathFields : config' = [config EXCEPT !.paths = Copied(bad, PathFields)]

ConfigureRuntimeObservation ==
  /\ Launch("observation", "bundle")
  /\ \E bad \in 0..ObservationFields :
       config' = [config EXCEPT !.observation = Copied(bad, ObservationFields)]

\* The helper and the dylib may be missing from the bundle, or their paths too long.
ConfigureBundle ==
  /\ Launch("bundle", "ready")
  /\ \E helper, dylib \in BOOLEAN :
       config' = [config EXCEPT !.helper = helper, !.dylib = dylib]

-----------------------------------------------------------------------------
(* The result: graft_run_probe after the probe has returned. *)

StatusOf(code) == CASE code = "0" -> "PASS" [] code \in {"SKIP", "BLOCKED"} -> code
                    [] OTHER -> "FAIL"

ReasonFor(name, status, os) ==
  CASE status = "PASS" -> "NONE"
    [] status = "SKIP" -> IF name = "lifecycle_jit" THEN "LIFECYCLE_WAITING"
                                                    ELSE "NOT_SUPPORTED"
    [] status = "BLOCKED" -> "JIT_NOT_ENABLED"
    [] status = "FAIL" ->
         CASE name \in {"helper_spawn", "helper_ipc"} /\ os = "ENOENT" -> "CHILD_PROCESS"
           [] os \in {"EACCES", "EPERM"} -> "PERMISSION"
           [] os = "EINVAL" -> "INVALID_ARGUMENT"
           [] os = "EIO" -> "IO"
           [] OTHER -> IF name \in {"helper_spawn", "helper_ipc"} THEN "CHILD_PROCESS"
                                                                  ELSE "INTERNAL"

ErrorFor(status, os) ==
  CASE status = "PASS" -> "NONE"
    [] status = "SKIP" -> "UNSUPPORTED"
    [] status = "BLOCKED" /\ os # "0" -> "PERMISSION"
    [] OTHER -> CASE os \in {"EACCES", "EPERM"} -> "PERMISSION"
                  [] os = "EINVAL" -> "ARGUMENT"
                  [] os = "0" -> "INTERNAL"
                  [] OTHER -> "IO"

\* A positive return value is the error; for the others it is whatever errno holds.
BugOsError(code, left) == left
OsError(code, left) == IF code \in {"0", "SKIP", "BLOCKED"} THEN left ELSE code

Result(name, code, left, by) ==
  LET status == StatusOf(code) os == OsError(code, left) IN
    [name |-> name, status |-> status, reason |-> ReasonFor(name, status, os),
     error |-> ErrorFor(status, os), os |-> os,
     from |-> IF os = code THEN name ELSE by]

\* graft_run_all_probes goes on whatever the status was.
BugRemaining(status) == IF status = "PASS" THEN Tail(todo) ELSE <<>>
Remaining(status) == Tail(todo)

\* The probe returns code, having set errno to left, or not touched it when left is
\* "untouched"; the callback gets its result.
Return(code, left) ==
  LET value == IF left = "untouched" THEN errno ELSE left
      by    == IF left = "untouched" THEN setBy ELSE probe
  IN /\ errno' = value /\ setBy' = by
     /\ row' = Result(probe, code, value, by)
     /\ reported' = Append(reported, probe)
     /\ todo' = Remaining(row'.status) /\ probe' = "none" /\ stage' = "off"
     /\ UNCHANGED <<platform, launch, config, asked>>

-----------------------------------------------------------------------------
(* Asking, and calling a probe. *)

Ask(what, names) ==
  /\ launch = "ready" /\ todo = <<>> /\ ~crashed
  /\ asked' = what /\ todo' = names /\ reported' = <<>> /\ row' = NoRow
  /\ UNCHANGED <<signalVars, pageVars, platform, launch, config, probe, stage, held, errno,
                 setBy>>

RunProbe(name) == Ask(name, <<name>>)
RunAll == Ask("all", ProbeTable)

\* errno is cleared before every probe.
BugErrnoReset == UNCHANGED <<errno, setBy>>
ErrnoReset == errno' = "0" /\ setBy' = Head(todo)

Arm64 == platform # "x86"

Call ==
  /\ todo # <<>> /\ probe = "none" /\ ~crashed
  /\ probe' = Head(todo) /\ stage' = "entered" /\ row' = NoRow
  /\ ErrnoReset
  /\ IF Head(todo) = "signal_resume" /\ Arm64 THEN StartSignal ELSE UNCHANGED signalVars
  /\ IF Head(todo) = "page_model" THEN StartPage ELSE UNCHANGED pageVars
  /\ UNCHANGED <<platform, launch, config, asked, todo, reported, held>>

In(name) == probe = name /\ launch = "ready" /\ ~crashed /\ UNCHANGED <<signalVars, pageVars>>
Within == UNCHANGED <<platform, launch, config, runVars, errno, setBy>>

-----------------------------------------------------------------------------
(* The probes. *)

RuntimePaths ==
  /\ In("runtime_paths") /\ UNCHANGED held
  /\ IF config.paths = PathFields /\ config.observation = ObservationFields
     THEN Return("0", "untouched") ELSE Return("SKIP", "untouched")

PageModelSteps ==
  /\ probe = "page_model" /\ UNCHANGED <<signalVars, held>>
  /\ \/ /\ MapRegion \/ Scan \/ ProtectFirst \/ ProtectSecond \/ Unmap
        /\ Within /\ UNCHANGED stage
     \/ \E e \in {"EINVAL", "ENOMEM"} : PageFails /\ Return(e, e)
     \/ EndPage /\ Return("0", LeftBehind)

\* access() on the cache directory may leave an errno behind.
SignalResumeSteps ==
  /\ probe = "signal_resume" /\ UNCHANGED <<pageVars, held>>
  /\ \/ Arm64 /\ SignalStep /\ Within /\ UNCHANGED stage
     \/ /\ Arm64 /\ EndSignal
        /\ \E left \in {"untouched", "ENOENT"} : Return(rc, left)
     \/ ~Arm64 /\ Return("SKIP", "untouched") /\ UNCHANGED signalVars

DlopenSkips ==
  /\ In("dlopen_bundle") /\ UNCHANGED held
  /\ platform # "darwin" \/ ~config.dylib
  /\ Return("SKIP", "untouched")

Dlopen ==
  /\ In("dlopen_bundle") /\ stage = "entered" /\ platform = "darwin" /\ config.dylib
  /\ \/ held' = {"handle"} /\ stage' = "opened" /\ Within
     \/ Return("EFAULT", "untouched") /\ UNCHANGED held

\* dlsym and the call, then dlclose and only then the judgement.
BugClosed(ok) == IF ok THEN {} ELSE held
Closed(ok) == {}

Dlsym ==
  /\ In("dlopen_bundle") /\ stage = "opened"
  /\ \E ok \in BOOLEAN :
       held' = Closed(ok) /\ Return(IF ok THEN "0" ELSE "EFAULT", "untouched")

\* The two ends are written and read in turn; each of the stages may run out of time
\* or fail, after which the rest is left out and both ends are closed.
SocketStages == <<"request", "response", "shutdown">>

Socketpair ==
  /\ In("unix_socket") /\ stage = "entered"
  /\ \/ held' = {"end0", "end1"} /\ stage' = SocketStages[1] /\ Within
     \/ Return("ENOMEM", "ENOMEM") /\ UNCHANGED held

SocketExchange ==
  /\ In("unix_socket") /\ UNCHANGED held /\ Within
  /\ \E i \in 1..2 : stage = SocketStages[i] /\ stage' = SocketStages[i + 1]

SocketCloses ==
  /\ In("unix_socket") /\ stage \in {SocketStages[i] : i \in 1..3} /\ held' = {}
  /\ \/ stage = "shutdown" /\ Return("0", "untouched")
     \/ \E left \in {"untouched", "EIO"} : Return("EIO", left)

\* What the probes of the other modules return, with the errno they leave.
JitReturns(name) ==
  IF ~Arm64 THEN {<<"SKIP", "untouched">>}
  ELSE ({"0", "EACCES"} \X {"untouched", "EACCES", "EPERM", "ENOMEM"})
       \cup ({"BLOCKED"} \X {"EACCES", "EPERM"})
       \cup {<<e, e>> : e \in {"ENOMEM", "EPERM", "EIO"}}
       \cup IF name = "jit_multithread"
            THEN {"EIO", "ENOMEM"} \X {"untouched", "EACCES", "EPERM", "ENOMEM"} ELSE {}

HelperReturns ==
  IF ~config.helper THEN {<<"SKIP", "untouched">>}
  ELSE ({"0"} \X {"untouched", "ENOENT", "EACCES"})
       \cup ({"EIO"} \X {"untouched", "ENOENT", "EACCES", "EIO", "ENOMEM"})
       \cup {<<e, e>> : e \in {"ENOENT", "EACCES", "EINVAL", "ENOMEM"}}

LifecycleReturns ==
  {<<"SKIP", "untouched">>, <<"EINVAL", "untouched">>, <<"EIO", "untouched">>,
   <<"BLOCKED", "EACCES">>, <<"BLOCKED", "EPERM">>, <<"ENOMEM", "ENOMEM">>, <<"EIO", "EIO">>}
  \cup IF Arm64 THEN {<<"0", "untouched">>} ELSE {}

OtherProbe ==
  /\ probe \in JitNames \cup HelperNames \cup {"lifecycle_jit"}
  /\ In(probe) /\ UNCHANGED held
  /\ \E r \in CASE probe \in JitNames -> JitReturns(probe)
                [] probe \in HelperNames -> HelperReturns
                [] OTHER -> LifecycleReturns : Return(r[1], r[2])

\* The probes that can end the app: a reader of jit_multithread that calls code its
\* writer could not commit (module JitProbes), and a request written to a helper that
\* is gone (SIGPIPE, module HelperSession).
Deadly == (IF Arm64 THEN {"jit_multithread"} ELSE {})
          \cup (IF config.helper THEN HelperNames ELSE {})

ProbeEndsApp ==
  /\ probe \in Deadly /\ In(probe) /\ launch' = "over"
  /\ UNCHANGED <<platform, config, runVars, stage, held, errno, setBy>>

Configure == ConfigurePathContext \/ ConfigureRuntimeObservation \/ ConfigureBundle

Step ==
  \/ Call \/ RuntimePaths \/ PageModelSteps \/ SignalResumeSteps \/ DlopenSkips
  \/ Dlopen \/ Dlsym \/ Socketpair \/ SocketExchange \/ SocketCloses \/ OtherProbe
  \/ ProbeEndsApp

Next == Configure \/ RunAll \/ (\E name \in Names : RunProbe(name)) \/ Step

\* The main thread and the worker are scheduled and every system call returns.
Spec == Init /\ [][Next]_vars /\ WF_vars(Step)

-----------------------------------------------------------------------------
\* Every variable keeps its type.
TypeOK ==
  /\ SignalTypes /\ PageTypes
  /\ [platform |-> platform, page |-> hostPage] \in Hosts
  /\ launch \in {"paths", "observation", "bundle", "ready", "over"}
  /\ config \in [paths : 0..PathFields, observation : 0..ObservationFields,
                 helper : BOOLEAN, dylib : BOOLEAN]
  /\ asked \in Names \cup {"all", "nothing"} /\ probe \in Names \cup {"none"}
  /\ held \subseteq {"handle", "end0", "end1"}
  /\ errno \in Codes \cup {"0"} /\ setBy \in Names \cup {"none"}
  /\ row.os \in Codes \cup {"0"}

\* Between two probes nothing is held: whichever way the last one returned, its
\* descriptors, its dlopen handle and its threads' signal stacks are given back, and no
\* sigaltstack points to a stack that is gone.  The signal handlers are the subject of
\* SignalStateGivenBack.
NothingHeldBetweenProbes == probe = "none" => held = {} /\ stacks = {} /\ alternate = {}

\* No result shows an error that an earlier probe met.
ErrorIsOwn == row.os # "0" => row.from = row.name

\* A result that is not a PASS or a SKIP names an error, in errno and in the engine's
\* own codes, also for the probes that return an error without setting errno; a
\* blocked probe names a missing permission.
FailureIsNamed ==
  /\ row.status \in {"FAIL", "BLOCKED"} =>
       row.os # "0" /\ row.error \notin {"NONE", "UNSUPPORTED"}
  /\ row.status = "BLOCKED" => row.error = "PERMISSION" /\ row.os \in {"EACCES", "EPERM"}

\* Running all probes ends with one result of each, in the order of the table,
\* whatever the probes return and however often their system calls fail.  Only a probe
\* that ends the app cuts the run short: jit_multithread or one of the helper probes,
\* with the results of all probes before it handed over and none of those after it.
RunAllCompletes ==
  (asked = "all" /\ todo # <<>>) ~>
    /\ asked = "all"
    /\ \/ reported = ProbeTable
       \/ launch = "over" /\ probe \in Deadly /\ reported \o todo = ProbeTable
=============================================================================
