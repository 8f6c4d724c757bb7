------------------------------ MODULE JitProbes ------------------------------
(***************************************************************************)
(* The JIT region of graft_jit.c and the four users of it that run code or *)
(* judge whether code could run: graft_jit_check and the probes jit_basic, *)
(* jit_write_protect and jit_multithread.  Each works on a region of its   *)
(* own, one after the other on the app's main thread; jit_multithread also *)
(* starts a thread that rewrites the code and then several that call it.   *)
(* The kernel may refuse an executable mapping at any call: a debugger     *)
(* enables JIT while the app runs, and memory may run out.                 *)
(*                                                                         *)
(* A call of generated code is one step; a thread that calls faults when   *)
(* the region is not executable, gone, or being written.  Joining a thread *)
(* that was started cannot fail here.                                      *)
(***************************************************************************)
EXTENDS Naturals, FiniteSets

CONSTANTS
  Platforms,  \* the builds considered
  Readers,    \* the threads of jit_multithread that call the code (4)
  Calls       \* bound: calls of each reader (1000)

Apple == {"ios", "mac", "intelmac"}     \* __APPLE__ is defined
Arm64 == {"ios", "mac", "linux"}        \* the bundled code can run
ASSUME PlatformsAssumption == Platforms \subseteq Apple \cup Arm64 \cup {"x86"}
ASSUME CallsAssumption == Calls \in Nat \ {0}
ASSUME ReadersAssumption == Readers \cap {"main", "writer"} = {}

Threads == {"main", "writer"} \cup Readers
Probes == {"jit_basic", "jit_write_protect", "jit_multithread"}
Entries == Probes \cup {"jit_check"}

\* How a system call ends: denied is EACCES or EPERM, unsupported ENOTSUP or
\* ENOSYS, other any further errno.
Outcomes == {"ok", "denied", "unsupported", "other"}
Errors == Outcomes \ {"ok"}
\* What the kernel says to an executable MAP_JIT mapping, to an ordinary one, to
\* making a page writable (or to the write callback), and to making it executable.
Policies == [mapJit : Outcomes, map : {"ok", "other"}, write : Outcomes,
             exec : Outcomes]

Values == {42, 1, 10}
Code == Values \cup {0, 99}     \* 0: nothing yet; 99: half written

VARIABLES
  platform, supported,  \* supported: pthread_jit_write_protect_supported_np
  policy,
  region,     \* the mapping: its protection, backend and content
  unlocked,   \* threads that have turned write protection off (mac)
  pc,         \* of every thread
  entry,      \* what the main thread was asked to run
  within,     \* whether jit_basic runs inside jit_multithread
  error,      \* the error that the probe keeps, "ok" if none
  value,      \* what the calls of the main thread returned
  failures,   \* the threads whose thread_arg.failures is not 0
  calls,      \* calls made by each reader
  returned,   \* what the last entry returned
  answer,     \* what graft_jit_check and jit_basic returned under this policy
  disturbed,  \* the policy has changed under the running entry (history)
  ran,        \* values that threads got in this entry (history)
  faulted     \* threads that faulted, and with them the app

envVars  == <<platform, supported>>
memVars  == <<region, unlocked>>
callVars == <<entry, within, error, value>>
poolVars == <<failures, calls>>
vars == <<envVars, policy, memVars, pc, callVars, poolVars, returned, answer,
          disturbed, ran, faulted>>

NoRegion == [prot |-> "none", backend |-> 0, code |-> 0, flushed |-> FALSE]
Prots == {"none", "rw", "rx", "rwx"}
\* The ways out: the allocation, the first write, jit_multithread's commit or the
\* start of its writer failed, or the end was reached.
Exits == {"noregion", "nowrite", "nocommit", "nowriter", "free"}
MainStates == {"idle", "alloc", "begin", "copy", "flush", "commit", "call",
               "begin2", "copy2", "flush2", "commit2", "call2",
               "writer", "joinwriter", "readers", "joinreaders"} \cup Exits
States == MainStates \cup {"gone"}

Init ==
  /\ platform \in Platforms /\ supported \in BOOLEAN /\ policy \in Policies
  /\ region = NoRegion /\ unlocked = {}
  /\ pc = [t \in Threads |-> IF t = "main" THEN "idle" ELSE "gone"]
  /\ entry = "jit_check" /\ within = FALSE /\ error = "ok"
  /\ value = [first |-> 0, second |-> 0]
  /\ failures = {} /\ calls = [r \in Readers |-> 0]
  /\ returned = "none" /\ answer = [e \in {"jit_check", "jit_basic"} |-> "none"]
  /\ disturbed = FALSE /\ ran = {} /\ faulted = {}

Goto(t, state) == pc' = [pc EXCEPT ![t] = state]
Alive == faulted = {}
Callback == platform = "ios" /\ region.backend = 1

-----------------------------------------------------------------------------
(* The kernel. *)

\* JIT is switched on or off, or memory runs out or comes back: one answer at a time.
PolicyChanges ==
  /\ Alive
  /\ \E call \in DOMAIN policy, outcome \in Outcomes :
        policy' = [policy EXCEPT ![call] = outcome]
  /\ policy' \in Policies \ {policy}
  /\ answer' = [e \in DOMAIN answer |-> "none"]
  /\ disturbed' = (pc["main"] # "idle")
  /\ UNCHANGED <<envVars, memVars, pc, callVars, poolVars, returned, ran, faulted>>

-----------------------------------------------------------------------------
(* Entering. *)

\* The bundled code is arm64 code; graft_jit_check knows Apple's systems only, whatever
\* the processor, and asks for the facility first on iOS.
EarlyAnswer(e) ==
  CASE e \in Probes /\ platform \notin Arm64 -> "SKIP"
    [] e = "jit_check" /\ platform \notin Apple -> "UNAVAILABLE"
    [] e = "jit_check" /\ platform = "ios" /\ ~supported -> "UNAVAILABLE"
    [] OTHER -> "none"

Enter(e) ==
  /\ Alive /\ pc["main"] = "idle"
  /\ entry' = e /\ within' = (e = "jit_multithread")
  /\ error' = "ok" /\ value' = [first |-> 0, second |-> 0]
  /\ failures' = {} /\ calls' = [r \in Readers |-> 0]
  /\ disturbed' = FALSE /\ ran' = {}
  /\ returned' = EarlyAnswer(e)
  /\ IF EarlyAnswer(e) = "none"
     THEN Goto("main", "alloc") /\ UNCHANGED answer
     ELSE /\ UNCHANGED pc
          /\ answer' = IF e \in DOMAIN answer
                       THEN [answer EXCEPT ![e] = EarlyAnswer(e)] ELSE answer
  /\ UNCHANGED <<envVars, policy, memVars, faulted>>

-----------------------------------------------------------------------------
(* graft_jit_alloc, graft_jit_write, graft_jit_invalidate, graft_jit_commit,  *)
(* called by the main thread or by the writer.                               *)

\* mmap with MAP_JIT, on iOS executable from the start and with an ordinary mapping
\* to fall back on; the errno left behind is that of the last attempt.
Alloc ==
  /\ Alive /\ pc["main"] = "alloc"
  /\ LET asked == IF platform \in Apple THEN policy.mapJit ELSE policy.map
         second == platform = "ios" /\ asked # "ok"
         last == IF second THEN policy.map ELSE asked
     IN IF last = "ok"
        THEN /\ region' = [NoRegion EXCEPT
                  !.prot = IF platform = "ios" /\ ~second THEN "rwx" ELSE "rw",
                  !.backend = IF second THEN 2 ELSE 1]
             /\ Goto("main", "begin") /\ UNCHANGED error
        ELSE /\ error' = last /\ Goto("main", "noregion") /\ UNCHANGED region
  /\ UNCHANGED <<envVars, policy, unlocked, entry, within, value, poolVars, returned,
                 answer, disturbed, ran, faulted>>

\* Where a failed write leads: most callers give up, the second write of
\* jit_write_protect goes on, the writer thread only notes it.
AfterFailedWrite(t) ==
  CASE t = "writer" -> "gone"
    [] pc[t] = "begin2" -> "flush2"
    [] OTHER -> "nowrite"

\* The page is made writable, or the write callback entered, and memcpy begins.
BeginWrite(t) ==
  /\ Alive /\ pc[t] \in {"begin", "begin2"}
  /\ unlocked' = IF platform \in Apple \ {"ios"} THEN unlocked \cup {t} ELSE unlocked
  /\ IF policy.write = "ok"
     THEN /\ region' = [region EXCEPT !.code = 99, !.flushed = FALSE,
                                      !.prot = IF Callback THEN region.prot ELSE "rw"]
          /\ Goto(t, IF pc[t] = "begin" THEN "copy" ELSE "copy2")
          /\ UNCHANGED <<error, failures>>
     ELSE /\ Goto(t, AfterFailedWrite(t))
          /\ IF t = "writer" THEN failures' = failures \cup {t} /\ UNCHANGED error
                             ELSE error' = policy.write /\ UNCHANGED failures
          /\ UNCHANGED region
  /\ UNCHANGED <<envVars, policy, entry, within, value, calls, returned, answer,
                 disturbed, ran, faulted>>

\* The word each writes: the function returns 42, 1 or, rewritten, 10.
Word(t) ==
  IF t = "writer" \/ pc[t] = "copy2" THEN 10
  ELSE IF entry = "jit_write_protect" THEN 1 ELSE 42

Copy(t) ==
  /\ Alive /\ pc[t] \in {"copy", "copy2"}
  /\ region' = [region EXCEPT !.code = Word(t)]
  /\ Goto(t, IF pc[t] = "copy" THEN "flush" ELSE "flush2")
  /\ UNCHANGED <<envVars, policy, unlocked, callVars, poolVars, returned, answer,
                 disturbed, ran, faulted>>

\* graft_jit_check would be content with a mapping it can write to.
BugAfterFlush(t) ==
  CASE pc[t] = "flush2" -> "commit2" [] entry = "jit_check" -> "free" [] OTHER -> "commit"
AfterFlush(t) == IF pc[t] = "flush2" THEN "commit2" ELSE "commit"

Flush(t) ==
  /\ Alive /\ pc[t] \in {"flush", "flush2"}
  /\ region' = [region EXCEPT !.flushed = TRUE]
  /\ Goto(t, AfterFlush(t))
  /\ UNCHANGED <<envVars, policy, unlocked, callVars, poolVars, returned, answer,
                 disturbed, ran, faulted>>

\* What follows a commit: jit_write_protect goes on whatever it returned, jit_multithread
\* has a way out of its own, jit_basic and the check end as they would have anyway.
BugAfterCommit(t, ok) ==
  IF t = "writer" THEN "gone"
  ELSE IF pc[t] = "commit2" THEN IF ok THEN "call2" ELSE "free"
  ELSE CASE entry = "jit_write_protect" -> "call"
         [] entry = "jit_multithread" /\ ~within -> IF ok THEN "writer" ELSE "nocommit"
         [] entry = "jit_check" -> "free"
         [] OTHER -> IF ok THEN "call" ELSE "free"
AfterCommit(t, ok) ==
  IF t = "writer" THEN "gone"
  ELSE IF pc[t] = "commit2" THEN IF ok THEN "call2" ELSE "free"
  ELSE CASE entry = "jit_write_protect" -> IF ok THEN "call" ELSE "begin2"
         [] entry = "jit_multithread" /\ ~within -> IF ok THEN "writer" ELSE "nocommit"
         [] entry = "jit_check" -> "free"
         [] OTHER -> IF ok THEN "call" ELSE "free"

\* A region written through the callback is executable already.
Commit(t) ==
  /\ Alive /\ pc[t] \in {"commit", "commit2"}
  /\ unlocked' = unlocked \ {t}
  /\ LET outcome == IF Callback THEN "ok" ELSE policy.exec IN
       /\ region' = IF outcome = "ok" /\ ~Callback
                    THEN [region EXCEPT !.prot = "rx"] ELSE region
       /\ Goto(t, AfterCommit(t, outcome = "ok"))
       /\ CASE outcome = "ok" -> UNCHANGED <<error, failures>>
            [] outcome # "ok" /\ t = "writer" ->
                 failures' = failures \cup {t} /\ UNCHANGED error
            [] OTHER -> error' = outcome /\ UNCHANGED failures
  /\ UNCHANGED <<envVars, policy, entry, within, value, calls, returned, answer,
                 disturbed, ran, faulted>>

-----------------------------------------------------------------------------
(* Running the code: jit_call_42. *)

Executable(t) == /\ region.prot \in {"rx", "rwx"} /\ region.code \in Values
                 /\ t \notin unlocked
\* Without the instruction cache flush a core may still run the earlier code.
Fetched == IF region.flushed THEN {region.code} ELSE Values

MainCalls ==
  /\ Alive /\ pc["main"] \in {"call", "call2"}
  /\ IF Executable("main")
     THEN /\ \E v \in Fetched :
               /\ value' = IF pc["main"] = "call" THEN [value EXCEPT !.first = v]
                                                  ELSE [value EXCEPT !.second = v]
               /\ ran' = ran \cup {<<"main", v>>}
          /\ Goto("main", IF pc["main"] = "call" /\ entry = "jit_write_protect"
                          THEN "begin2" ELSE "free")
          /\ UNCHANGED faulted
     ELSE faulted' = {"main"} /\ UNCHANGED <<pc, value, ran>>
  /\ UNCHANGED <<envVars, policy, memVars, entry, within, error, poolVars, returned,
                 answer, disturbed>>

BugLastCall(r) == calls[r] = Calls
LastCall(r) == calls[r] + 1 = Calls

\* One of the 1000 calls of jit_thread; a reader that has made them all ends.
ReaderCalls(r) ==
  /\ Alive /\ pc[r] = "call"
  /\ IF Executable(r)
     THEN /\ \E v \in Fetched :
               /\ failures' = IF v = 10 THEN failures ELSE failures \cup {r}
               /\ ran' = ran \cup {<<r, v>>}
          /\ calls' = [calls EXCEPT ![r] = @ + 1]
          /\ IF LastCall(r) THEN Goto(r, "gone") ELSE UNCHANGED pc
          /\ UNCHANGED faulted
     ELSE faulted' = {r} /\ UNCHANGED <<pc, failures, calls, ran>>
  /\ UNCHANGED <<envVars, policy, memVars, callVars, returned, answer, disturbed>>

-----------------------------------------------------------------------------
(* The threads of jit_multithread. *)

StartWriter ==
  /\ Alive /\ pc["main"] = "writer"
  /\ \/ pc' = [pc EXCEPT !["main"] = "joinwriter", !["writer"] = "begin"]
        /\ UNCHANGED error
     \/ Goto("main", "nowriter") /\ error' = "other"
  /\ UNCHANGED <<envVars, policy, memVars, entry, within, value, poolVars, returned,
                 answer, disturbed, ran, faulted>>

\* The readers start without the writer having been waited for.
BugWriterJoined == TRUE
WriterJoined == pc["writer"] = "gone"

JoinWriter ==
  /\ Alive /\ pc["main"] = "joinwriter" /\ WriterJoined
  /\ Goto("main", "readers")
  /\ UNCHANGED <<envVars, policy, memVars, callVars, poolVars, returned, answer,
                 disturbed, ran, faulted>>

\* The four pthread_create calls, any of which may fail; a reader may run before
\* the next is created.
StartReader(r) ==
  /\ Alive /\ pc["main"] = "readers" /\ pc[r] = "gone" /\ calls[r] = 0
  /\ r \notin failures
  /\ \/ Goto(r, "call") /\ UNCHANGED <<failures, error>>
     \/ failures' = failures \cup {r} /\ error' = "other" /\ UNCHANGED pc
  /\ UNCHANGED <<envVars, policy, memVars, entry, within, value, calls, returned,
                 answer, disturbed, ran, faulted>>

ReadersStarted ==
  /\ Alive /\ pc["main"] = "readers"
  /\ \A r \in Readers : pc[r] # "gone" \/ calls[r] > 0 \/ r \in failures
  /\ Goto("main", "joinreaders")
  /\ UNCHANGED <<envVars, policy, memVars, callVars, poolVars, returned, answer,
                 disturbed, ran, faulted>>

ReadersJoined == \A r \in Readers : pc[r] = "gone"

JoinReaders ==
  /\ Alive /\ pc["main"] = "joinreaders" /\ ReadersJoined
  /\ Goto("main", "free")
  /\ UNCHANGED <<envVars, policy, memVars, callVars, poolVars, returned, answer,
                 disturbed, ran, faulted>>

-----------------------------------------------------------------------------
(* Judging. *)

StatusOf(e) == CASE e = "ok" -> "ENABLED" [] e = "denied" -> "DISABLED"
                 [] e = "unsupported" -> "UNAVAILABLE" [] OTHER -> "UNKNOWN"

\* A denied allocation blocks every probe; a denied commit blocks jit_basic only, and
\* a denied write none: its errno is returned as a failure.
Blocked(e) ==
  /\ error = "denied"
  /\ pc["main"] = "noregion" \/ (e = "jit_basic" /\ pc["main"] = "free")

BugWorked(e) ==
  CASE e = "jit_basic" -> value.first = 42 /\ error = "ok"
    [] e = "jit_write_protect" -> value.first = 1 /\ value.second = 10 /\ error = "ok"
    [] e = "jit_multithread" -> error = "ok"
Worked(e) ==
  CASE e = "jit_basic" -> value.first = 42 /\ error = "ok"
    [] e = "jit_write_protect" -> value.first = 1 /\ value.second = 10 /\ error = "ok"
    [] e = "jit_multithread" -> error = "ok" /\ failures = {}

Verdict(e) == IF Worked(e) THEN "PASS" ELSE IF Blocked(e) THEN "BLOCKED" ELSE "FAIL"

\* The failed commit of jit_multithread returns without graft_jit_free.
BugFreed(exit) == IF exit \in {"noregion", "nocommit"} THEN region ELSE NoRegion

\* Every way out but that of a failed allocation calls graft_jit_free.
Freed(exit) == IF exit = "noregion" THEN region ELSE NoRegion

\* The way out is taken: jit_multithread goes on after a jit_basic that passed, and
\* returns what it returned otherwise.
Free ==
  /\ Alive /\ pc["main"] \in Exits
  /\ region' = Freed(pc["main"])
  /\ IF within /\ Verdict("jit_basic") = "PASS"
     THEN /\ Goto("main", "alloc") /\ within' = FALSE
          /\ value' = [first |-> 0, second |-> 0] /\ ran' = {}
          /\ UNCHANGED <<returned, answer>>
     ELSE LET r == CASE entry = "jit_check" -> StatusOf(error)
                     [] within -> Verdict("jit_basic")
                     [] OTHER -> Verdict(entry)
          IN /\ Goto("main", "idle") /\ returned' = r
             /\ answer' = IF entry \in DOMAIN answer /\ ~disturbed
                          THEN [answer EXCEPT ![entry] = r] ELSE answer
             /\ UNCHANGED <<within, value, ran>>
  /\ UNCHANGED <<envVars, policy, unlocked, entry, error, poolVars, disturbed, faulted>>

Next ==
  \/ PolicyChanges
  \/ \E e \in Entries : Enter(e)
  \/ Alloc
  \/ \E t \in {"main", "writer"} : BeginWrite(t) \/ Copy(t) \/ Flush(t) \/ Commit(t)
  \/ MainCalls
  \/ \E r \in Readers : ReaderCalls(r) \/ StartReader(r)
  \/ StartWriter \/ JoinWriter \/ ReadersStarted \/ JoinReaders
  \/ Free

Spec == Init /\ [][Next]_vars

-----------------------------------------------------------------------------
\* Every variable keeps its type.
TypeOK ==
  /\ platform \in Platforms /\ supported \in BOOLEAN /\ policy \in Policies
  /\ region \in [prot : Prots, backend : 0..2, code : Code, flushed : BOOLEAN]
  /\ unlocked \subseteq Threads
  /\ pc \in [Threads -> States] /\ pc["main"] \in MainStates
  /\ entry \in Entries /\ within \in BOOLEAN /\ error \in Outcomes
  /\ value \in [first : Values \cup {0}, second : Values \cup {0}]
  /\ failures \subseteq Readers \cup {"writer"}
  /\ calls \in [Readers -> 0..Calls]
  /\ disturbed \in BOOLEAN
  /\ ran \subseteq Threads \X Values
  /\ faulted \subseteq Threads

\* The requirements ask that jit_basic reports a host without JIT and never crashes
\* on it: the main thread never calls code that the kernel refused to make executable,
\* whenever JIT is switched on or off.
MainNeverFaults == "main" \notin faulted

\* No thread calls the code while another is between the begin of a write and its
\* commit, and no region is unmapped under a thread that calls it.
NoCallDuringWrite ==
  \A r \in Readers : pc[r] = "call" =>
    /\ pc["writer"] = "gone"
    /\ pc["main"] \in {"readers", "joinreaders"}

\* No early return of a probe or of the check leaks its mapping, and no thread outlives it.
NothingLeft ==
  pc["main"] = "idle" =>
    region = NoRegion /\ \A t \in Threads \ {"main"} : pc[t] = "gone"

\* A PASS means that the code really ran, after being rewritten too, in every thread
\* that was to run it.
PassMeansRan ==
  (pc["main"] = "idle" /\ returned = "PASS") =>
    CASE entry = "jit_basic" -> ran = {<<"main", 42>>}
      [] entry = "jit_write_protect" -> ran = {<<"main", 1>>, <<"main", 10>>}
      [] entry = "jit_multithread" ->
           ran = {<<r, 10>> : r \in Readers} /\ \A r \in Readers : calls[r] = Calls

\* The JIT status of graft_jit_check on the app's first screen and jit_basic agree on
\* an arm64 build as long as nothing changes between them: enabled means that jit_basic
\* passes, disabled that it is blocked, unknown that it fails.  The one exception is a
\* page that the kernel forbids to write: disabled for the check, FAIL for jit_basic.
CheckAgrees ==
  LET check == answer["jit_check"] basic == answer["jit_basic"]
  IN basic \notin {"none", "SKIP"} =>
       /\ check = "ENABLED" => basic = "PASS"
       /\ check = "DISABLED" =>
            basic = "BLOCKED" \/ (basic = "FAIL" /\ policy.write = "denied")
       /\ check = "UNKNOWN" => basic = "FAIL"

\* No thread of the app faults in generated code.
NobodyFaults == faulted = {}
=============================================================================
