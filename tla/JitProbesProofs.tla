--------------------------- MODULE JitProbesProofs ---------------------------
(* The JIT probes for any number of readers and of calls, and for every       *)
(* sequence of answers the kernel may give.                                   *)
EXTENDS JitProbes, TLAPS

\* Places of the main thread: up to the call of the first code, from the second write
\* of jit_write_protect on, and with the threads of jit_multithread.
First  == {"alloc", "begin", "copy", "flush", "commit", "call"}
Second == {"begin2", "copy2", "flush2", "commit2", "call2"}
Team   == {"writer", "joinwriter", "readers", "joinreaders"}

\* jit_multithread is past its jit_basic.
Multi == entry = "jit_multithread" /\ ~within

\* Which thread may be where while the main thread is where it is.
InStep ==
  /\ pc["writer"] \in {"gone", "begin", "copy", "flush", "commit"}
  /\ pc["writer"] # "gone" => pc["main"] = "joinwriter"
  /\ \A r \in Readers : /\ pc[r] \in {"gone", "call"}
                        /\ pc[r] = "call" => pc["main"] \in {"readers", "joinreaders"}
  /\ within => entry = "jit_multithread"
  /\ pc["main"] \in Team => Multi
  /\ pc["main"] \in Second => entry = "jit_write_protect"
  /\ pc["main"] = "call" => ~Multi /\ entry # "jit_check"
  /\ pc["main"] \in {"nocommit", "nowriter"} => Multi

\* What the region is by the time the main thread calls into it.
RegionFit ==
  /\ pc["main"] \in {"idle", "alloc", "noregion"} => region = NoRegion
  /\ Callback => region.prot = "rwx"
  /\ pc["main"] \in {"flush", "commit", "call", "begin2", "flush2", "commit2", "call2"}
       => region.code \in Values
  /\ pc["main"] \in {"call", "call2"} =>
       region.prot \in {"rx", "rwx"} /\ "main" \notin unlocked

\* The main thread's calls are those whose values are kept.
Kept == {<<"main", v>> : v \in {value.first, value.second} \ {0}}
MainRan ==
  /\ ~Multi => ran = Kept
  /\ pc["main"] \in First => value.first = 0
  /\ value.second # 0 => entry = "jit_write_protect" /\ pc["main"] \in {"free", "idle"}
  /\ entry = "jit_check" => returned # "PASS"

\* The threads' calls are counted, and a wrong value is noted against its thread.
TeamRan ==
  /\ ~Multi \/ pc["main"] \in First \cup {"writer"} =>
       failures = {} /\ \A r \in Readers : calls[r] = 0
  /\ \A r \in Readers : /\ pc[r] = "call" => calls[r] < Calls
                        /\ pc[r] = "gone" => calls[r] \in {0, Calls}
  /\ Multi =>
       /\ \A x \in ran : \E r \in Readers, v \in Values :
            x = <<r, v>> /\ calls[r] > 0 /\ (v = 10 \/ r \in failures)
       /\ \A r \in Readers : calls[r] > 0 => \E v \in Values : <<r, v>> \in ran
       /\ pc["main"] = "joinreaders" =>
            \A r \in Readers : pc[r] = "call" \/ calls[r] > 0 \/ r \in failures
       /\ pc["main"] \in Exits /\ error = "ok" =>
            \A r \in Readers : calls[r] = Calls \/ r \in failures

\* What the kernel, with its present policy, makes of allocating, and of running code.
Fallback == platform = "ios" /\ policy.mapJit # "ok"
AllocOutcome == IF platform \notin Apple \/ Fallback THEN policy.map ELSE policy.mapJit
RunOutcome ==
  IF AllocOutcome # "ok" THEN AllocOutcome
  ELSE IF policy.write # "ok" THEN policy.write
  ELSE IF platform = "ios" /\ ~Fallback THEN "ok" ELSE policy.exec

\* graft_jit_check and jit_basic, undisturbed, follow that policy step by step.
FollowsPolicy ==
  entry \in {"jit_check", "jit_basic"} /\ ~disturbed =>
    /\ pc["main"] \in First => error = "ok"
    /\ pc["main"] \in First \ {"alloc"} =>
         AllocOutcome = "ok" /\ region.backend = IF Fallback THEN 2 ELSE 1
    /\ pc["main"] \in First \ {"alloc", "begin"} => policy.write = "ok"
    /\ pc["main"] \in {"flush", "commit", "call"} => region.code = 42
    /\ pc["main"] \in {"commit", "call"} => region.flushed
    /\ pc["main"] = "call" => RunOutcome = "ok"
    /\ pc["main"] = "noregion" => AllocOutcome # "ok"
    /\ pc["main"] \in {"nowrite", "free"} => AllocOutcome = "ok"
    /\ pc["main"] = "nowrite" => policy.write # "ok"
    /\ pc["main"] = "free" => policy.write = "ok"
    /\ pc["main"] \in Exits =>
         /\ error = RunOutcome
         /\ entry = "jit_basic" /\ error = "ok" => value.first = 42

\* What each is therefore bound to answer.
CheckAnswer ==
  IF EarlyAnswer("jit_check") # "none" THEN "UNAVAILABLE" ELSE StatusOf(RunOutcome)
BasicAnswer ==
  IF platform \notin Arm64 THEN "SKIP"
  ELSE IF RunOutcome = "ok" THEN "PASS"
  ELSE IF RunOutcome = "denied" /\ (AllocOutcome # "ok" \/ policy.write = "ok")
       THEN "BLOCKED" ELSE "FAIL"

AnswersFit ==
  /\ answer \in [{"jit_check", "jit_basic"} ->
                   {"none", "SKIP", "PASS", "BLOCKED", "FAIL", "ENABLED", "DISABLED",
                    "UNAVAILABLE", "UNKNOWN"}]
  /\ answer["jit_check"] \in {"none", CheckAnswer}
  /\ answer["jit_basic"] \in {"none", BasicAnswer}
  /\ pc["main"] # "idle" => EarlyAnswer(entry) = "none"

\* The inductive invariant.
IInv == /\ TypeOK /\ MainNeverFaults /\ InStep /\ RegionFit /\ MainRan /\ TeamRan
        /\ FollowsPolicy /\ AnswersFit /\ PassMeansRan
\* What the threads are called, and that they are three kinds.
LEMMA ThreadNames ==
  /\ "main" \in Threads /\ "writer" \in Threads /\ Readers \subseteq Threads
  /\ "main" \notin Readers /\ "writer" \notin Readers
BY ReadersAssumption DEF Threads

\* A thread that moves on is in a state, the main thread in one of its own.
LEMMA GotoTypes ==
  ASSUME TypeOK, NEW t \in Threads, NEW state \in States, Goto(t, state),
         t = "main" => state \in MainStates
  PROVE  pc' \in [Threads -> States] /\ pc'["main"] \in MainStates
BY ThreadNames DEF TypeOK, Goto

\* A region of which parts are rewritten is a region.
LEMMA RegionTypes ==
  ASSUME TypeOK, NEW c \in Code, NEW f \in BOOLEAN, NEW p \in Prots
  PROVE  /\ [region EXCEPT !.code = c, !.flushed = f, !.prot = p]
              \in [prot : Prots, backend : 0..2, code : Code, flushed : BOOLEAN]
         /\ [region EXCEPT !.code = c]
              \in [prot : Prots, backend : 0..2, code : Code, flushed : BOOLEAN]
         /\ [region EXCEPT !.flushed = f]
              \in [prot : Prots, backend : 0..2, code : Code, flushed : BOOLEAN]
         /\ [region EXCEPT !.prot = p]
              \in [prot : Prots, backend : 0..2, code : Code, flushed : BOOLEAN]
BY DEF TypeOK

\* It has the new parts and the others it had.
LEMMA RewrittenRegion ==
  ASSUME TypeOK, NEW c \in Code, NEW f \in BOOLEAN, NEW p \in Prots
  PROVE  [region EXCEPT !.code = c, !.flushed = f, !.prot = p]
           = [prot |-> p, backend |-> region.backend, code |-> c, flushed |-> f]
<1> DEFINE one == [region EXCEPT !.code = c]
           two == [one EXCEPT !.flushed = f]
<1>1. one = [prot |-> region.prot, backend |-> region.backend, code |-> c,
             flushed |-> region.flushed]
  BY DEF TypeOK
<1>2. two = [prot |-> region.prot, backend |-> region.backend, code |-> c, flushed |-> f]
  <2> HIDE DEF one
  <2> QED BY <1>1
<1>3. [two EXCEPT !.prot = p]
        = [prot |-> p, backend |-> region.backend, code |-> c, flushed |-> f]
  <2> HIDE DEF two
  <2> QED BY <1>2
<1> QED
  BY ONLY <1>3, Zenon

\* A region put together from parts is one too.
LEMMA MakeRegion ==
  ASSUME NEW p \in Prots, NEW b \in 0..2, NEW c \in Code, NEW f \in BOOLEAN
  PROVE  [prot |-> p, backend |-> b, code |-> c, flushed |-> f]
           \in [prot : Prots, backend : 0..2, code : Code, flushed : BOOLEAN]
OBVIOUS

\* Nothing is mapped and no thread runs before the first probe.
LEMMA InitIInv == Init => IInv
<1> SUFFICES ASSUME Init PROVE IInv
  OBVIOUS
<1>1. TypeOK
  <2>1. pc \in [Threads -> States] /\ pc["main"] \in MainStates
    BY ThreadNames DEF Init, States, MainStates
  <2>2. region \in [prot : Prots, backend : 0..2, code : Code, flushed : BOOLEAN]
    BY DEF Init, NoRegion, Prots, Code
  <2>3. calls \in [Readers -> 0..Calls]
    BY CallsAssumption DEF Init
  <2> QED
    BY <2>1, <2>2, <2>3 DEF Init, TypeOK, Entries, Outcomes
<1>2. MainNeverFaults /\ InStep /\ RegionFit
  BY ThreadNames DEF Init, MainNeverFaults, InStep, RegionFit, Callback, NoRegion, Team,
                     Second
<1>3. MainRan /\ TeamRan
  BY ThreadNames DEF Init, MainRan, TeamRan, Kept, First, Multi, Exits
<1>4. FollowsPolicy /\ AnswersFit /\ PassMeansRan
  BY ThreadNames DEF Init, FollowsPolicy, AnswersFit, PassMeansRan, First, Exits
<1> QED
  BY <1>1, <1>2, <1>3, <1>4 DEF IInv

\* Every step of every thread, and every change of the kernel's mind, keeps it.
LEMMA StepIInv == IInv /\ [Next]_vars => IInv'
<1> SUFFICES ASSUME IInv, [Next]_vars PROVE IInv'
  OBVIOUS
<1> USE DEF IInv, Exits
<1>0. CASE UNCHANGED vars
  <2> USE <1>0 DEF vars, envVars, memVars, callVars, poolVars
  <2>1. TypeOK' /\ MainNeverFaults' /\ InStep' /\ RegionFit'
    BY DEF TypeOK, MainNeverFaults, InStep, RegionFit, Callback, Multi
  <2>2. MainRan' /\ TeamRan'
    BY DEF MainRan, TeamRan, Multi, Kept
  <2>3. RunOutcome' = RunOutcome /\ AllocOutcome' = AllocOutcome /\ Fallback' = Fallback
    BY DEF RunOutcome, AllocOutcome, Fallback
  <2>4. \A e : EarlyAnswer(e)' = EarlyAnswer(e)
    BY DEF EarlyAnswer
  <2>5. FollowsPolicy'
    BY <2>3 DEF FollowsPolicy
  <2>6. AnswersFit' /\ PassMeansRan'
    BY <2>3, <2>4 DEF AnswersFit, PassMeansRan, CheckAnswer, BasicAnswer
  <2> QED
    BY <2>1, <2>2, <2>5, <2>6
<1>1. CASE PolicyChanges
  <2>1. TypeOK'
    BY <1>1, ThreadNames DEF PolicyChanges, envVars, memVars, callVars, poolVars,
                             TypeOK, MainStates, States, Outcomes, Values, Code, Prots,
                             NoRegion, Probes, Entries, Policies
  <2>2. MainNeverFaults'
    BY <1>1, ThreadNames DEF PolicyChanges, envVars, memVars, callVars, poolVars,
                             TypeOK, MainNeverFaults, RegionFit, NoRegion
  <2>3. InStep'
    BY <1>1, ThreadNames DEF PolicyChanges, envVars, memVars, callVars, poolVars,
                             TypeOK, InStep, Team, Second, Multi, Probes, Entries
  <2>4. RegionFit'
    BY <1>1, ThreadNames DEF PolicyChanges, envVars, memVars, callVars, poolVars,
                             TypeOK, RegionFit, InStep, Team, Second, Callback,
                             NoRegion, Values
  <2>5. MainRan'
    BY <1>1, ThreadNames DEF PolicyChanges, envVars, memVars, callVars, poolVars,
                             TypeOK, MainRan, InStep, RegionFit, First, Second, Team,
                             Multi, Kept, Values
  <2>6. TeamRan'
    BY <1>1, ThreadNames DEF PolicyChanges, envVars, memVars, callVars, poolVars,
                             TypeOK, TeamRan, InStep, MainRan, First, Second, Team,
                             Multi
  <2>7. FollowsPolicy'
    BY <1>1, ThreadNames DEF PolicyChanges, envVars, memVars, callVars, poolVars,
                             TypeOK, FollowsPolicy, InStep, RegionFit, First, Second,
                             Team, Multi, Fallback, AllocOutcome, RunOutcome, Callback,
                             Policies, Outcomes
  <2>8. AnswersFit'
    BY <1>1, ThreadNames DEF PolicyChanges, envVars, memVars, callVars, poolVars,
                             TypeOK, AnswersFit, FollowsPolicy, InStep, CheckAnswer,
                             BasicAnswer, Fallback, AllocOutcome, RunOutcome,
                             EarlyAnswer, StatusOf
  <2>9. PassMeansRan'
    BY <1>1, ThreadNames DEF PolicyChanges, envVars, memVars, callVars, poolVars,
                             TypeOK, PassMeansRan, MainRan, TeamRan, Multi, Kept
  <2> QED
    BY <2>1, <2>2, <2>3, <2>4, <2>5, <2>6, <2>7, <2>8, <2>9
<1>2. ASSUME NEW e \in Entries, Enter(e) PROVE IInv'
  <2>1. TypeOK'
    <3>1. pc' \in [Threads -> States] /\ pc'["main"] \in MainStates
      BY <1>2, ThreadNames, GotoTypes DEF Enter, TypeOK, MainStates, States
    <3>2. calls' \in [Readers -> 0..Calls]
      BY <1>2, CallsAssumption DEF Enter
    <3>3. value' \in [first : Values \cup {0}, second : Values \cup {0}]
      BY <1>2 DEF Enter
    <3> QED
      BY <1>2, <3>1, <3>2, <3>3 DEF Enter, TypeOK, Outcomes, envVars, memVars
  <2>2. MainNeverFaults'
    BY <1>2, ThreadNames DEF Enter, Goto, EarlyAnswer, envVars, memVars, callVars,
                             poolVars, TypeOK, MainNeverFaults, RegionFit, NoRegion
  <2>3. InStep'
    BY <1>2, ThreadNames DEF Enter, Goto, EarlyAnswer, envVars, memVars, callVars,
                             poolVars, TypeOK, InStep, Team, Second, Multi, Probes,
                             Entries
  <2>4. RegionFit'
    BY <1>2, ThreadNames DEF Enter, Goto, EarlyAnswer, envVars, memVars, callVars,
                             poolVars, TypeOK, RegionFit, InStep, Team, Second,
                             Callback, NoRegion, Values
  <2>5. MainRan'
    BY <1>2, ThreadNames DEF Enter, Goto, EarlyAnswer, envVars, memVars, callVars,
                             poolVars, TypeOK, MainRan, InStep, RegionFit, First,
                             Second, Team, Multi, Kept, Values
  <2>6. TeamRan'
    BY <1>2, ThreadNames DEF Enter, Goto, EarlyAnswer, envVars, memVars, callVars,
                             poolVars, TypeOK, TeamRan, InStep, MainRan, First, Second,
                             Team, Multi
  <2>7. FollowsPolicy'
    BY <1>2, ThreadNames DEF Enter, Goto, EarlyAnswer, envVars, memVars, callVars,
                             poolVars, TypeOK, FollowsPolicy, InStep, RegionFit, First,
                             Second, Team, Multi, Fallback, AllocOutcome, RunOutcome,
                             Callback, Policies, Outcomes
  <2>8. AnswersFit'
    <3>1. UNCHANGED <<CheckAnswer, BasicAnswer>>
      BY <1>2 DEF Enter, CheckAnswer, BasicAnswer, RunOutcome, AllocOutcome, Fallback,
                  EarlyAnswer, envVars
    <3>2. EarlyAnswer(e)' = EarlyAnswer(e)
      BY <1>2 DEF Enter, EarlyAnswer, envVars
    <3>3. CASE EarlyAnswer(e) = "none"
      BY <1>2, <3>1, <3>2, <3>3, ThreadNames DEF Enter, AnswersFit
    <3>4. CASE EarlyAnswer(e) # "none"
      <4>1. e = "jit_check" => EarlyAnswer(e) = "UNAVAILABLE" /\ CheckAnswer = "UNAVAILABLE"
        BY <3>4 DEF EarlyAnswer, CheckAnswer, Probes
      <4>2. e = "jit_basic" => EarlyAnswer(e) = "SKIP" /\ BasicAnswer = "SKIP"
        BY <3>4 DEF EarlyAnswer, BasicAnswer, Probes
      <4>3. /\ pc' = pc /\ pc["main"] = "idle"
            /\ answer' = IF e \in DOMAIN answer
                         THEN [answer EXCEPT ![e] = EarlyAnswer(e)] ELSE answer
        BY <1>2, <3>4 DEF Enter
      <4> QED
        BY <3>1, <4>1, <4>2, <4>3 DEF AnswersFit
    <3> QED
      BY <3>3, <3>4
  <2>9. PassMeansRan'
    BY <1>2, ThreadNames DEF Enter, Goto, EarlyAnswer, envVars, memVars, callVars,
                             poolVars, TypeOK, PassMeansRan, MainRan, TeamRan, Multi,
                             Kept
  <2> QED
    BY <2>1, <2>2, <2>3, <2>4, <2>5, <2>6, <2>7, <2>8, <2>9
<1>3. CASE Alloc
  <2>a. \/ /\ AllocOutcome = "ok" /\ UNCHANGED error
           /\ region' = [prot |-> IF platform = "ios" /\ ~Fallback THEN "rwx" ELSE "rw",
                         backend |-> IF Fallback THEN 2 ELSE 1,
                         code |-> 0, flushed |-> FALSE]
           /\ Goto("main", "begin")
        \/ /\ AllocOutcome # "ok" /\ error' = AllocOutcome /\ region' = NoRegion
           /\ Goto("main", "noregion")
    BY <1>3 DEF Alloc, AllocOutcome, Fallback, Apple, NoRegion, RegionFit
  <2>1. TypeOK'
    <3>1. pc' \in [Threads -> States] /\ pc'["main"] \in MainStates
      BY <2>a, ThreadNames, GotoTypes DEF MainStates, States
    <3>2. error' \in Outcomes
      BY <2>a DEF AllocOutcome, TypeOK, Policies, Outcomes
    <3>3. region' \in [prot : Prots, backend : 0..2, code : Code, flushed : BOOLEAN]
      <4>1. /\ (IF platform = "ios" /\ ~Fallback THEN "rwx" ELSE "rw") \in Prots
            /\ (IF Fallback THEN 2 ELSE 1) \in 0..2 /\ 0 \in 0..2
            /\ 0 \in Code /\ "none" \in Prots
        BY DEF Prots, Code
      <4> QED
        <5>1. PICK p \in Prots, b \in 0..2 :
                region' = [prot |-> p, backend |-> b, code |-> 0, flushed |-> FALSE]
          BY <2>a, <4>1 DEF NoRegion
        <5> QED
          BY <4>1, <5>1, MakeRegion
    <3> QED
      BY <1>3, <3>1, <3>2, <3>3 DEF Alloc, TypeOK, envVars, poolVars
  <2>2. MainNeverFaults'
    BY <1>3, ThreadNames, <2>a DEF Alloc, Goto, envVars, memVars, callVars, poolVars,
                                   TypeOK, MainNeverFaults, RegionFit, NoRegion
  <2>3. InStep'
    BY <1>3, ThreadNames, <2>a DEF Alloc, Goto, envVars, memVars, callVars, poolVars,
                                   TypeOK, InStep, Team, Second, Multi, Probes, Entries
  <2>4. RegionFit'
    <3>1. CASE Goto("main", "begin")
      BY <1>3, <2>a, <3>1, ThreadNames
         DEF Alloc, Goto, RegionFit, Callback, NoRegion, Fallback, TypeOK, envVars
    <3>2. CASE Goto("main", "noregion")
      BY <1>3, <2>a, <3>2, ThreadNames
         DEF Alloc, Goto, RegionFit, Callback, NoRegion, TypeOK, envVars
    <3> QED
      BY <2>a, <3>1, <3>2
  <2>5. MainRan'
    BY <1>3, ThreadNames, <2>a DEF Alloc, Goto, envVars, memVars, callVars, poolVars,
                                   TypeOK, MainRan, InStep, RegionFit, First, Second,
                                   Team, Multi, Kept, Values
  <2>6. TeamRan'
    BY <1>3, ThreadNames, <2>a DEF Alloc, Goto, envVars, memVars, callVars, poolVars,
                                   TypeOK, TeamRan, InStep, MainRan, First, Second,
                                   Team, Multi
  <2>7. FollowsPolicy'
    BY <1>3, ThreadNames, <2>a DEF Alloc, Goto, envVars, memVars, callVars, poolVars,
                                   TypeOK, FollowsPolicy, InStep, RegionFit, First,
                                   Second, Team, Multi, Fallback, AllocOutcome,
                                   RunOutcome, Callback, Policies, Outcomes
  <2>8. AnswersFit'
    BY <1>3, ThreadNames, <2>a DEF Alloc, Goto, envVars, memVars, callVars, poolVars,
                                   TypeOK, AnswersFit, FollowsPolicy, InStep,
                                   CheckAnswer, BasicAnswer, Fallback, AllocOutcome,
                                   RunOutcome, EarlyAnswer, StatusOf
  <2>9. PassMeansRan'
    BY <1>3, ThreadNames, <2>a DEF Alloc, Goto, envVars, memVars, callVars, poolVars,
                                   TypeOK, PassMeansRan, MainRan, TeamRan, Multi, Kept
  <2> QED
    BY <2>1, <2>2, <2>3, <2>4, <2>5, <2>6, <2>7, <2>8, <2>9
<1>4. ASSUME NEW t \in {"main", "writer"}, BeginWrite(t) PROVE IInv'
  <2>a. \/ /\ t = "writer" /\ pc["main"] = "joinwriter" /\ pc["writer"] = "begin"
           /\ pc' = [pc EXCEPT !["writer"] = IF policy.write = "ok" THEN "copy" ELSE "gone"]
        \/ /\ t = "main" /\ pc["main"] = "begin" /\ UNCHANGED failures
           /\ pc' = [pc EXCEPT !["main"] = IF policy.write = "ok" THEN "copy" ELSE "nowrite"]
        \/ /\ t = "main" /\ pc["main"] = "begin2" /\ UNCHANGED failures
           /\ pc' = [pc EXCEPT !["main"] = IF policy.write = "ok" THEN "copy2" ELSE "flush2"]
    BY <1>4 DEF BeginWrite, Goto, AfterFailedWrite, InStep
  <2>b. IF policy.write = "ok"
        THEN /\ region' = [prot |-> IF Callback THEN region.prot ELSE "rw",
                           backend |-> region.backend, code |-> 99, flushed |-> FALSE]
             /\ UNCHANGED <<error, failures>>
        ELSE /\ UNCHANGED region
             /\ t = "main" => error' = policy.write
    <3>1. policy.write = "ok" =>
            /\ region' = [region EXCEPT !.code = 99, !.flushed = FALSE,
                                        !.prot = IF Callback THEN region.prot ELSE "rw"]
            /\ UNCHANGED <<error, failures>>
      BY <1>4 DEF BeginWrite
    <3>2. policy.write # "ok" => UNCHANGED region /\ (t = "main" => error' = policy.write)
      BY <1>4 DEF BeginWrite
    <3>3. 99 \in Code /\ (IF Callback THEN region.prot ELSE "rw") \in Prots
      BY DEF Code, Prots, TypeOK
    <3> QED
      BY <3>1, <3>2, <3>3, RewrittenRegion
  <2>c. UNCHANGED <<platform, supported, policy, entry, within, value, calls, returned,
                    answer, disturbed, ran, faulted>>
    BY <1>4 DEF BeginWrite, envVars
  <2>1. TypeOK'
    <3>1. pc' \in [Threads -> States] /\ pc'["main"] \in MainStates
      BY <2>a, ThreadNames DEF TypeOK, MainStates, States
    <3>2. error' \in Outcomes /\ failures' \subseteq Readers \cup {"writer"}
      BY <1>4 DEF BeginWrite, TypeOK, Policies, Outcomes
    <3>3. region' \in [prot : Prots, backend : 0..2, code : Code, flushed : BOOLEAN]
      <4>1. /\ (IF Callback THEN region.prot ELSE "rw") \in Prots
            /\ region.backend \in 0..2 /\ 99 \in Code
        BY DEF TypeOK, Prots, Code
      <4> QED
        <5>1. \/ UNCHANGED region
              \/ \E p \in Prots, b \in 0..2 :
                   region' = [prot |-> p, backend |-> b, code |-> 99, flushed |-> FALSE]
          BY <2>b, <4>1
        <5>2. CASE UNCHANGED region
          BY <5>2 DEF TypeOK
        <5>3. CASE ~UNCHANGED region
          <6>1. PICK p \in Prots, b \in 0..2 :
                  region' = [prot |-> p, backend |-> b, code |-> 99, flushed |-> FALSE]
            BY <5>1, <5>3
          <6> QED
            BY <4>1, <6>1, MakeRegion
        <5> QED
          BY <5>2, <5>3
    <3>4. unlocked' \subseteq Threads
      BY <1>4, ThreadNames DEF BeginWrite, TypeOK
    <3> QED
      BY <2>c, <3>1, <3>2, <3>3, <3>4 DEF TypeOK
  <2>2. MainNeverFaults'
    BY <1>4, ThreadNames, <2>a, <2>b, <2>c DEF envVars, memVars, callVars, poolVars,
                                               TypeOK, MainNeverFaults, RegionFit,
                                               NoRegion
  <2>3. InStep'
    BY <1>4, ThreadNames, <2>a, <2>b, <2>c DEF envVars, memVars, callVars, poolVars,
                                               TypeOK, InStep, Team, Second, Multi,
                                               Probes, Entries
  <2>4. RegionFit'
    BY <1>4, ThreadNames, <2>a, <2>b, <2>c DEF envVars, memVars, callVars, poolVars,
                                               TypeOK, RegionFit, InStep, Team, Second,
                                               Callback, NoRegion, Values
  <2>5. MainRan'
    BY <1>4, ThreadNames, <2>a, <2>b, <2>c DEF envVars, memVars, callVars, poolVars,
                                               TypeOK, MainRan, InStep, RegionFit,
                                               First, Second, Team, Multi, Kept, Values
  <2>6. TeamRan'
    <3>1. failures \subseteq failures' /\ (pc["main"] # "joinwriter" => failures' = failures)
      BY <1>4, <2>a DEF BeginWrite
    <3>2. /\ \A r \in Readers : pc'[r] = pc[r]
          /\ pc'["main"] \in Exits => error' # "ok"
          /\ pc'["main"] \in First \cup {"writer"} => pc["main"] \in First \cup {"writer"}
          /\ pc["main"] = "joinwriter" => pc'["main"] = "joinwriter"
          /\ pc'["main"] # "joinreaders"
      BY <2>a, <2>b, ThreadNames DEF TypeOK, First
    <3>3. pc["main"] = "joinwriter" => Multi
      BY DEF InStep, Team
    <3> QED
      BY <2>c, <3>1, <3>2, <3>3 DEF TeamRan, Multi, First
  <2>7. FollowsPolicy'
    BY <1>4, ThreadNames, <2>a, <2>b, <2>c DEF envVars, memVars, callVars, poolVars,
                                               TypeOK, FollowsPolicy, InStep, RegionFit,
                                               First, Second, Team, Multi, Fallback,
                                               AllocOutcome, RunOutcome, Callback,
                                               Policies, Outcomes
  <2>8. AnswersFit'
    <3>1. UNCHANGED <<CheckAnswer, BasicAnswer>>
      BY <2>c DEF CheckAnswer, BasicAnswer, RunOutcome, AllocOutcome, Fallback, EarlyAnswer
    <3>2. UNCHANGED EarlyAnswer(entry)
      BY <2>c DEF EarlyAnswer
    <3> QED
      BY <2>a, <2>c, <3>1, <3>2 DEF AnswersFit
  <2>9. PassMeansRan'
    BY <2>a, ThreadNames DEF PassMeansRan, TypeOK
  <2> QED
    BY <2>1, <2>2, <2>3, <2>4, <2>5, <2>6, <2>7, <2>8, <2>9
<1>5. ASSUME NEW t \in {"main", "writer"}, Copy(t) PROVE IInv'
  <2>1. TypeOK'
    BY <1>5, ThreadNames DEF Copy, Goto, Word, envVars, memVars, callVars, poolVars,
                             TypeOK, MainStates, States, Outcomes, Values, Code, Prots,
                             NoRegion, Probes, Entries, Policies
  <2>2. MainNeverFaults'
    BY <1>5, ThreadNames DEF Copy, Goto, Word, envVars, memVars, callVars, poolVars,
                             TypeOK, MainNeverFaults, RegionFit, NoRegion
  <2>3. InStep'
    BY <1>5, ThreadNames DEF Copy, Goto, Word, envVars, memVars, callVars, poolVars,
                             TypeOK, InStep, Team, Second, Multi, Probes, Entries
  <2>4. RegionFit'
    BY <1>5, ThreadNames DEF Copy, Goto, Word, envVars, memVars, callVars, poolVars,
                             TypeOK, RegionFit, InStep, Team, Second, Callback,
                             NoRegion, Values
  <2>5. MainRan'
    BY <1>5, ThreadNames DEF Copy, Goto, Word, envVars, memVars, callVars, poolVars,
                             TypeOK, MainRan, InStep, RegionFit, First, Second, Team,
                             Multi, Kept, Values
  <2>6. TeamRan'
    <3>1. /\ \A r \in Readers : pc'[r] = pc[r]
          /\ pc["main"] \in First \cup Second \cup Team /\ pc'["main"] \notin Exits \cup {"joinreaders"}
          /\ pc'["main"] \in First \cup {"writer"} => pc["main"] \in First \cup {"writer"}
          /\ UNCHANGED <<entry, within, failures, calls, ran, error>>
      BY <1>5, ThreadNames DEF Copy, Goto, callVars, poolVars, TypeOK, InStep, First, Second, Team
    <3> QED
      BY <3>1 DEF TeamRan, Multi
  <2>7. FollowsPolicy'
    BY <1>5, ThreadNames DEF Copy, Goto, Word, envVars, memVars, callVars, poolVars,
                             TypeOK, FollowsPolicy, InStep, RegionFit, First, Second,
                             Team, Multi, Fallback, AllocOutcome, RunOutcome, Callback,
                             Policies, Outcomes
  <2>8. AnswersFit'
    BY <1>5, ThreadNames DEF Copy, Goto, Word, envVars, memVars, callVars, poolVars,
                             TypeOK, AnswersFit, FollowsPolicy, InStep, CheckAnswer,
                             BasicAnswer, Fallback, AllocOutcome, RunOutcome,
                             EarlyAnswer, StatusOf
  <2>9. PassMeansRan'
    BY <1>5, ThreadNames DEF Copy, Goto, Word, envVars, memVars, callVars, poolVars,
                             TypeOK, PassMeansRan, MainRan, TeamRan, Multi, Kept
  <2> QED
    BY <2>1, <2>2, <2>3, <2>4, <2>5, <2>6, <2>7, <2>8, <2>9
<1>6. ASSUME NEW t \in {"main", "writer"}, Flush(t) PROVE IInv'
  <2>1. TypeOK'
    <3>1. pc' \in [Threads -> States] /\ pc'["main"] \in MainStates
      BY <1>6, ThreadNames, GotoTypes DEF Flush, AfterFlush, MainStates, States
    <3>2. region' \in [prot : Prots, backend : 0..2, code : Code, flushed : BOOLEAN]
      <4>1. region' = [region EXCEPT !.flushed = TRUE]
        BY <1>6 DEF Flush
      <4>2. 99 \in Code /\ "rw" \in Prots
        BY DEF Code, Prots
      <4> QED
        BY <4>1, <4>2, RegionTypes
    <3> QED
      BY <1>6, <3>1, <3>2 DEF Flush, TypeOK, envVars, callVars, poolVars
  <2>2. MainNeverFaults'
    BY <1>6, ThreadNames DEF Flush, Goto, AfterFlush, envVars, memVars, callVars,
                             poolVars, TypeOK, MainNeverFaults, RegionFit, NoRegion
  <2>3. InStep'
    BY <1>6, ThreadNames DEF Flush, Goto, AfterFlush, envVars, memVars, callVars,
                             poolVars, TypeOK, InStep, Team, Second, Multi, Probes,
                             Entries
  <2>4. RegionFit'
    BY <1>6, ThreadNames DEF Flush, Goto, AfterFlush, envVars, memVars, callVars,
                             poolVars, TypeOK, RegionFit, InStep, Team, Second,
                             Callback, NoRegion, Values
  <2>5. MainRan'
    BY <1>6, ThreadNames DEF Flush, Goto, AfterFlush, envVars, memVars, callVars,
                             poolVars, TypeOK, MainRan, InStep, RegionFit, First,
                             Second, Team, Multi, Kept, Values
  <2>6. TeamRan'
    <3>1. /\ \A r \in Readers : pc'[r] = pc[r]
          /\ pc["main"] \in First \cup Second \cup Team /\ pc'["main"] \notin Exits \cup {"joinreaders"}
          /\ pc'["main"] \in First \cup {"writer"} => pc["main"] \in First \cup {"writer"}
          /\ UNCHANGED <<entry, within, failures, calls, ran, error>>
      BY <1>6, ThreadNames DEF Flush, AfterFlush, Goto, callVars, poolVars, TypeOK, InStep,
                               First, Second, Team
    <3> QED
      BY <3>1 DEF TeamRan, Multi
  <2>7. FollowsPolicy'
    BY <1>6, ThreadNames DEF Flush, Goto, AfterFlush, envVars, memVars, callVars,
                             poolVars, TypeOK, FollowsPolicy, InStep, RegionFit, First,
                             Second, Team, Multi, Fallback, AllocOutcome, RunOutcome,
                             Callback, Policies, Outcomes
  <2>8. AnswersFit'
    BY <1>6, ThreadNames DEF Flush, Goto, AfterFlush, envVars, memVars, callVars,
                             poolVars, TypeOK, AnswersFit, FollowsPolicy, InStep,
                             CheckAnswer, BasicAnswer, Fallback, AllocOutcome,
                             RunOutcome, EarlyAnswer, StatusOf
  <2>9. PassMeansRan'
    BY <1>6, ThreadNames DEF Flush, Goto, AfterFlush, envVars, memVars, callVars,
                             poolVars, TypeOK, PassMeansRan, MainRan, TeamRan, Multi,
                             Kept
  <2> QED
    BY <2>1, <2>2, <2>3, <2>4, <2>5, <2>6, <2>7, <2>8, <2>9
<1>7. ASSUME NEW t \in {"main", "writer"}, Commit(t) PROVE IInv'
  <2>a. \/ /\ t = "writer" /\ pc["main"] = "joinwriter"
           /\ pc' = [pc EXCEPT !["writer"] = "gone"]
        \/ /\ t = "main" /\ pc["main"] = "commit" /\ UNCHANGED failures
           /\ pc' = [pc EXCEPT !["main"] = AfterCommit("main", Callback \/ policy.exec = "ok")]
        \/ /\ t = "main" /\ pc["main"] = "commit2" /\ UNCHANGED failures
           /\ pc' = [pc EXCEPT !["main"] = IF Callback \/ policy.exec = "ok"
                                           THEN "call2" ELSE "free"]
    <3>1. CASE t = "writer"
      BY <1>7, <3>1 DEF Commit, Goto, AfterCommit, InStep
    <3>2. CASE t = "main" /\ pc["main"] = "commit"
      <4>1. UNCHANGED failures
        BY <1>7, <3>2 DEF Commit
      <4>2. CASE Callback
        BY <1>7, <3>2, <4>1, <4>2 DEF Commit, Goto
      <4>3. CASE ~Callback
        BY <1>7, <3>2, <4>1, <4>3 DEF Commit, Goto
      <4> QED
        BY <4>2, <4>3
    <3>3. CASE t = "main" /\ pc["main"] = "commit2"
      <4>1. UNCHANGED failures
        BY <1>7, <3>3 DEF Commit
      <4>2. CASE Callback
        BY <1>7, <3>3, <4>1, <4>2 DEF Commit, Goto, AfterCommit
      <4>3. CASE ~Callback
        BY <1>7, <3>3, <4>1, <4>3 DEF Commit, Goto, AfterCommit
      <4> QED
        BY <4>2, <4>3
    <3> QED
      BY <1>7, <3>1, <3>2, <3>3 DEF Commit
  <2>b. IF Callback \/ policy.exec = "ok"
        THEN /\ region' = IF Callback THEN region
                          ELSE [prot |-> "rx", backend |-> region.backend,
                                code |-> region.code, flushed |-> region.flushed]
             /\ UNCHANGED <<error, failures>>
        ELSE /\ UNCHANGED region
             /\ t = "main" => error' = policy.exec
    BY <1>7, ThreadNames DEF Commit, TypeOK
  <2>c. UNCHANGED <<platform, supported, policy, entry, within, value, calls, returned,
                    answer, disturbed, ran, faulted>>
    BY <1>7 DEF Commit, envVars
  <2>d. pc["main"] = "commit" =>
          AfterCommit("main", Callback \/ policy.exec = "ok") =
            IF entry = "jit_check" THEN "free"
            ELSE IF Callback \/ policy.exec = "ok" THEN IF Multi THEN "writer" ELSE "call"
            ELSE IF entry = "jit_write_protect" THEN "begin2"
            ELSE IF Multi THEN "nocommit" ELSE "free"
    BY DEF AfterCommit, Multi, TypeOK, Entries, Probes
  <2>e. /\ \A r \in Readers : pc'[r] = pc[r]
        /\ pc["main"] = "joinwriter" => pc'["main"] = "joinwriter"
        /\ pc["main"] = "commit2" => pc'["main"] \in {"call2", "free"}
        /\ pc["main"] = "commit" => pc'["main"] \in {"call", "writer", "begin2", "nocommit", "free"}
        /\ pc["main"] \in {"joinwriter", "commit", "commit2"}
    BY <2>a, <2>d, ThreadNames DEF TypeOK
  <2>1. TypeOK'
    <3>1. pc' \in [Threads -> States] /\ pc'["main"] \in MainStates
      BY <2>a, <2>d, <2>e, ThreadNames DEF TypeOK, MainStates, States
    <3>2. error' \in Outcomes /\ failures' \subseteq Readers \cup {"writer"}
      BY <1>7 DEF Commit, TypeOK, Policies
    <3>3. region' \in [prot : Prots, backend : 0..2, code : Code, flushed : BOOLEAN]
      <4>1. /\ region.backend \in 0..2 /\ region.code \in Code /\ region.flushed \in BOOLEAN
            /\ "rx" \in Prots
        BY DEF TypeOK, Prots
      <4> QED
        BY <2>b, <4>1, MakeRegion DEF TypeOK
    <3>4. unlocked' \subseteq Threads
      BY <1>7 DEF Commit, TypeOK
    <3> QED
      BY <2>c, <3>1, <3>2, <3>3, <3>4 DEF TypeOK
  <2>2. MainNeverFaults'
    BY <1>7, ThreadNames, <2>a, <2>b, <2>c, <2>d, <2>e
       DEF envVars, memVars, callVars, poolVars, TypeOK, MainNeverFaults, RegionFit,
           NoRegion
  <2>3. InStep'
    BY <1>7, ThreadNames, <2>a, <2>b, <2>c, <2>d, <2>e
       DEF envVars, memVars, callVars, poolVars, TypeOK, InStep, Team, Second, Multi,
           Probes, Entries
  <2>4. RegionFit'
    <3>1. t = "main" => "main" \notin unlocked'
      BY <1>7 DEF Commit
    <3> QED
      BY <2>a, <2>b, <2>c, <2>d, <2>e, <3>1, ThreadNames
         DEF RegionFit, InStep, Team, Callback, NoRegion, TypeOK
  <2>5. MainRan'
    <3>1. UNCHANGED <<Multi, Kept>>
      BY <2>c DEF Multi, Kept
    <3> QED
      BY <2>c, <2>e, <3>1 DEF MainRan, First
  <2>6. TeamRan'
    <3>1. failures \subseteq failures' /\ (pc["main"] # "joinwriter" => failures' = failures)
      BY <1>7, <2>a DEF Commit
    <3>2. Multi /\ pc'["main"] \in Exits => error' # "ok"
      BY <2>a, <2>b, <2>d, <2>e, ThreadNames DEF TypeOK, Multi, InStep, Second
    <3>3. pc["main"] = "joinwriter" => Multi
      BY DEF InStep, Team
    <3>4. /\ Multi' = Multi /\ ran' = ran /\ calls' = calls /\ pc'["main"] # "joinreaders"
          /\ \A r \in Readers : pc'[r] = pc[r]
      BY <2>c, <2>e DEF Multi
    <3>5. ~Multi \/ pc'["main"] \in First \cup {"writer"} =>
            failures' = {} /\ \A r \in Readers : calls[r] = 0
      BY <2>e, <3>1, <3>3 DEF TeamRan, First
    <3>6. Multi => \A x \in ran : \E r \in Readers, v \in Values :
            x = <<r, v>> /\ calls[r] > 0 /\ (v = 10 \/ r \in failures')
      BY <3>1 DEF TeamRan
    <3>7. Multi => \A r \in Readers : calls[r] > 0 => \E v \in Values : <<r, v>> \in ran
      BY DEF TeamRan
    <3>8. \A r \in Readers : /\ pc[r] = "call" => calls[r] < Calls
                             /\ pc[r] = "gone" => calls[r] \in {0, Calls}
      BY DEF TeamRan
    <3> QED
      BY <3>2, <3>4, <3>5, <3>6, <3>7, <3>8 DEF TeamRan
  <2>7. FollowsPolicy'
    BY <1>7, ThreadNames, <2>a, <2>b, <2>c, <2>d, <2>e
       DEF envVars, memVars, callVars, poolVars, TypeOK, FollowsPolicy, InStep,
           RegionFit, First, Second, Team, Multi, Fallback, AllocOutcome, RunOutcome,
           Callback, Policies, Outcomes
  <2>8. AnswersFit'
    <3>1. UNCHANGED <<CheckAnswer, BasicAnswer>>
      BY <2>c DEF CheckAnswer, BasicAnswer, RunOutcome, AllocOutcome, Fallback, EarlyAnswer
    <3>2. UNCHANGED EarlyAnswer(entry)
      BY <2>c DEF EarlyAnswer
    <3> QED
      BY <2>c, <2>e, <3>1, <3>2 DEF AnswersFit
  <2>9. PassMeansRan'
    BY <2>e DEF PassMeansRan
  <2> QED
    BY <2>1, <2>2, <2>3, <2>4, <2>5, <2>6, <2>7, <2>8, <2>9
<1>8. CASE MainCalls
  <2>1. TypeOK'
    BY <1>8, ThreadNames DEF MainCalls, Goto, Executable, Fetched, envVars, memVars,
                             callVars, poolVars, TypeOK, MainStates, States, Outcomes,
                             Values, Code, Prots, NoRegion, Probes, Entries, Policies
  <2>2. MainNeverFaults'
    BY <1>8, ThreadNames DEF MainCalls, Goto, Executable, Fetched, envVars, memVars,
                             callVars, poolVars, TypeOK, MainNeverFaults, RegionFit,
                             NoRegion
  <2>3. InStep'
    BY <1>8, ThreadNames DEF MainCalls, Goto, Executable, Fetched, envVars, memVars,
                             callVars, poolVars, TypeOK, InStep, Team, Second, Multi,
                             Probes, Entries
  <2>4. RegionFit'
    BY <1>8, ThreadNames DEF MainCalls, Goto, Executable, Fetched, envVars, memVars,
                             callVars, poolVars, TypeOK, RegionFit, InStep, Team,
                             Second, Callback, NoRegion, Values
  <2>5. MainRan'
    BY <1>8, ThreadNames DEF MainCalls, Goto, Executable, Fetched, envVars, memVars,
                             callVars, poolVars, TypeOK, MainRan, InStep, RegionFit,
                             First, Second, Team, Multi, Kept, Values
  <2>6. TeamRan'
    BY <1>8, ThreadNames DEF MainCalls, Goto, Executable, Fetched, envVars, memVars,
                             callVars, poolVars, TypeOK, TeamRan, InStep, MainRan,
                             First, Second, Team, Multi
  <2>7. FollowsPolicy'
    BY <1>8, ThreadNames DEF MainCalls, Goto, Executable, Fetched, envVars, memVars,
                             callVars, poolVars, TypeOK, FollowsPolicy, InStep,
                             RegionFit, First, Second, Team, Multi, Fallback,
                             AllocOutcome, RunOutcome, Callback, Policies, Outcomes
  <2>8. AnswersFit'
    BY <1>8, ThreadNames DEF MainCalls, Goto, Executable, Fetched, envVars, memVars,
                             callVars, poolVars, TypeOK, AnswersFit, FollowsPolicy,
                             InStep, CheckAnswer, BasicAnswer, Fallback, AllocOutcome,
                             RunOutcome, EarlyAnswer, StatusOf
  <2>9. PassMeansRan'
    BY <1>8, ThreadNames DEF MainCalls, Goto, Executable, Fetched, envVars, memVars,
                             callVars, poolVars, TypeOK, PassMeansRan, MainRan, TeamRan,
                             Multi, Kept
  <2> QED
    BY <2>1, <2>2, <2>3, <2>4, <2>5, <2>6, <2>7, <2>8, <2>9
<1>9. ASSUME NEW r \in Readers, ReaderCalls(r) PROVE IInv'
  <2>a. /\ pc'["main"] = pc["main"] /\ pc["main"] \in {"readers", "joinreaders"}
        /\ UNCHANGED <<entry, within, error>> /\ Multi
        /\ \A q \in Threads \ {r} : pc'[q] = pc[q]
    BY <1>9, ThreadNames DEF ReaderCalls, Goto, callVars, InStep, Team, TypeOK
  <2>1. TypeOK'
    <3>1. CASE Executable(r)
      <4>1. PICK v \in Fetched :
              /\ failures' = IF v = 10 THEN failures ELSE failures \cup {r}
              /\ ran' = ran \cup {<<r, v>>}
        BY <1>9, <3>1 DEF ReaderCalls
      <4>2. <<r, v>> \in Threads \X Values
        BY ThreadNames, <3>1, <4>1 DEF Fetched, Executable
      <4>3. calls' \in [Readers -> 0..Calls]
        <5>1. calls[r] < Calls /\ calls[r] \in Nat
          BY <1>9, CallsAssumption DEF ReaderCalls, TeamRan, TypeOK
        <5> QED
          BY <1>9, <3>1, <5>1, CallsAssumption DEF ReaderCalls, TypeOK
      <4>4. pc' \in [Threads -> States] /\ pc'["main"] \in MainStates
        BY <1>9, ThreadNames, <3>1, GotoTypes DEF ReaderCalls, TypeOK, States
      <4> QED
        BY <1>9, <3>1, <4>1, <4>2, <4>3, <4>4
           DEF ReaderCalls, TypeOK, envVars, memVars, callVars
    <3>2. CASE ~Executable(r)
      BY <1>9, ThreadNames, <3>2 DEF ReaderCalls, TypeOK, envVars, memVars, callVars
    <3> QED
      BY <3>1, <3>2
  <2>2. MainNeverFaults'
    BY <1>9, ThreadNames DEF ReaderCalls, Goto, Executable, Fetched, LastCall, envVars,
                             memVars, callVars, poolVars, TypeOK, MainNeverFaults,
                             RegionFit, NoRegion
  <2>3. InStep'
    BY <1>9, ThreadNames DEF ReaderCalls, Goto, Executable, Fetched, LastCall, envVars,
                             memVars, callVars, poolVars, TypeOK, InStep, Team, Second,
                             Multi, Probes, Entries
  <2>4. RegionFit'
    BY <1>9, ThreadNames DEF ReaderCalls, Goto, Executable, Fetched, LastCall, envVars,
                             memVars, callVars, poolVars, TypeOK, RegionFit, InStep,
                             Team, Second, Callback, NoRegion, Values
  <2>5. MainRan'
    BY <1>9, ThreadNames DEF ReaderCalls, Goto, Executable, Fetched, LastCall, envVars,
                             memVars, callVars, poolVars, TypeOK, MainRan, InStep,
                             RegionFit, First, Second, Team, Multi, Kept, Values
  <2>6. TeamRan'
    <3>1. CASE Executable(r)
      <4>1. PICK v \in Fetched :
              /\ failures' = IF v = 10 THEN failures ELSE failures \cup {r}
              /\ ran' = ran \cup {<<r, v>>}
        BY <1>9, <3>1 DEF ReaderCalls
      <4>2. v \in Values
        BY <3>1, <4>1 DEF Fetched, Executable
      <4>3. /\ calls' = [calls EXCEPT ![r] = calls[r] + 1]
            /\ calls[r] < Calls /\ calls[r] \in Nat /\ calls \in [Readers -> 0..Calls]
        BY <1>9, <3>1, CallsAssumption DEF ReaderCalls, TeamRan, TypeOK
      <4>4. ASSUME NEW q \in Readers
            PROVE  /\ pc'[q] = "call" => calls'[q] < Calls
                   /\ pc'[q] = "gone" => calls'[q] \in {0, Calls}
        <5>1. CASE q = r
          BY <1>9, <3>1, <4>3, <5>1, ThreadNames, CallsAssumption
             DEF ReaderCalls, Goto, LastCall, TypeOK
        <5>2. CASE q # r
          BY <2>a, <4>3, <5>2, ThreadNames DEF TeamRan
        <5> QED
          BY <5>1, <5>2
      <4>5. \A q \in Readers : calls[q] > 0 => calls'[q] > 0
        BY <4>3
      <4>6. calls'[r] > 0
        BY <4>3
      <4>7. ASSUME NEW x \in ran'
            PROVE  \E q \in Readers, w \in Values :
                     x = <<q, w>> /\ calls'[q] > 0 /\ (w = 10 \/ q \in failures')
        <5>1. CASE x \in ran
          BY <2>a, <4>1, <4>5, <5>1 DEF TeamRan
        <5>2. CASE x = <<r, v>>
          BY <4>1, <4>2, <4>6, <5>2
        <5> QED
          BY <4>1, <5>1, <5>2
      <4>8. ASSUME NEW q \in Readers, calls'[q] > 0
            PROVE  \E w \in Values : <<q, w>> \in ran'
        <5>1. CASE q = r
          BY <4>1, <4>2, <5>1
        <5>2. CASE q # r
          BY <2>a, <4>1, <4>3, <4>8, <5>2 DEF TeamRan
        <5> QED
          BY <5>1, <5>2
      <4>9. ASSUME NEW q \in Readers, pc["main"] = "joinreaders"
            PROVE  pc'[q] = "call" \/ calls'[q] > 0 \/ q \in failures'
        <5>1. CASE q = r
          BY <4>6, <5>1
        <5>2. CASE q # r
          BY <2>a, <4>1, <4>3, <4>9, <5>2, ThreadNames DEF TeamRan
        <5> QED
          BY <5>1, <5>2
      <4> QED
        BY <2>a, <4>4, <4>7, <4>8, <4>9 DEF TeamRan, Multi, First
    <3>2. CASE ~Executable(r)
      BY <1>9, <2>a, <3>2 DEF ReaderCalls, TeamRan, Multi
    <3> QED
      BY <3>1, <3>2
  <2>7. FollowsPolicy'
    BY <1>9, ThreadNames DEF ReaderCalls, Goto, Executable, Fetched, LastCall, envVars,
                             memVars, callVars, poolVars, TypeOK, FollowsPolicy, InStep,
                             RegionFit, First, Second, Team, Multi, Fallback,
                             AllocOutcome, RunOutcome, Callback, Policies, Outcomes
  <2>8. AnswersFit'
    BY <1>9, ThreadNames DEF ReaderCalls, Goto, Executable, Fetched, LastCall, envVars,
                             memVars, callVars, poolVars, TypeOK, AnswersFit,
                             FollowsPolicy, InStep, CheckAnswer, BasicAnswer, Fallback,
                             AllocOutcome, RunOutcome, EarlyAnswer, StatusOf
  <2>9. PassMeansRan'
    BY <2>a DEF PassMeansRan
  <2> QED
    BY <2>1, <2>2, <2>3, <2>4, <2>5, <2>6, <2>7, <2>8, <2>9
<1>10. ASSUME NEW r \in Readers, StartReader(r) PROVE IInv'
  <2>1. TypeOK'
    BY <1>10, ThreadNames DEF StartReader, Goto, envVars, memVars, callVars, poolVars,
                              TypeOK, MainStates, States, Outcomes, Values, Code, Prots,
                              NoRegion, Probes, Entries, Policies
  <2>2. MainNeverFaults'
    BY <1>10, ThreadNames DEF StartReader, Goto, envVars, memVars, callVars, poolVars,
                              TypeOK, MainNeverFaults, RegionFit, NoRegion
  <2>3. InStep'
    BY <1>10, ThreadNames DEF StartReader, Goto, envVars, memVars, callVars, poolVars,
                              TypeOK, InStep, Team, Second, Multi, Probes, Entries
  <2>4. RegionFit'
    BY <1>10, ThreadNames DEF StartReader, Goto, envVars, memVars, callVars, poolVars,
                              TypeOK, RegionFit, InStep, Team, Second, Callback,
                              NoRegion, Values
  <2>5. MainRan'
    BY <1>10, ThreadNames DEF StartReader, Goto, envVars, memVars, callVars, poolVars,
                              TypeOK, MainRan, InStep, RegionFit, First, Second, Team,
                              Multi, Kept, Values
  <2>6. TeamRan'
    <3>1. /\ pc["main"] = "readers" /\ pc'["main"] = "readers" /\ Multi
          /\ \A q \in Readers \ {r} : pc'[q] = pc[q]
          /\ pc'[r] \in {"call", "gone"} /\ calls[r] = 0 /\ failures \subseteq failures'
          /\ UNCHANGED <<entry, within, calls, ran>>
      BY <1>10, ThreadNames DEF StartReader, Goto, TypeOK, InStep, Team
    <3> QED
      BY <3>1, CallsAssumption DEF TeamRan, Multi, First
  <2>7. FollowsPolicy'
    BY <1>10, ThreadNames DEF StartReader, Goto, envVars, memVars, callVars, poolVars,
                              TypeOK, FollowsPolicy, InStep, RegionFit, First, Second,
                              Team, Multi, Fallback, AllocOutcome, RunOutcome, Callback,
                              Policies, Outcomes
  <2>8. AnswersFit'
    BY <1>10, ThreadNames DEF StartReader, Goto, envVars, memVars, callVars, poolVars,
                              TypeOK, AnswersFit, FollowsPolicy, InStep, CheckAnswer,
                              BasicAnswer, Fallback, AllocOutcome, RunOutcome,
                              EarlyAnswer, StatusOf
  <2>9. PassMeansRan'
    BY <1>10, ThreadNames DEF StartReader, Goto, envVars, memVars, callVars, poolVars,
                              TypeOK, PassMeansRan, MainRan, TeamRan, Multi, Kept
  <2> QED
    BY <2>1, <2>2, <2>3, <2>4, <2>5, <2>6, <2>7, <2>8, <2>9
<1>11. CASE StartWriter
  <2>1. TypeOK'
    BY <1>11, ThreadNames DEF StartWriter, Goto, envVars, memVars, callVars, poolVars,
                              TypeOK, MainStates, States, Outcomes, Values, Code, Prots,
                              NoRegion, Probes, Entries, Policies
  <2>2. MainNeverFaults'
    BY <1>11, ThreadNames DEF StartWriter, Goto, envVars, memVars, callVars, poolVars,
                              TypeOK, MainNeverFaults, RegionFit, NoRegion
  <2>3. InStep'
    BY <1>11, ThreadNames DEF StartWriter, Goto, envVars, memVars, callVars, poolVars,
                              TypeOK, InStep, Team, Second, Multi, Probes, Entries
  <2>4. RegionFit'
    BY <1>11, ThreadNames DEF StartWriter, Goto, envVars, memVars, callVars, poolVars,
                              TypeOK, RegionFit, InStep, Team, Second, Callback,
                              NoRegion, Values
  <2>5. MainRan'
    BY <1>11, ThreadNames DEF StartWriter, Goto, envVars, memVars, callVars, poolVars,
                              TypeOK, MainRan, InStep, RegionFit, First, Second, Team,
                              Multi, Kept, Values
  <2>6. TeamRan'
    <3>1. /\ \A r \in Readers : pc'[r] = pc[r]
          /\ pc["main"] = "writer" /\ pc'["main"] \in {"joinwriter", "nowriter"}
          /\ pc'["main"] = "nowriter" => error' # "ok"
          /\ UNCHANGED <<entry, within, failures, calls, ran>>
      BY <1>11, ThreadNames DEF StartWriter, Goto, TypeOK, poolVars
    <3> QED
      BY <3>1 DEF TeamRan, Multi, First, InStep, Team
  <2>7. FollowsPolicy'
    BY <1>11, ThreadNames DEF StartWriter, Goto, envVars, memVars, callVars, poolVars,
                              TypeOK, FollowsPolicy, InStep, RegionFit, First, Second,
                              Team, Multi, Fallback, AllocOutcome, RunOutcome, Callback,
                              Policies, Outcomes
  <2>8. AnswersFit'
    BY <1>11, ThreadNames DEF StartWriter, Goto, envVars, memVars, callVars, poolVars,
                              TypeOK, AnswersFit, FollowsPolicy, InStep, CheckAnswer,
                              BasicAnswer, Fallback, AllocOutcome, RunOutcome,
                              EarlyAnswer, StatusOf
  <2>9. PassMeansRan'
    BY <1>11, ThreadNames DEF StartWriter, Goto, envVars, memVars, callVars, poolVars,
                              TypeOK, PassMeansRan, MainRan, TeamRan, Multi, Kept
  <2> QED
    BY <2>1, <2>2, <2>3, <2>4, <2>5, <2>6, <2>7, <2>8, <2>9
<1>12. CASE JoinWriter
  <2>1. TypeOK'
    BY <1>12, ThreadNames DEF JoinWriter, Goto, WriterJoined, envVars, memVars,
                              callVars, poolVars, TypeOK, MainStates, States, Outcomes,
                              Values, Code, Prots, NoRegion, Probes, Entries, Policies
  <2>2. MainNeverFaults'
    BY <1>12, ThreadNames DEF JoinWriter, Goto, WriterJoined, envVars, memVars,
                              callVars, poolVars, TypeOK, MainNeverFaults, RegionFit,
                              NoRegion
  <2>3. InStep'
    BY <1>12, ThreadNames DEF JoinWriter, Goto, WriterJoined, envVars, memVars,
                              callVars, poolVars, TypeOK, InStep, Team, Second, Multi,
                              Probes, Entries
  <2>4. RegionFit'
    BY <1>12, ThreadNames DEF JoinWriter, Goto, WriterJoined, envVars, memVars,
                              callVars, poolVars, TypeOK, RegionFit, InStep, Team,
                              Second, Callback, NoRegion, Values
  <2>5. MainRan'
    BY <1>12, ThreadNames DEF JoinWriter, Goto, WriterJoined, envVars, memVars,
                              callVars, poolVars, TypeOK, MainRan, InStep, RegionFit,
                              First, Second, Team, Multi, Kept, Values
  <2>6. TeamRan'
    BY <1>12, ThreadNames DEF JoinWriter, Goto, WriterJoined, envVars, memVars,
                              callVars, poolVars, TypeOK, TeamRan, InStep, MainRan,
                              First, Second, Team, Multi
  <2>7. FollowsPolicy'
    BY <1>12, ThreadNames DEF JoinWriter, Goto, WriterJoined, envVars, memVars,
                              callVars, poolVars, TypeOK, FollowsPolicy, InStep,
                              RegionFit, First, Second, Team, Multi, Fallback,
                              AllocOutcome, RunOutcome, Callback, Policies, Outcomes
  <2>8. AnswersFit'
    BY <1>12, ThreadNames DEF JoinWriter, Goto, WriterJoined, envVars, memVars,
                              callVars, poolVars, TypeOK, AnswersFit, FollowsPolicy,
                              InStep, CheckAnswer, BasicAnswer, Fallback, AllocOutcome,
                              RunOutcome, EarlyAnswer, StatusOf
  <2>9. PassMeansRan'
    BY <1>12, ThreadNames DEF JoinWriter, Goto, WriterJoined, envVars, memVars,
                              callVars, poolVars, TypeOK, PassMeansRan, MainRan,
                              TeamRan, Multi, Kept
  <2> QED
    BY <2>1, <2>2, <2>3, <2>4, <2>5, <2>6, <2>7, <2>8, <2>9
<1>13. CASE ReadersStarted
  <2>1. TypeOK'
    BY <1>13, ThreadNames DEF ReadersStarted, Goto, envVars, memVars, callVars,
                              poolVars, TypeOK, MainStates, States, Outcomes, Values,
                              Code, Prots, NoRegion, Probes, Entries, Policies
  <2>2. MainNeverFaults'
    BY <1>13, ThreadNames DEF ReadersStarted, Goto, envVars, memVars, callVars,
                              poolVars, TypeOK, MainNeverFaults, RegionFit, NoRegion
  <2>3. InStep'
    BY <1>13, ThreadNames DEF ReadersStarted, Goto, envVars, memVars, callVars,
                              poolVars, TypeOK, InStep, Team, Second, Multi, Probes,
                              Entries
  <2>4. RegionFit'
    BY <1>13, ThreadNames DEF ReadersStarted, Goto, envVars, memVars, callVars,
                              poolVars, TypeOK, RegionFit, InStep, Team, Second,
                              Callback, NoRegion, Values
  <2>5. MainRan'
    BY <1>13, ThreadNames DEF ReadersStarted, Goto, envVars, memVars, callVars,
                              poolVars, TypeOK, MainRan, InStep, RegionFit, First,
                              Second, Team, Multi, Kept, Values
  <2>6. TeamRan'
    <3>1. /\ \A r \in Readers : pc'[r] = pc[r]
          /\ pc["main"] = "readers" /\ pc'["main"] = "joinreaders"
          /\ UNCHANGED <<entry, within, failures, calls, ran>>
      BY <1>13, ThreadNames DEF ReadersStarted, Goto, callVars, poolVars, TypeOK
    <3>2. \A r \in Readers : pc[r] = "call" \/ calls[r] > 0 \/ r \in failures
      BY <1>13 DEF ReadersStarted, InStep
    <3>3. Multi
      BY <3>1 DEF InStep, Team
    <3> QED
      BY <3>1, <3>2, <3>3 DEF TeamRan, Multi, First
  <2>7. FollowsPolicy'
    BY <1>13, ThreadNames DEF ReadersStarted, Goto, envVars, memVars, callVars,
                              poolVars, TypeOK, FollowsPolicy, InStep, RegionFit, First,
                              Second, Team, Multi, Fallback, AllocOutcome, RunOutcome,
                              Callback, Policies, Outcomes
  <2>8. AnswersFit'
    BY <1>13, ThreadNames DEF ReadersStarted, Goto, envVars, memVars, callVars,
                              poolVars, TypeOK, AnswersFit, FollowsPolicy, InStep,
                              CheckAnswer, BasicAnswer, Fallback, AllocOutcome,
                              RunOutcome, EarlyAnswer, StatusOf
  <2>9. PassMeansRan'
    BY <1>13, ThreadNames DEF ReadersStarted, Goto, envVars, memVars, callVars,
                              poolVars, TypeOK, PassMeansRan, MainRan, TeamRan, Multi,
                              Kept
  <2> QED
    BY <2>1, <2>2, <2>3, <2>4, <2>5, <2>6, <2>7, <2>8, <2>9
<1>14. CASE JoinReaders
  <2>1. TypeOK'
    BY <1>14, ThreadNames DEF JoinReaders, Goto, ReadersJoined, envVars, memVars,
                              callVars, poolVars, TypeOK, MainStates, States, Outcomes,
                              Values, Code, Prots, NoRegion, Probes, Entries, Policies
  <2>2. MainNeverFaults'
    BY <1>14, ThreadNames DEF JoinReaders, Goto, ReadersJoined, envVars, memVars,
                              callVars, poolVars, TypeOK, MainNeverFaults, RegionFit,
                              NoRegion
  <2>3. InStep'
    BY <1>14, ThreadNames DEF JoinReaders, Goto, ReadersJoined, envVars, memVars,
                              callVars, poolVars, TypeOK, InStep, Team, Second, Multi,
                              Probes, Entries
  <2>4. RegionFit'
    BY <1>14, ThreadNames DEF JoinReaders, Goto, ReadersJoined, envVars, memVars,
                              callVars, poolVars, TypeOK, RegionFit, InStep, Team,
                              Second, Callback, NoRegion, Values
  <2>5. MainRan'
    BY <1>14, ThreadNames DEF JoinReaders, Goto, ReadersJoined, envVars, memVars,
                              callVars, poolVars, TypeOK, MainRan, InStep, RegionFit,
                              First, Second, Team, Multi, Kept, Values
  <2>6. TeamRan'
    <3>1. /\ \A r \in Readers : pc'[r] = pc[r]
          /\ pc["main"] = "joinreaders" /\ pc'["main"] = "free"
          /\ UNCHANGED <<entry, within, failures, calls, ran>>
      BY <1>14, ThreadNames DEF JoinReaders, Goto, callVars, poolVars, TypeOK
    <3>2. Multi
      BY <3>1 DEF InStep, Team
    <3>3. ASSUME NEW r \in Readers PROVE calls[r] = Calls \/ r \in failures
      <4>1. pc[r] = "gone"
        BY <1>14 DEF JoinReaders, ReadersJoined
      <4>2. calls[r] \in {0, Calls} /\ (calls[r] > 0 \/ r \in failures)
        BY <3>1, <3>2, <4>1 DEF TeamRan
      <4> QED
        BY <4>2
    <3> QED
      BY <3>1, <3>2, <3>3 DEF TeamRan, Multi, First
  <2>7. FollowsPolicy'
    BY <1>14, ThreadNames DEF JoinReaders, Goto, ReadersJoined, envVars, memVars,
                              callVars, poolVars, TypeOK, FollowsPolicy, InStep,
                              RegionFit, First, Second, Team, Multi, Fallback,
                              AllocOutcome, RunOutcome, Callback, Policies, Outcomes
  <2>8. AnswersFit'
    BY <1>14, ThreadNames DEF JoinReaders, Goto, ReadersJoined, envVars, memVars,
                              callVars, poolVars, TypeOK, AnswersFit, FollowsPolicy,
                              InStep, CheckAnswer, BasicAnswer, Fallback, AllocOutcome,
                              RunOutcome, EarlyAnswer, StatusOf
  <2>9. PassMeansRan'
    BY <1>14, ThreadNames DEF JoinReaders, Goto, ReadersJoined, envVars, memVars,
                              callVars, poolVars, TypeOK, PassMeansRan, MainRan,
                              TeamRan, Multi, Kept
  <2> QED
    BY <2>1, <2>2, <2>3, <2>4, <2>5, <2>6, <2>7, <2>8, <2>9
<1>15. CASE Free
  <2> DEFINE goesOn == within /\ Verdict("jit_basic") = "PASS"
             r == CASE entry = "jit_check" -> StatusOf(error)
                    [] within -> Verdict("jit_basic")
                    [] OTHER -> Verdict(entry)
  <2>a. /\ pc' = [pc EXCEPT !["main"] = IF goesOn THEN "alloc" ELSE "idle"]
        /\ region' = NoRegion /\ pc["main"] \in Exits
        /\ UNCHANGED <<platform, supported, policy, unlocked, entry, error, failures, calls,
                       disturbed, faulted>>
    BY <1>15 DEF Free, Freed, RegionFit, Goto, envVars, poolVars
  <2>b. goesOn => /\ within' = FALSE /\ value' = [first |-> 0, second |-> 0] /\ ran' = {}
                  /\ UNCHANGED <<returned, answer>>
                  /\ entry = "jit_multithread" /\ ~Multi
    BY <1>15 DEF Free, InStep, Multi
  <2>c. ~goesOn => /\ returned' = r /\ UNCHANGED <<within, value, ran>>
                   /\ answer' = IF entry \in DOMAIN answer /\ ~disturbed
                                THEN [answer EXCEPT ![entry] = r] ELSE answer
    BY <1>15 DEF Free
  <2>d. /\ pc'["main"] = IF goesOn THEN "alloc" ELSE "idle"
        /\ \A t \in Threads \ {"main"} : pc'[t] = pc[t]
    BY <2>a, ThreadNames DEF TypeOK
  <2>e. Verdict("jit_basic") = "PASS" => error = "ok"
    BY DEF Verdict, Worked
  <2> HIDE DEF goesOn, r
  <2>1. TypeOK'
    <3>1. pc' \in [Threads -> States] /\ pc'["main"] \in MainStates
      BY <2>a, <2>d, ThreadNames DEF TypeOK, MainStates, States
    <3>2. region' \in [prot : Prots, backend : 0..2, code : Code, flushed : BOOLEAN]
      BY <2>a DEF NoRegion, Code, Prots
    <3>3. /\ within' \in BOOLEAN /\ ran' \subseteq Threads \X Values
      BY <2>b, <2>c DEF TypeOK
    <3>4. [first |-> 0, second |-> 0] \in [first : Values \cup {0}, second : Values \cup {0}]
      OBVIOUS
    <3>5. value' \in [first : Values \cup {0}, second : Values \cup {0}]
      BY <2>b, <2>c, <3>4 DEF TypeOK
    <3> QED
      BY <2>a, <3>1, <3>2, <3>3, <3>5 DEF TypeOK
  <2>2. MainNeverFaults'
    BY <1>15, ThreadNames, <2>a, <2>b, <2>c, <2>d
       DEF envVars, memVars, callVars, poolVars, TypeOK, MainNeverFaults, RegionFit,
           NoRegion
  <2>3. InStep'
    BY <2>a, <2>b, <2>c, <2>d, ThreadNames DEF InStep, Multi, Team, Second
  <2>4. RegionFit'
    BY <2>a, <2>d DEF RegionFit, Callback, NoRegion
  <2>5. MainRan'
    <3>1. CASE goesOn
      BY <2>a, <2>b, <2>d, <3>1 DEF MainRan, Multi, First
    <3>2. CASE ~goesOn
      <4>1. UNCHANGED <<Multi, Kept>>
        BY <2>a, <2>c, <3>2 DEF Multi, Kept
      <4>2. entry = "jit_check" => r # "PASS"
        BY DEF r, StatusOf, InStep
      <4> QED
        BY <2>a, <2>c, <2>d, <3>2, <4>1, <4>2 DEF MainRan, First
    <3> QED
      BY <3>1, <3>2
  <2>6. TeamRan'
    <3>1. CASE goesOn
      <4>1. failures' = {} /\ ran' = {} /\ \A q \in Readers : calls'[q] = 0
        BY <2>a, <2>b, <3>1 DEF TeamRan
      <4>2. \A q \in Readers : pc'[q] = pc[q]
        BY <2>d, ThreadNames
      <4>3. pc'["main"] = "alloc"
        BY <2>d, <3>1
      <4> QED
        BY <2>a, <4>1, <4>2, <4>3 DEF TeamRan
    <3>2. CASE ~goesOn
      <4>1. UNCHANGED Multi
        BY <2>a, <2>c, <3>2 DEF Multi
      <4>2. \A q \in Readers : pc'[q] = pc[q]
        BY <2>d, ThreadNames
      <4>3. pc'["main"] = "idle" /\ UNCHANGED <<failures, calls, ran>>
        BY <2>a, <2>c, <2>d, <3>2
      <4> QED
        BY <4>1, <4>2, <4>3 DEF TeamRan, First
    <3> QED
      BY <3>1, <3>2
  <2>7. FollowsPolicy'
    <3>1. CASE goesOn
      BY <2>a, <2>b, <3>1 DEF FollowsPolicy
    <3>2. CASE ~goesOn
      BY <2>d, <3>2 DEF FollowsPolicy, First
    <3> QED
      BY <3>1, <3>2
  <2>8. AnswersFit'
    <3>1. UNCHANGED <<CheckAnswer, BasicAnswer>> /\ UNCHANGED EarlyAnswer(entry)
      BY <2>a DEF CheckAnswer, BasicAnswer, RunOutcome, AllocOutcome, Fallback, EarlyAnswer
    <3>2. CASE goesOn \/ entry \notin {"jit_check", "jit_basic"} \/ disturbed
      BY <2>a, <2>b, <2>c, <2>d, <3>1, <3>2 DEF AnswersFit
    <3>3. CASE ~goesOn /\ entry = "jit_check" /\ ~disturbed
      <4>1. r = CheckAnswer
        BY <2>a, <3>3 DEF r, AnswersFit, FollowsPolicy, CheckAnswer, InStep
      <4>2. r \in {"ENABLED", "DISABLED", "UNAVAILABLE", "UNKNOWN"}
        BY <3>3 DEF r, StatusOf, InStep
      <4> QED
        BY <2>a, <2>c, <2>d, <3>1, <3>3, <4>1, <4>2 DEF AnswersFit
    <3>4. CASE ~goesOn /\ entry = "jit_basic" /\ ~disturbed
      <4>1. ~within /\ platform \in Arm64 /\ error = RunOutcome
            /\ (error = "ok" => value.first = 42) /\ pc["main"] # "idle"
        BY <2>a, <3>4 DEF InStep, AnswersFit, FollowsPolicy, EarlyAnswer, Probes
      <4>5. \/ pc["main"] = "noregion" /\ AllocOutcome # "ok"
            \/ pc["main"] = "nowrite" /\ AllocOutcome = "ok" /\ policy.write # "ok"
            \/ pc["main"] = "free" /\ AllocOutcome = "ok" /\ policy.write = "ok"
        BY <2>a, <3>4 DEF InStep, FollowsPolicy, Multi
      <4>2. r = Verdict("jit_basic")
        BY <3>4, <4>1 DEF r
      <4>3. r = BasicAnswer /\ r \in {"PASS", "BLOCKED", "FAIL"}
        <5>1. Worked("jit_basic") <=> error = "ok"
          BY <4>1, <4>5 DEF Worked
        <5>2. Blocked("jit_basic") <=>
                error = "denied" /\ (AllocOutcome # "ok" \/ policy.write = "ok")
          BY <4>5 DEF Blocked
        <5> QED
          BY <4>1, <4>2, <5>1, <5>2 DEF Verdict, BasicAnswer
      <4> QED
        BY <2>a, <2>c, <2>d, <3>1, <3>4, <4>3 DEF AnswersFit
    <3> QED
      BY <3>2, <3>3, <3>4
  <2>9. PassMeansRan'
    <3> SUFFICES ASSUME ~goesOn, r = "PASS" PROVE PassMeansRan'
      BY <2>c, <2>d DEF PassMeansRan
    <3>1. entry # "jit_check" /\ ~within /\ r = Verdict(entry)
      BY DEF r, goesOn, StatusOf
    <3>2. entry \in Probes /\ Worked(entry)
      BY <3>1 DEF Verdict, TypeOK, Entries
    <3>3. CASE entry = "jit_basic"
      <4>1. value.first = 42 /\ value.second = 0
        BY <3>2, <3>3 DEF Worked, MainRan
      <4>2. ran = {<<"main", 42>>}
        BY <3>3, <4>1 DEF MainRan, Multi, Kept
      <4> QED
        BY <2>a, <2>c, <3>3, <4>2 DEF PassMeansRan
    <3>4. CASE entry = "jit_write_protect"
      <4>1. value.first = 1 /\ value.second = 10
        BY <3>2, <3>4 DEF Worked
      <4>2. ran = {<<"main", 1>>, <<"main", 10>>}
        BY <3>4, <4>1 DEF MainRan, Multi, Kept
      <4> QED
        BY <2>a, <2>c, <3>4, <4>2 DEF PassMeansRan
    <3>5. CASE entry = "jit_multithread"
      <4>1. Multi /\ error = "ok" /\ failures = {}
        BY <3>1, <3>2, <3>5 DEF Worked, Multi
      <4>2. \A q \in Readers : calls[q] = Calls
        BY <2>a, <4>1 DEF TeamRan
      <4>3. \A x \in ran : \E q \in Readers : x = <<q, 10>>
        BY <4>1 DEF TeamRan
      <4>4. ASSUME NEW q \in Readers PROVE <<q, 10>> \in ran
        <5>1. PICK v \in Values : <<q, v>> \in ran
          <6>1. calls[q] > 0
            BY <4>2, CallsAssumption
          <6> QED
            BY <4>1, <6>1 DEF TeamRan
        <5> QED
          BY <4>3, <5>1
      <4>5. ran = {<<q, 10>> : q \in Readers}
        BY <4>3, <4>4
      <4> QED
        BY <2>a, <2>c, <3>5, <4>2, <4>5 DEF PassMeansRan
    <3> QED
      BY <3>2, <3>3, <3>4, <3>5 DEF Probes
  <2> QED
    BY <2>1, <2>2, <2>3, <2>4, <2>5, <2>6, <2>7, <2>8, <2>9
<1> QED
  BY <1>0, <1>1, <1>2, <1>3, <1>4, <1>5, <1>6, <1>7, <1>8, <1>9, <1>10, <1>11, <1>12,
     <1>13, <1>14, <1>15
     DEF Next

\* The inductive invariant holds throughout.
LEMMA Inductive == Spec => []IInv
BY InitIInv, StepIInv, PTL DEF Spec

\* Every variable of the JIT probes keeps its type, for any readers and calls.
THEOREM TypeCorrect == Spec => []TypeOK
<1>1. IInv => TypeOK
  BY DEF IInv
<1> QED
  BY <1>1, Inductive, PTL

\* jit_basic and the other users of graft_jit.c report a host without JIT and never
\* crash on it: the main thread calls only code that was written and made executable,
\* whatever the kernel answers and whenever it changes its mind.
THEOREM MainThreadIsSafe == Spec => []MainNeverFaults
<1>1. IInv => MainNeverFaults
  BY DEF IInv
<1> QED
  BY <1>1, Inductive, PTL

\* The readers of jit_multithread never call code that the writer is writing, and the
\* region is not freed under them.
THEOREM WriteExcludesCalls == Spec => []NoCallDuringWrite
<1>1. IInv => NoCallDuringWrite
  BY DEF IInv, InStep, NoCallDuringWrite
<1> QED
  BY <1>1, Inductive, PTL

\* No way out of a probe or of graft_jit_check leaves its mapping or a thread behind.
THEOREM EverythingIsFreed == Spec => []NothingLeft
<1>1. IInv => NothingLeft
  <2> SUFFICES ASSUME IInv, pc["main"] = "idle" PROVE NothingLeft
    BY DEF NothingLeft
  <2>1. pc["writer"] = "gone" /\ \A r \in Readers : pc[r] = "gone"
    BY DEF IInv, InStep
  <2> QED
    BY <2>1 DEF IInv, RegionFit, NothingLeft, Threads
<1> QED
  BY <1>1, Inductive, PTL

\* A PASS of jit_basic, jit_write_protect or jit_multithread means that the code ran, with
\* the values it was written to return, in every thread and as often as was asked.
THEOREM PassIsEarned == Spec => []PassMeansRan
<1>1. IInv => PassMeansRan
  BY DEF IInv
<1> QED
  BY <1>1, Inductive, PTL

\* graft_jit_check and jit_basic agree for as long as the kernel's answers stay the same:
\* both are functions of those answers, and of the platform.
THEOREM CheckIsRight == Spec => []CheckAgrees
<1>1. IInv => CheckAgrees
  <2> SUFFICES ASSUME IInv PROVE CheckAgrees
    OBVIOUS
  <2> SUFFICES ASSUME BasicAnswer # "SKIP"
               PROVE  /\ CheckAnswer = "ENABLED" => BasicAnswer = "PASS"
                      /\ CheckAnswer = "DISABLED" =>
                           BasicAnswer = "BLOCKED"
                             \/ (BasicAnswer = "FAIL" /\ policy.write = "denied")
                      /\ CheckAnswer = "UNKNOWN" => BasicAnswer = "FAIL"
    BY DEF IInv, AnswersFit, CheckAgrees
  <2>1. CheckAnswer = "ENABLED" => RunOutcome = "ok"
    BY DEF CheckAnswer, StatusOf
  <2>2. CheckAnswer = "DISABLED" => RunOutcome = "denied"
    BY DEF CheckAnswer, StatusOf
  <2>3. CheckAnswer = "UNKNOWN" => RunOutcome \notin {"ok", "denied"}
    BY DEF CheckAnswer, StatusOf
  <2>4. AllocOutcome = "ok" /\ policy.write # "ok" => RunOutcome = policy.write
    BY DEF RunOutcome
  <2> QED
    BY <2>1, <2>2, <2>3, <2>4 DEF BasicAnswer
<1> QED
  BY <1>1, Inductive, PTL
=============================================================================
