---------------------------- MODULE SpawnFdsProofs ----------------------------
(* The helper gets the right files, for every descriptor table and limit.    *)
EXTENDS SpawnFds, TLAPS

Handed == {"childEnd", "shared"}

\* A session file is found under its own descriptor and nowhere else.
Own == \A fd \in HostFds, f \in SessionFiles : host[fd] = f <=> config[f] = fd

\* Once chosen, the numbers are above every descriptor of the session, and apart.
Chosen ==
  pc \notin {"call", "failed"} =>
    /\ \A f \in Handed, g \in SessionFiles : args[f] > config[g]
    /\ args["childEnd"] # args["shared"]
    /\ \A f \in Handed : args[f] \in ChildFds

\* Where each session file is to be found in the child, stage by stage.
Where(f) ==
  CASE f = "parentEnd" -> IF pc \in {"closeSocket", "closeShared", "exec", "mapped"}
                          THEN {} ELSE {config[f]}
    [] f = "childEnd" -> IF pc = "dupSocket" THEN {config[f]}
                         ELSE IF pc \in {"closeShared", "exec", "mapped"}
                         THEN {args[f]} ELSE {config[f], args[f]}
    [] f = "shared" -> IF pc \in {"dupSocket", "dupShared"} THEN {config[f]}
                       ELSE IF pc \in {"exec", "mapped"}
                       THEN {args[f]} ELSE {config[f], args[f]}

\* And nowhere else.
Placed ==
  pc \in FileActions \cup {"exec", "mapped"} =>
    \A f \in SessionFiles, fd \in ChildFds : table[fd] = f <=> fd \in Where(f)

\* The inductive invariant.
IInv == TypeOK /\ Own /\ Chosen /\ Placed /\ pc # "refused"

\* The highest of three natural numbers exists.
LEMMA HighestBound ==
  ASSUME config \in [SessionFiles -> HostFds]
  PROVE  /\ highest \in HostFds
         /\ \A f \in SessionFiles : config[f] <= highest
<1> DEFINE C == {config[f] : f \in SessionFiles}
           P(fd) == \A f \in SessionFiles : config[f] <= fd
<1>1. config["parentEnd"] \in Nat /\ config["childEnd"] \in Nat
      /\ config["shared"] \in Nat
  BY LimitAssumption DEF SessionFiles, HostFds
<1>2. \E fd \in C : P(fd)
  BY <1>1 DEF SessionFiles
<1>3. highest \in C /\ P(highest)
  <2> HIDE DEF P, C
  <2>1. (CHOOSE fd \in C : P(fd)) \in C /\ P(CHOOSE fd \in C : P(fd))
    BY <1>2
  <2> QED
    BY <2>1 DEF highest, P, C
<1> QED
  BY <1>3

\* Before graft_spawn_helper is called nothing is chosen or placed.
LEMMA InitIInv == Init => IInv
<1> SUFFICES ASSUME Init PROVE IInv
  OBVIOUS
<1>1. PICK others \in SUBSET HostFds :
        host = [fd \in HostFds |->
                  IF \E f \in SessionFiles : config[f] = fd
                  THEN CHOOSE f \in SessionFiles : config[f] = fd
                  ELSE IF fd \in others THEN "other" ELSE "closed"]
  BY DEF Init
<1>2. ASSUME NEW fd \in HostFds
      PROVE  /\ host[fd] \in Files
             /\ \A f \in SessionFiles : host[fd] = f <=> config[f] = fd
  <2>1. CASE \E f \in SessionFiles : config[f] = fd
    <3>1. PICK f \in SessionFiles : config[f] = fd
      BY <2>1
    <3>2. host[fd] \in SessionFiles /\ config[host[fd]] = fd
      BY <1>1, <2>1
    <3>3. host[fd] = f
      BY <3>1, <3>2 DEF Init
    <3> QED
      BY <3>1, <3>3 DEF Init, Files
  <2>2. CASE ~ \E f \in SessionFiles : config[f] = fd
    <3>1. host[fd] \in {"other", "closed"}
      BY <1>1, <2>2
    <3> QED
      BY <2>2, <3>1 DEF Files, SessionFiles
  <2> QED
    BY <2>1, <2>2
<1>3. host \in [HostFds -> Files]
  BY <1>1, <1>2
<1>4. 0 \in 0..HelperLimit
  BY LimitAssumption
<1> QED
  BY <1>2, <1>3, <1>4 DEF Init, IInv, TypeOK, Own, Chosen, Placed, Stages, Files,
                          FileActions

\* Each of its steps, and each file action in the child, keeps every file where the
\* stage says.
LEMMA StepIInv == IInv /\ [Next]_vars => IInv'
<1> SUFFICES ASSUME IInv, [Next]_vars PROVE IInv'
  OBVIOUS
<1> USE DEF IInv
<1>s. /\ \A f \in SessionFiles : config[f] \in HostFds
      /\ HostFds \subseteq ChildFds /\ ChildFds \subseteq Nat
      /\ Handed \subseteq SessionFiles
  BY LimitAssumption DEF TypeOK, HostFds, ChildFds, Handed, SessionFiles
<1>0. CASE UNCHANGED vars
  <2>1. TypeOK' /\ Own' /\ pc' # "refused"
    BY <1>0 DEF vars, TypeOK, Own
  <2>2. Chosen'
    BY <1>0 DEF vars, Chosen
  <2>3. \A f : Where(f)' = Where(f)
    BY <1>0 DEF vars, Where
  <2>4. Placed'
    BY <1>0, <2>3 DEF vars, Placed
  <2> QED
    BY <2>1, <2>2, <2>4
<1>1. CASE Call
  <2>1. CASE TooHigh
    BY <1>1, <2>1 DEF Call, TypeOK, Own, Chosen, Placed, Where, Stages, FileActions
  <2>2. CASE ~TooHigh
    <3>1. args' = [childEnd |-> highest + 1, shared |-> highest + 2] /\ pc' = "add"
      BY <1>1, <2>2 DEF Call, Numbers
    <3>2. highest \in 0..HostLimit /\ \A f \in SessionFiles : config[f] <= highest
      BY <2>2, HighestBound, LimitAssumption DEF TypeOK, TooHigh, HostFds
    <3>3. args' \in [Handed -> 0..HelperLimit]
      BY <3>1, <3>2, LimitAssumption DEF Handed
    <3>4. highest + 1 \in ChildFds /\ highest + 2 \in ChildFds
      BY HighestBound, LimitAssumption DEF TypeOK, HostFds, ChildFds
    <3>5. UNCHANGED config
      BY <1>1 DEF Call
    <3>6. \A f \in Handed : args'[f] \in {highest + 1, highest + 2}
      BY <3>1 DEF Handed
    <3>7. \A f \in Handed, g \in SessionFiles : args'[f] > config[g]
      <4> TAKE f \in Handed, g \in SessionFiles
      <4>a. config[g] \in Nat
        BY <1>s
      <4>b. highest \in Nat
        BY <3>2, LimitAssumption
      <4>c. config[g] <= highest
        BY <3>2
      <4>1. config[g] \in Nat /\ config[g] <= highest /\ highest \in Nat
        BY <4>a, <4>b, <4>c
      <4>2. args'[f] = highest + 1 \/ args'[f] = highest + 2
        BY <3>6
      <4> HIDE DEF IInv
      <4> QED
        BY <4>1, <4>2
    <3>8. args'["childEnd"] # args'["shared"]
      BY <3>1, <3>2
    <3>9. Chosen'
      BY <3>4, <3>5, <3>6, <3>7, <3>8 DEF Chosen
    <3> QED
      BY <3>1, <3>3, <3>9, <1>1 DEF Call, TypeOK, Own, Placed, Where, Stages,
                                   FileActions, Handed
  <2> QED
    BY <2>1, <2>2
<1>2. CASE AddFails \/ Added \/ ExecFails
  BY <1>2 DEF AddFails, Added, ExecFails, TypeOK, Own, Chosen, Placed, Where, Stages,
              FileActions
<1>3. CASE Fork
  <2>1. table' \in [ChildFds -> Files]
    BY <1>3 DEF Fork, TypeOK, Files
  <2>2. ASSUME NEW f \in SessionFiles, NEW fd \in ChildFds
        PROVE  table'[fd] = f <=> fd = config[f]
    BY <1>3, <1>s DEF Fork, Own, SessionFiles
  <2> QED
    BY <1>3, <2>1, <2>2 DEF Fork, TypeOK, Own, Chosen, Placed, Where, Stages,
                            FileActions, SessionFiles
<1>4. ASSUME NEW stage, NEW file \in Handed, NEW next, Dup(stage, file, next),
             \/ stage = "dupSocket" /\ file = "childEnd" /\ next = "dupShared"
             \/ stage = "dupShared" /\ file = "shared" /\ next = "closeParent"
      PROVE  IInv'
  <2>1. CASE ~(args[file] < limit)
    BY <1>4, <2>1 DEF Dup, TypeOK, Own, Chosen, Placed, Where, Stages, FileActions
  <2>2. CASE args[file] < limit
    <3>1. /\ table' = [table EXCEPT ![args[file]] = table[config[file]]]
          /\ pc' = next /\ pc = stage
          /\ UNCHANGED <<host, config, limit, args>>
      BY <1>4, <2>2 DEF Dup
    <3>2. args[file] \in ChildFds /\ \A g \in SessionFiles : args[file] # config[g]
      BY <3>1, <1>4, <1>s DEF Chosen
    <3>3. table[config[file]] = file
      BY <3>1, <1>4, <1>s DEF Placed, Where, FileActions, Handed
    <3>4. \A fd \in ChildFds : table'[fd] = IF fd = args[file] THEN file ELSE table[fd]
      BY <3>1, <3>2, <3>3 DEF TypeOK
    <3>5. table' \in [ChildFds -> Files]
      BY <3>1, <3>3, <1>s, <1>4 DEF TypeOK, Files
    <3>6. Placed'
      BY <3>1, <3>2, <3>4, <1>4, <1>s DEF Placed, Where, FileActions, Handed,
                                         SessionFiles, Chosen
    <3> QED
      BY <3>1, <3>5, <3>6, <1>4 DEF TypeOK, Own, Chosen, Stages, FileActions
  <2> QED
    BY <2>1, <2>2
<1>5. ASSUME NEW stage, NEW file \in SessionFiles, NEW next, Close(stage, file, next),
             \/ stage = "closeParent" /\ file = "parentEnd" /\ next = "closeSocket"
             \/ stage = "closeSocket" /\ file = "childEnd" /\ next = "closeShared"
             \/ stage = "closeShared" /\ file = "shared" /\ next = "exec"
      PROVE  IInv'
  <2>1. /\ table' = [table EXCEPT ![config[file]] = "closed"]
        /\ pc' = next /\ pc = stage
        /\ UNCHANGED <<host, config, limit, args>>
    BY <1>5 DEF Close
  <2>2. \A fd \in ChildFds :
          table'[fd] = IF fd = config[file] THEN "closed" ELSE table[fd]
    BY <2>1, <1>s DEF TypeOK
  <2>3. table' \in [ChildFds -> Files]
    BY <2>1, <2>2, <1>s DEF TypeOK, Files
  <2>4. Placed'
    BY <2>1, <2>2, <1>5, <1>s DEF Placed, Where, FileActions, SessionFiles, Chosen,
                                  Handed
  <2> QED
    BY <2>1, <2>3, <2>4, <1>5 DEF TypeOK, Own, Chosen, Stages, FileActions
<1>6. CASE Start
  <2>1. table[args["shared"]] = "shared"
    BY <1>6, <1>s DEF Start, Placed, Where, Chosen, FileActions, SessionFiles, Handed
  <2>2. pc' = "mapped"
    BY <1>6, <2>1, LimitAssumption DEF Start, TypeOK
  <2> QED
    BY <1>6, <2>2 DEF Start, TypeOK, Own, Chosen, Placed, Where, Stages, FileActions
<1>7. CASE RunActions
  BY <1>4, <1>5, <1>7 DEF RunActions, Handed, SessionFiles
<1> QED
  BY <1>0, <1>1, <1>2, <1>3, <1>6, <1>7 DEF Next

\* In every reachable state the session's files are where the stage says.
THEOREM Invariance == Spec => []IInv
  BY InitIInv, StepIInv, PTL DEF Spec

\* No number beyond the helper's limit is handed out (the typing of SpawnFds).
THEOREM TypeCorrect == Spec => []TypeOK
<1>1. IInv => TypeOK
  BY DEF IInv
<1> QED
  BY <1>1, Invariance, PTL

\* graft_spawn_helper gives the helper its socket end and the shared file, each
\* under its number, and no copy of the host's end, whatever else the app has open.
THEOREM FilesRight == Spec => []ChildSeesItsFiles
<1>1. IInv => ChildSeesItsFiles
  BY DEF IInv, ChildSeesItsFiles, Placed, Where, SessionFiles, FileActions
<1> QED
  BY <1>1, Invariance, PTL

\* The helper's own checks of its arguments never fail.
THEOREM NumbersTaken == Spec => []HelperTakesNumbers
<1>1. IInv => HelperTakesNumbers
  BY DEF IInv, HelperTakesNumbers
<1> QED
  BY <1>1, Invariance, PTL
=============================================================================
