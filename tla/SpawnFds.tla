------------------------------- MODULE SpawnFds -------------------------------
(***************************************************************************)
(* How the helper gets its two descriptors.  graft_spawn_helper picks two  *)
(* numbers above every descriptor of the session, tells posix_spawn to     *)
(* duplicate the helper's socket end and the shared file onto them and to  *)
(* close the originals, and passes the numbers as arguments.  The actions  *)
(* run one after the other in the child, whose table starts as a copy of   *)
(* the host's; the helper then parses the numbers and maps the file.       *)
(* A wrong order, or a number already in use, would silently hand the      *)
(* helper the wrong file.                                                  *)
(***************************************************************************)
EXTENDS Naturals

CONSTANTS
  LastFd,       \* bound: the host's descriptors are 0..LastFd
  HostLimit,    \* 1022: the highest session descriptor the adapter takes
  HelperLimit,  \* 1024: the highest number the helper takes
  TableSizes    \* the descriptor limits the child may run under

\* The adapter hands out at most HostLimit + 2.
ASSUME LimitAssumption ==
  /\ LastFd \in Nat /\ HostLimit \in Nat /\ HelperLimit \in Nat /\ TableSizes \subseteq Nat
  /\ HostLimit + 2 <= HelperLimit

HostFds == 0..LastFd
ChildFds == 0..(LastFd + 2)
SessionFiles == {"parentEnd", "childEnd", "shared"}
Files == SessionFiles \cup {"closed", "other"}

VARIABLES
  host,    \* the host's descriptor table
  config,  \* graft_helper_launch_config: a descriptor for each session file
  args,    \* the numbers in argv
  table,   \* the child's descriptor table
  limit,   \* the child's descriptor limit
  pc       \* where the spawn is

vars == <<host, config, limit, args, table, pc>>

\* The five file actions, in the order they are added.
FileActions == {"dupSocket", "dupShared", "closeParent", "closeSocket", "closeShared"}
Stages == {"call", "add", "spawn"} \cup FileActions \cup
          {"exec", "mapped", "refused", "failed"}

\* helper_roundtrip calls with three open descriptors of its own; the app has
\* any others open.
Init ==
  /\ limit \in TableSizes
  /\ config \in [SessionFiles -> HostFds]
  /\ \A f, g \in SessionFiles : f # g => config[f] # config[g]
  /\ \A f \in SessionFiles : config[f] < limit
  /\ \E others \in SUBSET {fd \in HostFds : fd < limit} :
       host = [fd \in HostFds |->
                 IF \E f \in SessionFiles : config[f] = fd
                 THEN CHOOSE f \in SessionFiles : config[f] = fd
                 ELSE IF fd \in others THEN "other" ELSE "closed"]
  /\ args = [f \in {"childEnd", "shared"} |-> 0]
  /\ table = [fd \in ChildFds |-> "closed"]
  /\ pc = "call"

\* highest_fd
highest == CHOOSE fd \in {config[f] : f \in SessionFiles} :
             \A f \in SessionFiles : config[f] <= fd

\* The socket's number is taken next to the socket, not above everything.
BugNumbers == [childEnd |-> config["childEnd"] + 1, shared |-> highest + 2]
Numbers == [childEnd |-> highest + 1, shared |-> highest + 2]

BugTooHigh == highest > HostLimit + 1
TooHigh == highest > HostLimit

\* The check of the descriptors and the choice of the two numbers.
Call ==
  /\ pc = "call"
  /\ IF TooHigh THEN pc' = "failed" /\ UNCHANGED args
                ELSE pc' = "add" /\ args' = Numbers
  /\ UNCHANGED <<host, config, limit, table>>

\* Building the list of actions may run out of memory: nothing is spawned.
AddFails ==
  /\ pc = "add" /\ pc' = "failed"
  /\ UNCHANGED <<host, config, limit, args, table>>

Added ==
  /\ pc = "add" /\ pc' = "spawn"
  /\ UNCHANGED <<host, config, limit, args, table>>

\* The child starts with the host's descriptors.
Fork ==
  /\ pc = "spawn" /\ pc' = "dupSocket"
  /\ table' = [fd \in ChildFds |-> IF fd \in HostFds THEN host[fd] ELSE "closed"]
  /\ UNCHANGED <<host, config, limit, args>>

\* One dup2 in the child; beyond its limit the call fails and so does posix_spawn.
Dup(stage, file, next) ==
  /\ pc = stage
  /\ IF args[file] < limit
     THEN /\ table' = [table EXCEPT ![args[file]] = table[config[file]]]
          /\ pc' = next
     ELSE /\ pc' = "failed" /\ UNCHANGED table
  /\ UNCHANGED <<host, config, limit, args>>

Close(stage, file, next) ==
  /\ pc = stage /\ pc' = next
  /\ table' = [table EXCEPT ![config[file]] = "closed"]
  /\ UNCHANGED <<host, config, limit, args>>

RunActions ==
  \/ Dup("dupSocket", "childEnd", "dupShared")
  \/ Dup("dupShared", "shared", "closeParent")
  \/ Close("closeParent", "parentEnd", "closeSocket")
  \/ Close("closeSocket", "childEnd", "closeShared")
  \/ Close("closeShared", "shared", "exec")

\* No such executable, or no process to be had.
ExecFails ==
  /\ pc \in {"spawn", "exec"} /\ pc' = "failed"
  /\ UNCHANGED <<host, config, limit, args, table>>

\* The helper parses both numbers and maps the shared file: exit code 64 if one
\* is out of range or the mapping fails.
Start ==
  /\ pc = "exec"
  /\ pc' = IF /\ \A f \in {"childEnd", "shared"} : args[f] <= HelperLimit
              /\ table[args["shared"]] = "shared"
           THEN "mapped" ELSE "refused"
  /\ UNCHANGED <<host, config, limit, args, table>>

Next ==
  \/ Call \/ AddFails \/ Added \/ Fork \/ RunActions \/ ExecFails \/ Start

Spec == Init /\ [][Next]_vars

-----------------------------------------------------------------------------
\* Every variable keeps its type; no number above the helper's
\* limit is handed out.
TypeOK ==
  /\ config \in [SessionFiles -> HostFds]
  /\ host \in [HostFds -> Files]
  /\ args \in [{"childEnd", "shared"} -> 0..HelperLimit]
  /\ limit \in TableSizes
  /\ table \in [ChildFds -> Files]
  /\ pc \in Stages

\* The image that graft_spawn_helper starts reaches the right file by each number,
\* and by nothing but these numbers: above all it holds no copy of the host's
\* socket end, which would keep it from ever seeing end of file.
ChildSeesItsFiles ==
  pc \in {"exec", "mapped"} =>
    \A fd \in ChildFds :
      /\ table[fd] = "childEnd" <=> fd = args["childEnd"]
      /\ table[fd] = "shared" <=> fd = args["shared"]
      /\ table[fd] # "parentEnd"

\* The helper never turns down what the adapter passed: the adapter's limit (1022)
\* and the helper's (1024) agree, and no file action disturbs the shared file.
HelperTakesNumbers == pc # "refused"
=============================================================================
