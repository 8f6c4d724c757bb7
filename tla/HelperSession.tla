---------------------------- MODULE HelperSession ----------------------------
(***************************************************************************)
(* One probe of GraftHost launches the bundled helper executable, talks to *)
(* it over a Unix socket pair and a shared mapping, and turns what it saw  *)
(* into PASS, FAIL or SKIP.  The module has three actors:                  *)
(*   - the host: helper_roundtrip with its deadline-bounded socket I/O,    *)
(*     one pc value per place where another actor may get in between;      *)
(*   - the helper: the request loop of probes/helper/main.c;               *)
(*   - the kernel: the clock, signals, SIGKILL delivery, process deaths.   *)
(* A message is sent and received whole (24 bytes on a stream socket whose *)
(* buffers hold many of them); a header and the payload behind it are two  *)
(* messages, because the helper writes them in two calls.                  *)
(*                                                                         *)
(* Definitions whose name starts with Bug are not part of the model: each  *)
(* is a plausible mistake in the definition after it, and the property     *)
(* named in PROJECT.json fails with it.                                    *)
(***************************************************************************)
EXTENDS Naturals, Sequences, FiniteSets

CONSTANTS
  Paths,       \* what graft_configure_helper may have been given
  MaxSessions  \* bound: sessions of one host

AllPaths == {"unset",    \* never configured: g_helper_path is empty
             "missing",  \* configured, but posix_spawn cannot run it
             "graft",    \* the bundled helper
             "foreign"}  \* a helper of another version: see ForeignReplies

ASSUME PathsAssumption == Paths \subseteq AllPaths
ASSUME MaxSessionsAssumption == MaxSessions \in Nat

Modes == {"spawn", "shared", "ipc"}

\* The request ids each mode sends, in order; id 5 is SHUTDOWN, id 1 is HELLO.
Requests(m) == CASE m = "spawn"  -> <<1, 5>>
                 [] m = "shared" -> <<1, 3, 5>>
                 [] m = "ipc"    -> <<1, 2, 3, 4, 5>>
Ids == 1..5
WrongId == 0

Sizes == {"none", "hello", "odd"}   \* payload_size: 0, sizeof(hello), any other
Header(id, size, valid) ==
  [part |-> "header", id |-> id, size |-> size, valid |-> valid]
\* valid: pid, page size and nonce are all there.
Payload(valid) ==
  [part |-> "payload", id |-> WrongId, size |-> "none", valid |-> valid]
Replies == [part : {"header", "payload"}, id : Ids \cup {WrongId},
            size : Sizes, valid : BOOLEAN]

VARIABLES
  path,       \* g_helper_path
  session,    \* number of sessions begun
  host,       \* where helper_roundtrip is
  mode,       \* its argument
  sent,       \* requests written in this session
  ok,         \* the local of that name
  hello,      \* the local hello holds a pid, a page size and a nonce
  sharedOk,   \* the local shared_ok
  held,       \* what the host owns: descriptors and the mapping
  clock,      \* the session's 10 s deadline
  verdict,    \* what the probe returned
  child,      \* the helper process
  req,        \* the request the helper works on
  status,     \* how the helper left; "lost": somebody else collected it
  beat,       \* shared->heartbeat; the helper's marks are there iff it is > 0
  toHelper, toHost,   \* the two directions of the socket pair
  served,     \* requests the helper has taken from the socket (history)
  fault       \* something outside the two programs went wrong (history)

callVars   == <<path, session, mode>>
localVars  == <<ok, hello, sharedOk, verdict>>
helperVars == <<child, req, beat, served, status>>
netVars    == <<toHelper, toHost>>
vars == <<callVars, host, sent, localVars, held, clock, helperVars, netVars, fault>>

Setup == {"socketpair", "mkstemp", "ftruncate", "mmap", "spawn"}
Exchange == {"pollout", "write", "readheader", "readpayload"}
Ended == {"idle", "done"}
Gone == {"sigpipe", "killed"}     \* the host process is no more
HostStates == Setup \cup Exchange \cup Ended \cup
              {"inspect", "reap", "pause", "kill", "killwait"} \cup Gone
Alive == {"start", "read", "header", "payload", "exit", "dying"}
Resources == {"sock0", "sock1", "shmfd", "map"}

\* The action that closes the host's end in the child is forgotten.
BugChildKeeps == {"sock0", "sock1", "shmfd"}

\* Every descriptor the forked image keeps once the spawn file actions have run:
\* the host's socket end is closed in it.
ChildKeeps == {"sock1", "shmfd"}

childAlive == child \in Alive
\* A descriptor of the host's socket end is open somewhere: otherwise the
\* helper's read meets end of file.
hostEndOpen == "sock0" \in held \/ (childAlive /\ "sock0" \in ChildKeeps)
\* Likewise for the helper's end.
childEndOpen == "sock1" \in held \/ (childAlive /\ "sock1" \in ChildKeeps)

quota == Len(Requests(mode))
request == Requests(mode)[sent]    \* the request in flight

-----------------------------------------------------------------------------
(* The host: setting the session up.                                        *)

Init ==
  /\ path \in Paths
  /\ session = 0 /\ host = "idle" /\ mode = "spawn" /\ sent = 0
  /\ ok = TRUE /\ hello = FALSE /\ sharedOk = FALSE
  /\ held = {} /\ clock = "unset" /\ verdict = "none"
  /\ child = "none" /\ req = WrongId /\ status = "none" /\ beat = 0
  /\ toHelper = <<>> /\ toHost = <<>>
  /\ served = 0 /\ fault = FALSE

\* graft_run_probe calls shared_mapping, helper_spawn_probe or helper_ipc_probe.
\* An unconfigured path is a SKIP before anything is allocated.
Begin(m) ==
  /\ host \in Ended /\ session < MaxSessions
  /\ session' = session + 1
  /\ mode' = m
  /\ sent' = 0 /\ ok' = TRUE /\ hello' = FALSE /\ sharedOk' = FALSE
  /\ clock' = "unset" /\ req' = WrongId /\ status' = "none"
  /\ beat' = 0 /\ toHelper' = <<>> /\ toHost' = <<>>
  /\ served' = 0 /\ fault' = FALSE
  /\ IF path = "unset" THEN host' = "done" /\ verdict' = "SKIP"
                       ELSE host' = "socketpair" /\ verdict' = "none"
  /\ UNCHANGED <<path, held, child>>

\* What a setup stage gains, and the stage after it.
Gains(stage) == CASE stage = "socketpair" -> {"sock0", "sock1"}
                  [] stage = "mkstemp"    -> {"shmfd"}
                  [] stage = "ftruncate"  -> {}
                  [] stage = "mmap"       -> {"map"}
After(stage) == CASE stage = "socketpair" -> "mkstemp"
                  [] stage = "mkstemp"    -> "ftruncate"
                  [] stage = "ftruncate"  -> "mmap"
                  [] stage = "mmap"       -> "spawn"

\* The mapping's error path forgets the file it could not map.
BugClosedOnFailure(stage) ==
  CASE stage = "socketpair" -> {}
    [] stage = "spawn"      -> {"sock1", "map", "shmfd", "sock0"}
    [] OTHER                -> {"sock0", "sock1"}

\* What the error path of each stage closes or unmaps before it returns.
ClosedOnFailure(stage) ==
  CASE stage = "socketpair" -> {}
    [] stage = "mkstemp"    -> {"sock0", "sock1"}
    [] stage = "ftruncate"  -> {"shmfd", "sock0", "sock1"}
    [] stage = "mmap"       -> {"shmfd", "sock0", "sock1"}
    [] stage = "spawn"      -> {"sock1", "map", "shmfd", "sock0"}

Acquire(stage) ==
  /\ host = stage
  /\ held' = held \cup Gains(stage)
  /\ host' = After(stage)
  /\ UNCHANGED <<callVars, sent, localVars, clock, helperVars, netVars, fault>>

SetupFails(stage) ==
  /\ host = stage
  /\ held' = held \ ClosedOnFailure(stage)
  /\ host' = "done" /\ verdict' = "FAIL" /\ fault' = TRUE
  /\ UNCHANGED <<callVars, sent, ok, hello, sharedOk, clock, helperVars, netVars>>

\* graft_spawn_helper succeeded: the host closes its copy of the helper's end,
\* then starts the one deadline all later I/O and the reaping share.
Spawn ==
  /\ host = "spawn" /\ path # "missing"
  /\ held' = held \ {"sock1"}
  /\ child' = "start" /\ clock' = "running"
  /\ sent' = 1 /\ host' = "pollout"
  /\ UNCHANGED <<callVars, localVars, req, beat, served, status, netVars, fault>>

-----------------------------------------------------------------------------
(* The host: one request and its reply at a time.                           *)

\* Leaving the exchange early: ok = 0; break.
Break == /\ ok' = FALSE /\ host' = "inspect"
         /\ UNCHANGED <<callVars, sent, hello, sharedOk, verdict, held, clock,
                        helperVars, toHelper>>

Polling == host \in {"pollout", "readheader", "readpayload"}

\* wait_fd_deadline in write_full_deadline finds the socket writable.
PollOut ==
  /\ host = "pollout" /\ clock = "running" /\ childEndOpen
  /\ host' = "write"
  /\ UNCHANGED <<callVars, sent, localVars, held, clock, helperVars, netVars, fault>>

\* The write that follows.  The helper may have died since the poll: the kernel
\* then raises SIGPIPE, whose default action ends the whole host and closes what
\* it owns.
Write ==
  /\ host = "write"
  /\ IF childEndOpen
     THEN /\ toHelper' = Append(toHelper, request)
          /\ host' = "readheader"
          /\ UNCHANGED held
     ELSE /\ host' = "sigpipe" /\ held' = {}
          /\ UNCHANGED toHelper
  /\ UNCHANGED <<callVars, sent, localVars, clock, helperVars, toHost, fault>>

\* The loop runs once too often.
BugAdvance == IF sent <= quota THEN sent' = sent + 1 /\ host' = "pollout"
                               ELSE UNCHANGED sent /\ host' = "inspect"

\* The next iteration of the request loop, or its end.
Advance == IF sent < quota THEN sent' = sent + 1 /\ host' = "pollout"
                           ELSE UNCHANGED sent /\ host' = "inspect"

\* The payload behind a HELLO is left in the socket.
BugAnnouncesPayload(h) == h.size = "odd"
AnnouncesPayload(h) == h.size # "none"
AcceptsHeader(h) == h.valid /\ h.id = request /\ h.size # "odd"

\* A response header is read: it is validated, its request id compared, and a
\* payload of the size of the hello read behind it.
ReadHeader ==
  /\ host = "readheader" /\ clock = "running" /\ toHost # <<>>
  /\ LET h == Head(toHost)
     IN  IF ~AcceptsHeader(h) THEN Break
         ELSE IF AnnouncesPayload(h)
              THEN host' = "readpayload" /\ UNCHANGED <<sent, ok>>
              ELSE Advance /\ UNCHANGED ok
  /\ toHost' = Tail(toHost)
  /\ UNCHANGED <<callVars, hello, sharedOk, verdict, held, clock, helperVars,
                 toHelper, fault>>

ReadPayload ==
  /\ host = "readpayload" /\ clock = "running" /\ toHost # <<>>
  /\ toHost' = Tail(toHost) /\ hello' = Head(toHost).valid
  /\ Advance
  /\ UNCHANGED <<callVars, ok, sharedOk, verdict, held, clock, helperVars, toHelper,
                 fault>>

\* Only writes are bounded by the deadline.
BugExchangeTimesOut ==
  /\ host = "pollout" /\ clock = "expired"
  /\ Break /\ UNCHANGED <<toHost, fault>>

\* wait_fd_deadline reports ETIMEDOUT.
ExchangeTimesOut ==
  /\ Polling /\ clock = "expired"
  /\ Break /\ UNCHANGED <<toHost, fault>>

\* wait_fd_deadline reports EPIPE for a hang-up with nothing to read; so does
\* read_full_deadline at end of file.
PeerGone ==
  /\ Polling /\ clock = "running" /\ ~childEndOpen
  /\ host = "pollout" \/ toHost = <<>>
  /\ Break /\ UNCHANGED <<toHost, fault>>

\* poll returns -1 because a signal handler ran: wait_fd_deadline does not
\* retry, and the exchange ends as if the peer had gone.
PollInterrupted ==
  /\ Polling /\ clock = "running"
  /\ Break /\ fault' = TRUE /\ UNCHANGED toHost

-----------------------------------------------------------------------------
(* The host: looking at the shared page, reaping, judging.                  *)

\* The heartbeat is compared with > instead of >=.
BugMarked == beat > quota
Marked == beat >= quota

\* shared_ok is computed, then the mapping and both descriptors are given up.
Inspect ==
  /\ host = "inspect"
  /\ sharedOk' = Marked
  /\ held' = held \ {"map", "shmfd", "sock0"}
  /\ host' = "reap"
  /\ UNCHANGED <<callVars, sent, ok, hello, verdict, clock, helperVars, netVars,
                 fault>>

\* Any exit counts as a good one.
BugExitedOk(waited) == waited
ExitedOk(waited) == waited /\ status = "clean"
Judge(waited) == IF /\ ok /\ ExitedOk(waited) /\ hello
                    /\ mode = "spawn" \/ sharedOk
                 THEN "PASS" ELSE "FAIL"

\* waitpid(WNOHANG) returns the helper.
Reap ==
  /\ host = "reap" /\ child = "zombie"
  /\ child' = "none"
  /\ verdict' = Judge(TRUE) /\ host' = "done"
  /\ UNCHANGED <<callVars, sent, ok, hello, sharedOk, held, clock, req, beat, served,
                 status, netVars, fault>>

\* It returns -1 (ECHILD: the helper is not there to be waited for any more): the
\* loop is left with wait_ok 0, for the kill, without a look at the clock.
WaitFails ==
  /\ host = "reap" /\ child = "none"
  /\ host' = "kill"
  /\ UNCHANGED <<callVars, sent, localVars, held, clock, helperVars, netVars, fault>>

\* It returns 0: the host sleeps 10 ms, then looks at the clock.
NotYet ==
  /\ host = "reap" /\ childAlive
  /\ host' = "pause"
  /\ UNCHANGED <<callVars, sent, localVars, held, clock, helperVars, netVars, fault>>

\* The deadline is not looked at: a helper that is slow to exit is killed.
BugResume ==
  /\ host = "pause" /\ host' = "kill"
  /\ UNCHANGED <<callVars, sent, localVars, held, clock, helperVars, netVars, fault>>

Resume ==
  /\ host = "pause"
  /\ host' = IF clock = "expired" THEN "kill" ELSE "reap"
  /\ UNCHANGED <<callVars, sent, localVars, held, clock, helperVars, netVars, fault>>

\* kill(pid, SIGKILL) marks the process; it dies when the kernel gets to it.  With
\* no helper left the pid is nobody's, or by now another process's.
Kill ==
  /\ host = "kill"
  /\ child' = IF childAlive THEN "dying" ELSE child
  /\ host' = "killwait"
  /\ UNCHANGED <<callVars, sent, localVars, held, clock, req, beat, served, status,
                 netVars, fault>>

\* The waitpid after the kill does not block.
BugReapKilled ==
  /\ host = "killwait"
  /\ child' = IF child = "zombie" THEN "none" ELSE child
  /\ verdict' = Judge(FALSE) /\ host' = "done"
  /\ UNCHANGED <<callVars, sent, ok, hello, sharedOk, held, clock, req, beat, served,
                 status, netVars, fault>>

\* The blocking waitpid after the kill returns the helper, or that there is none;
\* wait_ok stays 0.
ReapKilled ==
  /\ host = "killwait" /\ child \in {"zombie", "none"}
  /\ child' = "none"
  /\ verdict' = Judge(FALSE) /\ host' = "done"
  /\ UNCHANGED <<callVars, sent, ok, hello, sharedOk, held, clock, req, beat, served,
                 status, netVars, fault>>

-----------------------------------------------------------------------------
(* The helper.                                                              *)

Leave(s) == child' = "zombie" /\ status' = s

\* The arguments are parsed and the shared file mapped.
HelperStart ==
  /\ child = "start" /\ path = "graft"
  /\ child' = "read"
  /\ UNCHANGED <<callVars, host, sent, localVars, held, clock, req, beat, served,
                 status, netVars, fault>>

\* mmap fails in the helper: exit code 64.
HelperMapFails ==
  /\ child = "start" /\ path = "graft"
  /\ Leave("other") /\ fault' = TRUE
  /\ UNCHANGED <<callVars, host, sent, localVars, held, clock, req, beat, served,
                 netVars>>

\* A request is read and the shared page marked, before any of the reply.
HelperHandles ==
  /\ child = "read" /\ path = "graft" /\ toHelper # <<>>
  /\ req' = Head(toHelper) /\ toHelper' = Tail(toHelper)
  /\ served' = served + 1 /\ beat' = beat + 1
  /\ child' = "header"
  /\ UNCHANGED <<callVars, host, sent, localVars, held, clock, status, toHost, fault>>

\* read returns 0: exit code 65.
HelperEof ==
  /\ child = "read" /\ path = "graft" /\ toHelper = <<>> /\ ~hostEndOpen
  /\ Leave("other")
  /\ UNCHANGED <<callVars, host, sent, localVars, held, clock, req, beat, served,
                 netVars, fault>>

AfterHeader(id) == CASE id = 1 -> "payload" [] id = 5 -> "exit"
                     [] OTHER -> "read"

\* The reply header is written; only a HELLO announces a payload, and a
\* SHUTDOWN leaves the loop once it is answered.
HelperRepliesHeader ==
  /\ child = "header" /\ path = "graft" /\ hostEndOpen
  /\ toHost' = Append(toHost, Header(req, IF req = 1 THEN "hello" ELSE "none",
                                     TRUE))
  /\ child' = AfterHeader(req)
  /\ UNCHANGED <<callVars, host, sent, localVars, held, clock, req, beat, served,
                 status, toHelper, fault>>

\* (Another executable may send any 24 bytes.)
HelperRepliesPayload ==
  /\ child = "payload" /\ hostEndOpen
  /\ \E valid \in BOOLEAN :
        /\ path = "graft" => valid
        /\ toHost' = Append(toHost, Payload(valid))
  /\ child' = "read"
  /\ UNCHANGED <<callVars, host, sent, localVars, held, clock, req, beat, served,
                 status, toHelper, fault>>

\* The host's end is gone when the helper answers: exit code 67 or 68, or SIGPIPE.
HelperReplyFails ==
  /\ child \in {"header", "payload"} /\ ~hostEndOpen
  /\ Leave("other")
  /\ UNCHANGED <<callVars, host, sent, localVars, held, clock, req, beat, served,
                 netVars, fault>>

HelperExits ==
  /\ child = "exit"
  /\ Leave("clean")
  /\ UNCHANGED <<callVars, host, sent, localVars, held, clock, req, beat, served,
                 netVars, fault>>

\* A helper of another version at the configured path: it takes the requests one by
\* one and answers each with one header of any content, whose payload follows if it
\* announces one; it does not know the shared page and may exit whenever it likes.
\* (An executable that sends more than it is asked for is not modelled.)
ForeignReplies(size) ==
  /\ path = "foreign" /\ child \in {"start", "read"}
  /\ toHelper # <<>> /\ hostEndOpen
  /\ toHelper' = Tail(toHelper) /\ served' = served + 1
  /\ \E id \in {Head(toHelper), WrongId}, valid \in BOOLEAN :
        toHost' = Append(toHost, Header(id, size, valid))
  /\ child' = IF size = "hello" THEN "payload" ELSE "read"
  /\ fault' = TRUE
  /\ UNCHANGED <<callVars, host, sent, localVars, held, clock, req, beat, status>>

ForeignExits(s) ==
  /\ path = "foreign" /\ childAlive /\ child # "dying"
  /\ Leave(s) /\ fault' = TRUE
  /\ UNCHANGED <<callVars, host, sent, localVars, held, clock, req, beat, served,
                 netVars>>

-----------------------------------------------------------------------------
(* The kernel.                                                              *)

\* Ten seconds have passed since the spawn.
DeadlinePasses ==
  /\ clock = "running" /\ host \notin Ended \cup Gone
  /\ clock' = "expired" /\ fault' = TRUE
  /\ UNCHANGED <<callVars, host, sent, localVars, held, helperVars, netVars>>

\* The system ends the helper at any time.
HelperCrashes ==
  /\ childAlive /\ child # "dying"
  /\ Leave("other") /\ fault' = TRUE
  /\ UNCHANGED <<callVars, host, sent, localVars, held, clock, req, beat, served,
                 netVars>>

\* Somebody else in the app's process collects the dead helper: another library's
\* wait for any child, or the kernel, when SIGCHLD was ignored.  Its exit status is
\* lost to helper_roundtrip.
HelperTaken ==
  /\ child = "zombie" /\ host \notin Ended \cup Gone
  /\ child' = "none" /\ status' = "lost" /\ fault' = TRUE
  /\ UNCHANGED <<callVars, host, sent, localVars, held, clock, req, beat, served,
                 netVars>>

SigkillDelivered ==
  /\ child = "dying"
  /\ Leave("other")
  /\ UNCHANGED <<callVars, host, sent, localVars, held, clock, req, beat, served,
                 netVars, fault>>

\* The app is closed, or the system ends it, in the middle of a session: its
\* descriptors are closed, the helper is left alone with its own.
HostKilled ==
  /\ host \notin Ended \cup Gone
  /\ host' = "killed" /\ held' = {}
  /\ UNCHANGED <<callVars, sent, localVars, clock, helperVars, netVars, fault>>

HostStep ==
  \/ \E m \in Modes : Begin(m)
  \/ \E s \in Setup \ {"spawn"} : Acquire(s)
  \/ \E s \in Setup : SetupFails(s)
  \/ Spawn
  \/ PollOut \/ Write \/ ReadHeader \/ ReadPayload
  \/ ExchangeTimesOut \/ PeerGone \/ PollInterrupted
  \/ Inspect \/ Reap \/ WaitFails \/ NotYet \/ Resume \/ Kill \/ ReapKilled

HelperStep ==
  \/ HelperStart \/ HelperMapFails \/ HelperHandles \/ HelperEof
  \/ HelperRepliesHeader \/ HelperRepliesPayload \/ HelperReplyFails
  \/ HelperExits
  \/ \E size \in Sizes : ForeignReplies(size)
  \/ \E s \in {"clean", "other"} : ForeignExits(s)

KernelStep ==
  \/ DeadlinePasses \/ HelperCrashes \/ HelperTaken \/ SigkillDelivered \/ HostKilled

Next == HostStep \/ HelperStep \/ KernelStep

\* The host runs on, time passes and SIGKILL takes effect.  Nothing is assumed
\* of the helper: it may be suspended for ever.  Setup has both outcomes of each
\* system call, so its fairness is of the union.
HostProgress ==
  \/ \E s \in Setup \ {"spawn"} : Acquire(s)
  \/ \E s \in Setup : SetupFails(s)
  \/ Spawn
  \/ PollOut \/ Write \/ ReadHeader \/ ReadPayload
  \/ ExchangeTimesOut \/ PeerGone
  \/ Inspect \/ Reap \/ WaitFails \/ NotYet \/ Resume \/ Kill \/ ReapKilled

Fairness == /\ WF_vars(HostProgress)
            /\ WF_vars(DeadlinePasses)
            /\ WF_vars(SigkillDelivered)

\* The bundled helper gets processor time too: only OrphanLeaves assumes it.
HelperFairness == WF_vars(HelperStart \/ HelperHandles \/ HelperEof \/
                          HelperRepliesHeader \/ HelperRepliesPayload \/
                          HelperReplyFails \/ HelperExits)

Spec == Init /\ [][Next]_vars
FairSpec == Spec /\ Fairness

-----------------------------------------------------------------------------
(* Properties.                                                              *)

\* Every variable keeps its type, and the counters stay within the requests of
\* the session's mode (the arrays of helper_roundtrip hold no more).
TypeOK ==
  /\ path \in Paths /\ session \in 0..MaxSessions
  /\ host \in HostStates /\ mode \in Modes
  /\ sent \in 0..quota /\ served \in 0..quota /\ beat \in 0..quota
  /\ ok \in BOOLEAN /\ hello \in BOOLEAN /\ sharedOk \in BOOLEAN
  /\ held \in SUBSET Resources
  /\ clock \in {"unset", "running", "expired"}
  /\ verdict \in {"none", "PASS", "FAIL", "SKIP"}
  /\ child \in Alive \cup {"none", "zombie"}
  /\ req \in Ids \cup {WrongId}
  /\ status \in {"none", "clean", "other", "lost"}
  /\ toHelper \in Seq(Ids) /\ toHost \in Seq(Replies)
  /\ fault \in BOOLEAN

\* A PASS is earned: the helper took every request of the mode and left by
\* itself with exit code 0, and in the modes that share memory it marked the
\* page once per request (the result of helper_roundtrip).
PassIsEarned ==
  verdict = "PASS" => /\ served = quota /\ status = "clean"
                      /\ mode # "spawn" => beat = quota

\* helper_roundtrip blames the helper only when something went wrong outside the
\* two programs: with the bundled helper, no crash, no interrupted poll and no
\* expired deadline the result is PASS in whatever order the two processes run.
FailHasCause == verdict = "FAIL" => fault

\* Whatever way helper_roundtrip returns, it has closed its descriptors,
\* unmapped the page and reaped the helper: no leak and no zombie is carried
\* into the next probe.
NothingLeftBehind == host \in Ended => held = {} /\ child = "none"

\* A helper that is still there, running or unreaped, is sent SIGKILL only past the
\* deadline; the signal of helper_roundtrip goes to a pid that is no longer its child
\* (nobody's, or another process's) only when somebody else collected the helper.
KillHitsOwnChild ==
  host = "kill" => IF child = "none" THEN status = "lost" ELSE clock = "expired"

\* Request and reply alternate: whenever helper_roundtrip is about to write a
\* request the helper has taken all earlier ones and both directions are empty, so
\* a late reply or payload is never matched with a later request.
Lockstep ==
  host \in {"pollout", "write"} =>
    served = sent - 1 /\ toHelper = <<>> /\ toHost = <<>>

\* Every probe that starts a session gets its verdict, whatever the helper does
\* or stops doing, unless the host itself is gone.
VerdictReached == host \in Setup ~> host \in {"done"} \cup Gone

\* When the app is closed in the middle of a session the bundled helper, as long as it
\* is scheduled, ends by itself: it drains its socket, meets end of file and exits.
OrphanLeaves == HelperFairness => (path = "graft" /\ host = "killed" ~> ~childAlive)

\* The session implements the abstract promise.
Abs == INSTANCE HelperVerdict WITH
         MaxQuota <- 5,
         phase  <- IF host = "idle" THEN "idle"
                   ELSE IF host = "done" THEN "reported"
                   ELSE IF host \in Gone THEN "dead" ELSE "running",
         quota  <- quota,
         served <- served,
         helper <- IF childAlive THEN "alive"
                   ELSE IF child = "zombie" THEN status
                   ELSE IF status = "lost" /\ host \notin Ended THEN "other"
                   ELSE "none",
         report <- verdict

\* helper_roundtrip, its helper and the kernel together do what HelperVerdict
\* promises: every step is one of its steps or hidden by it, and a probe that
\* runs ends.
ImplementsVerdict == Abs!Spec

\* The host survives its helper: a helper that dies costs the probe a FAIL, it
\* does not end the app (helper tests must reach a definite PASS or FAIL).
HostSurvives == host # "sigpipe"
=============================================================================
