----------------------------- MODULE SignalResume -----------------------------
(***************************************************************************)
(* The probe signal_resume of graft_probe.c: handlers for SIGSEGV and      *)
(* SIGBUS are installed for the whole process, the main thread and then a  *)
(* worker each provoke one fault of either kind on a signal stack of their *)
(* own, and the handler moves the thread on to the label "recovered".      *)
(*                                                                         *)
(* What the handler leaves behind for its thread is thread local and, on   *)
(* the main thread, survives from one run of the probe to the next.  The   *)
(* kernel decides which system calls fail and which signal an access       *)
(* raises; a page of an empty file may even be read without one.           *)
(***************************************************************************)
EXTENDS Naturals, FiniteSets

Threads == {"main", "worker"}
Signals == {"SIGSEGV", "SIGBUS"}

\* What the probe may return; ENOMEM stands for every errno of a failed call other
\* than a denied one: mmap, mkstemp, sigaltstack, pthread_create, a name too long.
SignalErrors == {"ENOMEM", "EACCES", "EFAULT", "EINVAL"}

VARIABLES
  at,        \* where each thread is
  leg,       \* the expected_signal of each thread's signal_resume_once
  handler,   \* whose handler is installed: that of "before" or "graft"
  saved,     \* old_action and old_bus: the handlers of before this run
  stacks,    \* threads whose signal stack is mapped
  alternate, \* threads whose sigaltstack is that stack
  resumable, \* threads whose g_recovery_pc is set
  seen,      \* g_fault_seen
  signal,    \* g_fault_signal
  result,    \* signal_worker_result.result
  pages,     \* threads whose page of the empty file is mapped
  rc,        \* what the probe returned last, "none" while it runs
  taken,     \* faults recovered in this run: thread, leg, signal (history)
  refused,   \* handlers that sigaction declined to put back (history)
  crashed    \* a fault has ended the app

tlsVars    == <<resumable, seen, signal>>
memVars    == <<stacks, alternate, pages>>
signalVars == <<at, leg, handler, saved, memVars, tlsVars, result, rc, taken,
                refused, crashed>>

Places == {"off", "install", "installBus", "stack", "alternate", "file", "touch",
           "recovered", "create", "join", "restore", "ended"}

SignalInit ==
  /\ at = [t \in Threads |-> "off"] /\ leg = [t \in Threads |-> "SIGSEGV"]
  /\ handler = [s \in Signals |-> "before"] /\ saved = handler
  /\ stacks = {} /\ alternate = {} /\ pages = {}
  /\ resumable = {} /\ seen = {} /\ signal = [t \in Threads |-> "none"]
  /\ result = [t \in Threads |-> "0"]
  /\ rc = "none" /\ taken = {} /\ refused = {} /\ crashed = FALSE

Go(t, place) == at' = [at EXCEPT ![t] = place]

-----------------------------------------------------------------------------
(* The handlers. *)

StartSignal ==
  /\ at["main"] = "off" /\ ~crashed
  /\ Go("main", "install")
  /\ leg' = [t \in Threads |-> "SIGSEGV"]
  /\ result' = [main |-> "0", worker |-> "EFAULT"]
  /\ saved' = handler
  /\ rc' = "none" /\ taken' = {} /\ pages' = {} /\ refused' = {}
  /\ UNCHANGED <<handler, stacks, alternate, tlsVars, crashed>>

\* The locals are gone when the probe has returned; handlers and the main thread's
\* thread-local variables stay.
EndSignal ==
  /\ at["main"] = "off" /\ rc # "none"
  /\ at' = [t \in Threads |-> "off"] /\ leg' = [t \in Threads |-> "SIGSEGV"]
  /\ saved' = handler /\ result' = [t \in Threads |-> "0"]
  /\ rc' = "none" /\ taken' = {} /\ pages' = {} /\ refused' = {}
  /\ UNCHANGED <<handler, stacks, alternate, tlsVars, crashed>>

SignalReturns(code) == Go("main", "off") /\ rc' = code

InstallSegv ==
  /\ at["main"] = "install"
  /\ \/ /\ handler' = [handler EXCEPT !["SIGSEGV"] = "graft"]
        /\ Go("main", "installBus") /\ UNCHANGED rc
     \/ SignalReturns("EINVAL") /\ UNCHANGED handler
  /\ UNCHANGED <<leg, saved, memVars, tlsVars, result, taken, refused, crashed>>

\* The handlers that are put back when the second of them cannot be installed.
BugPutBackEarly == {}
PutBackEarly == {"SIGSEGV"}

\* sigaction puts back what was there before, unless it declines.
PutBack(which) ==
  \E declined \in SUBSET which :
    /\ handler' = [s \in Signals |-> IF s \in which \ declined THEN saved[s] ELSE handler[s]]
    /\ refused' = declined

InstallBus ==
  /\ at["main"] = "installBus"
  /\ \/ /\ handler' = [handler EXCEPT !["SIGBUS"] = "graft"]
        /\ Go("main", "stack") /\ UNCHANGED <<rc, refused>>
     \/ PutBack(PutBackEarly) /\ SignalReturns("EINVAL")
  /\ UNCHANGED <<leg, saved, memVars, tlsVars, result, taken, crashed>>

-----------------------------------------------------------------------------
(* signal_resume_once, and what its two callers do with its result. *)

\* The first error of the two legs is kept.  The flags segv and bus, set from
\* g_fault_signal, are only shown: without an error both are true.
LeaveOnce(t, code) ==
  /\ result' = [result EXCEPT ![t] = IF leg[t] = "SIGSEGV" \/ result[t] = "0"
                                     THEN code ELSE result[t]]
  /\ leg' = [leg EXCEPT ![t] = "SIGBUS"]
  /\ Go(t, IF leg[t] = "SIGSEGV" THEN "stack" ELSE IF t = "main" THEN "create" ELSE "ended")

MapStack(t) ==
  /\ at[t] = "stack"
  /\ \/ Go(t, "alternate") /\ stacks' = stacks \cup {t} /\ UNCHANGED <<leg, result>>
     \/ LeaveOnce(t, "ENOMEM") /\ UNCHANGED stacks
  /\ UNCHANGED <<handler, saved, alternate, pages, tlsVars, rc, taken, refused, crashed>>

\* The thread's record of the last fault is cleared before the next one.
Cleared(t) == seen' = seen \ {t} /\ signal' = [signal EXCEPT ![t] = "none"]

SetAlternate(t) ==
  /\ at[t] = "alternate"
  /\ \/ /\ Go(t, IF leg[t] = "SIGBUS" THEN "file" ELSE "touch")
        /\ alternate' = alternate \cup {t} /\ resumable' = resumable \cup {t}
        /\ Cleared(t)
        /\ UNCHANGED <<leg, result, stacks>>
     \/ /\ LeaveOnce(t, "ENOMEM") /\ stacks' = stacks \ {t}
        /\ UNCHANGED <<alternate, tlsVars>>
  /\ UNCHANGED <<handler, saved, pages, rc, taken, refused, crashed>>

\* The label cleanup: the earlier sigaltstack, and the stack unmapped.  The code ignores
\* what these two calls return; with the arguments it gives them, a stack that is not in
\* use and a mapping of its own, they are assumed to succeed.
Cleanup(t) == alternate' = alternate \ {t} /\ stacks' = stacks \ {t}

\* The empty file: its name, mkstemp, unlink, mmap, close.
MapFile(t) ==
  /\ at[t] = "file"
  /\ \/ /\ pages' = pages \cup {t} /\ Go(t, "touch")
        /\ UNCHANGED <<stacks, alternate, leg, result>>
     \/ \E e \in {"ENOMEM", "EACCES"} :
          LeaveOnce(t, e) /\ Cleanup(t) /\ UNCHANGED pages
  /\ UNCHANGED <<handler, saved, tlsVars, rc, taken, refused, crashed>>

\* The handler runs on the alternate stack of its thread, which must still be mapped,
\* and sends the thread to the recovery point.
HandlerRuns(t, s) ==
  /\ handler[s] = "graft" /\ t \in resumable
  /\ t \in alternate => t \in stacks

Fault(t, s) ==
  /\ at[t] = "touch"
  /\ IF HandlerRuns(t, s)
     THEN /\ seen' = seen \cup {t} /\ signal' = [signal EXCEPT ![t] = s]
          /\ taken' = taken \cup {<<t, leg[t], s>>}
          /\ Go(t, "recovered") /\ UNCHANGED crashed
     ELSE crashed' = TRUE /\ UNCHANGED <<at, seen, signal, taken>>
  /\ UNCHANGED <<leg, handler, saved, memVars, resumable, result, rc, refused>>

\* The page of the file is read after all, and unmapped.
NoFault(t) ==
  /\ at[t] = "touch" /\ leg[t] = "SIGBUS"
  /\ pages' = pages \ {t} /\ Go(t, "recovered")
  /\ UNCHANGED <<leg, handler, saved, stacks, alternate, tlsVars, result, rc, taken,
                 refused, crashed>>

\* A fault of the kind that was provoked, and no other, counts.
BugAsExpected(t) == t \in seen
AsExpected(t) == t \in seen /\ signal[t] = leg[t]

Recovered(t) ==
  /\ at[t] = "recovered"
  /\ LeaveOnce(t, IF AsExpected(t) THEN "0" ELSE "EFAULT")
  /\ Cleanup(t)
  /\ UNCHANGED <<handler, saved, pages, tlsVars, rc, taken, refused, crashed>>

-----------------------------------------------------------------------------
(* The worker, and the end. *)

CreateWorker ==
  /\ at["main"] = "create"
  /\ \/ /\ at' = [main |-> "join", worker |-> "stack"]
        /\ UNCHANGED result
     \/ Go("main", "restore") /\ result' = [result EXCEPT !["worker"] = "ENOMEM"]
  /\ UNCHANGED <<leg, handler, saved, memVars, tlsVars, rc, taken, refused, crashed>>

\* The handlers go back without waiting for the worker.
BugWorkerEnded == TRUE
WorkerEnded == at["worker"] = "ended"

\* With the thread its thread-local variables go.
JoinWorker ==
  /\ at["main"] = "join" /\ WorkerEnded
  /\ Go("main", "restore")
  /\ resumable' = resumable \ {"worker"} /\ seen' = seen \ {"worker"}
  /\ signal' = [signal EXCEPT !["worker"] = "none"]
  /\ UNCHANGED <<leg, handler, saved, memVars, result, rc, taken, refused, crashed>>

\* What the probe makes of the two results.
Judged == IF result["main"] # "0" THEN result["main"] ELSE result["worker"]

RestoreHandlers ==
  /\ at["main"] = "restore"
  /\ PutBack(Signals) /\ SignalReturns(Judged)
  /\ UNCHANGED <<leg, saved, memVars, tlsVars, result, taken, crashed>>

SignalStep ==
  /\ ~crashed
  /\ \/ InstallSegv \/ InstallBus \/ CreateWorker \/ JoinWorker \/ RestoreHandlers
     \/ \E t \in Threads :
          \/ MapStack(t) \/ SetAlternate(t) \/ MapFile(t) \/ NoFault(t) \/ Recovered(t)
          \/ \E s \in Signals : Fault(t, s)

SignalNext == StartSignal \/ SignalStep \/ EndSignal
SignalSpec == SignalInit /\ [][SignalNext]_signalVars

-----------------------------------------------------------------------------
SignalTypes ==
  /\ at \in [Threads -> Places] /\ leg \in [Threads -> Signals]
  /\ handler \in [Signals -> {"before", "graft"}]
  /\ saved \in [Signals -> {"before", "graft"}]
  /\ stacks \subseteq Threads /\ alternate \subseteq Threads /\ pages \subseteq Threads
  /\ resumable \subseteq Threads /\ seen \subseteq Threads
  /\ signal \in [Threads -> Signals \cup {"none"}]
  /\ result \in [Threads -> SignalErrors \cup {"0"}]
  /\ rc \in SignalErrors \cup {"0", "none"}
  /\ taken \subseteq Threads \X Signals \X Signals
  /\ refused \subseteq Signals /\ crashed \in BOOLEAN

\* Every fault of the probe finds its handler installed and a stack to run on, on both
\* threads and however often the probe is run: the app survives signal_resume.
FaultsAreCaught == ~crashed

\* When signal_resume returns 0, both threads have in this very run provoked both
\* signals and come back from them: nothing is taken over from an earlier run or from
\* the other thread.
PassMeansRecovered ==
  rc = "0" => \A t \in Threads, s \in Signals : <<t, s, s>> \in taken

\* However signal_resume returns, the handlers of before are back unless sigaction
\* declined, no thread is left with a signal stack, the worker has ended, and of the
\* file's pages only those are still mapped whose fault jumped over the munmap.
SignalStateGivenBack ==
  at["main"] = "off" =>
    /\ \A s \in Signals \ refused : handler[s] = saved[s]
    /\ stacks = {} /\ alternate = {} /\ at["worker"] \in {"off", "ended"}
    /\ pages = {t \in Threads : \E s \in Signals : <<t, "SIGBUS", s>> \in taken}
=============================================================================
