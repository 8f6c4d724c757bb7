-------------------------- MODULE SignalResumeProofs --------------------------
(* signal_resume survives its own faults and tells the truth about them,      *)
(* however often it is run and whichever of its system calls fail.            *)
EXTENDS SignalResume, TLAPS

\* The places of a thread that is in signal_resume_once, and those where it has done
\* with it, or, the main thread, holds both handlers.
Inside == {"stack", "alternate", "file", "touch", "recovered"}
Armed  == {"file", "touch", "recovered"}
Done   == {"create", "join", "restore", "ended"}

\* The signal stack is mapped, and then in force, over exactly these stretches; a
\* thread that may fault has its recovery point set.
StackHeld ==
  \A t \in Threads :
    /\ t \in stacks <=> at[t] \in Armed \cup {"alternate"}
    /\ t \in alternate <=> at[t] \in Armed
    /\ at[t] \in Armed => t \in resumable
    /\ at[t] = "file" => leg[t] = "SIGBUS"

\* The worker runs only while the main thread waits for it.
WorkerWaited ==
  /\ at["worker"] \in Inside \cup {"off", "ended"}
  /\ at["worker"] \in Inside => at["main"] = "join"
  /\ at["main"] # "ended"
  /\ at["main"] \in {"install", "installBus", "create"} \cup Inside =>
       leg["worker"] = "SIGSEGV" /\ result["worker"] = "EFAULT"
  /\ at["main"] \in {"install", "installBus"} => leg["main"] = "SIGSEGV"
  /\ at["main"] # "off" /\ at["worker"] = "off" => result["worker"] # "0"

\* Both handlers are the probe's while any thread may fault, and the saved ones are
\* those of before.
HandlersHeld ==
  /\ at["main"] = "install" => handler = saved
  /\ at["main"] = "installBus" =>
       handler["SIGSEGV"] = "graft" /\ handler["SIGBUS"] = saved["SIGBUS"]
  /\ at["main"] \in Inside \cup Done => \A s \in Signals : handler[s] = "graft"
  /\ at["main"] # "off" => refused = {}
  /\ at["main"] = "off" => \A s \in Signals \ refused : handler[s] = saved[s]

\* Whether a thread has taken the fault of its second leg.
BusTaken(t) == \E s \in Signals : <<t, "SIGBUS", s>> \in taken

\* A page of the file stays mapped exactly over the read and after a fault of it.
PagesHeld ==
  \A t \in Threads :
    /\ t \in pages <=> (at[t] = "touch" /\ leg[t] = "SIGBUS") \/ BusTaken(t)
    /\ BusTaken(t) => leg[t] = "SIGBUS" /\ at[t] \in Done \cup {"recovered", "off"}

\* No fault counts that was not taken in this run: the thread's record is clear
\* before the access, and its result is 0 only with the faults of the legs done.
RecordTrue ==
  \A t \in Threads :
    /\ at[t] \in {"file", "touch"} => t \notin seen
    /\ at[t] = "recovered" /\ t \in seen => <<t, leg[t], signal[t]>> \in taken
    /\ at[t] \in Inside /\ leg[t] = "SIGBUS" /\ result[t] = "0" =>
         <<t, "SIGSEGV", "SIGSEGV">> \in taken
    /\ at[t] \in Done /\ result[t] = "0" =>
         \A s \in Signals : <<t, s, s>> \in taken
    /\ at["main"] = "off" /\ rc = "0" =>
         \A s \in Signals : <<t, s, s>> \in taken

\* While the probe runs it has returned nothing.
Running == at["main"] # "off" => rc = "none"

\* The inductive invariant.
IInv == /\ SignalTypes /\ ~crashed /\ StackHeld /\ WorkerWaited /\ HandlersHeld
        /\ PagesHeld /\ RecordTrue /\ Running
\* Before the first run nothing is held and nothing has been recovered.
LEMMA InitIInv == SignalInit => IInv
<1> SUFFICES ASSUME SignalInit PROVE IInv
  OBVIOUS
<1> USE DEF SignalInit, Threads, Signals
<1>1. SignalTypes /\ ~crashed
  BY DEF SignalTypes, Places, SignalErrors
<1>2. StackHeld /\ WorkerWaited /\ Running
  BY DEF StackHeld, WorkerWaited, Running, Inside, Armed, Done
<1>3. HandlersHeld /\ PagesHeld /\ RecordTrue
  BY DEF HandlersHeld, PagesHeld, BusTaken, RecordTrue, Inside, Done
<1> QED
  BY <1>1, <1>2, <1>3 DEF IInv

\* A thread that moves on is at a place.
LEMMA GoTypes ==
  ASSUME SignalTypes, NEW t \in Threads, NEW place \in Places, Go(t, place)
  PROVE  at' \in [Threads -> Places]
BY DEF SignalTypes, Go

\* So is one that leaves signal_resume_once, with its result.
LEMMA LeaveOnceTypes ==
  ASSUME SignalTypes, NEW t \in Threads, NEW code \in SignalErrors \cup {"0"},
         LeaveOnce(t, code)
  PROVE  /\ at' \in [Threads -> Places] /\ leg' \in [Threads -> Signals]
         /\ result' \in [Threads -> SignalErrors \cup {"0"}]
BY DEF SignalTypes, LeaveOnce, Go, Places, Signals

\* What PutBack installs is one of the two handlers.
LEMMA PutBackTypes ==
  ASSUME SignalTypes, NEW which \in SUBSET Signals, PutBack(which)
  PROVE  handler' \in [Signals -> {"before", "graft"}] /\ refused' \in SUBSET Signals
BY DEF SignalTypes, PutBack

\* Every step of the probe, on either thread, and every start and end of it.
LEMMA StepIInv == IInv /\ [SignalNext]_signalVars => IInv'
<1> SUFFICES ASSUME IInv, [SignalNext]_signalVars PROVE IInv'
  OBVIOUS
<1> USE DEF IInv, Threads, Signals
<1>0. CASE UNCHANGED signalVars
  BY <1>0 DEF signalVars, memVars, tlsVars, SignalTypes, StackHeld, WorkerWaited,
              HandlersHeld, PagesHeld, BusTaken, RecordTrue, Running
<1>1. CASE StartSignal
  <2>1. SignalTypes'
    BY <1>1 DEF StartSignal, memVars, tlsVars, Go, SignalTypes, Places, SignalErrors
  <2>2. StackHeld' /\ ~crashed'
    BY <1>1 DEF StartSignal, memVars, tlsVars, Go, StackHeld, Inside, Armed, Done,
                HandlersHeld, WorkerWaited, SignalTypes
  <2>3. WorkerWaited'
    BY <1>1 DEF StartSignal, memVars, tlsVars, Go, WorkerWaited, Inside, Done,
                StackHeld, Armed, SignalTypes
  <2>4. HandlersHeld'
    BY <1>1 DEF StartSignal, memVars, tlsVars, Go, HandlersHeld, WorkerWaited, Inside,
                Done, SignalTypes
  <2>5. PagesHeld'
    BY <1>1 DEF StartSignal, memVars, tlsVars, Go, PagesHeld, BusTaken, WorkerWaited,
                StackHeld, Inside, Armed, Done, SignalTypes
  <2>6. RecordTrue'
    BY <1>1 DEF StartSignal, memVars, tlsVars, Go, RecordTrue, PagesHeld, BusTaken,
                WorkerWaited, StackHeld, Inside, Armed, Done, Running, SignalTypes
  <2>7. Running'
    BY <1>1 DEF StartSignal, memVars, tlsVars, Go, Running, WorkerWaited, Inside,
                Done, SignalTypes
  <2> QED
    BY <2>1, <2>2, <2>3, <2>4, <2>5, <2>6, <2>7
<1>2. CASE EndSignal
  <2>1. SignalTypes'
    BY <1>2 DEF EndSignal, tlsVars, Go, SignalTypes, Places, SignalErrors
  <2>2. StackHeld' /\ ~crashed'
    BY <1>2 DEF EndSignal, tlsVars, Go, StackHeld, Inside, Armed, Done, HandlersHeld,
                WorkerWaited, SignalTypes
  <2>3. WorkerWaited'
    BY <1>2 DEF EndSignal, tlsVars, Go, WorkerWaited, Inside, Done, StackHeld, Armed,
                SignalTypes
  <2>4. HandlersHeld'
    BY <1>2 DEF EndSignal, tlsVars, Go, HandlersHeld, WorkerWaited, Inside, Done,
                SignalTypes
  <2>5. PagesHeld'
    BY <1>2 DEF EndSignal, tlsVars, Go, PagesHeld, BusTaken, WorkerWaited, StackHeld,
                Inside, Armed, Done, SignalTypes
  <2>6. RecordTrue'
    BY <1>2 DEF EndSignal, tlsVars, Go, RecordTrue, PagesHeld, BusTaken, WorkerWaited,
                StackHeld, Inside, Armed, Done, Running, SignalTypes
  <2>7. Running'
    BY <1>2 DEF EndSignal, tlsVars, Go, Running, WorkerWaited, Inside, Done,
                SignalTypes
  <2> QED
    BY <2>1, <2>2, <2>3, <2>4, <2>5, <2>6, <2>7
<1>3. CASE InstallSegv
  <2>1. SignalTypes'
    BY <1>3 DEF InstallSegv, SignalReturns, memVars, tlsVars, Go, SignalTypes, Places,
                SignalErrors
  <2>2. StackHeld' /\ ~crashed'
    BY <1>3 DEF InstallSegv, SignalReturns, memVars, tlsVars, Go, StackHeld, Inside,
                Armed, Done, HandlersHeld, WorkerWaited, SignalTypes
  <2>3. WorkerWaited'
    BY <1>3 DEF InstallSegv, SignalReturns, memVars, tlsVars, Go, WorkerWaited,
                Inside, Done, StackHeld, Armed, SignalTypes
  <2>4. HandlersHeld'
    BY <1>3 DEF InstallSegv, SignalReturns, memVars, tlsVars, Go, HandlersHeld,
                WorkerWaited, Inside, Done, SignalTypes
  <2>5. PagesHeld'
    BY <1>3 DEF InstallSegv, SignalReturns, memVars, tlsVars, Go, PagesHeld, BusTaken,
                WorkerWaited, StackHeld, Inside, Armed, Done, SignalTypes
  <2>6. RecordTrue'
    BY <1>3 DEF InstallSegv, SignalReturns, memVars, tlsVars, Go, RecordTrue,
                PagesHeld, BusTaken, WorkerWaited, StackHeld, Inside, Armed, Done,
                Running, SignalTypes
  <2>7. Running'
    BY <1>3 DEF InstallSegv, SignalReturns, memVars, tlsVars, Go, Running,
                WorkerWaited, Inside, Done, SignalTypes
  <2> QED
    BY <2>1, <2>2, <2>3, <2>4, <2>5, <2>6, <2>7
<1>4. CASE InstallBus
  <2>1. SignalTypes'
    <3>1. at' \in [Threads -> Places]
      BY <1>4, GoTypes DEF InstallBus, SignalReturns, Places
    <3>2. CASE handler' = [handler EXCEPT !["SIGBUS"] = "graft"]
               /\ Go("main", "stack") /\ UNCHANGED <<rc, refused>>
      BY <1>4, <3>1, <3>2 DEF InstallBus, memVars, tlsVars, SignalTypes
    <3>3. CASE PutBack(PutBackEarly) /\ SignalReturns("EINVAL")
      BY <1>4, <3>1, <3>3, PutBackTypes
         DEF InstallBus, PutBackEarly, SignalReturns, memVars, tlsVars, SignalTypes,
             SignalErrors
    <3> QED
      BY <1>4, <3>2, <3>3 DEF InstallBus
  <2>2. StackHeld' /\ ~crashed'
    BY <1>4 DEF InstallBus, PutBack, PutBackEarly, SignalReturns, memVars, tlsVars,
                Go, StackHeld, Inside, Armed, Done, HandlersHeld, WorkerWaited,
                SignalTypes
  <2>3. WorkerWaited'
    BY <1>4 DEF InstallBus, PutBack, PutBackEarly, SignalReturns, memVars, tlsVars,
                Go, WorkerWaited, Inside, Done, StackHeld, Armed, SignalTypes
  <2>4. HandlersHeld'
    <3>1. CASE handler' = [handler EXCEPT !["SIGBUS"] = "graft"]
               /\ Go("main", "stack") /\ UNCHANGED <<rc, refused>>
      BY <1>4, <3>1 DEF InstallBus, Go, HandlersHeld, SignalTypes
    <3>2. CASE PutBack(PutBackEarly) /\ SignalReturns("EINVAL")
      <4>1. at'["main"] = "off" /\ UNCHANGED saved
        BY <1>4, <3>2 DEF InstallBus, SignalReturns, Go, SignalTypes
      <4>2. handler["SIGBUS"] = saved["SIGBUS"]
        BY <1>4 DEF InstallBus, HandlersHeld
      <4>3. \A s \in Signals \ refused' : handler'[s] = saved[s]
        BY <3>2, <4>2 DEF PutBack, PutBackEarly
      <4> QED
        BY <4>1, <4>3 DEF HandlersHeld, Inside, Done
    <3> QED
      BY <1>4, <3>1, <3>2 DEF InstallBus
  <2>5. PagesHeld'
    BY <1>4 DEF InstallBus, PutBack, PutBackEarly, SignalReturns, memVars, tlsVars,
                Go, PagesHeld, BusTaken, WorkerWaited, StackHeld, Inside, Armed, Done,
                SignalTypes
  <2>6. RecordTrue'
    BY <1>4 DEF InstallBus, PutBack, PutBackEarly, SignalReturns, memVars, tlsVars,
                Go, RecordTrue, PagesHeld, BusTaken, WorkerWaited, StackHeld, Inside,
                Armed, Done, Running, SignalTypes
  <2>7. Running'
    BY <1>4 DEF InstallBus, PutBack, PutBackEarly, SignalReturns, memVars, tlsVars,
                Go, Running, WorkerWaited, Inside, Done, SignalTypes
  <2> QED
    BY <2>1, <2>2, <2>3, <2>4, <2>5, <2>6, <2>7
<1>5. CASE CreateWorker
  <2>1. SignalTypes'
    BY <1>5 DEF CreateWorker, memVars, tlsVars, Go, SignalTypes, Places, SignalErrors
  <2>2. StackHeld' /\ ~crashed'
    BY <1>5 DEF CreateWorker, memVars, tlsVars, Go, StackHeld, Inside, Armed, Done,
                HandlersHeld, WorkerWaited, SignalTypes
  <2>3. WorkerWaited'
    BY <1>5 DEF CreateWorker, memVars, tlsVars, Go, WorkerWaited, Inside, Done,
                StackHeld, Armed, SignalTypes
  <2>4. HandlersHeld'
    BY <1>5 DEF CreateWorker, memVars, tlsVars, Go, HandlersHeld, WorkerWaited,
                Inside, Done, SignalTypes
  <2>5. PagesHeld'
    BY <1>5 DEF CreateWorker, memVars, tlsVars, Go, PagesHeld, BusTaken, WorkerWaited,
                StackHeld, Inside, Armed, Done, SignalTypes
  <2>6. RecordTrue'
    BY <1>5 DEF CreateWorker, memVars, tlsVars, Go, RecordTrue, PagesHeld, BusTaken,
                WorkerWaited, StackHeld, Inside, Armed, Done, Running, SignalTypes
  <2>7. Running'
    BY <1>5 DEF CreateWorker, memVars, tlsVars, Go, Running, WorkerWaited, Inside,
                Done, SignalTypes
  <2> QED
    BY <2>1, <2>2, <2>3, <2>4, <2>5, <2>6, <2>7
<1>6. CASE JoinWorker
  <2>1. SignalTypes'
    BY <1>6 DEF JoinWorker, WorkerEnded, memVars, tlsVars, Go, SignalTypes, Places,
                SignalErrors
  <2>2. StackHeld' /\ ~crashed'
    BY <1>6 DEF JoinWorker, WorkerEnded, memVars, tlsVars, Go, StackHeld, Inside,
                Armed, Done, HandlersHeld, WorkerWaited, SignalTypes
  <2>3. WorkerWaited'
    BY <1>6 DEF JoinWorker, WorkerEnded, memVars, tlsVars, Go, WorkerWaited, Inside,
                Done, StackHeld, Armed, SignalTypes
  <2>4. HandlersHeld'
    BY <1>6 DEF JoinWorker, WorkerEnded, memVars, tlsVars, Go, HandlersHeld,
                WorkerWaited, Inside, Done, SignalTypes
  <2>5. PagesHeld'
    BY <1>6 DEF JoinWorker, WorkerEnded, memVars, tlsVars, Go, PagesHeld, BusTaken,
                WorkerWaited, StackHeld, Inside, Armed, Done, SignalTypes
  <2>6. RecordTrue'
    BY <1>6 DEF JoinWorker, WorkerEnded, memVars, tlsVars, Go, RecordTrue, PagesHeld,
                BusTaken, WorkerWaited, StackHeld, Inside, Armed, Done, Running,
                SignalTypes
  <2>7. Running'
    BY <1>6 DEF JoinWorker, WorkerEnded, memVars, tlsVars, Go, Running, WorkerWaited,
                Inside, Done, SignalTypes
  <2> QED
    BY <2>1, <2>2, <2>3, <2>4, <2>5, <2>6, <2>7
<1>7. CASE RestoreHandlers
  <2>1. SignalTypes'
    BY <1>7 DEF RestoreHandlers, PutBack, Judged, SignalReturns, memVars, tlsVars, Go,
                SignalTypes, Places, SignalErrors
  <2>2. StackHeld' /\ ~crashed'
    BY <1>7 DEF RestoreHandlers, PutBack, Judged, SignalReturns, memVars, tlsVars, Go,
                StackHeld, Inside, Armed, Done, HandlersHeld, WorkerWaited,
                SignalTypes
  <2>3. WorkerWaited'
    BY <1>7 DEF RestoreHandlers, PutBack, Judged, SignalReturns, memVars, tlsVars, Go,
                WorkerWaited, Inside, Done, StackHeld, Armed, SignalTypes
  <2>4. HandlersHeld'
    BY <1>7 DEF RestoreHandlers, PutBack, Judged, SignalReturns, memVars, tlsVars, Go,
                HandlersHeld, WorkerWaited, Inside, Done, SignalTypes
  <2>5. PagesHeld'
    BY <1>7 DEF RestoreHandlers, PutBack, Judged, SignalReturns, memVars, tlsVars, Go,
                PagesHeld, BusTaken, WorkerWaited, StackHeld, Inside, Armed, Done,
                SignalTypes
  <2>6. RecordTrue'
    BY <1>7 DEF RestoreHandlers, PutBack, Judged, SignalReturns, memVars, tlsVars, Go,
                RecordTrue, PagesHeld, BusTaken, WorkerWaited, StackHeld, Inside,
                Armed, Done, Running, SignalTypes
  <2>7. Running'
    BY <1>7 DEF RestoreHandlers, PutBack, Judged, SignalReturns, memVars, tlsVars, Go,
                Running, WorkerWaited, Inside, Done, SignalTypes
  <2> QED
    BY <2>1, <2>2, <2>3, <2>4, <2>5, <2>6, <2>7
<1>8. ASSUME NEW t \in Threads, MapStack(t) PROVE IInv'
  <2>1. SignalTypes'
    <3>1. CASE Go(t, "alternate") /\ stacks' = stacks \cup {t} /\ UNCHANGED <<leg, result>>
      BY <1>8, <3>1, GoTypes DEF MapStack, tlsVars, SignalTypes, Places
    <3>2. CASE LeaveOnce(t, "ENOMEM") /\ UNCHANGED stacks
      BY <1>8, <3>2, LeaveOnceTypes DEF MapStack, tlsVars, SignalTypes, SignalErrors
    <3> QED
      BY <1>8, <3>1, <3>2 DEF MapStack
  <2>2. StackHeld' /\ ~crashed'
    BY <1>8 DEF MapStack, LeaveOnce, tlsVars, Go, StackHeld, Inside, Armed, Done,
                HandlersHeld, WorkerWaited, SignalTypes
  <2>3. WorkerWaited'
    BY <1>8 DEF MapStack, LeaveOnce, tlsVars, Go, WorkerWaited, Inside, Done,
                StackHeld, Armed, SignalTypes
  <2>4. HandlersHeld'
    BY <1>8 DEF MapStack, LeaveOnce, tlsVars, Go, HandlersHeld, WorkerWaited, Inside,
                Done, SignalTypes
  <2>5. PagesHeld'
    BY <1>8 DEF MapStack, LeaveOnce, tlsVars, Go, PagesHeld, BusTaken, WorkerWaited,
                StackHeld, Inside, Armed, Done, SignalTypes
  <2>6. RecordTrue'
    BY <1>8 DEF MapStack, LeaveOnce, tlsVars, Go, RecordTrue, PagesHeld, BusTaken,
                WorkerWaited, StackHeld, Inside, Armed, Done, Running, SignalTypes
  <2>7. Running'
    BY <1>8 DEF MapStack, LeaveOnce, tlsVars, Go, Running, WorkerWaited, Inside, Done,
                SignalTypes
  <2> QED
    BY <2>1, <2>2, <2>3, <2>4, <2>5, <2>6, <2>7
<1>9. ASSUME NEW t \in Threads, SetAlternate(t) PROVE IInv'
  <2>1. SignalTypes'
    <3>1. CASE /\ LeaveOnce(t, "ENOMEM") /\ stacks' = stacks \ {t}
               /\ UNCHANGED <<alternate, tlsVars>>
      BY <1>9, <3>1, LeaveOnceTypes DEF SetAlternate, tlsVars, SignalTypes, SignalErrors
    <3>2. CASE Go(t, IF leg[t] = "SIGBUS" THEN "file" ELSE "touch") /\ UNCHANGED <<leg, result>>
      <4>1. at' \in [Threads -> Places]
        BY <3>2, GoTypes DEF Places
      <4>2. [signal EXCEPT ![t] = "none"] \in [Threads -> Signals \cup {"none"}]
        BY DEF SignalTypes
      <4> QED
        BY <1>9, <3>2, <4>1, <4>2 DEF SetAlternate, Cleared, tlsVars, SignalTypes
    <3> QED
      BY <1>9, <3>1, <3>2 DEF SetAlternate
  <2>2. StackHeld' /\ ~crashed'
    BY <1>9 DEF SetAlternate, LeaveOnce, Cleared, tlsVars, Go, StackHeld, Inside,
                Armed, Done, HandlersHeld, WorkerWaited, SignalTypes
  <2>3. WorkerWaited'
    BY <1>9 DEF SetAlternate, LeaveOnce, Cleared, tlsVars, Go, WorkerWaited, Inside,
                Done, StackHeld, Armed, SignalTypes
  <2>4. HandlersHeld'
    BY <1>9 DEF SetAlternate, LeaveOnce, Cleared, tlsVars, Go, HandlersHeld,
                WorkerWaited, Inside, Done, SignalTypes
  <2>5. PagesHeld'
    BY <1>9 DEF SetAlternate, LeaveOnce, Cleared, tlsVars, Go, PagesHeld, BusTaken,
                WorkerWaited, StackHeld, Inside, Armed, Done, SignalTypes
  <2>6. RecordTrue'
    BY <1>9 DEF SetAlternate, LeaveOnce, Cleared, tlsVars, Go, RecordTrue, PagesHeld,
                BusTaken, WorkerWaited, StackHeld, Inside, Armed, Done, Running,
                SignalTypes
  <2>7. Running'
    BY <1>9 DEF SetAlternate, LeaveOnce, Cleared, tlsVars, Go, Running, WorkerWaited,
                Inside, Done, SignalTypes
  <2> QED
    BY <2>1, <2>2, <2>3, <2>4, <2>5, <2>6, <2>7
<1>10. ASSUME NEW t \in Threads, MapFile(t) PROVE IInv'
  <2>1. SignalTypes'
    <3>1. CASE Go(t, "touch") /\ UNCHANGED <<leg, result>>
      BY <1>10, <3>1, GoTypes DEF MapFile, Cleanup, tlsVars, SignalTypes, Places
    <3>2. CASE \E e \in {"ENOMEM", "EACCES"} : LeaveOnce(t, e)
      BY <1>10, <3>2, LeaveOnceTypes DEF MapFile, Cleanup, tlsVars, SignalTypes, SignalErrors
    <3> QED
      BY <1>10, <3>1, <3>2 DEF MapFile
  <2>2. StackHeld' /\ ~crashed'
    BY <1>10 DEF MapFile, LeaveOnce, Cleanup, tlsVars, Go, StackHeld, Inside, Armed,
                 Done, HandlersHeld, WorkerWaited, SignalTypes
  <2>3. WorkerWaited'
    BY <1>10 DEF MapFile, LeaveOnce, Cleanup, tlsVars, Go, WorkerWaited, Inside, Done,
                 StackHeld, Armed, SignalTypes
  <2>4. HandlersHeld'
    BY <1>10 DEF MapFile, LeaveOnce, Cleanup, tlsVars, Go, HandlersHeld, WorkerWaited,
                 Inside, Done, SignalTypes
  <2>5. PagesHeld'
    BY <1>10 DEF MapFile, LeaveOnce, Cleanup, tlsVars, Go, PagesHeld, BusTaken,
                 WorkerWaited, StackHeld, Inside, Armed, Done, SignalTypes
  <2>6. RecordTrue'
    BY <1>10 DEF MapFile, LeaveOnce, Cleanup, tlsVars, Go, RecordTrue, PagesHeld,
                 BusTaken, WorkerWaited, StackHeld, Inside, Armed, Done, Running,
                 SignalTypes
  <2>7. Running'
    BY <1>10 DEF MapFile, LeaveOnce, Cleanup, tlsVars, Go, Running, WorkerWaited,
                 Inside, Done, SignalTypes
  <2> QED
    BY <2>1, <2>2, <2>3, <2>4, <2>5, <2>6, <2>7
<1>11. ASSUME NEW t \in Threads, NoFault(t) PROVE IInv'
  <2>1. SignalTypes'
    BY <1>11 DEF NoFault, LeaveOnce, tlsVars, Go, SignalTypes, Places, SignalErrors
  <2>2. StackHeld' /\ ~crashed'
    BY <1>11 DEF NoFault, LeaveOnce, tlsVars, Go, StackHeld, Inside, Armed, Done,
                 HandlersHeld, WorkerWaited, SignalTypes
  <2>3. WorkerWaited'
    BY <1>11 DEF NoFault, LeaveOnce, tlsVars, Go, WorkerWaited, Inside, Done,
                 StackHeld, Armed, SignalTypes
  <2>4. HandlersHeld'
    BY <1>11 DEF NoFault, LeaveOnce, tlsVars, Go, HandlersHeld, WorkerWaited, Inside,
                 Done, SignalTypes
  <2>5. PagesHeld'
    BY <1>11 DEF NoFault, LeaveOnce, tlsVars, Go, PagesHeld, BusTaken, WorkerWaited,
                 StackHeld, Inside, Armed, Done, SignalTypes
  <2>6. RecordTrue'
    BY <1>11 DEF NoFault, LeaveOnce, tlsVars, Go, RecordTrue, PagesHeld, BusTaken,
                 WorkerWaited, StackHeld, Inside, Armed, Done, Running, SignalTypes
  <2>7. Running'
    BY <1>11 DEF NoFault, LeaveOnce, tlsVars, Go, Running, WorkerWaited, Inside, Done,
                 SignalTypes
  <2> QED
    BY <2>1, <2>2, <2>3, <2>4, <2>5, <2>6, <2>7
<1>12. ASSUME NEW t \in Threads, Recovered(t) PROVE IInv'
  <2>1. SignalTypes'
    BY <1>12 DEF Recovered, LeaveOnce, AsExpected, Cleanup, tlsVars, Go, SignalTypes,
                 Places, SignalErrors
  <2>2. StackHeld' /\ ~crashed'
    BY <1>12 DEF Recovered, LeaveOnce, AsExpected, Cleanup, tlsVars, Go, StackHeld,
                 Inside, Armed, Done, HandlersHeld, WorkerWaited, SignalTypes
  <2>3. WorkerWaited'
    BY <1>12 DEF Recovered, LeaveOnce, AsExpected, Cleanup, tlsVars, Go, WorkerWaited,
                 Inside, Done, StackHeld, Armed, SignalTypes
  <2>4. HandlersHeld'
    BY <1>12 DEF Recovered, LeaveOnce, AsExpected, Cleanup, tlsVars, Go, HandlersHeld,
                 WorkerWaited, Inside, Done, SignalTypes
  <2>5. PagesHeld'
    BY <1>12 DEF Recovered, LeaveOnce, AsExpected, Cleanup, tlsVars, Go, PagesHeld,
                 BusTaken, WorkerWaited, StackHeld, Inside, Armed, Done, SignalTypes
  <2>6. RecordTrue'
    BY <1>12 DEF Recovered, LeaveOnce, AsExpected, Cleanup, tlsVars, Go, RecordTrue,
                 PagesHeld, BusTaken, WorkerWaited, StackHeld, Inside, Armed, Done,
                 Running, SignalTypes
  <2>7. Running'
    BY <1>12 DEF Recovered, LeaveOnce, AsExpected, Cleanup, tlsVars, Go, Running,
                 WorkerWaited, Inside, Done, SignalTypes
  <2> QED
    BY <2>1, <2>2, <2>3, <2>4, <2>5, <2>6, <2>7
<1>13. ASSUME NEW t \in Threads, NEW s \in Signals, Fault(t, s) PROVE IInv'
  <2>1. SignalTypes'
    <3>1. <<t, leg[t], s>> \in Threads \X Signals \X Signals
      BY DEF SignalTypes
    <3>2. at' \in [Threads -> Places]
      BY <1>13, GoTypes DEF Fault, SignalTypes, Places
    <3>3. [signal EXCEPT ![t] = s] \in [Threads -> Signals \cup {"none"}]
      BY DEF SignalTypes
    <3>4. \/ /\ seen' = seen \cup {t} /\ signal' = [signal EXCEPT ![t] = s]
             /\ taken' = taken \cup {<<t, leg[t], s>>} /\ crashed' = crashed
          \/ seen' = seen /\ signal' = signal /\ taken' = taken /\ crashed' = TRUE
      BY <1>13 DEF Fault
    <3>5. /\ UNCHANGED <<leg, handler, saved, stacks, alternate, pages>>
          /\ UNCHANGED <<resumable, result, rc, refused>>
      BY <1>13 DEF Fault, memVars
    <3>6. taken' \subseteq Threads \X Signals \X Signals
      BY <3>1, <3>4 DEF SignalTypes
    <3>7. seen' \subseteq Threads /\ crashed' \in BOOLEAN
      BY <3>4 DEF SignalTypes
    <3>8. signal' \in [Threads -> Signals \cup {"none"}]
      BY <3>3, <3>4 DEF SignalTypes
    <3> QED
      BY <3>2, <3>5, <3>6, <3>7, <3>8 DEF SignalTypes
  <2>2. StackHeld' /\ ~crashed'
    BY <1>13 DEF Fault, HandlerRuns, memVars, Go, StackHeld, Inside, Armed, Done,
                 HandlersHeld, WorkerWaited, SignalTypes
  <2>3. WorkerWaited'
    BY <1>13 DEF Fault, HandlerRuns, memVars, Go, WorkerWaited, Inside, Done,
                 StackHeld, Armed, SignalTypes
  <2>4. HandlersHeld'
    BY <1>13 DEF Fault, HandlerRuns, memVars, Go, HandlersHeld, WorkerWaited, Inside,
                 Done, SignalTypes
  <2>5. PagesHeld'
    BY <1>13 DEF Fault, HandlerRuns, memVars, Go, PagesHeld, BusTaken, WorkerWaited,
                 StackHeld, Inside, Armed, Done, SignalTypes
  <2>6. RecordTrue'
    BY <1>13 DEF Fault, HandlerRuns, memVars, Go, RecordTrue, PagesHeld, BusTaken,
                 WorkerWaited, StackHeld, Inside, Armed, Done, Running, SignalTypes
  <2>7. Running'
    BY <1>13 DEF Fault, HandlerRuns, memVars, Go, Running, WorkerWaited, Inside, Done,
                 SignalTypes
  <2> QED
    BY <2>1, <2>2, <2>3, <2>4, <2>5, <2>6, <2>7
<1> QED
  BY <1>0, <1>1, <1>2, <1>3, <1>4, <1>5, <1>6, <1>7, <1>8, <1>9, <1>10, <1>11, <1>12, <1>13 DEF SignalNext, SignalStep

\* The inductive invariant holds throughout.
LEMMA Inductive == SignalSpec => []IInv
BY InitIInv, StepIInv, PTL DEF SignalSpec

\* Every variable of signal_resume keeps its type.
THEOREM SignalTypesHold == SignalSpec => []SignalTypes
<1>1. IInv => SignalTypes
  BY DEF IInv
<1> QED
  BY <1>1, Inductive, PTL

\* The app survives signal_resume: every fault of signal_resume_once finds the handler
\* installed, its recovery point set and its stack mapped, on both threads, however
\* often the probe is run and whichever system calls fail.
THEOREM EveryFaultIsCaught == SignalSpec => []FaultsAreCaught
<1>1. IInv => FaultsAreCaught
  BY DEF IInv, FaultsAreCaught
<1> QED
  BY <1>1, Inductive, PTL

\* When signal_resume returns 0, both threads have in this run taken and survived both
\* faults.
THEOREM PassIsEarned == SignalSpec => []PassMeansRecovered
<1>1. IInv => PassMeansRecovered
  BY DEF IInv, PassMeansRecovered, RecordTrue, Running
<1> QED
  BY <1>1, Inductive, PTL

\* However signal_resume returns, handlers, signal stacks and worker are as before,
\* but for the handlers that sigaction declined and the pages whose fault jumped over
\* the munmap.
THEOREM SignalStateIsGivenBack == SignalSpec => []SignalStateGivenBack
<1>1. IInv => SignalStateGivenBack
  <2> SUFFICES ASSUME IInv, at["main"] = "off" PROVE SignalStateGivenBack
    BY DEF SignalStateGivenBack
  <2>1. at["worker"] \in {"off", "ended"}
    BY DEF IInv, WorkerWaited
  <2>2. stacks = {} /\ alternate = {}
    BY <2>1 DEF IInv, StackHeld, SignalTypes, Threads, Armed
  <2>3. pages = {t \in Threads : BusTaken(t)}
    <3>1. \A t \in Threads : at[t] \in {"off", "ended"}
      BY <2>1 DEF Threads
    <3>2. \A t \in Threads : t \in pages <=> BusTaken(t)
      BY <3>1 DEF IInv, PagesHeld
    <3> QED
      BY <3>2 DEF IInv, SignalTypes
  <2> QED
    BY <2>1, <2>2, <2>3 DEF IInv, SignalStateGivenBack, HandlersHeld, BusTaken
<1> QED
  BY <1>1, Inductive, PTL
=============================================================================
