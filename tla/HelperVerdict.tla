---------------------------- MODULE HelperVerdict ----------------------------
(***************************************************************************)
(* What a helper probe promises to whoever runs it, without the sockets,   *)
(* the shared page or the clock: at most one helper runs at a time, it     *)
(* serves up to Quota requests, and the probe reports exactly once, when   *)
(* the helper is gone.  It may always report FAIL; it may report PASS only *)
(* for a helper that served everything and exited cleanly.                 *)
(***************************************************************************)
EXTENDS Naturals

CONSTANT MaxQuota   \* an upper bound on the requests of one probe

VARIABLES
  phase,    \* idle, running, reported, dead (the host process is no more)
  quota,    \* requests the probe in progress will make
  served,   \* requests its helper has served
  helper,   \* none, alive, clean or other (how it left, not yet reaped)
  report    \* none, PASS, FAIL or SKIP

avars == <<phase, quota, served, helper, report>>

Init == /\ phase = "idle" /\ quota \in 0..MaxQuota /\ served = 0
        /\ helper = "none" /\ report = "none"

\* A probe begins, or is skipped without beginning.
Begin(q) ==
  /\ phase \in {"idle", "reported"}
  /\ quota' = q /\ served' = 0 /\ UNCHANGED helper
  /\ \/ phase' = "running" /\ report' = "none"
     \/ phase' = "reported" /\ report' = "SKIP"

Launch ==
  /\ phase = "running" /\ helper = "none" /\ served = 0
  /\ helper' = "alive"
  /\ UNCHANGED <<phase, quota, served, report>>

Serve ==
  /\ helper = "alive" /\ served < quota
  /\ served' = served + 1
  /\ UNCHANGED <<phase, quota, helper, report>>

Leave(how) ==
  /\ helper = "alive"
  /\ helper' = how
  /\ UNCHANGED <<phase, quota, served, report>>

\* Somebody else collects the helper: how it left can no longer be told.
Lose ==
  /\ helper = "clean"
  /\ helper' = "other"
  /\ UNCHANGED <<phase, quota, served, report>>

Report(r) ==
  /\ phase = "running" /\ helper # "alive"
  /\ r = "PASS" => served = quota /\ helper = "clean"
  /\ phase' = "reported" /\ report' = r /\ helper' = "none"
  /\ UNCHANGED <<quota, served>>

Die ==
  /\ phase = "running"
  /\ phase' = "dead"
  /\ UNCHANGED <<quota, served, helper, report>>

Conclude == Die \/ \E r \in {"PASS", "FAIL"} : Report(r)

Next ==
  \/ \E q \in 1..MaxQuota : Begin(q)
  \/ Launch \/ Serve
  \/ \E how \in {"clean", "other"} : Leave(how)
  \/ Lose \/ Conclude

Safety == Init /\ [][Next]_avars

\* A probe that runs ends: the helper is always got rid of, then reported on.
Spec == Safety /\ (phase = "running" ~> phase # "running")
=============================================================================
