----------------------------- MODULE AppLifecycle -----------------------------
(***************************************************************************)
(* GraftHost around the probe lifecycle_jit: the scene's phases, the       *)
(* handlers of ContentView and ProbeStore, and the code cache and flags    *)
(* that graft_probe.c keeps between two calls.  Going to the background    *)
(* prepares a piece of generated code; coming back runs that same piece.   *)
(*                                                                         *)
(* All handlers run whole on the main actor: isRunning is false whenever   *)
(* one starts.  The view reacts to the phase the scene has when it is      *)
(* updated, so that a short visit to the background may pass unseen.       *)
(* Two probes stand for the twelve: lifecycle_jit and any other one.       *)
(***************************************************************************)
EXTENDS Naturals, Sequences

CONSTANTS MaxVisits,    \* bound: visits to the background in one life of the app
          MaxLaunches   \* bound: lives of the app

ASSUME BoundsAssumption == MaxVisits \in Nat /\ MaxLaunches \in Nat \ {0}

Phases == {"active", "inactive", "background"}
ProbeNames == {"runtime_paths", "lifecycle_jit"}
Statuses == {"PASS", "FAIL", "SKIP", "BLOCKED"}
Errors == {"none", "denied", "other"}

VARIABLES
  launches,      \* lives so far
  scene, seen,   \* the scene's phase; the phase the view last reacted to
  automatic,     \* the setting automaticLifecycleProbe, which survives the app
  backgroundObserved,
  results,       \* rows in the order they are shown
  export,        \* the last exported report
  backgroundSeen, foregroundSeen, prepareError, ready,   \* g_lifecycle_...
  mappings,      \* code caches mapped and not unmapped
  visits,        \* visits to the background (history)
  preparedIn     \* the visit in which the cache was committed (history)

uiVars   == <<scene, seen, automatic>>
rowVars  == <<results, export>>
flagVars == <<backgroundSeen, foregroundSeen, prepareError, ready>>
vars == <<launches, uiVars, backgroundObserved, rowVars, flagVars, mappings, visits,
          preparedIn>>

Fresh ==
  /\ scene = "inactive" /\ seen = "inactive"
  /\ backgroundObserved = FALSE /\ results = <<>> /\ export = <<>>
  /\ backgroundSeen = FALSE /\ foregroundSeen = FALSE
  /\ prepareError = "none" /\ ready = FALSE
  /\ mappings = 0 /\ visits = 0 /\ preparedIn = 0

Init == Fresh /\ automatic = TRUE /\ launches = 1

-----------------------------------------------------------------------------
(* The list of results. *)

\* A second row for a probe that has one already.
BugAppended(rows, name, status) == Append(rows, [name |-> name, status |-> status])
Appended(rows, name, status) ==
  IF \E i \in DOMAIN rows : rows[i].name = name
  THEN [i \in DOMAIN rows |-> IF rows[i].name = name
                              THEN [name |-> name, status |-> status] ELSE rows[i]]
  ELSE Append(rows, [name |-> name, status |-> status])

\* What lifecycle_jit may return, given whether the app has come to the front again: a
\* prepared function need not return 42 any more, and never does on another processor
\* than arm64.
LifecycleJit(foreground) ==
  CASE ~(backgroundSeen /\ foreground) -> {"SKIP"}
    [] backgroundSeen /\ foreground /\ prepareError = "denied" -> {"BLOCKED"}
    [] backgroundSeen /\ foreground /\ prepareError = "other" -> {"FAIL"}
    [] OTHER -> IF ready THEN {"PASS", "FAIL"} ELSE {"FAIL"}

\* Any other probe may return anything but lifecycle_jit's waiting answer.
Outcomes(name) == IF name = "lifecycle_jit" THEN LifecycleJit(foregroundSeen) ELSE Statuses

-----------------------------------------------------------------------------
(* The buttons, there while the app is in front. *)

Tap == scene = "active" /\ UNCHANGED <<launches, scene, seen, backgroundObserved,
                                       flagVars, mappings, visits, preparedIn>>

\* graft_run_all_probes calls back once per probe, in the order of the table.
RunAll ==
  /\ Tap /\ UNCHANGED <<automatic, export>>
  /\ \E first \in Outcomes("runtime_paths"), last \in Outcomes("lifecycle_jit") :
       results' = Appended(Appended(<<>>, "runtime_paths", first), "lifecycle_jit", last)

\* Each row has a button that runs its probe again.
Run(name) ==
  /\ Tap /\ UNCHANGED <<automatic, export>>
  /\ \E i \in DOMAIN results : results[i].name = name
  /\ \E status \in Outcomes(name) : results' = Appended(results, name, status)

ExportReport ==
  /\ Tap /\ UNCHANGED <<automatic, results>>
  /\ results # <<>> /\ export' = results

SetAutomatic ==
  /\ Tap /\ UNCHANGED rowVars
  /\ automatic' = ~automatic

-----------------------------------------------------------------------------
(* The scene. *)

Neighbours == {<<"active", "inactive">>, <<"inactive", "active">>,
               <<"inactive", "background">>, <<"background", "inactive">>}

SceneMoves(phase) ==
  /\ <<scene, phase>> \in Neighbours
  /\ phase = "background" => visits < MaxVisits
  /\ scene' = phase
  /\ visits' = IF phase = "background" THEN visits + 1 ELSE visits
  /\ UNCHANGED <<launches, seen, automatic, backgroundObserved, rowVars, flagVars,
                 mappings, preparedIn>>

\* graft_lifecycle_note_background when no cache is there yet: allocating may fail,
\* and so may writing or committing, after which the region is unmapped again.

\* The error of an earlier attempt stays although this one succeeds.
BugErrorAfterSuccess == prepareError
ErrorAfterSuccess == "none"

\* graft_jit_free of the region that could not be written or committed.
Unmapped(n) == n - 1

Prepare ==
  \/ /\ ready' = TRUE /\ prepareError' = ErrorAfterSuccess
     /\ mappings' = mappings + 1 /\ preparedIn' = visits
  \/ /\ prepareError' \in Errors \ {"none"}
     /\ mappings' \in {mappings, Unmapped(mappings + 1)}
     /\ UNCHANGED <<ready, preparedIn>>

\* A cache that is there is kept.
Keep == prepareError' = ErrorAfterSuccess /\ UNCHANGED <<ready, mappings, preparedIn>>

NoteBackground ==
  /\ scene = "background" /\ seen # "background" /\ seen' = "background"
  /\ backgroundObserved' = TRUE /\ backgroundSeen' = TRUE
  /\ IF ready THEN Keep ELSE Prepare
  /\ UNCHANGED <<launches, scene, automatic, rowVars, foregroundSeen, visits>>

\* The view is told that the app is in front, and does nothing unless asked to.
NoteActive ==
  /\ scene = "active" /\ seen # "active" /\ seen' = "active"
  /\ ~(automatic /\ backgroundObserved)
  /\ UNCHANGED <<launches, scene, automatic, backgroundObserved, rowVars, flagVars,
                 mappings, visits, preparedIn>>

NoteInactive ==
  /\ scene = "inactive" /\ seen # "inactive" /\ seen' = "inactive"
  /\ UNCHANGED <<launches, scene, automatic, backgroundObserved, rowVars, flagVars,
                 mappings, visits, preparedIn>>

\* The flag the rerun goes by, set before it; the mistake sets it after.
BugFlagForRerun == foregroundSeen
FlagForRerun == TRUE

\* graft_lifecycle_note_foreground, then the probe again.
BugNoteForeground ==
  /\ scene = "active" /\ seen # "active" /\ seen' = "active"
  /\ automatic /\ backgroundObserved /\ backgroundSeen
  /\ foregroundSeen' = TRUE
  /\ IF ready THEN Keep ELSE Prepare
  /\ results' = Appended(results, "lifecycle_jit", IF ready' THEN "PASS" ELSE "FAIL")
  /\ UNCHANGED <<launches, scene, automatic, backgroundObserved, export,
                 backgroundSeen, visits>>
NoteForeground ==
  /\ scene = "active" /\ seen # "active" /\ seen' = "active"
  /\ automatic /\ backgroundObserved /\ backgroundSeen
  /\ foregroundSeen' = TRUE
  /\ \E status \in LifecycleJit(FlagForRerun) :
       results' = Appended(results, "lifecycle_jit", status)
  /\ UNCHANGED <<launches, scene, automatic, backgroundObserved, export,
                 backgroundSeen, prepareError, ready, mappings, visits, preparedIn>>

\* The system ends a suspended app, or the user closes it; it is launched again.
Relaunch ==
  /\ launches < MaxLaunches /\ launches' = launches + 1
  /\ scene' = "inactive" /\ seen' = "inactive"
  /\ backgroundObserved' = FALSE /\ results' = <<>> /\ export' = <<>>
  /\ backgroundSeen' = FALSE /\ foregroundSeen' = FALSE
  /\ prepareError' = "none" /\ ready' = FALSE
  /\ mappings' = 0 /\ visits' = 0 /\ preparedIn' = 0
  /\ UNCHANGED automatic

Next ==
  \/ RunAll \/ ExportReport \/ SetAutomatic
  \/ \E name \in ProbeNames : Run(name)
  \/ \E phase \in Phases : SceneMoves(phase)
  \/ NoteBackground \/ NoteActive \/ NoteInactive \/ NoteForeground
  \/ Relaunch

Spec == Init /\ [][Next]_vars

-----------------------------------------------------------------------------
Rows == {<<>>} \cup {<<a>> : a \in [name : ProbeNames, status : Statuses]}
        \cup {<<a, b>> : a, b \in [name : ProbeNames, status : Statuses]}
RowOf(name) == {results[i].status : i \in {j \in DOMAIN results : results[j].name = name}}

\* Every variable keeps its type; there is never more than a row per probe.
TypeOK ==
  /\ launches \in 0..MaxLaunches /\ visits \in 0..MaxVisits
  /\ scene \in Phases /\ seen \in Phases /\ automatic \in BOOLEAN
  /\ backgroundObserved \in BOOLEAN /\ backgroundSeen \in BOOLEAN
  /\ foregroundSeen \in BOOLEAN /\ ready \in BOOLEAN
  /\ prepareError \in Errors /\ preparedIn \in 0..MaxVisits
  /\ results \in Rows /\ export \in Rows

\* The flags tell the truth about the cache: ready means one committed mapping and no
\* error left over from an earlier attempt, not ready means that nothing is mapped
\* and that a visit to the background has left an error.
CacheTruth ==
  /\ ready => mappings = 1 /\ prepareError = "none" /\ preparedIn > 0
  /\ ~ready => mappings = 0
  /\ backgroundSeen => (ready \/ prepareError # "none")
  /\ backgroundSeen = backgroundObserved

\* A lifecycle PASS is earned in front of the user by the very cache that was
\* committed in an earlier visit to the background: the step that runs it maps nothing.
PassSpansBackground ==
  [][(results' # results /\ "PASS" \in RowOf("lifecycle_jit")') =>
       \/ "PASS" \in RowOf("lifecycle_jit")
       \/ /\ scene = "active" /\ preparedIn \in 1..visits
          /\ mappings' = mappings /\ preparedIn' = preparedIn]_vars

\* Coming back replaces the waiting SKIP of lifecycle_jit, and no later run can
\* bring it back.
NoStaleSkip ==
  foregroundSeen => "SKIP" \notin RowOf("lifecycle_jit")

\* lifecycle_jit run by hand after the app was seen to go to the background and to come
\* back says whether JIT is still usable: it does not ask the user to go there again.
ManualRerunAnswers ==
  (scene = "active" /\ seen = "active" /\ backgroundSeen) =>
    "SKIP" \notin LifecycleJit(foregroundSeen)

\* Each probe has one row: a rerun replaces the row where it stands.
OneRowEach ==
  \A i, j \in DOMAIN results : results[i].name = results[j].name => i = j
=============================================================================
