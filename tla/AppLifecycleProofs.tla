-------------------------- MODULE AppLifecycleProofs --------------------------
(* What GraftHost shows of lifecycle_jit is true, for any number of visits to *)
(* the background and of lives of the app.                                    *)
EXTENDS AppLifecycle, SequenceTheorems, TLAPS

Row == [name : ProbeNames, status : Statuses]
OneRow(rows) == \A i, j \in DOMAIN rows : rows[i].name = rows[j].name => i = j

\* The view has told the probe of the background before it tells of the front, and a
\* cache comes from a visit that has begun.
InOrder ==
  /\ foregroundSeen => backgroundSeen
  /\ scene = "background" => visits > 0
  /\ preparedIn <= visits

\* The inductive invariant.
IInv == TypeOK /\ CacheTruth /\ NoStaleSkip /\ OneRowEach /\ InOrder

\* A list of rows has none, one or two of them.
LEMMA RowsShape ==
  ASSUME NEW rows \in Rows
  PROVE  \/ rows = <<>>
         \/ \E a \in Row : rows = <<a>>
         \/ \E a, b \in Row : rows = <<a, b>>
BY DEF Rows, Row

LEMMA ShapeRows ==
  /\ <<>> \in Rows
  /\ \A a \in Row : <<a>> \in Rows
  /\ \A a, b \in Row : <<a, b>> \in Rows
BY DEF Rows, Row

\* ProbeStore.append replaces the row of the probe where it stands, or adds it at the
\* end; the other row stays.
LEMMA AppendedShape ==
  ASSUME NEW rows \in Rows, OneRow(rows), NEW name \in ProbeNames, NEW status \in Statuses
  PROVE  LET row == [name |-> name, status |-> status]
         IN \/ Appended(rows, name, status) = <<row>>
            \/ \E a \in Row : /\ a.name # name /\ \E i \in DOMAIN rows : rows[i] = a
                              /\ \/ Appended(rows, name, status) = <<a, row>>
                                 \/ Appended(rows, name, status) = <<row, a>>
<1> DEFINE row == [name |-> name, status |-> status]
<1>1. CASE rows = <<>>
  BY <1>1 DEF Appended
<1>2. ASSUME NEW a \in Row, rows = <<a>>, a.name = name
      PROVE  Appended(rows, name, status) = <<row>>
  BY <1>2 DEF Appended
<1>3. ASSUME NEW a \in Row, rows = <<a>>, a.name # name
      PROVE  Appended(rows, name, status) = <<a, row>>
  <2>1. ~ \E i \in DOMAIN rows : rows[i].name = name
    BY <1>3
  <2>2. Append(<<a>>, row) = <<a, row>>
    <3>1. row \in Row /\ <<a>> \in Seq(Row) /\ <<a, row>> \in Seq(Row)
      BY DEF Row
    <3>2. /\ Append(<<a>>, row) \in Seq(Row) /\ Len(Append(<<a>>, row)) = 2
          /\ Append(<<a>>, row)[1] = a /\ Append(<<a>>, row)[2] = row
      BY <3>1, AppendProperties
    <3>3. \A i \in 1..Len(Append(<<a>>, row)) : Append(<<a>>, row)[i] = <<a, row>>[i]
      BY <3>2
    <3> QED
      BY <3>1, <3>2, <3>3, SeqEqual
  <2> QED
    BY <1>3, <2>1, <2>2 DEF Appended
<1>4. ASSUME NEW a \in Row, NEW b \in Row, rows = <<a, b>>
      PROVE  \/ a.name = name /\ b.name # name /\ Appended(rows, name, status) = <<row, b>>
             \/ b.name = name /\ a.name # name /\ Appended(rows, name, status) = <<a, row>>
  <2>1. a.name # b.name
    BY <1>4 DEF OneRow
  <2>2. CASE a.name = name
    BY <1>4, <2>1, <2>2 DEF Appended
  <2>3. CASE b.name = name
    BY <1>4, <2>1, <2>3 DEF Appended
  <2> QED
    BY <2>1, <2>2, <2>3 DEF ProbeNames, Row
<1> QED
  BY <1>1, <1>2, <1>3, <1>4, RowsShape

\* Hence the list stays well formed, the probe has its new status and no other, and the
\* other probe the one it had.
LEMMA AppendedRows ==
  ASSUME NEW rows \in Rows, OneRow(rows), NEW name \in ProbeNames, NEW status \in Statuses
  PROVE  LET new == Appended(rows, name, status)
         IN /\ new \in Rows /\ OneRow(new)
            /\ \A i \in DOMAIN new : \/ new[i].name = name /\ new[i].status = status
                                     \/ \E j \in DOMAIN rows : rows[j] = new[i]
                                        /\ new[i].name # name
<1> DEFINE row == [name |-> name, status |-> status]
<1>1. row \in Row
  BY DEF Row
<1>2. CASE Appended(rows, name, status) = <<row>>
  BY <1>1, <1>2, ShapeRows DEF OneRow
<1>3. ASSUME NEW a \in Row, a.name # name, \E i \in DOMAIN rows : rows[i] = a,
             \/ Appended(rows, name, status) = <<a, row>>
             \/ Appended(rows, name, status) = <<row, a>>
      PROVE  LET new == Appended(rows, name, status)
             IN /\ new \in Rows /\ OneRow(new)
                /\ \A i \in DOMAIN new : \/ new[i].name = name /\ new[i].status = status
                                         \/ \E j \in DOMAIN rows : rows[j] = new[i]
                                            /\ new[i].name # name
  BY <1>1, <1>3, ShapeRows DEF OneRow
<1> QED
  BY <1>2, <1>3, AppendedShape

\* What lifecycle_jit returns is a status; it is SKIP only before the app has come back,
\* and PASS only with a cache.
LEMMA LifecycleStatus ==
  ASSUME NEW foreground \in BOOLEAN, TypeOK
  PROVE  /\ LifecycleJit(foreground) \subseteq Statuses
         /\ "SKIP" \in LifecycleJit(foreground) => ~(backgroundSeen /\ foreground)
         /\ "PASS" \in LifecycleJit(foreground) => ready
BY DEF TypeOK, LifecycleJit, Errors, Statuses

\* A row for one probe, put into the list as ProbeStore.append does, keeps the list's
\* part of the invariant, provided that a row for lifecycle_jit is no stale SKIP.
LEMMA NewRow ==
  ASSUME NEW rows \in Rows, OneRow(rows), NEW name \in ProbeNames, NEW status \in Statuses,
         results' = Appended(rows, name, status),
         foregroundSeen' => \A i \in DOMAIN rows :
           rows[i].name = "lifecycle_jit" => rows[i].status # "SKIP",
         name = "lifecycle_jit" /\ foregroundSeen' => status # "SKIP"
  PROVE  results' \in Rows /\ OneRowEach' /\ NoStaleSkip'
<1>1. /\ results' \in Rows /\ OneRow(results')
      /\ \A i \in DOMAIN results' :
           \/ results'[i].name = name /\ results'[i].status = status
           \/ \E j \in DOMAIN rows : rows[j] = results'[i] /\ results'[i].name # name
  BY AppendedRows
<1>2. OneRowEach'
  BY <1>1 DEF OneRowEach, OneRow
<1>3. ASSUME foregroundSeen', NEW i \in DOMAIN results', results'[i].name = "lifecycle_jit"
      PROVE  results'[i].status # "SKIP"
  BY <1>1, <1>3
<1> QED
  BY <1>1, <1>2, <1>3 DEF NoStaleSkip, RowOf

\* The app starts with nothing shown and nothing prepared.
LEMMA InitIInv == Init => IInv
<1> SUFFICES ASSUME Init PROVE IInv
  OBVIOUS
<1>1. TypeOK
  <2>1. 1 \in 0..MaxLaunches /\ 0 \in 0..MaxVisits
    BY BoundsAssumption
  <2> QED
    BY <2>1, ShapeRows DEF Init, Fresh, TypeOK, Phases, Errors
<1>2. CacheTruth /\ InOrder
  <2>1. ~ready /\ ~backgroundSeen /\ ~foregroundSeen /\ backgroundSeen = backgroundObserved
    BY DEF Init, Fresh
  <2> QED
    BY <2>1 DEF Init, Fresh, CacheTruth, InOrder
<1>3. NoStaleSkip /\ OneRowEach
  BY DEF Init, Fresh, NoStaleSkip, OneRowEach
<1> QED
  BY <1>1, <1>2, <1>3 DEF IInv

\* Every tap, every move of the scene and every reaction of the view to it.
LEMMA StepIInv == IInv /\ [Next]_vars => IInv'
<1> SUFFICES ASSUME IInv, [Next]_vars PROVE IInv'
  OBVIOUS
<1> USE DEF IInv
<1>l. UNCHANGED <<results, foregroundSeen>> => NoStaleSkip' /\ OneRowEach'
  BY DEF NoStaleSkip, OneRowEach, RowOf
<1>o. /\ OneRow(results) /\ results \in Rows
      /\ foregroundSeen => \A i \in DOMAIN results :
           results[i].name = "lifecycle_jit" => results[i].status # "SKIP"
  BY DEF OneRowEach, OneRow, TypeOK, NoStaleSkip, RowOf
<1>0. CASE UNCHANGED vars
  BY <1>0, <1>l DEF vars, uiVars, rowVars, flagVars, TypeOK, CacheTruth, InOrder
<1>1. CASE RunAll
  <2>1. PICK first \in Statuses, last \in LifecycleJit(foregroundSeen) :
          results' = Appended(Appended(<<>>, "runtime_paths", first), "lifecycle_jit", last)
    BY <1>1 DEF RunAll, Outcomes
  <2>2. "runtime_paths" \in ProbeNames /\ "lifecycle_jit" \in ProbeNames
    BY DEF ProbeNames
  <2>3. <<>> \in Rows /\ OneRow(<<>>)
    BY ShapeRows DEF OneRow
  <2> DEFINE rows == Appended(<<>>, "runtime_paths", first)
  <2>4. /\ rows \in Rows /\ OneRow(rows)
        /\ \A i \in DOMAIN rows : rows[i].name = "runtime_paths"
    BY <2>2, <2>3, AppendedRows
  <2>5. last \in Statuses /\ (foregroundSeen => last # "SKIP")
    BY LifecycleStatus DEF TypeOK, InOrder
  <2>6. UNCHANGED <<launches, visits, scene, seen, automatic, backgroundObserved, export,
                    flagVars, mappings, preparedIn>>
    BY <1>1 DEF RunAll, Tap
  <2>7. results' \in Rows /\ OneRowEach' /\ NoStaleSkip'
    <3> HIDE DEF rows
    <3>1. results' = Appended(rows, "lifecycle_jit", last)
      BY <2>1 DEF rows
    <3>2. foregroundSeen' = foregroundSeen
      BY <2>6 DEF flagVars
    <3> QED
      BY <2>2, <2>4, <2>5, <3>1, <3>2, NewRow
  <2> QED
    BY <2>6, <2>7 DEF flagVars, TypeOK, CacheTruth, InOrder
<1>2. ASSUME NEW name \in ProbeNames, Run(name) PROVE IInv'
  <2>1. PICK status \in Outcomes(name) : results' = Appended(results, name, status)
    BY <1>2 DEF Run
  <2>2. status \in Statuses
        /\ (name = "lifecycle_jit" /\ foregroundSeen => status # "SKIP")
    BY <2>1, LifecycleStatus DEF Outcomes, TypeOK, InOrder
  <2>3. UNCHANGED <<launches, visits, scene, seen, automatic, backgroundObserved, export,
                    flagVars, mappings, preparedIn>>
    BY <1>2 DEF Run, Tap
  <2>4. results' \in Rows /\ OneRowEach' /\ NoStaleSkip'
    <3>1. foregroundSeen' = foregroundSeen
      BY <2>3 DEF flagVars
    <3> QED
      BY <1>o, <2>1, <2>2, <3>1, NewRow
  <2> QED
    BY <2>3, <2>4 DEF flagVars, TypeOK, CacheTruth, InOrder
<1>3. CASE ExportReport \/ SetAutomatic
  <2>1. /\ automatic' \in BOOLEAN /\ export' \in Rows
        /\ UNCHANGED <<launches, visits, scene, seen, backgroundObserved, results,
                       backgroundSeen, foregroundSeen, prepareError, ready, mappings,
                       preparedIn>>
    BY <1>3 DEF ExportReport, SetAutomatic, Tap, rowVars, flagVars, TypeOK
  <2> QED
    BY <1>l, <2>1 DEF TypeOK, CacheTruth, InOrder
<1>4. ASSUME NEW phase \in Phases, SceneMoves(phase) PROVE IInv'
  <2>1. /\ visits' \in 0..MaxVisits /\ visits' >= visits
        /\ phase = "background" => visits' > 0
    BY <1>4, BoundsAssumption DEF SceneMoves, TypeOK
  <2> QED
    BY <1>4, <1>l, <2>1, BoundsAssumption
       DEF SceneMoves, rowVars, flagVars, TypeOK, CacheTruth, InOrder
<1>5. CASE NoteBackground
  <2>1. visits > 0 /\ UNCHANGED <<results, foregroundSeen>>
    BY <1>5 DEF NoteBackground, InOrder, rowVars
  <2>2. TypeOK'
    BY <1>5 DEF NoteBackground, Keep, Prepare, ErrorAfterSuccess, rowVars, TypeOK, Phases,
                Errors
  <2>3. CacheTruth'
    BY <1>5, <2>1 DEF NoteBackground, Keep, Prepare, Unmapped, ErrorAfterSuccess, CacheTruth, Errors,
                      TypeOK
  <2>4. InOrder'
    BY <1>5, BoundsAssumption DEF NoteBackground, Keep, Prepare, InOrder, TypeOK
  <2> QED
    BY <1>l, <2>1, <2>2, <2>3, <2>4
<1>6. CASE NoteActive \/ NoteInactive
  BY <1>6, <1>l DEF NoteActive, NoteInactive, rowVars, flagVars, TypeOK, CacheTruth, InOrder,
                    Phases
<1>7. CASE NoteForeground
  <2>0. PICK status \in LifecycleJit(TRUE) :
          results' = Appended(results, "lifecycle_jit", status)
    BY <1>7 DEF NoteForeground, FlagForRerun
  <2>1. results' = Appended(results, "lifecycle_jit", status) /\ backgroundSeen
    BY <2>0, <1>7 DEF NoteForeground, FlagForRerun
  <2>2. status \in Statuses /\ status # "SKIP"
    BY <2>0, <2>1, LifecycleStatus
  <2>3. results' \in Rows /\ OneRowEach' /\ NoStaleSkip'
    <3>1. \A i \in DOMAIN Appended(results, "lifecycle_jit", status) :
            Appended(results, "lifecycle_jit", status)[i].name = "lifecycle_jit"
              => Appended(results, "lifecycle_jit", status)[i].status # "SKIP"
      BY <1>o, <2>2, AppendedRows DEF ProbeNames
    <3>2. results' \in Rows /\ OneRow(results')
      BY <1>o, <2>1, <2>2, AppendedRows DEF ProbeNames
    <3> QED
      BY <2>1, <3>1, <3>2 DEF OneRow, OneRowEach, NoStaleSkip, RowOf
  <2> QED
    BY <1>7, <2>3 DEF NoteForeground, TypeOK, CacheTruth, InOrder, Phases
<1>8. CASE Relaunch
  <2>1. launches' \in 0..MaxLaunches /\ 0 \in 0..MaxVisits
    BY <1>8, BoundsAssumption DEF Relaunch, TypeOK
  <2>2. TypeOK'
    BY <1>8, <2>1, ShapeRows DEF Relaunch, TypeOK, Phases, Errors
  <2>3. ~ready' /\ ~backgroundSeen' /\ ~foregroundSeen'
        /\ backgroundSeen' = backgroundObserved'
    BY <1>8 DEF Relaunch
  <2>4. CacheTruth' /\ InOrder'
    BY <1>8, <2>3 DEF Relaunch, CacheTruth, InOrder
  <2> QED
    BY <1>8, <2>2, <2>3, <2>4 DEF Relaunch, NoStaleSkip, OneRowEach
<1> QED
  BY <1>0, <1>1, <1>2, <1>3, <1>4, <1>5, <1>6, <1>7, <1>8 DEF Next

\* The inductive invariant holds throughout.
LEMMA Inductive == Spec => []IInv
BY InitIInv, StepIInv, PTL DEF Spec

\* Every variable keeps its type, and the list never has more rows than there are probes.
THEOREM TypeCorrect == Spec => []TypeOK
<1>1. IInv => TypeOK
  BY DEF IInv
<1> QED
  BY <1>1, Inductive, PTL

\* g_lifecycle_ready and the error kept beside it tell the truth about the code cache,
\* however often preparing it failed before.
THEOREM FlagsTellTheTruth == Spec => []CacheTruth
<1>1. IInv => CacheTruth
  BY DEF IInv
<1> QED
  BY <1>1, Inductive, PTL

\* Once graft_lifecycle_note_foreground has run, no row for lifecycle_jit says SKIP.
THEOREM SkipIsReplaced == Spec => []NoStaleSkip
<1>1. IInv => NoStaleSkip
  BY DEF IInv
<1> QED
  BY <1>1, Inductive, PTL

\* ProbeStore.append never leaves two rows for a probe.
THEOREM RowsAreUnique == Spec => []OneRowEach
<1>1. IInv => OneRowEach
  BY DEF IInv
<1> QED
  BY <1>1, Inductive, PTL

\* A row that comes to say PASS for lifecycle_jit was run in front, with the cache that
\* an earlier visit to the background had committed.
THEOREM PassIsEarned == Spec => PassSpansBackground
<1>1. IInv /\ [Next]_vars =>
        [(results' # results /\ "PASS" \in RowOf("lifecycle_jit")') =>
           \/ "PASS" \in RowOf("lifecycle_jit")
           \/ /\ scene = "active" /\ preparedIn \in 1..visits
              /\ mappings' = mappings /\ preparedIn' = preparedIn]_vars
  <2> SUFFICES ASSUME IInv, Next, results' # results, "PASS" \in RowOf("lifecycle_jit")',
                      "PASS" \notin RowOf("lifecycle_jit")
               PROVE  /\ scene = "active" /\ preparedIn \in 1..visits
                      /\ mappings' = mappings /\ preparedIn' = preparedIn
    OBVIOUS
  <2>1. PICK i \in DOMAIN results' : results'[i].name = "lifecycle_jit"
                                     /\ results'[i].status = "PASS"
    BY DEF RowOf
  <2>2. \A j \in DOMAIN results :
          ~(results[j].name = "lifecycle_jit" /\ results[j].status = "PASS")
    BY DEF RowOf
  <2>o. OneRow(results) /\ results \in Rows
    BY DEF IInv, OneRowEach, OneRow, TypeOK
  <2>3. ready => preparedIn \in 1..visits
    BY DEF IInv, CacheTruth, InOrder, TypeOK
  <2>4. CASE RunAll
    <3>1. PICK first \in Statuses, last \in LifecycleJit(foregroundSeen) :
            results' = Appended(Appended(<<>>, "runtime_paths", first), "lifecycle_jit", last)
      BY <2>4 DEF RunAll, Outcomes
    <3>2. "runtime_paths" \in ProbeNames /\ "lifecycle_jit" \in ProbeNames
          /\ last \in Statuses
      BY LifecycleStatus DEF ProbeNames, IInv, TypeOK
    <3>3. <<>> \in Rows /\ OneRow(<<>>)
      BY ShapeRows DEF OneRow
    <3> DEFINE rows == Appended(<<>>, "runtime_paths", first)
    <3>4. /\ rows \in Rows /\ OneRow(rows)
          /\ \A j \in DOMAIN rows : rows[j].name = "runtime_paths"
      BY <3>2, <3>3, AppendedRows
    <3>5. last = "PASS"
      <4> HIDE DEF rows
      <4>1. results' = Appended(rows, "lifecycle_jit", last)
        BY <3>1 DEF rows
      <4> QED
        BY <2>1, <3>2, <3>4, <4>1, AppendedRows
    <3> QED
      BY <2>3, <2>4, <3>5, LifecycleStatus DEF RunAll, Tap, IInv, TypeOK
  <2>5. ASSUME NEW name \in ProbeNames, Run(name)
        PROVE  /\ scene = "active" /\ preparedIn \in 1..visits
               /\ mappings' = mappings /\ preparedIn' = preparedIn
    <3>1. PICK status \in Outcomes(name) : results' = Appended(results, name, status)
      BY <2>5 DEF Run
    <3>2. status \in Statuses
      BY <3>1, LifecycleStatus DEF Outcomes, IInv, TypeOK
    <3>3. name = "lifecycle_jit" /\ status = "PASS"
      BY <2>1, <2>2, <2>o, <3>1, <3>2, AppendedRows
    <3> QED
      BY <2>3, <2>5, <3>1, <3>3, LifecycleStatus DEF Outcomes, Run, Tap, IInv, TypeOK
  <2>6. CASE NoteForeground
    <3>1. PICK status \in LifecycleJit(TRUE) :
            results' = Appended(results, "lifecycle_jit", status)
      BY <2>6 DEF NoteForeground, FlagForRerun
    <3>2. status \in Statuses
      BY <3>1, LifecycleStatus DEF IInv
    <3>3. status = "PASS"
      BY <2>1, <2>2, <2>o, <3>1, <3>2, AppendedRows DEF ProbeNames
    <3> QED
      BY <2>3, <2>6, <3>1, <3>3, LifecycleStatus DEF NoteForeground, IInv
  <2>7. CASE Relaunch
    BY <2>1, <2>7 DEF Relaunch
  <2> QED
    BY <2>4, <2>5, <2>6, <2>7
       DEF Next, ExportReport, SetAutomatic, Tap, SceneMoves, NoteBackground, NoteActive,
           NoteInactive, rowVars
<1> QED
  BY <1>1, Inductive, PTL DEF Spec, PassSpansBackground
=============================================================================
