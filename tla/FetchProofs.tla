------------------------------ MODULE FetchProofs ------------------------------
(* What fetch-upstream.sh vouches for and what apply-patches.sh builds from,  *)
(* for any set of commits and any number of edits of the lock.                *)
EXTENDS Fetch, TLAPS

\* The rows that this fetch has written are those of the dependencies before the
\* present one, in order.
RowsInOrder ==
  at \in FetchSteps \ {"manifest"} =>
    /\ Len(manifest) = i - 1
    /\ \A k \in DOMAIN manifest : manifest[k].name = Order[k]

\* Both scripts begin with the first dependency.
Started == at \in {"manifest", "check"} => i = 1

\* Past the hash, the present archive is the one the lock names.
Hashed == at \in {"directory", "tar", "row"} => HashOf(File) = records[Name].sha

\* Past the check, the accepted rows are the lock's and their archives are whole; the
\* dependencies before the present one are prepared, at the end all of them.
Accepted ==
  at \in {"clear", "unpack", "prepared"} =>
    \A d \in Deps : /\ accepted[d] = lock[d] /\ lock[d].sha = lock[d].commit
                    /\ archive[<<d, lock[d].commit>>] = "whole"
Unpacking ==
  at \in {"clear", "unpack", "prepared"} =>
    \A k \in DOMAIN Order : k < i \/ at = "prepared" =>
      prepared[<<Order[k], lock[Order[k]].commit>>] = "whole"

\* The inductive invariant.
IInv == TypeOK /\ RowsVouch /\ Started /\ RowsInOrder /\ Hashed /\ Accepted /\ Unpacking

\* The two dependencies of deps.lock.
LEMMA OrderFacts ==
  /\ DOMAIN Order = {1, 2} /\ Len(Order) = 2 /\ Deps = {"wine", "fex"}
  /\ Order[1] = "wine" /\ Order[2] = "fex"
BY DEF Order, Deps

\* A hash that is a commit's is that of the whole archive of that commit.
LEMMA HashIsWhole ==
  ASSUME TypeOK, NEW f \in Files, NEW sha \in Commits, HashOf(f) = sha
  PROVE  archive[f] = "whole" /\ f[2] = sha
BY FetchAssumption DEF TypeOK, HashOf, Contents

\* Nothing is fetched or accepted at first.
LEMMA InitIInv == Init => IInv
<1> SUFFICES ASSUME Init PROVE IInv
  OBVIOUS
<1>1. lock \in [Deps -> Entries] /\ 0 \in 0..MaxEdits /\ 1 \in DOMAIN Order
  BY FetchAssumption, OrderFacts DEF Init
<1>2. manifest \in Seq(Rows) /\ Len(manifest) <= Len(Order) /\ DOMAIN manifest = {}
  BY OrderFacts DEF Init
<1>3. TypeOK
  BY <1>1, <1>2 DEF Init, TypeOK, Contents
<1> QED
  BY <1>2, <1>3 DEF Init, IInv, RowsVouch, Started, RowsInOrder, Hashed, Accepted, Unpacking,
                    FetchSteps

\* Every command of the two scripts, their end at any of them, and every edit.
LEMMA StepIInv == IInv /\ [Next]_vars => IInv'
<1> SUFFICES ASSUME IInv, [Next]_vars PROVE IInv'
  OBVIOUS
<1> USE DEF IInv
<1>i. i \in {1, 2} /\ Name \in Deps /\ File \in Files
      /\ records[Name].sha \in Commits /\ File[1] = Name
  BY OrderFacts DEF TypeOK, Name, File, Files, Entries
<1>s. /\ \A d \in Deps : lock[d].commit \in Commits /\ accepted[d].commit \in Commits
      /\ Source \in Files
  BY <1>i DEF TypeOK, Entries, Files, Source
<1>v. UNCHANGED <<archive, manifest>> => RowsVouch'
  BY DEF RowsVouch, HashOf
<1>m. \A k \in DOMAIN manifest : manifest[k] \in Rows /\ manifest[k].name \in Deps
  <2>1. \A k \in DOMAIN manifest : manifest[k] \in Rows
    BY DEF TypeOK
  <2> QED
    BY <2>1 DEF Rows
<1>0. CASE UNCHANGED vars
  BY <1>0, <1>v DEF vars, TypeOK, Started, RowsInOrder, Hashed, HashOf, File, Name, Accepted, Unpacking
<1>1. ASSUME NEW d \in Deps, NEW e \in Entries, EditLock(d, e) PROVE IInv'
  <2>1. TypeOK'
    BY <1>1, FetchAssumption DEF EditLock, TypeOK
  <2> QED
    BY <1>1, <1>v, <2>1 DEF EditLock, Started, RowsInOrder, Hashed, Accepted, Unpacking, FetchSteps
<1>2. ASSUME NEW f \in Files, DeleteArchive(f) PROVE IInv'
  <2>1. TypeOK'
    BY <1>2, FetchAssumption DEF DeleteArchive, TypeOK, Contents
  <2>2. RowsVouch'
    <3> SUFFICES ASSUME NEW k \in DOMAIN manifest
                 PROVE  HashOf(<<manifest[k].name, manifest[k].commit>>)'
                          \in {manifest[k].sha, "absent"}
      BY <1>2 DEF DeleteArchive, RowsVouch
    <3>1. <<manifest[k].name, manifest[k].commit>> \in Files
      BY <1>m DEF Files, Rows
    <3> QED
      BY <1>2, <3>1 DEF DeleteArchive, RowsVouch, HashOf, TypeOK
  <2> QED
    BY <1>2, <2>1, <2>2 DEF DeleteArchive, Started, RowsInOrder, Hashed, Accepted, Unpacking, FetchSteps
<1>3. CASE Stop
  BY <1>3, <1>v DEF Stop, TypeOK, Started, RowsInOrder, Hashed, Accepted, Unpacking, FetchSteps
<1>4. CASE StartFetch
  <2>1. TypeOK'
    BY <1>4, OrderFacts DEF StartFetch, TypeOK, FetchSteps
  <2> QED
    BY <1>4, <1>v, <2>1 DEF StartFetch, Started, RowsInOrder, Hashed, Accepted, Unpacking
<1>5. CASE WriteHeader
  <2>1. i = 1
    BY <1>5 DEF WriteHeader, Started
  <2> QED
    BY <1>5, OrderFacts DEF WriteHeader, Header, TypeOK, RowsVouch, Started, RowsInOrder, Hashed,
                            Accepted, Unpacking, FetchSteps
<1>6. CASE Test
  <2>1. TypeOK'
    BY <1>6 DEF Test, TypeOK, FetchSteps
  <2> QED
    BY <1>6, <1>v, <2>1 DEF Test, Started, RowsInOrder, Hashed, Accepted, Unpacking, FetchSteps
<1>7. CASE CurlOpens \/ CurlEnds
  <2>1. PICK content \in Contents : archive' = [archive EXCEPT ![File] = content]
    BY <1>7 DEF CurlOpens, CurlEnds, Contents
  <2>2. at = "curl" /\ at' \in {"curl", "hash"}
        /\ UNCHANGED <<lock, edits, records, i, tree, manifest, prepared, accepted>>
    BY <1>7 DEF CurlOpens, CurlEnds
  <2>3. TypeOK'
    BY <2>1, <2>2 DEF TypeOK, FetchSteps
  <2>4. RowsVouch'
    <3> SUFFICES ASSUME NEW k \in DOMAIN manifest
                 PROVE  HashOf(<<manifest[k].name, manifest[k].commit>>)'
                          \in {manifest[k].sha, "absent"}
      BY <2>2 DEF RowsVouch
    <3>1. manifest[k].name # Name
      <4>1. k \in 1..(i - 1) /\ manifest[k].name = Order[k]
        BY <2>2 DEF RowsInOrder, FetchSteps, TypeOK
      <4> QED
        BY <1>i, <4>1, OrderFacts DEF Name
    <3>2. <<manifest[k].name, manifest[k].commit>> # File
      BY <1>i, <3>1 DEF File
    <3>3. <<manifest[k].name, manifest[k].commit>> \in Files
      BY <1>m DEF Files, Rows
    <3>4. archive'[<<manifest[k].name, manifest[k].commit>>]
            = archive[<<manifest[k].name, manifest[k].commit>>]
      BY <2>1, <3>2, <3>3 DEF TypeOK
    <3> QED
      BY <2>2, <3>4 DEF RowsVouch, HashOf
  <2> QED
    BY <2>2, <2>3, <2>4 DEF Started, RowsInOrder, Hashed, Accepted, Unpacking, FetchSteps
<1>8. CASE Hash
  <2>1. HashOf(File)' = records'[Name'].sha
    BY <1>8 DEF Hash, SameHash, HashOf, File, Name
  <2>2. TypeOK'
    BY <1>8 DEF Hash, TypeOK, FetchSteps
  <2> QED
    BY <1>8, <1>v, <2>1, <2>2 DEF Hash, Started, RowsInOrder, Hashed, Accepted, Unpacking, FetchSteps
<1>9. CASE MakeDirectory \/ Tar
  <2>1. PICK content \in Contents : tree' = [tree EXCEPT ![File] = content]
    BY <1>9, <1>i DEF MakeDirectory, Tar, Contents, TypeOK
  <2>2. /\ at \in {"directory", "tar"} /\ at' \in {"tar", "row"}
        /\ UNCHANGED <<lock, edits, records, i, archive, manifest, prepared, accepted>>
    BY <1>9 DEF MakeDirectory, Tar
  <2>3. TypeOK'
    BY <2>1, <2>2 DEF TypeOK, FetchSteps
  <2>4. Hashed'
    BY <2>2 DEF Hashed, HashOf, File, Name
  <2> QED
    BY <1>v, <2>2, <2>3, <2>4 DEF Started, RowsInOrder, Accepted, Unpacking, FetchSteps
<1>10. CASE WriteRow
  <2> DEFINE row == [name |-> Name, commit |-> File[2], sha |-> records[Name].sha]
  <2>1. row \in Rows /\ File = <<row.name, row.commit>>
    BY <1>i DEF Rows, TypeOK, Entries, File
  <2>2. manifest' = Append(manifest, row)
    BY <1>10 DEF WriteRow
  <2> HIDE DEF row
  <2>3. /\ manifest' \in Seq(Rows) /\ Len(manifest') = Len(manifest) + 1
        /\ Len(manifest) \in Nat /\ Len(manifest) = i - 1
        /\ \A k \in 1..Len(manifest) : manifest'[k] = manifest[k]
        /\ manifest'[Len(manifest) + 1] = row
    BY <1>10, <2>1, <2>2 DEF WriteRow, RowsInOrder, FetchSteps, TypeOK
  <2>4. DOMAIN manifest' = 1..i /\ DOMAIN manifest = 1..(i - 1)
    BY <1>i, <2>3 DEF TypeOK
  <2>5. /\ at' \in {"test", "fetched"} /\ i' \in {1, 2} /\ (at' = "test" => i' = i + 1)
        /\ UNCHANGED <<lock, edits, records, archive, tree, prepared, accepted>>
    BY <1>10, <1>i, OrderFacts DEF WriteRow
  <2>6. TypeOK'
    BY <1>i, <2>3, <2>5, OrderFacts DEF TypeOK, FetchSteps
  <2>7. RowsVouch'
    <3> SUFFICES ASSUME NEW k \in 1..i
                 PROVE  HashOf(<<manifest'[k].name, manifest'[k].commit>>)
                          \in {manifest'[k].sha, "absent"}
      BY <2>4, <2>5 DEF RowsVouch, HashOf
    <3>1. CASE k = i
      <4>1. manifest'[k] = row
        BY <1>i, <2>3, <3>1
      <4>2. HashOf(File) = row.sha
        BY <1>10 DEF WriteRow, Hashed, row
      <4> QED
        BY <2>1, <4>1, <4>2
    <3>2. CASE k \in 1..(i - 1)
      BY <2>3, <2>4, <3>2 DEF RowsVouch
    <3> QED
      BY <1>i, <3>1, <3>2
  <2>8. RowsInOrder'
    <3>1. ASSUME NEW k \in 1..i PROVE manifest'[k].name = Order[k]
      <4>1. CASE k = i
        BY <1>i, <2>3, <4>1 DEF row, Name
      <4>2. CASE k \in 1..(i - 1)
        BY <1>10, <2>3, <2>4, <4>2 DEF WriteRow, RowsInOrder, FetchSteps
      <4> QED
        BY <1>i, <4>1, <4>2
    <3>2. at' = "test" => Len(manifest') = i' - 1
      BY <1>i, <2>3, <2>5
    <3> QED
      BY <2>4, <2>5, <3>1, <3>2 DEF RowsInOrder, FetchSteps
  <2> QED
    BY <2>5, <2>6, <2>7, <2>8 DEF Started, Hashed, Accepted, Unpacking
<1>11. CASE StartApply
  <2>1. TypeOK'
    BY <1>11, OrderFacts DEF StartApply, TypeOK, ApplySteps
  <2> QED
    BY <1>11, <1>v, <2>1 DEF StartApply, Started, RowsInOrder, Hashed, Accepted, Unpacking, FetchSteps
<1>12. CASE Check
  <2>1. ASSUME NEW d \in Deps
        PROVE  \E row \in RowsFor(d) :
                 /\ row \in Rows /\ row.name = d /\ Agrees(row)
                 /\ HashOf(<<d, row.commit>>) = row.sha
                 /\ accepted'[d] = [commit |-> row.commit, sha |-> row.sha]
    <3>1. PICK row \in RowsFor(d) : row = CHOOSE r \in RowsFor(d) : TRUE
      BY <1>12 DEF Check
    <3>2. row \in Rows /\ row.name = d
      BY <1>m, <3>1 DEF RowsFor
    <3> QED
      BY <1>12, <3>1, <3>2 DEF Check, SameHash
  <2>2. ASSUME NEW d \in Deps
        PROVE  /\ accepted'[d] = lock[d] /\ lock[d].sha = lock[d].commit
               /\ archive[<<d, lock[d].commit>>] = "whole"
    <3>1. PICK row \in RowsFor(d) :
                 /\ row \in Rows /\ row.name = d /\ Agrees(row)
                 /\ HashOf(<<d, row.commit>>) = row.sha
                 /\ accepted'[d] = [commit |-> row.commit, sha |-> row.sha]
      BY <2>1
    <3>2. row.commit = lock[d].commit /\ row.sha = lock[d].sha /\ lock[d] \in Entries
      BY <3>1 DEF Agrees, TypeOK
    <3>3. accepted'[d] = lock[d]
      BY <3>1, <3>2 DEF Entries
    <3>4. <<d, row.commit>> \in Files /\ row.sha \in Commits
      BY <3>1 DEF Files, Rows
    <3>5. archive[<<d, row.commit>>] = "whole" /\ row.commit = row.sha
      BY <3>1, <3>4, HashIsWhole
    <3> QED
      BY <3>2, <3>3, <3>5
  <2>3. accepted' \in [Deps -> Entries]
    <3>1. accepted' = [d \in Deps |-> accepted'[d]]
      BY <1>12 DEF Check
    <3> QED
      BY <2>2, <3>1 DEF TypeOK
  <2>4. TypeOK'
    BY <1>12, <2>3 DEF Check, TypeOK, ApplySteps
  <2>5. i = 1
    BY <1>12 DEF Check, Started
  <2> QED
    BY <1>12, <1>v, <2>2, <2>4, <2>5, OrderFacts
       DEF Check, Started, RowsInOrder, Hashed, Accepted, Unpacking, FetchSteps
<1>13. CASE Clear \/ Unpack
  <2>1. Source = <<Name, lock[Name].commit>> /\ archive[Source] = "whole"
    BY <1>13, <1>i DEF Clear, Unpack, Accepted, Source
  <2>2. PICK content \in {"partial", "whole"} :
          /\ prepared' = [prepared EXCEPT ![Source] = content]
          /\ at = "unpack" => content = "whole"
    BY <1>13, <2>1 DEF Clear, Unpack, Unpacked
  <2>3. /\ at \in {"clear", "unpack"} /\ at' \in {"clear", "unpack", "prepared"}
        /\ at = "clear" => at' = "unpack" /\ i' = i
        /\ at = "unpack" => IF i = 1 THEN at' = "clear" /\ i' = 2
                                     ELSE at' = "prepared" /\ i' = 2
        /\ UNCHANGED <<lock, edits, records, archive, tree, manifest, accepted>>
    BY <1>13, <1>i, OrderFacts DEF Clear, Unpack
  <2>4. TypeOK'
    BY <1>i, <1>s, <2>2, <2>3, OrderFacts DEF TypeOK, ApplySteps, Contents
  <2>5. Accepted'
    BY <2>3 DEF Accepted
  <2>6. Unpacking'
    <3> SUFFICES ASSUME NEW k \in {1, 2}, k < i' \/ at' = "prepared"
                 PROVE  prepared'[<<Order[k], lock[Order[k]].commit>>] = "whole"
      BY <2>3, OrderFacts DEF Unpacking
    <3>1. <<Order[k], lock[Order[k]].commit>> \in Files
      BY <1>s, OrderFacts DEF Files
    <3>2. CASE k = i
      BY <1>s, <2>1, <2>2, <2>3, <3>2 DEF TypeOK, Name
    <3>3. CASE k # i
      <4>1. k < i
        BY <1>i, <2>3, <3>3
      <4>2. prepared[<<Order[k], lock[Order[k]].commit>>] = "whole"
        BY <2>3, <4>1, OrderFacts DEF Unpacking
      <4>3. <<Order[k], lock[Order[k]].commit>> # Source
        BY <1>i, <2>1, <3>3, OrderFacts DEF Name
      <4> QED
        BY <2>2, <3>1, <4>2, <4>3 DEF TypeOK
    <3> QED
      BY <3>2, <3>3
  <2> QED
    BY <1>v, <2>3, <2>4, <2>5, <2>6 DEF Started, RowsInOrder, Hashed, FetchSteps
<1> QED
  BY <1>0, <1>1, <1>2, <1>3, <1>4, <1>5, <1>6, <1>7, <1>8, <1>9, <1>10, <1>11, <1>12, <1>13
     DEF Next

\* The inductive invariant holds throughout.
LEMMA Inductive == Spec => []IInv
BY InitIInv, StepIInv, PTL DEF Spec

\* Every variable keeps its type, and the manifest never has a row too many.
THEOREM TypeCorrect == Spec => []TypeOK
<1>1. IInv => TypeOK
  BY DEF IInv
<1> QED
  BY <1>1, Inductive, PTL

\* A row of fetched-manifest.tsv vouches for its archive for as long as it stands,
\* whenever fetch-upstream.sh is broken off and however the lock is edited.
THEOREM RowsAreTrue == Spec => []RowsVouch
<1>1. IInv => RowsVouch
  BY DEF IInv
<1> QED
  BY <1>1, Inductive, PTL

\* When apply-patches.sh is through, each prepared source is the whole archive that
\* the lock names, with the hash the lock gives.
THEOREM SourcesAreLocked == Spec => []PreparedIsLocked
<1>1. IInv => PreparedIsLocked
  BY OrderFacts DEF IInv, Accepted, Unpacking, PreparedIsLocked
<1> QED
  BY <1>1, Inductive, PTL
=============================================================================
