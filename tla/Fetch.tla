-------------------------------- MODULE Fetch --------------------------------
(***************************************************************************)
(* fetch-upstream.sh and the part of apply-patches.sh that decides which   *)
(* sources are built: a cache of archives and extracted trees that         *)
(* outlives every run, a manifest of what was fetched, and the lock, which *)
(* the developer edits.  Both scripts stop at the first failing command,   *)
(* may be killed between any two, and are not run at the same time.        *)
(*                                                                         *)
(* The hash of the whole archive of a commit is written as that commit.    *)
(* What the server sends may be something else.  Patching is in            *)
(* RuntimeBuild, which takes for granted what is shown here.               *)
(***************************************************************************)
EXTENDS Naturals, Sequences

CONSTANTS
  Commits,     \* the commits that a lock may name
  MaxEdits     \* bound: edits of the lock, and archives deleted by hand

ASSUME FetchAssumption ==
  /\ Commits # {} /\ MaxEdits \in Nat
  /\ Commits \cap {"absent", "partial", "other"} = {}   \* no hash of a whole archive

Order == <<"wine", "fex">>    \* as in deps.lock
Deps == {Order[i] : i \in DOMAIN Order}
Entries == [commit : Commits, sha : Commits]
Rows == [name : Deps, commit : Commits, sha : Commits]

VARIABLES
  lock,      \* deps.lock: a commit and the hash of its archive for each dependency
  edits,
  records,   \* DEPS: the lock as the fetch read it
  at, i,     \* the step, and the dependency it is about
  archive,   \* downloads/<name>-<commit>.tar.gz
  tree,      \* <name>-<commit>/: what fetch-upstream.sh extracted
  manifest,  \* the rows of fetched-manifest.tsv
  prepared,  \* build/sources/<name>-<commit>/: the content that was extracted
  accepted   \* the rows that apply-patches.sh has accepted

vars == <<lock, edits, records, at, i, archive, tree, manifest, prepared, accepted>>

Files == Deps \X Commits
Contents == {"absent", "partial", "other", "whole"}
FetchSteps == {"manifest", "test", "curl", "hash", "directory", "tar", "row"}
ApplySteps == {"check", "clear", "unpack"}

Init ==
  /\ lock \in [Deps -> {e \in Entries : e.commit = e.sha}] /\ edits = 0
  /\ records = lock /\ at = "idle" /\ i = 1
  /\ archive = [f \in Files |-> "absent"] /\ tree = archive /\ prepared = archive
  /\ manifest = <<>> /\ accepted = lock

Name == Order[i]
File == <<Name, records[Name].commit>>
Source == <<Name, accepted[Name].commit>>

Resting == at \in {"idle", "fetched", "prepared"}

-----------------------------------------------------------------------------
(* The developer. *)

\* A new commit, with its hash or with one that was not brought up to date.
EditLock(d, e) ==
  /\ Resting /\ edits < MaxEdits /\ e # lock[d]
  /\ lock' = [lock EXCEPT ![d] = e] /\ edits' = edits + 1 /\ at' = "idle"
  /\ UNCHANGED <<records, i, archive, tree, manifest, prepared, accepted>>

\* The only way to get rid of an archive that does not match.
DeleteArchive(f) ==
  /\ Resting /\ edits < MaxEdits /\ archive[f] # "absent"
  /\ archive' = [archive EXCEPT ![f] = "absent"] /\ edits' = edits + 1 /\ at' = "idle"
  /\ UNCHANGED <<lock, records, i, tree, manifest, prepared, accepted>>

\* set -e, and the end of the process: nothing is taken back.
Stop ==
  /\ ~Resting /\ at' = "idle"
  /\ UNCHANGED <<lock, edits, records, i, archive, tree, manifest, prepared, accepted>>

-----------------------------------------------------------------------------
(* fetch-upstream.sh *)

StartFetch ==
  /\ Resting /\ at' = "manifest" /\ records' = lock /\ i' = 1
  /\ UNCHANGED <<lock, edits, archive, tree, manifest, prepared, accepted>>

\* The manifest starts anew.
BugHeader == manifest
Header == <<>>

WriteHeader ==
  /\ at = "manifest" /\ at' = "test" /\ manifest' = Header
  /\ UNCHANGED <<lock, edits, records, i, archive, tree, prepared, accepted>>

\* An archive that is there is not fetched again, whatever it holds.
Test ==
  /\ at = "test" /\ at' = IF archive[File] = "absent" THEN "curl" ELSE "hash"
  /\ UNCHANGED <<lock, edits, records, i, archive, tree, manifest, prepared, accepted>>

\* curl writes the file in place.
CurlOpens ==
  /\ at = "curl" /\ archive[File] = "absent"
  /\ archive' = [archive EXCEPT ![File] = "partial"]
  /\ UNCHANGED <<lock, edits, records, at, i, tree, manifest, prepared, accepted>>

CurlEnds ==
  /\ at = "curl" /\ archive[File] = "partial" /\ at' = "hash"
  /\ \E content \in {"whole", "other"} : archive' = [archive EXCEPT ![File] = content]
  /\ UNCHANGED <<lock, edits, records, i, tree, manifest, prepared, accepted>>

HashOf(f) == IF archive[f] = "whole" THEN f[2] ELSE archive[f]

\* The hash is compared whether or not the archive was fetched just now.
BugSameHash(f, sha) == archive[f] # "absent"
SameHash(f, sha) == HashOf(f) = sha

Hash ==
  /\ at = "hash" /\ SameHash(File, records[Name].sha)
  /\ at' = IF tree[File] = "absent" THEN "directory" ELSE "row"
  /\ UNCHANGED <<lock, edits, records, i, archive, tree, manifest, prepared, accepted>>

MakeDirectory ==
  /\ at = "directory" /\ at' = "tar"
  /\ tree' = [tree EXCEPT ![File] = "partial"]
  /\ UNCHANGED <<lock, edits, records, i, archive, manifest, prepared, accepted>>

Tar ==
  /\ at = "tar" /\ at' = "row"
  /\ tree' = [tree EXCEPT ![File] = archive[File]]
  /\ UNCHANGED <<lock, edits, records, i, archive, manifest, prepared, accepted>>

WriteRow ==
  /\ at = "row"
  /\ manifest' = Append(manifest, [name |-> Name, commit |-> File[2],
                                   sha |-> records[Name].sha])
  /\ IF i < Len(Order) THEN at' = "test" /\ i' = i + 1 ELSE at' = "fetched" /\ i' = i
  /\ UNCHANGED <<lock, edits, records, archive, tree, prepared, accepted>>

-----------------------------------------------------------------------------
(* apply-patches.sh *)

StartApply ==
  /\ Resting /\ at' = "check" /\ i' = 1
  /\ UNCHANGED <<lock, edits, records, archive, tree, manifest, prepared, accepted>>

RowsFor(d) == {manifest[k] : k \in {j \in DOMAIN manifest : manifest[j].name = d}}

\* Each row is what the lock says now.
Agrees(row) == row.commit = lock[row.name].commit /\ row.sha = lock[row.name].sha

\* One row for each dependency, and an archive with its hash.
Check ==
  /\ at = "check" /\ at' = "clear"
  /\ Len(manifest) = Len(Order)
  /\ \A d \in Deps : RowsFor(d) # {}
  /\ \A d \in Deps : \A row \in RowsFor(d) :
       Agrees(row) /\ SameHash(<<d, row.commit>>, row.sha)
  /\ accepted' = [d \in Deps |-> LET row == CHOOSE r \in RowsFor(d) : TRUE
                                 IN [commit |-> row.commit, sha |-> row.sha]]
  /\ UNCHANGED <<lock, edits, records, i, archive, tree, manifest, prepared>>

\* rm -rf of what an earlier run left, then the archive once more: the tree that was
\* extracted by the fetch is not used.
Clear ==
  /\ at = "clear" /\ at' = "unpack"
  /\ prepared' = [prepared EXCEPT ![Source] = "partial"]
  /\ UNCHANGED <<lock, edits, records, i, archive, tree, manifest, accepted>>

BugUnpacked(f) == tree[f]
Unpacked(f) == archive[f]

Unpack ==
  /\ at = "unpack"
  /\ prepared' = [prepared EXCEPT ![Source] = Unpacked(Source)]
  /\ IF i < Len(Order) THEN at' = "clear" /\ i' = i + 1 ELSE at' = "prepared" /\ i' = i
  /\ UNCHANGED <<lock, edits, records, archive, tree, manifest, accepted>>

-----------------------------------------------------------------------------
Next ==
  \/ \E d \in Deps, e \in Entries : EditLock(d, e)
  \/ \E f \in Files : DeleteArchive(f)
  \/ StartFetch \/ WriteHeader \/ Test \/ CurlOpens \/ CurlEnds \/ Hash
  \/ MakeDirectory \/ Tar \/ WriteRow
  \/ StartApply \/ Check \/ Clear \/ Unpack
  \/ Stop

Spec == Init /\ [][Next]_vars

-----------------------------------------------------------------------------
\* Every variable keeps its type; the manifest never has more rows than the lock has
\* dependencies.
TypeOK ==
  /\ lock \in [Deps -> Entries] /\ records \in [Deps -> Entries]
  /\ accepted \in [Deps -> Entries] /\ edits \in 0..MaxEdits
  /\ at \in FetchSteps \cup ApplySteps \cup {"idle", "fetched", "prepared"}
  /\ i \in DOMAIN Order
  /\ archive \in [Files -> Contents] /\ tree \in [Files -> Contents]
  /\ prepared \in [Files -> Contents]
  /\ manifest \in Seq(Rows) /\ Len(manifest) <= Len(Order)

\* A row of fetched-manifest.tsv vouches for its archive for as long as it stands:
\* however many runs were broken off, before or after, the file of that name is the
\* one whose hash the row gives, or was deleted by hand.
RowsVouch ==
  \A k \in DOMAIN manifest :
    LET row == manifest[k]
    IN HashOf(<<row.name, row.commit>>) \in {row.sha, "absent"}

\* When apply-patches.sh is through, each prepared source is the whole archive that
\* the lock names at this moment: no partial download, no tree that a broken-off run
\* left, and nothing of a lock of before.
PreparedIsLocked ==
  at = "prepared" =>
    \A d \in Deps : accepted[d] = lock[d] /\ lock[d].sha = lock[d].commit
                    /\ prepared[<<d, lock[d].commit>>] = "whole"

\* "Fetched and verified": when fetch-upstream.sh ends with this message, the source
\* trees under its output directory are those of the verified archives.
FetchedTreesWhole ==
  at = "fetched" => \A d \in Deps : tree[<<d, records[d].commit>>] = "whole"
=============================================================================
