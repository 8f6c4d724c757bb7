------------------------------ MODULE PageModel ------------------------------
(***************************************************************************)
(* The probe page_model of graft_probe.c: can two 4 KiB pages have         *)
(* different permissions on a host whose own pages may be larger?  It maps *)
(* 64 KiB, protects every 4 KiB of it in turn, then makes the first read   *)
(* only and the second writable, and judges by what the calls returned.    *)
(*                                                                         *)
(* Sizes count in units of 4 KiB.  The kernel refuses an address that is   *)
(* not on one of its pages, changes whole pages, and may refuse any call   *)
(* for want of memory.  The JSON text fits its buffer of 8192 bytes.       *)
(***************************************************************************)
EXTENDS Naturals

CONSTANTS
  RegionPages,  \* the size of the region: 16
  HostPages     \* the page sizes considered: 1, 4 and 16 for 4, 16 and 64 KiB

ASSUME PagesAssumption ==
  RegionPages \in Nat \ {0, 1} /\ HostPages \subseteq Nat \ {0}

VARIABLES
  hostPage,     \* getpagesize()
  measuring,    \* where the probe is
  offset,       \* the next offset of the scan
  protection,   \* of each host page of the mapping
  firstOk,      \* first_permission_result = 0
  secondOk,     \* second_permission_result = 0
  claim         \* distinct_4k_permissions_supported, once judged

pageVars == <<hostPage, measuring, offset, protection, firstOk, secondOk, claim>>

Stages == {"off", "map", "scan", "first", "second", "unmap", "done"}
Claims == {"none", "distinct", "same"}

PageInit ==
  /\ hostPage \in HostPages
  /\ measuring = "off" /\ offset = 0 /\ protection = <<>>
  /\ firstOk = FALSE /\ secondOk = FALSE /\ claim = "none"

Locals(place) ==
  /\ measuring' = place
  /\ offset' = 0 /\ protection' = <<>>
  /\ firstOk' = FALSE /\ secondOk' = FALSE /\ claim' = "none"
  /\ UNCHANGED hostPage

\* The locals are fresh when the probe starts, and gone when it has returned.
StartPage == measuring = "off" /\ Locals("map")
EndPage == measuring = "done" /\ Locals("off")

\* mapping_size in host pages: the region rounded up.
MappingPages == (RegionPages + hostPage - 1) \div hostPage

\* The host page at an offset; the sequence of protections starts at 1.
PageAt(o) == o \div hostPage + 1
Aligned(o) == o % hostPage = 0

MapRegion ==
  /\ measuring = "map" /\ measuring' = "scan"
  /\ protection' = [i \in 1..MappingPages |-> "rw"]
  /\ UNCHANGED <<hostPage, offset, firstOk, secondOk, claim>>

\* The page size query or the mapping fails.
PageFails == measuring = "map" /\ Locals("off")

\* mprotect of 4 KiB at offset o: whether it succeeds, and its effect.  A refusal at
\* an aligned offset is for want of memory.
Mprotect(o, prot, ok) ==
  \/ ok /\ Aligned(o) /\ protection' = [protection EXCEPT ![PageAt(o)] = prot]
  \/ ~ok /\ UNCHANGED protection

\* The last round of the scan.
BugLastRound == offset = RegionPages
LastRound == offset + 1 = RegionPages

Scan ==
  /\ measuring = "scan"
  /\ \E ok \in BOOLEAN : Mprotect(offset, "r", ok)
  /\ offset' = offset + 1
  /\ measuring' = IF LastRound THEN "first" ELSE "scan"
  /\ UNCHANGED <<hostPage, firstOk, secondOk, claim>>

ProtectFirst ==
  /\ measuring = "first" /\ measuring' = "second"
  /\ \E ok \in BOOLEAN : Mprotect(0, "r", ok) /\ firstOk' = ok
  /\ UNCHANGED <<hostPage, offset, secondOk, claim>>

ProtectSecond ==
  /\ measuring = "second" /\ measuring' = "unmap"
  /\ \E ok \in BOOLEAN : Mprotect(1, "rw", ok) /\ secondOk' = ok
  /\ UNCHANGED <<hostPage, offset, firstOk, claim>>

\* A host page of 4 KiB needs no test; a larger one has to allow both calls.
BugSupported == hostPage <= 1 \/ firstOk
Supported == hostPage <= 1 \/ (firstOk /\ secondOk)

\* What the last mprotect left in errno, which nothing clears before the return.
LeftBehind == CASE secondOk -> "0" [] ~secondOk /\ Aligned(1) -> "ENOMEM" [] OTHER -> "EINVAL"

\* munmap, and the report.
Unmap ==
  /\ measuring = "unmap" /\ measuring' = "done"
  /\ claim' = IF Supported THEN "distinct" ELSE "same"
  /\ UNCHANGED <<hostPage, offset, protection, firstOk, secondOk>>

-----------------------------------------------------------------------------
PageTypes ==
  /\ hostPage \in HostPages /\ measuring \in Stages
  /\ offset \in 0..RegionPages /\ firstOk \in BOOLEAN /\ secondOk \in BOOLEAN
  /\ claim \in Claims

\* Whatever the page size of the host and whichever calls the kernel refuses, every
\* offset that the probe protects lies in its mapping, pages said not to have
\* permissions of their own have the same one, and adjacent 4 KiB pages said to have
\* them really have different ones.  The one exception is a host of 4 KiB pages where
\* one of the two calls was refused: there the code claims "distinct" by the page size
\* alone and does not look at the calls.
PageModelTruth ==
  /\ measuring \in {"scan", "first", "second"} =>
       \A o \in 0..(RegionPages - 1) : PageAt(o) \in DOMAIN protection
  /\ claim = "same" => protection[PageAt(0)] = protection[PageAt(1)]
  /\ claim = "distinct" => \/ protection[PageAt(0)] # protection[PageAt(1)]
                           \/ hostPage = 1 /\ ~(firstOk /\ secondOk)
=============================================================================
