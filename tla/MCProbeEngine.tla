---------------------------- MODULE MCProbeEngine ----------------------------
(***************************************************************************)
(* Three machines for ProbeEngine.  A region of four logical pages stands  *)
(* for one of sixteen: host pages of one, of two and of four logical pages *)
(* are smaller than, between, and as large as the region, as 4, 16 and     *)
(* 64 KiB are.                                                             *)
(***************************************************************************)
EXTENDS ProbeEngine

MCHosts == {[platform |-> "darwin", page |-> 2], [platform |-> "linux", page |-> 4],
            [platform |-> "x86", page |-> 1]}
=============================================================================
