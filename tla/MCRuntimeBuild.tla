---------------------------- MODULE MCRuntimeBuild ----------------------------
(* Five inputs that differ from each other in a patch, in a commit, in both, *)
(* in one part and in both parts.                                            *)
EXTENDS RuntimeBuild

CONSTANTS c1, c2

Plain(fex, wine) == [fex |-> [commit |-> fex, patch |-> "none"],
                     wine |-> [commit |-> wine, patch |-> "none"]]
Patched(i, p) == [i EXCEPT ![p].patch = "p"]

MCInputs == {Plain(c1, c1), Patched(Plain(c1, c1), "fex"),
             Patched(Patched(Plain(c1, c1), "wine"), "fex"),
             Plain(c1, c2), Patched(Plain(c2, c1), "wine")}
=============================================================================
