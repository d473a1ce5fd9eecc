----------------------------- MODULE MCJobQuota -----------------------------
(***************************************************************************)
(* Small instances of JobQuota for TLC.                                    *)
(***************************************************************************)
EXTENDS JobQuota, TLC

CONSTANTS j1, j2, j3, h1, h2

(* The Free plan and a paid one, so that a downgrade leaves a period above *)
(* the limit it is checked against.                                        *)
FreeAndPaid == {[videos |-> 1, parallel |-> 1], [videos |-> 2, parallel |-> 2]}

Symmetry == Permutations(Jobs) \cup Permutations(Handlers)
=============================================================================
