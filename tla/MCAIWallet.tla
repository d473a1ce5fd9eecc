----------------------------- MODULE MCAIWallet -----------------------------
(***************************************************************************)
(* Small instances of AIWallet for TLC.                                    *)
(***************************************************************************)
EXTENDS AIWallet, FiniteSetsExt

(* Total, which counts units, is the sum of the amounts.                   *)
ASSUME TotalIsSum ==
    \A f \in [1 .. 3 -> 0 .. 3] : Total(f) = MapThenSumSet(LAMBDA c : f[c], DOMAIN f)
=============================================================================
