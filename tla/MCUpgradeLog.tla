---------------------------- MODULE MCUpgradeLog ----------------------------
(* UpgradeLog for TLC: sequence numbers modulo 16, so that they wrap        *)
(* around, and a log of three records of which the second straddles the     *)
(* two sectors.                                                             *)
EXTENDS UpgradeLog, TLC

CONSTANTS v1, v2

TwoValues == {v1, v2}
NearWrap  == {SeqMod - 2}
SameValues == Permutations(TwoValues)
=============================================================================
