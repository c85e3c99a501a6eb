---------------------------- MODULE MCBootloader ----------------------------
(* Bootloader and BootHistory for TLC: two or three images, limits of two, *)
(* resets and faults everywhere.                                           *)
EXTENDS BootHistory, TLC

CONSTANTS v1, v2, vBad

TwoImages == {v1, v2}
GoodImages == {v1, v2}
WithBadVectors == {v1, v2, vBad}
=============================================================================
