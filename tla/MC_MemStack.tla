---------------------------- MODULE MC_MemStack ----------------------------
(* Instances of MemStack for TLC: a default capacity, the smallest one,    *)
(* an odd one and one large enough to shrink twice.                        *)
EXTENDS MemStack

MCInitialCapacities == {-1, 1, 5, 9}
=============================================================================
