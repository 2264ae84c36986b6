------------------------- MODULE MCPortMappingCtrl -------------------------
EXTENDS PortMappingCtrl, TLC

CONSTANTS a, b, s1, s2, t1, t2

\* Two objects after one slot.
WantsShared == [n \in Names |-> Slots]

Symmetry == Permutations({a, b})
=============================================================================
