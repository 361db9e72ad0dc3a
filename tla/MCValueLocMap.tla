--------------------------- MODULE MCValueLocMap ---------------------------
(* ValueLocMap with two setters, one getter, and room for one split of the *)
(* root: its children c and d and the new store b.                         *)
EXTENDS ValueLocMap, TLC

CONSTANTS s1, s2, g1

MCKeys == {<<0, 0>>, <<1, 1>>}
MCSetters == {s1, s2}
MCGetters == {g1}
\* Two keys right of the root's and of its right child's leftMask (keyA = 3
\* with KeyBits = 2), so that the root and then its child d can split.
MCKeysDeep == {<<3, 0>>, <<3, 1>>}
MCNoGetters == {}
MCOneSetter == {s1}
\* Setter goroutines run the same code, so they are interchangeable.
MCSymmetry == Permutations(MCSetters)
=============================================================================
