--------------------------- MODULE MCModelRegistry ---------------------------
(* ModelRegistry on a small instance. Addresses and versions are not told     *)
(* apart by any action, so states that differ by renaming them are one.       *)
EXTENDS ModelRegistry, TLC

CONSTANTS a1, a2, a3, v1, v2

TwoVersions == {v1, v2}
OneVersion == {v1}
ThreeAddrs == {a1, a2, a3}

OneCursor == {"c1"}
TwoCursors == {"c1", "c2"}

AllOutcomes == {"survive", "error", "crash"}
Survive == {"survive"}

AddrAndVersionSymmetry == Permutations(ThreeAddrs) \cup Permutations(TwoVersions)

==============================================================================
