--------------------------- MODULE MCDeviceBridge ---------------------------
(* Instances of DeviceBridge for TLC: one phone.                           *)
EXTENDS DeviceBridge, TLC

CONSTANTS p1, c1, c2, a1, a2, o1, o2, o3, u1

OnePhone == {p1}
OneCommand == {c1}
TwoCommands == {c1, c2}
OneAction == {a1}
TwoActions == {a1, a2}
OneScreen == {o1}
TwoScreens == {o1, o2}
ThreeScreens == {o1, o2, u1}
OnlyUnsafe == {u1}
NoneUnsafe == {}
NoLifecycle == {Unset}

Symmetry == Permutations(Commands) \cup Permutations(ActionIds)
=============================================================================
