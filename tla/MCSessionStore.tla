--------------------------- MODULE MCSessionStore ---------------------------
(* Instances of SessionStore for TLC.                                      *)
EXTENDS SessionStore, TLC

CONSTANTS d1, c1, c2, c3, a1, a2, a3, o1, o2, u1

OneDevice == {d1}
OneCommand == {c1}
TwoCommands == {c1, c2}
ThreeCommands == {c1, c2, c3}
OneAction == {a1}
TwoActions == {a1, a2}
ThreeActions == {a1, a2, a3}
OneScreen == {o1}
TwoScreens == {o1, o2}
ThreeScreens == {o1, o2, u1}
OnlyUnsafe == {u1}
NoneUnsafe == {}

\* What Android sends: its "lifecycle" is inside "result", never beside it.
NoLifecycle == {Unset}
\* What the schema of the report allows.
AnyLifecycle == {Unset, "QUEUED", "EXECUTING", "FAILED"}

\* Commands and action ids are interchangeable.
Symmetry == Permutations(Commands) \cup Permutations(ActionIds)
=============================================================================
