------------------------ MODULE MCPositionLifecycle ------------------------
(* Small instances of PositionLifecycle: months and amounts are numbers,     *)
(* positions and row ids are interchangeable.                                *)
EXTENDS PositionLifecycle, TLC

Symmetric == Permutations(Position) \cup Permutations(SnapId)
============================================================================
