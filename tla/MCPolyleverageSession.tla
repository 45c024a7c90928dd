------------------------ MODULE MCPolyleverageSession ------------------------
(* PolyleverageSession for TLC: the values of its constants. *)
EXTENDS PolyleverageSession, TLC

CONSTANTS t1, t2, u1

\* Slots are interchangeable.
MCSymmetry == Permutations(Tasks)
=============================================================================
