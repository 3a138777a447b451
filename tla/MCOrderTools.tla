----------------------------- MODULE MCOrderTools -----------------------------
(***************************************************************************)
(* Instances of OrderTools for TLC, and the mutants the properties are     *)
(* tried against.                                                          *)
(***************************************************************************)
EXTENDS OrderTools, TLC

CONSTANTS c1, c2, c3

TwoCalls == {c1, c2}
ThreeCalls == {c1, c2, c3}
CallSymmetry == Permutations(Calls)

=============================================================================
