------------------------------ MODULE MCTimer -------------------------------
(* Two hard timers or two soft ones: under the rules of use the two lists   *)
(* share nothing but the tick.                                              *)
EXTENDS Timer, TLC

TwoOfAKind == {Hard, Soft}

Alike == Permutations(Hard) \cup Permutations(Soft)

=============================================================================
