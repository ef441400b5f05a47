-------------------------- MODULE MCScalingSystem ---------------------------
(* ScalingSystem with a small ceiling, so that every writer can reach it. *)
EXTENDS ScalingSystem, TLC

CONSTANT f1

NoRounding == {}

Half     == [min |-> NotNumber, max |-> NotNumber, factor |-> 50]
OverMax  == [min |-> 1, max |-> 9, factor |-> 100]
OneLabel == {Half}
TwoLabels == {Half, OverMax}

Fires    == [function |-> f1, firing |-> TRUE]
Resolves == [function |-> f1, firing |-> FALSE]
Up == {<<Fires>>}
UpOrDown == {<<Fires>>, <<Resolves>>}
ByHand   == {0, 9}

HandlerSymmetry == Permutations(Handlers)
=============================================================================
