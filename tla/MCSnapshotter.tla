--------------------------- MODULE MCSnapshotter ---------------------------
(* Two ops on two branches, or three; column maxima that overshoot. *)
EXTENDS Snapshotter, TLC

At(p, l) == [physical |-> p, logical |-> l]

MCBranches == {"main", "draft"}
MCOps2 == 1..2
MCBranchOf2 == <<"draft", "main">>
MCHlcOf2 == <<At(2, 0), At(1, 1)>>

MCOps == 1..3
MCBranchOf == <<"draft", "main", "main">>
MCHlcOf == <<At(2, 1), At(1, 1), At(2, 0)>>
Symmetry == Permutations(Runs)
=============================================================================
