---------------------------- MODULE MCKillSwitch ----------------------------
(* Instances of KillSwitch for TLC. *)
EXTENDS JournalFold, TLC

CONSTANTS i1, i2, o1, o2, t1, t2

MCIncidents == {i1, i2}
MCOperators == {o1, o2}
MCTrippers  == {t1, t2}
Symmetry == Permutations(MCIncidents) \cup Permutations(MCOperators)
            \cup Permutations(MCTrippers)
=============================================================================
