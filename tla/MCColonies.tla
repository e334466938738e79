------------------------------ MODULE MCColonies ------------------------------
(* Two races, one of which absorbs the dead, on a planet of three sectors. *)
EXTENDS Colonies, TLC

CONSTANTS a, b, s1, s2, s3

MCPlayers == {a, b}
MCSectors == {s1, s2, s3}
MCSexes == [p \in MCPlayers |-> 1]
MCAbsorb == {b}
MCCrew == [p \in MCPlayers |-> [popn |-> IF p = a THEN 1 ELSE 0, troops |-> IF p = b THEN 1 ELSE 0]]
MCSymmetry == Permutations(MCSectors)
=============================================================================
