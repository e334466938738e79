------------------------------ MODULE MCEmpire ------------------------------
(* What turns do to an empire, in parts that share no state: its action points  *)
(* and capital (Governance), its planets and the victory clock (Victory), the   *)
(* power blocks it belongs to (Coalitions), and what a planet yields and who    *)
(* gets it (Spoils). A behaviour moves one of them.                             *)
(*                                                                              *)
(* Two races, one with a capital, one that lost it, a ship to build; points are *)
(* scaled down: the limit is 2, a capital costs 1 and a ship given away 2, and  *)
(* deities bless and curse with 3, as far as one point outside the limits. Four *)
(* planets: the share is half of them, a quarter unlocks a language, and two    *)
(* updates win. Two systems for the blocks. A third race on the planet that is  *)
(* plundered, so that two share the loot; two units of each kind are produced.  *)
EXTENDS TLC, Governance, Victory, Coalitions, Spoils

CONSTANTS a, b

VARIABLE part

MCRace == {a, b}
MCShip == 1..2
MCHome == (a :> 1) @@ (b :> None)
MCGift == {3, -3}
MCSystem == 1..2
MCEmpires == 1..3
MCEnvoys == {1, 2}

EmpireInit ==
  /\ Init /\ VictoryInit /\ CoalitionInit
  /\ part \in {"governance", "victory", "coalitions", "spoils"}
  /\ IF part = "spoils" THEN SpoilsInit ELSE SpoilsInit /\ ground = {1}

EmpireNext ==
  \/ /\ part = "governance" /\ Next
     /\ UNCHANGED <<victory_vars, coalition_vars, spoils_vars, part>>
  \/ /\ part = "victory" /\ VictoryNext
     /\ UNCHANGED <<vars, coalition_vars, spoils_vars, part>>
  \/ /\ part = "coalitions" /\ CoalitionNext
     /\ UNCHANGED <<vars, victory_vars, spoils_vars, part>>
  \/ /\ part = "spoils" /\ SpoilsNext
     /\ UNCHANGED <<vars, victory_vars, coalition_vars, part>>

EmpireSpec == EmpireInit /\ [][EmpireNext]_<<vars, victory_vars, coalition_vars, spoils_vars, part>>
=============================================================================
