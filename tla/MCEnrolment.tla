---------------------------- MODULE MCEnrolment ----------------------------
(* Three systems: one with two earths, one with a gas giant and an iceball, and *)
(* a lone earth, which no search may choose. One start leaves all its budget to *)
(* the designer; in the others two empires are enrolled, and a tool may die.    *)
EXTENDS Enrolment, TLC

MCPlanetType == {"earth", "iceball", "jovian"}
MCSectorType == {"sea", "land", "ice", "gas", "plated"}
MCCommon == [earth |-> {"sea", "land"}, iceball |-> {"land", "ice"}, jovian |-> {"gas"}]
MCLikes ==
  [earth |-> [sea |-> 50, land |-> 100, ice |-> 0, gas |-> 0, plated |-> 100],
   iceball |-> [sea |-> 0, land |-> 50, ice |-> 100, gas |-> 0, plated |-> 100],
   jovian |-> [sea |-> 0, land |-> 0, ice |-> 0, gas |-> 100, plated |-> 0]]
MCBest == [earth |-> "land", iceball |-> "ice", jovian |-> "gas"]
MCMultiplier ==
  [earth |-> [sea |-> 1, land |-> 1, ice |-> 1, gas |-> 99, plated |-> 1],
   iceball |-> [sea |-> 3, land |-> 1, ice |-> 1, gas |-> 99, plated |-> 1],
   jovian |-> [sea |-> 99, land |-> 99, ice |-> 99, gas |-> 1, plated |-> 99]]
MCPlanetCost == [earth |-> 75, iceball |-> -25, jovian |-> 600]
MCVigor == 0..3
MCVigorCost == (0 :> -400) @@ (1 :> 0) @@ (2 :> 500) @@ (3 :> 1100)
MCCollectiveCost == -351
MCArchetype == {[planet |-> "earth", meta |-> TRUE, vigor |-> 2],
                [planet |-> "jovian", meta |-> FALSE, vigor |-> 1]}

MCStar == 1..3
MCPlanet == {"e1", "e2", "gas", "ice", "lone"}
MCStarOf == [e1 |-> 1, e2 |-> 1, gas |-> 2, ice |-> 2, lone |-> 3]
MCTypeOf == [e1 |-> "earth", e2 |-> "earth", gas |-> "jovian", ice |-> "iceball", lone |-> "earth"]
MCSite == 1..2
MCGround == [e1 |-> <<"land", "sea">>, e2 |-> <<"land", "sea">>, gas |-> <<"gas", "gas">>,
             ice |-> <<"ice", "land">>, lone |-> <<"land", "sea">>]

\* A file by hand: a race beyond its budget, and one that breaks two rules.
MCHandmade ==
  {[DefaultSpec EXCEPT !.signed = TRUE, !.vigor = 3, !.compat = MCLikes["earth"]],
   [DefaultSpec EXCEPT !.absorb = TRUE, !.vigor = 0]}
MCBudgets ==
  {[edits |-> 3, runs |-> 1, crashes |-> 0, rows |-> 1],
   [edits |-> 1, runs |-> 2, crashes |-> 1, rows |-> 2]}
=============================================================================
