----------------------------- MODULE MCShipLinks -----------------------------
(* Three ships; the first fits into both others, the second into the third. *)
EXTENDS ShipLinks

MCShip == 1..3
MCFits == {<<1, 2>>, <<1, 3>>, <<2, 3>>}
=============================================================================
