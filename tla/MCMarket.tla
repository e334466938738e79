------------------------------ MODULE MCMarket ------------------------------
(* One race with a leader and a second governor slot and ports at both     *)
(* planets, one race with a port at the second; freight costs one money.   *)
EXTENDS Market

CONSTANTS r, s, p, q

MCRace == {r, s}
MCPlanet == {p, q}
MCGovernor == {<<r, 1>>, <<r, 2>>, <<s, 1>>}
MCPort == {<<r, p>>, <<r, q>>, <<s, q>>}
MCFee(to, from, bid) == IF to = from THEN 0 ELSE 1
=============================================================================
