----------------------------- MODULE MCSessions -----------------------------
(* Two clients; a race of a leader and a governor, and the deity *)
EXTENDS Sessions

CONSTANTS leader, gov, deity

MCGovernor == {leader, gov, deity}
MCLeader == [g \in MCGovernor |-> IF g = gov THEN leader ELSE g]
=============================================================================
