-------------------------- MODULE MCCommandDispatch --------------------------
(* A race with a leader and a governor, and a race with a leader only. *)
EXTENDS CommandDispatch

CONSTANTS l, g, x

MCPeople == {l, g, x}
MCLeader == [p \in MCPeople |-> IF p = g THEN l ELSE p]
=============================================================================
