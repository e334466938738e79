------------------------------ MODULE MCBattle ------------------------------
(* Duels: two warships, an escort, a defended planet.  Warheads: missiles, *)
(* a mine, ABMs and a defense network.  Boarding: a transport, its prey    *)
(* and a landed hull with a booby trap.                                    *)
EXTENDS Battle

Hull(k, p, at) ==
  [kind |-> k, owner |-> p, alive |-> TRUE, active |-> TRUE, at |-> at, dest |-> None, on |-> FALSE,
   crew |-> 0, troops |-> 0, guns |-> 0, destruct |-> 0, fuel |-> 0, salvo |-> 0,
   retaliate |-> FALSE, prot |-> None, defense |-> FALSE, laser |-> FALSE, fire |-> 0,
   mounted |-> FALSE, crystals |-> 0, cew |-> FALSE, damaged |-> FALSE, mode |-> FALSE, refit |-> FALSE]
War(p, at) == [Hull("war", p, at) EXCEPT !.crew = 2, !.guns = 1, !.destruct = 2, !.fuel = 2, !.salvo = 1]
Gone == [Hull("war", "p", "star") EXCEPT !.alive = FALSE]
Warhead(k, p, at, d) == [Hull(k, p, at) EXCEPT !.destruct = 1, !.on = TRUE, !.dest = d]
Battery(k, p) == [Hull(k, p, "land") EXCEPT !.crew = 1, !.guns = 1, !.salvo = 1, !.destruct = 1, !.on = TRUE]

Held(p, n, g) == [owner |-> p, popn |-> n, guns |-> [x \in Player |-> IF x = p THEN g ELSE 0],
                  destruct |-> [x \in Player |-> IF x = p THEN g ELSE 0]]
Left(c, o, t) == [combat |-> c, orders |-> o, turns |-> t]
Points(n) == [x \in Player |-> n]

\* 1 fires, 2 answers, 3 stands by 2; the planet fires at 1, which has more laser
\* than ammunition to answer with
Duel == [ship |-> <<[War("p", "plan") EXCEPT !.laser = TRUE, !.mounted = TRUE, !.fire = 2,
                                       !.retaliate = TRUE, !.destruct = 1],
                    [War("q", "plan") EXCEPT !.laser = TRUE, !.mounted = TRUE, !.fire = 2, !.fuel = 1,
                                       !.retaliate = TRUE, !.crew = 1],
                    [War("q", "plan") EXCEPT !.prot = 2, !.defense = TRUE]>>,
         planet |-> Held("q", 2, 1), AP |-> Points(2), left |-> Left(1, 0, 0)]
Cannon == [ship |-> <<[War("p", "star") EXCEPT !.laser = TRUE, !.mounted = TRUE, !.cew = TRUE],
                      [War("q", "star") EXCEPT !.retaliate = TRUE, !.crew = 1], Gone>>,
           planet |-> Held(None, 0, 0), AP |-> Points(1), left |-> Left(1, 2, 0)]
\* The laser was shot away with its orders standing
Refit == [ship |-> <<[War("p", "star") EXCEPT !.mounted = TRUE, !.fire = 1, !.damaged = TRUE],
                     [War("q", "star") EXCEPT !.retaliate = TRUE, !.guns = 0, !.crew = 1], Gone>>,
          planet |-> Held(None, 0, 0), AP |-> Points(1), left |-> Left(1, 2, 1)]
Warheads == [ship |-> <<Warhead("missile", "p", "star", Ground), Warhead("missile", "p", "plan", Ground),
                        Battery("abm", "q")>>,
             planet |-> Held("q", 2, 1), AP |-> Points(1), left |-> Left(1, 2, 2)]
Mines == [ship |-> <<Warhead("mine", "p", "plan", None), Warhead("missile", "q", "plan", Ground),
                     Battery("pdn", "r")>>,
          planet |-> Held("q", 1, 0), AP |-> Points(1), left |-> Left(1, 1, 2)]
Boards == [ship |-> <<[War("p", "plan") EXCEPT !.troops = 2],
                      [War("q", "plan") EXCEPT !.troops = 1, !.crew = 1],
                      [Hull("mine", "p", "land") EXCEPT !.destruct = 1]>>,
           planet |-> Held("q", 2, 0), AP |-> Points(2), left |-> Left(1, 0, 0)]

MCStart == {Duel, Cannon, Refit, Warheads, Mines, Boards}
MCAllied == {<<"q", "r">>, <<"r", "q">>}
=============================================================================
