------------------------------ MODULE MCFlight ------------------------------
(* A scout with a drive and a mount for a crystal, a freighter with a       *)
(* drive, and a cheap probe; two systems of one planet each.               *)
EXTENDS Flight

MCOwner == [s \in Ship |-> IF s = "probe" THEN "q" ELSE "p"]
\* The freighter's and the scout's race lets the probe's follow its ships anywhere.
MCAllied == {<<"p", "q">>}
MCDesign ==
  [s \in Ship |->
     CASE s = "scout" -> [drive |-> TRUE, mount |-> TRUE, cheap |-> FALSE, probe |-> FALSE, speed |-> 2]
       [] s = "hauler" -> [drive |-> TRUE, mount |-> FALSE, cheap |-> FALSE, probe |-> FALSE, speed |-> 1]
       [] s = "probe" -> [drive |-> FALSE, mount |-> FALSE, cheap |-> TRUE, probe |-> TRUE, speed |-> 2]]
MCRank == [s \in Ship |-> CASE s = "scout" -> 1 [] s = "hauler" -> 2 [] s = "probe" -> 3]
MCSun == [p \in Planet |-> IF p = "a1" THEN "A" ELSE "B"]
MCSite == [b \in Body |-> CASE b = "A" -> 0 [] b = "a1" -> 20 [] b = "B" -> 130 [] b = "b1" -> 110]
MCReach == [l \in {"planet", "star", "deep"} |->
              CASE l = "planet" -> 6 [] l = "star" -> 12 [] l = "deep" -> 24]

Lost(s) == [id |-> s, alive |-> FALSE, at |-> None, pos |-> 0, dest |-> None,
  docked |-> FALSE, speed |-> 0, fuel |-> 0, on |-> FALSE, charge |-> 0,
  navigate |-> FALSE, bearing |-> 1, turns |-> 0, evade |-> FALSE,
  mounted |-> FALSE, crew |-> FALSE, merchant |-> FALSE, guest |-> 0]
At(s, p, f) == [Lost(s) EXCEPT !.alive = TRUE, !.at = p, !.pos = Site[p], !.fuel = f,
  !.speed = 1, !.crew = ~Design[s].probe]
Fleet(f) == [s \in Ship |-> IF s \in DOMAIN f THEN f[s] ELSE Lost(s)]

Idle == [p \in Planet |-> NoRoute]
Round == [p \in Planet |-> [NoRoute EXCEPT !.set = TRUE, !.load = p = "a1", !.unload = p = "b1",
                                          !.next = IF p = "a1" THEN "b1" ELSE "a1"]]

MCStart == {
  [orders |-> 0, route |-> Idle, ship |-> Fleet([s \in {"scout"} |-> [At(s, "a1", 12) EXCEPT !.dest = "B"]])],
  [orders |-> 1, route |-> Round, ship |-> Fleet([s \in {"hauler"} |->
     [At(s, "a1", 12) EXCEPT !.pos = 26, !.merchant = TRUE, !.dest = "a1"]])],
  [orders |-> 1, route |-> Idle, ship |-> Fleet([s \in {"scout", "probe"} |->
     IF s = "scout" THEN At(s, "a1", 8) ELSE [At(s, "A", 3) EXCEPT !.dest = "B"]])]}
=============================================================================
