------------------------------- MODULE Battle -------------------------------
(***************************************************************************)
(* Combat in one star system around one planet: fire, confined energy      *)
(* weapons, bombardment, the planet's guns, mines, missiles and ABMs,      *)
(* boarding and capture, the standing orders they obey, and the turn's     *)
(* own shots.                                                              *)
(*                                                                         *)
(* What the dice decide (range, hits, damage, overloads) is a choice.  A   *)
(* handler is the set of worlds it can end in: Shoot, Kill and the rest    *)
(* map a world to the worlds after it.  The log of a step is history: who  *)
(* fired and what it paid, who was asked to answer, what was lost.         *)
(* Hangars and moorings are left to ShipLinks and Carriers, flight to      *)
(* Flight; fuel is counted in units of laser strength.                     *)
(***************************************************************************)
EXTENDS Sums

CONSTANTS
  NShips,       \* ships are numbered: lists of ships come in that order
  Player,
  None, Ground,   \* nobody; the planet, as a destination
  Start,        \* the situations to start from, and how much may happen in each
  Allied,       \* <<p, q>>: p has declared an alliance with q
  Safe,         \* laser strength a sound ship fires without risk
  Strength      \* strengths, salvos and parties that commands ask for

Ship == 1..NShips

Kinds == {"war", "abm", "pdn", "mine", "missile"}
Places == {"star", "plan", "land"}
Vessel == [kind : Kinds, owner : Player, at : Places, dest : Ship \cup {None, Ground},
           alive : BOOLEAN, active : BOOLEAN, on : BOOLEAN, retaliate : BOOLEAN,
           defense : BOOLEAN, mode : BOOLEAN, laser : BOOLEAN, mounted : BOOLEAN,
           refit : BOOLEAN, cew : BOOLEAN, damaged : BOOLEAN, prot : Ship \cup {None},
           crew : Nat, troops : Nat, guns : Nat, salvo : Nat, destruct : Nat, fuel : Nat,
           fire : Nat, crystals : Nat]
Surface == [owner : Player \cup {None}, popn : Nat, guns : [Player -> Nat],
            destruct : [Player -> Nat]]

LaserOn(r) == r.laser /\ r.fire > 0

\* A laser that fires has its crystal; refit: it was put back after the one it
\* had its orders for was shot away.
Lit(r) == r.alive /\ LaserOn(r) => r.mounted \/ r.refit
Fleet == {f \in [Ship -> Vessel] : \A s \in Ship : Lit(f[s]) /\ f[s].dest # s}

ASSUME BattleAssumption ==
  /\ NShips \in Nat /\ Safe \in Nat
  /\ Strength \subseteq Nat
  /\ Allied \subseteq Player \X Player
  /\ {None, Ground} \cap Ship = {} /\ {None, Ground} \cap Player = {} /\ None # Ground

ASSUME StartAssumption ==
  Start \subseteq [ship : Fleet, planet : Surface, AP : [Player -> Nat],
                  left : [{"combat", "orders", "turns"} -> Nat]]

VARIABLES
  ship,      \* number -> record
  planet,    \* its sector (owner, popn), and guns and destruct by player
  AP,        \* action points at the star, by player
  phase,     \* "command", or what the turn does next: "ships", "abms", "strikes"
  rows,      \* ships the rows list at the planet while a turn runs
  left,      \* BOUND: combat commands, orders and turns to come
  engaged,   \* history: <<ABM, warhead>> pairs of this turn
  log        \* history of the last step

vars == <<ship, planet, AP, phase, rows, left, engaged, log>>

Blank == [shots |-> {}, answered |-> {}, quarry |-> None, shooter |-> None,
          lost |-> 0, landed |-> {}, twice |-> FALSE]

World == [ship |-> ship, planet |-> planet, AP |-> AP, engaged |-> engaged, log |-> Blank]

-----------------------------------------------------------------------------
(* Ships.                                                                  *)

MaxCrew(r) == CASE r.kind = "war" -> 3 [] r.kind \in {"abm", "pdn"} -> 1 [] OTHER -> 0
CanBombard(r) == r.kind \in {"war", "abm", "pdn"}
HasSwitch(r) == r.kind # "war"
Mobile(r) == r.kind \notin {"abm", "pdn"}
AtPlanet(r) == r.at \in {"plan", "land"}
Scope(r) == IF r.at = "star" THEN "star" ELSE "planet"
Armed(r) == LaserOn(r) \/ r.kind \in {"mine", "missile"} \/ r.guns > 0

RetalStrength(r) ==
  IF ~r.alive \/ (~Mobile(r) /\ r.at # "land") \/ r.crew = 0 \/ r.guns = 0 THEN 0
  ELSE Min({r.salvo, r.crew, r.guns, r.destruct})

\* MUTANT: a laser fires at the strength it was set to, fuel or no fuel
CheckRetalDry(r) ==
  IF ~r.active \/ ~r.alive THEN 0
  ELSE IF LaserOn(r) THEN r.fire ELSE RetalStrength(r)

CheckRetal(r) ==
  IF ~r.active \/ ~r.alive THEN 0
  ELSE IF LaserOn(r) THEN Min({r.fire, r.fuel}) ELSE RetalStrength(r)

AlliedWith(p, q) == <<p, q>> \in Allied

Put(w, s, r) == [w EXCEPT !.ship[s] = r]
Lost(w, n) == [w EXCEPT !.log.lost = @ + n]

\* The dead protect nobody and are nobody's destination or charge
Kill(w, s) ==
  LET r == w.ship[s]
      Forgets(x) == [x EXCEPT !.prot = IF @ = s THEN None ELSE @,
                              !.dest = IF @ = s THEN None ELSE @]
  IN [Lost(w, IF r.alive THEN r.crew + r.troops ELSE 0) EXCEPT
        !.ship = [t \in Ship |-> IF t = s THEN [r EXCEPT !.alive = FALSE, !.dest = None]
                                 ELSE IF w.ship[t].alive THEN Forgets(w.ship[t]) ELSE w.ship[t]],
        !.log.twice = @ \/ ~r.alive]

Spent(r, n, beam) ==
  IF LaserOn(r) \/ beam THEN [r EXCEPT !.fuel = @ - Min({n, @})]
  ELSE [r EXCEPT !.destruct = @ - Min({n, @})]

\* cold: the laser this strength was measured with no longer fires
Consume(w, s, n, beam, cold) ==
  LET r == w.ship[s]
      p == Spent(r, n, beam)
      paid == (r.fuel - p.fuel) + (r.destruct - p.destruct)
  IN [Put(w, s, p) EXCEPT !.log.shots = @ \cup {[by |-> s, strength |-> n, paid |-> paid, cold |-> cold]}]

\* Worlds after each ship of a list, in the order of their numbers
Sweep(ws, Each(_, _)) ==
  LET f[n \in 0..NShips] == IF n = 0 THEN ws ELSE UNION {Each(w, n) : w \in f[n - 1]}
  IN f[NShips]

-----------------------------------------------------------------------------
(* A shot.                                                                 *)

\* Firing a laser or a CEW beyond what is safe: str 0 is an overload
Overloads(w, s, beam, str) ==
  LET r == w.ship[s]
      risky == (LaserOn(r) \/ beam) /\ str > (IF r.damaged THEN 0 ELSE Safe)
  IN {[w |-> w, str |-> str]} \cup
     IF ~risky THEN {}
     ELSE {[w |-> Kill(w, s), str |-> 0],
           [w |-> Put(w, s, [r EXCEPT !.fire = 0, !.mounted = FALSE]), str |-> 0]}

\* do_damage brings a laser order down to what is safe, hit or miss
Clamped(r) == [r EXCEPT !.fire = Min({@, Safe})]

\* What one salvo does to a ship that does not kill it: a system or a gun lost
Wrecks(r) ==
  {r} \cup (IF r.laser THEN {[r EXCEPT !.laser = FALSE]} ELSE {})
      \cup (IF r.cew THEN {[r EXCEPT !.cew = FALSE]} ELSE {})
      \cup (IF r.guns > 0 THEN {[r EXCEPT !.guns = @ - 1]} ELSE {})

Damages(w, t) ==
  LET r == Clamped(w.ship[t])
      hurt == [r EXCEPT !.damaged = TRUE]
      struck == {Put(w, t, x) : x \in Wrecks(hurt)}
                \cup (IF r.crew > 0 THEN {Lost(Put(w, t, [hurt EXCEPT !.crew = @ - 1]), 1)} ELSE {})
                \cup {Kill(Put(w, t, [hurt EXCEPT !.fire = 0]), t)}
  IN {[w |-> Put(w, t, r), fired |-> TRUE, hurt |-> FALSE]}
     \cup {[w |-> x, fired |-> TRUE, hurt |-> TRUE] : x \in struck}

Radiation(w, t) ==
  {[w |-> w, fired |-> TRUE, hurt |-> b] : b \in BOOLEAN}
  \cup {[w |-> Put(w, t, [w.ship[t] EXCEPT !.active = FALSE]), fired |-> TRUE, hurt |-> TRUE]}

Misfire(w) == [w |-> w, fired |-> FALSE, hurt |-> FALSE]

\* ignore: the dead may still return fire
Shoot(w, a, t, str, beam, ignore) ==
  LET r == w.ship[a]
      may == /\ str > 0
             /\ r.alive \/ ignore
             /\ w.ship[t].alive
             /\ HasSwitch(r) => r.on
      inRange == IF r.mode THEN Radiation(w, t)
                 ELSE IF beam \/ Armed(r) THEN Damages(w, t) ELSE {Misfire(w)}
  IN IF ~may THEN {Misfire(w)}
     ELSE inRange \cup (IF r.kind = "missile" THEN {} ELSE {Misfire(w)})

PlanetShoots(w, t, str) ==
  IF str > 0 /\ w.ship[t].alive /\ AtPlanet(w.ship[t]) THEN Damages(w, t) ELSE {Misfire(w)}

Thinned(w, n) == Lost([w EXCEPT !.planet.popn = @ - n], n)
Recounted(w, p, g) == IF p = None THEN w ELSE [w EXCEPT !.planet.guns[p] = g]
Emptied(w) == IF w.planet.popn = 0 THEN [w EXCEPT !.planet.owner = None] ELSE w

\* A blast spares the sector's people, thins them, or wastes it; whoever held
\* it counts fewer guns afterwards.  wasted: a sector is lost, nuked: its owner.
Blasts(w) ==
  LET p == w.planet.owner
      Standing == IF p = None THEN {0} ELSE 0..w.planet.guns[p]
      After(n, g) == Emptied(Recounted(Thinned(w, n), p, g))
  IN {[w |-> After(n, g), fired |-> TRUE, wasted |-> FALSE, nuked |-> {}] :
        n \in 0..Min({1, w.planet.popn}), g \in Standing}
     \cup {[w |-> After(w.planet.popn, g), fired |-> TRUE, wasted |-> TRUE, nuked |-> {p} \ {None}] :
             g \in Standing}

ShootPlanet(w, s, str) ==
  LET r == w.ship[s]
  IN IF str > 0 /\ r.alive /\ (HasSwitch(r) => r.on) /\ AtPlanet(r) THEN Blasts(w)
     ELSE {[w |-> w, fired |-> FALSE, wasted |-> FALSE, nuked |-> {}]}

-----------------------------------------------------------------------------
(* Answers to a shot.                                                      *)

\* retal was measured before the shot that is answered; so was lit
SelfRetaliation(r, t, a, retal, lit) ==
  IF retal = 0 \/ ~r.hurt \/ ~r.w.ship[t].retaliate THEN {r.w}
  ELSE UNION {IF o.str = 0 THEN {o.w}
              ELSE {IF x.fired
                    THEN Consume(x.w, t, o.str, FALSE, lit /\ ~LaserOn(r.w.ship[t]))
                    ELSE x.w : x \in Shoot(o.w, t, a, o.str, FALSE, TRUE)} :
              o \in Overloads(r.w, t, FALSE, retal)}

EscortShot(w, e, a) ==
  LET asked == [w EXCEPT !.log.answered = @ \cup {e}]
  IN UNION {IF o.str = 0 THEN {o.w}
            ELSE {IF x.fired THEN Consume(x.w, e, o.str, FALSE, FALSE) ELSE x.w :
                    x \in Shoot(o.w, e, a, o.str, FALSE, FALSE)} :
            o \in Overloads(asked, e, FALSE, CheckRetal(w.ship[e]))}

\* MUTANT: only escorts that retaliate for themselves
IsEscortRetaliating(r, e, protected, shooter) ==
  r.active /\ r.retaliate /\ r.prot = protected /\ e \notin {protected, shooter}

IsEscort(r, e, protected, shooter) ==
  r.active /\ r.prot = protected /\ e \notin {protected, shooter}

Listed(w, s) == {n \in Ship : w.ship[n].alive /\ Scope(w.ship[n]) = Scope(w.ship[s])}

Answer(x, e, t, a, list) ==
  IF x.ship[a].alive /\ x.ship[e].alive /\ e \in list /\ IsEscort(x.ship[e], e, t, a)
  THEN EscortShot(x, e, a) ELSE {x}

\* The list is that of the protected ship's star or planet
EscortRetaliation(w, t, a, hurt) ==
  IF ~hurt \/ ~w.ship[a].alive THEN {w}
  ELSE LET noted == [w EXCEPT !.log.quarry = t, !.log.shooter = a]
       IN Sweep({noted}, LAMBDA x, e : Answer(x, e, t, a, Listed(w, t)))

\* One shot, and what answers it
Exchange(w, a, t, str, beam) ==
  LET retal == CheckRetal(w.ship[t])
      lit == LaserOn(w.ship[t])
  IN UNION {IF ~r.fired THEN {[w |-> w, fired |-> FALSE]}
            ELSE {[w |-> v, fired |-> TRUE] : v \in
                   UNION {EscortRetaliation(u, t, a, r.hurt) :
                     u \in SelfRetaliation([r EXCEPT !.w = Consume(@, a, str, beam, FALSE)],
                                           t, a, retal, lit)}} :
            r \in Shoot(w, a, t, str, beam, FALSE)}

Charge(w, p) == [w EXCEPT !.AP[p] = @ - 1]

ShipAttack(w, a, t, str, beam, p) ==
  IF w.AP[p] < 1 \/ str = 0 THEN {}
  ELSE UNION {IF o.str = 0 THEN {Charge(o.w, p)}
              ELSE {IF x.fired THEN Charge(x.w, p) ELSE x.w : x \in Exchange(o.w, a, t, o.str, beam)} :
              o \in Overloads(w, a, beam, str)}

-----------------------------------------------------------------------------
(* Commands against ships.                                                 *)

Owned(s, p) == ship[s].alive /\ ship[s].owner = p
Commandable(s, p) == Owned(s, p) /\ ship[s].active
\* A lost ship is deleted, so nobody finds it to aim at
Target(s, t) == s # t /\ ship[t].alive

\* w is a world a command may leave behind
Commands(what, w) ==
  /\ phase = "command" /\ left[what] > 0
  /\ ship' = w.ship /\ planet' = w.planet /\ AP' = w.AP /\ log' = w.log
  /\ left' = [left EXCEPT ![what] = @ - 1]
  /\ UNCHANGED <<phase, rows, engaged>>

Ends(w) == Commands("combat", w)

Fire(p, s, t, n) ==
  /\ Commandable(s, p) /\ Target(s, t)
  /\ \E w \in ShipAttack(World, s, t, Min({n, CheckRetal(ship[s])}), FALSE, p) : Ends(w)

\* The cannon fires with half of the power it must have fuel for
FireCew(p, s, t) ==
  /\ Commandable(s, p) /\ Target(s, t)
  /\ ship[s].cew /\ ship[s].mounted /\ ship[s].fuel >= 2
  /\ "land" \notin {ship[s].at, ship[t].at}
  /\ \E w \in ShipAttack(World, s, t, 1, TRUE, p) : Ends(w)

-----------------------------------------------------------------------------
(* The planet: bombardment and its guns.                                   *)

HasPlanetDefense(w, p) ==
  \E s \in Ship : w.ship[s].alive /\ w.ship[s].kind = "pdn" /\ AtPlanet(w.ship[s]) /\ w.ship[s].owner # p

Withdrawn(w, p, n) == [w EXCEPT !.planet.destruct[p] = @ - n]

Guns(w, s, p) ==
  LET n == Min({w.planet.destruct[p], w.planet.guns[p]})
  IN {x.w : x \in PlanetShoots(Withdrawn(w, p, n), s, n)}

Protector(x, e, s) ==
  IF /\ x.ship[s].alive /\ x.ship[e].alive /\ AtPlanet(x.ship[e])
     /\ x.ship[e].defense /\ e # s /\ x.ship[e].active
  THEN EscortShot(x, e, s) ELSE {x}

\* The guns of whoever lost a sector, then the ships ordered to defend
BombardRetaliation(w, s, wasted, nuked) ==
  IF ~wasted THEN {w}
  ELSE Sweep(IF nuked = {} THEN {w} ELSE UNION {Guns(w, s, p) : p \in nuked},
             LAMBDA x, e : Protector(x, e, s))

MayBombard(p, s) ==
  AtPlanet(ship[s]) /\ (ship[s].at = "land" \/ ~HasPlanetDefense(World, p))

Bombard(p, s, n) ==
  LET str == Min({n, CheckRetal(ship[s])})
      Answered(x) ==
        BombardRetaliation(Consume(Charge(x.w, p), s, str, FALSE, FALSE), s, x.wasted, x.nuked)
      Outcomes(o) == IF o.str = 0 THEN {Charge(o.w, p)}
                     ELSE UNION {IF x.fired THEN Answered(x) ELSE {x.w} :
                                 x \in ShootPlanet(o.w, s, o.str)}
  IN /\ Commandable(s, p) /\ MayBombard(p, s)
     /\ str > 0 /\ AP[p] >= 1
     /\ \E w \in UNION {Outcomes(o) : o \in Overloads(World, s, FALSE, str)} : Ends(w)

\* A ship answers the planet that shot at it by shelling the sector
PlanetRetaliation(w, e, str, cold) ==
  UNION {IF o.str = 0 THEN {o.w}
         ELSE {IF x.fired THEN Consume(x.w, e, o.str, FALSE, cold) ELSE x.w :
                 x \in ShootPlanet(o.w, e, o.str)} :
         o \in Overloads(w, e, FALSE, str)}

Avenger(x, e, t) ==
  IF x.ship[e].alive /\ AtPlanet(x.ship[e]) /\ IsEscort(x.ship[e], e, t, t)
  THEN PlanetRetaliation(x, e, CheckRetal(x.ship[e]), FALSE) ELSE {x}

\* retal was measured before the shot that is answered; so was lit
DefendRetaliation(w, t, retal, lit) ==
  LET own == IF retal > 0 /\ w.ship[t].retaliate
             THEN PlanetRetaliation(w, t, retal, lit /\ ~LaserOn(w.ship[t])) ELSE {w}
  IN Sweep(own, LAMBDA x, e : Avenger(x, e, t))

MayDefend(p, t) == ship[t].alive /\ ship[t].at = "plan" /\ planet.owner = p
Salvo(p, n) == Min({n, planet.guns[p], planet.destruct[p]})

Defend(p, t, n) ==
  LET str == Salvo(p, n)
  IN /\ MayDefend(p, t) /\ str > 0 /\ AP[p] >= 1
     /\ \E r \in PlanetShoots(World, t, str) :
          LET v == Withdrawn(r.w, p, str)
          IN \E w \in IF r.hurt THEN DefendRetaliation(v, t, CheckRetal(ship[t]), LaserOn(ship[t]))
                      ELSE {v} : Ends(Charge(w, p))

-----------------------------------------------------------------------------
(* Mines.                                                                  *)

\* A stranger in the scope may be near enough, or not
Triggers(w, s) ==
  LET r == w.ship[s]
      Stranger(n) == n # s /\ w.ship[n].owner # r.owner /\ ~AlliedWith(r.owner, w.ship[n].owner)
  IN IF \E n \in Listed(w, s) : Stranger(n) THEN BOOLEAN ELSE {FALSE}

AtVictim(x, v, s, victims, str) ==
  IF v \in victims THEN {y.w : y \in Shoot(x, s, v, str, FALSE, FALSE)} ELSE {x}

\* The victims are listed first; friends are among them
MineBlast(w, s) ==
  LET r == w.ship[s]
      victims == Listed(w, s) \ {s}
      AtGround(x) == IF AtPlanet(r) THEN {y.w : y \in ShootPlanet(x, s, r.destruct)} ELSE {x}
      blasted == Sweep({w}, LAMBDA x, v : AtVictim(x, v, s, victims, r.destruct))
  IN {Kill(y, s) : y \in UNION {AtGround(x) : x \in blasted}}

DoMine(w, s) ==
  IF w.ship[s].kind # "mine" \/ ~w.ship[s].alive \/ ~w.ship[s].on THEN {w}
  ELSE UNION {IF b THEN MineBlast(w, s) ELSE {w} : b \in Triggers(w, s)}

Detonate(p, s) ==
  /\ Owned(s, p) /\ ship[s].kind = "mine" /\ ship[s].on /\ ship[s].at # "land"
  /\ \E w \in MineBlast(World, s) : Ends(w)

-----------------------------------------------------------------------------
(* Boarding.                                                               *)

\* The crew aboard fires first
DefensiveFire(w, s, t) ==
  LET r == w.ship[t]
  IN IF ~r.alive \/ ~r.active \/ CheckRetal(r) = 0 THEN {w}
     ELSE UNION {IF o.str = 0 THEN {o.w} ELSE {x.w : x \in Exchange(o.w, t, s, o.str, FALSE)} :
                 o \in Overloads(w, t, FALSE, CheckRetal(r))}

\* What boarding does to a hull: nothing, damage, the end
Struck(w, s) == {Put(w, s, [w.ship[s] EXCEPT !.damaged = TRUE]), Kill(w, s)}
Battered(w, s) == {w} \cup Struck(w, s)

People(r, what) == IF what = "civ" THEN r.crew ELSE r.troops
Joined(w, s, what, n) ==
  IF what = "civ" THEN [w EXCEPT !.ship[s].crew = @ + n] ELSE [w EXCEPT !.ship[s].troops = @ + n]
Boarders(r, v, what, n) == Min({n, People(r, what), MaxCrew(v)})

\* The dead of a ship that was lost in the fight are counted with the ship
Fallen(w, t, c, m) ==
  [Lost(w, IF w.ship[t].alive THEN c + m ELSE 0) EXCEPT
     !.ship[t].crew = @ - c, !.ship[t].troops = @ - m]

\* Both sides bleed ...
Bled(w, s, t) ==
  UNION {Battered(Fallen(x, t, c, m), t) :
           x \in Battered(w, s), c \in 0..w.ship[t].crew, m \in 0..w.ship[t].troops}

\* ... unless nobody resists: then a crewless hull may be trapped
Fights(w, s, t, b) ==
  LET v == w.ship[t]
  IN IF v.crew + v.troops > 0
     THEN {[w |-> Lost(y, a), left |-> b - a] : a \in 0..b, y \in Bled(w, s, t)}
     ELSE {[w |-> x, left |-> b] :
             x \in IF MaxCrew(v) = 0 /\ v.destruct > 0 THEN Battered(w, s) ELSE {w}}

\* MUTANT: survivors return to a ship that is gone
AfterBoardingHome(f, s, t, what) ==
  LET w == f.w
      v == w.ship[t]
  IN IF v.crew + v.troops = 0 /\ v.alive /\ w.ship[s].alive
     THEN Joined(Put(w, t, [v EXCEPT !.owner = w.ship[s].owner]), t, what, f.left)
     ELSE IF v.alive THEN Joined(w, s, what, f.left) ELSE Lost(w, f.left)

\* Survivors take an empty ship, or go home; with a lost ship they are lost
AfterBoarding(f, s, t, what) ==
  LET w == f.w
      v == w.ship[t]
  IN IF v.crew + v.troops = 0 /\ v.alive /\ w.ship[s].alive
     THEN Joined(Put(w, t, [v EXCEPT !.owner = w.ship[s].owner]), t, what, f.left)
     ELSE IF v.alive /\ w.ship[s].alive THEN Joined(w, s, what, f.left) ELSE Lost(w, f.left)

Boarding(w, s, t, what, n) ==
  LET b == Boarders(w.ship[s], w.ship[t], what, n)
      away == Joined(w, s, what, -b)
      near == Put(away, s, [away.ship[s] EXCEPT !.fuel = @ - Min({1, @})])
  IN {AfterBoarding(f, s, t, what) : f \in Fights(near, s, t, b)}

MayAssault(p, s, what) ==
  Commandable(s, p) /\ ship[s].at # "land" /\ People(ship[s], what) > 0
MayBoard(s, t, what, n) ==
  /\ ship[t].at = ship[s].at /\ ship[s].fuel >= 1
  /\ MaxCrew(ship[t]) > 0 => Boarders(ship[s], ship[t], what, n) > 0

Assault(p, s, t, what, n) ==
  LET Goes(w) == w.ship[t].alive /\ w.ship[s].alive /\ People(w.ship[s], what) > 0
  IN /\ MayAssault(p, s, what) /\ Target(s, t) /\ MayBoard(s, t, what, n) /\ AP[p] >= 1
     /\ \E d \in DefensiveFire(Charge(World, p), s, t) :
          \E w \in IF Goes(d) THEN Boarding(d, s, t, what, n) ELSE {d} : Ends(w)

-----------------------------------------------------------------------------
(* Capture of a landed ship by the people of its sector.                   *)

Storms(w, t, b) ==
  LET v == w.ship[t]
      Trapped(x, a) == [w |-> Lost(x, a), left |-> b - a]
  IN IF v.crew + v.troops > 0
     THEN {[w |-> Lost(Fallen(x, t, c, m), a), left |-> b - a] :
             x \in Battered(w, t), a \in 0..b, c \in 0..v.crew, m \in 0..v.troops}
     ELSE {Trapped(w, 0)} \cup
          IF v.destruct = 0 THEN {} ELSE {Trapped(x, a) : x \in Struck(w, t), a \in 0..b}

\* Those who move in leave the sector, as do the fallen
AfterStorm(f, p, t, b) ==
  LET v == f.w.ship[t]
      taken == v.crew + v.troops = 0 /\ v.alive /\ f.left > 0
      moved == IF taken THEN Min({f.left, MaxCrew(v)}) ELSE 0
      gone == moved + (b - f.left)
      w == IF taken THEN Joined(Put(f.w, t, [v EXCEPT !.owner = p]), t, "civ", moved) ELSE f.w
  IN [w EXCEPT !.planet.popn = @ - gone,
               !.planet.owner = IF planet.popn = gone THEN None ELSE @]

MayCapture(p, t) == ship[t].alive /\ ship[t].owner # p /\ ship[t].at = "land"

Capture(p, t, n) ==
  LET b == Min({n, planet.popn})
  IN /\ MayCapture(p, t) /\ planet.owner = p /\ b > 0 /\ AP[p] >= 1
     /\ \E f \in Storms(Charge(World, p), t, b) : Ends(AfterStorm(f, p, t, b))

-----------------------------------------------------------------------------
(* Standing orders and refits.                                             *)

Ordered(s, r) ==
  /\ ship[s].alive /\ ship[s].active
  /\ ship[s].crew > 0 \/ MaxCrew(ship[s]) = 0
  /\ r # ship[s]
  /\ Commands("orders", Put(World, s, r))

OrderLaser(s, n) ==
  /\ ship[s].laser /\ CanBombard(ship[s]) /\ ship[s].mounted
  /\ Ordered(s, [ship[s] EXCEPT !.fire = n, !.refit = FALSE])

OrderProtect(s, t) ==
  /\ CanBombard(ship[s]) /\ t # s
  /\ Ordered(s, [ship[s] EXCEPT !.prot = t])

OrderRetaliate(s, b) ==
  /\ CanBombard(ship[s])
  /\ Ordered(s, [ship[s] EXCEPT !.retaliate = b])

OrderDefense(s, b) ==
  /\ CanBombard(ship[s])
  /\ Ordered(s, [ship[s] EXCEPT !.defense = b])

OrderSalvo(s, n) ==
  /\ CanBombard(ship[s])
  /\ Ordered(s, [ship[s] EXCEPT !.salvo = Min({n, ship[s].guns})])

OrderMode(s, b) ==
  /\ ship[s].kind = "mine"
  /\ Ordered(s, [ship[s] EXCEPT !.mode = b])

OrderSwitch(s) ==
  /\ HasSwitch(ship[s])
  /\ Ordered(s, [ship[s] EXCEPT !.on = ~@])

OrderDestination(s, d) ==
  /\ ship[s].kind = "missile" /\ ship[s].at # "land" /\ d # s
  /\ Ordered(s, [ship[s] EXCEPT !.dest = d])

Mount(s) ==
  /\ ship[s].alive /\ ship[s].kind = "war" /\ ~ship[s].mounted /\ ship[s].crystals > 0
  /\ Commands("orders", Put(World, s, [ship[s] EXCEPT !.mounted = TRUE, !.crystals = @ - 1]))

\* MUTANT: the crystal is taken out and the laser left on
DismountedLit(r) == [r EXCEPT !.mounted = FALSE, !.crystals = @ + 1]

\* Taking the crystal out puts a laser out, if there is one
Dismounted(r) ==
  [r EXCEPT !.mounted = FALSE, !.crystals = @ + 1,
            !.fire = IF LaserOn(r) THEN 0 ELSE @, !.refit = FALSE]

Dismount(s) ==
  /\ ship[s].alive /\ ship[s].kind = "war" /\ ship[s].mounted
  /\ Commands("orders", Put(World, s, Dismounted(ship[s])))

\* refit: the new laser finds the orders of the one that was shot away
UpgradeLaser(s) ==
  /\ ship[s].alive /\ ship[s].kind = "war" /\ ~ship[s].damaged /\ ~ship[s].laser
  /\ Commands("orders", Put(World, s, [ship[s] EXCEPT !.laser = TRUE, !.refit = ship[s].fire > 0]))

-----------------------------------------------------------------------------
(* The turn: mines, then ships and the missiles after ships, then ABMs,    *)
(* then the missiles at their planet.                                      *)

Phase(from, to, w) ==
  /\ phase = from /\ phase' = to
  /\ ship' = w.ship /\ planet' = w.planet /\ AP' = w.AP /\ log' = w.log /\ engaged' = w.engaged

\* From here on the rows are those of before the turn
BeginTurn ==
  /\ left["turns"] > 0
  /\ \E w \in Sweep({World}, DoMine) : Phase("command", "ships", w)
  /\ left' = [left EXCEPT !["turns"] = @ - 1]
  /\ rows' = {s \in Ship : AtPlanet(ship[s])}

AttackPlanet(r) == r.at = "plan" /\ r.dest = Ground

\* Repaired, cured, and arrived, or not
AfterDoShip(r) ==
  LET fit == {r} \cup (IF r.active /\ r.crew > 0 THEN {[r EXCEPT !.damaged = FALSE]} ELSE {})
                 \cup {[r EXCEPT !.active = TRUE]}
      moves == r.active /\ r.at = "star" /\ r.dest = Ground
  IN fit \cup (IF moves THEN {[x EXCEPT !.at = "plan"] : x \in fit} ELSE {})

\* The missile is gone even when its shot was none
ShipStrike(w, m) ==
  LET t == w.ship[m].dest
  IN IF t \notin Ship \/ ~w.ship[t].alive THEN {w}
     ELSE {w} \cup {Kill(x.w, m) : x \in Shoot(w, m, t, w.ship[m].destruct, FALSE, FALSE)}

DoShip(w, s) ==
  IF ~w.ship[s].alive THEN {w}
  ELSE UNION {LET x == Put(w, s, r)
              IN IF r.kind = "missile" /\ ~AttackPlanet(r) /\ r.on /\ r.at # "land"
                 THEN ShipStrike(x, s) ELSE {x} :
              r \in AfterDoShip(w.ship[s])}

\* MUTANT: the missiles at the planet before the ABMs
ProcessShipsNoAbms ==
  /\ \E w \in Sweep({World}, DoShip) : Phase("ships", "strikes", w)
  /\ UNCHANGED <<rows, left>>

ProcessShips ==
  /\ \E w \in Sweep({World}, DoShip) : Phase("ships", "abms", w)
  /\ UNCHANGED <<rows, left>>

Hostile(r, v) ==
  /\ v.kind \in {"missile", "mine"} /\ v.owner # r.owner
  /\ ~(AlliedWith(r.owner, v.owner) /\ AlliedWith(v.owner, r.owner))

AbmReady(r) == r.alive /\ r.kind = "abm" /\ r.on /\ r.salvo > 0 /\ r.destruct > 0 /\ r.at = "land"

\* The shot is paid for whether it is fired or not
AbmShot(w, a, t) ==
  LET r == w.ship[a]
      n == Min({RetalStrength(r), r.destruct, r.salvo})
      tried == [Put(w, a, [r EXCEPT !.destruct = @ - n]) EXCEPT !.engaged = @ \cup {<<a, t>>}]
  IN IF r.destruct = 0 \/ ~w.ship[t].alive THEN {w}
     ELSE {x.w : x \in Shoot(tried, a, t, n, FALSE, FALSE)}

AtThreat(x, t, a, threats) == IF t \in threats THEN AbmShot(x, a, t) ELSE {x}

\* Threats are looked for in the rows
DoAbm(w, a) ==
  LET threats == {t \in rows : w.ship[t].alive /\ Hostile(w.ship[a], w.ship[t])}
  IN IF AbmReady(w.ship[a]) THEN Sweep({w}, LAMBDA x, t : AtThreat(x, t, a, threats)) ELSE {w}

ProcessAbms ==
  /\ \E w \in Sweep({World}, DoAbm) : Phase("abms", "strikes", w)
  /\ UNCHANGED <<rows, left>>

\* A defense network in the rows draws the missile, whoever owns it
PlanetStrike(w, m) ==
  LET nets == {s \in rows : w.ship[s].alive /\ w.ship[s].kind = "pdn"}
      hit == [w EXCEPT !.log.landed = @ \cup {m}]
  IN IF nets # {} THEN {Put(w, m, [w.ship[m] EXCEPT !.dest = Min(nets)])}
     ELSE {IF x.fired THEN Kill(x.w, m) ELSE w : x \in ShootPlanet(hit, m, w.ship[m].destruct)}

Strike(w, m) ==
  LET r == w.ship[m]
  IN IF r.kind = "missile" /\ r.alive /\ AttackPlanet(r) /\ r.on THEN PlanetStrike(w, m) ELSE {w}

ProcessStrikes ==
  /\ \E w \in Sweep({World}, Strike) : Phase("strikes", "command", [w EXCEPT !.engaged = {}])
  /\ rows' = {} /\ UNCHANGED left

-----------------------------------------------------------------------------

Init ==
  /\ \E x \in Start : ship = x.ship /\ planet = x.planet /\ AP = x.AP /\ left = x.left
  /\ phase = "command" /\ rows = {}
  /\ engaged = {} /\ log = Blank

Orders(s) ==
  \/ \E n \in Strength \cup {0} : OrderLaser(s, n) \/ OrderSalvo(s, n)
  \/ \E t \in Ship \cup {None} : OrderProtect(s, t)
  \/ \E b \in BOOLEAN : OrderRetaliate(s, b) \/ OrderDefense(s, b) \/ OrderMode(s, b)
  \/ OrderSwitch(s)
  \/ \E d \in Ship \cup {Ground} : OrderDestination(s, d)
  \/ Mount(s) \/ Dismount(s) \/ UpgradeLaser(s)

\* The commands.  A pattern of ships is one shot after the other, each by a ship
\* that still exists; telegrams and news are left out.
FireCommand(p) == \E s, t \in Ship, n \in Strength : Fire(p, s, t, n)
CewCommand(p) == \E s, t \in Ship : FireCew(p, s, t)
BombardCommand(p) == \E s \in Ship, n \in Strength : Bombard(p, s, n)
DefendCommand(p) == \E t \in Ship, n \in Strength : Defend(p, t, n)
CaptureCommand(p) == \E t \in Ship, n \in Strength : Capture(p, t, n)
DetonateCommand(p) == \E s \in Ship : Detonate(p, s)
AssaultCommand(p) ==
  \E s, t \in Ship, what \in {"civ", "mil"}, n \in Strength : Assault(p, s, t, what, n)

Combat(p) ==
  \/ FireCommand(p) \/ CewCommand(p) \/ BombardCommand(p) \/ DefendCommand(p)
  \/ CaptureCommand(p) \/ DetonateCommand(p) \/ AssaultCommand(p)

Turn == BeginTurn \/ ProcessShips \/ ProcessAbms \/ ProcessStrikes

Next == (\E s \in Ship : Orders(s)) \/ (\E p \in Player : Combat(p)) \/ Turn

Spec == Init /\ [][Next]_vars

-----------------------------------------------------------------------------
(* Properties.                                                             *)

TypeOK == ship \in [Ship -> Vessel] /\ planet \in Surface /\ AP \in [Player -> Nat]

\* consume_weapon_resources is called after the shot and clamps at what is
\* aboard: every volley is nevertheless paid for in full, by each of the
\* parties to an exchange.  The one that may not be is a return fire measured
\* with a laser which the shot it answers, a ship's or the planet's, put out
\* (fire.cc:277 and 113, 715 and 383).
EveryShotPaid == \A x \in log.shots : x.paid = x.strength \/ x.cold

\* "Laser guns also requires mounted crystal in ship" (help/mount.md:18): no
\* order, dismounting, overload or hit leaves a laser firing without one.  Only
\* a laser put back by an upgrade may, when the one before it was shot away
\* with its orders standing: nothing clears them (navigation.cc:888).
LaserHasCrystal == \A s \in Ship : Lit(ship[s])

\* No exchange, however many answer it, kills the same ship twice: morale and
\* the kill of a machine would be booked twice (kill_ship asks nothing).
DiesOnce == ~log.twice

\* Damage leaves a ship either able or dead, once: whatever order the shots, the
\* answers and the overloads come in.
DamageSound == TypeOK /\ LaserHasCrystal /\ DiesOnce

\* When a ship was hurt and both it and the one that fired are still there,
\* every able ship in its scope that was ordered to protect it has been asked
\* to answer (docs/combat.md:140); the order in which they are listed and what
\* the answers before theirs did make no difference.
EscortsAnswer ==
  [][ LET q == log'.quarry
          a == log'.shooter
      IN (q # None /\ ship'[q].alive /\ ship'[a].alive) =>
           \A e \in Ship \ {q, a} :
             (ship[e].alive /\ ship[e].active /\ ship[e].prot = q /\ Scope(ship[e]) = Scope(ship[q]))
               => e \in log'.answered ]_vars

\* ABMs go before the missiles at the planet (doturncmd.cc:289): a missile
\* comes down only past ABMs that have had their shot at it, or that have no
\* ammunition left.  Those the rows do not list at the planet, since they
\* arrived in this turn, come down past all of them.
AbmsFirst ==
  [][ \A m \in log'.landed \cap rows, a \in Ship :
        AbmReady(ship[a]) /\ Hostile(ship[a], ship[m]) => <<a, m>> \in engaged ]_vars

Heads(sh) == [s \in Ship |-> IF sh[s].alive THEN sh[s].crew + sh[s].troops ELSE 0]
Souls(sh, pl) == SumOf(Heads(sh), Ship) + pl.popn

\* Boarding parties are taken off one ship or sector and put on another while
\* either may blow up: nobody is lost but the fallen and those who were aboard
\* what was destroyed, and nobody is aboard twice.
PeopleAccounted == [][Souls(ship, planet) = Souls(ship', planet') + log'.lost]_vars
=============================================================================
