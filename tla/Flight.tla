------------------------------- MODULE Flight -------------------------------
(***************************************************************************)
(* Ships under way: orders, hyperspace jumps, sublight cruise, arrivals,   *)
(* pursuit, merchant rounds, and the forecast of a trip (the fuel          *)
(* command), which flies a copy of the ship with the turn's own code.      *)
(*                                                                         *)
(* Space is a line: stars and planets stand at integers, and a bearing is  *)
(* -1 or 1.  Planets stand still, ships are sound, and a ship's mass does  *)
(* not change what a segment burns.  A place is its star, its planet or,   *)
(* in deep space, None.  Of the goods a merchant trades only fuel matters  *)
(* to flight.  A ship moored or berthed is as fixed as one that has landed *)
(* (ShipLinks and Carriers say what docks do).  No ship here is a          *)
(* telescope: what one is aimed at its race has explored from afar         *)
(* (survey_aim_target), without a crew or a probe there.                   *)
(***************************************************************************)
EXTENDS Integers, FiniteSets, FiniteSetsExt

CONSTANTS
  Ship, Star, Planet, Race,
  None,             \* no place, no destination: deep space, "/"
  Owner,            \* ship -> race
  Allied,           \* <<p, q>>: p has declared an alliance with q
  Design,           \* ship -> what it is: drive, mount, cheap, probe, speed
  Rank,             \* ship -> its place in the list of ships
  Sun,              \* planet -> its star
  Site,             \* star or planet -> where it stands
  SYSTEMSIZE, PLORBITSIZE, DIST_TO_LAND,   \* radii
  Reach,            \* scope -> how far throttle 1 moves a ship in a segment
  FollowRange,      \* how far a stranger is seen
  HYPER_DIST,       \* what a drive covers for one unit of fuel
  READY,            \* HYPER_DRIVE_READY_CHARGE
  SEGMENTS,         \* movement segments of an update
  Lift,             \* fuel to launch, and to land
  Tank,             \* fuel a ship holds
  Depot,            \* fuel a planet starts with
  Start,            \* the situations to start from: ships, routes, orders given
  Turns, Throttle,  \* what navigation and speed orders ask for
  MaxOrders,        \* BOUND: orders in all
  MaxTrip           \* BOUND: segments a forecast looks ahead

Body == Star \cup Planet

ASSUME FlightAssumption ==
  /\ IsFiniteSet(Ship) /\ Owner \in [Ship -> Race] /\ Allied \subseteq Race \X Race
  /\ Design \in [Ship -> [drive : BOOLEAN, mount : BOOLEAN, cheap : BOOLEAN,
                          probe : BOOLEAN, speed : Nat]]
  /\ Rank \in [Ship -> Nat] /\ \A s, t \in Ship : Rank[s] = Rank[t] => s = t
  /\ Sun \in [Planet -> Star] /\ Site \in [Body -> Int]
  /\ Star \cap Planet = {} /\ Ship \cap Body = {}
  /\ None \notin Body \cup Ship
  /\ Reach \in [{"planet", "star", "deep"} -> Nat]
  /\ {SYSTEMSIZE, PLORBITSIZE, DIST_TO_LAND, FollowRange, HYPER_DIST, READY, SEGMENTS}
       \subseteq Nat \ {0}
  /\ DIST_TO_LAND <= PLORBITSIZE
  /\ {Lift, Tank, Depot, MaxOrders, MaxTrip} \subseteq Nat
  /\ Turns \subseteq Nat /\ Throttle \subseteq Nat

-----------------------------------------------------------------------------
(* Space, and the records of what flies in it *)

Away(a, b) == IF a > b THEN a - b ELSE b - a
Toward(a, b) == IF a > b THEN -1 ELSE 1

\* In the orbit, in the system: as far out as one gets by oneself, and one
\* orbit further for a guest of the ship it pursues.
InOrbit(x) ==
  /\ x.at \in Planet => Away(x.pos, Site[x.at]) <= (1 + x.guest) * PLORBITSIZE
  /\ x.at \in Star =>
       2 * Away(x.pos, Site[x.at]) <= 3 * SYSTEMSIZE + 2 * x.guest * PLORBITSIZE
OnGround(x) == x.at \in Planet /\ x.pos = Site[x.at]

Place == Body \cup {None}
\* guest is a history: 0 who is in an orbit or a system by itself, 1 who shares
\* that of a quarry, 2 who may be anywhere: behind a quarry that shares one, or
\* backing away from a star whose system another one overlaps.
ShipRec ==
  [id : Ship, alive : BOOLEAN, at : Place, pos : Int, dest : Place \cup Ship,
   docked : BOOLEAN, speed : Nat, fuel : Int, on : BOOLEAN, charge : 0..READY,
   navigate : BOOLEAN, bearing : {-1, 1}, turns : Int, evade : BOOLEAN,
   mounted : BOOLEAN, crew : BOOLEAN, merchant : BOOLEAN, guest : 0..2]
RouteRec ==
  [set : BOOLEAN, alien : BOOLEAN, next : Planet \cup {None}, load : BOOLEAN, unload : BOOLEAN]

\* Planets are well inside their systems: who leaves an orbit is still in it.
ASSUME SystemAssumption ==
  \A p \in Planet, s \in Ship : \A v \in 0..Design[s].speed :
    2 * (Away(Site[p], Site[Sun[p]]) + PLORBITSIZE + v * Reach["planet"]) <= 3 * SYSTEMSIZE

\* Ships start undamaged, unfuelled or fuelled, with no jump ordered and no
\* charge; those that fly are where their record says.
ASSUME StartAssumption ==
  \A g \in Start :
    /\ g.route \in [Planet -> RouteRec] /\ g.orders \in Nat
    /\ g.ship \in [Ship -> ShipRec]
    /\ \A s \in Ship :
         LET x == g.ship[s]
         IN  /\ x.id = s /\ x.fuel \in 0..Tank /\ x.speed <= Design[s].speed
             /\ ~x.on /\ x.charge = 0 /\ x.guest = 0
             /\ x.alive => InOrbit(x) /\ (x.docked => OnGround(x))

VARIABLES
  ship,      \* ship -> its record
  seen,      \* <<race, star or planet>>: explored
  depot,     \* planet -> its fuel
  route,     \* planet -> its shipping route
  nsegments_done,
  orders,    \* orders given so far
  forecast,  \* history: ship -> the arrival it was promised
  been,      \* history: where a race's crews and probes have been
  earned     \* history: ships whose drive was charged by a crystal or an update

vars == <<ship, seen, depot, route, nsegments_done, orders, forecast, been, earned>>

\* What moveship reads and writes besides the ship it moves
World == [ship |-> ship, seen |-> seen, depot |-> depot]

-----------------------------------------------------------------------------
(* Where a ship is *)

\* storbits: the star whose system the ship is in
StarOf(x) == IF x.at \in Planet THEN Sun[x.at] ELSE x.at
Scope(x) == IF x.at \in Planet THEN "planet" ELSE IF x.at \in Star THEN "star" ELSE "deep"
CelestialDestination(x) == x.dest \in Body
DestStar(x) == IF x.dest \in Planet THEN Sun[x.dest] ELSE x.dest

EnterOrbit(x, place) == [x EXCEPT !.at = place, !.docked = FALSE]
ArriveAt(x, place) == [EnterOrbit(x, place) EXCEPT !.guest = 0]
EnterDeepSpace(x) == [EnterOrbit(x, None) EXCEPT !.evade = FALSE]
SetDestination(x, d) == [x EXCEPT !.dest = d, !.on = x.on /\ d \in Body]
ClearDestination(x) == SetDestination(x, None)
LaunchToOrbit(x) == [ClearDestination(x) EXCEPT !.docked = FALSE]
LandOnPlanet(x) == [x EXCEPT !.docked = TRUE, !.dest = x.at, !.on = FALSE]

HasSight(x) == Design[x.id].probe \/ x.crew
Seen(x) == {<<Owner[x.id], b>> : b \in {x.at, StarOf(x)} \ {None}}

\* followable: a ship of one's own, of a race that is allied with one's own, or near
Followable(w, x, t) ==
  /\ t.alive
  /\ \/ Owner[x.id] = Owner[t.id]
     \/ <<Owner[t.id], Owner[x.id]>> \in Allied
     \/ Away(x.pos, t.pos) <= FollowRange

-----------------------------------------------------------------------------
(* Hyperspace *)

\* compute_hyperjump_fuel: the square of the ratio, unless a crystal helps
HyperjumpFuel(x, dist) ==
  LET ratio == (dist + HYPER_DIST - 1) \div HYPER_DIST
  IN  IF x.mounted /\ dist > HYPER_DIST THEN ratio ELSE ratio * ratio

\* MUTANT: a drive charges only by its crystal
ChargeDriveMounted(x) == [x EXCEPT !.charge = IF x.mounted THEN READY ELSE @]
\* charge_hyperdrive_capacitor
ChargeDrive(x) ==
  [x EXCEPT !.charge = IF x.mounted THEN READY ELSE IF @ < READY THEN @ + 1 ELSE @]

\* the jump itself: to the near edge of the system
Jump(x, star, fuse) ==
  [ArriveAt(x, star) EXCEPT
     !.pos = Site[star] - Toward(x.pos, Site[star]) * ((9 * SYSTEMSIZE) \div 10),
     !.fuel = @ - fuse, !.on = FALSE, !.charge = 0]

\* execute_hyperdrive_jump: only at an update
HyperdriveJump(x, update) ==
  LET star == DestStar(x)
      fuse == HyperjumpFuel(x, Away(x.pos, Site[star]))
  IN  IF ~update THEN x
      ELSE IF x.docked \/ ~CelestialDestination(x) THEN [x EXCEPT !.on = FALSE]
      ELSE IF x.charge < READY THEN ChargeDrive(x)
      ELSE IF x.fuel < fuse THEN [x EXCEPT !.on = FALSE]
      ELSE Jump(x, star, fuse)

-----------------------------------------------------------------------------
(* A segment of sublight flight.  Operators that may change more than the  *)
(* ship return the world w and the ship x together.                        *)

\* what a segment burns: evasive flight burns twice as much
Burn(x) == (IF x.evade THEN 2 ELSE 1) * x.speed
MoveFactor(x) == x.speed * Reach[Scope(x)]

\* handle_sublight_out_of_fuel: cheap ships are lost in deep space
OutOfFuel(x, real) ==
  IF real /\ x.at = None /\ Design[x.id].cheap THEN [x EXCEPT !.alive = FALSE] ELSE x

\* check_and_break_orbit
BreakOrbit(x) ==
  IF x.at \in Planet /\ Away(x.pos, Site[x.at]) > PLORBITSIZE THEN EnterOrbit(x, Sun[x.at])
  ELSE IF x.at \in Star /\ Away(x.pos, Site[x.at]) > SYSTEMSIZE THEN EnterDeepSpace(x)
  ELSE x

\* execute_navigation_step
NavigationStep(x) ==
  BreakOrbit([x EXCEPT !.fuel = @ - Burn(x), !.pos = @ + x.bearing * MoveFactor(x),
                       !.turns = @ - 1, !.navigate = x.turns # 1])

\* resolve_ship_destination_target: make for the quarry's planet or system
\* first, when it is in another.
Quarry(w, x) ==
  LET t == w.ship[x.dest]
  IN  IF t.at \in Planet /\ t.at # x.at THEN t.at
      ELSE IF t.at \in Star /\ t.at # StarOf(x) THEN t.at ELSE x.dest

\* needs_interstellar_approach, resolve_destination_target: the star before
\* its planet
Approach(x, d) == IF d \in Planet /\ Sun[d] # StarOf(x) THEN Sun[d] ELSE d
Goal(w, x) == Approach(x, IF x.dest \in Ship THEN Quarry(w, x) ELSE x.dest)
GoalSite(w, d) == IF d \in Ship THEN w.ship[d].pos ELSE Site[d]

\* is_already_at_destination
AlreadyThere(x, goal, dist) == dist < DIST_TO_LAND /\ goal \in Body /\ x.at = goal

\* adjust_approach_distance: stop inside the system, inside the orbit
ApproachDistance(x, goal, dist) ==
  IF goal \in Star /\ StarOf(x) # goal THEN dist - (9 * SYSTEMSIZE) \div 10
  ELSE IF goal \in Planet /\ x.at \in Star /\ dist >= PLORBITSIZE
       THEN dist - (9 * PLORBITSIZE) \div 10
  ELSE dist

\* can_ship_explore, explore_arrived_star, explore_arrived_planet
Explore(w, x, real) ==
  IF real /\ HasSight(x) THEN [w EXCEPT !.seen = @ \cup Seen(x)] ELSE w

\* handle_star_arrival
StarArrival(w, x, star, real) ==
  IF 2 * Away(x.pos, Site[star]) > 3 * SYSTEMSIZE THEN [w |-> w, x |-> x]
  ELSE LET y == ArriveAt(x, star)
       IN  [w |-> Explore(w, y, real),
            x |-> IF y.dest \in Star THEN ClearDestination(y) ELSE y]

\* merchant_land_ship: without the fuel to land the ship forgets its route's leg
MerchantCanLand(x) == x.fuel >= Lift
MerchantLand(x, p) == LandOnPlanet([x EXCEPT !.pos = Site[p], !.fuel = @ - Lift])

\* merchant_load_cargo, merchant_unload_cargo: load first, then unload
Traded(x, p, stock) ==
  LET put == IF route[p].load THEN Min({Tank - x.fuel, stock}) ELSE 0
      off == IF route[p].unload THEN x.fuel + put ELSE 0
  IN  [fuel |-> x.fuel + put - off, stock |-> stock - put + off]

\* merchant_launch_to_next_stop: with a jump ordered if that is another star
MerchantLaunch(x, next) ==
  IF next = None \/ x.fuel < Lift THEN x
  ELSE LET y == [SetDestination(LaunchToOrbit(x), next) EXCEPT !.fuel = @ - Lift]
       IN  IF Design[x.id].drive /\ StarOf(y) # Sun[next]
           THEN [y EXCEPT !.navigate = FALSE, !.on = TRUE,
                          !.charge = IF x.mounted THEN READY ELSE 0]
           ELSE y

\* do_merchant
Merchant(w, x, p) ==
  IF ~MerchantCanLand(x) THEN [w |-> w, x |-> ClearDestination(x)]
  ELSE LET y == MerchantLand(x, p)
           g == Traded(y, p, w.depot[p])
       IN  [w |-> [w EXCEPT !.depot[p] = g.stock],
            x |-> MerchantLaunch([y EXCEPT !.fuel = g.fuel], route[p].next)]

\* handle_planet_arrival, handle_planet_landing_distance
PlanetArrival(w, x, p, real) ==
  LET dist == Away(x.pos, Site[p])
      y == ArriveAt(x, p)
      v == Explore(w, y, real)
  IN  IF dist > PLORBITSIZE THEN [w |-> w, x |-> x]
      ELSE IF dist > DIST_TO_LAND THEN [w |-> v, x |-> y]
      ELSE IF real /\ x.merchant /\ route[p].set /\ ~route[p].alien THEN Merchant(v, y, p)
      ELSE [w |-> v, x |-> IF y.dest \in Planet THEN ClearDestination(y) ELSE y]

\* handle_ship_arrival: share the quarry's orbit
ShipArrival(w, x) ==
  LET t == w.ship[x.dest]
  IN  IF Away(x.pos, t.pos) > PLORBITSIZE \/ t.at = None THEN x
      ELSE [EnterOrbit(x, t.at) EXCEPT
              !.guest = IF x.at = t.at THEN @ ELSE Min({2, t.guest + 1})]

\* dispatch_destination_arrival
Arrival(w, x, goal, real) ==
  LET g == Approach(x, goal)
  IN  IF g \in Star THEN StarArrival(w, x, g, real)
      ELSE IF g \in Planet THEN PlanetArrival(w, x, g, real)
      ELSE [w |-> w, x |-> ShipArrival(w, x)]

\* execute_destination_step
DestinationStep(w, x, real) ==
  LET goal == Goal(w, x)
      site == GoalSite(w, goal)
      dist == Away(x.pos, site)
      apart == ApproachDistance(x, goal, dist)
      y == IF dist <= DIST_TO_LAND THEN x
           ELSE [x EXCEPT !.fuel = @ - Burn(x),
                          !.pos = @ + Toward(x.pos, site) * Min({MoveFactor(x), apart}),
                          !.guest = IF apart < 0 THEN 2 ELSE @]
  IN  IF AlreadyThere(x, goal, dist) THEN [w |-> w, x |-> x]
      ELSE IF x.dest \in Ship /\ ~Followable(w, x, w.ship[x.dest])
           THEN [w |-> w, x |-> [ClearDestination(x) EXCEPT !.evade = FALSE]]
      ELSE Arrival(w, BreakOrbit(y), goal, real)

\* can_ship_move_sublight
CanMove(x) == x.speed > 0 /\ ~x.docked /\ x.alive /\ (x.dest # None \/ x.navigate)

\* moveship
MoveShip(w, x, update, real) ==
  IF x.on THEN [w |-> w, x |-> HyperdriveJump(x, update)]
  ELSE IF ~CanMove(x) THEN [w |-> w, x |-> x]
  ELSE IF x.fuel < Burn(x) THEN [w |-> w, x |-> OutOfFuel(x, real)]
  ELSE IF x.navigate THEN [w |-> w, x |-> NavigationStep(x)]
  ELSE DestinationStep(w, x, real)

\* prepare_for_flight: a ship without crew drifts
Prepared(x) == IF x.crew \/ x.docked \/ Design[x.id].probe THEN x ELSE ClearDestination(x)

\* doship, update_ship_inhabited_and_exploration
DoShip(w, s, update) ==
  LET m == MoveShip(w, Prepared(w.ship[s]), update, TRUE)
  IN  [Explore(m.w, m.x, m.x.alive) EXCEPT !.ship[s] = m.x]

\* process_ship_turns: the slow before the fast, the list's order among equals
Before(a, b) ==
  \/ ship[a].speed < ship[b].speed
  \/ ship[a].speed = ship[b].speed /\ Rank[a] < Rank[b]
LastOf(S) == CHOOSE s \in S : \A t \in S \ {s} : Before(t, s)
AfterSegment(update) ==
  LET flown[S \in SUBSET Ship] ==
        IF S = {} THEN World ELSE DoShip(flown[S \ {LastOf(S)}], LastOf(S), update)
  IN  flown[{s \in Ship : ship[s].alive}]

-----------------------------------------------------------------------------
(* The forecast of a trip *)

\* has_reached_trip_destination
Reached(x, d, site) ==
  LET dist == Away(x.pos, site)
  IN  CASE d \in Star -> dist <= SYSTEMSIZE
        [] d \in Planet -> dist <= PLORBITSIZE
        [] d \in Ship -> dist <= DIST_TO_LAND
        [] OTHER -> TRUE

\* do_trip, before the loop: launch, and make for the destination
TripReady(x) == ~x.docked \/ x.fuel >= Lift
TripStart(x, d) ==
  SetDestination(IF x.docked THEN [LaunchToOrbit(x) EXCEPT !.fuel = @ - Lift] ELSE x, d)

\* MUTANT: the forecast takes the first segment of a turn for its update
TripStepEarly(t, site) ==
  LET m == MoveShip(t.w, t.x, t.seg = 1, FALSE)
      there == Reached(m.x, m.x.dest, site)
  IN  [w |-> m.w, x |-> m.x, n |-> t.n + 1, there |-> there,
       seg |-> IF t.seg = SEGMENTS THEN 1 ELSE t.seg + 1,
       stuck |-> ~there /\ m.x.fuel = t.x.fuel /\ ~m.x.on]
\* do_trip, one turn of its loop
TripStep(t, site) ==
  LET m == MoveShip(t.w, t.x, t.seg = SEGMENTS, FALSE)
      there == Reached(m.x, m.x.dest, site)
  IN  [w |-> m.w, x |-> m.x, n |-> t.n + 1, there |-> there,
       seg |-> IF t.seg = SEGMENTS THEN 1 ELSE t.seg + 1,
       stuck |-> ~there /\ m.x.fuel = t.x.fuel /\ ~m.x.on]

DoTrip(x, d) ==
  LET trip[n \in 0..MaxTrip] ==
        IF n = 0
        THEN [w |-> World, x |-> TripStart(x, d), n |-> 0, seg |-> nsegments_done,
              there |-> FALSE, stuck |-> FALSE]
        ELSE LET t == trip[n - 1]
             IN  IF t.there \/ t.stuck THEN t ELSE TripStep(t, GoalSite(World, d))
  IN  trip[MaxTrip]

NoForecast == [to |-> None, left |-> 0]

-----------------------------------------------------------------------------
(* Orders and commands *)

\* Every order replaces the ship's record and makes its forecast void.
Command(s, x) ==
  /\ orders < MaxOrders
  /\ orders' = orders + 1
  /\ ship' = [ship EXCEPT ![s] = x]
  /\ forecast' = [forecast EXCEPT ![s] = NoForecast]
  /\ earned' = {t \in earned : ship'[t].charge > 0}
  /\ been' = been \cup (IF x.alive /\ HasSight(x) THEN Seen(x) ELSE {})
  /\ UNCHANGED <<seen, depot, route, nsegments_done>>

\* give_orders: only a ship with a crew takes them, or one that needs none
Commanded(s) == ship[s].alive /\ HasSight(ship[s])

\* order_destination, set_ship_follow_destination, set_celestial_destination
OrderDestination(s, d) ==
  LET x == ship[s]
  IN  /\ Commanded(s) /\ ~x.docked /\ d # s
      /\ d \in Ship => Followable(World, x, ship[d])
      /\ d \in Planet /\ Sun[d] # StarOf(x) => <<Owner[s], Sun[d]>> \in seen
      /\ Command(s, SetDestination(x, d))

\* order_jump
OrderJump(s) ==
  LET x == ship[s]
  IN  /\ Commanded(s) /\ ~x.docked /\ Design[s].drive
      /\ CelestialDestination(x)
      /\ Command(s, [x EXCEPT !.on = TRUE, !.navigate = FALSE,
                              !.charge = IF x.mounted THEN READY ELSE @])
OrderJumpOff(s) ==
  /\ Commanded(s) /\ ~ship[s].docked /\ ship[s].on
  /\ Command(s, [ship[s] EXCEPT !.on = FALSE])

\* order_navigate: a course ends a jump order
OrderNavigate(s, bearing, turns) ==
  /\ Commanded(s)
  /\ turns > 0 \/ ((ship[s].navigate \/ ship[s].on) /\ bearing = ship[s].bearing)
  /\ Command(s, [ship[s] EXCEPT !.navigate = turns > 0, !.bearing = bearing,
                                !.turns = turns, !.on = FALSE])

\* order_speed
OrderSpeed(s, v) ==
  /\ Commanded(s) /\ v # ship[s].speed
  /\ Command(s, [ship[s] EXCEPT !.speed = Min({v, Design[s].speed})])

\* order_evade: for ships with a crew
OrderEvade(s) ==
  /\ Commanded(s) /\ ~Design[s].probe
  /\ Command(s, [ship[s] EXCEPT !.evade = ~@])

\* order_merchant
OrderMerchant(s) ==
  /\ Commanded(s)
  /\ Command(s, [ship[s] EXCEPT !.merchant = ~@])

\* mount_ship_crystal, dismount_ship_crystal: taking the crystal out
\* discharges the drive
Mount(s) ==
  /\ ship[s].alive /\ Design[s].mount /\ ~ship[s].mounted
  /\ Command(s, [ship[s] EXCEPT !.mounted = TRUE])
\* MUTANT: the drive keeps its charge
DismountedCharged(x) == [x EXCEPT !.mounted = FALSE]
Dismounted(x) == [x EXCEPT !.mounted = FALSE, !.charge = 0]
Dismount(s) ==
  /\ ship[s].alive /\ ship[s].mounted
  /\ Command(s, Dismounted(ship[s]))

\* land, launch
Land(s) ==
  LET x == ship[s]
  IN  /\ Commanded(s) /\ ~x.docked /\ x.at \in Planet
      /\ Away(x.pos, Site[x.at]) <= DIST_TO_LAND /\ x.fuel >= Lift
      /\ Command(s, LandOnPlanet([x EXCEPT !.pos = Site[x.at], !.fuel = @ - Lift]))
Launch(s) ==
  LET x == ship[s]
  IN  /\ Commanded(s) /\ x.docked /\ x.fuel >= Lift
      /\ Command(s, [LaunchToOrbit(x) EXCEPT !.fuel = @ - Lift])

\* The crew leaves or dies; a ship is lost to something else than flight.
LoseCrew(s) ==
  /\ ship[s].alive /\ ship[s].crew
  /\ Command(s, [ship[s] EXCEPT !.crew = FALSE])
LoseShip(s) ==
  /\ ship[s].alive
  /\ Command(s, [ship[s] EXCEPT !.alive = FALSE])

\* configure_route_target, configure_route_attribute
Route(p, r) ==
  /\ orders < MaxOrders /\ r # route[p]
  /\ orders' = orders + 1
  /\ route' = [route EXCEPT ![p] = r]
  /\ UNCHANGED <<ship, seen, depot, nsegments_done, forecast, been, earned>>
RouteActivate(p, on) == Route(p, [route[p] EXCEPT !.set = on])
RouteDestination(p, q) == Route(p, [route[p] EXCEPT !.next = q])
RouteLand(p, alien) == Route(p, [route[p] EXCEPT !.alien = alien])
RouteTrade(p, load, unload) ==
  Route(p, [route[p] EXCEPT !.load = load, !.unload = unload])

\* validate_fuel_ship, resolve_fuel_trip_target, proj_fuel: what the fuel
\* command answers to a player, and what it leaves in the game
MayForecast(s, d) ==
  LET x == ship[s]
  IN  /\ x.alive /\ x.speed > 0 /\ d # None /\ d # s
      /\ x.docked => d # x.dest
      /\ d \in Ship => Owner[d] = Owner[s] /\ Followable(World, x, ship[d])
      /\ d \in Planet /\ Sun[d] # StarOf(x) => <<Owner[s], Sun[d]>> \in seen
      /\ Away(x.pos, GoalSite(World, d)) > DIST_TO_LAND
Forecast(s, d) ==
  LET trip == DoTrip(ship[s], d)
  IN  /\ MayForecast(s, d) /\ TripReady(ship[s]) /\ forecast[s] = NoForecast
      /\ seen' = trip.w.seen /\ depot' = trip.w.depot
      /\ forecast' = [forecast EXCEPT ![s] =
                        IF /\ trip.there /\ HasSight(ship[s])
                           /\ d = ship[s].dest /\ d \in Body
                        THEN [to |-> d, left |-> trip.n] ELSE NoForecast]
      /\ UNCHANGED <<ship, route, nsegments_done, orders, been, earned>>

\* The turn's clock: SEGMENTS segments, the last of them the update
Tick == nsegments_done' = IF nsegments_done = SEGMENTS THEN 1 ELSE nsegments_done + 1

\* One movement segment
Segment ==
  \E update \in {nsegments_done = SEGMENTS} :
  \E w \in {AfterSegment(update)} :
      /\ Tick
      /\ ship' = w.ship /\ seen' = w.seen /\ depot' = w.depot
      /\ forecast' = [s \in Ship |->
           IF forecast[s].left > 1 THEN [forecast[s] EXCEPT !.left = @ - 1]
           ELSE NoForecast]
      /\ been' = been \cup UNION {Seen(w.ship[s]) : s \in
                   {t \in Ship : w.ship[t].alive /\ HasSight(w.ship[t])}}
      /\ earned' = {s \in Ship : w.ship[s].charge > 0 /\
                      (s \in earned \/ (update /\ ship[s].on))}
      /\ UNCHANGED <<route, orders>>

-----------------------------------------------------------------------------

Next ==
  \/ \E s \in Ship :
       \/ \E d \in Body \cup Ship \cup {None} : OrderDestination(s, d)
       \/ OrderJump(s) \/ OrderJumpOff(s)
       \/ \E b \in {-1, 1}, n \in Turns : OrderNavigate(s, b, n)
       \/ \E v \in Throttle : OrderSpeed(s, v)
       \/ OrderEvade(s) \/ OrderMerchant(s)
       \/ Mount(s) \/ Dismount(s)
       \/ Land(s) \/ Launch(s)
       \/ LoseCrew(s) \/ LoseShip(s)
       \/ \E d \in Body \cup Ship : Forecast(s, d)
  \/ \E p \in Planet :
       \/ \E on \in BOOLEAN : RouteActivate(p, on)
       \/ \E q \in Planet : RouteDestination(p, q)
       \/ \E alien \in BOOLEAN : RouteLand(p, alien)
       \/ \E load, unload \in BOOLEAN : RouteTrade(p, load, unload)
  \/ Segment

NoRoute == [set |-> FALSE, alien |-> FALSE, next |-> None, load |-> FALSE, unload |-> FALSE]

Init ==
  /\ \E s \in Start : ship = s.ship /\ route = s.route /\ orders = s.orders
  /\ seen = UNION {Seen(ship[s]) : s \in {t \in Ship : HasSight(ship[t])}}
  /\ been = seen
  /\ depot = [p \in Planet |-> Depot]
  /\ nsegments_done = 1
  /\ forecast = [s \in Ship |-> NoForecast]
  /\ earned = {}

\* Turns come whatever the players do (only Segment moves the clock); nothing
\* else is owed.
Spec == Init /\ [][Next]_vars /\ WF_nsegments_done(Tick)

-----------------------------------------------------------------------------
(* Properties *)

\* Types; nobody flies or trades on fuel that is not there, and no tank or
\* depot runs below empty.
TypeOK ==
  /\ ship \in [Ship -> ShipRec]
  /\ \A s \in Ship : ship[s].fuel \in 0..Tank
  /\ seen \subseteq Race \X Body
  /\ depot \in [Planet -> Nat]
  /\ nsegments_done \in 1..SEGMENTS

\* A ship under a jump order is free to jump and has a star to jump to: the
\* order's display takes that star without asking (query_ship_order), and a
\* course laid by bearing ends the order (order_navigate, order_jump).
JumpHasStar ==
  \A s \in Ship : ship[s].on =>
    Design[s].drive /\ ~ship[s].docked /\ CelestialDestination(ship[s]) /\ ~ship[s].navigate

\* No drive is ready that neither a crystal in its mount nor an update under
\* a jump order has charged: crystals cannot be lent from ship to ship.
ChargeEarned ==
  \A s \in Ship : ship[s].charge >= READY => ship[s].mounted \/ s \in earned

\* A race without telescopes has explored only where a crew or a probe of its own
\* has been: forecasts explore nothing (checking_fuel).
ExploredIsSeen == seen \subseteq been

\* Where a ship is said to be is where it is: a planet's orbit and a star's
\* system have bounds, and who drifts out of them leaves them; a pursuer may
\* be one orbit further out than its quarry.
OrbitIsTrue ==
  \A s \in Ship :
    ship[s].alive => /\ ship[s].guest < 2 => InOrbit(ship[s])
                     /\ ship[s].docked => OnGround(ship[s])

\* The orders of a ship go together: those that exclude one another never meet,
\* and a jump has what it needs.
OrdersCoherent == TypeOK /\ JumpHasStar /\ ChargeEarned

\* The places on record are those the ships are in, and have been in.
PlacesAreTrue == OrbitIsTrue /\ ExploredIsSeen

\* What is written of a ship holds together: where it is and what it is ordered.
LogsAreTrue == OrdersCoherent /\ PlacesAreTrue

\* The forecast keeps its word: a ship that is left alone has arrived in the
\* segment the fuel command named, be it into the orbit or, on a course laid
\* by bearing, past the place.
ForecastKept ==
  [][\A s \in Ship :
       forecast[s].left = 1 /\ nsegments_done' # nsegments_done
         => \/ forecast[s].to \in {ship'[s].at, StarOf(ship'[s])}
            \/ Reached(ship'[s], forecast[s].to, Site[forecast[s].to])]_vars

\* A jump order ends: in the jump, or in giving it up.
Jumping(s) == ship[s].alive /\ ship[s].on
JumpEnds == \A s \in Ship : Jumping(s) ~> ~Jumping(s)

=============================================================================
