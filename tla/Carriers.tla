------------------------------ MODULE Carriers ------------------------------
(***************************************************************************)
(* What ships weigh, hold and cost: a fleet of one race, at one planet.    *)
(* Ships are built by the planet, by factories and by ships; they load,    *)
(* trade and jettison cargo, dock in one another's hangars, are redesigned *)
(* and upgraded, scrapped and killed.  A carrier keeps two running totals  *)
(* of what is berthed in it, its hangar in use and its mass; only a turn   *)
(* counts them anew (domass).                                              *)
(*                                                                         *)
(* One cargo stands for all: fuel, crew, ammunition and crystals move like *)
(* resources, with limits of their own.  A design has two of a ship's      *)
(* attributes, its hold and its hangar; size, base mass and cost grow with *)
(* either.  Positions, fuel, crews, technology and action points decide    *)
(* whether a command is allowed, and that is left open.                    *)
(***************************************************************************)
EXTENDS Sums

CONSTANTS
  Ship,        \* ship numbers
  Nil,         \* no ship, and no type
  Start,       \* the fleets to start from: ship number -> type, or Nil
  Template,    \* type -> its hold, its hangar (bay), what the hull costs, who
               \* builds it, and whether it lands and flies
  Amount,      \* how much a command loads, trades or jettisons
  Setting,     \* the holds and hangars a command asks for
  MaxCost,     \* the most a factory's design may cost
  TOXMAX,      \* what one canister takes
  Riches, Pollution,  \* the planet's stockpile and toxicity at first
  MaxDays      \* BOUND: commands and turns in all

Type == DOMAIN Template

ASSUME CarriersAssumption ==
  /\ Ship \subseteq Nat /\ IsFiniteSet(Ship) /\ Nil \notin Ship
  /\ Nil \notin Type /\ "factory" \in Type
  /\ Amount \subseteq Nat /\ Setting \subseteq Nat
  /\ {TOXMAX, Riches, Pollution} \subseteq Nat
  /\ Start \subseteq [Ship -> Type \cup {Nil}]
  /\ Template \in [Type -> [hold : Nat, bay : Nat, hull : Nat, lands : BOOLEAN,
                           flies : BOOLEAN, by : SUBSET (Type \cup {"planet"})]]

VARIABLES
  ship,       \* ship number -> its record
  stockpile,  \* the planet's resources
  toxic,      \* the planet's toxicity
  waiting,    \* the ships whose turn is still to come; {} between turns
  days,       \* commands and turns so far
  loose,      \* history: the ships whose mass is no longer the sum
  grown       \* history: carrier -> when a factory last grew inside it

carriers_vars == <<ship, stockpile, toxic, waiting, days, loose, grown>>

-----------------------------------------------------------------------------
(* Designs *)

CalculatedSize(i) == 1 + i.hold + i.bay
BaseMass(i) == 1 + i.bay
LocalMass(i) == BaseMass(i) + i.res

\* The type a design is of: a factory's is what it makes.
BuildType(i) == IF i.make = Nil THEN i.type ELSE i.make
Cost(i) == Template[BuildType(i)].hull + i.hold + i.bay

HasDesign(i) == i.type = "factory" /\ i.make # Nil
MaxResource(i) ==
  IF i.hold > 0 THEN i.hold
  ELSE IF i.type = "factory" THEN Template["factory"].hold ELSE i.hold
Room(i) == Max({0, MaxResource(i) - i.res})
HangerSpace(i) == Max({0, i.bay - i.hanger})

EffectiveCost(i) ==
  IF i.type = "factory"
  THEN (IF i.on THEN 2 * i.cost ELSE 0) + Template["factory"].hull
  ELSE i.cost
\* What a scrapped ship is worth, its cargo included
ScrapValue(i) == EffectiveCost(i) \div 2 + i.res

Gone == [type |-> Nil, make |-> Nil, dock |-> "gone", dest |-> Nil,
         hold |-> 0, bay |-> 0, size |-> 0, cost |-> 0, on |-> FALSE,
         res |-> 0, hanger |-> 0, mass |-> 0, waste |-> 0]

Built(i) ==
  LET j == [i EXCEPT !.size = CalculatedSize(i), !.cost = Cost(i)]
  IN  [j EXCEPT !.mass = LocalMass(j)]

\* getship: a new ship of the type's own design
GetShip(t) ==
  Built([Gone EXCEPT !.type = t, !.hold = Template[t].hold, !.bay = Template[t].bay])

\* getfactship: of the factory's design, at the cost the factory states
GetFactShip(b) ==
  [Built([Gone EXCEPT !.type = b.make, !.hold = b.hold, !.bay = b.bay])
     EXCEPT !.cost = b.cost]

-----------------------------------------------------------------------------
(* Docks and loads, in a table f of ships *)

Alive(f, s) == f[s].dock # "gone"
Berthed(f, s) == f[s].dock = "berthed"
Landed(f, s) == f[s].dock = "landed"
Spaceborne(f, s) == f[s].dock = "spaceborne"
Docked(f, s) == f[s].dock \in {"moored", "berthed"}
InCarrier(f, c) == {x \in Ship : Berthed(f, x) /\ f[x].dest = c}

Placed(f, s, d, t) == [f EXCEPT ![s].dock = d, ![s].dest = t]

\* A shuttle that is not in a hangar straps what it cannot hold to its hull.
Straps(f, s) == f[s].type = "shuttle" /\ ~Berthed(f, s)

\* add_resource, consume_resource: clamped, the ship's own mass follows.
Loaded(f, s, n) ==
  LET m == IF Straps(f, s) THEN n ELSE Min({n, Room(f[s])})
  IN  [f EXCEPT ![s].res = @ + m, ![s].mass = @ + m]
Spent(f, s, n) ==
  LET m == Min({n, f[s].res})
  IN  [f EXCEPT ![s].res = @ - m, ![s].mass = @ - m]

LoadCraft(f, c, size, mass) ==
  [f EXCEPT ![c].hanger = @ + size, ![c].mass = @ + mass]
\* MUTANT: room in the hangar is not given back
UnloadWeightOnly(f, c, size, mass) ==
  [f EXCEPT ![c].mass = Max({BaseMass(f[c]), @ - mass})]
UnloadCraft(f, c, size, mass) ==
  [f EXCEPT ![c].hanger = Max({0, @ - size}),
            ![c].mass = Max({BaseMass(f[c]), @ - mass})]

\* Ancestors(f, c): the carriers around c, from the one it is berthed in outwards
Upwards(f, S) == \A x \in S : Berthed(f, x) => f[x].dest \in S
Ancestors(f, c) ==
  {a \in Ship : \A S \in SUBSET Ship :
                  (Berthed(f, c) => f[c].dest \in S) /\ Upwards(f, S) => a \in S}
\* A ship and all that is berthed in it, on every deck
Nest(f, s) == {x \in Ship : x = s \/ s \in Ancestors(f, x)}

\* MUTANT: the carriers around are not told
PropagatedNowhere(f, c, delta) == f
\* propagate_ancestor_mass_delta
Propagated(f, c, delta) ==
  [x \in Ship |->
     IF x \in Ancestors(f, c)
     THEN [f[x] EXCEPT !.mass = Max({BaseMass(f[x]), @ + delta})] ELSE f[x]]

\* dock_carrier
DockedIn(f, s, c) ==
  LET g == LoadCraft(Placed(f, s, "berthed", c), c, f[s].size, f[s].mass)
  IN  Propagated(g, c, f[s].mass)

\* kill_ship: the ship leaves its carrier's totals, then what is in it dies
\* the same way, each taking its mass off all the carriers around it, then the
\* living forget it.
NestMass(f, s) == SumOf([x \in Ship |-> f[x].mass], Nest(f, s))
Left(f, s) ==
  IF Berthed(f, s)
  THEN Propagated(UnloadCraft(f, f[s].dest, f[s].size, NestMass(f, s)),
                  f[s].dest, 0 - NestMass(f, s))
  ELSE f
Sunk(f, s) == [x \in Ship |-> IF x \in Nest(f, s) THEN Gone ELSE Left(f, s)[x]]

Killed(f, s) ==
  [x \in Ship |->
     IF Alive(Sunk(f, s), x) /\ f[x].dock = "moored" /\ ~Alive(Sunk(f, s), f[x].dest)
     THEN [Sunk(f, s)[x] EXCEPT !.dock = "spaceborne", !.dest = Nil]
     ELSE Sunk(f, s)[x]]

\* kill_ship also takes the mass of what was berthed in the victim from the
\* carriers around it, a second time.
Released(f, s) == IF InCarrier(f, s) # {} THEN Ancestors(f, s) ELSE {}

\* A toxic waste canister lets its waste out where it is destroyed, unless a
\* carrier holds it.
Waste(f, s) == IF Berthed(f, s) THEN 0 ELSE f[s].waste

-----------------------------------------------------------------------------
(* Commands *)

Ordered(f) ==
  /\ waiting = {} /\ days < MaxDays
  /\ days' = days + 1
  /\ ship' = f
  /\ UNCHANGED waiting

\* The carrier of s, if any: its mass does not follow what s loads or spends.
Around(s) == IF Berthed(ship, s) THEN {ship[s].dest} ELSE {}
\* The carriers around that one: they are told of nothing but deaths.
Beyond(s) == IF Berthed(ship, s) THEN Ancestors(ship, ship[s].dest) ELSE {}
Loosened(S) == loose' = loose \cup S

Quiet == UNCHANGED <<loose, grown>>

\* next_available_ship_number; a dead ship's slot stands for a later number.
IsNext(s) == ~Alive(ship, s) /\ \A x \in Ship : x < s => Alive(ship, x)

\* create_ship_by_planet, then initialize_constructed_state: a canister takes
\* its waste from the planet, and is then given its type's first state.
InitializedState(i) == [i EXCEPT !.waste = 0]

CreateByPlanet(s, i) ==
  LET w == IF i.type = "canister" THEN Min({TOXMAX, toxic}) ELSE 0
  IN  /\ IsNext(s) /\ i.cost <= stockpile
      /\ stockpile' = stockpile - i.cost
      /\ toxic' = toxic - w
      /\ Ordered([ship EXCEPT ![s] =
           [InitializedState([i EXCEPT !.waste = w]) EXCEPT !.dock = "landed"]])
      /\ Quiet

OnPlanet(t) == "planet" \in Template[t].by
BuildOnPlanet(s, t) == OnPlanet(t) /\ CreateByPlanet(s, GetShip(t))

FactoryReady(f) == HasDesign(ship[f]) /\ ship[f].on /\ Landed(ship, f)
BuildInFactory(f, s) == FactoryReady(f) /\ CreateByPlanet(s, GetFactShip(ship[f]))

\* build_at_ship; shuttles build outside, the others in their hangar.
Shipyard(b) == Alive(ship, b) /\ ship[b].type # "factory" /\ ~Docked(ship, b)
Outside(b) == ship[b].type = "shuttle"
OnShip(b, t) == ship[b].type \in Template[t].by /\ (Outside(b) => ~Landed(ship, b))

\* create_ship_by_ship
CreatedByShip(b, s, i) ==
  [Spent(ship, b, i.cost) EXCEPT
     ![s] = IF Outside(b) THEN [i EXCEPT !.dock = "spaceborne"]
                          ELSE [i EXCEPT !.dock = "berthed", !.dest = b]]

BuildOnShip(b, s, t) ==
  LET i == GetShip(t)
      f == CreatedByShip(b, s, i)
  IN  /\ Shipyard(b) /\ OnShip(b, t) /\ IsNext(s) /\ i.cost <= ship[b].res
      /\ \/ Outside(b) /\ Ordered(f)
         \/ /\ ~Outside(b) /\ ship[b].hanger + i.size <= ship[b].bay
            /\ Ordered(LoadCraft(f, b, i.size, i.mass))
      /\ UNCHANGED <<stockpile, toxic>> /\ Quiet

\* compute_planet_transfer_limits and execute_planet_cargo_transfer
PlanetLimit(s) == IF Straps(ship, s) THEN stockpile ELSE Min({stockpile, Room(ship[s])})
LoadFromPlanet(s, n) ==
  /\ Landed(ship, s) /\ n <= PlanetLimit(s)
  /\ stockpile' = stockpile - n
  /\ Ordered(Loaded(ship, s, n))
  /\ UNCHANGED toxic /\ Quiet

UnloadToPlanet(s, n) ==
  /\ Landed(ship, s) /\ n <= ship[s].res
  /\ stockpile' = stockpile + n
  /\ Ordered(Spent(ship, s, n))
  /\ UNCHANGED toxic /\ Quiet

\* validate_ship_docking: a berthed carrier that is overloaded trades nothing.
Overloaded(i) == i.res > MaxResource(i)
Partner(s) == ship[s].dest
MayTrade(s) ==
  Docked(ship, s) /\ ~(Overloaded(ship[Partner(s)]) /\ Berthed(ship, Partner(s)))

\* transfer_cargo_to, within compute_ship_transfer_limits
Transferable(f, from, to, n) ==
  IF Straps(f, to) THEN Min({n, f[from].res}) ELSE Min({n, f[from].res, Room(f[to])})
Transferred(f, from, to, n) ==
  LET m == Transferable(f, from, to, n) IN Loaded(Spent(f, from, m), to, m)
TradeLimit(from, to) ==
  IF Straps(ship, to) THEN ship[from].res ELSE Min({ship[from].res, Room(ship[to])})
\* execute_ship_to_ship_cargo_transfer
Trade(s, n) ==
  /\ MayTrade(s)
  /\ \/ n <= TradeLimit(Partner(s), s) /\ Ordered(Transferred(ship, Partner(s), s, n))
     \/ n <= TradeLimit(s, Partner(s)) /\ Ordered(Transferred(ship, s, Partner(s), n))
  /\ Loosened(Ancestors(ship, s) \cup Ancestors(ship, Partner(s)))
  /\ UNCHANGED <<stockpile, toxic, grown>>

Jettison(s, n) ==
  /\ Alive(ship, s) /\ ~Landed(ship, s) /\ n <= ship[s].res
  /\ Ordered(Spent(ship, s, n))
  /\ Loosened(Around(s))
  /\ UNCHANGED <<stockpile, toxic, grown>>

\* MUTANT: a factory at work is redesigned too
RedesignedAtWork(f, i) ==
  /\ ship[f].type = "factory" /\ Cost(i) <= MaxCost
  /\ Ordered([ship EXCEPT ![f] = [i EXCEPT !.cost = Cost(i)]])
  /\ Loosened({f} \cap {x \in Ship : BaseMass(i) # BaseMass(ship[f])})
  /\ UNCHANGED <<stockpile, toxic, grown>>
\* set_factory_blueprint keeps the factory's size and mass.
Redesigned(f, i) ==
  /\ ship[f].type = "factory" /\ ~ship[f].on
  /\ Cost(i) <= MaxCost
  /\ Ordered([ship EXCEPT ![f] = [i EXCEPT !.cost = Cost(i)]])
  /\ Loosened({f} \cap {x \in Ship : BaseMass(i) # BaseMass(ship[f])})
  /\ UNCHANGED <<stockpile, toxic, grown>>

Blueprint(i, t) ==
  [i EXCEPT !.make = t, !.hold = Template[t].hold, !.bay = Template[t].bay]
Make(f, t) == "factory" \in Template[t].by /\ Redesigned(f, Blueprint(ship[f], t))

\* modify_simple_attribute: an attribute the type does not have stays 0.
Requested(i, a, v) == [i EXCEPT ![a] = v]
Modifiable(i, a) == HasDesign(i) /\ Template[i.make][a] > 0
Modify(f, a, v) == Modifiable(ship[f], a) /\ Redesigned(f, Requested(ship[f], a, v))

\* upgrade_single_ship: never down, and twice the difference in cost
Upgradable(i, a) == i.type # "factory" /\ Template[i.type][a] > 0
Candidate(i, a, v) == Requested(i, a, Max({v, i[a]}))
NetCost(i, j) == Max({1, 2 * (Cost(j) - i.cost)})
HangarAllows(s, j) ==
  Berthed(ship, s) =>
    LET c == ship[ship[s].dest]
    IN  CalculatedSize(j) <= c.bay - (c.hanger - ship[s].size)

\* commit_ship_upgrade: a carrier's books follow, not those around it.
Committed(s, i, j) ==
  LET k == [j EXCEPT !.size = CalculatedSize(j), !.cost = Cost(j),
                     !.mass = @ + BaseMass(j) - BaseMass(i)]
      f == Spent([ship EXCEPT ![s] = k], s, NetCost(i, j))
  IN  IF Berthed(ship, s)
      THEN LoadCraft(UnloadCraft(f, i.dest, i.size, i.mass), i.dest, k.size, f[s].mass)
      ELSE f
Upgrade(s, a, v) ==
  LET i == ship[s]
      j == Candidate(i, a, v)
  IN  /\ Alive(ship, s) /\ Upgradable(i, a) /\ HangarAllows(s, j)
      /\ Cost(j) >= i.cost /\ NetCost(i, j) <= i.res
      /\ Ordered(Committed(s, i, j))
      /\ Loosened(Beyond(s))
      /\ UNCHANGED <<stockpile, toxic, grown>>

\* order_on: on the planet, or in a habitat's hangar, where it is folded.
HabSize(i) == 1 + CalculatedSize(i) \div 5
ActivateOnPlanet(f, i) ==
  /\ Landed(ship, f) /\ 2 * i.cost <= stockpile
  /\ stockpile' = stockpile - 2 * i.cost
  /\ Ordered([ship EXCEPT ![f].on = TRUE]) /\ Quiet
ActivateInHabitat(f, i, h) ==
  /\ Berthed(ship, f) /\ ship[h].type = "habitat"
  /\ 4 * i.cost <= ship[h].res
  /\ HabSize(i) <= ship[h].bay - ship[h].hanger + i.size
  /\ Ordered([ship EXCEPT ![f].on = TRUE, ![f].size = HabSize(i),
                          ![h].hanger = @ - i.size + HabSize(i),
                          ![h].res = @ - 4 * i.cost])
  /\ Loosened({h})
  /\ UNCHANGED <<stockpile, grown>>
Activate(f) ==
  /\ ship[f].type = "factory" /\ ~ship[f].on
  /\ ActivateOnPlanet(f, ship[f]) \/ ActivateInHabitat(f, ship[f], ship[f].dest)
  /\ UNCHANGED toxic

-----------------------------------------------------------------------------
(* Docking, launching and landing *)

Moves(f) == Ordered(f) /\ UNCHANGED <<stockpile, toxic>> /\ Quiet

Moor(s, t) ==
  /\ s # t /\ Spaceborne(ship, s) /\ Spaceborne(ship, t)
  /\ Moves(Placed(Placed(ship, s, "moored", t), t, "moored", s))

Undock(s) ==
  /\ ship[s].dock = "moored"
  /\ Moves(Placed(Placed(ship, s, "spaceborne", Nil), ship[s].dest,
                  "spaceborne", Nil))

\* land_on_planet_sector, launch_from_planet: an overloaded ship does neither.
Land(s) ==
  /\ Spaceborne(ship, s) /\ Template[ship[s].type].lands /\ ~Overloaded(ship[s])
  /\ Moves(Placed(ship, s, "landed", Nil))

MayLift(s) ==
  Landed(ship, s) => Template[ship[s].type].flies /\ ship[s].res <= MaxResource(ship[s])
LaunchFromPlanet(s) ==
  /\ Landed(ship, s) /\ MayLift(s)
  /\ Moves(Placed(ship, s, "spaceborne", Nil))

\* load_landed_onto_mothership, land_spaceborne_on_carrier
FromGround(s, c) == Landed(ship, s) /\ Landed(ship, c) /\ ~ship[s].on
FromSpace(s, c) == Spaceborne(ship, s) /\ ship[c].dock \in {"spaceborne", "moored"}

\* land_friendly_ship
Berth(s, c) ==
  /\ s # c /\ Alive(ship, c) /\ ship[c].type # "factory"
  /\ ~Overloaded(ship[s]) /\ ship[s].size <= HangerSpace(ship[c])
  /\ FromGround(s, c) \/ FromSpace(s, c)
  /\ Ordered(DockedIn(ship, s, c))
  /\ Loosened(IF s \in loose THEN {c} ELSE {})
  /\ UNCHANGED <<stockpile, toxic, grown>>

\* launch_from_carrier: not an online factory, not out of a berthed carrier
LaunchFromCarrier(s) ==
  LET c == ship[s].dest
  IN  /\ Berthed(ship, s) /\ ~Berthed(ship, c)
      /\ ~(ship[s].type = "factory" /\ ship[s].on)
      /\ Moves(UnloadCraft(Placed(ship, s, IF Landed(ship, c) THEN "landed"
                                           ELSE "spaceborne", Nil),
                           c, ship[s].size, ship[s].mass))

\* scrap_single_ship: a partner or the planet gets what it has room for.
Scrap(s) ==
  LET i == ship[s]
      v == ScrapValue(i)
  IN  /\ Alive(ship, s)
      /\ Ordered(Killed(IF Docked(ship, s) THEN Loaded(ship, i.dest, v) ELSE ship, s))
      /\ stockpile' = stockpile + (IF Landed(ship, s) THEN v ELSE 0)
      /\ toxic' = toxic + Waste(ship, s)
      /\ Loosened(Released(ship, s) \cup Beyond(s))
      /\ UNCHANGED grown

\* Shot, crashed, dissolved
Perish(s) ==
  /\ Alive(ship, s)
  /\ Ordered(Killed(ship, s))
  /\ toxic' = toxic + Waste(ship, s)
  /\ Loosened(Released(ship, s))
  /\ UNCHANGED <<stockpile, grown>>

-----------------------------------------------------------------------------
(* Turns *)

\* domass, from the innermost craft outwards
Weighed(f, s) == SumOf([x \in Ship |-> LocalMass(f[x])], Nest(f, s))
SizeInside(f, c) == SumOf([x \in Ship |-> f[x].size], InCarrier(f, c))
MassInside(f, c) == SumOf([x \in Ship |-> f[x].mass], InCarrier(f, c))
Recounted(f) ==
  [s \in Ship |->
     IF Alive(f, s) THEN [f[s] EXCEPT !.mass = Weighed(f, s), !.hanger = SizeInside(f, s)]
     ELSE f[s]]

Fleet == {s \in Ship : Alive(ship, s)}

\* process_ship_masses_and_ownership
BeginTurn ==
  /\ waiting = {} /\ days < MaxDays /\ Fleet # {}
  /\ ship' = Recounted(ship)
  /\ waiting' = Fleet
  /\ days' = days + 1
  /\ loose' = {}
  /\ grown' = [s \in Ship |-> IF grown[s] = "never" THEN "never" ELSE "once"]
  /\ UNCHANGED <<stockpile, toxic>>

\* doship: whatever has happened to it, a ship is given its design's size.
Resized(f, s) == [f EXCEPT ![s].size = CalculatedSize(f[s])]
Grew(s) ==
  grown' = [c \in Ship |->
              IF c \in Around(s) /\ CalculatedSize(ship[s]) # ship[s].size
              THEN "now" ELSE grown[c]]

TurnStep(s, f) ==
  /\ s \in waiting
  /\ ship' = f
  /\ waiting' = {x \in waiting \ {s} : Alive(f, x)}
  /\ UNCHANGED days

DoShip(s) ==
  /\ TurnStep(s, Resized(ship, s))
  /\ Grew(s)
  /\ UNCHANGED <<stockpile, toxic, loose>>

\* do_merchant: a ship on a route lands at its stop, loads, unloads and, if
\* its fuel allows, launches for the next one.
Stopped(s, in, out, d) ==
  Resized(Placed(Spent(Loaded(ship, s, in), s, out), s, d, Nil), s)
MerchantStop(s, load, unload) ==
  LET in == IF load THEN Min({stockpile, Room(ship[s])}) ELSE 0
      out == IF unload THEN ship[s].res + in ELSE 0
  IN  /\ Spaceborne(ship, s) /\ Template[ship[s].type].flies
      /\ \E d \in {"landed", "spaceborne"} :
           TurnStep(s, Stopped(s, in, out, d))
      /\ stockpile' = stockpile - in + out
      /\ UNCHANGED <<toxic, loose, grown>>

\* Mines, missiles, a nova, lost in space
LostInTurn(s) ==
  /\ TurnStep(s, Killed(ship, s))
  /\ toxic' = toxic + Waste(ship, s)
  /\ Loosened(Released(ship, s))
  /\ UNCHANGED <<stockpile, grown>>

-----------------------------------------------------------------------------
\* A fleet the race has built: full, and landed where it can land.
Started(t) ==
  [GetShip(t) EXCEPT !.dock = IF Template[t].lands THEN "landed" ELSE "spaceborne",
                     !.res = @ + Template[t].hold, !.mass = @ + Template[t].hold]

CarriersInit ==
  /\ \E g \in Start : ship = [s \in Ship |-> IF g[s] = Nil THEN Gone ELSE Started(g[s])]
  /\ stockpile = Riches /\ toxic = Pollution
  /\ waiting = {} /\ days = 0
  /\ loose = {} /\ grown = [s \in Ship |-> "never"]

CarriersNext ==
  \/ \E s \in Ship :
       \/ \E t \in Type : BuildOnPlanet(s, t) \/ Make(s, t)
       \/ \E n \in Amount :
            LoadFromPlanet(s, n) \/ UnloadToPlanet(s, n) \/ Trade(s, n) \/ Jettison(s, n)
       \/ \E a \in {"hold", "bay"}, v \in Setting : Modify(s, a, v) \/ Upgrade(s, a, v)
       \/ Activate(s) \/ Undock(s) \/ Land(s) \/ LaunchFromPlanet(s)
       \/ LaunchFromCarrier(s) \/ Scrap(s) \/ Perish(s)
       \/ DoShip(s) \/ LostInTurn(s)
       \/ \E load, unload \in BOOLEAN : MerchantStop(s, load, unload)
  \/ \E b, s \in Ship :
       \/ BuildInFactory(b, s) \/ Moor(b, s) \/ Berth(b, s)
       \/ \E t \in Type : BuildOnShip(b, s, t)
  \/ BeginTurn

CarriersSpec == CarriersInit /\ [][CarriersNext]_carriers_vars

-----------------------------------------------------------------------------
(* Properties *)

\* The variables keep their types, and nothing is berthed or moored nowhere.
FleetTypeOK ==
  /\ \A s \in Ship :
       /\ ship[s].dock \in {"gone", "landed", "spaceborne", "moored", "berthed"}
       /\ Docked(ship, s) => Alive(ship, ship[s].dest)
       /\ {ship[s].res, ship[s].size, ship[s].waste} \subseteq Nat /\ ship[s].hanger \in Int
  /\ {stockpile, toxic} \subseteq Nat
  /\ waiting \subseteq Fleet

\* A carrier's hangar in use is the sum of the sizes of what is berthed in it,
\* whatever was loaded, launched, upgraded, scrapped or killed in it since the
\* last count, unless the turn gave a factory in it another size.
HangarBooks ==
  \A c \in Fleet :
    grown[c] # "now" =>
      ship[c].hanger = SizeInside(ship, c)

\* No hangar holds more than its size, but for those a factory grew in: an
\* online factory is folded when a habitat admits it and unfolds in the turn.
HangarFits ==
  \A c \in Fleet : grown[c] = "never" => ship[c].hanger <= ship[c].bay

\* The hangar's books, kept and within bounds.
HangarsSound == FleetTypeOK /\ HangarBooks /\ HangarFits

\* A ship weighs itself and what is berthed in it, all the time, until its
\* design or its switch is changed, or what is berthed in it trades, jettisons,
\* is upgraded or scrapped a deck further in, dies with craft of its own, or
\* came in with a mass that was no longer its own.
MassBooks ==
  \A c \in Fleet :
    c \notin loose =>
      ship[c].mass = LocalMass(ship[c]) + MassInside(ship, c)

\* What the race owns: its stockpile, its cargo, and half of what its ships
\* cost.  No command and no sequence of builds, upgrades, activations, trades
\* and scraps ever makes more of it; only sectors and factories' work do.
Wealth(f, r) ==
  r + SumOf([s \in Ship |-> IF Alive(f, s) THEN ScrapValue(f[s]) ELSE 0], Ship)
NothingFromNothing == [][Wealth(ship', stockpile') <= Wealth(ship, stockpile)]_carriers_vars

\* -- Stated in the repository, refuted by the model (README, disagreements) --

\* docs/ships.md:61 "Hangar Capacity Invariant": the sizes of the craft a
\* carrier holds never exceed its hangar.
HangarCapacityInvariant ==
  \A c \in Fleet :
    SizeInside(ship, c) <= ship[c].bay

\* docs/ships.md:71: building a canister "extracts up to 20% atmospheric
\* toxicity from the planetary environment and seals it inside".
ToxicitySealed ==
  [][toxic' < toxic =>
       \E s \in Ship : ship'[s].waste = ship[s].waste + toxic - toxic']_carriers_vars
=============================================================================
