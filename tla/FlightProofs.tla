---------------------------- MODULE FlightProofs ----------------------------
(***************************************************************************)
(* Proofs about Flight, for any stars, planets, ships, designs and starts  *)
(* that FlightAssumption, SystemAssumption and StartAssumption allow.      *)
(*                                                                         *)
(* A ship's record is Good when it flies on what its tank holds, its jump  *)
(* order has what a jump needs, and it is where it says it is.  There is   *)
(* one lemma for each operator that makes a record out of a good one, in   *)
(* the order of the code: leaving an orbit, jumping, navigating, arriving  *)
(* at a star, a planet or a quarry, trading, moving towards a destination, *)
(* moveship, doship.  A segment is a recursion over the set of ships that  *)
(* fly: SweepRecursion shows it has one solution, SegmentFlies what that   *)
(* solution is.  IInv says that all records are good; every action keeps   *)
(* it, and it implies LogsAreTrue.                                         *)
(*                                                                         *)
(* The second part is about the forecast.  Copy is MoveShip without the    *)
(* world, for a ship that makes for a place; CopyOfShip shows that the     *)
(* forecast's copy moves by it, whatever the world, and that the ship      *)
(* itself does what its copy did until the copy arrives.  A forecast is a  *)
(* Course, the copy's records segment by segment (TripPromise); Promises   *)
(* says that every ship with a forecast has such a course still ahead of   *)
(* it, and a segment takes the first step of it (CourseStep).              *)
(***************************************************************************)
EXTENDS Flight, SumTheorems

-----------------------------------------------------------------------------
(* Ships, one record at a time *)

\* A record of a ship that flies on what its tank holds, no faster than built.
Fit(x) == x \in ShipRec /\ x.fuel \in 0..Tank /\ x.speed <= Design[x.id].speed
\* A jump order goes with what it needs.
JumpOK(x) ==
  x.on => Design[x.id].drive /\ ~x.docked /\ CelestialDestination(x) /\ ~x.navigate
PlaceOK(x) ==
  x.alive => (x.guest < 2 => InOrbit(x)) /\ (x.docked => OnGround(x))
Good(x) == Fit(x) /\ JumpOK(x) /\ PlaceOK(x)

\* y is x some time later: what flight leaves alone.
Kept(x, y) ==
  /\ y.id = x.id /\ y.crew = x.crew /\ y.mounted = x.mounted /\ y.speed = x.speed
  /\ y.merchant = x.merchant

(* The constants are numbers.                                              *)
LEMMA Numbers ==
  /\ SYSTEMSIZE \in Nat \ {0} /\ PLORBITSIZE \in Nat \ {0} /\ DIST_TO_LAND \in Nat \ {0}
  /\ FollowRange \in Nat \ {0} /\ HYPER_DIST \in Nat \ {0}
  /\ READY \in Nat \ {0} /\ SEGMENTS \in Nat \ {0}
  /\ Lift \in Nat /\ Tank \in Nat /\ Depot \in Nat /\ MaxOrders \in Nat /\ MaxTrip \in Nat
  /\ DIST_TO_LAND <= PLORBITSIZE
  BY FlightAssumption

(* Stars, planets and ships are different things, and places have a site.  *)
LEMMA Places ==
  /\ Sun \in [Planet -> Star] /\ Site \in [Body -> Int] /\ Owner \in [Ship -> Race]
  /\ Reach \in [{"planet", "star", "deep"} -> Nat]
  /\ \A b \in Body : Site[b] \in Int
  /\ \A p \in Planet : p \in Body /\ Sun[p] \in Star /\ Sun[p] \in Body /\ p \notin Star
  /\ \A p \in Star : p \in Body /\ p \notin Planet
  /\ \A s \in Ship : s \notin Body /\ s # None
  /\ None \notin Body /\ None \notin Planet /\ None \notin Star
  /\ Place = Body \cup {None}
  BY FlightAssumption DEF Body, Place

(* The distance of two places. *)
LEMMA AwayFacts ==
  ASSUME NEW a \in Int, NEW b \in Int
  PROVE  /\ Away(a, b) \in Nat /\ Away(a, b) = Away(b, a)
         /\ Toward(a, b) \in {-1, 1}
         /\ \A c \in Int : Away(a, c) <= Away(a, b) + Away(b, c)
  BY DEF Away, Toward

(* The fields of a record of a ship. *)
LEMMA Fields ==
  ASSUME NEW x \in ShipRec
  PROVE  /\ x.id \in Ship /\ x.alive \in BOOLEAN /\ x.at \in Place /\ x.pos \in Int
         /\ x.dest \in Place \cup Ship /\ x.docked \in BOOLEAN /\ x.speed \in Nat
         /\ x.fuel \in Int /\ x.on \in BOOLEAN /\ x.charge \in 0..READY
         /\ x.navigate \in BOOLEAN /\ x.bearing \in {-1, 1} /\ x.turns \in Int
         /\ x.evade \in BOOLEAN /\ x.mounted \in BOOLEAN /\ x.crew \in BOOLEAN
         /\ x.merchant \in BOOLEAN /\ x.guest \in 0..2
  BY DEF ShipRec

(* Leaving an orbit or a system. *)
LEMMA EnterOrbitRecord ==
  ASSUME NEW x \in ShipRec, NEW b \in Place
  PROVE  /\ EnterOrbit(x, b) \in ShipRec
         /\ EnterOrbit(x, b) = [x EXCEPT !.at = b, !.docked = FALSE]
  BY DEF EnterOrbit, ShipRec

(* A destination given up or taken. *)
LEMMA DestinationRecord ==
  ASSUME NEW x \in ShipRec, NEW d \in Place \cup Ship, Good(x)
  PROVE  /\ SetDestination(x, d) \in ShipRec /\ Good(SetDestination(x, d))
         /\ Kept(x, SetDestination(x, d))
         /\ SetDestination(x, d).dest = d
  <1> DEFINE y == SetDestination(x, d)
  <1>1. y \in ShipRec
    <2>1. ASSUME NEW o \in BOOLEAN PROVE [x EXCEPT !.dest = d, !.on = o] \in ShipRec
      BY DEF ShipRec
    <2>2. (x.on /\ d \in Body) \in BOOLEAN
      OBVIOUS
    <2> QED BY <2>1, <2>2 DEF SetDestination
  <1>2. /\ y.dest = d /\ y.on = (x.on /\ d \in Body) /\ y.at = x.at /\ y.pos = x.pos
        /\ y.alive = x.alive /\ y.docked = x.docked /\ y.guest = x.guest
        /\ y.fuel = x.fuel /\ y.speed = x.speed /\ y.id = x.id /\ y.navigate = x.navigate
        /\ y.charge = x.charge /\ Kept(x, y)
    BY DEF SetDestination, ShipRec, Kept
  <1>3. Fit(y)
    BY <1>1, <1>2 DEF Good, Fit
  <1>4. JumpOK(y)
    BY <1>2 DEF Good, JumpOK, CelestialDestination
  <1>5. PlaceOK(y)
    BY <1>2 DEF Good, PlaceOK, InOrbit, OnGround
  <1> QED BY <1>1, <1>2, <1>3, <1>4, <1>5 DEF Good

(* A destination given up, as one EXCEPT.                                  *)
LEMMA ClearRecord ==
  ASSUME NEW x \in ShipRec, Good(x)
  PROVE  /\ ClearDestination(x) \in ShipRec /\ Good(ClearDestination(x))
         /\ Kept(x, ClearDestination(x))
         /\ ClearDestination(x) = [x EXCEPT !.dest = None, !.on = FALSE]
  <1>1. None \in Place \cup Ship /\ None \notin Body
    BY Places
  <1>2. (x.on /\ None \in Body) = FALSE
    BY <1>1
  <1>3. ClearDestination(x) = [x EXCEPT !.dest = None, !.on = FALSE]
    BY <1>2 DEF ClearDestination, SetDestination
  <1> QED BY <1>1, <1>3, DestinationRecord DEF ClearDestination

(* Min of two. *)
LEMMA LesserOf ==
  ASSUME NEW a \in Int, NEW b \in Int
  PROVE  Min({a, b}) = IF a <= b THEN a ELSE b
  <1> DEFINE P(x) == x \in {a, b} /\ \A y \in {a, b} : x <= y
             z == IF a <= b THEN a ELSE b
  <1>1. P(z)
    OBVIOUS
  <1>2. \A x, y : P(x) /\ P(y) => x = y
    OBVIOUS
  <1> QED BY <1>1, <1>2 DEF Min

(* What a jump and a segment burn, and how far they carry. *)
LEMMA BurnIsNat ==
  ASSUME NEW x \in ShipRec
  PROVE  Burn(x) \in Nat /\ MoveFactor(x) \in Nat
  <1>1. x.speed \in Nat
    BY Fields
  <1>2. Scope(x) \in {"planet", "star", "deep"}
    BY DEF Scope
  <1>3. Reach[Scope(x)] \in Nat
    BY <1>2, Places
  <1>4. \A a, b \in Nat : a * b \in Nat
    OBVIOUS
  <1> QED BY <1>1, <1>3, <1>4 DEF Burn, MoveFactor

(* What a jump burns.                                                      *)
LEMMA JumpFuelIsNat ==
  ASSUME NEW x \in ShipRec, NEW d \in Nat
  PROVE  HyperjumpFuel(x, d) \in Nat
  <1> DEFINE r == (d + HYPER_DIST - 1) \div HYPER_DIST
  <1>1. HYPER_DIST \in Nat \ {0}
    BY Numbers
  <1>2. r \in Nat
    BY <1>1
  <1>3. r * r \in Nat
    BY <1>2
  <1> QED BY <1>2, <1>3 DEF HyperjumpFuel

(* A jump leaves the ship in the system it was ordered to, on its own. *)
LEMMA JumpRecord ==
  ASSUME NEW x \in ShipRec, Good(x), NEW b \in Star, NEW n \in Nat, n <= x.fuel
  PROVE  /\ Good(Jump(x, b, n)) /\ Kept(x, Jump(x, b, n))
         /\ Jump(x, b, n).alive = x.alive /\ Jump(x, b, n).charge = 0
         /\ Jump(x, b, n).dest = x.dest /\ Jump(x, b, n).at = b
  <1> DEFINE r == (9 * SYSTEMSIZE) \div 10
             q == Site[b] - Toward(x.pos, Site[b]) * r
             y == Jump(x, b, n)
  <1>1. r \in Nat /\ r <= SYSTEMSIZE /\ SYSTEMSIZE \in Nat /\ PLORBITSIZE \in Nat
    BY Numbers
  <1>2. Site[b] \in Int /\ b \in Place /\ b \notin Planet /\ b \in Star
    BY Places
  <1>3. x.pos \in Int /\ x.fuel \in Int
    BY Fields
  <1>4. Toward(x.pos, Site[b]) \in {-1, 1}
    BY <1>2, <1>3, AwayFacts
  <1>5. q \in Int /\ Away(q, Site[b]) = r
    BY <1>1, <1>2, <1>4 DEF Away
  <1>6. y = [[x EXCEPT !.at = b, !.docked = FALSE, !.guest = 0] EXCEPT
               !.pos = q, !.fuel = x.fuel - n, !.on = FALSE, !.charge = 0]
    BY DEF Jump, ArriveAt, EnterOrbit, ShipRec
  <1>7. 0 \in 0..READY
    BY Numbers
  <1> HIDE DEF q, r
  <1>8. y \in ShipRec
    <2> DEFINE z == [x EXCEPT !.at = b, !.docked = FALSE, !.guest = 0]
    <2>1. z \in ShipRec
      <3>1. 0 \in 0..2
        OBVIOUS
      <3>2. [x EXCEPT !.at = b, !.docked = FALSE] \in ShipRec
        BY <1>2 DEF ShipRec
      <3>3. \A v \in ShipRec : [v EXCEPT !.guest = 0] \in ShipRec
        BY <3>1 DEF ShipRec
      <3>4. z = [[x EXCEPT !.at = b, !.docked = FALSE] EXCEPT !.guest = 0]
        BY DEF ShipRec
      <3> QED BY <3>2, <3>3, <3>4
    <2>2. x.fuel - n \in Int
      BY <1>3
    <2> HIDE DEF z
    <2>3. \A f, o \in Int : [z EXCEPT !.pos = o, !.fuel = f, !.on = FALSE, !.charge = 0] \in ShipRec
      BY <1>7, <2>1 DEF ShipRec
    <2> QED BY <1>5, <1>6, <2>2, <2>3 DEF z
  <1>9. /\ y.at = b /\ y.docked = FALSE /\ y.guest = 0 /\ y.pos = q /\ y.fuel = x.fuel - n
        /\ y.on = FALSE /\ y.charge = 0 /\ y.alive = x.alive /\ y.dest = x.dest
        /\ y.id = x.id /\ y.crew = x.crew /\ y.mounted = x.mounted /\ y.speed = x.speed
        /\ y.merchant = x.merchant
    BY <1>6 DEF ShipRec
  <1>10. Fit(y)
    BY <1>3, <1>8, <1>9, Numbers DEF Good, Fit
  <1>11. PlaceOK(y)
    BY <1>1, <1>2, <1>5, <1>9 DEF PlaceOK, InOrbit
  <1> QED BY <1>9, <1>10, <1>11 DEF Good, JumpOK, Kept

(* At an update a ship under a jump order charges, jumps or gives it up. *)
LEMMA HyperdriveRecord ==
  ASSUME NEW x \in ShipRec, Good(x), x.on, NEW update \in BOOLEAN
  PROVE  LET y == HyperdriveJump(x, update)
         IN  /\ Good(y) /\ Kept(x, y) /\ y.alive = x.alive /\ y.dest = x.dest
             /\ y.charge >= READY => x.charge >= READY \/ update
  <1> DEFINE y == HyperdriveJump(x, update)
             b == DestStar(x)
             n == HyperjumpFuel(x, Away(x.pos, Site[b]))
  <1>1. x.dest \in Body /\ ~x.docked
    BY DEF Good, JumpOK, CelestialDestination
  <1>2. b \in Star /\ Site[b] \in Int
    BY <1>1, Places DEF DestStar, Body
  <1>3. n \in Nat
    BY <1>2, Fields, AwayFacts, JumpFuelIsNat
  <1>4. Kept(x, x)
    BY DEF Kept
  <1>5. CASE y = x
    BY <1>4, <1>5
  <1>6. CASE y = [x EXCEPT !.on = FALSE]
    <2>1. y \in ShipRec
      BY <1>6 DEF ShipRec
    <2>2. /\ y.on = FALSE /\ y.at = x.at /\ y.pos = x.pos /\ y.dest = x.dest
          /\ y.alive = x.alive /\ y.docked = x.docked /\ y.guest = x.guest
          /\ y.fuel = x.fuel /\ y.speed = x.speed /\ y.id = x.id /\ y.charge = x.charge
          /\ Kept(x, y)
      BY <1>6 DEF ShipRec, Kept
    <2> QED BY <2>1, <2>2 DEF Good, Fit, JumpOK, PlaceOK, InOrbit, OnGround
  <1>7. CASE y = ChargeDrive(x) /\ update
    <2>1. PICK c \in 0..READY : y = [x EXCEPT !.charge = c]
      <3>1. x.charge \in 0..READY /\ READY \in Nat
        BY Fields, Numbers
      <3> DEFINE c == IF x.mounted THEN READY ELSE IF x.charge < READY THEN x.charge + 1 ELSE x.charge
      <3>2. c \in 0..READY
        BY <3>1
      <3>3. y = [x EXCEPT !.charge = c]
        BY <1>7 DEF ChargeDrive
      <3> HIDE DEF c, y
      <3> QED BY <3>2, <3>3
    <2>2. y \in ShipRec
      BY <2>1 DEF ShipRec
    <2>3. /\ y.on = x.on /\ y.at = x.at /\ y.pos = x.pos /\ y.dest = x.dest
          /\ y.alive = x.alive /\ y.docked = x.docked /\ y.guest = x.guest
          /\ y.fuel = x.fuel /\ y.speed = x.speed /\ y.id = x.id /\ y.navigate = x.navigate
          /\ Kept(x, y)
      BY <2>1 DEF ShipRec, Kept
    <2> QED BY <1>7, <2>2, <2>3
            DEF Good, Fit, JumpOK, CelestialDestination, PlaceOK, InOrbit, OnGround
  <1>8. CASE y = Jump(x, b, n) /\ n <= x.fuel
    <2>1. ~(0 >= READY)
      BY Numbers
    <2> QED BY <1>2, <1>3, <1>8, <2>1, JumpRecord
  <1>9. \/ y = x
        \/ y = [x EXCEPT !.on = FALSE]
        \/ y = ChargeDrive(x) /\ update
        \/ y = Jump(x, b, n) /\ n <= x.fuel
    <2>1. x.fuel \in Int /\ n \in Int
      BY <1>3, Fields
    <2> HIDE DEF n, b
    <2>2. ~(x.fuel < n) => n <= x.fuel
      BY <2>1
    <2>3. HyperdriveJump(x, update) =
            IF ~update THEN x
            ELSE IF x.docked \/ ~CelestialDestination(x) THEN [x EXCEPT !.on = FALSE]
            ELSE IF x.charge < READY THEN ChargeDrive(x)
            ELSE IF x.fuel < n THEN [x EXCEPT !.on = FALSE] ELSE Jump(x, b, n)
      BY Zenon DEF HyperdriveJump, n, b
    <2> QED BY <2>2, <2>3
  <1> HIDE DEF n, b
  <1> QED BY <1>5, <1>6, <1>7, <1>8, <1>9

(* Fields a place does not depend on may change with the rest of a record. *)
LEMMA PlaceFollows ==
  ASSUME NEW x, NEW y, PlaceOK(x), y.at = x.at, y.pos = x.pos, y.guest = x.guest,
         y.alive => x.alive, y.docked => x.docked
  PROVE  PlaceOK(y)
  BY DEF PlaceOK, InOrbit, OnGround

\* A ship that leaves its planet's orbit is well inside the system.
Slack(y) ==
  y.alive /\ y.guest < 2 /\ y.at \in Planet =>
    2 * Away(y.pos, Site[Sun[y.at]]) <= 3 * SYSTEMSIZE + 2 * y.guest * PLORBITSIZE

(* Who is too far out leaves the orbit or the system: the record is good again. *)
LEMMA BreakOrbitRecord ==
  ASSUME NEW y \in ShipRec, Fit(y), ~y.docked, ~y.on, Slack(y)
  PROVE  LET z == BreakOrbit(y)
         IN  /\ Good(z) /\ Kept(y, z) /\ z.alive = y.alive /\ z.charge = y.charge
             /\ ~z.docked /\ ~z.on /\ z.pos = y.pos /\ z.dest = y.dest /\ z.fuel = y.fuel
             /\ z.navigate = y.navigate
  <1> DEFINE z == BreakOrbit(y)
             p == y.at
             Out(v) == /\ v \in ShipRec /\ Kept(y, v) /\ v.alive = y.alive /\ v.charge = y.charge
                       /\ ~v.docked /\ ~v.on /\ v.pos = y.pos /\ v.dest = y.dest
                       /\ v.fuel = y.fuel /\ v.navigate = y.navigate /\ v.guest = y.guest
                       /\ v.id = y.id /\ v.speed = y.speed
  <1>1. /\ PLORBITSIZE \in Nat /\ SYSTEMSIZE \in Nat /\ y.pos \in Int /\ y.guest \in 0..2
        /\ y.id \in Ship
    BY Numbers, Fields
  <1>2. CASE p \in Planet /\ Away(y.pos, Site[p]) > PLORBITSIZE
    <2>1. z = [y EXCEPT !.at = Sun[p], !.docked = FALSE]
      BY <1>2 DEF BreakOrbit, EnterOrbit
    <2>2. Sun[p] \in Place /\ Sun[p] \in Star /\ Sun[p] \notin Planet
      BY <1>2, Places
    <2>3. Out(z) /\ z.at = Sun[p]
      BY <2>1, <2>2 DEF ShipRec, Kept
    <2>4. PlaceOK(z)
      BY <1>2, <2>2, <2>3 DEF PlaceOK, InOrbit, Slack
    <2> QED BY <2>3, <2>4 DEF Good, Fit, JumpOK
  <1>3. CASE p \in Star /\ Away(y.pos, Site[p]) > SYSTEMSIZE
    <2>1. z = [[y EXCEPT !.at = None, !.docked = FALSE] EXCEPT !.evade = FALSE]
      BY <1>3, Places DEF BreakOrbit, EnterOrbit, EnterDeepSpace
    <2>2. None \in Place /\ None \notin Planet /\ None \notin Star
      BY Places
    <2>3. Out(z) /\ z.at = None
      <3> DEFINE v == [y EXCEPT !.at = None, !.docked = FALSE]
      <3>1. Out(v) /\ v.at = None
        BY <2>2 DEF ShipRec, Kept
      <3>2. \A w \in ShipRec : LET u == [w EXCEPT !.evade = FALSE]
              IN  (Out(w) => Out(u)) /\ u.at = w.at
        BY DEF ShipRec, Kept
      <3> HIDE DEF v
      <3> QED BY <2>1, <3>1, <3>2 DEF v
    <2>4. PlaceOK(z)
      BY <2>2, <2>3 DEF PlaceOK, InOrbit
    <2> QED BY <2>3, <2>4 DEF Good, Fit, JumpOK
  <1>4. CASE /\ ~(p \in Planet /\ Away(y.pos, Site[p]) > PLORBITSIZE)
             /\ ~(p \in Star /\ Away(y.pos, Site[p]) > SYSTEMSIZE)
    <2>1. z = y
      BY <1>4 DEF BreakOrbit
    <2>2. p \in Planet => Away(y.pos, Site[p]) \in Nat /\ Away(y.pos, Site[p]) <= PLORBITSIZE
      <3> SUFFICES ASSUME p \in Planet
                   PROVE  Away(y.pos, Site[p]) \in Nat /\ Away(y.pos, Site[p]) <= PLORBITSIZE
        OBVIOUS
      <3>1. Site[p] \in Int
        BY Places
      <3>2. Away(y.pos, Site[p]) \in Nat
        BY <1>1, <3>1, AwayFacts
      <3>3. ~(Away(y.pos, Site[p]) > PLORBITSIZE)
        BY <1>4
      <3> QED BY <1>1, <3>2, <3>3
    <2>3. p \in Star => Away(y.pos, Site[p]) \in Nat /\ Away(y.pos, Site[p]) <= SYSTEMSIZE
      <3> SUFFICES ASSUME p \in Star
                   PROVE  Away(y.pos, Site[p]) \in Nat /\ Away(y.pos, Site[p]) <= SYSTEMSIZE
        OBVIOUS
      <3>1. Site[p] \in Int
        BY Places
      <3>2. Away(y.pos, Site[p]) \in Nat
        BY <1>1, <3>1, AwayFacts
      <3>3. ~(Away(y.pos, Site[p]) > SYSTEMSIZE)
        BY <1>4
      <3> QED BY <1>1, <3>2, <3>3
    <2>4. InOrbit(y)
      <3>1. CASE y.guest = 0
        BY <1>1, <2>2, <2>3, <3>1 DEF InOrbit
      <3>2. CASE y.guest = 1
        BY <1>1, <2>2, <2>3, <3>2 DEF InOrbit
      <3>3. CASE y.guest = 2
        BY <1>1, <2>2, <2>3, <3>3 DEF InOrbit
      <3> QED BY <1>1, <3>1, <3>2, <3>3
    <2>5. PlaceOK(y)
      BY <2>4 DEF PlaceOK
    <2>6. Kept(y, y)
      BY DEF Kept
    <2> QED BY <2>1, <2>5, <2>6 DEF Good, JumpOK
  <1> QED BY <1>2, <1>3, <1>4

(* A ship that has moved no further than its drive takes it, or has backed  *)
(* away from another star, is still inside its system.                     *)
LEMMA MovedSlack ==
  ASSUME NEW x \in ShipRec, Good(x), ~x.docked, NEW y \in ShipRec,
         y.at = x.at, y.alive = x.alive,
         y.guest = x.guest \/ y.guest = 2,
         y.guest < 2 => Away(y.pos, x.pos) <= MoveFactor(x)
  PROVE  Slack(y)
  <1> SUFFICES ASSUME y.alive, y.guest < 2, y.at \in Planet
               PROVE  2 * Away(y.pos, Site[Sun[y.at]])
                        <= 3 * SYSTEMSIZE + 2 * y.guest * PLORBITSIZE
    BY DEF Slack
  <1> DEFINE p == y.at
             m == x.speed * Reach["planet"]
             far == Away(Site[p], Site[Sun[p]])
             d == Away(x.pos, Site[p])
             k == Away(y.pos, x.pos)
             e == Away(x.pos, Site[Sun[p]])
             g == Away(y.pos, Site[Sun[p]])
  <1>1. /\ PLORBITSIZE \in Nat /\ SYSTEMSIZE \in Nat /\ y.pos \in Int /\ x.pos \in Int
        /\ x.guest \in 0..2 /\ x.id \in Ship /\ x.speed \in Nat
    BY Numbers, Fields
  <1>2. Site[p] \in Int /\ Site[Sun[p]] \in Int /\ Reach["planet"] \in Nat
    BY Places
  <1>3. x.guest < 2 /\ y.guest = x.guest /\ x.alive
    BY <1>1
  <1>4. MoveFactor(x) = m
    BY DEF MoveFactor, Scope
  <1>5. m \in Nat
    BY <1>1, <1>2
  <1>6. 2 * (far + PLORBITSIZE + m) <= 3 * SYSTEMSIZE
    <2>1. x.speed \in 0..Design[x.id].speed
      <3>1. Design[x.id].speed \in Nat
        BY <1>1, FlightAssumption
      <3> QED BY <1>1, <3>1 DEF Good, Fit
    <2> QED BY <1>1, <2>1, SystemAssumption
  <1>7. d <= (1 + x.guest) * PLORBITSIZE
    BY <1>3 DEF Good, PlaceOK, InOrbit
  <1>8. far \in Nat /\ d \in Nat /\ k \in Nat /\ e \in Nat /\ g \in Nat /\ e <= d + far /\ g <= k + e
    BY <1>1, <1>2, AwayFacts
  <1>9. k <= m
    BY <1>3, <1>4
  <1> HIDE DEF m, far, d, k, e, g
  <1>10. CASE x.guest = 0
    BY <1>1, <1>3, <1>5, <1>6, <1>7, <1>8, <1>9, <1>10 DEF g
  <1>11. CASE x.guest = 1
    BY <1>1, <1>3, <1>5, <1>6, <1>7, <1>8, <1>9, <1>11 DEF g
  <1> QED BY <1>1, <1>3, <1>10, <1>11

(* A course by bearing. *)
LEMMA NavigationRecord ==
  ASSUME NEW x \in ShipRec, Good(x), ~x.docked, ~x.on, Burn(x) <= x.fuel
  PROVE  LET z == NavigationStep(x)
         IN  /\ Good(z) /\ Kept(x, z) /\ z.alive = x.alive /\ z.charge = x.charge
             /\ z.dest = x.dest
  <1> DEFINE b == Burn(x)
             m == MoveFactor(x)
             f == x.fuel - b
             o == x.pos + x.bearing * m
             v == x.turns # 1
             y == [x EXCEPT !.fuel = f, !.pos = o, !.turns = x.turns - 1, !.navigate = v]
  <1>1. b \in Nat /\ m \in Nat
    BY BurnIsNat
  <1>2. x.fuel \in 0..Tank /\ Tank \in Nat /\ x.pos \in Int /\ x.bearing \in {-1, 1} /\ x.turns \in Int
    BY Fields, Numbers DEF Good, Fit
  <1>3. f \in 0..Tank /\ o \in Int /\ x.turns - 1 \in Int /\ v \in BOOLEAN
    BY <1>1, <1>2
  <1>4. Away(o, x.pos) <= m
    BY <1>1, <1>2 DEF Away
  <1>5. NavigationStep(x) = BreakOrbit(y)
    BY DEF NavigationStep
  <1> HIDE DEF f, o, v, b, m
  <1> DEFINE u == [x EXCEPT !.fuel = f, !.pos = o]
  <1>6. u \in ShipRec /\ y = [u EXCEPT !.turns = x.turns - 1, !.navigate = v]
    <2>1. f \in Int /\ o \in Int
      BY <1>2, <1>3
    <2>2. \A i, j \in Int : [x EXCEPT !.fuel = i, !.pos = j] \in ShipRec
      BY DEF ShipRec
    <2>3. u \in ShipRec
      BY <2>1, <2>2
    <2> QED BY <2>3 DEF ShipRec
  <1>7. /\ u.fuel = f /\ u.pos = o /\ u.at = x.at /\ u.alive = x.alive
        /\ u.guest = x.guest /\ u.docked = x.docked /\ u.on = x.on /\ u.charge = x.charge
        /\ u.speed = x.speed /\ u.id = x.id /\ u.dest = x.dest /\ Kept(x, u)
    BY DEF ShipRec, Kept
  <1>8. /\ y \in ShipRec /\ y.fuel = f /\ y.pos = o /\ y.at = x.at /\ y.alive = x.alive
        /\ y.guest = x.guest /\ y.docked = x.docked /\ y.on = x.on /\ y.charge = x.charge
        /\ y.speed = x.speed /\ y.id = x.id /\ y.dest = x.dest /\ Kept(x, y)
    <2>1. \A k \in Int, n \in BOOLEAN : [u EXCEPT !.turns = k, !.navigate = n] \in ShipRec
      BY <1>6 DEF ShipRec
    <2>2. y \in ShipRec
      BY <1>3, <1>6, <2>1
    <2>3. /\ y.fuel = u.fuel /\ y.pos = u.pos /\ y.at = u.at /\ y.alive = u.alive
          /\ y.guest = u.guest /\ y.docked = u.docked /\ y.on = u.on /\ y.charge = u.charge
          /\ y.speed = u.speed /\ y.id = u.id /\ y.dest = u.dest /\ Kept(u, y)
      BY <1>6 DEF ShipRec, Kept
    <2> QED BY <1>7, <2>2, <2>3 DEF Kept
  <1> HIDE DEF y
  <1>9. Fit(y)
    BY <1>3, <1>8 DEF Good, Fit
  <1>10. Slack(y)
    BY <1>4, <1>8, MovedSlack DEF m
  <1>11. /\ Good(BreakOrbit(y)) /\ Kept(y, BreakOrbit(y)) /\ BreakOrbit(y).alive = y.alive
         /\ BreakOrbit(y).charge = y.charge /\ BreakOrbit(y).dest = y.dest
    BY <1>8, <1>9, <1>10, BreakOrbitRecord
  <1>12. Kept(x, BreakOrbit(y))
    BY <1>8, <1>11 DEF Kept
  <1> QED BY <1>5, <1>8, <1>11, <1>12

(* Adrift without fuel. *)
LEMMA OutOfFuelRecord ==
  ASSUME NEW x \in ShipRec, Good(x), NEW real \in BOOLEAN
  PROVE  LET z == OutOfFuel(x, real)
         IN  Good(z) /\ Kept(x, z) /\ (z.alive => x.alive) /\ z.charge = x.charge
  <1> DEFINE y == [x EXCEPT !.alive = FALSE]
  <1>1. /\ y \in ShipRec /\ y.alive = FALSE /\ y.fuel = x.fuel /\ y.speed = x.speed
        /\ y.id = x.id /\ y.on = x.on /\ y.docked = x.docked /\ y.dest = x.dest
        /\ y.navigate = x.navigate /\ y.charge = x.charge /\ Kept(x, y)
    BY DEF ShipRec, Kept
  <1> HIDE DEF y
  <1>2. Good(y)
    BY <1>1 DEF Good, Fit, JumpOK, CelestialDestination, PlaceOK
  <1>3. OutOfFuel(x, real) \in {x, y}
    BY DEF OutOfFuel, y
  <1>4. Kept(x, x)
    BY DEF Kept
  <1> QED BY <1>1, <1>2, <1>3, <1>4

-----------------------------------------------------------------------------
(* The world a ship flies in *)

WorldRec ==
  [ship : [Ship -> ShipRec], seen : SUBSET (Race \X Body), depot : [Planet -> Nat]]
GoodWorld(w) ==
  w \in WorldRec /\ \A s \in Ship : Good(w.ship[s]) /\ w.ship[s].id = s
Routed == route \in [Planet -> RouteRec]

\* What the crew or the probe of a ship sees where it is.
Sight(x) == IF x.alive /\ HasSight(x) THEN Seen(x) ELSE {}

\* m is what became of the world w and of x in it.
Flew(w, x, m) ==
  /\ Good(m.x) /\ Kept(x, m.x) /\ (m.x.alive => x.alive)
  /\ m.w \in WorldRec /\ m.w.ship = w.ship
  /\ w.seen \subseteq m.w.seen /\ m.w.seen \subseteq w.seen \cup Sight(m.x)

(* What is seen is a race and a place.                                     *)
LEMMA SeenType ==
  ASSUME NEW x \in ShipRec
  PROVE  Seen(x) \in SUBSET (Race \X Body)
  <1>1. x.at \in Body \cup {None} /\ x.id \in Ship
    BY Fields, Places
  <1>2. Owner[x.id] \in Race
    BY <1>1, Places
  <1>3. StarOf(x) \in Body \cup {None}
    BY <1>1, Places DEF StarOf
  <1> QED BY <1>1, <1>2, <1>3 DEF Seen

(* The parts of a world, and a world with one of them replaced.            *)
LEMMA WorldFields ==
  ASSUME NEW w \in WorldRec
  PROVE  /\ w.ship \in [Ship -> ShipRec] /\ w.seen \in SUBSET (Race \X Body)
         /\ w.depot \in [Planet -> Nat]
         /\ \A S \in SUBSET (Race \X Body) :
              LET v == [w EXCEPT !.seen = S]
              IN  v \in WorldRec /\ v.ship = w.ship /\ v.seen = S /\ v.depot = w.depot
         /\ \A D \in [Planet -> Nat] :
              LET v == [w EXCEPT !.depot = D]
              IN  v \in WorldRec /\ v.ship = w.ship /\ v.seen = w.seen /\ v.depot = D
  BY DEF WorldRec

(* Exploring marks no more than the crew or probe sees. *)
LEMMA ExploreWorld ==
  ASSUME NEW w \in WorldRec, NEW x \in ShipRec, NEW real \in BOOLEAN
  PROVE  LET v == Explore(w, x, real)
         IN  /\ v \in WorldRec /\ v.ship = w.ship /\ v.depot = w.depot
             /\ w.seen \subseteq v.seen
             /\ v.seen \subseteq w.seen \cup (IF HasSight(x) THEN Seen(x) ELSE {})
             /\ ~real => v = w
  <1>1. Seen(x) \in SUBSET (Race \X Body) /\ w.seen \in SUBSET (Race \X Body)
    BY SeenType, WorldFields
  <1>2. CASE real /\ HasSight(x)
    <2>1. Explore(w, x, real) = [w EXCEPT !.seen = w.seen \cup Seen(x)]
      BY <1>2 DEF Explore
    <2>2. w.seen \cup Seen(x) \in SUBSET (Race \X Body)
      BY <1>1
    <2> DEFINE v == [w EXCEPT !.seen = w.seen \cup Seen(x)]
    <2>3. v \in WorldRec /\ v.ship = w.ship /\ v.seen = w.seen \cup Seen(x) /\ v.depot = w.depot
      BY <2>2 DEF WorldRec
    <2> QED BY <1>2, <2>1, <2>3
  <1>3. CASE ~(real /\ HasSight(x))
    BY <1>3 DEF Explore
  <1> QED BY <1>2, <1>3

(* A ship that is where another one is sees the same. *)
LEMMA SameSight ==
  ASSUME NEW x, NEW y, Kept(x, y), y.at = x.at, y.alive = x.alive
  PROVE  Sight(y) = Sight(x) /\ Seen(y) = Seen(x) /\ (HasSight(y) <=> HasSight(x))
  BY DEF Kept, Sight, Seen, HasSight, StarOf

(* What one step leaves alone and then another.                            *)
LEMMA KeptTwice ==
  ASSUME NEW x, NEW y, NEW z, Kept(x, y), Kept(y, z)
  PROVE  Kept(x, z)
  BY DEF Kept

(* Arriving by oneself, near enough. *)
LEMMA ArriveRecord ==
  ASSUME NEW x \in ShipRec, Good(x), ~x.docked, ~x.on, NEW b \in Body,
         b \in Planet => Away(x.pos, Site[b]) <= PLORBITSIZE,
         b \in Star => 2 * Away(x.pos, Site[b]) <= 3 * SYSTEMSIZE
  PROVE  LET y == ArriveAt(x, b)
         IN  /\ y \in ShipRec /\ Good(y) /\ Kept(x, y) /\ y.alive = x.alive
             /\ y.charge = x.charge /\ y.at = b /\ y.pos = x.pos /\ y.fuel = x.fuel
             /\ y.dest = x.dest /\ ~y.docked /\ ~y.on /\ y.navigate = x.navigate
  <1> DEFINE y == ArriveAt(x, b)
             v == [x EXCEPT !.at = b, !.docked = FALSE]
  <1>1. b \in Place
    BY Places
  <1>2. v \in ShipRec
    BY <1>1 DEF ShipRec
  <1>3. y = [v EXCEPT !.guest = 0]
    BY DEF ArriveAt, EnterOrbit
  <1>4. y \in ShipRec
    <2>1. 0 \in 0..2
      OBVIOUS
    <2> HIDE DEF v
    <2> QED BY <1>2, <1>3, <2>1 DEF ShipRec
  <1>5. /\ y.at = b /\ y.docked = FALSE /\ y.guest = 0 /\ y.pos = x.pos /\ y.alive = x.alive
        /\ y.fuel = x.fuel /\ y.dest = x.dest /\ y.on = x.on /\ y.charge = x.charge
        /\ y.speed = x.speed /\ y.id = x.id /\ Kept(x, y) /\ y.navigate = x.navigate
    BY <1>3 DEF ShipRec, Kept
  <1>6. PlaceOK(y)
    <2>1. PLORBITSIZE \in Nat /\ SYSTEMSIZE \in Nat
      BY Numbers
    <2> QED BY <1>5, <2>1 DEF PlaceOK, InOrbit
  <1> QED BY <1>4, <1>5, <1>6 DEF Good, Fit, JumpOK

(* handle_star_arrival keeps a ship good.                                  *)
LEMMA StarArrivalFlies ==
  ASSUME NEW w \in WorldRec, NEW x \in ShipRec, Good(x), x.alive, ~x.docked, ~x.on,
         NEW b \in Star, NEW real \in BOOLEAN
  PROVE  LET m == StarArrival(w, x, b, real)
         IN  /\ Flew(w, x, m) /\ m.x.charge = x.charge /\ m.w.depot = w.depot
             /\ ~real => m.w = w
  <1> DEFINE far == 2 * Away(x.pos, Site[b]) > 3 * SYSTEMSIZE
             y == ArriveAt(x, b)
             z == IF y.dest \in Star THEN ClearDestination(y) ELSE y
             v == Explore(w, y, real)
  <1>1. CASE far
    <2>1. StarArrival(w, x, b, real) = [w |-> w, x |-> x]
      BY <1>1 DEF StarArrival
    <2> QED BY <2>1 DEF Flew, Kept
  <1>2. CASE ~far
    <2>1. StarArrival(w, x, b, real) = [w |-> v, x |-> z]
      BY <1>2 DEF StarArrival
    <2>2. 2 * Away(x.pos, Site[b]) <= 3 * SYSTEMSIZE
      <3>1. Site[b] \in Int /\ x.pos \in Int /\ SYSTEMSIZE \in Nat
        BY Places, Fields, Numbers
      <3>2. Away(x.pos, Site[b]) \in Nat
        BY <3>1, AwayFacts
      <3> QED BY <1>2, <3>1, <3>2
    <2>3. /\ y \in ShipRec /\ Good(y) /\ Kept(x, y) /\ y.alive = x.alive
          /\ y.charge = x.charge
      <3>1. b \in Body /\ b \notin Planet
        BY Places
      <3> QED BY <2>2, <3>1, ArriveRecord
    <2> HIDE DEF y
    <2>4. /\ z \in ShipRec /\ Good(z) /\ Kept(y, z) /\ z.alive = y.alive /\ z.at = y.at
          /\ z.charge = y.charge
      <3>1. CASE y.dest \in Star
        <4>1. z = [y EXCEPT !.dest = None, !.on = FALSE] /\ z \in ShipRec /\ Good(z) /\ Kept(y, z)
          BY <2>3, <3>1, ClearRecord
        <4> QED BY <2>3, <4>1 DEF ShipRec
      <3>2. CASE y.dest \notin Star
        BY <2>3, <3>2 DEF Kept
      <3> QED BY <3>1, <3>2
    <2>5. Sight(z) = Seen(y) \/ (Sight(z) = {} /\ ~HasSight(y))
      BY <2>3, <2>4, SameSight DEF Sight
    <2>6. /\ v \in WorldRec /\ v.ship = w.ship /\ v.depot = w.depot /\ w.seen \subseteq v.seen
          /\ v.seen \subseteq w.seen \cup (IF HasSight(y) THEN Seen(y) ELSE {})
          /\ ~real => v = w
      BY <2>3, ExploreWorld
    <2>7. Kept(x, z)
      BY <2>3, <2>4, KeptTwice
    <2> HIDE DEF v, z
    <2>8. v.seen \subseteq w.seen \cup Sight(z)
      BY <2>4, <2>5, <2>6, SameSight DEF Sight
    <2> QED BY <2>1, <2>3, <2>4, <2>6, <2>7, <2>8 DEF Flew
  <1> QED BY <1>1, <1>2

(* Landing, by order or on a merchant's round. *)
LEMMA LandRecord ==
  ASSUME NEW x \in ShipRec, Good(x), x.at \in Planet, Lift <= x.fuel
  PROVE  LET z == LandOnPlanet([x EXCEPT !.pos = Site[x.at], !.fuel = @ - Lift])
         IN  /\ z \in ShipRec /\ Good(z) /\ Kept(x, z) /\ z.alive = x.alive
             /\ z.charge = x.charge /\ z.at = x.at /\ z.docked /\ ~z.on
             /\ z.fuel = x.fuel - Lift /\ z.dest = x.at
  <1> DEFINE f == x.fuel - Lift
             o == Site[x.at]
             v == [x EXCEPT !.pos = o, !.fuel = f]
             z == LandOnPlanet(v)
  <1>1. f \in 0..Tank /\ f \in Int /\ o \in Int /\ x.at \in Place \cup Ship
    <2>1. x.fuel \in 0..Tank /\ Tank \in Nat /\ Lift \in Nat
      BY Numbers DEF Good, Fit
    <2> QED BY <2>1, Places
  <1> HIDE DEF f, o
  <1>2. /\ v \in ShipRec /\ v.at = x.at /\ v.pos = o /\ v.fuel = f /\ v.alive = x.alive
        /\ v.charge = x.charge /\ v.guest = x.guest /\ v.id = x.id /\ v.speed = x.speed
        /\ Kept(x, v)
    BY <1>1 DEF ShipRec, Kept
  <1>3. z = [v EXCEPT !.docked = TRUE, !.dest = x.at, !.on = FALSE]
    BY <1>2 DEF LandOnPlanet
  <1> HIDE DEF v
  <1>4. /\ z \in ShipRec /\ z.at = v.at /\ z.pos = v.pos /\ z.fuel = v.fuel /\ z.alive = v.alive
        /\ z.charge = v.charge /\ z.guest = v.guest /\ z.id = v.id /\ z.speed = v.speed
        /\ z.docked = TRUE /\ z.dest = x.at /\ z.on = FALSE /\ Kept(v, z)
    BY <1>1, <1>2, <1>3 DEF ShipRec, Kept
  <1>5. PlaceOK(z)
    <2>1. Away(z.pos, Site[z.at]) = 0 /\ PLORBITSIZE \in Nat /\ z.guest \in 0..2 /\ z.at \notin Star
      BY <1>1, <1>2, <1>4, Numbers, Fields, Places DEF Away, o
    <2>2. InOrbit(z)
      <3>1. CASE z.guest = 0
        BY <2>1, <3>1 DEF InOrbit
      <3>2. CASE z.guest = 1
        BY <2>1, <3>2 DEF InOrbit
      <3>3. CASE z.guest = 2
        BY <2>1, <3>3 DEF InOrbit
      <3> QED BY <2>1, <3>1, <3>2, <3>3
    <2> QED BY <1>2, <1>4, <2>2 DEF PlaceOK, OnGround, o
  <1>6. Fit(z)
    BY <1>1, <1>2, <1>4 DEF Good, Fit
  <1>7. JumpOK(z)
    BY <1>4 DEF JumpOK
  <1>8. Kept(x, z)
    BY <1>2, <1>4 DEF Kept
  <1>9. z = LandOnPlanet([x EXCEPT !.pos = Site[x.at], !.fuel = @ - Lift])
    BY DEF v, o, f
  <1> HIDE DEF z
  <1> QED BY <1>2, <1>4, <1>5, <1>6, <1>7, <1>8, <1>9 DEF Good, f

(* Launching. *)
LEMMA LaunchRecord ==
  ASSUME NEW x \in ShipRec, Good(x), Lift <= x.fuel, NEW d \in Place \cup Ship
  PROVE  LET z == [SetDestination(LaunchToOrbit(x), d) EXCEPT !.fuel = @ - Lift]
         IN  /\ z \in ShipRec /\ Good(z) /\ Kept(x, z) /\ z.alive = x.alive
             /\ z.charge = x.charge /\ z.at = x.at /\ ~z.docked /\ ~z.on
             /\ z.dest = d /\ z.fuel = x.fuel - Lift /\ z.pos = x.pos
             /\ LaunchToOrbit(x).dest = None /\ LaunchToOrbit(x) \in ShipRec
             /\ SetDestination(LaunchToOrbit(x), None) = LaunchToOrbit(x)
             /\ z.navigate = x.navigate /\ StarOf(z) = StarOf(x)
  <1> DEFINE f == x.fuel - Lift
             u == LaunchToOrbit(x)
             v == SetDestination(u, d)
             z == [v EXCEPT !.fuel = f]
  <1>1. f \in 0..Tank /\ f \in Int
    <2>1. x.fuel \in 0..Tank /\ Tank \in Nat /\ Lift \in Nat
      BY Numbers DEF Good, Fit
    <2> QED BY <2>1
  <1> HIDE DEF f
  <1>2. ClearDestination(x) = [x EXCEPT !.dest = None, !.on = FALSE]
    BY ClearRecord
  <1>3. u = [x EXCEPT !.dest = None, !.on = FALSE, !.docked = FALSE]
    BY <1>2 DEF LaunchToOrbit, ShipRec
  <1>4. None \in Place \cup Ship
    BY Places
  <1>5. /\ u \in ShipRec /\ u.dest = None /\ u.on = FALSE /\ u.docked = FALSE /\ u.at = x.at
        /\ u.pos = x.pos /\ u.fuel = x.fuel /\ u.alive = x.alive /\ u.charge = x.charge
        /\ u.guest = x.guest /\ u.id = x.id /\ u.speed = x.speed /\ u.navigate = x.navigate
        /\ Kept(x, u)
    BY <1>3, <1>4 DEF ShipRec, Kept
  <1>6. v = [u EXCEPT !.dest = d, !.on = FALSE] /\ SetDestination(u, None) = u
    <2>1. (u.on /\ d \in Body) = FALSE /\ (u.on /\ None \in Body) = FALSE
      BY <1>5
    <2>2. SetDestination(u, None) = [u EXCEPT !.dest = None, !.on = FALSE]
      BY <2>1 DEF SetDestination
    <2>3. v = [u EXCEPT !.dest = d, !.on = FALSE]
      BY <2>1 DEF SetDestination
    <2> HIDE DEF u, v
    <2>4. [u EXCEPT !.dest = None, !.on = FALSE] = u
      BY <1>5 DEF ShipRec
    <2> QED BY <2>2, <2>3, <2>4
  <1> HIDE DEF u
  <1>7. z = [u EXCEPT !.dest = d, !.on = FALSE, !.fuel = f]
    BY <1>6
  <1>8. /\ z \in ShipRec /\ z.dest = d /\ z.on = FALSE /\ z.docked = u.docked /\ z.at = u.at
        /\ z.pos = u.pos /\ z.fuel = f /\ z.alive = u.alive /\ z.charge = u.charge
        /\ z.guest = u.guest /\ z.id = u.id /\ z.speed = u.speed /\ z.navigate = u.navigate
        /\ Kept(u, z)
    BY <1>1, <1>5, <1>7 DEF ShipRec, Kept
  <1>9. z = [SetDestination(LaunchToOrbit(x), d) EXCEPT !.fuel = @ - Lift]
    <2>1. v.fuel = x.fuel
      BY <1>5, <1>6 DEF ShipRec
    <2> QED BY <2>1 DEF u, f
  <1> HIDE DEF z, v
  <1>10. PlaceOK(z)
    BY <1>5, <1>8, PlaceFollows DEF Good
  <1>11. Good(z)
    BY <1>1, <1>5, <1>8, <1>10 DEF Good, Fit, JumpOK
  <1>12. Kept(x, z) /\ StarOf(z) = StarOf(x)
    BY <1>5, <1>8 DEF Kept, StarOf
  <1> QED BY <1>5, <1>6, <1>8, <1>9, <1>11, <1>12 DEF u, f

(* A merchant leaves neither the tank nor the depot below empty. *)
LEMMA TradedFits ==
  ASSUME NEW x \in ShipRec, x.fuel \in 0..Tank, NEW p \in Planet, Routed, NEW n \in Nat
  PROVE  LET g == Traded(x, p, n) IN g.fuel \in 0..Tank /\ g.stock \in Nat
  <1> DEFINE put == IF route[p].load THEN Min({Tank - x.fuel, n}) ELSE 0
             off == IF route[p].unload THEN x.fuel + put ELSE 0
  <1>1. x.fuel \in Nat /\ Tank \in Nat /\ x.fuel <= Tank
    BY Numbers
  <1>2. put \in 0..n /\ x.fuel + put \in 0..Tank
    <2>1. Min({Tank - x.fuel, n}) = IF Tank - x.fuel <= n THEN Tank - x.fuel ELSE n
      BY <1>1, LesserOf
    <2> QED BY <1>1, <2>1
  <1>3. off = x.fuel + put \/ off = 0
    OBVIOUS
  <1>4. Traded(x, p, n) = [fuel |-> x.fuel + put - off, stock |-> n - put + off]
    BY DEF Traded
  <1> HIDE DEF put, off
  <1>5. put \in Int /\ x.fuel + put - off \in 0..Tank /\ n - put + off \in Nat
    BY <1>1, <1>2, <1>3
  <1> QED BY <1>4, <1>5

(* Off to the next stop, by jump if that is in another system. *)
LEMMA MerchantLaunchRecord ==
  ASSUME NEW x \in ShipRec, Good(x), NEW d \in Planet \cup {None}
  PROVE  LET z == MerchantLaunch(x, d)
         IN  /\ z \in ShipRec /\ Good(z) /\ Kept(x, z) /\ z.alive = x.alive /\ z.at = x.at
             /\ z.charge >= READY => x.charge >= READY \/ x.mounted
  <1>1. CASE d = None \/ x.fuel < Lift
    BY <1>1 DEF MerchantLaunch, Kept
  <1>2. CASE d # None /\ ~(x.fuel < Lift)
    <2> DEFINE y == [SetDestination(LaunchToOrbit(x), d) EXCEPT !.fuel = @ - Lift]
               c == IF x.mounted THEN READY ELSE 0
               z == [y EXCEPT !.navigate = FALSE, !.on = TRUE, !.charge = c]
    <2>1. d \in Planet /\ d \in Place \cup Ship /\ d \in Body /\ Lift <= x.fuel
      <3>1. x.fuel \in Int /\ Lift \in Int
        BY Fields, Numbers
      <3> QED BY <1>2, <3>1, Places
    <2>2. /\ y \in ShipRec /\ Good(y) /\ Kept(x, y) /\ y.alive = x.alive
          /\ y.charge = x.charge /\ y.at = x.at /\ ~y.docked /\ ~y.on /\ y.dest = d
      BY <2>1, LaunchRecord
    <2> HIDE DEF y
    <2>3. CASE MerchantLaunch(x, d) = y
      BY <2>2, <2>3
    <2>4. CASE MerchantLaunch(x, d) = z /\ Design[x.id].drive
      <3>1. c \in 0..READY /\ READY \in Nat \ {0}
        BY Numbers
      <3>2. ASSUME NEW k \in 0..READY
            PROVE  LET v == [y EXCEPT !.navigate = FALSE, !.on = TRUE, !.charge = k]
                   IN  /\ v \in ShipRec /\ v.at = y.at /\ v.pos = y.pos /\ v.fuel = y.fuel
                       /\ v.alive = y.alive /\ v.charge = k /\ v.guest = y.guest
                       /\ v.id = y.id /\ v.speed = y.speed /\ v.docked = y.docked
                       /\ v.dest = y.dest /\ v.on = TRUE /\ v.navigate = FALSE /\ Kept(y, v)
        BY <2>2 DEF ShipRec, Kept
      <3>4. c >= READY => x.mounted
        BY <3>1
      <3> HIDE DEF c
      <3>3. /\ z \in ShipRec /\ z.at = y.at /\ z.pos = y.pos /\ z.fuel = y.fuel
            /\ z.alive = y.alive /\ z.charge = c /\ z.guest = y.guest
            /\ z.id = y.id /\ z.speed = y.speed /\ z.docked = y.docked
            /\ z.dest = y.dest /\ z.on = TRUE /\ z.navigate = FALSE /\ Kept(y, z)
        BY <3>1, <3>2
      <3> HIDE DEF z
      <3>5. PlaceOK(z)
        BY <2>2, <3>3, PlaceFollows DEF Good
      <3>6. y.id = x.id
        BY <2>2 DEF Kept
      <3>7. Good(z)
        BY <2>1, <2>2, <2>4, <3>3, <3>5, <3>6 DEF Good, Fit, JumpOK, CelestialDestination
      <3>8. Kept(x, z)
        BY <2>2, <3>3, KeptTwice
      <3> QED BY <2>2, <2>4, <3>3, <3>4, <3>7, <3>8 DEF z, c
    <2>5. MerchantLaunch(x, d) = y \/ (MerchantLaunch(x, d) = z /\ Design[x.id].drive)
      BY <1>2 DEF MerchantLaunch, y
    <2> QED BY <2>3, <2>4, <2>5
  <1> QED BY <1>1, <1>2

(* A merchant's stop. *)
Stopped(w, x, p, m) ==
  /\ Good(m.x) /\ Kept(x, m.x) /\ m.x.alive = x.alive /\ m.x.at = p
  /\ m.w \in WorldRec /\ m.w.ship = w.ship /\ m.w.seen = w.seen
  /\ m.x.charge >= READY => x.charge >= READY \/ x.mounted

(* do_merchant: landed, or launched to the next stop.                      *)
LEMMA MerchantFlies ==
  ASSUME NEW w \in WorldRec, NEW x \in ShipRec, Good(x), NEW p \in Planet, x.at = p, Routed
  PROVE  Stopped(w, x, p, Merchant(w, x, p))
  <1>1. CASE ~MerchantCanLand(x)
    <2>1. Merchant(w, x, p) = [w |-> w, x |-> ClearDestination(x)]
      BY <1>1 DEF Merchant
    <2> DEFINE z == ClearDestination(x)
    <2>2. z = [x EXCEPT !.dest = None, !.on = FALSE] /\ Good(z) /\ Kept(x, z)
      BY ClearRecord
    <2>3. z.alive = x.alive /\ z.at = x.at /\ z.charge = x.charge
      BY <2>2 DEF ShipRec
    <2> HIDE DEF z
    <2>4. Merchant(w, x, p).w = w /\ Merchant(w, x, p).x = z
      BY <2>1 DEF z
    <2> QED BY <2>2, <2>3, <2>4 DEF Stopped
  <1>2. CASE MerchantCanLand(x)
    <2> DEFINE y == MerchantLand(x, p)
               g == Traded(y, p, w.depot[p])
               u == [y EXCEPT !.fuel = g.fuel]
               z == MerchantLaunch(u, route[p].next)
               v == [w EXCEPT !.depot[p] = g.stock]
    <2>1. Merchant(w, x, p) = [w |-> v, x |-> z]
      BY <1>2 DEF Merchant
    <2>2. Lift <= x.fuel
      BY <1>2, Fields, Numbers DEF MerchantCanLand
    <2>3. /\ y \in ShipRec /\ Good(y) /\ Kept(x, y) /\ y.alive = x.alive
          /\ y.charge = x.charge /\ y.at = p /\ y.docked /\ ~y.on
      BY <2>2, LandRecord DEF MerchantLand
    <2>4. w.depot[p] \in Nat
      BY WorldFields
    <2> HIDE DEF y
    <2>5. g.fuel \in 0..Tank /\ g.stock \in Nat
      BY <2>3, <2>4, TradedFits DEF Good, Fit
    <2> HIDE DEF g
    <2>6. /\ u \in ShipRec /\ u.at = y.at /\ u.pos = y.pos /\ u.fuel = g.fuel
          /\ u.alive = y.alive /\ u.charge = y.charge /\ u.guest = y.guest
          /\ u.id = y.id /\ u.speed = y.speed /\ u.docked = y.docked
          /\ u.on = y.on /\ Kept(y, u)
      <3>1. g.fuel \in Int
        BY <2>5, Numbers
      <3> QED BY <2>3, <3>1 DEF ShipRec, Kept
    <2> HIDE DEF u
    <2>7. Good(u)
      <3>1. PlaceOK(u)
        BY <2>3, <2>6, PlaceFollows DEF Good
      <3> QED BY <2>3, <2>5, <2>6, <3>1 DEF Good, Fit, JumpOK
    <2>8. route[p].next \in Planet \cup {None}
      BY DEF Routed, RouteRec
    <2>9. /\ z \in ShipRec /\ Good(z) /\ Kept(u, z) /\ z.alive = u.alive /\ z.at = u.at
          /\ z.charge >= READY => u.charge >= READY \/ u.mounted
      BY <2>6, <2>7, <2>8, MerchantLaunchRecord
    <2>10. v \in WorldRec /\ v.ship = w.ship /\ v.seen = w.seen
      <3> DEFINE d == [w.depot EXCEPT ![p] = g.stock]
      <3>1. w.depot \in [Planet -> Nat] /\ d \in [Planet -> Nat]
        BY <2>5, WorldFields
      <3>2. v = [w EXCEPT !.depot = d]
        OBVIOUS
      <3> HIDE DEF d, v
      <3> QED BY <3>1, <3>2 DEF WorldRec
    <2>11. Kept(x, z)
      BY <2>3, <2>6, <2>9 DEF Kept
    <2>12. u.mounted = x.mounted
      BY <2>3, <2>6 DEF Kept
    <2> HIDE DEF z, v
    <2>13. Merchant(w, x, p).w = v /\ Merchant(w, x, p).x = z
      BY <2>1
    <2>14. z.alive = x.alive /\ z.at = p /\ (z.charge >= READY => x.charge >= READY \/ x.mounted)
      BY <2>3, <2>6, <2>9, <2>12
    <2> QED BY <2>9, <2>10, <2>11, <2>13, <2>14 DEF Stopped
  <1> QED BY <1>1, <1>2

(* handle_planet_arrival keeps a ship good.                                *)
LEMMA PlanetArrivalFlies ==
  ASSUME NEW w \in WorldRec, NEW x \in ShipRec, Good(x), x.alive, ~x.docked, ~x.on,
         NEW p \in Planet, NEW real \in BOOLEAN, Routed
  PROVE  LET m == PlanetArrival(w, x, p, real)
         IN  /\ Flew(w, x, m) /\ (m.x.charge >= READY => x.charge >= READY \/ x.mounted)
             /\ ~real => m.w = w
  <1> DEFINE dist == Away(x.pos, Site[p])
             y == ArriveAt(x, p)
             v == Explore(w, y, real)
             z == IF y.dest \in Planet THEN ClearDestination(y) ELSE y
             m == PlanetArrival(w, x, p, real)
  <1>1. CASE dist > PLORBITSIZE
    <2>1. m = [w |-> w, x |-> x]
      BY <1>1 DEF PlanetArrival
    <2> QED BY <2>1 DEF Flew, Kept
  <1>2. CASE ~(dist > PLORBITSIZE)
    <2>1. dist <= PLORBITSIZE
      <3>1. Site[p] \in Int /\ x.pos \in Int /\ PLORBITSIZE \in Nat
        BY Places, Fields, Numbers
      <3>2. dist \in Nat
        BY <3>1, AwayFacts
      <3> QED BY <1>2, <3>1, <3>2
    <2>2. /\ y \in ShipRec /\ Good(y) /\ Kept(x, y) /\ y.alive = x.alive
          /\ y.charge = x.charge /\ y.at = p
      <3>1. p \in Body /\ p \notin Star
        BY Places
      <3> QED BY <2>1, <3>1, ArriveRecord
    <2> HIDE DEF y
    <2>3. /\ v \in WorldRec /\ v.ship = w.ship /\ v.depot = w.depot /\ w.seen \subseteq v.seen
          /\ v.seen \subseteq w.seen \cup (IF HasSight(y) THEN Seen(y) ELSE {})
          /\ ~real => v = w
      BY <2>2, ExploreWorld
    <2> HIDE DEF v
    <2>4. ASSUME NEW u, Kept(y, u), u.at = p, u.alive = y.alive
          PROVE  v.seen \subseteq w.seen \cup Sight(u) /\ Kept(x, u)
      <3>1. Sight(u) = IF HasSight(y) THEN Seen(y) ELSE {}
        BY <2>2, <2>4, SameSight DEF Sight
      <3>2. Kept(x, u)
        BY <2>2, <2>4, KeptTwice
      <3> QED BY <2>3, <3>1, <3>2
    <2>5. ASSUME NEW u, m.w = v, m.x = u, Good(u), Kept(y, u), u.at = p, u.alive = y.alive,
                 u.charge >= READY => y.charge >= READY \/ y.mounted
          PROVE  /\ Flew(w, x, m) /\ (m.x.charge >= READY => x.charge >= READY \/ x.mounted)
                 /\ ~real => m.w = w
      <3>1. v.seen \subseteq w.seen \cup Sight(u) /\ Kept(x, u)
        BY <2>4, <2>5
      <3>2. u.charge >= READY => x.charge >= READY \/ x.mounted
        BY <2>2, <2>5 DEF Kept
      <3> QED BY <2>2, <2>3, <2>5, <3>1, <3>2 DEF Flew
    <2>6. CASE m = [w |-> v, x |-> y]
      <3>1. Kept(y, y)
        BY DEF Kept
      <3>2. m.w = v /\ m.x = y
        BY <2>6
      <3> QED BY <2>2, <2>5, <3>1, <3>2
    <2>7. CASE m = [w |-> v, x |-> ClearDestination(y)]
      <3> DEFINE u == ClearDestination(y)
      <3>1. u = [y EXCEPT !.dest = None, !.on = FALSE] /\ Good(u) /\ Kept(y, u)
        BY <2>2, ClearRecord
      <3>2. u.alive = y.alive /\ u.at = y.at /\ u.charge = y.charge
        BY <2>2, <3>1 DEF ShipRec
      <3>3. m.w = v /\ m.x = u
        BY <2>7
      <3> HIDE DEF u
      <3> QED BY <2>2, <2>5, <3>1, <3>2, <3>3
    <2>8. CASE m = Merchant(v, y, p) /\ real
      <3> DEFINE n == Merchant(v, y, p)
      <3>1. /\ Good(n.x) /\ Kept(y, n.x) /\ n.x.alive = y.alive /\ n.x.at = p
            /\ n.w \in WorldRec /\ n.w.ship = v.ship /\ n.w.seen = v.seen
            /\ n.x.charge >= READY => y.charge >= READY \/ y.mounted
        <4>1. Stopped(v, y, p, n)
          BY <2>2, <2>3, MerchantFlies
        <4> QED BY <4>1 DEF Stopped
      <3>2. v.seen \subseteq w.seen \cup Sight(n.x) /\ Kept(x, n.x)
        BY <2>4, <3>1
      <3>3. n.x.charge >= READY => x.charge >= READY \/ x.mounted
        BY <2>2, <3>1 DEF Kept
      <3>4. Flew(w, x, n)
        BY <2>2, <2>3, <3>1, <3>2 DEF Flew
      <3> HIDE DEF n
      <3>5. m = n
        BY <2>8 DEF n
      <3> QED BY <2>8, <3>3, <3>4, <3>5
    <2>9. \/ m = [w |-> v, x |-> y]
          \/ m = [w |-> v, x |-> ClearDestination(y)]
          \/ m = Merchant(v, y, p) /\ real
      BY <1>2 DEF PlanetArrival, y, v
    <2> QED BY <2>6, <2>7, <2>8, <2>9
  <1> QED BY <1>1, <1>2

(* Sharing the quarry's orbit. *)
LEMMA ShipArrivalFlies ==
  ASSUME NEW w, GoodWorld(w), NEW x \in ShipRec, Good(x), ~x.docked, ~x.on,
         x.dest \in Ship, w.ship[x.dest].alive
  PROVE  LET z == ShipArrival(w, x)
         IN  Good(z) /\ Kept(x, z) /\ z.alive = x.alive /\ z.charge = x.charge
  <1> DEFINE t == w.ship[x.dest]
             z == ShipArrival(w, x)
             g == IF x.at = t.at THEN x.guest ELSE Min({2, t.guest + 1})
             y == [x EXCEPT !.at = t.at, !.docked = FALSE, !.guest = g]
  <1>1. t \in ShipRec /\ Good(t)
    BY WorldFields DEF GoodWorld
  <1> HIDE DEF t
  <1>2. /\ t.at \in Place /\ t.pos \in Int /\ t.guest \in 0..2
        /\ x.pos \in Int /\ x.guest \in 0..2 /\ PLORBITSIZE \in Nat /\ SYSTEMSIZE \in Nat
    BY <1>1, Fields, Numbers
  <1>3. Min({2, t.guest + 1}) = IF 2 <= t.guest + 1 THEN 2 ELSE t.guest + 1
    <2>1. t.guest + 1 \in Int
      BY <1>2
    <2> QED BY <2>1, LesserOf
  <1>4. g \in 0..2
    BY <1>2, <1>3
  <1>5. CASE Away(x.pos, t.pos) > PLORBITSIZE \/ t.at = None
    BY <1>5 DEF ShipArrival, t, Kept
  <1>6. CASE ~(Away(x.pos, t.pos) > PLORBITSIZE \/ t.at = None)
    <2>1. z = y
      <3>1. z = [EnterOrbit(x, t.at) EXCEPT
                   !.guest = IF x.at = t.at THEN @ ELSE Min({2, t.guest + 1})]
        BY <1>6 DEF ShipArrival, t
      <3>2. EnterOrbit(x, t.at).guest = x.guest
        BY <1>2 DEF EnterOrbit, ShipRec
      <3> QED BY <3>1, <3>2 DEF EnterOrbit
    <2>2. (g = x.guest /\ x.at = t.at) \/ (x.at # t.at /\ (g < 2 => g = 1 /\ t.guest = 0))
      BY <1>2, <1>3
    <2> HIDE DEF g
    <2>3. /\ y \in ShipRec /\ y.at = t.at /\ y.docked = FALSE /\ y.guest = g
          /\ y.pos = x.pos /\ y.alive = x.alive /\ y.fuel = x.fuel /\ y.on = x.on
          /\ y.charge = x.charge /\ y.speed = x.speed /\ y.id = x.id /\ Kept(x, y)
      <3> DEFINE u == [x EXCEPT !.at = t.at, !.docked = FALSE]
      <3>1. /\ u \in ShipRec /\ u.at = t.at /\ u.docked = FALSE
            /\ u.pos = x.pos /\ u.alive = x.alive /\ u.fuel = x.fuel /\ u.on = x.on
            /\ u.charge = x.charge /\ u.speed = x.speed /\ u.id = x.id /\ Kept(x, u)
        BY <1>2 DEF ShipRec, Kept
      <3>2. y = [u EXCEPT !.guest = g]
        OBVIOUS
      <3> HIDE DEF u
      <3>3. /\ y \in ShipRec /\ y.at = u.at /\ y.docked = u.docked /\ y.guest = g
            /\ y.pos = u.pos /\ y.alive = u.alive /\ y.fuel = u.fuel /\ y.on = u.on
            /\ y.charge = u.charge /\ y.speed = u.speed /\ y.id = u.id /\ Kept(u, y)
        BY <1>4, <3>1, <3>2 DEF ShipRec, Kept
      <3> QED BY <3>1, <3>3 DEF Kept
    <2> HIDE DEF y
    <2>4. CASE g = x.guest /\ x.at = t.at
      <3>1. PlaceOK(y)
        BY <2>3, <2>4, PlaceFollows DEF Good
      <3> QED BY <2>1, <2>3, <3>1 DEF Good, Fit, JumpOK
    <2>5. CASE x.at # t.at /\ (g < 2 => g = 1 /\ t.guest = 0)
      <3>1. ASSUME g < 2 PROVE InOrbit(y)
        <4>1. g = 1 /\ t.guest = 0 /\ InOrbit(t)
          BY <1>1, <2>5, <3>1 DEF Good, PlaceOK, t
        <4>2. Away(x.pos, t.pos) \in Nat /\ Away(x.pos, t.pos) <= PLORBITSIZE
          <5>1. Away(x.pos, t.pos) \in Nat
            BY <1>2, AwayFacts
          <5>2. ~(Away(x.pos, t.pos) > PLORBITSIZE)
            BY <1>6
          <5> QED BY <1>2, <5>1, <5>2
        <4>3. ASSUME NEW b \in Body
              PROVE  /\ Away(x.pos, Site[b]) \in Nat /\ Away(t.pos, Site[b]) \in Nat
                     /\ Away(x.pos, Site[b]) <= Away(x.pos, t.pos) + Away(t.pos, Site[b])
          BY <1>2, AwayFacts, Places
        <4>4. y.at \in Planet => Away(y.pos, Site[y.at]) <= 2 * PLORBITSIZE
          BY <1>2, <2>3, <4>1, <4>2, <4>3, Places DEF InOrbit
        <4>5. y.at \in Star => 2 * Away(y.pos, Site[y.at]) <= 3 * SYSTEMSIZE + 2 * PLORBITSIZE
          BY <1>2, <2>3, <4>1, <4>2, <4>3, Places DEF InOrbit
        <4> QED BY <1>2, <2>3, <4>1, <4>4, <4>5 DEF InOrbit
      <3>2. PlaceOK(y)
        BY <2>3, <3>1 DEF PlaceOK
      <3> QED BY <2>1, <2>3, <3>2 DEF Good, Fit, JumpOK
    <2> QED BY <2>2, <2>4, <2>5
  <1> QED BY <1>5, <1>6

\* m is what became of w and of x in a segment: a drive is charged by a crystal,
\* or by an update under a jump order.
Moved(w, x, m, update, real) ==
  /\ Flew(w, x, m)
  /\ m.x.charge >= READY => x.charge >= READY \/ x.mounted \/ (update /\ x.on)
  /\ ~real => m.w = w

(* A step that leaves the world alone.                                     *)
LEMMA Stays ==
  ASSUME NEW update, NEW real,
         NEW w \in WorldRec, NEW x, NEW y, Good(y), Kept(x, y), y.alive => x.alive,
         y.charge >= READY => x.charge >= READY \/ x.mounted \/ (update /\ x.on)
  PROVE  Moved(w, x, [w |-> w, x |-> y], update, real)
  BY DEF Moved, Flew

(* A ship makes for a place or a ship.                                     *)
LEMMA GoalType ==
  ASSUME NEW w \in WorldRec, NEW x \in ShipRec, x.dest # None
  PROVE  /\ Goal(w, x) \in Body \cup Ship
         /\ Goal(w, x) \in Ship => x.dest = Goal(w, x)
         /\ GoalSite(w, Goal(w, x)) \in Int
  <1>1. x.dest \in Body \cup Ship
    BY Fields, Places
  <1>2. \A s \in Ship : w.ship[s].at \in Body \cup {None} /\ w.ship[s].pos \in Int
    BY WorldFields, Fields, Places
  <1>3. \A d \in Body \cup Ship :
          Approach(x, d) \in Body \cup Ship /\ (Approach(x, d) \in Ship => Approach(x, d) = d)
    BY Places DEF Approach, Body
  <1> DEFINE q == IF x.dest \in Ship THEN Quarry(w, x) ELSE x.dest
  <1>4. q \in Body \cup Ship /\ (q \in Ship => q = x.dest)
    BY <1>1, <1>2, Places DEF Quarry, Body
  <1>5. Goal(w, x) = Approach(x, q)
    BY DEF Goal
  <1> HIDE DEF q
  <1>6. Goal(w, x) \in Body \cup Ship /\ (Goal(w, x) \in Ship => x.dest = Goal(w, x))
    BY <1>3, <1>4, <1>5
  <1>7. GoalSite(w, Goal(w, x)) \in Int
    BY <1>2, <1>6, Places DEF GoalSite
  <1> QED BY <1>6, <1>7

(* dispatch_destination_arrival keeps a ship good.                         *)
LEMMA ArrivalFlies ==
  ASSUME NEW w, GoodWorld(w), NEW x \in ShipRec, Good(x), x.alive, ~x.docked, ~x.on,
         NEW goal \in Body \cup Ship, goal \in Ship => x.dest \in Ship,
         x.dest \in Ship => w.ship[x.dest].alive,
         NEW real \in BOOLEAN, Routed, NEW update
  PROVE  Moved(w, x, Arrival(w, x, goal, real), update, real)
  <1> DEFINE g == Approach(x, goal)
  <1>0. w \in WorldRec
    BY DEF GoodWorld
  <1>1. g \in Star \/ g \in Planet \/ (g \in Ship /\ goal \in Ship)
    BY Places DEF Approach, Body
  <1>2. CASE g \in Star
    <2> DEFINE m == StarArrival(w, x, g, real)
    <2>1. Arrival(w, x, goal, real) = m
      BY <1>2 DEF Arrival
    <2>2. Flew(w, x, m) /\ m.x.charge = x.charge /\ (~real => m.w = w)
      BY <1>0, <1>2, StarArrivalFlies
    <2> QED BY <2>1, <2>2 DEF Moved
  <1>3. CASE g \in Planet
    <2> DEFINE m == PlanetArrival(w, x, g, real)
    <2>1. Arrival(w, x, goal, real) = m
      BY <1>3, Places DEF Arrival
    <2>2. /\ Flew(w, x, m) /\ (m.x.charge >= READY => x.charge >= READY \/ x.mounted)
          /\ ~real => m.w = w
      BY <1>0, <1>3, PlanetArrivalFlies
    <2> QED BY <2>1, <2>2 DEF Moved
  <1>4. CASE g \in Ship /\ goal \in Ship
    <2> DEFINE z == ShipArrival(w, x)
    <2>1. Arrival(w, x, goal, real) = [w |-> w, x |-> z]
      BY <1>4, Places DEF Arrival, Body
    <2>2. Good(z) /\ Kept(x, z) /\ z.alive = x.alive /\ z.charge = x.charge
      BY <1>4, ShipArrivalFlies
    <2> QED BY <1>0, <2>1, <2>2, Stays
  <1> QED BY <1>1, <1>2, <1>3, <1>4

(* A step towards a place: no further than the drive takes the ship, unless *)
(* it backs away from the star of a system that overlaps its own.           *)
Pulled(x, site, apart) ==
  [x EXCEPT !.fuel = @ - Burn(x),
            !.pos = @ + Toward(x.pos, site) * Min({MoveFactor(x), apart}),
            !.guest = IF apart < 0 THEN 2 ELSE @]

(* A ship that has moved towards its goal is where BreakOrbit can mend its record. *)
LEMMA PulledRecord ==
  ASSUME NEW x \in ShipRec, Good(x), ~x.docked, Burn(x) <= x.fuel,
         NEW site \in Int, NEW apart \in Int
  PROVE  LET y == Pulled(x, site, apart)
         IN  /\ y \in ShipRec /\ Fit(y) /\ Slack(y) /\ Kept(x, y) /\ y.alive = x.alive
             /\ y.charge = x.charge /\ y.docked = x.docked /\ y.on = x.on /\ y.dest = x.dest
             /\ y.navigate = x.navigate /\ y.fuel = x.fuel - Burn(x) /\ y.at = x.at
  <1> DEFINE b == Burn(x)
             n == MoveFactor(x)
             k == Min({n, apart})
             f == x.fuel - b
             o == x.pos + Toward(x.pos, site) * k
             g == IF apart < 0 THEN 2 ELSE x.guest
             u == [x EXCEPT !.fuel = f, !.pos = o]
             y == [u EXCEPT !.guest = g]
  <1>1. b \in Nat /\ n \in Nat
    BY BurnIsNat
  <1>2. x.fuel \in 0..Tank /\ Tank \in Nat /\ x.pos \in Int /\ x.guest \in 0..2
    BY Fields, Numbers DEF Good, Fit
  <1>3. k = IF n <= apart THEN n ELSE apart
    BY <1>1, LesserOf
  <1>4. Toward(x.pos, site) \in {-1, 1}
    BY <1>2, AwayFacts
  <1>5. f \in 0..Tank /\ f \in Int /\ o \in Int /\ g \in 0..2
    BY <1>1, <1>2, <1>3, <1>4
  <1>6. ~(apart < 0) => Away(o, x.pos) <= n
    BY <1>1, <1>2, <1>3, <1>4 DEF Away
  <1>7. (g = x.guest \/ g = 2) /\ (g < 2 => ~(apart < 0))
    BY <1>2
  <1>8. Pulled(x, site, apart) = y
    BY DEF Pulled
  <1> HIDE DEF f, o, g, b, n, k
  <1>9. /\ u \in ShipRec /\ u.fuel = f /\ u.pos = o /\ u.at = x.at /\ u.alive = x.alive
        /\ u.docked = x.docked /\ u.on = x.on /\ u.charge = x.charge /\ u.dest = x.dest
        /\ u.speed = x.speed /\ u.id = x.id /\ u.navigate = x.navigate /\ Kept(x, u)
    BY <1>5 DEF ShipRec, Kept
  <1> HIDE DEF u
  <1>10. /\ y \in ShipRec /\ y.fuel = u.fuel /\ y.pos = u.pos /\ y.at = u.at /\ y.alive = u.alive
         /\ y.guest = g /\ y.docked = u.docked /\ y.on = u.on /\ y.charge = u.charge
         /\ y.dest = u.dest /\ y.speed = u.speed /\ y.id = u.id /\ y.navigate = u.navigate
         /\ Kept(u, y)
    BY <1>5, <1>9 DEF ShipRec, Kept
  <1> HIDE DEF y
  <1>11. Fit(y) /\ Kept(x, y)
    BY <1>5, <1>9, <1>10 DEF Good, Fit, Kept
  <1>12. Slack(y)
    <2>1. y.guest < 2 => Away(y.pos, x.pos) <= MoveFactor(x)
      BY <1>6, <1>7, <1>9, <1>10 DEF n
    <2> QED BY <1>7, <1>9, <1>10, <2>1, MovedSlack
  <1> QED BY <1>8, <1>9, <1>10, <1>11, <1>12 DEF f, b

(* So is one that has not moved.                                           *)
LEMMA RestSlack ==
  ASSUME NEW x \in ShipRec, Good(x), ~x.docked
  PROVE  Slack(x)
  <1>1. Away(x.pos, x.pos) = 0 /\ MoveFactor(x) \in Nat
    BY Fields, BurnIsNat DEF Away
  <1> QED BY <1>1, MovedSlack

(* How far a ship still has to go is a number.                             *)
LEMMA ApproachIsInt ==
  ASSUME NEW x, NEW goal, NEW dist \in Int
  PROVE  ApproachDistance(x, goal, dist) \in Int
  <1>1. (9 * SYSTEMSIZE) \div 10 \in Int /\ (9 * PLORBITSIZE) \div 10 \in Int
    BY Numbers
  <1> QED BY <1>1 DEF ApproachDistance

(* execute_destination_step keeps a ship good.                             *)
LEMMA DestinationFlies ==
  ASSUME NEW update, NEW real \in BOOLEAN, NEW w, GoodWorld(w), NEW x \in ShipRec, Good(x),
         x.alive, ~x.docked, ~x.on, x.dest # None, Burn(x) <= x.fuel, Routed
  PROVE  Moved(w, x, DestinationStep(w, x, real), update, real)
  <1> DEFINE goal == Goal(w, x)
             site == GoalSite(w, goal)
             dist == Away(x.pos, site)
             apart == ApproachDistance(x, goal, dist)
             y == IF dist <= DIST_TO_LAND THEN x ELSE Pulled(x, site, apart)
             b == BreakOrbit(y)
             m == DestinationStep(w, x, real)
  <1>1. w \in WorldRec
    BY DEF GoodWorld
  <1>2. goal \in Body \cup Ship /\ (goal \in Ship => x.dest = goal) /\ site \in Int
    BY <1>1, GoalType
  <1>3. dist \in Int
    <2>1. x.pos \in Int
      BY Fields
    <2>2. \A q \in Int : Away(x.pos, q) \in Int
      BY <2>1 DEF Away
    <2> QED BY <1>2, <2>2
  <1>4. apart \in Int
    BY <1>3, ApproachIsInt
  <1>5. m = IF AlreadyThere(x, goal, dist) THEN [w |-> w, x |-> x]
            ELSE IF x.dest \in Ship /\ ~Followable(w, x, w.ship[x.dest])
                 THEN [w |-> w, x |-> [ClearDestination(x) EXCEPT !.evade = FALSE]]
            ELSE Arrival(w, b, goal, real)
    BY DEF DestinationStep, Pulled
  <1> HIDE DEF goal, site, dist, apart, m
  <1>6. CASE m = [w |-> w, x |-> x]
    <2>1. Kept(x, x)
      BY DEF Kept
    <2> QED BY <1>1, <1>6, <2>1, Stays DEF m
  <1>7. CASE m = [w |-> w, x |-> [ClearDestination(x) EXCEPT !.evade = FALSE]]
    <2> DEFINE v == ClearDestination(x)
               z == [v EXCEPT !.evade = FALSE]
    <2>1. v = [x EXCEPT !.dest = None, !.on = FALSE] /\ v \in ShipRec /\ Good(v) /\ Kept(x, v)
      BY ClearRecord
    <2>2. v.alive = x.alive /\ v.charge = x.charge
      BY <2>1 DEF ShipRec
    <2> HIDE DEF v
    <2>3. /\ z \in ShipRec /\ z.at = v.at /\ z.pos = v.pos /\ z.fuel = v.fuel
          /\ z.alive = v.alive /\ z.charge = v.charge /\ z.guest = v.guest
          /\ z.id = v.id /\ z.speed = v.speed /\ z.docked = v.docked
          /\ z.dest = v.dest /\ z.on = v.on /\ z.navigate = v.navigate /\ Kept(v, z)
      BY <2>1 DEF ShipRec, Kept
    <2> HIDE DEF z
    <2>4. PlaceOK(z)
      BY <2>1, <2>3, PlaceFollows DEF Good
    <2>5. Good(z)
      BY <2>1, <2>3, <2>4 DEF Good, Fit, JumpOK, CelestialDestination
    <2>6. Kept(x, z)
      BY <2>1, <2>3, KeptTwice
    <2>7. m = [w |-> w, x |-> z]
      BY <1>7 DEF z, v
    <2> QED BY <1>1, <2>2, <2>3, <2>5, <2>6, <2>7, Stays DEF m
  <1>8. CASE m = Arrival(w, b, goal, real) /\ (x.dest \in Ship => w.ship[x.dest].alive)
    <2>1. /\ y \in ShipRec /\ Fit(y) /\ Slack(y) /\ Kept(x, y) /\ y.alive = x.alive
          /\ y.charge = x.charge /\ ~y.docked /\ ~y.on /\ y.dest = x.dest
      <3>1. CASE dist <= DIST_TO_LAND
        BY <3>1, RestSlack DEF Good, Kept
      <3>2. CASE ~(dist <= DIST_TO_LAND)
        <4> DEFINE p == Pulled(x, site, apart)
        <4>1. /\ p \in ShipRec /\ Fit(p) /\ Slack(p) /\ Kept(x, p) /\ p.alive = x.alive
              /\ p.charge = x.charge /\ p.docked = x.docked /\ p.on = x.on /\ p.dest = x.dest
          BY <1>2, <1>4, PulledRecord
        <4> QED BY <3>2, <4>1
      <3> QED BY <3>1, <3>2
    <2> HIDE DEF y
    <2>2. /\ Good(b) /\ Kept(y, b) /\ b.alive = y.alive /\ b.charge = y.charge
          /\ ~b.docked /\ ~b.on /\ b.dest = y.dest
      BY <2>1, BreakOrbitRecord
    <2> HIDE DEF b
    <2>3. Moved(w, b, Arrival(w, b, goal, real), update, real)
      BY <1>2, <1>8, <2>1, <2>2, ArrivalFlies DEF Good, Fit
    <2>4. Kept(x, b) /\ b.alive = x.alive /\ b.charge = x.charge /\ ~b.on
          /\ b.mounted = x.mounted
      BY <2>1, <2>2 DEF Kept
    <2> DEFINE a == Arrival(w, b, goal, real)
    <2> HIDE DEF a
    <2>5. Moved(w, b, a, update, real)
      BY <2>3 DEF a
    <2>6. Kept(x, a.x)
      BY <2>4, <2>5 DEF Moved, Flew, Kept
    <2>7. Moved(w, x, a, update, real)
      BY <2>4, <2>5, <2>6 DEF Moved, Flew
    <2> QED BY <1>8, <2>7 DEF a, m
  <1>9. \/ m = [w |-> w, x |-> x]
        \/ m = [w |-> w, x |-> [ClearDestination(x) EXCEPT !.evade = FALSE]]
        \/ m = Arrival(w, b, goal, real) /\ (x.dest \in Ship => w.ship[x.dest].alive)
    <2>1. Followable(w, x, w.ship[x.dest]) => w.ship[x.dest].alive
      BY DEF Followable
    <2> QED BY <1>5, <2>1
  <1> QED BY <1>6, <1>7, <1>8, <1>9

(* moveship keeps a ship good, and a copy's flight leaves the world alone. *)
LEMMA MoveShipFlies ==
  ASSUME NEW update \in BOOLEAN, NEW real \in BOOLEAN, NEW w, GoodWorld(w),
         NEW x \in ShipRec, Good(x), Routed
  PROVE  Moved(w, x, MoveShip(w, x, update, real), update, real)
  <1> DEFINE m == MoveShip(w, x, update, real)
  <1>1. w \in WorldRec
    BY DEF GoodWorld
  <1>2. CASE x.on
    <2> DEFINE y == HyperdriveJump(x, update)
    <2>1. /\ Good(y) /\ Kept(x, y) /\ y.alive = x.alive
          /\ y.charge >= READY => x.charge >= READY \/ update
      BY <1>2, HyperdriveRecord
    <2>2. m = [w |-> w, x |-> y]
      BY <1>2 DEF MoveShip
    <2> QED BY <1>1, <1>2, <2>1, <2>2, Stays
  <1>3. CASE ~x.on /\ ~CanMove(x)
    <2>1. m = [w |-> w, x |-> x] /\ Kept(x, x)
      BY <1>3 DEF MoveShip, Kept
    <2> QED BY <1>1, <2>1, Stays
  <1>4. CASE ~x.on /\ CanMove(x) /\ x.fuel < Burn(x)
    <2> DEFINE y == OutOfFuel(x, real)
    <2>1. m = [w |-> w, x |-> y]
      BY <1>4 DEF MoveShip
    <2>2. Good(y) /\ Kept(x, y) /\ (y.alive => x.alive) /\ y.charge = x.charge
      BY OutOfFuelRecord
    <2> QED BY <1>1, <2>1, <2>2, Stays
  <1>5. CASE ~x.on /\ CanMove(x) /\ ~(x.fuel < Burn(x))
    <2>1. Burn(x) <= x.fuel /\ x.alive /\ ~x.docked /\ (x.dest # None \/ x.navigate)
      <3>1. Burn(x) \in Int /\ x.fuel \in Int
        BY BurnIsNat, Fields
      <3> QED BY <1>5, <3>1 DEF CanMove
    <2>2. CASE x.navigate
      <3> DEFINE y == NavigationStep(x)
      <3>1. m = [w |-> w, x |-> y]
        BY <1>5, <2>2 DEF MoveShip
      <3>2. Good(y) /\ Kept(x, y) /\ y.alive = x.alive /\ y.charge = x.charge
        BY <1>5, <2>1, NavigationRecord
      <3> QED BY <1>1, <3>1, <3>2, Stays
    <2>3. CASE ~x.navigate
      <3>1. m = DestinationStep(w, x, real)
        BY <1>5, <2>3 DEF MoveShip
      <3> QED BY <1>5, <2>1, <2>3, <3>1, DestinationFlies
    <2> QED BY <2>2, <2>3
  <1> QED BY <1>2, <1>3, <1>4, <1>5

(* prepare_for_flight: a ship with a crew or a probe is left as it is.     *)
LEMMA PreparedRecord ==
  ASSUME NEW x \in ShipRec, Good(x)
  PROVE  LET y == Prepared(x)
         IN  /\ y \in ShipRec /\ Good(y) /\ Kept(x, y) /\ y.alive = x.alive
             /\ y.charge = x.charge /\ (y.on => x.on) /\ (HasSight(x) => y = x)
  <1>1. CASE x.crew \/ x.docked \/ Design[x.id].probe
    BY <1>1 DEF Prepared, Kept
  <1>2. CASE ~(x.crew \/ x.docked \/ Design[x.id].probe)
    <2> DEFINE y == ClearDestination(x)
    <2>1. y = [x EXCEPT !.dest = None, !.on = FALSE] /\ y \in ShipRec /\ Good(y) /\ Kept(x, y)
      BY ClearRecord
    <2>2. y.alive = x.alive /\ y.charge = x.charge /\ y.on = FALSE
      BY <2>1 DEF ShipRec
    <2>3. Prepared(x) = y /\ ~HasSight(x)
      BY <1>2 DEF Prepared, HasSight
    <2> HIDE DEF y
    <2> QED BY <2>1, <2>2, <2>3
  <1> QED BY <1>1, <1>2

\* v is the world w after the segment of ship s.
Flown(w, s, v, update) ==
  /\ GoodWorld(v) /\ v.ship[s] = MoveShip(w, Prepared(w.ship[s]), update, TRUE).x
  /\ \A t \in Ship \ {s} : v.ship[t] = w.ship[t]
  /\ Kept(w.ship[s], v.ship[s]) /\ (v.ship[s].alive => w.ship[s].alive)
  /\ v.ship[s].charge >= READY =>
       w.ship[s].charge >= READY \/ w.ship[s].mounted \/ (update /\ w.ship[s].on)
  /\ w.seen \subseteq v.seen /\ v.seen \subseteq w.seen \cup Sight(v.ship[s])

(* doship: one ship of a world, and what its crew sees.                    *)
LEMMA DoShipFlies ==
  ASSUME NEW update \in BOOLEAN, NEW w, GoodWorld(w), NEW s \in Ship, Routed
  PROVE  Flown(w, s, DoShip(w, s, update), update)
  <1> DEFINE x == w.ship[s]
             y == Prepared(x)
             m == MoveShip(w, y, update, TRUE)
             e == Explore(m.w, m.x, m.x.alive)
             v == [e EXCEPT !.ship[s] = m.x]
  <1>1. w \in WorldRec /\ x \in ShipRec /\ Good(x) /\ x.id = s
    BY WorldFields DEF GoodWorld
  <1>2. /\ y \in ShipRec /\ Good(y) /\ Kept(x, y) /\ y.alive = x.alive
        /\ y.charge = x.charge /\ (y.on => x.on)
    BY <1>1, PreparedRecord
  <1>3. Moved(w, y, m, update, TRUE)
    BY <1>2, MoveShipFlies
  <1>4. DoShip(w, s, update) = v
    BY DEF DoShip
  <1> HIDE DEF m
  <1>5. /\ Good(m.x) /\ Kept(y, m.x) /\ (m.x.alive => y.alive) /\ m.x \in ShipRec
        /\ m.w \in WorldRec /\ m.w.ship = w.ship
        /\ w.seen \subseteq m.w.seen /\ m.w.seen \subseteq w.seen \cup Sight(m.x)
        /\ m.x.charge >= READY => y.charge >= READY \/ y.mounted \/ (update /\ y.on)
    BY <1>3 DEF Moved, Flew, Good, Fit
  <1>6. m.x.alive \in BOOLEAN
    BY <1>5, Fields
  <1>7. /\ e \in WorldRec /\ e.ship = m.w.ship /\ m.w.seen \subseteq e.seen
        /\ e.seen \subseteq m.w.seen \cup (IF HasSight(m.x) THEN Seen(m.x) ELSE {})
        /\ ~m.x.alive => e = m.w
    BY <1>5, <1>6, ExploreWorld
  <1> HIDE DEF e
  <1>8. e.seen \subseteq w.seen \cup Sight(m.x)
    BY <1>5, <1>6, <1>7 DEF Sight
  <1>9. /\ v \in WorldRec /\ v.seen = e.seen /\ v.ship = [w.ship EXCEPT ![s] = m.x]
    <2> DEFINE f == [w.ship EXCEPT ![s] = m.x]
    <2>1. f \in [Ship -> ShipRec] /\ e.ship = w.ship
      BY <1>1, <1>5, <1>7, WorldFields
    <2>2. v = [e EXCEPT !.ship = f]
      BY <2>1
    <2> HIDE DEF v, f
    <2>3. v \in WorldRec /\ v.seen = e.seen /\ v.ship = f
      BY <1>7, <2>1, <2>2 DEF WorldRec
    <2> QED BY <2>3 DEF f
  <1> HIDE DEF v
  <1>10. w.ship \in [Ship -> ShipRec]
    BY <1>1, WorldFields
  <1>11. v.ship[s] = m.x /\ \A t \in Ship \ {s} : v.ship[t] = w.ship[t]
    BY <1>9, <1>10
  <1>12. Kept(x, m.x) /\ m.x.id = s
    BY <1>1, <1>2, <1>5 DEF Kept
  <1>13. GoodWorld(v)
    BY <1>5, <1>9, <1>11, <1>12 DEF GoodWorld
  <1>14. m.x.charge >= READY => x.charge >= READY \/ x.mounted \/ (update /\ x.on)
    BY <1>2, <1>5 DEF Kept
  <1>15. v.ship[s] = MoveShip(w, Prepared(w.ship[s]), update, TRUE).x
    BY <1>11 DEF m
  <1> QED BY <1>2, <1>4, <1>5, <1>7, <1>8, <1>9, <1>11, <1>12, <1>13, <1>14, <1>15 DEF Flown

-----------------------------------------------------------------------------
(* The ships of a segment, one after the other *)

(* Every set of ships has a last one. *)
LEMMA LastOfIn ==
  ASSUME ship \in [Ship -> ShipRec], NEW T \in SUBSET Ship, T # {}
  PROVE  LastOf(T) \in T
  <1> DEFINE Last(S, s) == s \in S /\ \A t \in S \ {s} : Before(t, s)
             G == {S \in SUBSET Ship : S # {} => \E s \in S : Last(S, s)}
  <1>1. \A s \in Ship : ship[s].speed \in Nat /\ Rank[s] \in Nat
    BY Fields, FlightAssumption
  <1>2. ASSUME NEW s \in Ship, NEW t \in Ship, s # t
        PROVE Before(s, t) \/ Before(t, s)
    <2>1. Rank[s] # Rank[t]
      BY <1>2, FlightAssumption
    <2> HIDE FlightAssumption
    <2> QED BY <1>1, <2>1 DEF Before
  <1>3. \A s, t, u \in Ship : Before(s, t) /\ Before(t, u) => Before(s, u)
    BY <1>1 DEF Before
  <1>4. ASSUME NEW S \in SUBSET Ship, \A U \in SUBSET S : U # S => U \in G
        PROVE S \in G
    <2> SUFFICES ASSUME S # {} PROVE \E s \in S : Last(S, s)
      OBVIOUS
    <2>1. PICK a \in S : TRUE
      OBVIOUS
    <2>2. S \ {a} \in G
      BY <1>4, <2>1
    <2>3. CASE S \ {a} = {}
      BY <2>1, <2>3
    <2>4. CASE S \ {a} # {}
      <3>1. PICK b \in S \ {a} : Last(S \ {a}, b)
        BY <2>2, <2>4
      <3>2. CASE Before(a, b)
        BY <3>1, <3>2
      <3>3. CASE Before(b, a)
        <4>1. \A t \in S \ {a} : Before(t, a)
          BY <1>3, <2>1, <3>1, <3>3
        <4> QED BY <2>1, <4>1
      <3> QED BY <1>2, <2>1, <3>1, <3>2, <3>3
    <2> QED BY <2>3, <2>4
  <1>5. IsFiniteSet(Ship)
    BY FlightAssumption
  <1>6. T \in G
    <2> HIDE DEF G
    <2> QED BY <1>4, <1>5, SubsetInduction
  <1>7. \E s \in T : \A t \in T \ {s} : Before(t, s)
    BY <1>6
  <1> QED BY <1>7, Zenon DEF LastOf

(* As in SumTheorems: the recursion has one solution on every set of       *)
(* ships, so the function AfterSegment defines satisfies it.               *)
Sweep(it, S, update) ==
  [T \in SUBSET S |-> IF T = {} THEN World ELSE DoShip(it[T \ {LastOf(T)}], LastOf(T), update)]
SweptTo(S, update) == (CHOOSE it : it = Sweep(it, S, update))[S]

(* The recursion of a segment has one solution at most.                    *)
LEMMA SweepUnique ==
  ASSUME ship \in [Ship -> ShipRec], NEW update, NEW S \in SUBSET Ship, NEW g, NEW h,
         g = Sweep(g, S, update), h = Sweep(h, S, update)
  PROVE  g = h
  <1> DEFINE G == {T \in SUBSET S : g[T] = h[T]}
  <1>1. ASSUME NEW T \in SUBSET S, \A U \in SUBSET T : U # T => U \in G
        PROVE T \in G
    <2>1. CASE T = {}
      <3>1. g[T] = World /\ h[T] = World
        BY <2>1 DEF Sweep
      <3> QED BY <3>1
    <2>2. CASE T # {}
      <3> DEFINE s == LastOf(T)
      <3>1. s \in T
        BY <2>2, LastOfIn
      <3>2. g[T \ {s}] = h[T \ {s}]
        BY <1>1, <3>1
      <3>3. g[T] = DoShip(g[T \ {s}], s, update) /\ h[T] = DoShip(h[T \ {s}], s, update)
        BY <2>2 DEF Sweep
      <3> QED BY <3>2, <3>3
    <2> QED BY <2>1, <2>2
  <1>2. IsFiniteSet(S)
    BY FS_Subset, FlightAssumption
  <1>3. \A T \in SUBSET S : T \in G
    <2> HIDE DEF G
    <2> QED BY <1>1, <1>2, SubsetInduction
  <1>4. \A T \in SUBSET S : g[T] = h[T]
    BY <1>3
  <1>5. g = [T \in SUBSET S |-> g[T]] /\ h = [T \in SUBSET S |-> h[T]]
    BY Zenon DEF Sweep
  <1> QED BY <1>4, <1>5

(* It has one: built from those of the smaller sets.                       *)
LEMMA SweepRecursion ==
  ASSUME ship \in [Ship -> ShipRec], NEW update, NEW S \in SUBSET Ship
  PROVE  SweptTo(S, update) = IF S = {} THEN World
                              ELSE DoShip(SweptTo(S \ {LastOf(S)}, update), LastOf(S), update)
  <1> DEFINE R(g, T) == IF T = {} THEN World
                        ELSE DoShip(g[T \ {LastOf(T)}], LastOf(T), update)
             Next1(T) == IF T = {} THEN World
                         ELSE DoShip(SweptTo(T \ {LastOf(T)}, update), LastOf(T), update)
             G == {T \in SUBSET S : SweptTo(T, update) = Next1(T)}
  <1>1. ASSUME NEW T \in SUBSET S, \A U \in SUBSET T : U # T => U \in G
        PROVE T \in G
    <2> DEFINE w == [U \in SUBSET T |-> IF U = T THEN Next1(T) ELSE SweptTo(U, update)]
    <2>1. ASSUME NEW U \in SUBSET T PROVE w[U] = R(w, U)
      <3>0. w[U] = Next1(U)
        <4>1. CASE U = T
          BY <4>1
        <4>2. CASE U # T
          <5>1. U \in G
            BY <1>1, <4>2
          <5>2. SweptTo(U, update) = Next1(U)
            BY <5>1
          <5>3. w[U] = SweptTo(U, update)
            BY <4>2
          <5> QED BY <5>2, <5>3
        <4> QED BY <4>1, <4>2
      <3>1. CASE U = {}
        BY <3>0, <3>1
      <3>2. CASE U # {}
        <4> DEFINE s == LastOf(U)
        <4>1. s \in U
          BY <3>2, LastOfIn
        <4>2. U \ {s} \in SUBSET T /\ U \ {s} # T
          BY <4>1
        <4>3. w[U \ {s}] = SweptTo(U \ {s}, update)
          BY <4>2
        <4> HIDE DEF w
        <4> QED BY <3>0, <3>2, <4>3
      <3> QED BY <3>1, <3>2
    <2>2. w = Sweep(w, T, update)
      <3>1. w = [U \in SUBSET T |-> w[U]]
        OBVIOUS
      <3> HIDE DEF w
      <3> QED BY <2>1, <3>1 DEF Sweep
    <2>3. w[T] = Next1(T)
      OBVIOUS
    <2>4. (CHOOSE it : it = Sweep(it, T, update)) = w
      <3> HIDE DEF w
      <3>1. \A it : it = Sweep(it, T, update) => it = w
        BY <2>2, SweepUnique
      <3> QED BY <2>2, <3>1, Zenon
    <2>5. SweptTo(T, update) = Next1(T)
      <3> HIDE DEF w
      <3> QED BY <2>3, <2>4 DEF SweptTo
    <2> HIDE DEF w
    <2> QED BY <2>5
  <1>2. IsFiniteSet(S)
    BY FS_Subset, FlightAssumption
  <1>3. \A T \in SUBSET S : T \in G
    <2> HIDE DEF G
    <2> QED BY <1>1, <1>2, SubsetInduction
  <1>4. S \in G
    BY <1>3
  <1> QED BY <1>4

(* The segment is that recursion, over the ships that are alive.           *)
LEMMA SegmentSweep ==
  ASSUME ship \in [Ship -> ShipRec], NEW update
  PROVE  \E f : /\ AfterSegment(update) = f[{s \in Ship : ship[s].alive}]
                /\ f = Sweep(f, Ship, update)
  <1> DEFINE f == CHOOSE it : it = Sweep(it, Ship, update)
             w == [T \in SUBSET Ship |-> SweptTo(T, update)]
  <1>1. ASSUME NEW T \in SUBSET Ship
        PROVE w[T] = IF T = {} THEN World ELSE DoShip(w[T \ {LastOf(T)}], LastOf(T), update)
    <2>1. w[T] = SweptTo(T, update) /\ w[T \ {LastOf(T)}] = SweptTo(T \ {LastOf(T)}, update)
      OBVIOUS
    <2> HIDE DEF w
    <2> QED BY <2>1, SweepRecursion
  <1>2. w = Sweep(w, Ship, update)
    <2>1. w = [T \in SUBSET Ship |-> w[T]]
      OBVIOUS
    <2> HIDE DEF w
    <2> QED BY <1>1, <2>1 DEF Sweep
  <1>3. f = Sweep(f, Ship, update)
    <2> HIDE DEF w
    <2> QED BY <1>2, Zenon
  <1>4. AfterSegment(update) = f[{s \in Ship : ship[s].alive}]
    BY Zenon DEF AfterSegment, Sweep
  <1> HIDE DEF f
  <1> QED BY <1>3, <1>4

\* v is the world when the ships of S have flown their segment.
SegmentOf(S, v, update) ==
  /\ GoodWorld(v)
  /\ \A t \in Ship \ S : v.ship[t] = ship[t]
  /\ \A t \in S :
       /\ Kept(ship[t], v.ship[t])
       /\ v.ship[t].charge >= READY =>
            ship[t].charge >= READY \/ ship[t].mounted \/ (update /\ ship[t].on)
       /\ \E w : /\ GoodWorld(w)
                 /\ v.ship[t] = MoveShip(w, Prepared(ship[t]), update, TRUE).x
  /\ v.seen \subseteq seen \cup UNION {Sight(v.ship[t]) : t \in S}

(* What a segment makes of the ships, by induction over the set of ships flown. *)
LEMMA SegmentFlies ==
  ASSUME GoodWorld(World), Routed, NEW update \in BOOLEAN
  PROVE  SegmentOf({s \in Ship : ship[s].alive}, AfterSegment(update), update)
  <1>1. ship \in [Ship -> ShipRec] /\ World.ship = ship /\ World.seen = seen
    BY WorldFields DEF GoodWorld, World
  <1>2. PICK f : /\ AfterSegment(update) = f[{s \in Ship : ship[s].alive}]
                 /\ f = Sweep(f, Ship, update)
    BY <1>1, SegmentSweep
  <1> DEFINE G == {T \in SUBSET Ship : SegmentOf(T, f[T], update)}
  <1>3. ASSUME NEW T \in SUBSET Ship, \A U \in SUBSET T : U # T => U \in G
        PROVE T \in G
    <2>1. CASE T = {}
      <3>1. f[T] = World
        BY <1>2, <2>1 DEF Sweep
      <3>2. SegmentOf(T, World, update)
        BY <1>1, <2>1 DEF SegmentOf
      <3> QED BY <3>1, <3>2
    <2>2. CASE T # {}
      <3> DEFINE s == LastOf(T)
                 U == T \ {s}
                 w == f[U]
                 v == f[T]
      <3>1. s \in T /\ s \in Ship
        BY <1>1, <2>2, LastOfIn
      <3>2. U \in SUBSET T /\ U # T
        BY <3>1
      <3>3. U \in G
        BY <1>3, <3>2
      <3>4. SegmentOf(U, w, update)
        BY <3>3
      <3>5. v = DoShip(w, s, update)
        BY <1>2, <2>2 DEF Sweep
      <3> HIDE DEF v, w, s
      <3>6. Flown(w, s, v, update)
        BY <1>1, <3>1, <3>4, <3>5, DoShipFlies DEF SegmentOf
      <3>7. w.ship[s] = ship[s]
        BY <3>1, <3>4 DEF SegmentOf
      <3>8. \A t \in Ship \ T : v.ship[t] = ship[t]
        BY <3>1, <3>4, <3>6 DEF SegmentOf, Flown
      <3>9. ASSUME NEW t \in T
            PROVE /\ Kept(ship[t], v.ship[t])
                  /\ v.ship[t].charge >= READY =>
                       ship[t].charge >= READY \/ ship[t].mounted \/ (update /\ ship[t].on)
                  /\ \E u : /\ GoodWorld(u)
                            /\ v.ship[t] = MoveShip(u, Prepared(ship[t]), update, TRUE).x
        <4>1. CASE t = s
          <5>1. GoodWorld(w)
            BY <3>4 DEF SegmentOf
          <5> QED BY <3>6, <3>7, <4>1, <5>1 DEF Flown
        <4>2. CASE t # s
          <5>1. t \in U /\ v.ship[t] = w.ship[t]
            BY <3>6, <4>2 DEF Flown
          <5> QED BY <3>4, <5>1 DEF SegmentOf
        <4> QED BY <4>1, <4>2
      <3>10. v.seen \subseteq seen \cup UNION {Sight(v.ship[t]) : t \in T}
        <4>1. v.seen \subseteq w.seen \cup Sight(v.ship[s])
          BY <3>6, <3>7 DEF Flown
        <4>2. w.seen \subseteq seen \cup UNION {Sight(w.ship[t]) : t \in U}
          BY <3>4 DEF SegmentOf
        <4>3. \A t \in U : v.ship[t] = w.ship[t]
          BY <3>6 DEF Flown
        <4> QED BY <3>1, <4>1, <4>2, <4>3
      <3>11. SegmentOf(T, v, update)
        BY <3>6, <3>8, <3>9, <3>10 DEF SegmentOf, Flown
      <3> QED BY <3>11 DEF v
    <2> QED BY <2>1, <2>2
  <1>4. IsFiniteSet(Ship)
    BY FlightAssumption
  <1>5. \A T \in SUBSET Ship : T \in G
    <2> HIDE DEF G
    <2> QED BY <1>3, <1>4, SubsetInduction
  <1>6. {s \in Ship : ship[s].alive} \in G
    BY <1>5
  <1> QED BY <1>2, <1>6

-----------------------------------------------------------------------------
(* The loop of a trip *)

(* Counting up to a bound. *)
LEMMA CountUp ==
  ASSUME NEW N \in Nat, NEW G, 0 \in G, \A n \in 1..N : n - 1 \in G => n \in G
  PROVE  \A n \in 0..N : n \in G
  <1> DEFINE H == {T \in SUBSET (1..N) : \A n \in 0..N : T = 1..n => n \in G}
  <1>1. ASSUME NEW T \in SUBSET (1..N), \A U \in SUBSET T : U # T => U \in H
        PROVE T \in H
    <2> SUFFICES ASSUME NEW n \in 0..N, T = 1..n PROVE n \in G
      OBVIOUS
    <2>1. CASE n = 0
      BY <2>1
    <2>2. CASE n # 0
      <3>1. n - 1 \in 0..N /\ n \in 1..N /\ 1..(n - 1) \in SUBSET T /\ 1..(n - 1) # T
        <4>1. n \in T /\ n \notin 1..(n - 1)
          BY <2>2
        <4> QED BY <2>2, <4>1
      <3>2. 1..(n - 1) \in H
        BY <1>1, <3>1
      <3>3. n - 1 \in G
        BY <3>1, <3>2
      <3> QED BY <3>1, <3>3
    <2> QED BY <2>1, <2>2
  <1>2. IsFiniteSet(1..N)
    BY FS_Interval
  <1>3. \A T \in SUBSET (1..N) : T \in H
    <2> HIDE DEF H
    <2> QED BY <1>1, <1>2, SubsetInduction
  <1>4. ASSUME NEW n \in 0..N PROVE n \in G
    <2>1. 1..n \in SUBSET (1..N)
      OBVIOUS
    <2>2. 1..n \in H
      BY <1>3, <2>1
    <2> QED BY <2>2
  <1> QED BY <1>4

(* One turn of the loop, and the loop's recursion, as for the segment. *)
TripZero(x, d) ==
  [w |-> World, x |-> TripStart(x, d), n |-> 0, seg |-> nsegments_done,
   there |-> FALSE, stuck |-> FALSE]
TripNext(t, d) == IF t.there \/ t.stuck THEN t ELSE TripStep(t, GoalSite(World, d))
Trip(it, x, d, N) ==
  [n \in 0..N |-> IF n = 0 THEN TripZero(x, d) ELSE TripNext(it[n - 1], d)]

(* The loop's recursion has a solution, and the trip is its last value.    *)
LEMMA TripRecursion ==
  ASSUME NEW x, NEW d
  PROVE  \E f : DoTrip(x, d) = f[MaxTrip] /\ f = Trip(f, x, d, MaxTrip)
  <1> DEFINE G == {n \in Nat : \E f : f = Trip(f, x, d, n)}
  <1>1. 0 \in G
    <2> DEFINE f == [n \in 0..0 |-> TripZero(x, d)]
    <2>1. f = Trip(f, x, d, 0)
      BY DEF Trip
    <2> QED BY <2>1
  <1>2. ASSUME NEW n \in 1..MaxTrip, n - 1 \in G PROVE n \in G
    <2>1. PICK g : g = Trip(g, x, d, n - 1)
      BY <1>2
    <2> DEFINE f == [i \in 0..n |-> IF i = n THEN TripNext(g[n - 1], d) ELSE g[i]]
    <2>2. ASSUME NEW i \in 0..n
          PROVE f[i] = IF i = 0 THEN TripZero(x, d) ELSE TripNext(f[i - 1], d)
      <3>1. CASE i = n
        <4>1. n - 1 \in 0..n /\ n - 1 # n /\ n # 0
          OBVIOUS
        <4>2. f[n] = TripNext(g[n - 1], d) /\ f[n - 1] = g[n - 1]
          BY <4>1
        <4> HIDE DEF f
        <4> QED BY <3>1, <4>1, <4>2
      <3>2. CASE i # n
        <4>1. i \in 0..(n - 1)
          BY <3>2
        <4>2. g[i] = IF i = 0 THEN TripZero(x, d) ELSE TripNext(g[i - 1], d)
          BY <2>1, <4>1 DEF Trip
        <4>3. f[i] = g[i]
          BY <3>2
        <4>4. i # 0 => f[i - 1] = g[i - 1]
          BY <4>1
        <4> HIDE DEF f
        <4> QED BY <4>2, <4>3, <4>4
      <3> QED BY <3>1, <3>2
    <2>3. f = [i \in 0..n |-> f[i]]
      OBVIOUS
    <2> HIDE DEF f
    <2>4. f = Trip(f, x, d, n)
      BY <2>2, <2>3 DEF Trip
    <2> QED BY <2>4
  <1>3. \A n \in 0..MaxTrip : n \in G
    <2> HIDE DEF G
    <2> QED BY <1>1, <1>2, Numbers, CountUp
  <1>4. MaxTrip \in G
    <2> HIDE DEF G
    <2> QED BY <1>3, Numbers
  <1>5. PICK g : g = Trip(g, x, d, MaxTrip)
    BY <1>4
  <1> DEFINE f == CHOOSE it : it = Trip(it, x, d, MaxTrip)
  <1>6. f = Trip(f, x, d, MaxTrip)
    BY <1>5, Zenon
  <1>7. DoTrip(x, d) = f[MaxTrip]
    BY Zenon DEF DoTrip, Trip, TripZero, TripNext
  <1> HIDE DEF f
  <1> QED BY <1>6, <1>7

(* A trip is flown by a copy: the world stays as it is.                    *)
LEMMA TripWorld ==
  ASSUME GoodWorld(World), Routed, NEW x \in ShipRec, Good(x), NEW d \in Body \cup Ship,
         TripReady(x)
  PROVE  DoTrip(x, d).w = World
  <1>1. PICK f : DoTrip(x, d) = f[MaxTrip] /\ f = Trip(f, x, d, MaxTrip)
    BY TripRecursion
  <1> DEFINE P(t) == t.w = World /\ t.x \in ShipRec /\ Good(t.x)
             G == {n \in 0..MaxTrip : P(f[n])}
  <1>2. 0 \in G
    <2> DEFINE y == TripStart(x, d)
    <2>1. y \in ShipRec /\ Good(y)
      <3>1. d \in Place \cup Ship
        BY Places
      <3>2. CASE x.docked
        <4> DEFINE z == [LaunchToOrbit(x) EXCEPT !.fuel = @ - Lift]
        <4>0. x.fuel >= Lift /\ x.fuel \in Int /\ Lift \in Int
          BY <3>2, Fields, Numbers DEF TripReady
        <4>1. z \in ShipRec /\ Good(z)
          <5>1. None \in Place \cup Ship /\ Lift <= x.fuel
            BY <4>0, Places
          <5>2. SetDestination(LaunchToOrbit(x), None) = LaunchToOrbit(x)
            BY <5>1, LaunchRecord
          <5> QED BY <5>1, <5>2, LaunchRecord
        <4>2. y = SetDestination(z, d)
          BY <3>2 DEF TripStart
        <4> QED BY <3>1, <4>1, <4>2, DestinationRecord
      <3>3. CASE ~x.docked
        <4>1. y = SetDestination(x, d)
          BY <3>3 DEF TripStart
        <4> QED BY <3>1, <4>1, DestinationRecord
      <3> QED BY <3>2, <3>3
    <2>2. f[0] = TripZero(x, d) /\ 0 \in 0..MaxTrip
      BY <1>1, Numbers DEF Trip
    <2>3. f[0].w = World /\ f[0].x = y
      BY <2>2 DEF TripZero
    <2> QED BY <2>1, <2>2, <2>3
  <1>3. ASSUME NEW n \in 1..MaxTrip, n - 1 \in G PROVE n \in G
    <2> DEFINE t == f[n - 1]
               m == MoveShip(World, t.x, t.seg = SEGMENTS, FALSE)
    <2>1. f[n] = TripNext(t, d)
      <3>1. n \in 0..MaxTrip /\ n # 0
        OBVIOUS
      <3> QED BY <1>1, <3>1 DEF Trip
    <2>2. P(t)
      BY <1>3
    <2>3. Moved(World, t.x, m, t.seg = SEGMENTS, FALSE)
      <3>1. (t.seg = SEGMENTS) \in BOOLEAN
        OBVIOUS
      <3> HIDE DEF t
      <3> QED BY <2>2, <3>1, MoveShipFlies
    <2>4. f[n] = t \/ (f[n].w = m.w /\ f[n].x = m.x)
      <3>1. f[n] = t \/ f[n] = TripStep(t, GoalSite(World, d))
        BY <2>1 DEF TripNext
      <3>2. t.w = World
        BY <2>2
      <3> HIDE DEF t
      <3>3. /\ TripStep(t, GoalSite(World, d)).w = m.w
            /\ TripStep(t, GoalSite(World, d)).x = m.x
        <4>1. m = MoveShip(t.w, t.x, t.seg = SEGMENTS, FALSE)
          BY <3>2
        <4> HIDE DEF m
        <4> QED BY <4>1, Zenon DEF TripStep
      <3> HIDE DEF m
      <3> QED BY <3>1, <3>3
    <2>5. m.w = World /\ m.x \in ShipRec /\ Good(m.x)
      <3> HIDE DEF m
      <3> QED BY <2>3 DEF Moved, Flew, Good, Fit
    <2> HIDE DEF m, t
    <2>6. P(f[n])
      BY <2>2, <2>4, <2>5
    <2> QED BY <2>6
  <1>4. \A n \in 0..MaxTrip : n \in G
    <2> HIDE DEF G
    <2> QED BY <1>2, <1>3, Numbers, CountUp
  <1>5. MaxTrip \in G
    <2> HIDE DEF G
    <2> QED BY <1>4, Numbers
  <1> QED BY <1>1, <1>5

-----------------------------------------------------------------------------
(* The invariant *)

IInv ==
  /\ GoodWorld(World) /\ Routed
  /\ orders \in Nat /\ nsegments_done \in 1..SEGMENTS
  /\ seen \subseteq been
  /\ ChargeEarned

(* The ships of a state that satisfies the invariant.                      *)
LEMMA ShipFacts ==
  ASSUME IInv, NEW s \in Ship
  PROVE  /\ ship \in [Ship -> ShipRec] /\ ship[s] \in ShipRec /\ Good(ship[s])
         /\ ship[s].id = s /\ World.ship = ship
  <1>1. World.ship = ship
    BY DEF World
  <1>2. World \in WorldRec
    BY DEF IInv, GoodWorld
  <1>3. ship \in [Ship -> ShipRec]
    BY <1>1, <1>2, WorldFields
  <1> QED BY <1>1, <1>3 DEF IInv, GoodWorld

(* What the invariant says, in the words of Flight. *)
LEMMA InvariantMeans ==
  ASSUME IInv
  PROVE  LogsAreTrue
  <1>1. World \in WorldRec /\ World.ship = ship /\ World.seen = seen /\ World.depot = depot
    BY DEF IInv, GoodWorld, World
  <1>2. /\ ship \in [Ship -> ShipRec] /\ seen \subseteq Race \X Body
        /\ depot \in [Planet -> Nat]
    <2>1. /\ World.ship \in [Ship -> ShipRec] /\ World.seen \in SUBSET (Race \X Body)
          /\ World.depot \in [Planet -> Nat]
      BY <1>1 DEF WorldRec
    <2> QED BY <1>1, <2>1
  <1>3. \A s \in Ship : Good(ship[s]) /\ ship[s].id = s
    BY ShipFacts
  <1>4. TypeOK
    BY <1>2, <1>3 DEF TypeOK, IInv, Good, Fit
  <1>5. JumpHasStar
    BY <1>3 DEF JumpHasStar, Good, JumpOK
  <1>6. OrbitIsTrue
    BY <1>3 DEF OrbitIsTrue, Good, PlaceOK
  <1>7. ChargeEarned /\ ExploredIsSeen
    BY DEF IInv, ExploredIsSeen
  <1> QED BY <1>4, <1>5, <1>6, <1>7 DEF LogsAreTrue, OrdersCoherent, PlacesAreTrue

(* The invariant holds at the start.                                       *)
LEMMA InitInv ==
  ASSUME Init
  PROVE  IInv
  <1>1. PICK g \in Start : ship = g.ship /\ route = g.route /\ orders = g.orders
    BY DEF Init
  <1>2. /\ g.route \in [Planet -> RouteRec] /\ g.orders \in Nat
        /\ g.ship \in [Ship -> ShipRec]
        /\ \A s \in Ship :
             /\ g.ship[s].id = s /\ g.ship[s].fuel \in 0..Tank
             /\ g.ship[s].speed <= Design[s].speed
             /\ ~g.ship[s].on /\ g.ship[s].charge = 0
             /\ g.ship[s].alive => InOrbit(g.ship[s]) /\ (g.ship[s].docked => OnGround(g.ship[s]))
    BY StartAssumption
  <1>3. ship \in [Ship -> ShipRec]
    BY <1>1, <1>2
  <1>4. ASSUME NEW s \in Ship
        PROVE Good(ship[s]) /\ ship[s].id = s /\ ship[s].charge = 0
    <2>1. Fit(ship[s])
      BY <1>1, <1>2 DEF Fit
    <2>2. JumpOK(ship[s]) /\ PlaceOK(ship[s])
      BY <1>1, <1>2 DEF JumpOK, PlaceOK
    <2> QED BY <1>1, <1>2, <2>1, <2>2 DEF Good
  <1>5. seen \in SUBSET (Race \X Body)
    <2>1. \A s \in Ship : Seen(ship[s]) \in SUBSET (Race \X Body)
      BY <1>3, SeenType
    <2> QED BY <2>1 DEF Init
  <1>6. depot \in [Planet -> Nat]
    BY Numbers DEF Init
  <1>7. GoodWorld(World)
    BY <1>3, <1>4, <1>5, <1>6 DEF GoodWorld, World, WorldRec
  <1>8. ChargeEarned
    BY <1>4, Numbers DEF ChargeEarned
  <1>9. seen \subseteq been /\ nsegments_done \in 1..SEGMENTS
    BY Numbers DEF Init
  <1> QED BY <1>1, <1>2, <1>7, <1>8, <1>9 DEF IInv, Routed

(* The world after a step is sound when the ships and the books are. *)
LEMMA WorldNext ==
  ASSUME ship' \in [Ship -> ShipRec], seen' \in SUBSET (Race \X Body), depot' \in [Planet -> Nat],
         \A s \in Ship : Good(ship'[s]) /\ ship'[s].id = s
  PROVE  GoodWorld(World)'
  <1>1. World' = [ship |-> ship', seen |-> seen', depot |-> depot']
    BY DEF World
  <1>2. GoodWorld([ship |-> ship', seen |-> seen', depot |-> depot'])
    BY DEF GoodWorld, WorldRec
  <1>3. GoodWorld(World)' <=> GoodWorld(World')
    BY DEF GoodWorld, WorldRec
  <1> QED BY <1>1, <1>2, <1>3

(* An order leaves ship s with the record x. *)
LEMMA CommandInv ==
  ASSUME IInv, NEW s \in Ship, NEW x \in ShipRec, Good(x), x.id = s, Command(s, x),
         x.charge >= READY =>
           x.mounted \/ (ship[s].charge >= READY /\ (ship[s].mounted => x.mounted))
  PROVE  IInv'
  <1>1. ship \in [Ship -> ShipRec] /\ \A t \in Ship : Good(ship[t]) /\ ship[t].id = t
    BY ShipFacts
  <1>2. ship' = [ship EXCEPT ![s] = x]
    BY DEF Command
  <1>3. ship' \in [Ship -> ShipRec] /\ ship'[s] = x /\ \A t \in Ship \ {s} : ship'[t] = ship[t]
    BY <1>1, <1>2
  <1>4. \A t \in Ship : Good(ship'[t]) /\ ship'[t].id = t
    BY <1>1, <1>3
  <1>5. seen' = seen /\ depot' = depot /\ route' = route /\ nsegments_done' = nsegments_done
    BY DEF Command
  <1>6. seen \in SUBSET (Race \X Body) /\ depot \in [Planet -> Nat]
    BY InvariantMeans DEF LogsAreTrue, OrdersCoherent, TypeOK
  <1>7. GoodWorld(World)'
    BY <1>3, <1>4, <1>5, <1>6, WorldNext
  <1>8. ChargeEarned'
    <2> SUFFICES ASSUME NEW t \in Ship, ship'[t].charge >= READY
                 PROVE ship'[t].mounted \/ t \in earned'
      BY DEF ChargeEarned
    <2>1. ship'[t].charge > 0
      <3>1. ship'[t].charge \in 0..READY
        BY <1>3, Fields
      <3> QED BY <3>1, Numbers
    <2>2. t \in earned => t \in earned'
      BY <2>1 DEF Command
    <2>3. ship[t].charge >= READY => ship[t].mounted \/ t \in earned
      BY DEF IInv, ChargeEarned
    <2>4. CASE t = s
      BY <1>3, <2>2, <2>3, <2>4
    <2>5. CASE t # s
      BY <1>3, <2>2, <2>3, <2>5
    <2> QED BY <2>4, <2>5
  <1>9. seen' \subseteq been' /\ orders' \in Nat
    BY <1>5 DEF Command, IInv
  <1> QED BY <1>5, <1>7, <1>8, <1>9 DEF IInv, Routed

-----------------------------------------------------------------------------
(* One lemma per order *)

(* An order that leaves the ship where it is and what it carries. *)
LEMMA OrderGood ==
  ASSUME NEW x \in ShipRec, Good(x), NEW y \in ShipRec, y.id = x.id, y.at = x.at,
         y.pos = x.pos, y.guest = x.guest, y.docked = x.docked, y.alive => x.alive,
         y.fuel = x.fuel, y.speed <= Design[x.id].speed,
         y.on => x.on /\ y.dest = x.dest /\ (y.navigate => x.navigate)
  PROVE  Good(y)
  <1>1. Fit(y)
    BY DEF Good, Fit
  <1>2. JumpOK(y)
    BY DEF Good, JumpOK, CelestialDestination
  <1>3. PlaceOK(y)
    BY PlaceFollows DEF Good
  <1> QED BY <1>1, <1>2, <1>3 DEF Good

(* order_destination keeps the invariant.                                  *)
LEMMA OrderDestinationInv ==
  ASSUME IInv, NEW s \in Ship, NEW d \in Body \cup Ship \cup {None}, OrderDestination(s, d)
  PROVE  IInv'
  <1> DEFINE x == ship[s]
             y == SetDestination(x, d)
  <1>1. x \in ShipRec /\ Good(x) /\ x.id = s
    BY ShipFacts
  <1>2. d \in Place \cup Ship
    BY Places
  <1>3. y \in ShipRec /\ Good(y) /\ Kept(x, y)
    BY <1>1, <1>2, DestinationRecord
  <1>4. y.charge = x.charge
    BY <1>1 DEF SetDestination, ShipRec
  <1>5. Command(s, y)
    BY DEF OrderDestination
  <1> QED BY <1>1, <1>3, <1>4, <1>5, CommandInv DEF Kept

(* order_jump: a jump is ordered with its star, or not at all.             *)
LEMMA OrderJumpInv ==
  ASSUME IInv, NEW s \in Ship, OrderJump(s)
  PROVE  IInv'
  <1> DEFINE x == ship[s]
             c == IF x.mounted THEN READY ELSE x.charge
             u == [x EXCEPT !.on = TRUE, !.navigate = FALSE]
             y == [u EXCEPT !.charge = c]
  <1>1. x \in ShipRec /\ Good(x) /\ x.id = s
    BY ShipFacts
  <1>2. c \in 0..READY
    BY <1>1, Fields, Numbers
  <1>3. ~x.docked /\ Design[s].drive /\ CelestialDestination(x)
    BY DEF OrderJump
  <1>4. Command(s, y)
    <2>1. y = [x EXCEPT !.on = TRUE, !.navigate = FALSE,
                        !.charge = IF x.mounted THEN READY ELSE @]
      BY <1>1 DEF ShipRec
    <2> QED BY <2>1 DEF OrderJump
  <1>5. u \in ShipRec /\ ~u.navigate
    BY <1>1 DEF ShipRec
  <1> HIDE DEF c
  <1>6. y \in ShipRec /\ y.charge = c
    BY <1>2, <1>5 DEF ShipRec
  <1>7. /\ y.id = x.id /\ y.at = x.at /\ y.pos = x.pos /\ y.guest = x.guest
        /\ y.docked = x.docked /\ y.alive = x.alive /\ y.fuel = x.fuel /\ y.speed = x.speed
        /\ y.dest = x.dest /\ ~y.navigate /\ y.mounted = x.mounted
    BY <1>1 DEF ShipRec
  <1> HIDE DEF y, u
  <1>8. Good(y)
    <2>1. Fit(y)
      BY <1>1, <1>6, <1>7 DEF Good, Fit
    <2>2. JumpOK(y)
      BY <1>1, <1>3, <1>7 DEF JumpOK, CelestialDestination
    <2>3. PlaceOK(y)
      BY <1>1, <1>7, PlaceFollows DEF Good
    <2> QED BY <2>1, <2>2, <2>3 DEF Good
  <1>9. y.charge >= READY => y.mounted \/ (x.charge >= READY /\ (x.mounted => y.mounted))
    BY <1>6, <1>7 DEF c
  <1> QED BY <1>1, <1>4, <1>6, <1>7, <1>8, <1>9, CommandInv

(* A jump order taken back.                                                *)
LEMMA OrderJumpOffInv ==
  ASSUME IInv, NEW s \in Ship, OrderJumpOff(s)
  PROVE  IInv'
  <1> DEFINE x == ship[s]
             y == [x EXCEPT !.on = FALSE]
  <1>1. x \in ShipRec /\ Good(x) /\ x.id = s
    BY ShipFacts
  <1>2. Command(s, y)
    BY DEF OrderJumpOff
  <1>3. /\ y \in ShipRec /\ y.id = x.id /\ y.at = x.at /\ y.pos = x.pos /\ y.guest = x.guest
        /\ y.docked = x.docked /\ y.alive = x.alive /\ y.fuel = x.fuel /\ y.speed = x.speed
        /\ ~y.on /\ y.charge = x.charge /\ y.mounted = x.mounted
    BY <1>1 DEF ShipRec
  <1> HIDE DEF y
  <1>4. Good(y)
    BY <1>1, <1>3, OrderGood DEF Good, Fit
  <1> QED BY <1>1, <1>2, <1>3, <1>4, CommandInv

(* order_navigate: a course ends the jump order.                           *)
LEMMA OrderNavigateInv ==
  ASSUME IInv, NEW s \in Ship, NEW b \in {-1, 1}, NEW n \in Turns, OrderNavigate(s, b, n)
  PROVE  IInv'
  <1> DEFINE x == ship[s]
             u == [x EXCEPT !.navigate = n > 0, !.bearing = b]
             y == [u EXCEPT !.turns = n, !.on = FALSE]
  <1>1. x \in ShipRec /\ Good(x) /\ x.id = s
    BY ShipFacts
  <1>2. n \in Int /\ (n > 0) \in BOOLEAN
    BY FlightAssumption
  <1>3. Command(s, y)
    BY DEF OrderNavigate
  <1>4. u \in ShipRec
    BY <1>1, <1>2 DEF ShipRec
  <1>5. y \in ShipRec
    BY <1>2, <1>4 DEF ShipRec
  <1>6. /\ y.id = x.id /\ y.at = x.at /\ y.pos = x.pos /\ y.guest = x.guest
        /\ y.docked = x.docked /\ y.alive = x.alive /\ y.fuel = x.fuel /\ y.speed = x.speed
        /\ ~y.on /\ y.charge = x.charge /\ y.mounted = x.mounted
    BY <1>1 DEF ShipRec
  <1> HIDE DEF y, u
  <1>7. Good(y)
    BY <1>1, <1>5, <1>6, OrderGood DEF Good, Fit
  <1> QED BY <1>1, <1>3, <1>5, <1>6, <1>7, CommandInv

(* order_speed: no faster than the ship is built.                          *)
LEMMA OrderSpeedInv ==
  ASSUME IInv, NEW s \in Ship, NEW v \in Throttle, OrderSpeed(s, v)
  PROVE  IInv'
  <1> DEFINE x == ship[s]
             k == Min({v, Design[s].speed})
             y == [x EXCEPT !.speed = k]
  <1>1. x \in ShipRec /\ Good(x) /\ x.id = s
    BY ShipFacts
  <1>2. v \in Nat /\ Design[s].speed \in Nat
    BY FlightAssumption
  <1>3. k \in Nat /\ k <= Design[s].speed
    <2> DEFINE m == Design[s].speed
    <2>1. v \in Int /\ m \in Int
      BY <1>2
    <2> HIDE DEF m
    <2>2. Min({v, m}) = IF v <= m THEN v ELSE m
      BY <2>1, LesserOf
    <2>3. Min({v, m}) \in Nat /\ Min({v, m}) <= m
      BY <1>2, <2>1, <2>2 DEF m
    <2> QED BY <2>3 DEF m
  <1>4. Command(s, y)
    BY DEF OrderSpeed
  <1> HIDE DEF k
  <1>5. /\ y \in ShipRec /\ y.id = x.id /\ y.at = x.at /\ y.pos = x.pos /\ y.guest = x.guest
        /\ y.docked = x.docked /\ y.alive = x.alive /\ y.fuel = x.fuel /\ y.speed = k
        /\ y.on = x.on /\ y.charge = x.charge /\ y.mounted = x.mounted
        /\ y.dest = x.dest /\ y.navigate = x.navigate
    BY <1>1, <1>3 DEF ShipRec
  <1> HIDE DEF y
  <1>6. Good(y)
    BY <1>1, <1>3, <1>5, OrderGood
  <1> QED BY <1>1, <1>4, <1>5, <1>6, CommandInv

(* order_evade keeps the invariant.                                        *)
LEMMA OrderEvadeInv ==
  ASSUME IInv, NEW s \in Ship, OrderEvade(s)
  PROVE  IInv'
  <1> DEFINE x == ship[s]
             y == [x EXCEPT !.evade = ~@]
  <1>1. x \in ShipRec /\ Good(x) /\ x.id = s
    BY ShipFacts
  <1>2. Command(s, y)
    BY DEF OrderEvade
  <1>3. /\ y \in ShipRec /\ y.id = x.id /\ y.at = x.at /\ y.pos = x.pos /\ y.guest = x.guest
        /\ y.docked = x.docked /\ (y.alive => x.alive) /\ y.fuel = x.fuel /\ y.speed = x.speed
        /\ y.on = x.on /\ y.dest = x.dest /\ y.navigate = x.navigate
        /\ y.charge = x.charge /\ y.mounted = x.mounted
    BY <1>1 DEF ShipRec
  <1> HIDE DEF y
  <1>4. Good(y)
    BY <1>1, <1>3, OrderGood DEF Good, Fit
  <1> QED BY <1>1, <1>2, <1>3, <1>4, CommandInv

(* order_merchant keeps the invariant.                                     *)
LEMMA OrderMerchantInv ==
  ASSUME IInv, NEW s \in Ship, OrderMerchant(s)
  PROVE  IInv'
  <1> DEFINE x == ship[s]
             y == [x EXCEPT !.merchant = ~@]
  <1>1. x \in ShipRec /\ Good(x) /\ x.id = s
    BY ShipFacts
  <1>2. Command(s, y)
    BY DEF OrderMerchant
  <1>3. /\ y \in ShipRec /\ y.id = x.id /\ y.at = x.at /\ y.pos = x.pos /\ y.guest = x.guest
        /\ y.docked = x.docked /\ (y.alive => x.alive) /\ y.fuel = x.fuel /\ y.speed = x.speed
        /\ y.on = x.on /\ y.dest = x.dest /\ y.navigate = x.navigate
        /\ y.charge = x.charge /\ y.mounted = x.mounted
    BY <1>1 DEF ShipRec
  <1> HIDE DEF y
  <1>4. Good(y)
    BY <1>1, <1>3, OrderGood DEF Good, Fit
  <1> QED BY <1>1, <1>2, <1>3, <1>4, CommandInv

(* mount_ship_crystal keeps the invariant.                                 *)
LEMMA MountInv ==
  ASSUME IInv, NEW s \in Ship, Mount(s)
  PROVE  IInv'
  <1> DEFINE x == ship[s]
             y == [x EXCEPT !.mounted = TRUE]
  <1>1. x \in ShipRec /\ Good(x) /\ x.id = s
    BY ShipFacts
  <1>2. Command(s, y)
    BY DEF Mount
  <1>3. /\ y \in ShipRec /\ y.id = x.id /\ y.at = x.at /\ y.pos = x.pos /\ y.guest = x.guest
        /\ y.docked = x.docked /\ (y.alive => x.alive) /\ y.fuel = x.fuel /\ y.speed = x.speed
        /\ y.on = x.on /\ y.dest = x.dest /\ y.navigate = x.navigate
        /\ y.charge = x.charge /\ y.mounted
    BY <1>1 DEF ShipRec
  <1> HIDE DEF y
  <1>4. Good(y)
    BY <1>1, <1>3, OrderGood DEF Good, Fit
  <1> QED BY <1>1, <1>2, <1>3, <1>4, CommandInv

(* dismount_ship_crystal takes the charge with the crystal.                *)
LEMMA DismountInv ==
  ASSUME IInv, NEW s \in Ship, Dismount(s)
  PROVE  IInv'
  <1> DEFINE x == ship[s]
             y == Dismounted(x)
  <1>1. x \in ShipRec /\ Good(x) /\ x.id = s
    BY ShipFacts
  <1>0. y = [x EXCEPT !.mounted = FALSE, !.charge = 0] /\ 0 \in 0..READY
    BY Numbers DEF Dismounted
  <1>2. Command(s, y)
    BY DEF Dismount
  <1>3. /\ y \in ShipRec /\ y.id = x.id /\ y.at = x.at /\ y.pos = x.pos /\ y.guest = x.guest
        /\ y.docked = x.docked /\ (y.alive => x.alive) /\ y.fuel = x.fuel /\ y.speed = x.speed
        /\ y.on = x.on /\ y.dest = x.dest /\ y.navigate = x.navigate
        /\ y.charge = 0
    BY <1>1, <1>0 DEF ShipRec
  <1> HIDE DEF y
  <1>4. Good(y)
    BY <1>1, <1>3, OrderGood DEF Good, Fit
  <1> QED BY <1>1, <1>2, <1>3, <1>4, Numbers, CommandInv

(* The loss of a crew keeps the invariant.                                 *)
LEMMA LoseCrewInv ==
  ASSUME IInv, NEW s \in Ship, LoseCrew(s)
  PROVE  IInv'
  <1> DEFINE x == ship[s]
             y == [x EXCEPT !.crew = FALSE]
  <1>1. x \in ShipRec /\ Good(x) /\ x.id = s
    BY ShipFacts
  <1>2. Command(s, y)
    BY DEF LoseCrew
  <1>3. /\ y \in ShipRec /\ y.id = x.id /\ y.at = x.at /\ y.pos = x.pos /\ y.guest = x.guest
        /\ y.docked = x.docked /\ (y.alive => x.alive) /\ y.fuel = x.fuel /\ y.speed = x.speed
        /\ y.on = x.on /\ y.dest = x.dest /\ y.navigate = x.navigate
        /\ y.charge = x.charge /\ y.mounted = x.mounted
    BY <1>1 DEF ShipRec
  <1> HIDE DEF y
  <1>4. Good(y)
    BY <1>1, <1>3, OrderGood DEF Good, Fit
  <1> QED BY <1>1, <1>2, <1>3, <1>4, CommandInv

(* The loss of a ship keeps the invariant.                                 *)
LEMMA LoseShipInv ==
  ASSUME IInv, NEW s \in Ship, LoseShip(s)
  PROVE  IInv'
  <1> DEFINE x == ship[s]
             y == [x EXCEPT !.alive = FALSE]
  <1>1. x \in ShipRec /\ Good(x) /\ x.id = s
    BY ShipFacts
  <1>2. Command(s, y)
    BY DEF LoseShip
  <1>3. /\ y \in ShipRec /\ y.id = x.id /\ y.at = x.at /\ y.pos = x.pos /\ y.guest = x.guest
        /\ y.docked = x.docked /\ (y.alive => x.alive) /\ y.fuel = x.fuel /\ y.speed = x.speed
        /\ y.on = x.on /\ y.dest = x.dest /\ y.navigate = x.navigate
        /\ y.charge = x.charge /\ y.mounted = x.mounted
    BY <1>1 DEF ShipRec
  <1> HIDE DEF y
  <1>4. Good(y)
    BY <1>1, <1>3, OrderGood DEF Good, Fit
  <1> QED BY <1>1, <1>2, <1>3, <1>4, CommandInv

(* land: on the ground, with the jump order gone.                          *)
LEMMA LandInv ==
  ASSUME IInv, NEW s \in Ship, Land(s)
  PROVE  IInv'
  <1> DEFINE x == ship[s]
             y == LandOnPlanet([x EXCEPT !.pos = Site[x.at], !.fuel = @ - Lift])
  <1>1. x \in ShipRec /\ Good(x) /\ x.id = s
    BY ShipFacts
  <1>2. Command(s, y) /\ x.at \in Planet /\ Lift <= x.fuel
    <2>1. x.fuel >= Lift /\ x.fuel \in Int
      BY <1>1, Fields DEF Land
    <2> QED BY <2>1, Numbers DEF Land
  <1>3. y \in ShipRec /\ Good(y) /\ Kept(x, y) /\ y.charge = x.charge
    BY <1>1, <1>2, LandRecord
  <1> HIDE DEF y
  <1> QED BY <1>1, <1>2, <1>3, CommandInv DEF Kept

(* launch: into the orbit, with the jump order gone.                       *)
LEMMA LaunchInv ==
  ASSUME IInv, NEW s \in Ship, Launch(s)
  PROVE  IInv'
  <1> DEFINE x == ship[s]
             y == [LaunchToOrbit(x) EXCEPT !.fuel = @ - Lift]
  <1>1. x \in ShipRec /\ Good(x) /\ x.id = s
    BY ShipFacts
  <1>2. Command(s, y) /\ Lift <= x.fuel
    <2>1. x.fuel >= Lift /\ x.fuel \in Int
      BY <1>1, Fields DEF Launch
    <2> QED BY <2>1, Numbers DEF Launch
  <1>3. y \in ShipRec /\ Good(y) /\ Kept(x, y) /\ y.charge = x.charge
    <2>1. None \in Place \cup Ship
      BY Places
    <2>2. SetDestination(LaunchToOrbit(x), None) = LaunchToOrbit(x)
      BY <1>1, <1>2, <2>1, LaunchRecord
    <2> QED BY <1>1, <1>2, <2>1, <2>2, LaunchRecord
  <1> HIDE DEF y
  <1> QED BY <1>1, <1>2, <1>3, CommandInv DEF Kept

(* A step that leaves the ships and their charges alone. *)
LEMMA ForecastInv ==
  ASSUME IInv, NEW s \in Ship, NEW d \in Body \cup Ship, Forecast(s, d)
  PROVE  IInv'
  <1>1. ship[s] \in ShipRec /\ Good(ship[s])
    BY ShipFacts
  <1>2. DoTrip(ship[s], d).w = World
    BY <1>1, TripWorld DEF IInv, Forecast
  <1>3. seen' = seen /\ depot' = depot
    BY <1>2 DEF Forecast, World
  <1>4. /\ ship' = ship /\ route' = route /\ nsegments_done' = nsegments_done
        /\ orders' = orders /\ been' = been /\ earned' = earned
    BY DEF Forecast
  <1>5. World' = World
    BY <1>3, <1>4 DEF World
  <1>6. GoodWorld(World)' <=> GoodWorld(World')
    BY DEF GoodWorld, WorldRec
  <1> QED BY <1>3, <1>4, <1>5, <1>6 DEF IInv, Routed, ChargeEarned

(* A change of a route leaves the ships alone.                             *)
LEMMA RouteInv ==
  ASSUME IInv, NEW p \in Planet, NEW r \in RouteRec, Route(p, r)
  PROVE  IInv'
  <1>1. /\ ship' = ship /\ seen' = seen /\ depot' = depot /\ nsegments_done' = nsegments_done
        /\ been' = been /\ earned' = earned /\ orders' = orders + 1
        /\ route' = [route EXCEPT ![p] = r]
    BY DEF Route
  <1>2. World' = World
    BY <1>1 DEF World
  <1>3. GoodWorld(World)' <=> GoodWorld(World')
    BY DEF GoodWorld, WorldRec
  <1>4. route' \in [Planet -> RouteRec]
    BY <1>1 DEF IInv, Routed
  <1> QED BY <1>1, <1>2, <1>3, <1>4 DEF IInv, Routed, ChargeEarned

(* The four commands that change one.                                      *)
LEMMA RoutesInv ==
  ASSUME IInv, NEW p \in Planet,
         \/ \E on \in BOOLEAN : RouteActivate(p, on)
         \/ \E q \in Planet : RouteDestination(p, q)
         \/ \E alien \in BOOLEAN : RouteLand(p, alien)
         \/ \E load, unload \in BOOLEAN : RouteTrade(p, load, unload)
  PROVE  IInv'
  <1>1. route[p] \in RouteRec
    BY DEF IInv, Routed
  <1>2. ASSUME NEW o \in BOOLEAN, NEW u \in BOOLEAN, NEW q \in Planet
        PROVE /\ [route[p] EXCEPT !.set = o] \in RouteRec
              /\ [route[p] EXCEPT !.next = q] \in RouteRec
              /\ [route[p] EXCEPT !.alien = o] \in RouteRec
              /\ [route[p] EXCEPT !.load = o, !.unload = u] \in RouteRec
    BY <1>1 DEF RouteRec
  <1>3. \E r \in RouteRec : Route(p, r)
    BY <1>2 DEF RouteActivate, RouteDestination, RouteLand, RouteTrade
  <1> QED BY <1>3, RouteInv

(* A segment keeps the invariant.                                          *)
LEMMA SegmentInv ==
  ASSUME IInv, Segment
  PROVE  IInv'
  <1> DEFINE update == nsegments_done = SEGMENTS
             w == AfterSegment(update)
             S == {t \in Ship : ship[t].alive}
  <1>1. /\ Tick /\ ship' = w.ship /\ seen' = w.seen /\ depot' = w.depot
        /\ been' = been \cup UNION {Seen(w.ship[t]) : t \in
                     {t \in Ship : w.ship[t].alive /\ HasSight(w.ship[t])}}
        /\ earned' = {t \in Ship : w.ship[t].charge > 0 /\
                        (t \in earned \/ (update /\ ship[t].on))}
        /\ route' = route /\ orders' = orders
    <2>1. PICK u \in {nsegments_done = SEGMENTS} : \E v \in {AfterSegment(u)} :
            /\ Tick /\ ship' = v.ship /\ seen' = v.seen /\ depot' = v.depot
            /\ been' = been \cup UNION {Seen(v.ship[t]) : t \in
                         {t \in Ship : v.ship[t].alive /\ HasSight(v.ship[t])}}
            /\ earned' = {t \in Ship : v.ship[t].charge > 0 /\
                            (t \in earned \/ (u /\ ship[t].on))}
            /\ route' = route /\ orders' = orders
      BY Zenon DEF Segment
    <2>2. PICK v \in {AfterSegment(u)} :
            /\ Tick /\ ship' = v.ship /\ seen' = v.seen /\ depot' = v.depot
            /\ been' = been \cup UNION {Seen(v.ship[t]) : t \in
                         {t \in Ship : v.ship[t].alive /\ HasSight(v.ship[t])}}
            /\ earned' = {t \in Ship : v.ship[t].charge > 0 /\
                            (t \in earned \/ (u /\ ship[t].on))}
            /\ route' = route /\ orders' = orders
      BY <2>1, Zenon
    <2>3. u = update
      BY <2>1
    <2>4. v = w
      BY <2>2, <2>3
    <2> HIDE DEF update, w
    <2> QED BY <2>2, <2>3, <2>4
  <1>2. update \in BOOLEAN
    OBVIOUS
  <1> HIDE DEF update
  <1>3. SegmentOf(S, w, update)
    BY <1>2, SegmentFlies DEF IInv
  <1> HIDE DEF w
  <1>4. w \in WorldRec /\ w.ship \in [Ship -> ShipRec] /\ w.depot \in [Planet -> Nat]
        /\ w.seen \in SUBSET (Race \X Body) /\ \A t \in Ship : Good(w.ship[t]) /\ w.ship[t].id = t
    BY <1>3 DEF SegmentOf, GoodWorld, WorldRec
  <1>5. GoodWorld(World)'
    BY <1>1, <1>4, WorldNext
  <1>6. nsegments_done' \in 1..SEGMENTS
    BY <1>1, Numbers DEF Tick, IInv
  <1>7. seen' \subseteq been'
    <2>1. seen' \subseteq seen \cup UNION {Sight(w.ship[t]) : t \in S}
      BY <1>1, <1>3 DEF SegmentOf
    <2>2. \A t \in S : Sight(w.ship[t]) \subseteq been'
      BY <1>1 DEF Sight
    <2>3. seen \subseteq been /\ been \subseteq been'
      BY <1>1 DEF IInv
    <2> QED BY <2>1, <2>2, <2>3
  <1>8. ChargeEarned'
    <2> SUFFICES ASSUME NEW t \in Ship, ship'[t].charge >= READY
                 PROVE ship'[t].mounted \/ t \in earned'
      BY DEF ChargeEarned
    <2>1. w.ship[t].charge >= READY /\ w.ship[t].charge > 0
      <3>1. w.ship[t].charge \in 0..READY
        BY <1>4, Fields
      <3> QED BY <1>1, <3>1, Numbers
    <2>2. ship[t].charge >= READY => ship[t].mounted \/ t \in earned
      BY DEF IInv, ChargeEarned
    <2>3. CASE t \in S
      <3>1. /\ w.ship[t].mounted = ship[t].mounted
            /\ ship[t].charge >= READY \/ ship[t].mounted \/ (update /\ ship[t].on)
        BY <1>3, <2>1, <2>3 DEF SegmentOf, Kept
      <3> QED BY <1>1, <2>1, <2>2, <3>1
    <2>4. CASE t \notin S
      <3>1. w.ship[t] = ship[t]
        BY <1>3, <2>4 DEF SegmentOf
      <3> QED BY <1>1, <2>1, <2>2, <3>1
    <2> QED BY <2>3, <2>4
  <1> QED BY <1>1, <1>5, <1>6, <1>7, <1>8 DEF IInv, Routed

(* Every step keeps the invariant.                                         *)
LEMMA InvStep ==
  ASSUME IInv, [Next]_vars
  PROVE  IInv'
  <1>1. CASE UNCHANGED vars
    <2>1. World' = World /\ route' = route /\ orders' = orders /\ been' = been
          /\ nsegments_done' = nsegments_done /\ seen' = seen /\ ship' = ship /\ earned' = earned
      BY <1>1 DEF World, vars
    <2>2. GoodWorld(World)' <=> GoodWorld(World')
      BY DEF GoodWorld, WorldRec
    <2> QED BY <2>1, <2>2 DEF IInv, Routed, ChargeEarned
  <1>2. ASSUME NEW s \in Ship,
               \/ \E d \in Body \cup Ship \cup {None} : OrderDestination(s, d)
               \/ OrderJump(s) \/ OrderJumpOff(s)
               \/ \E b \in {-1, 1}, n \in Turns : OrderNavigate(s, b, n)
               \/ \E v \in Throttle : OrderSpeed(s, v)
        PROVE IInv'
    BY <1>2, OrderDestinationInv, OrderJumpInv, OrderJumpOffInv, OrderNavigateInv, OrderSpeedInv
  <1>3. ASSUME NEW s \in Ship,
               \/ OrderEvade(s) \/ OrderMerchant(s) \/ Mount(s) \/ Dismount(s)
               \/ Land(s) \/ Launch(s) \/ LoseCrew(s) \/ LoseShip(s)
               \/ \E d \in Body \cup Ship : Forecast(s, d)
        PROVE IInv'
    BY <1>3, OrderEvadeInv, OrderMerchantInv, MountInv, DismountInv, LandInv, LaunchInv,
       LoseCrewInv, LoseShipInv, ForecastInv
  <1>4. CASE Segment
    BY <1>4, SegmentInv
  <1> QED BY <1>1, <1>2, <1>3, <1>4, RoutesInv DEF Next

-----------------------------------------------------------------------------
(* Theorems *)

(* LogsAreTrue: whatever the players order and however ships fly, chase,   *)
(* trade, jump and are lost, a jump order has its star and no course beside *)
(* it (order_jump, order_navigate, set_celestial_destination), a drive is  *)
(* ready only by its crystal or an update (charge_hyperdrive_capacitor,    *)
(* dismount_ship_crystal), no fuel is flown or traded that is not there, a *)
(* ship is in the orbit or system it says it is in (check_and_break_orbit, *)
(* the arrivals), and a race has explored only what it has seen            *)
(* (can_ship_explore).                                                     *)
THEOREM Logs == Spec => []LogsAreTrue
<1>1. Init => IInv
  BY InitInv
<1>2. IInv /\ [Next]_vars => IInv'
  BY InvStep
<1>3. IInv => LogsAreTrue
  BY InvariantMeans
<1> QED BY <1>1, <1>2, <1>3, PTL DEF Spec

-----------------------------------------------------------------------------
(* The forecast: what the copy of a ship under way to a place does in a    *)
(* segment, whatever the world; MoveShip without the world.                *)

CopyStar(x, b) ==
  IF 2 * Away(x.pos, Site[b]) > 3 * SYSTEMSIZE THEN x
  ELSE IF ArriveAt(x, b).dest \in Star THEN ClearDestination(ArriveAt(x, b)) ELSE ArriveAt(x, b)
CopyPlanet(x, p) ==
  IF Away(x.pos, Site[p]) > PLORBITSIZE THEN x
  ELSE IF Away(x.pos, Site[p]) <= DIST_TO_LAND /\ ArriveAt(x, p).dest \in Planet
       THEN ClearDestination(ArriveAt(x, p))
  ELSE ArriveAt(x, p)
CopyArrival(x, goal) ==
  IF Approach(x, goal) \in Star THEN CopyStar(x, Approach(x, goal))
  ELSE CopyPlanet(x, Approach(x, goal))
CopyApproach(x, goal, dist) ==
  IF dist <= DIST_TO_LAND THEN x
  ELSE Pulled(x, Site[goal], ApproachDistance(x, goal, dist))
CopyDestination(x) ==
  LET goal == Approach(x, x.dest)
      dist == Away(x.pos, Site[goal])
  IN  IF AlreadyThere(x, goal, dist) THEN x
      ELSE CopyArrival(BreakOrbit(CopyApproach(x, goal, dist)), goal)
Copy(x, update) ==
  IF x.on THEN HyperdriveJump(x, update)
  ELSE IF ~CanMove(x) \/ x.fuel < Burn(x) THEN x
  ELSE IF x.navigate THEN NavigationStep(x)
  ELSE CopyDestination(x)

\* z is x a segment later: still on its way, or there.
Led(x, z) ==
  /\ z.alive = x.alive
  /\ z.dest = x.dest \/ (z.dest = None /\ x.dest \in {z.at, StarOf(z)})
\* y is what became of the ship x whose copy became z: the same, unless the
\* copy has arrived and the ship trades, or the ship is lost for want of fuel.
Arrives(x, z, y) == y = z \/ (z.dest = None /\ y.at = x.dest)
Follows(x, z, y) == Arrives(x, z, y) \/ (z = x /\ ~x.on /\ y.pos = x.pos)

(* The star first, then its planet: where a ship under way to d is going.  *)
LEMMA ApproachFacts ==
  ASSUME NEW x, NEW d \in Body
  PROVE  /\ Approach(x, d) \in Body
         /\ Approach(x, d) \in Planet => Approach(x, d) = d
         /\ d \in Star => Approach(x, d) = d
  BY Places DEF Approach, Body

(* At a star, the copy and the ship fare alike.                            *)
LEMMA CopyOfStar ==
  ASSUME NEW w, NEW x \in ShipRec, Good(x), ~x.docked, ~x.on, x.dest \in Body,
         NEW b \in Star, x.dest \in Star => x.dest = b, NEW real \in BOOLEAN
  PROVE  StarArrival(w, x, b, real).x = CopyStar(x, b) /\ Led(x, CopyStar(x, b))
  <1> DEFINE y == ArriveAt(x, b)
             z == CopyStar(x, b)
             far == 2 * Away(x.pos, Site[b]) > 3 * SYSTEMSIZE
  <1>1. CASE far
    BY <1>1 DEF StarArrival, CopyStar, Led
  <1>2. CASE ~far
    <2>1. 2 * Away(x.pos, Site[b]) <= 3 * SYSTEMSIZE
      <3>1. Site[b] \in Int /\ x.pos \in Int /\ SYSTEMSIZE \in Nat
        BY Places, Fields, Numbers
      <3>2. Away(x.pos, Site[b]) \in Nat
        BY <3>1, AwayFacts
      <3> QED BY <1>2, <3>1, <3>2
    <2>2. y \in ShipRec /\ Good(y) /\ y.alive = x.alive /\ y.dest = x.dest /\ y.at = b
      BY <2>1, ArriveRecord, Places
    <2>3. /\ StarArrival(w, x, b, real).x = IF y.dest \in Star THEN ClearDestination(y) ELSE y
          /\ z = IF y.dest \in Star THEN ClearDestination(y) ELSE y
      BY <1>2 DEF StarArrival, CopyStar
    <2> HIDE DEF y, z
    <2>4. CASE y.dest \in Star
      <3>1. ClearDestination(y) = [y EXCEPT !.dest = None, !.on = FALSE]
        BY <2>2, ClearRecord, Zenon
      <3>2. z.alive = y.alive /\ z.dest = None /\ z.at = b
        BY <2>2, <2>3, <2>4, <3>1 DEF ShipRec
      <3>3. Led(x, z)
        BY <2>2, <2>4, <3>2 DEF Led
      <3> QED BY <2>3, <3>3 DEF z
    <2>5. CASE y.dest \notin Star
      <3>1. z = y /\ Led(x, z)
        BY <2>2, <2>3, <2>5 DEF Led
      <3> QED BY <2>3, <3>1 DEF z
    <2> QED BY <2>4, <2>5
  <1> QED BY <1>1, <1>2

(* At a planet too, except that the ship may trade, and go on.             *)
LEMMA CopyOfPlanet ==
  ASSUME NEW w \in WorldRec, NEW x \in ShipRec, Good(x), ~x.docked, ~x.on, x.dest \in Body,
         NEW p \in Planet, x.dest = p, Routed
  PROVE  /\ PlanetArrival(w, x, p, FALSE).x = CopyPlanet(x, p) /\ Led(x, CopyPlanet(x, p))
         /\ Arrives(x, CopyPlanet(x, p), PlanetArrival(w, x, p, TRUE).x)
  <1> DEFINE y == ArriveAt(x, p)
             z == CopyPlanet(x, p)
             dist == Away(x.pos, Site[p])
             v == Explore(w, y, TRUE)
  <1>0. dist \in Nat /\ PLORBITSIZE \in Nat /\ DIST_TO_LAND \in Nat
    <2>1. Site[p] \in Int /\ x.pos \in Int
      BY Places, Fields
    <2> QED BY <2>1, AwayFacts, Numbers
  <1>1. CASE dist > PLORBITSIZE
    <2>1. z = x /\ \A real : PlanetArrival(w, x, p, real).x = x
      BY <1>1 DEF PlanetArrival, CopyPlanet
    <2> QED BY <2>1 DEF Led, Arrives
  <1>2. CASE ~(dist > PLORBITSIZE)
    <2>1. /\ y \in ShipRec /\ Good(y) /\ y.alive = x.alive /\ y.dest = p /\ y.at = p
      BY <1>0, <1>2, ArriveRecord, Places
    <2>2. CASE dist > DIST_TO_LAND
      <3>1. z = y /\ \A real : PlanetArrival(w, x, p, real).x = y
        BY <1>0, <1>2, <2>2 DEF PlanetArrival, CopyPlanet
      <3> QED BY <2>1, <3>1 DEF Led, Arrives
    <2>3. CASE ~(dist > DIST_TO_LAND)
      <3> DEFINE c == ClearDestination(y)
                 m == Merchant(v, y, p)
      <3>1. z = c /\ PlanetArrival(w, x, p, FALSE).x = c
        BY <1>0, <1>2, <2>1, <2>3 DEF PlanetArrival, CopyPlanet
      <3>2. PlanetArrival(w, x, p, TRUE).x = c \/ PlanetArrival(w, x, p, TRUE).x = m.x
        BY <1>2, <2>1, <2>3 DEF PlanetArrival
      <3>3. m.x.at = p
        <4>1. v \in WorldRec
          BY <2>1, ExploreWorld
        <4> HIDE DEF v, y
        <4>2. Stopped(v, y, p, m)
          BY <2>1, <4>1, MerchantFlies
        <4> QED BY <4>2 DEF Stopped
      <3> HIDE DEF m, y
      <3>4. c = [y EXCEPT !.dest = None, !.on = FALSE]
        BY <2>1, ClearRecord, Zenon
      <3>5. c.alive = y.alive /\ c.dest = None /\ c.at = p
        BY <2>1, <3>4 DEF ShipRec
      <3> HIDE DEF c, z
      <3>6. Led(x, z)
        BY <2>1, <3>1, <3>5 DEF Led
      <3>7. Arrives(x, z, c)
        BY <3>1 DEF Arrives
      <3>8. Arrives(x, z, m.x)
        BY <3>1, <3>3, <3>5 DEF Arrives
      <3> QED BY <3>1, <3>2, <3>6, <3>7, <3>8 DEF z
    <2> QED BY <2>2, <2>3
  <1> QED BY <1>1, <1>2

(* So they do at the destination, or the star on the way to it.            *)
LEMMA CopyOfArrival ==
  ASSUME NEW w \in WorldRec, NEW x \in ShipRec, Good(x), ~x.docked, ~x.on, x.dest \in Body,
         Routed, NEW goal \in Body, goal \in Planet => goal = x.dest,
         x.dest \in Star => goal = x.dest
  PROVE  /\ Arrival(w, x, goal, FALSE).x = CopyArrival(x, goal) /\ Led(x, CopyArrival(x, goal))
         /\ Arrives(x, CopyArrival(x, goal), Arrival(w, x, goal, TRUE).x)
  <1> DEFINE g == Approach(x, goal)
  <1>1. /\ g \in Star \/ g \in Planet
        /\ g \in Planet => g = x.dest
        /\ x.dest \in Star => g = x.dest
    BY ApproachFacts DEF Body
  <1>2. CASE g \in Star
    <2>1. CopyArrival(x, goal) = CopyStar(x, g)
      BY <1>2 DEF CopyArrival
    <2>2. \A real : Arrival(w, x, goal, real) = StarArrival(w, x, g, real)
      BY <1>2 DEF Arrival
    <2> HIDE DEF g
    <2>3. /\ \A real \in BOOLEAN : StarArrival(w, x, g, real).x = CopyStar(x, g)
          /\ Led(x, CopyStar(x, g))
      BY <1>1, <1>2, CopyOfStar
    <2> QED BY <2>1, <2>2, <2>3 DEF Arrives
  <1>3. CASE g \in Planet
    <2>1. g \notin Star
      BY <1>3, Places
    <2>2. CopyArrival(x, goal) = CopyPlanet(x, g)
      BY <2>1 DEF CopyArrival
    <2>3. \A real : Arrival(w, x, goal, real) = PlanetArrival(w, x, g, real)
      BY <1>3, <2>1 DEF Arrival
    <2> HIDE DEF g
    <2> QED BY <1>1, <1>3, <2>2, <2>3, CopyOfPlanet
  <1> QED BY <1>1, <1>2, <1>3

(* A segment towards a place.                                              *)
LEMMA CopyOfDestination ==
  ASSUME NEW w \in WorldRec, NEW x \in ShipRec, Good(x), ~x.docked, ~x.on, x.dest \in Body,
         Burn(x) <= x.fuel, Routed
  PROVE  /\ DestinationStep(w, x, FALSE).x = CopyDestination(x) /\ Led(x, CopyDestination(x))
         /\ Arrives(x, CopyDestination(x), DestinationStep(w, x, TRUE).x)
  <1> DEFINE goal == Approach(x, x.dest)
             dist == Away(x.pos, Site[goal])
             y == CopyApproach(x, goal, dist)
             b == BreakOrbit(y)
             z == CopyArrival(b, goal)
  <1>1. x.dest \notin Ship /\ goal \notin Ship
    BY ApproachFacts, Places
  <1>2. Goal(w, x) = goal /\ GoalSite(w, goal) = Site[goal]
    BY <1>1 DEF Goal, GoalSite
  <1>3. goal \in Body /\ (goal \in Planet => goal = x.dest) /\ (x.dest \in Star => goal = x.dest)
    BY ApproachFacts
  <1>4. \A real : DestinationStep(w, x, real) =
                    IF AlreadyThere(x, goal, dist) THEN [w |-> w, x |-> x]
                    ELSE Arrival(w, b, goal, real)
    BY <1>1, <1>2 DEF DestinationStep, CopyApproach, Pulled
  <1>5. CopyDestination(x) = IF AlreadyThere(x, goal, dist) THEN x ELSE z
    BY DEF CopyDestination
  <1>6. /\ y \in ShipRec /\ Fit(y) /\ Slack(y) /\ y.alive = x.alive /\ y.dest = x.dest
        /\ ~y.docked /\ ~y.on
    <2>1. CASE dist <= DIST_TO_LAND
      BY <2>1, RestSlack DEF Good, CopyApproach
    <2>2. CASE ~(dist <= DIST_TO_LAND)
      <3>1. Site[goal] \in Int /\ dist \in Int
        <4>1. Site[goal] \in Int /\ x.pos \in Int
          BY <1>3, Places, Fields
        <4>2. \A q \in Int : Away(x.pos, q) \in Int
          BY <4>1 DEF Away
        <4> QED BY <4>1, <4>2
      <3> DEFINE apart == ApproachDistance(x, goal, dist)
      <3>2. apart \in Int
        BY <3>1, ApproachIsInt
      <3>3. y = Pulled(x, Site[goal], apart)
        BY <2>2 DEF CopyApproach
      <3> HIDE DEF apart, y, goal
      <3> QED BY <3>1, <3>2, <3>3, PulledRecord
    <2> QED BY <2>1, <2>2
  <1> HIDE DEF y, goal, dist
  <1>7. Good(b) /\ b \in ShipRec /\ ~b.docked /\ ~b.on /\ b.alive = x.alive /\ b.dest = x.dest
    <2>1. Good(b) /\ ~b.docked /\ ~b.on /\ b.alive = y.alive /\ b.dest = y.dest
      BY <1>6, BreakOrbitRecord
    <2> QED BY <1>6, <2>1 DEF Good, Fit
  <1> HIDE DEF b
  <1>8. Arrival(w, b, goal, FALSE).x = z /\ Led(b, z) /\ Arrives(b, z, Arrival(w, b, goal, TRUE).x)
    BY <1>3, <1>7, CopyOfArrival
  <1> HIDE DEF z
  <1>9. Led(x, z) /\ Arrives(x, z, Arrival(w, b, goal, TRUE).x)
    BY <1>7, <1>8 DEF Led, Arrives
  <1>10. CASE AlreadyThere(x, goal, dist)
    <2>1. CopyDestination(x) = x /\ \A real : DestinationStep(w, x, real).x = x
      BY <1>4, <1>5, <1>10
    <2>2. Led(x, x) /\ Arrives(x, x, x)
      BY DEF Led, Arrives
    <2> QED BY <2>1, <2>2
  <1>11. CASE ~AlreadyThere(x, goal, dist)
    BY <1>4, <1>5, <1>8, <1>9, <1>11
  <1> QED BY <1>10, <1>11

(* A segment of flight: the copy's is MoveShip without the world, and the ship's follows it. *)
LEMMA CopyOfShip ==
  ASSUME NEW w \in WorldRec, NEW x \in ShipRec, Good(x), x.dest \in Body,
         NEW update \in BOOLEAN, Routed
  PROVE  /\ MoveShip(w, x, update, FALSE).x = Copy(x, update) /\ Led(x, Copy(x, update))
         /\ Follows(x, Copy(x, update), MoveShip(w, x, update, TRUE).x)
  <1> DEFINE z == Copy(x, update)
  <1>1. CASE x.on
    <2>1. z = HyperdriveJump(x, update) /\ \A real : MoveShip(w, x, update, real).x = z
      BY <1>1 DEF Copy, MoveShip
    <2>2. z.alive = x.alive /\ z.dest = x.dest
      BY <1>1, <2>1, HyperdriveRecord
    <2> HIDE DEF z
    <2>3. Led(x, z) /\ Arrives(x, z, z)
      BY <2>2 DEF Led, Arrives
    <2> QED BY <2>1, <2>3 DEF z, Follows
  <1>2. CASE ~x.on /\ ~CanMove(x)
    <2>1. z = x /\ \A real : MoveShip(w, x, update, real).x = x
      BY <1>2 DEF Copy, MoveShip
    <2> QED BY <2>1 DEF Led, Arrives, Follows
  <1>3. CASE ~x.on /\ CanMove(x) /\ x.fuel < Burn(x)
    <2>1. z = x /\ \A real : MoveShip(w, x, update, real).x = OutOfFuel(x, real)
      BY <1>3 DEF Copy, MoveShip
    <2>2. OutOfFuel(x, FALSE) = x /\ OutOfFuel(x, TRUE).pos = x.pos
      BY DEF OutOfFuel, ShipRec
    <2> QED BY <1>3, <2>1, <2>2 DEF Led, Follows
  <1>4. CASE ~x.on /\ CanMove(x) /\ ~(x.fuel < Burn(x)) /\ x.navigate
    <2>1. z = NavigationStep(x) /\ \A real : MoveShip(w, x, update, real).x = z
      BY <1>4 DEF Copy, MoveShip
    <2>2. ~x.docked /\ Burn(x) <= x.fuel
      <3>1. Burn(x) \in Int /\ x.fuel \in Int
        BY BurnIsNat, Fields
      <3> QED BY <1>4, <3>1 DEF CanMove
    <2>3. z.alive = x.alive /\ z.dest = x.dest
      BY <1>4, <2>1, <2>2, NavigationRecord
    <2> HIDE DEF z
    <2>4. Led(x, z) /\ Arrives(x, z, z)
      BY <2>3 DEF Led, Arrives
    <2> QED BY <2>1, <2>4 DEF z, Follows
  <1>5. CASE ~x.on /\ CanMove(x) /\ ~(x.fuel < Burn(x)) /\ ~x.navigate
    <2>1. /\ z = CopyDestination(x)
          /\ \A real : MoveShip(w, x, update, real) = DestinationStep(w, x, real)
      BY <1>5 DEF Copy, MoveShip
    <2>2. ~x.docked /\ Burn(x) <= x.fuel
      <3>1. Burn(x) \in Int /\ x.fuel \in Int
        BY BurnIsNat, Fields
      <3> QED BY <1>5, <3>1 DEF CanMove
    <2>3. /\ DestinationStep(w, x, FALSE).x = CopyDestination(x) /\ Led(x, CopyDestination(x))
          /\ Arrives(x, CopyDestination(x), DestinationStep(w, x, TRUE).x)
      BY <1>5, <2>2, CopyOfDestination
    <2> QED BY <2>1, <2>3 DEF Follows
  <1> QED BY <1>1, <1>2, <1>3, <1>4, <1>5

-----------------------------------------------------------------------------
(* What a forecast promises *)

NextSegment(c) == IF c = SEGMENTS THEN 1 ELSE c + 1

\* The k segments ahead of a ship that makes for d, as they were forecast:
\* it does not get stuck before the last, and there it arrives.
Course(path, clock, k, d) ==
  /\ \A i \in 0..(k - 1) :
       /\ path[i] \in ShipRec /\ Good(path[i]) /\ path[i].alive /\ path[i].dest = d
       /\ path[i + 1] = Copy(path[i], clock[i] = SEGMENTS)
       /\ clock[i + 1] = NextSegment(clock[i])
  /\ \A i \in 0..(k - 2) : ~(path[i + 1].fuel = path[i].fuel /\ ~path[i + 1].on)
  /\ path[k].dest = None \/ Reached(path[k], d, Site[d])
Ahead(x, c, k, d) == \E path, clock : path[0] = x /\ clock[0] = c /\ Course(path, clock, k, d)

Promised(s) ==
  forecast[s].left > 0 =>
    /\ ship[s].alive /\ HasSight(ship[s]) /\ forecast[s].to \in Body
    /\ Ahead(ship[s], nsegments_done, forecast[s].left, forecast[s].to)
Promises ==
  /\ forecast \in [Ship -> [to : Body \cup {None}, left : Nat]]
  /\ \A s \in Ship : Promised(s)

(* The first segment of a course is what the turn does to the ship.        *)
LEMMA CourseStep ==
  ASSUME NEW w \in WorldRec, NEW x, NEW c, NEW k \in Nat, k > 0, NEW d \in Body,
         Ahead(x, c, k, d), Routed,
         NEW y, y = MoveShip(w, x, c = SEGMENTS, TRUE).x
  PROVE  /\ k = 1 => d \in {y.at, StarOf(y)} \/ Reached(y, d, Site[d])
         /\ k > 1 => y.alive /\ Ahead(y, NextSegment(c), k - 1, d)
  <1>1. PICK path, clock : path[0] = x /\ clock[0] = c /\ Course(path, clock, k, d)
    BY DEF Ahead
  <1>2. 0 \in 0..(k - 1)
    OBVIOUS
  <1>3. /\ x \in ShipRec /\ Good(x) /\ x.dest = d /\ path[1] = Copy(x, c = SEGMENTS)
        /\ clock[1] = NextSegment(c)
    <2>1. 0 + 1 = 1
      OBVIOUS
    <2> QED BY <1>1, <1>2, <2>1 DEF Course
  <1> DEFINE z == path[1]
  <1>4. Led(x, z) /\ Follows(x, z, y)
    <2>1. (c = SEGMENTS) \in BOOLEAN
      OBVIOUS
    <2> QED BY <1>3, <2>1, CopyOfShip
  <1>5. ASSUME k = 1 PROVE d \in {y.at, StarOf(y)} \/ Reached(y, d, Site[d])
    <2>1. z.dest = None \/ Reached(z, d, Site[d])
      BY <1>1, <1>5 DEF Course
    <2> HIDE DEF z
    <2>2. d # None
      BY Places
    <2>3. CASE y = z
      BY <1>3, <1>4, <2>1, <2>2, <2>3 DEF Led
    <2>4. CASE z.dest = None /\ y.at = x.dest
      BY <1>3, <2>4
    <2>5. CASE z = x /\ y.pos = x.pos
      <3>1. Reached(x, d, Site[d])
        BY <1>3, <2>1, <2>2, <2>5
      <3>2. Reached(y, d, Site[d])
        BY <2>5, <3>1 DEF Reached
      <3> QED BY <3>2
    <2> QED BY <1>4, <2>3, <2>4, <2>5 DEF Follows, Arrives
  <1>6. ASSUME k > 1 PROVE y.alive /\ Ahead(y, NextSegment(c), k - 1, d)
    <2>1. 1 \in 0..(k - 1) /\ 0 \in 0..(k - 2) /\ 0 + 1 = 1
      BY <1>6
    <2>2. z.alive /\ z.dest = d /\ ~(z.fuel = x.fuel /\ ~z.on)
      BY <1>1, <2>1 DEF Course
    <2>3. y = z
      <3> HIDE DEF z
      <3>1. z.dest # None
        BY <2>2, Places
      <3> QED BY <1>4, <2>2, <3>1 DEF Follows, Arrives
    <2> DEFINE p == [i \in 0..(k - 1) |-> path[i + 1]]
               q == [i \in 0..(k - 1) |-> clock[i + 1]]
    <2>4. ASSUME NEW i \in 0..(k - 1) PROVE p[i] = path[i + 1] /\ q[i] = clock[i + 1]
      OBVIOUS
    <2>5. p[0] = y /\ q[0] = NextSegment(c)
      <3>1. 0 \in 0..(k - 1)
        BY <1>2
      <3>2. p[0] = path[0 + 1] /\ q[0] = clock[0 + 1]
        BY <2>4, <3>1
      <3> HIDE DEF p, q
      <3> QED BY <1>3, <2>1, <2>3, <3>2
    <2> HIDE DEF p, q
    <2>6. ASSUME NEW i \in 0..(k - 1 - 1)
          PROVE  /\ p[i] \in ShipRec /\ Good(p[i]) /\ p[i].alive /\ p[i].dest = d
                 /\ p[i + 1] = Copy(p[i], q[i] = SEGMENTS) /\ q[i + 1] = NextSegment(q[i])
      <3>1. i \in 0..(k - 1) /\ i + 1 \in 0..(k - 1)
        OBVIOUS
      <3> QED BY <1>1, <2>4, <3>1 DEF Course
    <2>7. ASSUME NEW i \in 0..(k - 1 - 2) PROVE ~(p[i + 1].fuel = p[i].fuel /\ ~p[i + 1].on)
      <3>1. i \in 0..(k - 1) /\ i + 1 \in 0..(k - 1) /\ i + 1 \in 0..(k - 2)
        OBVIOUS
      <3> QED BY <1>1, <2>4, <3>1 DEF Course
    <2>8. p[k - 1] = path[k]
      <3>1. k - 1 \in 0..(k - 1) /\ k - 1 + 1 = k
        OBVIOUS
      <3> QED BY <2>4, <3>1
    <2>9. Course(p, q, k - 1, d)
      BY <1>1, <2>6, <2>7, <2>8 DEF Course
    <2> QED BY <2>2, <2>3, <2>5, <2>9 DEF Ahead
  <1> QED BY <1>5, <1>6

(* The loop of a trip: it runs for n turns and then stands still.          *)
LEMMA TripRun ==
  ASSUME NEW x, NEW d, NEW f, f = Trip(f, x, d, MaxTrip)
  PROVE  LET k == f[MaxTrip].n
         IN  /\ k \in Nat /\ f[k] = f[MaxTrip] /\ f[0] = TripZero(x, d)
             /\ \A i \in 0..(k - 1) :
                  ~f[i].there /\ ~f[i].stuck /\ f[i + 1] = TripStep(f[i], GoalSite(World, d))
  <1> DEFINE site == GoalSite(World, d)
             Q(n) == /\ f[n].n \in 0..n /\ f[f[n].n] = f[n]
                     /\ f[n].there \/ f[n].stuck \/ f[n].n = n
                     /\ \A i \in 0..(f[n].n - 1) :
                          ~f[i].there /\ ~f[i].stuck /\ f[i + 1] = TripStep(f[i], site)
             G == {n \in 0..MaxTrip : Q(n)}
  <1>1. f[0] = TripZero(x, d)
    <2>1. 0 \in 0..MaxTrip
      BY Numbers
    <2> QED BY <2>1 DEF Trip
  <1>2. 0 \in G
    <2>1. f[0].n = 0
      BY <1>1 DEF TripZero
    <2> QED BY <2>1, Numbers
  <1>3. ASSUME NEW n \in 1..MaxTrip, n - 1 \in G PROVE n \in G
    <2> DEFINE t == f[n - 1]
    <2>1. f[n] = TripNext(t, d)
      <3>1. n \in 0..MaxTrip /\ n # 0
        OBVIOUS
      <3> QED BY <3>1 DEF Trip
    <2>2. Q(n - 1) /\ n \in 0..MaxTrip
      BY <1>3
    <2>3. CASE t.there \/ t.stuck
      <3>1. f[n] = f[n - 1]
        BY <2>1, <2>3 DEF TripNext
      <3>2. f[n].n \in 0..n
        BY <2>2, <3>1
      <3>3. Q(n)
        BY <2>2, <2>3, <3>1, <3>2
      <3> QED BY <2>2, <3>3
    <2>4. CASE ~(t.there \/ t.stuck)
      <3>1. f[n] = TripStep(t, site)
        BY <2>1, <2>4 DEF TripNext
      <3>2. t.n = n - 1
        BY <2>2, <2>4
      <3>3. f[n].n = n
        <4>1. f[n].n = t.n + 1
          BY <3>1 DEF TripStep
        <4> QED BY <3>2, <4>1
      <3>4. ASSUME NEW i \in 0..(n - 1)
            PROVE ~f[i].there /\ ~f[i].stuck /\ f[i + 1] = TripStep(f[i], site)
        <4>1. CASE i = n - 1
          <5>1. i + 1 = n
            BY <4>1
          <5> QED BY <2>4, <3>1, <4>1, <5>1
        <4>2. CASE i # n - 1
          <5>1. i \in 0..(t.n - 1)
            BY <3>2, <4>2
          <5> QED BY <2>2, <5>1
        <4> QED BY <4>1, <4>2
      <3>5. Q(n)
        BY <3>3, <3>4
      <3> QED BY <2>2, <3>5
    <2> QED BY <2>3, <2>4
  <1>4. \A n \in 0..MaxTrip : n \in G
    <2> HIDE DEF G
    <2> QED BY <1>2, <1>3, Numbers, CountUp
  <1>5. MaxTrip \in G
    <2> HIDE DEF G
    <2> QED BY <1>4, Numbers
  <1> QED BY <1>1, <1>5

(* One turn of the loop, for a ship that makes for a place.                *)
LEMMA TripLeads ==
  ASSUME GoodWorld(World), Routed, NEW t, t.w = World, t.x \in ShipRec, Good(t.x),
         t.x.dest \in Body, NEW site, NEW u, u = TripStep(t, site)
  PROVE  /\ u.w = World /\ u.x = Copy(t.x, t.seg = SEGMENTS) /\ u.x \in ShipRec /\ Good(u.x)
         /\ Led(t.x, u.x) /\ u.there = Reached(u.x, u.x.dest, site)
         /\ u.seg = NextSegment(t.seg)
         /\ u.stuck = (~u.there /\ u.x.fuel = t.x.fuel /\ ~u.x.on)
  <1> DEFINE m == MoveShip(t.w, t.x, t.seg = SEGMENTS, FALSE)
  <1>1. /\ u.w = m.w /\ u.x = m.x /\ u.there = Reached(m.x, m.x.dest, site)
        /\ u.seg = (IF t.seg = SEGMENTS THEN 1 ELSE t.seg + 1)
        /\ u.stuck = (~Reached(m.x, m.x.dest, site) /\ m.x.fuel = t.x.fuel /\ ~m.x.on)
    <2> HIDE DEF m
    <2>1. TripStep(t, site) =
            [w |-> m.w, x |-> m.x, n |-> t.n + 1, there |-> Reached(m.x, m.x.dest, site),
             seg |-> IF t.seg = SEGMENTS THEN 1 ELSE t.seg + 1,
             stuck |-> ~Reached(m.x, m.x.dest, site) /\ m.x.fuel = t.x.fuel /\ ~m.x.on]
      BY Zenon DEF TripStep, m
    <2> QED BY <2>1
  <1>2. (t.seg = SEGMENTS) \in BOOLEAN /\ World \in WorldRec
    BY DEF GoodWorld
  <1>3. Moved(World, t.x, m, t.seg = SEGMENTS, FALSE)
    <2>1. m = MoveShip(World, t.x, t.seg = SEGMENTS, FALSE)
      OBVIOUS
    <2> HIDE DEF m
    <2> QED BY <1>2, <2>1, MoveShipFlies
  <1>4. m.x = Copy(t.x, t.seg = SEGMENTS) /\ Led(t.x, Copy(t.x, t.seg = SEGMENTS))
    BY <1>2, CopyOfShip
  <1> HIDE DEF m
  <1>5. m.w = World /\ m.x \in ShipRec /\ Good(m.x)
    BY <1>3 DEF Moved, Flew, Good, Fit
  <1> QED BY <1>1, <1>4, <1>5 DEF NextSegment

(* The forecast of a ship under way to d is a course it can fly.           *)
LEMMA TripPromise ==
  ASSUME GoodWorld(World), Routed, NEW x \in ShipRec, Good(x), x.alive, ~x.docked,
         NEW d \in Body, x.dest = d, DoTrip(x, d).there
  PROVE  /\ DoTrip(x, d).n \in Nat /\ DoTrip(x, d).n > 0
         /\ Ahead(x, nsegments_done, DoTrip(x, d).n, d)
  <1>1. PICK f : DoTrip(x, d) = f[MaxTrip] /\ f = Trip(f, x, d, MaxTrip)
    BY TripRecursion
  <1> DEFINE k == f[MaxTrip].n
             site == GoalSite(World, d)
             Q(i) == /\ f[i].w = World /\ f[i].x \in ShipRec /\ Good(f[i].x) /\ f[i].x.alive
                     /\ i < k => f[i].x.dest = d
             G == {i \in 0..k : Q(i)}
  <1>2. /\ k \in Nat /\ f[k] = f[MaxTrip] /\ f[0] = TripZero(x, d)
        /\ \A i \in 0..(k - 1) :
             ~f[i].there /\ ~f[i].stuck /\ f[i + 1] = TripStep(f[i], site)
    BY <1>1, TripRun
  <1>3. f[k].there
    BY <1>1, <1>2
  <1>4. site = Site[d] /\ d # None
    BY Places DEF GoalSite
  <1> HIDE DEF k, site
  <1>5. f[0].x = x /\ f[0].w = World /\ f[0].seg = nsegments_done /\ ~f[0].there
    <2>1. TripStart(x, d) = x
      <3>1. TripStart(x, d) = SetDestination(x, d)
        BY DEF TripStart
      <3>2. (x.on /\ d \in Body) = x.on
        BY Fields
      <3>3. SetDestination(x, d) = [x EXCEPT !.dest = d, !.on = x.on]
        BY <3>2, Zenon DEF SetDestination
      <3> QED BY <3>1, <3>3 DEF ShipRec
    <2> QED BY <1>2, <2>1 DEF TripZero
  <1>6. k > 0
    BY <1>2, <1>3, <1>5
  <1>7. ASSUME NEW i \in 0..(k - 1), Q(i)
        PROVE  /\ f[i + 1].x = Copy(f[i].x, f[i].seg = SEGMENTS)
               /\ f[i + 1].seg = NextSegment(f[i].seg)
               /\ Q(i + 1)
               /\ f[i + 1].there = Reached(f[i + 1].x, f[i + 1].x.dest, site)
               /\ i + 1 < k => ~(f[i + 1].x.fuel = f[i].x.fuel /\ ~f[i + 1].x.on)
               /\ f[i + 1].x.dest \in {d, None}
    <2> DEFINE u == f[i + 1]
               t == f[i]
    <2>1. t.w = World /\ t.x \in ShipRec /\ Good(t.x) /\ t.x.dest = d /\ t.x.alive
      BY <1>2, <1>7
    <2>2. u = TripStep(t, site)
      BY <1>2
    <2>3. i + 1 < k => ~u.there /\ ~u.stuck
      <3>1. i + 1 < k => i + 1 \in 0..(k - 1)
        BY <1>2
      <3> QED BY <1>2, <3>1
    <2> HIDE DEF u, t
    <2>4. /\ u.w = World /\ u.x = Copy(t.x, t.seg = SEGMENTS) /\ u.x \in ShipRec /\ Good(u.x)
          /\ Led(t.x, u.x) /\ u.there = Reached(u.x, u.x.dest, site)
          /\ u.seg = NextSegment(t.seg)
          /\ u.stuck = (~u.there /\ u.x.fuel = t.x.fuel /\ ~u.x.on)
      BY <2>1, <2>2, TripLeads
    <2>5. u.x.alive /\ u.x.dest \in {d, None}
      BY <2>1, <2>4 DEF Led
    <2>6. i + 1 < k => u.x.dest = d
      <3>1. u.x.dest = None => u.there
        <4>1. None \notin Star /\ None \notin Planet /\ None \notin Ship
          BY Places
        <4>2. Reached(u.x, None, site)
          BY <4>1 DEF Reached
        <4> QED BY <2>4, <4>2
      <3> QED BY <2>3, <2>5, <3>1
    <2>7. i + 1 < k => ~(u.x.fuel = t.x.fuel /\ ~u.x.on)
      BY <2>3, <2>4
    <2> QED BY <2>4, <2>5, <2>6, <2>7 DEF u, t
  <1>8. \A i \in 0..k : i \in G
    <2>1. 0 \in G
      BY <1>2, <1>5
    <2>2. ASSUME NEW n \in 1..k, n - 1 \in G PROVE n \in G
      <3>1. n - 1 \in 0..(k - 1) /\ Q(n - 1) /\ n - 1 + 1 = n /\ n \in 0..k
        BY <1>2, <2>2
      <3>2. Q(n - 1 + 1)
        BY <1>7, <3>1
      <3> QED BY <3>1, <3>2
    <2> HIDE DEF G
    <2> QED BY <1>2, <2>1, <2>2, CountUp
  <1> DEFINE path == [i \in 0..k |-> f[i].x]
             clock == [i \in 0..k |-> f[i].seg]
  <1>9. ASSUME NEW i \in 0..k PROVE path[i] = f[i].x /\ clock[i] = f[i].seg /\ Q(i)
    BY <1>8
  <1> HIDE DEF path, clock
  <1>10. ASSUME NEW i \in 0..(k - 1)
         PROVE  /\ path[i] \in ShipRec /\ Good(path[i]) /\ path[i].alive /\ path[i].dest = d
                /\ path[i + 1] = Copy(path[i], clock[i] = SEGMENTS)
                /\ clock[i + 1] = NextSegment(clock[i])
    <2>1. i \in 0..k /\ i + 1 \in 0..k /\ i < k
      BY <1>2
    <2> QED BY <1>7, <1>9, <2>1
  <1>11. ASSUME NEW i \in 0..(k - 2) PROVE ~(path[i + 1].fuel = path[i].fuel /\ ~path[i + 1].on)
    <2>1. i \in 0..k /\ i + 1 \in 0..k /\ i \in 0..(k - 1) /\ i + 1 < k
      BY <1>2
    <2> QED BY <1>7, <1>9, <2>1
  <1>12. path[k].dest = None \/ Reached(path[k], d, Site[d])
    <2>1. k - 1 \in 0..(k - 1) /\ k - 1 \in 0..k /\ k - 1 + 1 = k /\ k \in 0..k
      BY <1>2, <1>6
    <2>2. Q(k - 1)
      BY <1>9, <2>1
    <2>3. f[k].there = Reached(f[k].x, f[k].x.dest, site) /\ f[k].x.dest \in {d, None}
      BY <1>7, <2>1, <2>2
    <2> QED BY <1>3, <1>4, <1>9, <2>1, <2>3
  <1>13. Course(path, clock, k, d)
    BY <1>10, <1>11, <1>12 DEF Course
  <1>14. path[0] = x /\ clock[0] = nsegments_done
    <2>1. 0 \in 0..k
      BY <1>2
    <2> QED BY <1>5, <1>9, <2>1
  <1>15. Ahead(x, nsegments_done, k, d)
    BY <1>13, <1>14 DEF Ahead
  <1> QED BY <1>1, <1>2, <1>6, <1>15 DEF k

-----------------------------------------------------------------------------
(* No step breaks a promise. *)

(* Nothing is promised at the start.                                       *)
LEMMA PromisesInit ==
  ASSUME Init
  PROVE  Promises
  <1>1. NoForecast \in [to : Body \cup {None}, left : Nat] /\ NoForecast.left = 0
    BY DEF NoForecast
  <1>2. forecast = [s \in Ship |-> NoForecast]
    BY DEF Init
  <1>3. ASSUME NEW s \in Ship PROVE Promised(s)
    BY <1>1, <1>2 DEF Promised
  <1> QED BY <1>1, <1>2, <1>3 DEF Promises

(* An order makes the forecast of its ship void and leaves the others be.  *)
LEMMA CommandPromises ==
  ASSUME IInv, Promises, NEW s \in Ship, NEW x, Command(s, x)
  PROVE  Promises'
  <1>1. /\ forecast' = [forecast EXCEPT ![s] = NoForecast]
        /\ ship' = [ship EXCEPT ![s] = x] /\ nsegments_done' = nsegments_done
    BY DEF Command
  <1>2. NoForecast \in [to : Body \cup {None}, left : Nat] /\ NoForecast.left = 0
    BY DEF NoForecast
  <1>3. forecast \in [Ship -> [to : Body \cup {None}, left : Nat]]
    BY DEF Promises
  <1>4. ship \in [Ship -> ShipRec]
    BY ShipFacts
  <1>5. ASSUME NEW t \in Ship PROVE Promised(t)'
    <2>1. CASE t = s
      <3>1. forecast'[t].left = 0
        BY <1>1, <1>2, <1>3, <2>1
      <3> QED BY <3>1 DEF Promised
    <2>2. CASE t # s
      <3>1. forecast'[t] = forecast[t] /\ ship'[t] = ship[t]
        BY <1>1, <1>3, <1>4, <2>2
      <3>2. Promised(t)
        BY DEF Promises
      <3> QED BY <1>1, <3>1, <3>2 DEF Promised
    <2> QED BY <2>1, <2>2
  <1>6. forecast' \in [Ship -> [to : Body \cup {None}, left : Nat]]
    BY <1>1, <1>2, <1>3
  <1> QED BY <1>5, <1>6 DEF Promises

(* What the fuel command answers is what will be.                          *)
LEMMA ForecastPromises ==
  ASSUME IInv, Promises, NEW s \in Ship, NEW d \in Body \cup Ship, Forecast(s, d)
  PROVE  Promises'
  <1> DEFINE trip == DoTrip(ship[s], d)
             sure == trip.there /\ HasSight(ship[s]) /\ d = ship[s].dest /\ d \in Body
             told == IF sure THEN [to |-> d, left |-> trip.n] ELSE NoForecast
  <1>1. /\ MayForecast(s, d) /\ forecast' = [forecast EXCEPT ![s] = told]
        /\ ship' = ship /\ nsegments_done' = nsegments_done
    BY DEF Forecast
  <1>2. ship[s] \in ShipRec /\ Good(ship[s])
    BY ShipFacts
  <1>3. sure => /\ trip.n \in Nat /\ trip.n > 0 /\ ship[s].alive
                /\ Ahead(ship[s], nsegments_done, trip.n, d)
    <2> SUFFICES ASSUME sure
                 PROVE /\ trip.n \in Nat /\ trip.n > 0 /\ ship[s].alive
                       /\ Ahead(ship[s], nsegments_done, trip.n, d)
      OBVIOUS
    <2>1. ship[s].alive /\ ~ship[s].docked
      BY <1>1, <1>2, Fields DEF MayForecast
    <2> QED BY <1>2, <2>1, TripPromise DEF IInv
  <1> HIDE DEF trip
  <1>4. NoForecast \in [to : Body \cup {None}, left : Nat] /\ NoForecast.left = 0
    BY DEF NoForecast
  <1>5. told \in [to : Body \cup {None}, left : Nat]
    BY <1>3, <1>4
  <1>6. told.left > 0 => sure /\ told.to = d /\ told.left = trip.n
    BY <1>3, <1>4
  <1> HIDE DEF told
  <1>7. forecast \in [Ship -> [to : Body \cup {None}, left : Nat]]
    BY DEF Promises
  <1>8. forecast'[s] = told /\ \A t \in Ship \ {s} : forecast'[t] = forecast[t]
    BY <1>1, <1>7
  <1>9. ASSUME NEW t \in Ship PROVE Promised(t)'
    <2>1. CASE t = s
      <3>1. told.left > 0 => /\ ship[s].alive /\ HasSight(ship[s]) /\ told.to \in Body
                             /\ Ahead(ship[s], nsegments_done, told.left, told.to)
        BY <1>3, <1>6
      <3> QED BY <1>1, <1>8, <2>1, <3>1 DEF Promised
    <2>2. CASE t # s
      <3>1. Promised(t) /\ forecast'[t] = forecast[t]
        BY <1>8, <2>2 DEF Promises
      <3> QED BY <1>1, <3>1 DEF Promised
    <2> QED BY <2>1, <2>2
  <1>10. forecast' \in [Ship -> [to : Body \cup {None}, left : Nat]]
    BY <1>1, <1>5, <1>7
  <1> QED BY <1>9, <1>10 DEF Promises

(* What a segment does to a ship whose arrival was forecast.               *)
LEMMA SegmentLeads ==
  ASSUME IInv, Promises, NEW t \in Ship, forecast[t].left > 0, Segment
  PROVE  LET k == forecast[t].left
             d == forecast[t].to
         IN  /\ k = 1 => d \in {ship'[t].at, StarOf(ship'[t])} \/ Reached(ship'[t], d, Site[d])
             /\ k > 1 => /\ ship'[t].alive /\ HasSight(ship'[t])
                         /\ Ahead(ship'[t], nsegments_done', k - 1, d)
  <1> DEFINE update == nsegments_done = SEGMENTS
             v == AfterSegment(update)
             S == {s \in Ship : ship[s].alive}
             k == forecast[t].left
             d == forecast[t].to
  <1>1. ship' = v.ship /\ nsegments_done' = NextSegment(nsegments_done)
    <2>1. PICK u \in {nsegments_done = SEGMENTS} :
            \E w \in {AfterSegment(u)} : Tick /\ ship' = w.ship
      BY Zenon DEF Segment
    <2>2. PICK w \in {AfterSegment(u)} : Tick /\ ship' = w.ship
      BY <2>1, Zenon
    <2>3. u = update
      BY <2>1
    <2>4. w = v
      BY <2>2, <2>3
    <2> HIDE DEF update, v
    <2> QED BY <2>2, <2>4 DEF Tick, NextSegment
  <1>2. SegmentOf(S, v, update)
    <2>1. update \in BOOLEAN
      OBVIOUS
    <2> HIDE DEF update
    <2> QED BY <2>1, SegmentFlies DEF IInv
  <1>3. /\ k \in Nat /\ d \in Body /\ Ahead(ship[t], nsegments_done, k, d)
        /\ ship[t].alive /\ HasSight(ship[t])
    BY DEF Promises, Promised
  <1>4. Prepared(ship[t]) = ship[t]
    BY <1>3, PreparedRecord, ShipFacts
  <1> HIDE DEF v
  <1>5. PICK w : GoodWorld(w) /\ v.ship[t] = MoveShip(w, ship[t], update, TRUE).x
    <2>1. t \in S
      BY <1>3
    <2>2. PICK w : GoodWorld(w) /\ v.ship[t] = MoveShip(w, Prepared(ship[t]), update, TRUE).x
      BY <1>2, <2>1, Zenon DEF SegmentOf
    <2> QED BY <1>4, <2>2
  <1>6. HasSight(v.ship[t])
    <2>1. Kept(ship[t], v.ship[t])
      BY <1>2, <1>3 DEF SegmentOf
    <2> QED BY <1>3, <2>1 DEF Kept, HasSight
  <1>7. /\ k = 1 => d \in {v.ship[t].at, StarOf(v.ship[t])} \/ Reached(v.ship[t], d, Site[d])
        /\ k > 1 => v.ship[t].alive /\ Ahead(v.ship[t], NextSegment(nsegments_done), k - 1, d)
    <2>1. w \in WorldRec /\ Routed
      BY <1>5 DEF GoodWorld, IInv
    <2> HIDE DEF k, d
    <2> DEFINE y == v.ship[t]
    <2>2. y = MoveShip(w, ship[t], nsegments_done = SEGMENTS, TRUE).x
      BY <1>5
    <2>3. k > 0
      BY DEF k
    <2> HIDE DEF y
    <2>4. /\ k = 1 => d \in {y.at, StarOf(y)} \/ Reached(y, d, Site[d])
          /\ k > 1 => y.alive /\ Ahead(y, NextSegment(nsegments_done), k - 1, d)
      BY <1>3, <2>1, <2>2, <2>3, CourseStep
    <2> QED BY <2>4 DEF y
  <1> QED BY <1>1, <1>6, <1>7

(* A segment keeps the promises: each is a segment nearer.                 *)
LEMMA SegmentPromises ==
  ASSUME IInv, Promises, Segment
  PROVE  Promises'
  <1>1. forecast' = [s \in Ship |->
           IF forecast[s].left > 1 THEN [forecast[s] EXCEPT !.left = @ - 1] ELSE NoForecast]
    <2>1. PICK u \in {nsegments_done = SEGMENTS} :
            \E w \in {AfterSegment(u)} : forecast' = [s \in Ship |->
              IF forecast[s].left > 1 THEN [forecast[s] EXCEPT !.left = @ - 1] ELSE NoForecast]
      BY Zenon DEF Segment
    <2> QED BY <2>1
  <1>2. NoForecast \in [to : Body \cup {None}, left : Nat] /\ NoForecast.left = 0
    BY DEF NoForecast
  <1>3. ASSUME NEW t \in Ship
        PROVE  forecast'[t] \in [to : Body \cup {None}, left : Nat] /\ Promised(t)'
    <2> DEFINE h == forecast[t]
    <2>1. h \in [to : Body \cup {None}, left : Nat]
      BY DEF Promises
    <2>2. forecast'[t] = IF h.left > 1 THEN [h EXCEPT !.left = @ - 1] ELSE NoForecast
      BY <1>1
    <2> HIDE DEF h
    <2>3. CASE h.left > 1
      <3>1. /\ forecast'[t] \in [to : Body \cup {None}, left : Nat]
            /\ forecast'[t].to = h.to /\ forecast'[t].left = h.left - 1
        BY <2>1, <2>2, <2>3
      <3>2. h.to \in Body /\ h.left > 0
        <4>1. h.left > 0
          BY <2>1, <2>3
        <4> QED BY <4>1 DEF Promises, Promised, h
      <3>3. ship'[t].alive /\ HasSight(ship'[t]) /\ Ahead(ship'[t], nsegments_done', h.left - 1, h.to)
        BY <2>3, <3>2, SegmentLeads DEF h
      <3>4. HasSight(ship[t])' = HasSight(ship'[t])
        BY DEF HasSight
      <3> QED BY <3>1, <3>2, <3>3, <3>4 DEF Promised
    <2>4. CASE ~(h.left > 1)
      <3>1. forecast'[t] = NoForecast
        BY <2>2, <2>4
      <3> QED BY <1>2, <3>1 DEF Promised
    <2> QED BY <2>3, <2>4
  <1>4. forecast' \in [Ship -> [to : Body \cup {None}, left : Nat]]
    BY <1>1, <1>3
  <1> QED BY <1>3, <1>4 DEF Promises

(* Only a segment moves the clock; what else happens is an order, a        *)
(* forecast or a change of a route.                                        *)
LEMMA StepKinds ==
  ASSUME [Next]_vars
  PROVE  \/ Segment
         \/ \E s \in Ship : \E x : Command(s, x)
         \/ \E s \in Ship, d \in Body \cup Ship : Forecast(s, d)
         \/ UNCHANGED <<ship, nsegments_done, forecast>>
  <1> DEFINE order == \E s \in Ship : \E x : Command(s, x)
             told == \E s \in Ship, d \in Body \cup Ship : Forecast(s, d)
             same == ship' = ship /\ nsegments_done' = nsegments_done /\ forecast' = forecast
  <1> SUFFICES Segment \/ order \/ told \/ same
    OBVIOUS
  <1>1. CASE UNCHANGED vars
    BY <1>1 DEF vars
  <1>2. ASSUME NEW s \in Ship,
               \/ \E d \in Body \cup Ship \cup {None} : OrderDestination(s, d)
               \/ OrderJump(s) \/ OrderJumpOff(s)
               \/ \E b \in {-1, 1}, n \in Turns : OrderNavigate(s, b, n)
               \/ \E v \in Throttle : OrderSpeed(s, v)
        PROVE order
    BY <1>2, Zenon DEF OrderDestination, OrderJump, OrderJumpOff, OrderNavigate, OrderSpeed
  <1>3. ASSUME NEW s \in Ship,
               \/ OrderEvade(s) \/ OrderMerchant(s) \/ Mount(s) \/ Dismount(s)
               \/ Land(s) \/ Launch(s) \/ LoseCrew(s) \/ LoseShip(s)
        PROVE order
    BY <1>3, Zenon
       DEF OrderEvade, OrderMerchant, Mount, Dismount, Land, Launch, LoseCrew, LoseShip
  <1>4. ASSUME NEW p \in Planet,
               \/ \E on \in BOOLEAN : RouteActivate(p, on)
               \/ \E q \in Planet : RouteDestination(p, q)
               \/ \E alien \in BOOLEAN : RouteLand(p, alien)
               \/ \E load, unload \in BOOLEAN : RouteTrade(p, load, unload)
        PROVE same
    BY <1>4, Zenon DEF RouteActivate, RouteDestination, RouteLand, RouteTrade, Route
  <1>5. ASSUME NEW s \in Ship, \E d \in Body \cup Ship : Forecast(s, d) PROVE told
    BY <1>5
  <1> HIDE DEF order, told, same
  <1>6. CASE Next
    <2>1. CASE Segment
      BY <2>1
    <2>2. CASE ~Segment
      <3>1. CASE \E s \in Ship :
                   \/ \E d \in Body \cup Ship \cup {None} : OrderDestination(s, d)
                   \/ OrderJump(s) \/ OrderJumpOff(s)
                   \/ \E b \in {-1, 1}, n \in Turns : OrderNavigate(s, b, n)
                   \/ \E v \in Throttle : OrderSpeed(s, v)
                   \/ OrderEvade(s) \/ OrderMerchant(s) \/ Mount(s) \/ Dismount(s)
                   \/ Land(s) \/ Launch(s) \/ LoseCrew(s) \/ LoseShip(s)
                   \/ \E d \in Body \cup Ship : Forecast(s, d)
        BY <1>2, <1>3, <1>5, <3>1
      <3>2. CASE \E p \in Planet :
                   \/ \E on \in BOOLEAN : RouteActivate(p, on)
                   \/ \E q \in Planet : RouteDestination(p, q)
                   \/ \E alien \in BOOLEAN : RouteLand(p, alien)
                   \/ \E load, unload \in BOOLEAN : RouteTrade(p, load, unload)
        BY <1>4, <3>2
      <3> QED BY <1>6, <2>2, <3>1, <3>2, Zenon DEF Next
    <2> QED BY <2>1, <2>2
  <1>7. CASE ~Next
    BY <1>1, <1>7
  <1> QED BY <1>6, <1>7

(* Every step keeps the promises.                                          *)
LEMMA PromisesStep ==
  ASSUME IInv, Promises, [Next]_vars
  PROVE  Promises'
  <1>1. CASE UNCHANGED <<ship, nsegments_done, forecast>>
    <2>1. ASSUME NEW s \in Ship PROVE Promised(s)'
      <3>1. Promised(s)
        BY DEF Promises
      <3> QED BY <1>1, <3>1 DEF Promised
    <2> QED BY <1>1, <2>1 DEF Promises
  <1> QED BY <1>1, StepKinds, SegmentPromises, CommandPromises, ForecastPromises

(* ForecastKept: the fuel command flies a copy of the ship with the code   *)
(* of the turn (do_trip, moveship), and what it promises comes true: a     *)
(* ship with a crew or a probe, left alone and on its way to the place it  *)
(* was asked about, has arrived in the segment that was named, whatever    *)
(* others do meanwhile.                                                    *)
THEOREM ForecastsComeTrue == Spec => ForecastKept
<1> DEFINE Arrived(s) == \/ forecast[s].to \in {ship'[s].at, StarOf(ship'[s])}
                         \/ Reached(ship'[s], forecast[s].to, Site[forecast[s].to])
           Kept1 == \A s \in Ship :
                      forecast[s].left = 1 /\ nsegments_done' # nsegments_done => Arrived(s)
<1>1. Init => IInv /\ Promises
  BY InitInv, PromisesInit
<1>2. IInv /\ Promises /\ [Next]_vars => IInv' /\ Promises'
  BY InvStep, PromisesStep
<1>3. IInv /\ Promises /\ [Next]_vars => [Kept1]_vars
  <2> SUFFICES ASSUME IInv, Promises, [Next]_vars, NEW s \in Ship,
                      forecast[s].left = 1, nsegments_done' # nsegments_done
               PROVE Arrived(s)
    OBVIOUS
  <2>1. Segment
    <3>1. ASSUME NEW t \in Ship, NEW x, Command(t, x) PROVE nsegments_done' = nsegments_done
      BY <3>1 DEF Command
    <3>2. ASSUME NEW t \in Ship, NEW d \in Body \cup Ship, Forecast(t, d)
          PROVE nsegments_done' = nsegments_done
      BY <3>2 DEF Forecast
    <3> QED BY <3>1, <3>2, StepKinds
  <2> QED BY <2>1, SegmentLeads
<1> QED BY <1>1, <1>2, <1>3, PTL DEF Spec, ForecastKept
=============================================================================
