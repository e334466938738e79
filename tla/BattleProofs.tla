---------------------------- MODULE BattleProofs ----------------------------
(***************************************************************************)
(* What holds of combat for any ships, orders, guns and dice: a volley is  *)
(* paid for in full, a laser has its crystal, nobody dies twice, escorts   *)
(* and ABMs get their shot, and everybody who is gone was lost by somebody. *)
(*                                                                         *)
(* BattleInv says that the present world is one of Worlds, in which all of *)
(* this holds of the log so far.  The rest is about handlers, each a set   *)
(* of worlds that may come of a world.  Follows(w, v) says that v is sound *)
(* if w is, counts the same people, the lost included, and that no ship    *)
(* changes sides or comes back; Hit adds who took part, Quiet that no      *)
(* escort was asked.  Keeps is what boarding leaves alone, Passes what a   *)
(* stage of the turn does, Pursues what its ABMs do and Lands its missiles. *)
(* One section per handler, from a volley up to a turn, shows which of     *)
(* them holds of its worlds.                                               *)
(*                                                                         *)
(* A handler that asks every ship in turn is a recursive function over the *)
(* numbers of the ships.  SweepExists shows that such a function exists    *)
(* (of CHOOSE it has to be shown), and Climb that what holds of the start  *)
(* and is kept by each step holds at the end; both are about functions and *)
(* sets, since an operator cannot be a parameter here.                     *)
(***************************************************************************)
EXTENDS Battle, SumTheorems, TLAPS

-----------------------------------------------------------------------------
(* Sound worlds, and what may happen to one.                               *)

\* No ship has died twice, and every volley is paid for.
Volley == [by : Ship, strength : Nat, paid : Nat, cold : BOOLEAN]
Paid == {x \in Volley : x.paid = x.strength \/ x.cold}
Report == [shots : SUBSET Paid, answered : SUBSET Ship, quarry : Ship \cup {None},
           shooter : Ship \cup {None}, lost : Nat, landed : SUBSET Ship, twice : {FALSE}]
Worlds == [ship : Fleet, planet : Surface, AP : [Player -> Nat],
           engaged : SUBSET (Ship \X Ship), log : Report]

Census(w) == Souls(w.ship, w.planet) + w.log.lost

\* What combat may do to any ship.
Worn(x, y) ==
  /\ y.kind = x.kind /\ y.owner = x.owner /\ y.on = x.on /\ y.salvo = x.salvo /\ y.at = x.at
  /\ y.destruct <= x.destruct /\ (y.alive => x.alive)

\* A ship nobody fired at, and that did not fire: it may have lost its
\* destination or its charge.
Spared(x, y) ==
  /\ y.alive = x.alive /\ y.active = x.active /\ y.laser = x.laser /\ y.fire = x.fire
  /\ y.fuel = x.fuel /\ y.destruct = x.destruct /\ y.guns = x.guns /\ y.crew = x.crew
  /\ y.troops = x.troops /\ y.kind = x.kind

\* Its charge only with the charge's life.
Guards(w, v, e) ==
  \/ v.ship[e].prot = w.ship[e].prot
  \/ w.ship[e].prot \in Ship /\ ~v.ship[w.ship[e].prot].alive

\* v comes of w by what combat does to ships; nothing has landed.
Follows(w, v) ==
  /\ v \in Worlds /\ Census(v) = Census(w)
  /\ v.AP = w.AP /\ v.engaged = w.engaged /\ v.log.landed = w.log.landed
  /\ \A s \in Ship : Worn(w.ship[s], v.ship[s])

\* Only the ships of S take part.
Hit(w, v, S) ==
  /\ Follows(w, v)
  /\ v.planet = w.planet
  /\ v.log.quarry = w.log.quarry /\ v.log.shooter = w.log.shooter
  /\ w.log.answered \subseteq v.log.answered
  /\ \A s \in Ship \ S : Spared(w.ship[s], v.ship[s]) /\ Guards(w, v, s)

LEMMA WorldFields ==
  ASSUME NEW w \in Worlds
  PROVE  /\ w.ship \in [Ship -> Vessel]
         /\ \A s \in Ship : w.ship[s] \in Vessel /\ Lit(w.ship[s]) /\ w.ship[s].dest # s
         /\ w.planet \in Surface /\ w.AP \in [Player -> Nat]
         /\ w.engaged \in SUBSET (Ship \X Ship) /\ w.log \in Report
BY DEF Worlds, Fleet

LEMMA FollowsSelf ==
  ASSUME NEW w \in Worlds
  PROVE  Follows(w, w) /\ \A S \in SUBSET Ship : Hit(w, w, S)
<1>1. \A s \in Ship : Worn(w.ship[s], w.ship[s])
  BY WorldFields DEF Worn, Vessel
<1> QED BY <1>1 DEF Follows, Hit, Spared, Guards

LEMMA FollowsFollows ==
  ASSUME NEW w \in Worlds, NEW v, NEW u, Follows(w, v), Follows(v, u)
  PROVE  Follows(w, u)
<1>1. ASSUME NEW s \in Ship PROVE Worn(w.ship[s], u.ship[s])
  <2>1. v \in Worlds /\ u \in Worlds
    BY DEF Follows
  <2>2. w.ship[s] \in Vessel /\ v.ship[s] \in Vessel /\ u.ship[s] \in Vessel
    BY <2>1, WorldFields
  <2>3. \A x \in Vessel : x.destruct \in Nat
    BY DEF Vessel
  <2>4. Worn(w.ship[s], v.ship[s]) /\ Worn(v.ship[s], u.ship[s])
    BY DEF Follows
  <2> QED BY <2>2, <2>3, <2>4 DEF Worn
<1> QED BY <1>1 DEF Follows

LEMMA HitFollowsHit ==
  ASSUME NEW w \in Worlds, NEW v, NEW u, NEW S \in SUBSET Ship, NEW T \in SUBSET Ship,
         NEW R \in SUBSET Ship, Hit(w, v, S), Hit(v, u, T), S \cup T \subseteq R
  PROVE  Hit(w, u, R)
<1>1. Follows(w, u)
  BY FollowsFollows DEF Hit
<1>2. ASSUME NEW s \in Ship \ R PROVE Spared(w.ship[s], u.ship[s]) /\ Guards(w, u, s)
  <2>1. Spared(w.ship[s], v.ship[s]) /\ Spared(v.ship[s], u.ship[s])
    BY <1>2 DEF Hit
  <2>2. Guards(w, v, s) /\ Guards(v, u, s)
    BY <1>2 DEF Hit
  <2>3. \A q \in Ship : u.ship[q].alive => v.ship[q].alive
    BY DEF Hit, Follows, Worn
  <2>4. Guards(w, u, s)
    BY <2>2, <2>3 DEF Guards
  <2> QED BY <2>1, <2>4 DEF Spared
<1> QED BY <1>1, <1>2 DEF Hit

LEMMA HitMore ==
  ASSUME NEW w, NEW v, NEW S, NEW R, S \subseteq R, Hit(w, v, S)
  PROVE  Hit(w, v, R)
BY DEF Hit

-----------------------------------------------------------------------------
(* One ship, field by field.                                               *)

Flag == BOOLEAN
Amount == Nat
Course == Ship \cup {None, Ground}

LEMMA VesselFields ==
  ASSUME NEW r \in Vessel
  PROVE  /\ r.alive \in Flag /\ r.active \in Flag /\ r.laser \in Flag /\ r.on \in Flag
         /\ r.mounted \in Flag /\ r.refit \in Flag /\ r.cew \in Flag /\ r.damaged \in Flag
         /\ r.crew \in Nat /\ r.troops \in Nat /\ r.guns \in Nat /\ r.salvo \in Nat
         /\ r.destruct \in Nat /\ r.fuel \in Nat /\ r.fire \in Nat /\ r.crystals \in Nat
         /\ r.owner \in Player /\ r.prot \in Ship \cup {None} /\ r.dest \in Course
BY DEF Vessel, Flag, Course

LEMMA FlagEdits ==
  ASSUME NEW r \in Vessel, NEW x \in Flag
  PROVE  /\ [r EXCEPT !.alive = x] \in Vessel /\ [r EXCEPT !.active = x] \in Vessel
         /\ [r EXCEPT !.laser = x] \in Vessel /\ [r EXCEPT !.cew = x] \in Vessel
         /\ [r EXCEPT !.mounted = x] \in Vessel /\ [r EXCEPT !.damaged = x] \in Vessel
         /\ [r EXCEPT !.refit = x] \in Vessel /\ [r EXCEPT !.retaliate = x] \in Vessel
         /\ [r EXCEPT !.defense = x] \in Vessel /\ [r EXCEPT !.mode = x] \in Vessel
         /\ [r EXCEPT !.on = x] \in Vessel
<1>1. [r EXCEPT !.alive = x] \in Vessel  BY DEF Vessel, Flag
<1>2. [r EXCEPT !.active = x] \in Vessel  BY DEF Vessel, Flag
<1>3. [r EXCEPT !.laser = x] \in Vessel  BY DEF Vessel, Flag
<1>4. [r EXCEPT !.cew = x] \in Vessel  BY DEF Vessel, Flag
<1>5. [r EXCEPT !.mounted = x] \in Vessel  BY DEF Vessel, Flag
<1>6. [r EXCEPT !.damaged = x] \in Vessel  BY DEF Vessel, Flag
<1>7. [r EXCEPT !.refit = x] \in Vessel  BY DEF Vessel, Flag
<1>8. [r EXCEPT !.retaliate = x] \in Vessel  BY DEF Vessel, Flag
<1>9. [r EXCEPT !.defense = x] \in Vessel  BY DEF Vessel, Flag
<1>10. [r EXCEPT !.mode = x] \in Vessel  BY DEF Vessel, Flag
<1>11. [r EXCEPT !.on = x] \in Vessel  BY DEF Vessel, Flag
<1> QED
  BY <1>1, <1>2, <1>3, <1>4, <1>5, <1>6, <1>7, <1>8, <1>9, <1>10, <1>11

LEMMA AmountEdits ==
  ASSUME NEW r \in Vessel, NEW n \in Amount
  PROVE  /\ [r EXCEPT !.crew = n] \in Vessel /\ [r EXCEPT !.troops = n] \in Vessel
         /\ [r EXCEPT !.guns = n] \in Vessel /\ [r EXCEPT !.salvo = n] \in Vessel
         /\ [r EXCEPT !.destruct = n] \in Vessel /\ [r EXCEPT !.fuel = n] \in Vessel
         /\ [r EXCEPT !.fire = n] \in Vessel /\ [r EXCEPT !.crystals = n] \in Vessel
<1>1. [r EXCEPT !.crew = n] \in Vessel  BY DEF Vessel, Amount
<1>2. [r EXCEPT !.troops = n] \in Vessel  BY DEF Vessel, Amount
<1>3. [r EXCEPT !.guns = n] \in Vessel  BY DEF Vessel, Amount
<1>4. [r EXCEPT !.salvo = n] \in Vessel  BY DEF Vessel, Amount
<1>5. [r EXCEPT !.destruct = n] \in Vessel  BY DEF Vessel, Amount
<1>6. [r EXCEPT !.fuel = n] \in Vessel  BY DEF Vessel, Amount
<1>7. [r EXCEPT !.fire = n] \in Vessel  BY DEF Vessel, Amount
<1>8. [r EXCEPT !.crystals = n] \in Vessel  BY DEF Vessel, Amount
<1> QED BY <1>1, <1>2, <1>3, <1>4, <1>5, <1>6, <1>7, <1>8

LEMMA OtherEdits ==
  ASSUME NEW r \in Vessel
  PROVE  /\ \A d \in Course : [r EXCEPT !.dest = d] \in Vessel
         /\ \A q \in Ship \cup {None} : [r EXCEPT !.prot = q] \in Vessel
         /\ \A p \in Player : [r EXCEPT !.owner = p] \in Vessel
         /\ \A z \in Places : [r EXCEPT !.at = z] \in Vessel
<1>1. \A d \in Course : [r EXCEPT !.dest = d] \in Vessel  BY DEF Vessel, Course
<1>2. \A q \in Ship \cup {None} : [r EXCEPT !.prot = q] \in Vessel  BY DEF Vessel
<1>3. \A p \in Player : [r EXCEPT !.owner = p] \in Vessel  BY DEF Vessel
<1>4. \A z \in Places : [r EXCEPT !.at = z] \in Vessel  BY DEF Vessel
<1> QED BY <1>1, <1>2, <1>3, <1>4

LEMMA MinOfTwo ==
  ASSUME NEW a \in Int, NEW b \in Int
  PROVE  Min({a, b}) = IF a <= b THEN a ELSE b
<1>1. \E x \in {a, b} : \A y \in {a, b} : x <= y
  OBVIOUS
<1>2. Min({a, b}) \in {a, b} /\ \A y \in {a, b} : Min({a, b}) <= y
  BY <1>1 DEF Min
<1> QED BY <1>2

-----------------------------------------------------------------------------
(* Heads.                                                                  *)

LEMMA ShipsAreFinite == IsFiniteSet(Ship) /\ Ship \subseteq Nat
<1>1. NShips \in Nat  BY BattleAssumption
<1> QED BY <1>1, FS_Interval DEF Ship

LEMMA HeadsAreCounted ==
  ASSUME NEW f \in [Ship -> Vessel]
  PROVE  \A s \in Ship : Heads(f)[s] \in Nat
BY VesselFields DEF Heads

LEMMA CensusIsInt ==
  ASSUME NEW w \in Worlds
  PROVE  Census(w) \in Int /\ SumOf(Heads(w.ship), Ship) \in Int /\ w.planet.popn \in Nat
         /\ w.log.lost \in Nat
<1>1. SumOf(Heads(w.ship), Ship) \in Int
  <2> DEFINE h == Heads(w.ship)
  <2>1. \A s \in Ship : h[s] \in Int
    BY WorldFields, HeadsAreCounted
  <2> HIDE DEF h
  <2>2. SumOf(h, Ship) \in Int
    BY <2>1, ShipsAreFinite, SumIsInt
  <2> QED BY <2>2 DEF h
<1>2. w.planet.popn \in Nat /\ w.log.lost \in Nat
  BY WorldFields DEF Surface, Report
<1> QED BY <1>1, <1>2 DEF Census, Souls

\* One ship's crew changes, and some people are lost.
LEMMA CensusOne ==
  ASSUME NEW w \in Worlds, NEW v \in Worlds, NEW s \in Ship,
         \A t \in Ship \ {s} : Heads(v.ship)[t] = Heads(w.ship)[t]
  PROVE  Census(v) = Census(w) - Heads(w.ship)[s] + Heads(v.ship)[s]
                     + (v.planet.popn - w.planet.popn) + (v.log.lost - w.log.lost)
<1>1. \A t \in Ship : Heads(w.ship)[t] \in Int /\ Heads(v.ship)[t] \in Int
  BY WorldFields, HeadsAreCounted
<1>2. SumOf(Heads(v.ship), Ship)
        = SumOf(Heads(w.ship), Ship) - Heads(w.ship)[s] + Heads(v.ship)[s]
  <2> DEFINE h == Heads(w.ship)
             k == Heads(v.ship)
  <2>1. \A t \in Ship : h[t] \in Int /\ k[t] \in Int
    BY <1>1
  <2>2. \A t \in Ship \ {s} : k[t] = h[t]
    OBVIOUS
  <2> HIDE DEF h, k
  <2>3. SumOf(k, Ship) = SumOf(h, Ship) - h[s] + k[s]
    <3>1. IsFiniteSet(Ship)  BY ShipsAreFinite
    <3>2. \A t \in Ship : h[t] \in Int /\ k[t] \in Int  BY <2>1
    <3>3. \A t \in Ship \ {s} : k[t] = h[t]  BY <2>2
    <3> QED BY <3>1, <3>2, <3>3, SumChange
  <2> QED BY <2>3 DEF h, k
<1> QED BY <1>1, <1>2, CensusIsInt DEF Census, Souls

LEMMA CensusSame ==
  ASSUME NEW w \in Worlds, NEW v \in Worlds,
         \A t \in Ship : Heads(v.ship)[t] = Heads(w.ship)[t]
  PROVE  Census(v) = Census(w) + (v.planet.popn - w.planet.popn) + (v.log.lost - w.log.lost)
<1>1. Heads(v.ship) = Heads(w.ship)
  BY DEF Heads
<1> QED BY <1>1, CensusIsInt DEF Census, Souls

-----------------------------------------------------------------------------
(* What changes a world.                                                   *)

LEMMA PutFields ==
  ASSUME NEW w \in Worlds, NEW s \in Ship, NEW r \in Vessel, Lit(r), r.dest # s
  PROVE  /\ Put(w, s, r) \in Worlds
         /\ Put(w, s, r).ship = [w.ship EXCEPT ![s] = r]
         /\ Put(w, s, r).planet = w.planet /\ Put(w, s, r).AP = w.AP
         /\ Put(w, s, r).engaged = w.engaged /\ Put(w, s, r).log = w.log
<1>1. [w.ship EXCEPT ![s] = r] \in Fleet
  BY DEF Worlds, Fleet
<1>2. Put(w, s, r) = [w EXCEPT !.ship = [w.ship EXCEPT ![s] = r]]
  BY DEF Put, Worlds
<1>3. \A f \in Fleet : [w EXCEPT !.ship = f] \in Worlds
  BY DEF Worlds
<1>4. \A f \in Fleet : /\ [w EXCEPT !.ship = f].ship = f
                       /\ [w EXCEPT !.ship = f].planet = w.planet
                       /\ [w EXCEPT !.ship = f].AP = w.AP
                       /\ [w EXCEPT !.ship = f].engaged = w.engaged
                       /\ [w EXCEPT !.ship = f].log = w.log
  BY DEF Worlds
<1> QED BY <1>1, <1>2, <1>3, <1>4

LEMMA LogFields ==
  ASSUME NEW w \in Worlds, NEW l \in Report
  PROVE  /\ [w EXCEPT !.log = l] \in Worlds
         /\ [w EXCEPT !.log = l].ship = w.ship /\ [w EXCEPT !.log = l].planet = w.planet
         /\ [w EXCEPT !.log = l].AP = w.AP /\ [w EXCEPT !.log = l].engaged = w.engaged
         /\ [w EXCEPT !.log = l].log = l
<1>1. [w EXCEPT !.log = l] \in Worlds
  BY DEF Worlds
<1> QED BY <1>1 DEF Worlds

LEMMA LostFields ==
  ASSUME NEW w \in Worlds, NEW n \in Nat
  PROVE  /\ Lost(w, n) \in Worlds
         /\ Lost(w, n).ship = w.ship /\ Lost(w, n).planet = w.planet
         /\ Lost(w, n).AP = w.AP /\ Lost(w, n).engaged = w.engaged
         /\ Lost(w, n).log.lost = w.log.lost + n /\ Lost(w, n).log.landed = w.log.landed
         /\ Lost(w, n).log.quarry = w.log.quarry /\ Lost(w, n).log.shooter = w.log.shooter
         /\ Lost(w, n).log.answered = w.log.answered
<1> DEFINE l == [w.log EXCEPT !.lost = w.log.lost + n]
<1>1. Lost(w, n) = [w EXCEPT !.log = l]
  BY DEF Lost, Worlds, Report
<1>2. w.log \in Report
  BY WorldFields
<1>3. \A k \in Amount : [w.log EXCEPT !.lost = k] \in Report
  BY <1>2 DEF Report, Amount
<1>4. l \in Report
  <2>1. w.log.lost + n \in Amount
    BY CensusIsInt DEF Amount
  <2> QED BY <1>3, <2>1
<1>5. /\ l.lost = w.log.lost + n /\ l.landed = w.log.landed
      /\ l.quarry = w.log.quarry /\ l.shooter = w.log.shooter /\ l.answered = w.log.answered
  BY <1>2 DEF Report
<1> HIDE DEF l
<1> QED BY <1>1, <1>4, <1>5, LogFields

\* A ship changes and nobody is hurt.
LEMMA PutHits ==
  ASSUME NEW w \in Worlds, NEW s \in Ship, NEW r \in Vessel, Lit(r), r.dest # s,
         Worn(w.ship[s], r),
         r.alive = w.ship[s].alive /\ r.crew = w.ship[s].crew /\ r.troops = w.ship[s].troops
  PROVE  Hit(w, Put(w, s, r), {s}) /\ Put(w, s, r).ship[s] = r
<1> DEFINE v == Put(w, s, r)
<1>1. /\ v \in Worlds /\ v.ship = [w.ship EXCEPT ![s] = r] /\ v.planet = w.planet
      /\ v.AP = w.AP /\ v.engaged = w.engaged /\ v.log = w.log
  BY PutFields
<1>2. w.ship \in [Ship -> Vessel]
  BY WorldFields
<1> HIDE DEF v
<1>3. v.ship[s] = r /\ \A t \in Ship \ {s} : v.ship[t] = w.ship[t]
  BY <1>1, <1>2
<1>4. \A t \in Ship : Heads(v.ship)[t] = Heads(w.ship)[t]
  BY <1>3 DEF Heads
<1>5. Census(v) = Census(w)
  BY <1>1, <1>4, CensusSame, CensusIsInt
<1>6. \A t \in Ship : Worn(w.ship[t], w.ship[t])
  BY FollowsSelf DEF Follows
<1>7. Follows(w, v)
  BY <1>1, <1>3, <1>5, <1>6 DEF Follows
<1>8. Hit(w, v, {s})
  BY <1>1, <1>3, <1>7 DEF Hit, Spared, Guards
<1> QED BY <1>3, <1>8 DEF v

LEMMA KillHits ==
  ASSUME NEW w \in Worlds, NEW s \in Ship, w.ship[s].alive
  PROVE  /\ Hit(w, Kill(w, s), {s}) /\ ~Kill(w, s).ship[s].alive
         /\ Kill(w, s).ship[s].crew = w.ship[s].crew
         /\ Kill(w, s).ship[s].troops = w.ship[s].troops
         /\ Kill(w, s).ship[s].fuel = w.ship[s].fuel
         /\ Kill(w, s).ship[s].destruct = w.ship[s].destruct
         /\ Kill(w, s).ship[s].fire = w.ship[s].fire
         /\ Kill(w, s).ship[s].laser = w.ship[s].laser
<1> DEFINE r == w.ship[s]
           n == r.crew + r.troops
           x == Lost(w, n)
           Forgets(y) == [y EXCEPT !.prot = IF @ = s THEN None ELSE @,
                                   !.dest = IF @ = s THEN None ELSE @]
           dead == [r EXCEPT !.alive = FALSE, !.dest = None]
           f == [t \in Ship |-> IF t = s THEN dead
                                ELSE IF w.ship[t].alive THEN Forgets(w.ship[t]) ELSE w.ship[t]]
           l == [x.log EXCEPT !.twice = FALSE]
           v == Kill(w, s)
<1>1. \A t \in Ship : w.ship[t] \in Vessel /\ Lit(w.ship[t]) /\ w.ship[t].dest # t
  BY WorldFields
<1>2. n \in Nat
  BY <1>1, VesselFields
<1>3. /\ x \in Worlds /\ x.ship = w.ship /\ x.planet = w.planet /\ x.AP = w.AP
      /\ x.engaged = w.engaged /\ x.log.lost = w.log.lost + n
      /\ x.log.landed = w.log.landed /\ x.log.quarry = w.log.quarry
      /\ x.log.shooter = w.log.shooter /\ x.log.answered = w.log.answered
  BY <1>2, LostFields
<1>4. x.log \in Report
  BY <1>3, WorldFields
<1>5. v = [x EXCEPT !.ship = f, !.log = l]
  <2>1. v = [x EXCEPT !.ship = f, !.log.twice = @ \/ ~r.alive]
    BY DEF Kill
  <2>2. x.log.twice = FALSE
    BY <1>4 DEF Report
  <2> HIDE DEF x, f, v
  <2> QED BY <2>1, <2>2, <1>3, <1>4 DEF Worlds, Report
<1>6. l \in Report /\ l.lost = x.log.lost /\ l.landed = x.log.landed /\ l.quarry = x.log.quarry
      /\ l.shooter = x.log.shooter /\ l.answered = x.log.answered
  <2> HIDE DEF x
  <2> QED BY <1>4 DEF Report
<1>7. /\ dead \in Vessel /\ ~dead.alive /\ dead.dest = None /\ Worn(r, dead)
      /\ dead.crew = r.crew /\ dead.troops = r.troops /\ dead.fuel = r.fuel
      /\ dead.destruct = r.destruct /\ dead.fire = r.fire /\ dead.laser = r.laser
  <2>1. [r EXCEPT !.alive = FALSE] \in Vessel
    BY <1>1, FlagEdits DEF Flag
  <2>2. dead = [[r EXCEPT !.alive = FALSE] EXCEPT !.dest = None]
    BY <1>1 DEF Vessel
  <2>3. dead \in Vessel
    BY <2>1, <2>2, OtherEdits DEF Course
  <2> QED BY <2>3, <1>1 DEF Vessel, Worn
<1>8. ASSUME NEW t \in Ship
      PROVE  LET y == w.ship[t]
                 z == Forgets(y)
             IN z \in Vessel /\ Worn(y, z) /\ Spared(y, z) /\ (Lit(y) => Lit(z))
                /\ (y.dest # t => z.dest # t)
                /\ (z.prot = y.prot \/ y.prot = s)
  <2> DEFINE y == w.ship[t]
             p == IF y.prot = s THEN None ELSE y.prot
             d == IF y.dest = s THEN None ELSE y.dest
             z == Forgets(y)
  <2>1. y \in Vessel
    BY <1>1
  <2>2. p \in Ship \cup {None} /\ d \in Course
    BY <2>1, VesselFields DEF Course
  <2>3. z = [[y EXCEPT !.prot = p] EXCEPT !.dest = d]
    BY <2>1 DEF Vessel
  <2>4. [y EXCEPT !.prot = p] \in Vessel
    BY <2>1, <2>2, OtherEdits
  <2>5. z \in Vessel
    BY <2>2, <2>3, <2>4, OtherEdits
  <2>6. z.prot = p /\ z.dest = d /\ Worn(y, z) /\ Spared(y, z)
        /\ z.mounted = y.mounted /\ z.refit = y.refit
    BY <2>1 DEF Vessel, Worn, Spared
  <2>7. None # t
    BY BattleAssumption
  <2> HIDE DEF z
  <2>8. Lit(y) => Lit(z)
    BY <2>6 DEF Lit, LaserOn, Spared
  <2>9. y.dest # t => z.dest # t
    BY <2>6, <2>7
  <2>10. z.prot = y.prot \/ y.prot = s
    BY <2>6
  <2> QED BY <2>5, <2>6, <2>8, <2>9, <2>10 DEF z
<1>9. f \in Fleet
  <2>1. None # s
    BY BattleAssumption
  <2>2. \A t \in Ship : f[t] \in Vessel /\ Lit(f[t]) /\ f[t].dest # t
    <3> HIDE DEF dead, Forgets
    <3> QED BY <1>1, <1>7, <1>8, <2>1 DEF Lit
  <2> HIDE DEF f
  <2>3. f \in [Ship -> Vessel]
    BY <2>2 DEF f
  <2> QED BY <2>2, <2>3 DEF Fleet
<1>10. v \in Worlds /\ v.ship = f /\ v.planet = w.planet /\ v.AP = w.AP
       /\ v.engaged = w.engaged /\ v.log = l
  <2> HIDE DEF f, l, x
  <2>1. \A g \in Fleet, k \in Report : [x EXCEPT !.ship = g, !.log = k] \in Worlds
    BY <1>3 DEF Worlds
  <2>2. v \in Worlds
    BY <1>5, <1>6, <1>9, <2>1
  <2> QED BY <1>3, <1>5, <2>2 DEF Worlds
<1>11. v.ship[s] = dead
       /\ \A t \in Ship \ {s} : v.ship[t] = Forgets(w.ship[t]) \/ v.ship[t] = w.ship[t]
  <2> HIDE DEF dead, Forgets, v
  <2> QED BY <1>10
<1> HIDE DEF f, l, x, v, dead, Forgets
<1>12. Heads(w.ship)[s] = n /\ Heads(v.ship)[s] = 0
  BY <1>7, <1>11 DEF Heads
<1>13. \A t \in Ship \ {s} : Heads(v.ship)[t] = Heads(w.ship)[t]
  BY <1>8, <1>11 DEF Heads, Spared
<1>14. Census(v) = Census(w)
  BY <1>2, <1>3, <1>6, <1>10, <1>12, <1>13, CensusOne, CensusIsInt
<1>15. \A t \in Ship : Worn(w.ship[t], w.ship[t])
  BY FollowsSelf DEF Follows
<1>16. \A t \in Ship : Worn(w.ship[t], v.ship[t])
  BY <1>7, <1>8, <1>11, <1>15
<1>17. Follows(w, v)
  BY <1>3, <1>6, <1>10, <1>14, <1>16 DEF Follows
<1>18. ASSUME NEW t \in Ship \ {s} PROVE Spared(w.ship[t], v.ship[t]) /\ Guards(w, v, t)
  <2>1. Spared(w.ship[t], v.ship[t])
    BY <1>8, <1>11 DEF Spared
  <2>2. ~v.ship[s].alive
    BY <1>7, <1>11
  <2>3. v.ship[t].prot = w.ship[t].prot \/ w.ship[t].prot = s
    BY <1>8, <1>11
  <2> QED BY <2>1, <2>2, <2>3 DEF Guards
<1>19. Hit(w, v, {s})
  BY <1>3, <1>6, <1>10, <1>17, <1>18 DEF Hit
<1> QED BY <1>7, <1>11, <1>19 DEF v

-----------------------------------------------------------------------------
(* What a salvo costs.                                                     *)

\* The strength a ship answers with is aboard: as fuel for its laser, as
\* ammunition for its guns.
Affords(r, n, beam) == IF LaserOn(r) \/ beam THEN n <= r.fuel ELSE n <= r.destruct

LEMMA RetalBounded ==
  ASSUME NEW r \in Vessel
  PROVE  /\ CheckRetal(r) \in Nat /\ (CheckRetal(r) > 0 => r.alive /\ r.active)
         /\ Affords(r, CheckRetal(r), FALSE)
         /\ RetalStrength(r) \in Nat /\ RetalStrength(r) <= r.destruct
<1>1. RetalStrength(r) \in Nat /\ RetalStrength(r) <= r.destruct
  <2>1. CASE ~r.alive \/ (~Mobile(r) /\ r.at # "land") \/ r.crew = 0 \/ r.guns = 0
    BY <2>1, VesselFields DEF RetalStrength
  <2>2. CASE ~(~r.alive \/ (~Mobile(r) /\ r.at # "land") \/ r.crew = 0 \/ r.guns = 0)
    <3> DEFINE S == {r.salvo, r.crew, r.guns, r.destruct}
    <3>1. \A x \in S : x \in Nat
      BY VesselFields
    <3>2. \E x \in S : \A y \in S : x <= y
      BY <3>1
    <3>3. Min(S) \in S /\ \A y \in S : Min(S) <= y
      <4> HIDE DEF S
      <4> QED BY <3>2 DEF Min
    <3>4. RetalStrength(r) = Min(S)
      BY <2>2 DEF RetalStrength
    <3>5. r.destruct \in S
      OBVIOUS
    <3> HIDE DEF S
    <3> QED BY <3>1, <3>3, <3>4, <3>5
  <2> QED BY <2>1, <2>2
<1>2. CASE ~r.active \/ ~r.alive
  BY <1>1, <1>2, VesselFields DEF CheckRetal, Affords
<1>3. CASE r.active /\ r.alive /\ LaserOn(r)
  <2>1. Min({r.fire, r.fuel}) = IF r.fire <= r.fuel THEN r.fire ELSE r.fuel
    BY VesselFields, MinOfTwo
  <2>2. CheckRetal(r) = Min({r.fire, r.fuel})
    BY <1>3 DEF CheckRetal
  <2> QED BY <1>1, <1>3, <2>1, <2>2, VesselFields DEF Affords
<1>4. CASE r.active /\ r.alive /\ ~LaserOn(r)
  BY <1>1, <1>4 DEF CheckRetal, Affords
<1> QED BY <1>2, <1>3, <1>4, VesselFields DEF Flag

LEMMA AffordsLess ==
  ASSUME NEW r \in Vessel, NEW n \in Int, NEW m \in Int, m <= n, NEW beam,
         Affords(r, n, beam)
  PROVE  Affords(r, m, beam)
BY VesselFields DEF Affords

LEMMA ShotFields ==
  ASSUME NEW w \in Worlds, NEW x \in Paid
  PROVE  LET l == [w.log EXCEPT !.shots = @ \cup {x}]
         IN l \in Report /\ l.lost = w.log.lost /\ l.landed = w.log.landed
            /\ l.quarry = w.log.quarry /\ l.shooter = w.log.shooter /\ l.answered = w.log.answered
<1>1. w.log \in Report  BY WorldFields
<1>2. w.log.shots \cup {x} \in SUBSET Paid
  BY <1>1 DEF Report
<1>3. \A S \in SUBSET Paid : [w.log EXCEPT !.shots = S] \in Report
  BY <1>1 DEF Report
<1>4. [w.log EXCEPT !.shots = @ \cup {x}] = [w.log EXCEPT !.shots = w.log.shots \cup {x}]
  BY <1>1 DEF Report
<1>5. [w.log EXCEPT !.shots = @ \cup {x}] \in Report
  BY <1>2, <1>3, <1>4
<1> QED BY <1>1, <1>5 DEF Report

\* Only history changes.
LEMMA LogHits ==
  ASSUME NEW w \in Worlds, NEW l \in Report,
         l.lost = w.log.lost, l.landed = w.log.landed,
         l.quarry = w.log.quarry, l.shooter = w.log.shooter, w.log.answered \subseteq l.answered
  PROVE  /\ Hit(w, [w EXCEPT !.log = l], {})
         /\ [w EXCEPT !.log = l].ship = w.ship /\ [w EXCEPT !.log = l].log = l
<1> DEFINE v == [w EXCEPT !.log = l]
<1>1. /\ v \in Worlds /\ v.ship = w.ship /\ v.planet = w.planet /\ v.AP = w.AP
      /\ v.engaged = w.engaged /\ v.log = l
  BY LogFields
<1> HIDE DEF v
<1>2. Census(v) = Census(w)
  BY <1>1, CensusSame, CensusIsInt
<1>3. \A t \in Ship : Worn(w.ship[t], w.ship[t])
  BY FollowsSelf DEF Follows
<1>4. Hit(w, v, {})
  BY <1>1, <1>2, <1>3 DEF Hit, Follows, Spared, Guards
<1> QED BY <1>1, <1>4 DEF v

LEMMA ConsumeHits ==
  ASSUME NEW w \in Worlds, NEW s \in Ship, NEW n \in Nat, NEW beam,
         NEW cold \in BOOLEAN, cold \/ Affords(w.ship[s], n, beam)
  PROVE  Hit(w, Consume(w, s, n, beam, cold), {s})
<1> DEFINE r == w.ship[s]
           m == IF LaserOn(r) \/ beam THEN Min({n, r.fuel}) ELSE Min({n, r.destruct})
           p == Spent(r, n, beam)
           paid == (r.fuel - p.fuel) + (r.destruct - p.destruct)
           x == [by |-> s, strength |-> n, paid |-> paid, cold |-> cold]
           y == Put(w, s, p)
           l == [y.log EXCEPT !.shots = @ \cup {x}]
<1>1. r \in Vessel /\ Lit(r) /\ r.dest # s
  BY WorldFields
<1>2. r.fuel \in Nat /\ r.destruct \in Nat
  BY <1>1, VesselFields
<1>3. /\ Min({n, r.fuel}) = IF n <= r.fuel THEN n ELSE r.fuel
      /\ Min({n, r.destruct}) = IF n <= r.destruct THEN n ELSE r.destruct
  BY <1>2, MinOfTwo
<1>4. m \in Nat /\ (cold \/ m = n)
      /\ (LaserOn(r) \/ beam => m <= r.fuel) /\ (~(LaserOn(r) \/ beam) => m <= r.destruct)
  BY <1>2, <1>3 DEF Affords
<1>5. p = IF LaserOn(r) \/ beam THEN [r EXCEPT !.fuel = r.fuel - m]
                                ELSE [r EXCEPT !.destruct = r.destruct - m]
  BY <1>1 DEF Spent, Vessel
<1> HIDE DEF m, p
<1>6. p \in Vessel
  <2>1. LaserOn(r) \/ beam => r.fuel - m \in Amount
    BY <1>2, <1>4 DEF Amount
  <2>2. ~(LaserOn(r) \/ beam) => r.destruct - m \in Amount
    BY <1>2, <1>4 DEF Amount
  <2> QED BY <1>1, <1>5, <2>1, <2>2, AmountEdits
<1>7. /\ Worn(r, p) /\ Lit(p) /\ p.dest # s
      /\ p.alive = r.alive /\ p.crew = r.crew /\ p.troops = r.troops
      /\ p.fuel = IF LaserOn(r) \/ beam THEN r.fuel - m ELSE r.fuel
      /\ p.destruct = IF LaserOn(r) \/ beam THEN r.destruct ELSE r.destruct - m
  <2>1. CASE LaserOn(r) \/ beam
    <3>1. p = [r EXCEPT !.fuel = r.fuel - m]
      BY <1>5, <2>1
    <3> QED BY <1>1, <1>2, <2>1, <3>1 DEF Vessel, Worn, Lit, LaserOn
  <2>2. CASE ~(LaserOn(r) \/ beam)
    <3>1. p = [r EXCEPT !.destruct = r.destruct - m]
      BY <1>5, <2>2
    <3> QED BY <1>1, <1>2, <1>4, <2>2, <3>1 DEF Vessel, Worn, Lit, LaserOn
  <2> QED BY <2>1, <2>2
<1>8. Hit(w, y, {s})
  BY <1>6, <1>7, PutHits
<1>9. y \in Worlds
  BY <1>8 DEF Hit, Follows
<1>10. paid = m
  BY <1>2, <1>4, <1>7
<1>11. x \in Paid
  BY <1>4, <1>10 DEF Paid, Volley
<1> HIDE DEF x, y
<1>12. /\ l \in Report /\ l.lost = y.log.lost /\ l.landed = y.log.landed
       /\ l.quarry = y.log.quarry /\ l.shooter = y.log.shooter /\ l.answered = y.log.answered
  BY <1>9, <1>11, ShotFields
<1>13. Consume(w, s, n, beam, cold) = [y EXCEPT !.log.shots = @ \cup {x}]
  BY DEF Consume, x, y, p
<1>14. [y EXCEPT !.log.shots = @ \cup {x}] = [y EXCEPT !.log = l]
  BY <1>9 DEF Worlds, Report
<1> HIDE DEF l
<1>15. Hit(y, [y EXCEPT !.log = l], {})
  BY <1>9, <1>12, LogHits
<1> QED BY <1>8, <1>13, <1>14, <1>15, HitFollowsHit

LEMMA ChargeFields ==
  ASSUME NEW w \in Worlds, NEW p \in Player, w.AP[p] >= 1
  PROVE  /\ Charge(w, p) \in Worlds
         /\ Charge(w, p).ship = w.ship /\ Charge(w, p).planet = w.planet
         /\ Charge(w, p).engaged = w.engaged /\ Charge(w, p).log = w.log
         /\ Census(Charge(w, p)) = Census(w)
<1> DEFINE a == [w.AP EXCEPT ![p] = w.AP[p] - 1]
<1>1. a \in [Player -> Nat]
  BY WorldFields
<1>2. Charge(w, p) = [w EXCEPT !.AP = a]
  BY DEF Charge, Worlds
<1> HIDE DEF a
<1>3. \A f \in [Player -> Nat] : [w EXCEPT !.AP = f] \in Worlds
  BY DEF Worlds
<1>4. Charge(w, p) \in Worlds
  BY <1>1, <1>2, <1>3
<1>5. /\ Charge(w, p).ship = w.ship /\ Charge(w, p).planet = w.planet
      /\ Charge(w, p).engaged = w.engaged /\ Charge(w, p).log = w.log
  BY <1>2 DEF Worlds
<1> QED BY <1>4, <1>5 DEF Census

-----------------------------------------------------------------------------
(* Shots at a ship.                                                        *)

\* A ship that overloads is still there: the dead have no shot, or no laser.
Ready(r, str, beam) == r.alive \/ str = 0 \/ ~(LaserOn(r) \/ beam)

Overloaded(w, s, str, o) == Hit(w, o.w, {s}) /\ (o.str # 0 => o.w = w /\ o.str = str)

LEMMA OverloadsHit ==
  ASSUME NEW w \in Worlds, NEW s \in Ship, NEW beam, NEW str \in Amount,
         NEW o \in Overloads(w, s, beam, str), Ready(w.ship[s], str, beam)
  PROVE  Overloaded(w, s, str, o)
<1> DEFINE r == w.ship[s]
           cool == [r EXCEPT !.fire = 0, !.mounted = FALSE]
<1>1. r \in Vessel /\ r.dest # s
  BY WorldFields
<1>2. CASE o = [w |-> w, str |-> str]
  BY <1>2, FollowsSelf DEF Overloaded
<1>3. CASE o # [w |-> w, str |-> str]
  <2>1. o = [w |-> Kill(w, s), str |-> 0] \/ o = [w |-> Put(w, s, cool), str |-> 0]
    BY <1>3 DEF Overloads
  <2>2. (LaserOn(r) \/ beam) /\ str > (IF r.damaged THEN 0 ELSE Safe)
    BY <1>3 DEF Overloads
  <2>3. r.alive
    BY <2>2, BattleAssumption DEF Ready, Amount
  <2>4. [r EXCEPT !.fire = 0] \in Vessel
    BY <1>1, AmountEdits DEF Amount
  <2>5. cool = [[r EXCEPT !.fire = 0] EXCEPT !.mounted = FALSE]
    BY <1>1 DEF Vessel
  <2>6. cool \in Vessel
    BY <2>4, <2>5, FlagEdits DEF Flag
  <2>7. Worn(r, cool) /\ Lit(cool) /\ cool.dest # s
        /\ cool.alive = r.alive /\ cool.crew = r.crew /\ cool.troops = r.troops
    BY <1>1, VesselFields DEF Vessel, Worn, Lit, LaserOn
  <2> HIDE DEF cool
  <2>8. Hit(w, Put(w, s, cool), {s})
    BY <2>6, <2>7, PutHits
  <2>9. Hit(w, Kill(w, s), {s})
    BY <2>3, KillHits
  <2>10. CASE o = [w |-> Kill(w, s), str |-> 0]
    BY <2>9, <2>10 DEF Overloaded
  <2>11. CASE o = [w |-> Put(w, s, cool), str |-> 0]
    BY <2>8, <2>11 DEF Overloaded
  <2> QED BY <2>1, <2>10, <2>11
<1> QED BY <1>2, <1>3

\* A ship that was hit and lives on: nothing it could pay with is gone, and its
\* laser is not what it was, at most.
Scathed(x, y) ==
  /\ y \in Vessel /\ Worn(x, y) /\ y.dest = x.dest /\ y.alive = x.alive
  /\ y.crew = x.crew /\ y.troops = x.troops /\ y.fuel = x.fuel /\ y.destruct = x.destruct
  /\ y.mounted = x.mounted /\ y.refit = x.refit /\ (LaserOn(y) => LaserOn(x))

\* What is left of a ship that was fired at.
AfterShot(x, y) ==
  /\ y.fuel = x.fuel /\ y.destruct = x.destruct /\ (LaserOn(y) => LaserOn(x))
  /\ x.alive => y.alive \/ y.fire = 0

LEMMA ScathedMore ==
  ASSUME NEW x, NEW y, NEW z, Scathed(x, y), Scathed(y, z)
  PROVE  Scathed(x, z)
<1>1. x.destruct = z.destruct /\ z.destruct \in Nat
  BY VesselFields DEF Scathed
<1> QED BY <1>1 DEF Scathed, Worn

LEMMA ScathedHits ==
  ASSUME NEW w \in Worlds, NEW t \in Ship, NEW y, Scathed(w.ship[t], y)
  PROVE  LET v == Put(w, t, y)
         IN Hit(w, v, {t}) /\ v.ship[t] = y /\ AfterShot(w.ship[t], v.ship[t])
<1>1. Lit(w.ship[t]) /\ w.ship[t].dest # t
  BY WorldFields
<1>2. y \in Vessel /\ Lit(y) /\ y.dest # t
  BY <1>1 DEF Scathed, Lit
<1>3. Hit(w, Put(w, t, y), {t}) /\ Put(w, t, y).ship[t] = y
  BY <1>2, PutHits DEF Scathed
<1> QED BY <1>3 DEF Scathed, AfterShot

LEMMA ClampedScathes ==
  ASSUME NEW r \in Vessel
  PROVE  /\ Scathed(r, Clamped(r))
         /\ \A x \in Flag : Scathed(r, [r EXCEPT !.damaged = x])
         /\ Scathed(r, [r EXCEPT !.fire = 0])
         /\ \A z \in Wrecks(r) : Scathed(r, z)
<1>1. Scathed(r, Clamped(r))
  <2> DEFINE n == Min({r.fire, Safe})
  <2>1. n = IF r.fire <= Safe THEN r.fire ELSE Safe
    BY VesselFields, MinOfTwo, BattleAssumption
  <2>2. n \in Amount /\ n <= r.fire
    BY <2>1, VesselFields, BattleAssumption DEF Amount
  <2>3. Clamped(r) = [r EXCEPT !.fire = n]
    BY DEF Clamped, Vessel
  <2> HIDE DEF n
  <2>4. Clamped(r) \in Vessel
    BY <2>2, <2>3, AmountEdits
  <2> QED BY <2>2, <2>3, <2>4 DEF Scathed, Worn, Vessel, LaserOn
<1>2. ASSUME NEW x \in Flag PROVE Scathed(r, [r EXCEPT !.damaged = x])
  <2>1. [r EXCEPT !.damaged = x] \in Vessel
    BY FlagEdits
  <2> QED BY <2>1 DEF Scathed, Worn, Vessel, LaserOn
<1>3. Scathed(r, [r EXCEPT !.fire = 0])
  <2>1. [r EXCEPT !.fire = 0] \in Vessel
    BY AmountEdits DEF Amount
  <2> QED BY <2>1 DEF Scathed, Worn, Vessel, LaserOn
<1>4. ASSUME NEW z \in Wrecks(r) PROVE Scathed(r, z)
  <2>1. Scathed(r, r)
    BY DEF Scathed, Worn, Vessel
  <2>2. Scathed(r, [r EXCEPT !.laser = FALSE])
    <3>1. [r EXCEPT !.laser = FALSE] \in Vessel
      BY FlagEdits DEF Flag
    <3> QED BY <3>1 DEF Scathed, Worn, Vessel, LaserOn
  <2>3. Scathed(r, [r EXCEPT !.cew = FALSE])
    <3>1. [r EXCEPT !.cew = FALSE] \in Vessel
      BY FlagEdits DEF Flag
    <3> QED BY <3>1 DEF Scathed, Worn, Vessel, LaserOn
  <2>4. ASSUME r.guns > 0 PROVE Scathed(r, [r EXCEPT !.guns = @ - 1])
    <3>1. [r EXCEPT !.guns = @ - 1] = [r EXCEPT !.guns = r.guns - 1]
      BY DEF Vessel
    <3>2. r.guns - 1 \in Amount
      BY <2>4, VesselFields DEF Amount
    <3>3. [r EXCEPT !.guns = r.guns - 1] \in Vessel
      BY <3>2, AmountEdits
    <3> QED BY <3>1, <3>3 DEF Scathed, Worn, Vessel, LaserOn
  <2> QED BY <2>1, <2>2, <2>3, <2>4 DEF Wrecks
<1> QED BY <1>1, <1>2, <1>3, <1>4

\* One of the crew falls.
LEMMA CasualtyHits ==
  ASSUME NEW w \in Worlds, NEW t \in Ship, NEW h, Scathed(w.ship[t], h), h.alive, h.crew > 0
  PROVE  LET v == Lost(Put(w, t, [h EXCEPT !.crew = @ - 1]), 1)
         IN Hit(w, v, {t}) /\ AfterShot(w.ship[t], v.ship[t])
<1> DEFINE r == w.ship[t]
           y == [h EXCEPT !.crew = @ - 1]
           u == Put(w, t, y)
           v == Lost(u, 1)
<1>1. h \in Vessel /\ h.crew \in Nat /\ r \in Vessel /\ Lit(r) /\ r.dest # t
  BY WorldFields, VesselFields DEF Scathed
<1>2. y = [h EXCEPT !.crew = h.crew - 1] /\ h.crew - 1 \in Amount
  BY <1>1 DEF Vessel, Amount
<1>3. y \in Vessel
  BY <1>1, <1>2, AmountEdits
<1>4. /\ y.crew = h.crew - 1 /\ y.troops = h.troops /\ y.alive = h.alive /\ y.dest = h.dest
      /\ y.laser = h.laser /\ y.fire = h.fire /\ y.mounted = h.mounted /\ y.refit = h.refit
      /\ y.fuel = h.fuel /\ y.destruct = h.destruct /\ y.kind = h.kind /\ y.owner = h.owner
      /\ y.on = h.on /\ y.salvo = h.salvo /\ y.at = h.at
  BY <1>1 DEF Vessel
<1> HIDE DEF y
<1>5. Lit(y) /\ y.dest # t
  BY <1>1, <1>4 DEF Scathed, Lit, LaserOn
<1>6. /\ u \in Worlds /\ u.ship = [w.ship EXCEPT ![t] = y] /\ u.planet = w.planet
      /\ u.AP = w.AP /\ u.engaged = w.engaged /\ u.log = w.log
  BY <1>3, <1>5, PutFields
<1> HIDE DEF u
<1>7. /\ v \in Worlds /\ v.ship = u.ship /\ v.planet = u.planet /\ v.AP = u.AP
      /\ v.engaged = u.engaged /\ v.log.lost = u.log.lost + 1
      /\ v.log.landed = u.log.landed /\ v.log.quarry = u.log.quarry
      /\ v.log.shooter = u.log.shooter /\ v.log.answered = u.log.answered
  BY <1>6, LostFields
<1> HIDE DEF v
<1>8. v.ship[t] = y /\ \A s \in Ship \ {t} : v.ship[s] = w.ship[s]
  BY <1>6, <1>7, WorldFields
<1>9. Heads(w.ship)[t] = h.crew + h.troops /\ Heads(v.ship)[t] = h.crew - 1 + h.troops
  BY <1>4, <1>8 DEF Heads, Scathed
<1>10. \A s \in Ship \ {t} : Heads(v.ship)[s] = Heads(w.ship)[s]
  BY <1>8 DEF Heads
<1>11. Census(v) = Census(w)
  BY <1>1, <1>6, <1>7, <1>9, <1>10, CensusOne, CensusIsInt, VesselFields
<1>12. \A s \in Ship : Worn(w.ship[s], w.ship[s])
  BY FollowsSelf DEF Follows
<1>13. Worn(r, y)
  BY <1>4 DEF Scathed, Worn
<1>14. \A s \in Ship : Worn(w.ship[s], v.ship[s])
  BY <1>8, <1>12, <1>13
<1>15. Hit(w, v, {t})
  BY <1>6, <1>7, <1>8, <1>11, <1>14 DEF Hit, Follows, Spared, Guards
<1>16. AfterShot(r, y)
  BY <1>4 DEF Scathed, AfterShot, LaserOn
<1> QED BY <1>8, <1>15, <1>16 DEF v, u, y

LEMMA DamagesHit ==
  ASSUME NEW w \in Worlds, NEW t \in Ship, w.ship[t].alive, NEW x \in Damages(w, t)
  PROVE  Hit(w, x.w, {t}) /\ AfterShot(w.ship[t], x.w.ship[t])
<1> DEFINE r == Clamped(w.ship[t])
           hurt == [r EXCEPT !.damaged = TRUE]
           spent == [hurt EXCEPT !.fire = 0]
<1>1. w.ship[t] \in Vessel
  BY WorldFields
<1>2. Scathed(w.ship[t], r)
  BY <1>1, ClampedScathes
<1>3. r \in Vessel
  BY <1>2 DEF Scathed
<1>4. Scathed(r, hurt)
  BY <1>3, ClampedScathes DEF Flag
<1>5. hurt \in Vessel
  BY <1>4 DEF Scathed
<1> HIDE DEF r
<1>6. Scathed(w.ship[t], hurt)
  BY <1>2, <1>4, ScathedMore
<1> HIDE DEF hurt
<1>7. \A z \in Wrecks(hurt) : Scathed(w.ship[t], z)
  BY <1>5, <1>6, ClampedScathes, ScathedMore
<1>8. Scathed(w.ship[t], spent) /\ spent.fire = 0
  <2>1. Scathed(hurt, spent)
    BY <1>5, ClampedScathes
  <2>2. spent.fire = 0
    BY <1>5 DEF Vessel
  <2> HIDE DEF spent
  <2> QED BY <1>6, <2>1, <2>2, ScathedMore
<1>9. x.w = Put(w, t, r) \/ (\E z \in Wrecks(hurt) : x.w = Put(w, t, z))
      \/ (hurt.crew > 0 /\ x.w = Lost(Put(w, t, [hurt EXCEPT !.crew = @ - 1]), 1))
      \/ x.w = Kill(Put(w, t, spent), t)
  <2> DEFINE gone == Lost(Put(w, t, [hurt EXCEPT !.crew = @ - 1]), 1)
             struck == {Put(w, t, z) : z \in Wrecks(hurt)}
                       \cup (IF r.crew > 0 THEN {gone} ELSE {})
                       \cup {Kill(Put(w, t, spent), t)}
  <2>1. r.crew = hurt.crew
    BY <1>4 DEF Scathed
  <2>2. Damages(w, t) = {[w |-> Put(w, t, r), fired |-> TRUE, hurt |-> FALSE]}
                        \cup {[w |-> y, fired |-> TRUE, hurt |-> TRUE] : y \in struck}
    BY DEF Damages, r, hurt
  <2> HIDE DEF gone, spent
  <2>3. x.w = Put(w, t, r) \/ x.w \in struck
    <3> HIDE DEF struck
    <3> QED BY <2>2
  <2>4. x.w \in struck => (\E z \in Wrecks(hurt) : x.w = Put(w, t, z))
                          \/ (r.crew > 0 /\ x.w = gone)
                          \/ x.w = Kill(Put(w, t, spent), t)
    OBVIOUS
  <2> QED BY <2>1, <2>3, <2>4 DEF gone, spent
<1>10. CASE x.w = Put(w, t, r)
  BY <1>2, <1>10, ScathedHits
<1>11. CASE \E z \in Wrecks(hurt) : x.w = Put(w, t, z)
  BY <1>7, <1>11, ScathedHits
<1>12. CASE hurt.crew > 0 /\ x.w = Lost(Put(w, t, [hurt EXCEPT !.crew = @ - 1]), 1)
  <2>1. hurt.alive
    BY <1>6 DEF Scathed
  <2> QED BY <1>6, <1>12, <2>1, CasualtyHits
<1>13. CASE x.w = Kill(Put(w, t, spent), t)
  <2> DEFINE u == Put(w, t, spent)
  <2> HIDE DEF spent
  <2>1. Hit(w, u, {t}) /\ u.ship[t] = spent /\ AfterShot(w.ship[t], spent)
    BY <1>8, ScathedHits
  <2>2. u \in Worlds /\ spent.alive
    BY <2>1, <1>8 DEF Hit, Follows, Scathed
  <2> HIDE DEF u
  <2>3. /\ Hit(u, Kill(u, t), {t})
        /\ Kill(u, t).ship[t].fuel = spent.fuel /\ Kill(u, t).ship[t].destruct = spent.destruct
        /\ Kill(u, t).ship[t].fire = spent.fire /\ Kill(u, t).ship[t].laser = spent.laser
    BY <2>1, <2>2, KillHits
  <2>4. Hit(w, Kill(u, t), {t})
    BY <2>1, <2>2, <2>3, HitFollowsHit
  <2>5. AfterShot(w.ship[t], Kill(u, t).ship[t])
    BY <1>8, <2>1, <2>3 DEF AfterShot, LaserOn
  <2> QED BY <1>13, <2>4, <2>5 DEF u
<1> QED BY <1>9, <1>10, <1>11, <1>12, <1>13

LEMMA ShootHits ==
  ASSUME NEW w \in Worlds, NEW a \in Ship, NEW t \in Ship, NEW str, NEW beam, NEW ignore,
         NEW x \in Shoot(w, a, t, str, beam, ignore)
  PROVE  Hit(w, x.w, {t}) /\ AfterShot(w.ship[t], x.w.ship[t])
<1>1. w.ship[t] \in Vessel /\ Lit(w.ship[t]) /\ w.ship[t].dest # t
  BY WorldFields
<1>2. \/ Hit(w, w, {t}) /\ AfterShot(w.ship[t], w.ship[t])
      \/ ~w.ship[t].alive /\ Hit(w, w, {t})
  BY FollowsSelf DEF AfterShot
<1>3. CASE x = Misfire(w)
  BY <1>3, FollowsSelf DEF AfterShot, Misfire
<1>4. CASE w.ship[t].alive /\ x \in Damages(w, t)
  BY <1>4, DamagesHit
<1>5. CASE w.ship[t].alive /\ x \in Radiation(w, t)
  <2> DEFINE y == [w.ship[t] EXCEPT !.active = FALSE]
  <2>1. y \in Vessel
    BY <1>1, FlagEdits DEF Flag
  <2>2. Scathed(w.ship[t], y)
    BY <1>1, <2>1 DEF Scathed, Worn, Vessel, LaserOn
  <2>3. x.w = w \/ x.w = Put(w, t, y)
    BY <1>5 DEF Radiation
  <2> HIDE DEF y
  <2> QED BY <1>5, <2>2, <2>3, FollowsSelf, ScathedHits DEF AfterShot
<1> QED BY <1>3, <1>4, <1>5 DEF Shoot

LEMMA PlanetShootsHit ==
  ASSUME NEW w \in Worlds, NEW t \in Ship, NEW str, NEW x \in PlanetShoots(w, t, str)
  PROVE  Hit(w, x.w, {t}) /\ AfterShot(w.ship[t], x.w.ship[t])
<1>1. CASE x = Misfire(w)
  BY <1>1, FollowsSelf DEF AfterShot, Misfire
<1>2. CASE w.ship[t].alive /\ x \in Damages(w, t)
  BY <1>2, DamagesHit
<1> QED BY <1>1, <1>2 DEF PlanetShoots


-----------------------------------------------------------------------------
(* Sweeps.                                                                 *)

\* Induction over the ships, for sets.
LEMMA Climb ==
  ASSUME NEW G, 0 \in G, \A n \in Nat : n \in G => n + 1 \in G
  PROVE  \A n \in Nat : n \in G
<1> DEFINE Bad == {n \in Nat : n \notin G}
<1> SUFFICES ASSUME Bad # {} PROVE FALSE
  OBVIOUS
<1>1. IsWellFoundedOn(OpToRel(<, Nat), Nat)
  BY NatLessThanWellFounded
<1>2. Bad \subseteq Nat
  OBVIOUS
<1> HIDE DEF Bad
<1>3. PICK n \in Bad : \A m \in Bad : ~(<<m, n>> \in OpToRel(<, Nat))
  BY <1>1, <1>2, WFMin
<1>4. n \in Nat /\ n # 0
  BY <1>3 DEF Bad
<1>5. n - 1 \in Nat /\ <<n - 1, n>> \in OpToRel(<, Nat)
  BY <1>4 DEF OpToRel
<1>6. n - 1 \in G
  BY <1>3, <1>5 DEF Bad
<1> DEFINE m == n - 1
<1>7. m + 1 \in G
  <2>1. m \in Nat /\ m \in G
    BY <1>5, <1>6
  <2> HIDE DEF m
  <2> QED BY <2>1
<1>8. n \notin G
  BY DEF Bad
<1>9. m + 1 = n
  BY <1>4
<1> HIDE DEF m
<1> QED BY <1>7, <1>8, <1>9

\* The worlds after each ship of a list exist, whatever the ships do ...
Swept(h, ws, E) ==
  /\ h = [n \in 0..NShips |-> h[n]] /\ h[0] = ws
  /\ \A n \in Ship : h[n] = UNION {E[n][w] : w \in h[n - 1]}

LEMMA SweepExists ==
  ASSUME NEW ws, NEW E
  PROVE  \E h : Swept(h, ws, E)
<1> DEFINE Eqn(h, k) ==
             h = [n \in 0..k |-> IF n = 0 THEN ws ELSE UNION {E[n][w] : w \in h[n - 1]}]
           G == {k \in Nat : \E h : Eqn(h, k)}
<1>1. 0 \in G
  <2> DEFINE h == [n \in 0..0 |-> ws]
  <2>1. Eqn(h, 0)
    OBVIOUS
  <2> QED BY <2>1
<1>2. ASSUME NEW k \in Nat, k \in G PROVE k + 1 \in G
  <2>1. PICK h : Eqn(h, k)
    BY <1>2
  <2> DEFINE g == [n \in 0..k + 1 |-> IF n = k + 1 THEN UNION {E[k + 1][w] : w \in h[k]} ELSE h[n]]
  <2>2. \A n \in 0..k : g[n] = h[n]
    OBVIOUS
  <2>3. ASSUME NEW n \in 0..k + 1
        PROVE  g[n] = IF n = 0 THEN ws ELSE UNION {E[n][w] : w \in g[n - 1]}
    <3>1. n # 0 => g[n - 1] = h[n - 1]
      BY <2>2
    <3>2. CASE n = 0
      BY <2>1, <2>2, <3>2
    <3>3. CASE n # 0
      <4> DEFINE W == g[n - 1]
                 V == h[n - 1]
      <4>1. W = V
        BY <3>1, <3>3
      <4>2. g[n] = UNION {E[n][w] : w \in V}
        <5>1. CASE n = k + 1
          BY <5>1
        <5>2. CASE n \in 0..k
          <6>1. g[n] = h[n]
            BY <2>2, <5>2
          <6> HIDE DEF g
          <6>2. h[n] = UNION {E[n][w] : w \in V}
            BY <2>1, <3>3, <5>2
          <6> QED BY <6>1, <6>2
        <5> QED BY <5>1, <5>2
      <4> HIDE DEF W, V, g
      <4>3. UNION {E[n][w] : w \in W} = UNION {E[n][w] : w \in V}
        BY <4>1
      <4>4. g[n] = UNION {E[n][w] : w \in W}
        BY <4>2, <4>3
      <4>5. g[n] = UNION {E[n][w] : w \in g[n - 1]}
        BY <4>4 DEF W
      <4> QED BY <3>3, <4>5, Zenon
    <3> QED BY <3>2, <3>3
  <2>4. Eqn(g, k + 1)
    <3>1. g = [n \in 0..k + 1 |-> g[n]]
      OBVIOUS
    <3> HIDE DEF g
    <3> QED BY <2>3, <3>1
  <2>5. k + 1 \in Nat
    OBVIOUS
  <2> HIDE DEF Eqn, g
  <2> QED BY <2>4, <2>5
<1> HIDE DEF Eqn
<1>3. \A k \in Nat : k \in G
  <2>1. \A k \in Nat : k \in G => k + 1 \in G
    BY <1>2
  <2> HIDE DEF G
  <2> QED BY <1>1, <2>1, Climb
<1>4. NShips \in Nat
  BY BattleAssumption
<1>5. PICK h : Eqn(h, NShips)
  BY <1>3, <1>4
<1>6. h = [n \in 0..NShips |-> h[n]] /\ h[0] = ws
  BY <1>4, <1>5 DEF Eqn
<1>7. ASSUME NEW n \in Ship PROVE h[n] = UNION {E[n][w] : w \in h[n - 1]}
  <2>1. n \in 0..NShips /\ n # 0
    BY <1>4 DEF Ship
  <2> QED BY <1>5, <2>1 DEF Eqn
<1> QED BY <1>6, <1>7 DEF Swept

\* ... and stay where each ship leaves them.
LEMMA SweepStays ==
  ASSUME NEW f, NEW G, f[0] \subseteq G[0],
         \A n \in Ship : f[n - 1] \subseteq G[n - 1] => f[n] \subseteq G[n]
  PROVE  \A n \in 0..NShips : f[n] \subseteq G[n]
<1> DEFINE T == {n \in Nat : n <= NShips => f[n] \subseteq G[n]}
<1>1. NShips \in Nat
  BY BattleAssumption
<1>2. 0 \in T
  OBVIOUS
<1>3. ASSUME NEW n \in Nat, n \in T PROVE n + 1 \in T
  <2>1. CASE n + 1 <= NShips
    <3>1. n + 1 \in Ship /\ n + 1 - 1 = n
      BY <1>1, <2>1 DEF Ship
    <3> QED BY <1>1, <1>3, <2>1, <3>1
  <2>2. CASE ~(n + 1 <= NShips)
    BY <2>2
  <2> QED BY <2>1, <2>2
<1>4. \A n \in Nat : n \in T
  <2>1. \A n \in Nat : n \in T => n + 1 \in T
    BY <1>3
  <2> HIDE DEF T
  <2> QED BY <1>2, <2>1, Climb
<1> QED BY <1>1, <1>4

LEMMA ShipsAre ==
  /\ NShips \in Nat /\ Ship = 1..NShips /\ 0 \in 0..NShips /\ NShips \in 0..NShips
  /\ \A n \in 0..NShips : n # 0 => n \in Ship /\ n - 1 \in 0..NShips
  /\ \A n \in Ship : n \in 0..NShips /\ n # 0 /\ n - 1 \in 0..NShips
<1>1. NShips \in Nat /\ Ship = 1..NShips
  BY BattleAssumption DEF Ship
<1> QED BY <1>1

\* A sweep that begins in a set of worlds which no ship leaves ends there.
LEMMA SweepEnds ==
  ASSUME NEW f, NEW K, f[0] \subseteq K,
         \A n \in Ship : f[n - 1] \subseteq K => f[n] \subseteq K
  PROVE  \A n \in 0..NShips : f[n] \subseteq K
<1> DEFINE G == [n \in 0..NShips |-> K]
<1>1. \A n \in 0..NShips : G[n] = K
  OBVIOUS
<1> HIDE DEF G
<1>2. f[0] \subseteq G[0] /\ \A n \in Ship : f[n - 1] \subseteq G[n - 1] => f[n] \subseteq G[n]
  BY <1>1, ShipsAre
<1>3. \A n \in 0..NShips : f[n] \subseteq G[n]
  BY <1>2, SweepStays
<1> QED BY <1>1, <1>3

LEMMA SweepWithin ==
  ASSUME NEW ws, NEW K, NEW E, ws \subseteq K, \A n \in Ship : \A x \in K : E[n][x] \subseteq K
  PROVE  \E h : Swept(h, ws, E) /\ \A n \in 0..NShips : h[n] \subseteq K
<1>1. PICK h : Swept(h, ws, E)
  BY SweepExists
<1>2. h[0] \subseteq K
  BY <1>1 DEF Swept
<1>3. ASSUME NEW n \in Ship, h[n - 1] \subseteq K PROVE h[n] \subseteq K
  <2>1. h[n] = UNION {E[n][w] : w \in h[n - 1]}
    BY <1>1 DEF Swept
  <2> QED BY <1>3, <2>1
<1>4. \A n \in 0..NShips : h[n] \subseteq K
  BY <1>2, <1>3, SweepEnds
<1> QED BY <1>1, <1>4

-----------------------------------------------------------------------------
(* Answers, and an exchange.                                               *)

LEMMA HitWorlds ==
  ASSUME NEW w, NEW v, NEW S, Hit(w, v, S)
  PROVE  v \in Worlds
BY DEF Hit, Follows

\* Of a ship that was spared, a salvo it could pay for can still be paid for.
LEMMA SparedAffords ==
  ASSUME NEW x, NEW y, Spared(x, y), NEW n, NEW beam
  PROVE  Affords(x, n, beam) <=> Affords(y, n, beam)
BY DEF Spared, Affords, LaserOn

\* A laser or guns, but no cannon.
LEMMA PlainOverloadsHit ==
  ASSUME NEW w \in Worlds, NEW s \in Ship, NEW str \in Amount,
         NEW o, o \in Overloads(w, s, FALSE, str),
         w.ship[s].alive \/ str = 0 \/ ~LaserOn(w.ship[s])
  PROVE  Overloaded(w, s, str, o)
<1> DEFINE cannon == FALSE
<1>1. cannon \in BOOLEAN /\ ~cannon /\ o \in Overloads(w, s, cannon, str)
  OBVIOUS
<1> HIDE DEF cannon
<1>2. Ready(w.ship[s], str, cannon)
  BY <1>1 DEF Ready
<1> QED BY <1>1, <1>2, OverloadsHit

LEMMA HitOneHit ==
  ASSUME NEW w \in Worlds, NEW v, NEW u, NEW s \in Ship, NEW t \in Ship,
         Hit(w, v, {s}), Hit(v, u, {t})
  PROVE  Hit(w, u, {s, t})
<1>1. {s} \in SUBSET Ship /\ {t} \in SUBSET Ship /\ {s, t} \in SUBSET Ship
      /\ {s} \cup {t} \subseteq {s, t}
  OBVIOUS
<1> QED BY <1>1, HitFollowsHit

LEMMA SelfRetaliationHits ==
  ASSUME NEW r, r.w \in Worlds, NEW a \in Ship, NEW t \in Ship, a # t,
         NEW x \in Vessel, AfterShot(x, r.w.ship[t]),
         NEW v \in SelfRetaliation(r, t, a, CheckRetal(x), LaserOn(x))
  PROVE  Hit(r.w, v, {a, t})
<1> DEFINE retal == CheckRetal(x)
           y == r.w.ship[t]
           cold == LaserOn(x) /\ ~LaserOn(y)
<1>1. CASE v = r.w
  BY <1>1, FollowsSelf
<1>2. CASE v # r.w
  <2>1. retal # 0
    BY <1>2 DEF SelfRetaliation
  <2>2. retal \in Nat /\ x.alive /\ Affords(x, retal, FALSE)
    <3>1. retal \in Nat /\ (retal > 0 => x.alive) /\ Affords(x, retal, FALSE)
      BY RetalBounded
    <3> HIDE DEF retal
    <3>2. x.alive
      <4>1. retal > 0
        BY <2>1, <3>1
      <4> QED BY <3>1, <4>1
    <3> QED BY <3>1, <3>2
  <2>3. PICK o \in Overloads(r.w, t, FALSE, retal) :
          IF o.str = 0 THEN v = o.w
          ELSE \E z \in Shoot(o.w, t, a, o.str, FALSE, TRUE) :
                 v = IF z.fired THEN Consume(z.w, t, o.str, FALSE, cold) ELSE z.w
    BY <1>2 DEF SelfRetaliation
  <2>4. y.alive \/ ~LaserOn(y)
    BY <2>2 DEF AfterShot, LaserOn
  <2>5. Overloaded(r.w, t, retal, o)
    <3> HIDE DEF retal
    <3>1. r.w.ship[t].alive \/ retal = 0 \/ ~LaserOn(r.w.ship[t])
      BY <2>4
    <3>2. o \in Overloads(r.w, t, FALSE, retal)
      BY <2>3
    <3>3. retal \in Amount
      BY <2>2 DEF Amount
    <3> QED BY <3>1, <3>2, <3>3, PlainOverloadsHit
  <2>6. CASE o.str = 0
    BY <2>3, <2>5, <2>6, HitMore DEF Overloaded
  <2>7. CASE o.str # 0
    <3>1. PICK z \in Shoot(r.w, t, a, retal, FALSE, TRUE) :
            v = IF z.fired THEN Consume(z.w, t, retal, FALSE, cold) ELSE z.w
      BY <2>3, <2>5, <2>7 DEF Overloaded
    <3>2. Hit(r.w, z.w, {a})
      BY <3>1, ShootHits
    <3>3. z.w \in Worlds
      BY <3>2, HitWorlds
    <3>4. Spared(y, z.w.ship[t])
      BY <3>2 DEF Hit
    <3>5. cold \/ Affords(y, retal, FALSE)
      BY <2>2 DEF AfterShot, Affords
    <3>6. cold \/ Affords(z.w.ship[t], retal, FALSE)
      BY <3>4, <3>5, SparedAffords
    <3>7. cold \in BOOLEAN
      BY DEF LaserOn
    <3> HIDE DEF cold, retal
    <3>8. Hit(z.w, Consume(z.w, t, retal, FALSE, cold), {t})
      BY <2>2, <3>3, <3>6, <3>7, ConsumeHits
    <3>9. Hit(r.w, Consume(z.w, t, retal, FALSE, cold), {a, t})
      BY <3>2, <3>8, HitOneHit
    <3>10. Hit(r.w, z.w, {a, t})
      BY <3>2, HitMore
    <3> QED BY <3>1, <3>9, <3>10
  <2> QED BY <2>6, <2>7
<1> QED BY <1>1, <1>2

\* A ship asked to fire at another that threatens its charge, or its planet.
LEMMA EscortShotHits ==
  ASSUME NEW w \in Worlds, NEW e \in Ship, NEW a \in Ship, e # a, w.ship[e].alive,
         NEW v \in EscortShot(w, e, a)
  PROVE  Hit(w, v, {a, e}) /\ e \in v.log.answered
<1> DEFINE l == [w.log EXCEPT !.answered = w.log.answered \cup {e}]
           asked == [w EXCEPT !.log = l]
           n == CheckRetal(w.ship[e])
<1>1. w.log \in Report
  BY WorldFields
<1>2. /\ l \in Report /\ l.lost = w.log.lost /\ l.landed = w.log.landed
      /\ l.quarry = w.log.quarry /\ l.shooter = w.log.shooter
      /\ l.answered = w.log.answered \cup {e}
  <2>1. w.log.answered \cup {e} \in SUBSET Ship
    BY <1>1 DEF Report
  <2>2. \A S \in SUBSET Ship : [w.log EXCEPT !.answered = S] \in Report
    BY <1>1 DEF Report
  <2>3. l \in Report
    BY <2>1, <2>2
  <2> QED BY <1>1, <2>3 DEF Report
<1>3. [w EXCEPT !.log.answered = @ \cup {e}] = asked
  BY <1>1 DEF Worlds, Report
<1> HIDE DEF l
<1>4. Hit(w, asked, {}) /\ asked.ship = w.ship /\ asked.log = l
  BY <1>2, LogHits
<1>5. asked \in Worlds
  BY <1>4, HitWorlds
<1>6. n \in Nat /\ Affords(w.ship[e], n, FALSE)
  BY WorldFields, RetalBounded
<1>7. \E o \in Overloads(asked, e, FALSE, n) :
         IF o.str = 0 THEN v = o.w
         ELSE \E z \in Shoot(o.w, e, a, o.str, FALSE, FALSE) :
                v = IF z.fired THEN Consume(z.w, e, o.str, FALSE, FALSE) ELSE z.w
  <2> DEFINE u == [w EXCEPT !.log.answered = @ \cup {e}]
             After(o) == IF o.str = 0 THEN {o.w}
                         ELSE {IF x.fired THEN Consume(x.w, e, o.str, FALSE, FALSE) ELSE x.w :
                                 x \in Shoot(o.w, e, a, o.str, FALSE, FALSE)}
  <2>1. EscortShot(w, e, a) = UNION {After(o) : o \in Overloads(u, e, FALSE, n)}
    BY DEF EscortShot
  <2>2. u = asked
    BY <1>3
  <2> HIDE DEF u, After, n, asked
  <2>3. PICK o \in Overloads(asked, e, FALSE, n) : v \in After(o)
    BY <2>1, <2>2
  <2> QED BY <2>3 DEF After
<1> HIDE DEF asked, n
<1>8. PICK o \in Overloads(asked, e, FALSE, n) :
         IF o.str = 0 THEN v = o.w
         ELSE \E z \in Shoot(o.w, e, a, o.str, FALSE, FALSE) :
                v = IF z.fired THEN Consume(z.w, e, o.str, FALSE, FALSE) ELSE z.w
  BY <1>7
<1>9. Overloaded(asked, e, n, o)
  <2>1. asked.ship[e].alive \/ n = 0 \/ ~LaserOn(asked.ship[e])
    BY <1>4
  <2>2. o \in Overloads(asked, e, FALSE, n)
    BY <1>8
  <2>3. n \in Amount
    BY <1>6 DEF Amount
  <2> QED BY <1>5, <2>1, <2>2, <2>3, PlainOverloadsHit
<1>10. Hit(asked, v, {a, e})
  <2>1. CASE o.str = 0
    BY <1>8, <1>9, <2>1, HitMore DEF Overloaded
  <2>2. CASE o.str # 0
    <3>1. PICK z \in Shoot(asked, e, a, n, FALSE, FALSE) :
            v = IF z.fired THEN Consume(z.w, e, n, FALSE, FALSE) ELSE z.w
      BY <1>8, <1>9, <2>2 DEF Overloaded
    <3>2. Hit(asked, z.w, {a})
      BY <1>5, <3>1, ShootHits
    <3>3. z.w \in Worlds
      BY <3>2, HitWorlds
    <3>4. Spared(w.ship[e], z.w.ship[e])
      BY <1>4, <3>2 DEF Hit
    <3>5. Affords(z.w.ship[e], n, FALSE)
      BY <1>6, <3>4, SparedAffords
    <3>6. Hit(z.w, Consume(z.w, e, n, FALSE, FALSE), {e})
      BY <1>6, <3>3, <3>5, ConsumeHits
    <3>7. Hit(asked, Consume(z.w, e, n, FALSE, FALSE), {a, e})
      BY <1>5, <3>2, <3>6, HitOneHit
    <3>8. Hit(asked, z.w, {a, e})
      BY <3>2, HitMore
    <3> QED BY <3>1, <3>7, <3>8
  <2> QED BY <2>1, <2>2
<1>11. Hit(w, v, {a, e})
  BY <1>4, <1>10, HitFollowsHit
<1>12. e \in asked.log.answered
  BY <1>2, <1>4
<1> QED BY <1>10, <1>11, <1>12 DEF Hit

\* Whom the exchange asks to answer.
Able(x, t) == x.alive /\ x.active /\ x.prot = t
AskedUpTo(w, v, t, a, n) ==
  v.ship[t].alive /\ v.ship[a].alive =>
    \A e \in (Ship \cap 1..n) \ {t, a} :
      Able(w.ship[e], t) /\ Scope(w.ship[e]) = Scope(w.ship[t]) => e \in v.log.answered

\* The exchange that the log of a world tells of, from the world before it.
AllAsked(w, v) ==
  LET t == v.log.quarry
      a == v.log.shooter
  IN t # None => t \in Ship /\ a \in Ship /\ AskedUpTo(w, v, t, a, NShips)

LEMMA AnswerHits ==
  ASSUME NEW w \in Worlds, NEW t \in Ship, NEW a \in Ship, a # t, NEW n \in Ship, NEW x,
         Hit(w, x, {a} \cup 1..(n - 1)), AskedUpTo(w, x, t, a, n - 1),
         NEW v \in Answer(x, n, t, a, Listed(w, t))
  PROVE  Hit(w, v, {a} \cup 1..n) /\ AskedUpTo(w, v, t, a, n)
<1> DEFINE B == {a} \cup 1..(n - 1)
           C == {a} \cup 1..n
<1>1. x \in Worlds
  BY HitWorlds
<1>2. n \in Nat /\ n \notin 1..(n - 1) /\ B \subseteq C /\ {a, n} \subseteq C
      /\ B \subseteq Ship /\ C \subseteq Ship
  <2>1. NShips \in Nat /\ n \in 1..NShips
    BY BattleAssumption DEF Ship
  <2>2. n \in Nat /\ n \notin 1..(n - 1) /\ 1..(n - 1) \subseteq 1..n /\ n \in 1..n
        /\ 1..n \subseteq Ship
    BY <2>1 DEF Ship
  <2> QED BY <2>2
<1>3. \A e \in (Ship \cap 1..n) \ {t, a} : e # n => e \in (Ship \cap 1..(n - 1)) \ {t, a}
  BY <1>2 DEF Ship
<1> HIDE DEF B, C
<1>4. CASE v = x /\ ~(x.ship[a].alive /\ x.ship[n].alive /\ n \in Listed(w, t)
                      /\ IsEscort(x.ship[n], n, t, a))
  <2>1. Hit(w, v, C)
    BY <1>2, <1>4, HitMore DEF B
  <2>2. ASSUME v.ship[t].alive, v.ship[a].alive, n \notin {t, a}, Able(w.ship[n], t),
               Scope(w.ship[n]) = Scope(w.ship[t])
        PROVE  FALSE
    <3>1. n \in Ship \ B
      BY <1>2, <2>2 DEF B
    <3>2. Spared(w.ship[n], x.ship[n]) /\ Guards(w, x, n)
      BY <3>1 DEF Hit, B
    <3>3. x.ship[n].prot = t
      BY <1>4, <2>2, <3>2 DEF Guards, Able
    <3>4. n \in Listed(w, t)
      BY <2>2 DEF Listed, Able
    <3> QED BY <1>4, <2>2, <3>2, <3>3, <3>4 DEF IsEscort, Spared, Able
  <2>3. AskedUpTo(w, v, t, a, n)
    BY <1>3, <1>4, <2>2 DEF AskedUpTo
  <2> QED BY <2>1, <2>3 DEF C
<1>5. CASE x.ship[n].alive /\ n \notin {t, a} /\ v \in EscortShot(x, n, a)
  <2>1. Hit(x, v, {a, n}) /\ n \in v.log.answered
    BY <1>1, <1>5, EscortShotHits
  <2>2. Hit(w, v, C)
    BY <1>2, <2>1, HitFollowsHit DEF B
  <2>3. /\ v.ship[t].alive => x.ship[t].alive
        /\ v.ship[a].alive => x.ship[a].alive
        /\ x.log.answered \subseteq v.log.answered
    BY <2>1 DEF Hit, Follows, Worn
  <2>4. AskedUpTo(w, v, t, a, n)
    BY <1>3, <2>1, <2>3 DEF AskedUpTo
  <2> QED BY <2>2, <2>4 DEF C
<1> QED BY <1>4, <1>5 DEF Answer, IsEscort

LEMMA EscortsAnswerWell ==
  ASSUME NEW w \in Worlds, NEW t \in Ship, NEW a \in Ship, a # t, NEW hurt,
         NEW v \in EscortRetaliation(w, t, a, hurt)
  PROVE  /\ Follows(w, v)
         /\ v = w \/ (v.log.quarry = t /\ v.log.shooter = a /\ AskedUpTo(w, v, t, a, NShips))
<1> DEFINE l == [w.log EXCEPT !.quarry = t, !.shooter = a]
           noted == [w EXCEPT !.log = l]
           L == Listed(w, t)
           G == [n \in 0..NShips |->
                   {x \in Worlds : Hit(noted, x, {a} \cup 1..n) /\ AskedUpTo(noted, x, t, a, n)}]
           E == [n \in Ship |-> [x \in Worlds |-> Answer(x, n, t, a, L)]]
           Eqn(f) == f = [n \in 0..NShips |->
                            IF n = 0 THEN {noted} ELSE UNION {Answer(x, n, t, a, L) : x \in f[n - 1]}]
<1>1. CASE v = w
  BY <1>1, FollowsSelf
<1>2. CASE v # w
  <2>1. l \in Report /\ l.quarry = t /\ l.shooter = a /\ l.lost = w.log.lost
        /\ l.landed = w.log.landed
    <3>1. w.log \in Report
      BY WorldFields
    <3>2. \A x \in Report : [x EXCEPT !.quarry = t] \in Report /\ [x EXCEPT !.shooter = a] \in Report
      BY DEF Report
    <3>3. l = [[w.log EXCEPT !.quarry = t] EXCEPT !.shooter = a]
      BY <3>1 DEF Report
    <3>4. l \in Report
      BY <3>1, <3>2, <3>3
    <3> QED BY <3>1, <3>4 DEF Report
  <2>2. /\ noted \in Worlds /\ noted.ship = w.ship /\ noted.planet = w.planet
        /\ noted.AP = w.AP /\ noted.engaged = w.engaged /\ noted.log = l
    <3> HIDE DEF l
    <3> QED BY <2>1, LogFields
  <2>3. v \in Sweep({noted}, LAMBDA x, e : Answer(x, e, t, a, L))
    <3>1. [w EXCEPT !.log.quarry = t, !.log.shooter = a] = noted
      BY WorldFields DEF Worlds, Report
    <3> HIDE DEF noted
    <3> QED BY <1>2, <3>1 DEF EscortRetaliation
  <2> HIDE DEF noted, l
  <2>4. Follows(w, noted)
    <3>1. Census(noted) = Census(w)
      BY <2>1, <2>2, CensusSame, CensusIsInt
    <3>2. \A s \in Ship : Worn(w.ship[s], w.ship[s])
      BY FollowsSelf DEF Follows
    <3> QED BY <2>1, <2>2, <3>1, <3>2 DEF Follows
  <2>5. Listed(noted, t) = L
    BY <2>2 DEF Listed
  <2>6. NShips \in Nat /\ Ship = 1..NShips
    BY BattleAssumption DEF Ship
  <2>7. noted \in G[0]
    <3>1. {a} \cup 1..0 \subseteq Ship
      BY <2>6
    <3> QED BY <2>2, <2>6, <3>1, FollowsSelf DEF AskedUpTo
  <2>8. \A n \in 0..NShips : G[n] \subseteq Worlds
    OBVIOUS
  <2>9. ASSUME NEW n \in Ship, NEW x \in G[n - 1], NEW u \in Answer(x, n, t, a, L)
        PROVE  u \in G[n]
    <3>1. n - 1 \in 0..NShips /\ n \in 0..NShips
      BY <2>6
    <3>2. Hit(noted, x, {a} \cup 1..(n - 1)) /\ AskedUpTo(noted, x, t, a, n - 1)
      BY <2>9, <3>1
    <3>3. Hit(noted, u, {a} \cup 1..n) /\ AskedUpTo(noted, u, t, a, n)
      BY <2>2, <2>5, <2>9, <3>2, AnswerHits
    <3> QED BY <3>1, <3>3, HitWorlds
  <2>10. \E f : Eqn(f)
    <3> HIDE DEF G, E
    <3>0. PICK h : Swept(h, {noted}, E)
      BY SweepExists
    <3>1. /\ h = [n \in 0..NShips |-> h[n]] /\ h[0] = {noted}
          /\ \A n \in Ship : h[n] = UNION {E[n][x] : x \in h[n - 1]}
      BY <3>0 DEF Swept
    <3>2. \A n \in Ship : n \in 0..NShips /\ n # 0 /\ n - 1 \in 0..NShips
      BY <2>6
    <3>4. ASSUME NEW n \in Ship, h[n - 1] \subseteq G[n - 1] PROVE h[n] \subseteq G[n]
      <4>1. \A x \in h[n - 1] : E[n][x] = Answer(x, n, t, a, L)
        BY <2>8, <3>2, <3>4 DEF E
      <4> QED BY <2>9, <3>1, <3>4, <4>1
    <3>5. \A n \in 0..NShips : h[n] \subseteq G[n]
      BY <2>7, <3>1, <3>4, SweepStays
    <3>6. ASSUME NEW n \in Ship
          PROVE  h[n] = UNION {Answer(x, n, t, a, L) : x \in h[n - 1]}
      <4>1. \A x \in h[n - 1] : E[n][x] = Answer(x, n, t, a, L)
        BY <2>8, <3>2, <3>5 DEF E
      <4> QED BY <3>1, <4>1
    <3>7. ASSUME NEW n \in 0..NShips
          PROVE  h[n] = IF n = 0 THEN {noted} ELSE UNION {Answer(x, n, t, a, L) : x \in h[n - 1]}
      <4>1. CASE n = 0
        BY <3>1, <4>1
      <4>2. CASE n # 0
        <5>1. n \in Ship
          BY <2>6, <4>2
        <5> QED BY <3>6, <4>2, <5>1, Zenon
      <4> QED BY <4>1, <4>2
    <3>9. Eqn(h)
      BY <3>1, <3>7
    <3> QED BY <3>9
  <2> DEFINE f == CHOOSE f : Eqn(f)
  <2>11. Eqn(f)
    BY <2>10
  <2>12. Sweep({noted}, LAMBDA x, e : Answer(x, e, t, a, L)) = f[NShips]
    BY DEF Sweep
  <2> HIDE DEF f, G, E
  <2>13. f[0] = {noted}
    BY <2>6, <2>11
  <2>14. ASSUME NEW n \in Ship, f[n - 1] \subseteq G[n - 1] PROVE f[n] \subseteq G[n]
    <3>1. n \in 0..NShips /\ n # 0
      BY <2>6
    <3>2. f[n] = UNION {Answer(x, n, t, a, L) : x \in f[n - 1]}
      BY <2>11, <3>1
    <3> QED BY <2>9, <2>14, <3>2
  <2>15. f[NShips] \subseteq G[NShips]
    <3>1. f[0] \subseteq G[0]
      BY <2>7, <2>13
    <3>2. NShips \in 0..NShips
      BY <2>6
    <3> QED BY <2>14, <3>1, <3>2, SweepStays
  <2>16. Hit(noted, v, {a} \cup 1..NShips) /\ AskedUpTo(noted, v, t, a, NShips)
    <3>1. v \in G[NShips]
      BY <2>3, <2>12, <2>15
    <3>2. NShips \in 0..NShips
      BY <2>6
    <3> QED BY <3>1, <3>2 DEF G
  <2>17. Follows(w, v)
    BY <2>4, <2>16, FollowsFollows DEF Hit
  <2>18. AskedUpTo(w, v, t, a, NShips)
    BY <2>2, <2>16 DEF AskedUpTo
  <2>19. v.log.quarry = t /\ v.log.shooter = a
    BY <2>1, <2>2, <2>16 DEF Hit
  <2> QED BY <2>17, <2>18, <2>19
<1> QED BY <1>1, <1>2

LEMMA ShotShape ==
  ASSUME NEW w, NEW a, NEW t, NEW str, NEW beam, NEW ignore,
         NEW x \in Shoot(w, a, t, str, beam, ignore)
  PROVE  x = [w |-> x.w, fired |-> x.fired, hurt |-> x.hurt]
<1>1. CASE x = Misfire(w)
  BY <1>1 DEF Misfire
<1>2. CASE x \in Damages(w, t)
  BY <1>2 DEF Damages
<1>3. CASE x \in Radiation(w, t)
  BY <1>3 DEF Radiation
<1> QED BY <1>1, <1>2, <1>3 DEF Shoot

\* What a ship's answer and those of its escorts leave of an exchange.
LEMMA ExchangeHolds ==
  ASSUME NEW w \in Worlds, NEW a \in Ship, NEW t \in Ship, a # t, NEW str \in Amount,
         NEW beam, Affords(w.ship[a], str, beam), w.log.quarry = None,
         NEW x \in Exchange(w, a, t, str, beam)
  PROVE  Follows(w, x.w) /\ AllAsked(w, x.w)
<1> DEFINE retal == CheckRetal(w.ship[t])
           lit == LaserOn(w.ship[t])
           Paying(r) == [r EXCEPT !.w = Consume(@, a, str, beam, FALSE)]
<1>1. PICK r \in Shoot(w, a, t, str, beam, FALSE) :
        IF ~r.fired THEN x = [w |-> w, fired |-> FALSE]
        ELSE \E u \in SelfRetaliation(Paying(r), t, a, retal, lit) :
               \E v \in EscortRetaliation(u, t, a, r.hurt) : x = [w |-> v, fired |-> TRUE]
  BY DEF Exchange
<1>2. CASE x = [w |-> w, fired |-> FALSE]
  BY <1>2, FollowsSelf DEF AllAsked
<1>3. CASE x # [w |-> w, fired |-> FALSE]
  <2> DEFINE p == Consume(r.w, a, str, beam, FALSE)
  <2>1. PICK u \in SelfRetaliation(Paying(r), t, a, retal, lit) :
           \E v \in EscortRetaliation(u, t, a, r.hurt) : x = [w |-> v, fired |-> TRUE]
    BY <1>1, <1>3
  <2>2. PICK v \in EscortRetaliation(u, t, a, r.hurt) : x = [w |-> v, fired |-> TRUE]
    BY <2>1
  <2>3. Hit(w, r.w, {t}) /\ AfterShot(w.ship[t], r.w.ship[t])
    BY <1>1, ShootHits
  <2>4. r.w \in Worlds
    BY <2>3, HitWorlds
  <2>5. Affords(r.w.ship[a], str, beam)
    <3>1. Spared(w.ship[a], r.w.ship[a])
      BY <2>3 DEF Hit
    <3> QED BY <3>1, SparedAffords
  <2>6. Hit(r.w, p, {a})
    <3>1. str \in Nat
      BY DEF Amount
    <3> QED BY <2>4, <2>5, <3>1, ConsumeHits
  <2>7. Paying(r).w = p
    <3>1. r = [w |-> r.w, fired |-> r.fired, hurt |-> r.hurt]
      BY <1>1, ShotShape
    <3> HIDE DEF p
    <3>2. \A y : [r EXCEPT !.w = y].w = y
      BY <3>1
    <3>3. Paying(r) = [r EXCEPT !.w = p]
      BY <3>1 DEF p
    <3> QED BY <3>2, <3>3
  <2>8. p \in Worlds
    BY <2>6, HitWorlds
  <2>9. AfterShot(w.ship[t], p.ship[t])
    <3>1. Spared(r.w.ship[t], p.ship[t])
      BY <2>6 DEF Hit
    <3> QED BY <2>3, <3>1 DEF AfterShot, Spared, LaserOn
  <2> HIDE DEF p
  <2>10. Hit(p, u, {a, t})
    <3> DEFINE y == Paying(r)
    <3>1. u \in SelfRetaliation(y, t, a, retal, lit) /\ y.w = p
      BY <2>1, <2>7
    <3> HIDE DEF y
    <3>2. w.ship[t] \in Vessel
      BY WorldFields
    <3> QED BY <2>8, <2>9, <3>1, <3>2, SelfRetaliationHits
  <2>11. Hit(w, u, {a, t})
    <3>1. {a, t} \in SUBSET Ship /\ {t} \in SUBSET Ship /\ {t} \cup {a} \subseteq {a, t}
          /\ {a, t} \cup {a, t} \subseteq {a, t} /\ {a} \in SUBSET Ship
      OBVIOUS
    <3>2. Hit(w, p, {a, t})
      BY <2>3, <2>6, <3>1, HitFollowsHit
    <3> QED BY <2>10, <3>1, <3>2, HitFollowsHit
  <2>12. u \in Worlds
    BY <2>11, HitWorlds
  <2>13. /\ Follows(u, v)
         /\ v = u \/ (v.log.quarry = t /\ v.log.shooter = a /\ AskedUpTo(u, v, t, a, NShips))
    BY <2>2, <2>12, EscortsAnswerWell
  <2>14. Follows(w, v)
    BY <2>11, <2>13, FollowsFollows DEF Hit
  <2>15. CASE v = u
    BY <2>2, <2>11, <2>14, <2>15 DEF Hit, AllAsked
  <2>16. CASE v.log.quarry = t /\ v.log.shooter = a /\ AskedUpTo(u, v, t, a, NShips)
    <3>1. ASSUME v.ship[t].alive, v.ship[a].alive, NEW e \in (Ship \cap 1..NShips) \ {t, a},
                 Able(w.ship[e], t), Scope(w.ship[e]) = Scope(w.ship[t])
          PROVE  e \in v.log.answered
      <4>1. u.ship[t].alive
        BY <2>13, <3>1 DEF Follows, Worn
      <4>2. Spared(w.ship[e], u.ship[e]) /\ Guards(w, u, e)
        BY <2>11, <3>1 DEF Hit
      <4>3. Able(u.ship[e], t)
        BY <3>1, <4>1, <4>2 DEF Able, Spared, Guards
      <4>4. Scope(u.ship[e]) = Scope(u.ship[t])
        BY <2>11, <3>1 DEF Hit, Follows, Worn, Scope
      <4> QED BY <2>16, <3>1, <4>3, <4>4 DEF AskedUpTo
    <3>2. AskedUpTo(w, v, t, a, NShips)
      BY <3>1 DEF AskedUpTo
    <3> QED BY <2>2, <2>14, <2>16, <3>2 DEF AllAsked
  <2> QED BY <2>13, <2>15, <2>16
<1> QED BY <1>2, <1>3

\* An attack with all that it sets off, and its action point.
LEMMA ShipAttackHolds ==
  ASSUME NEW w \in Worlds, NEW a \in Ship, NEW t \in Ship, a # t, NEW str \in Amount,
         NEW beam, NEW p \in Player,
         w.ship[a].alive, Affords(w.ship[a], str, beam), w.log.quarry = None,
         NEW v \in ShipAttack(w, a, t, str, beam, p)
  PROVE  /\ v \in Worlds /\ Census(v) = Census(w) /\ AllAsked(w, v)
         /\ v.engaged = w.engaged /\ v.log.landed = w.log.landed
<1>1. w.AP[p] >= 1
  <2>1. w.AP[p] \in Nat /\ ~(w.AP[p] < 1)
    BY WorldFields DEF ShipAttack
  <2> QED BY <2>1
<1>2. PICK o \in Overloads(w, a, beam, str) :
        v \in IF o.str = 0 THEN {Charge(o.w, p)}
              ELSE {IF x.fired THEN Charge(x.w, p) ELSE x.w : x \in Exchange(o.w, a, t, o.str, beam)}
  BY DEF ShipAttack
<1>3. Overloaded(w, a, str, o)
  <2>1. Ready(w.ship[a], str, beam)
    BY DEF Ready
  <2> QED BY <1>2, <2>1, OverloadsHit
<1>4. PICK u : Follows(w, u) /\ AllAsked(w, u) /\ (v = u \/ v = Charge(u, p))
  <2>1. CASE o.str = 0
    <3>1. v = Charge(o.w, p)
      BY <1>2, <2>1
    <3>2. o.w.log.quarry = None
      BY <1>3 DEF Overloaded, Hit
    <3> QED BY <1>3, <3>1, <3>2 DEF Overloaded, Hit, AllAsked
  <2>2. CASE o.str # 0
    <3>1. PICK x \in Exchange(w, a, t, str, beam) : v = Charge(x.w, p) \/ v = x.w
      BY <1>2, <1>3, <2>2 DEF Overloaded
    <3>2. Follows(w, x.w) /\ AllAsked(w, x.w)
      BY <3>1, ExchangeHolds
    <3> QED BY <3>1, <3>2
  <2> QED BY <2>1, <2>2
<1>5. u \in Worlds /\ u.AP = w.AP
  BY <1>4 DEF Follows
<1>6. CASE v = u
  BY <1>4, <1>6 DEF Follows
<1>7. CASE v = Charge(u, p)
  <2>1. /\ v \in Worlds /\ v.ship = u.ship /\ v.engaged = u.engaged /\ v.log = u.log
        /\ Census(v) = Census(u)
    BY <1>1, <1>5, <1>7, ChargeFields
  <2>2. AllAsked(w, v)
    BY <1>4, <2>1 DEF AllAsked, AskedUpTo
  <2> QED BY <1>4, <2>1, <2>2 DEF Follows
<1> QED BY <1>4, <1>6, <1>7

-----------------------------------------------------------------------------
(* The planet.                                                             *)

LEMMA PlanetFields ==
  ASSUME NEW w \in Worlds, NEW P \in Surface
  PROVE  /\ [w EXCEPT !.planet = P] \in Worlds
         /\ [w EXCEPT !.planet = P].ship = w.ship /\ [w EXCEPT !.planet = P].planet = P
         /\ [w EXCEPT !.planet = P].AP = w.AP /\ [w EXCEPT !.planet = P].engaged = w.engaged
         /\ [w EXCEPT !.planet = P].log = w.log
<1>1. [w EXCEPT !.planet = P] \in Worlds
  BY DEF Worlds
<1> QED BY <1>1 DEF Worlds

LEMMA SurfaceEdits ==
  ASSUME NEW P \in Surface
  PROVE  /\ P.popn \in Nat /\ P.guns \in [Player -> Nat] /\ P.destruct \in [Player -> Nat]
         /\ P.owner \in Player \cup {None}
         /\ \A n \in Amount : [P EXCEPT !.popn = n] \in Surface
         /\ \A p \in Player \cup {None} : [P EXCEPT !.owner = p] \in Surface
         /\ \A f \in [Player -> Nat] :
              [P EXCEPT !.guns = f] \in Surface /\ [P EXCEPT !.destruct = f] \in Surface
<1>1. \A n \in Amount : [P EXCEPT !.popn = n] \in Surface
  BY DEF Surface, Amount
<1>2. \A p \in Player \cup {None} : [P EXCEPT !.owner = p] \in Surface
  BY DEF Surface
<1>3. \A f \in [Player -> Nat] : [P EXCEPT !.guns = f] \in Surface
  BY DEF Surface
<1>4. \A f \in [Player -> Nat] : [P EXCEPT !.destruct = f] \in Surface
  BY DEF Surface
<1> QED BY <1>1, <1>2, <1>3, <1>4 DEF Surface

\* Only the planet, and the count of the dead, are not what they were.
Shelled(w, v) ==
  /\ v \in Worlds /\ Census(v) = Census(w)
  /\ v.ship = w.ship /\ v.AP = w.AP /\ v.engaged = w.engaged
  /\ v.log.landed = w.log.landed /\ v.log.quarry = w.log.quarry

\* Combat in which nobody's escorts are asked.
Quiet(w, v) == Follows(w, v) /\ v.log.quarry = w.log.quarry

LEMMA ShelledQuiet ==
  ASSUME NEW w \in Worlds, NEW v, Shelled(w, v)
  PROVE  Quiet(w, v)
<1>1. \A s \in Ship : Worn(w.ship[s], w.ship[s])
  BY FollowsSelf DEF Follows
<1> QED BY <1>1 DEF Shelled, Quiet, Follows

LEMMA HitQuiet ==
  ASSUME NEW w, NEW v, NEW S, Hit(w, v, S)
  PROVE  Quiet(w, v)
BY DEF Hit, Quiet

LEMMA QuietSelf == \A w \in Worlds : Quiet(w, w)
BY FollowsSelf DEF Quiet

LEMMA QuietQuiet ==
  ASSUME NEW w \in Worlds, NEW v, NEW u, Quiet(w, v), Quiet(v, u)
  PROVE  Quiet(w, u)
BY FollowsFollows DEF Quiet

LEMMA QuietWorlds ==
  ASSUME NEW w, NEW v, Quiet(w, v)
  PROVE  v \in Worlds
BY DEF Quiet, Follows

\* The people of the planet do not change.
LEMMA SurfaceShells ==
  ASSUME NEW w \in Worlds, NEW P \in Surface, P.popn = w.planet.popn
  PROVE  Shelled(w, [w EXCEPT !.planet = P]) /\ [w EXCEPT !.planet = P].planet = P
<1> DEFINE v == [w EXCEPT !.planet = P]
<1>1. /\ v \in Worlds /\ v.ship = w.ship /\ v.planet = P
      /\ v.AP = w.AP /\ v.engaged = w.engaged /\ v.log = w.log
  BY PlanetFields
<1> HIDE DEF v
<1>2. Census(v) = Census(w)
  BY <1>1, CensusSame, CensusIsInt
<1> QED BY <1>1, <1>2 DEF Shelled, v

LEMMA ThinnedShells ==
  ASSUME NEW w \in Worlds, NEW n \in Nat, n <= w.planet.popn
  PROVE  Shelled(w, Thinned(w, n)) /\ Thinned(w, n).planet.guns = w.planet.guns
<1> DEFINE k == w.planet.popn - n
           P == [w.planet EXCEPT !.popn = k]
           u == [w EXCEPT !.planet = P]
           v == Lost(u, n)
<1>1. w.planet \in Surface /\ w.planet.popn \in Nat
  BY WorldFields, SurfaceEdits
<1>2. P \in Surface /\ P.popn = k /\ P.guns = w.planet.guns /\ P.owner = w.planet.owner
  <2>1. k \in Amount
    BY <1>1 DEF Amount
  <2> HIDE DEF k
  <2>2. P \in Surface
    BY <1>1, <2>1, SurfaceEdits
  <2> QED BY <1>1, <2>2 DEF Surface
<1>3. [w EXCEPT !.planet.popn = @ - n] = u
  BY <1>1 DEF Worlds, Surface
<1> HIDE DEF P
<1>4. /\ u \in Worlds /\ u.ship = w.ship /\ u.planet = P
      /\ u.AP = w.AP /\ u.engaged = w.engaged /\ u.log = w.log
  BY <1>2, PlanetFields
<1> HIDE DEF u
<1>5. /\ v \in Worlds /\ v.ship = u.ship /\ v.planet = u.planet /\ v.AP = u.AP
      /\ v.engaged = u.engaged /\ v.log.lost = u.log.lost + n
      /\ v.log.landed = u.log.landed /\ v.log.quarry = u.log.quarry
  BY <1>4, LostFields
<1> HIDE DEF v
<1>6. Census(v) = Census(w)
  <2>1. \A t \in Ship : Heads(v.ship)[t] = Heads(w.ship)[t]
    BY <1>4, <1>5
  <2>2. Census(v) = Census(w) + (v.planet.popn - w.planet.popn) + (v.log.lost - w.log.lost)
    BY <1>5, <2>1, CensusSame
  <2> QED BY <1>1, <1>2, <1>4, <1>5, <2>2, CensusIsInt
<1> QED BY <1>2, <1>3, <1>4, <1>5, <1>6 DEF Shelled, v, Thinned

LEMMA ShelledShelled ==
  ASSUME NEW w, NEW v, NEW u, Shelled(w, v), Shelled(v, u)
  PROVE  Shelled(w, u)
BY DEF Shelled

LEMMA BlastsShell ==
  ASSUME NEW w \in Worlds, NEW x \in Blasts(w)
  PROVE  Shelled(w, x.w) /\ x.nuked \subseteq Player
<1> DEFINE p == w.planet.owner
           Standing == IF p = None THEN {0} ELSE 0..w.planet.guns[p]
           After(n, g) == Emptied(Recounted(Thinned(w, n), p, g))
<1>1. w.planet \in Surface /\ w.planet.popn \in Nat /\ p \in Player \cup {None}
      /\ w.planet.guns \in [Player -> Nat]
  BY WorldFields, SurfaceEdits
<1>2. /\ \E n \in Nat, g \in Standing : n <= w.planet.popn /\ x.w = After(n, g)
      /\ x.nuked \subseteq {p} \ {None}
  <2>1. Min({1, w.planet.popn}) = IF 1 <= w.planet.popn THEN 1 ELSE w.planet.popn
    BY <1>1, MinOfTwo
  <2>2. \A n \in 0..Min({1, w.planet.popn}) : n \in Nat /\ n <= w.planet.popn
    BY <1>1, <2>1
  <2> DEFINE A == {[w |-> After(n, g), fired |-> TRUE, wasted |-> FALSE, nuked |-> {}] :
                     n \in 0..Min({1, w.planet.popn}), g \in Standing}
             B == {[w |-> After(w.planet.popn, g), fired |-> TRUE,
                    wasted |-> TRUE, nuked |-> {p} \ {None}] : g \in Standing}
  <2>3. x \in A \/ x \in B
    <3>1. Blasts(w) = A \cup B
      BY DEF Blasts
    <3> HIDE DEF A, B
    <3> QED BY <3>1
  <2> HIDE DEF Standing, After
  <2>4. CASE x \in A
    BY <2>2, <2>4
  <2>5. CASE x \in B
    BY <1>1, <2>5
  <2> QED BY <2>3, <2>4, <2>5
<1>3. PICK n \in Nat, g \in Standing : n <= w.planet.popn /\ x.w = After(n, g)
  BY <1>2
<1>4. Shelled(w, Thinned(w, n)) /\ Thinned(w, n).planet.guns = w.planet.guns
  BY <1>3, ThinnedShells
<1>5. Shelled(w, Recounted(Thinned(w, n), p, g))
  <2> DEFINE v == Thinned(w, n)
             P == [v.planet EXCEPT !.guns = [w.planet.guns EXCEPT ![p] = g]]
  <2>1. v \in Worlds /\ v.planet.guns = w.planet.guns
    BY <1>4 DEF Shelled
  <2> HIDE DEF v
  <2>2. CASE p = None
    BY <1>4, <2>2 DEF v, Recounted
  <2>3. CASE p # None
    <3>1. g \in Nat /\ p \in Player
      BY <1>1, <2>3
    <3>2. [w.planet.guns EXCEPT ![p] = g] \in [Player -> Nat]
      BY <1>1, <3>1
    <3>3. v.planet \in Surface
      BY <2>1, WorldFields
    <3>4. P \in Surface
      BY <3>2, <3>3, SurfaceEdits
    <3>5. P.popn = v.planet.popn
      BY <3>3 DEF Surface
    <3>6. [v EXCEPT !.planet.guns[p] = g] = [v EXCEPT !.planet = P]
      BY <2>1, <3>3 DEF Worlds, Surface
    <3>7. Shelled(v, [v EXCEPT !.planet = P])
      <4> HIDE DEF P
      <4> QED BY <2>1, <3>4, <3>5, SurfaceShells
    <3>8. Shelled(w, [v EXCEPT !.planet.guns[p] = g])
      BY <1>4, <3>6, <3>7, ShelledShelled DEF v
    <3> QED BY <2>3, <3>8 DEF v, Recounted
  <2> QED BY <2>2, <2>3
<1>6. Shelled(w, After(n, g))
  <2> DEFINE v == Recounted(Thinned(w, n), p, g)
             P == [v.planet EXCEPT !.owner = None]
  <2>1. v \in Worlds /\ Shelled(w, v)
    BY <1>5 DEF Shelled
  <2> HIDE DEF v
  <2>2. v.planet \in Surface
    BY <2>1, WorldFields
  <2>3. P \in Surface /\ P.popn = v.planet.popn
    <3>1. P \in Surface
      BY <2>2, SurfaceEdits
    <3> QED BY <2>2, <3>1 DEF Surface
  <2>4. [v EXCEPT !.planet.owner = None] = [v EXCEPT !.planet = P]
    BY <2>1 DEF Worlds
  <2>5. Shelled(v, [v EXCEPT !.planet.owner = None])
    <3> HIDE DEF P
    <3> QED BY <2>1, <2>3, <2>4, SurfaceShells
  <2>6. Shelled(w, Emptied(v))
    BY <2>1, <2>5, ShelledShelled DEF Emptied
  <2> QED BY <2>6 DEF v
<1>7. {p} \ {None} \subseteq Player
  BY <1>1
<1> QED BY <1>2, <1>3, <1>6, <1>7

LEMMA ShootPlanetShells ==
  ASSUME NEW w \in Worlds, NEW s, NEW str, NEW x \in ShootPlanet(w, s, str)
  PROVE  Shelled(w, x.w) /\ x.nuked \subseteq Player
<1>1. CASE x \in Blasts(w)
  BY <1>1, BlastsShell
<1>2. CASE x = [w |-> w, fired |-> FALSE, wasted |-> FALSE, nuked |-> {}]
  BY <1>2 DEF Shelled
<1> QED BY <1>1, <1>2 DEF ShootPlanet

\* The guns of the planet: what they fire is withdrawn from its stock.
LEMMA WithdrawnShells ==
  ASSUME NEW w \in Worlds, NEW p \in Player, NEW n \in Nat, n <= w.planet.destruct[p]
  PROVE  Shelled(w, Withdrawn(w, p, n))
<1> DEFINE k == w.planet.destruct[p] - n
           d == [w.planet.destruct EXCEPT ![p] = k]
           P == [w.planet EXCEPT !.destruct = d]
<1>1. w.planet \in Surface /\ w.planet.destruct \in [Player -> Nat]
  BY WorldFields, SurfaceEdits
<1>2. k \in Nat
  BY <1>1
<1>3. d \in [Player -> Nat]
  <2> HIDE DEF k
  <2> QED BY <1>1, <1>2
<1>4. Withdrawn(w, p, n) = [w EXCEPT !.planet = P]
  BY <1>1 DEF Withdrawn, Worlds, Surface
<1> HIDE DEF d
<1>5. P \in Surface
  BY <1>1, <1>3, SurfaceEdits
<1>6. P.popn = w.planet.popn
  BY <1>1 DEF Surface
<1> HIDE DEF P
<1> QED BY <1>4, <1>5, <1>6, SurfaceShells

LEMMA GunsQuiet ==
  ASSUME NEW w \in Worlds, NEW s \in Ship, NEW p \in Player, NEW v \in Guns(w, s, p)
  PROVE  Quiet(w, v)
<1> DEFINE n == Min({w.planet.destruct[p], w.planet.guns[p]})
           u == Withdrawn(w, p, n)
<1>1. w.planet.destruct[p] \in Nat /\ w.planet.guns[p] \in Nat
  BY WorldFields, SurfaceEdits
<1>2. n = IF w.planet.destruct[p] <= w.planet.guns[p] THEN w.planet.destruct[p]
                                                     ELSE w.planet.guns[p]
  BY <1>1, MinOfTwo
<1>3. n \in Nat /\ n <= w.planet.destruct[p]
  BY <1>1, <1>2
<1>4. Shelled(w, u)
  <2> HIDE DEF n
  <2> QED BY <1>3, WithdrawnShells
<1>5. PICK x \in PlanetShoots(u, s, n) : v = x.w
  BY DEF Guns
<1>6. u \in Worlds
  BY <1>4 DEF Shelled
<1> HIDE DEF u, n
<1>7. Hit(u, v, {s})
  BY <1>5, <1>6, PlanetShootsHit
<1> QED BY <1>4, <1>7, HitQuiet, ShelledQuiet, QuietQuiet

LEMMA ProtectorQuiet ==
  ASSUME NEW x \in Worlds, NEW e \in Ship, NEW s \in Ship, NEW v \in Protector(x, e, s)
  PROVE  Quiet(x, v)
<1>1. CASE v = x
  BY <1>1, QuietSelf
<1>2. CASE v # x
  <2>1. x.ship[e].alive /\ e # s /\ v \in EscortShot(x, e, s)
    BY <1>2 DEF Protector
  <2> QED BY <2>1, EscortShotHits, HitQuiet
<1> QED BY <1>1, <1>2

LEMMA BombardRetaliationQuiet ==
  ASSUME NEW w \in Worlds, NEW s \in Ship, NEW wasted, NEW nuked \in SUBSET Player,
         NEW v \in BombardRetaliation(w, s, wasted, nuked)
  PROVE  Quiet(w, v)
<1> DEFINE ws == IF nuked = {} THEN {w} ELSE UNION {Guns(w, s, p) : p \in nuked}
           K == {x \in Worlds : Quiet(w, x)}
           E == [n \in Ship |-> [x \in K |-> Protector(x, n, s)]]
           Eqn(f) == f = [n \in 0..NShips |->
                        IF n = 0 THEN ws ELSE UNION {Protector(x, n, s) : x \in f[n - 1]}]
<1>1. ws \subseteq K
  <2>1. w \in K
    BY QuietSelf
  <2>2. \A p \in nuked : Guns(w, s, p) \subseteq K
    BY GunsQuiet, QuietWorlds
  <2> HIDE DEF K
  <2> QED BY <2>1, <2>2
<1>2. ASSUME NEW n \in Ship, NEW x \in K PROVE Protector(x, n, s) \subseteq K
  <2>1. \A u \in Protector(x, n, s) : Quiet(w, u)
    BY ProtectorQuiet, QuietQuiet
  <2> QED BY <2>1, QuietWorlds
<1> HIDE DEF ws
<1> HIDE DEF K
<1>3. \E f : Eqn(f)
  <2>1. \A n \in Ship : \A x \in K : E[n][x] \subseteq K
    BY <1>2
  <2> HIDE DEF E
  <2>2. PICK h : Swept(h, ws, E) /\ \A n \in 0..NShips : h[n] \subseteq K
    BY <1>1, <2>1, SweepWithin
  <2>3. \A n \in 0..NShips :
          h[n] = IF n = 0 THEN ws ELSE UNION {Protector(x, n, s) : x \in h[n - 1]}
    <3> SUFFICES ASSUME NEW n \in 0..NShips
                 PROVE  h[n] = IF n = 0 THEN ws ELSE UNION {Protector(x, n, s) : x \in h[n - 1]}
      OBVIOUS
    <3>1. CASE n = 0
      BY <2>2, <3>1 DEF Swept
    <3>2. CASE n # 0
      <4>1. n \in Ship /\ n - 1 \in 0..NShips
        BY <3>2, ShipsAre
      <4>2. \A x \in h[n - 1] : E[n][x] = Protector(x, n, s)
        BY <2>2, <4>1 DEF E
      <4>3. h[n] = UNION {E[n][x] : x \in h[n - 1]}
        BY <2>2, <4>1 DEF Swept
      <4>4. h[n] = UNION {Protector(x, n, s) : x \in h[n - 1]}
        BY <4>2, <4>3
      <4> QED BY <3>2, <4>4, Zenon
    <3> QED BY <3>1, <3>2
  <2>4. h = [n \in 0..NShips |-> h[n]]
    BY <2>2 DEF Swept
  <2>5. Eqn(h)
    BY <2>3, <2>4
  <2> QED BY <2>5
<1> DEFINE f == CHOOSE f : Eqn(f)
<1>4. Eqn(f)
  BY <1>3
<1>5. Sweep(ws, LAMBDA x, e : Protector(x, e, s)) = f[NShips]
  BY DEF Sweep
<1> HIDE DEF f
<1>6. f[0] \subseteq K
  <2>1. f[0] = ws
    BY <1>4, ShipsAre
  <2> QED BY <1>1, <2>1
<1>7. ASSUME NEW n \in Ship, f[n - 1] \subseteq K PROVE f[n] \subseteq K
  <2>1. n \in 0..NShips /\ n # 0
    BY ShipsAre
  <2>2. f[n] = UNION {Protector(x, n, s) : x \in f[n - 1]}
    BY <1>4, <2>1
  <2> QED BY <1>2, <1>7, <2>2
<1>8. Sweep(ws, LAMBDA x, e : Protector(x, e, s)) \subseteq K
  <2>1. \A n \in 0..NShips : f[n] \subseteq K
    BY <1>6, <1>7, SweepEnds
  <2> QED BY <1>5, <2>1, ShipsAre
<1>9. v = w \/ v \in Sweep(ws, LAMBDA x, e : Protector(x, e, s))
  BY DEF BombardRetaliation, ws
<1> QED BY <1>8, <1>9, QuietSelf DEF K

\* A ship shells the sector that fired at it.
LEMMA PlanetRetaliationQuiet ==
  ASSUME NEW w \in Worlds, NEW e \in Ship, NEW str \in Amount, NEW cold \in BOOLEAN,
         w.ship[e].alive \/ str = 0 \/ ~LaserOn(w.ship[e]),
         cold \/ Affords(w.ship[e], str, FALSE),
         NEW v \in PlanetRetaliation(w, e, str, cold)
  PROVE  Quiet(w, v)
<1>1. PICK o \in Overloads(w, e, FALSE, str) :
        IF o.str = 0 THEN v = o.w
        ELSE \E x \in ShootPlanet(o.w, e, o.str) :
               v = IF x.fired THEN Consume(x.w, e, o.str, FALSE, cold) ELSE x.w
  BY DEF PlanetRetaliation
<1>2. Overloaded(w, e, str, o)
  <2>1. o \in Overloads(w, e, FALSE, str)
    BY <1>1
  <2> QED BY <2>1, PlainOverloadsHit
<1>3. CASE o.str = 0
  BY <1>1, <1>2, <1>3, HitQuiet DEF Overloaded
<1>4. CASE o.str # 0
  <2>1. PICK x \in ShootPlanet(w, e, str) :
          v = IF x.fired THEN Consume(x.w, e, str, FALSE, cold) ELSE x.w
    BY <1>1, <1>2, <1>4 DEF Overloaded
  <2>2. Shelled(w, x.w)
    BY <2>1, ShootPlanetShells
  <2>3. x.w \in Worlds /\ x.w.ship = w.ship
    BY <2>2 DEF Shelled
  <2>4. Hit(x.w, Consume(x.w, e, str, FALSE, cold), {e})
    <3>1. cold \/ Affords(x.w.ship[e], str, FALSE)
      BY <2>3
    <3>2. str \in Nat
      BY DEF Amount
    <3> QED BY <2>3, <3>1, <3>2, ConsumeHits
  <2>5. Quiet(w, x.w)
    BY <2>2, ShelledQuiet
  <2>6. Quiet(w, Consume(x.w, e, str, FALSE, cold))
    BY <2>4, <2>5, HitQuiet, QuietQuiet
  <2> QED BY <2>1, <2>5, <2>6
<1> QED BY <1>3, <1>4

LEMMA AvengerQuiet ==
  ASSUME NEW x \in Worlds, NEW e \in Ship, NEW t, NEW v \in Avenger(x, e, t)
  PROVE  Quiet(x, v)
<1> DEFINE n == CheckRetal(x.ship[e])
<1>1. CASE v = x
  BY <1>1, QuietSelf
<1>2. CASE v # x
  <2>1. x.ship[e].alive /\ v \in PlanetRetaliation(x, e, n, FALSE)
    BY <1>2 DEF Avenger
  <2>2. n \in Amount /\ Affords(x.ship[e], n, FALSE)
    BY WorldFields, RetalBounded DEF Amount
  <2> HIDE DEF n
  <2> QED BY <2>1, <2>2, PlanetRetaliationQuiet
<1> QED BY <1>1, <1>2

\* retal and lit are those of the ship before the planet's shot.
LEMMA DefendRetaliationQuiet ==
  ASSUME NEW w \in Worlds, NEW t \in Ship, NEW y \in Vessel, AfterShot(y, w.ship[t]),
         NEW v \in DefendRetaliation(w, t, CheckRetal(y), LaserOn(y))
  PROVE  Quiet(w, v)
<1> DEFINE retal == CheckRetal(y)
           cold == LaserOn(y) /\ ~LaserOn(w.ship[t])
           own == IF retal > 0 /\ w.ship[t].retaliate THEN PlanetRetaliation(w, t, retal, cold)
                  ELSE {w}
           K == {x \in Worlds : Quiet(w, x)}
           E == [n \in Ship |-> [x \in K |-> Avenger(x, n, t)]]
           Eqn(f) == f = [n \in 0..NShips |->
                        IF n = 0 THEN own ELSE UNION {Avenger(x, n, t) : x \in f[n - 1]}]
<1>1. own \subseteq K
  <2>1. w \in K
    BY QuietSelf
  <2>2. ASSUME retal > 0, NEW u \in PlanetRetaliation(w, t, retal, cold) PROVE u \in K
    <3>1. retal \in Nat /\ y.alive /\ Affords(y, retal, FALSE)
      <4>1. retal \in Nat /\ (retal > 0 => y.alive) /\ Affords(y, retal, FALSE)
        BY RetalBounded
      <4> HIDE DEF retal
      <4>2. y.alive
        BY <2>2, <4>1
      <4> QED BY <4>1, <4>2
    <3>2. w.ship[t].alive \/ retal = 0 \/ ~LaserOn(w.ship[t])
      BY <3>1 DEF AfterShot, LaserOn
    <3>3. cold \/ Affords(w.ship[t], retal, FALSE)
      BY <3>1 DEF AfterShot, Affords
    <3>4. retal \in Amount /\ cold \in BOOLEAN
      BY <3>1 DEF Amount
    <3> HIDE DEF retal, cold, K
    <3>5. Quiet(w, u)
      BY <2>2, <3>2, <3>3, <3>4, PlanetRetaliationQuiet
    <3> QED BY <3>5, QuietWorlds DEF K
  <2> HIDE DEF K, retal, cold
  <2> QED BY <2>1, <2>2
<1>2. ASSUME NEW n \in Ship, NEW x \in K PROVE Avenger(x, n, t) \subseteq K
  <2>1. \A u \in Avenger(x, n, t) : Quiet(w, u)
    BY AvengerQuiet, QuietQuiet
  <2> QED BY <2>1, QuietWorlds
<1> HIDE DEF own
<1> HIDE DEF K
<1>3. \E f : Eqn(f)
  <2>1. \A n \in Ship : \A x \in K : E[n][x] \subseteq K
    BY <1>2
  <2> HIDE DEF E
  <2>2. PICK h : Swept(h, own, E) /\ \A n \in 0..NShips : h[n] \subseteq K
    BY <1>1, <2>1, SweepWithin
  <2>3. \A n \in 0..NShips :
          h[n] = IF n = 0 THEN own ELSE UNION {Avenger(x, n, t) : x \in h[n - 1]}
    <3> SUFFICES ASSUME NEW n \in 0..NShips
                 PROVE  h[n] = IF n = 0 THEN own ELSE UNION {Avenger(x, n, t) : x \in h[n - 1]}
      OBVIOUS
    <3>1. CASE n = 0
      BY <2>2, <3>1 DEF Swept
    <3>2. CASE n # 0
      <4>1. n \in Ship /\ n - 1 \in 0..NShips
        BY <3>2, ShipsAre
      <4>2. \A x \in h[n - 1] : E[n][x] = Avenger(x, n, t)
        BY <2>2, <4>1 DEF E
      <4>3. h[n] = UNION {E[n][x] : x \in h[n - 1]}
        BY <2>2, <4>1 DEF Swept
      <4>4. h[n] = UNION {Avenger(x, n, t) : x \in h[n - 1]}
        BY <4>2, <4>3
      <4> QED BY <3>2, <4>4, Zenon
    <3> QED BY <3>1, <3>2
  <2>4. h = [n \in 0..NShips |-> h[n]]
    BY <2>2 DEF Swept
  <2>5. Eqn(h)
    BY <2>3, <2>4
  <2> QED BY <2>5
<1> DEFINE f == CHOOSE f : Eqn(f)
<1>4. Eqn(f)
  BY <1>3
<1>5. Sweep(own, LAMBDA x, e : Avenger(x, e, t)) = f[NShips]
  BY DEF Sweep
<1> HIDE DEF f
<1>6. f[0] \subseteq K
  <2>1. f[0] = own
    BY <1>4, ShipsAre
  <2> QED BY <1>1, <2>1
<1>7. ASSUME NEW n \in Ship, f[n - 1] \subseteq K PROVE f[n] \subseteq K
  <2>1. n \in 0..NShips /\ n # 0
    BY ShipsAre
  <2>2. f[n] = UNION {Avenger(x, n, t) : x \in f[n - 1]}
    BY <1>4, <2>1
  <2> QED BY <1>2, <1>7, <2>2
<1>8. Sweep(own, LAMBDA x, e : Avenger(x, e, t)) \subseteq K
  <2>1. \A n \in 0..NShips : f[n] \subseteq K
    BY <1>6, <1>7, SweepEnds
  <2> QED BY <1>5, <2>1, ShipsAre
<1>9. v \in Sweep(own, LAMBDA x, e : Avenger(x, e, t))
  BY DEF DefendRetaliation, own
<1> QED BY <1>8, <1>9 DEF K

-----------------------------------------------------------------------------
(* Mines.                                                                  *)

\* The mine is still there when its blast is over, and goes last.
LEMMA MineBlastQuiet ==
  ASSUME NEW w \in Worlds, NEW s \in Ship, w.ship[s].alive, NEW v \in MineBlast(w, s)
  PROVE  Quiet(w, v)
<1> DEFINE r == w.ship[s]
           victims == Listed(w, s) \ {s}
           str == r.destruct
           AtGround(x) == IF AtPlanet(r) THEN {y.w : y \in ShootPlanet(x, s, str)} ELSE {x}
           K == {x \in Worlds : Quiet(w, x) /\ x.ship[s].alive}
           E == [n \in Ship |-> [x \in K |-> AtVictim(x, n, s, victims, str)]]
           Eqn(f) == f = [n \in 0..NShips |->
                        IF n = 0 THEN {w} ELSE UNION {AtVictim(x, n, s, victims, str) : x \in f[n - 1]}]
<1>1. {w} \subseteq K
  BY QuietSelf
<1>2. ASSUME NEW n \in Ship, NEW x \in K PROVE AtVictim(x, n, s, victims, str) \subseteq K
  <2>1. ASSUME NEW u \in AtVictim(x, n, s, victims, str), u # x PROVE u \in K
    <3>1. n # s /\ \E y \in Shoot(x, s, n, str, FALSE, FALSE) : u = y.w
      BY <2>1 DEF AtVictim
    <3>2. Hit(x, u, {n})
      BY <3>1, ShootHits
    <3>3. Spared(x.ship[s], u.ship[s])
      BY <3>1, <3>2 DEF Hit
    <3>4. Quiet(w, u)
      BY <3>2, HitQuiet, QuietQuiet
    <3> QED BY <3>3, <3>4, QuietWorlds DEF Spared
  <2> QED BY <2>1
<1> HIDE DEF victims, str
<1> HIDE DEF K
<1>3. \E f : Eqn(f)
  <2>1. \A n \in Ship : \A x \in K : E[n][x] \subseteq K
    BY <1>2
  <2> HIDE DEF E
  <2>2. PICK h : Swept(h, {w}, E) /\ \A n \in 0..NShips : h[n] \subseteq K
    BY <1>1, <2>1, SweepWithin
  <2>3. \A n \in 0..NShips :
          h[n] = IF n = 0 THEN {w} ELSE UNION {AtVictim(x, n, s, victims, str) : x \in h[n - 1]}
    <3> SUFFICES ASSUME NEW n \in 0..NShips
                 PROVE  h[n] = IF n = 0 THEN {w} ELSE UNION {AtVictim(x, n, s, victims, str) : x \in h[n - 1]}
      OBVIOUS
    <3>1. CASE n = 0
      BY <2>2, <3>1 DEF Swept
    <3>2. CASE n # 0
      <4>1. n \in Ship /\ n - 1 \in 0..NShips
        BY <3>2, ShipsAre
      <4>2. \A x \in h[n - 1] : E[n][x] = AtVictim(x, n, s, victims, str)
        BY <2>2, <4>1 DEF E
      <4>3. h[n] = UNION {E[n][x] : x \in h[n - 1]}
        BY <2>2, <4>1 DEF Swept
      <4>4. h[n] = UNION {AtVictim(x, n, s, victims, str) : x \in h[n - 1]}
        BY <4>2, <4>3
      <4> QED BY <3>2, <4>4, Zenon
    <3> QED BY <3>1, <3>2
  <2>4. h = [n \in 0..NShips |-> h[n]]
    BY <2>2 DEF Swept
  <2>5. Eqn(h)
    BY <2>3, <2>4
  <2> QED BY <2>5
<1> DEFINE f == CHOOSE f : Eqn(f)
<1>4. Eqn(f)
  BY <1>3
<1>5. Sweep({w}, LAMBDA x, q : AtVictim(x, q, s, victims, str)) = f[NShips]
  BY DEF Sweep
<1> HIDE DEF f
<1>6. f[0] \subseteq K
  <2>1. f[0] = {w}
    BY <1>4, ShipsAre
  <2> QED BY <1>1, <2>1
<1>7. ASSUME NEW n \in Ship, f[n - 1] \subseteq K PROVE f[n] \subseteq K
  <2>1. n \in 0..NShips /\ n # 0
    BY ShipsAre
  <2>2. f[n] = UNION {AtVictim(x, n, s, victims, str) : x \in f[n - 1]}
    BY <1>4, <2>1
  <2> QED BY <1>2, <1>7, <2>2
<1>8. Sweep({w}, LAMBDA x, q : AtVictim(x, q, s, victims, str)) \subseteq K
  <2>1. \A n \in 0..NShips : f[n] \subseteq K
    BY <1>6, <1>7, SweepEnds
  <2> QED BY <1>5, <2>1, ShipsAre
<1>9. PICK x \in K : \E y \in AtGround(x) : v = Kill(y, s)
  <2>1. \E x \in Sweep({w}, LAMBDA x, q : AtVictim(x, q, s, victims, str)) :
          \E y \in AtGround(x) : v = Kill(y, s)
    BY DEF MineBlast, victims, str
  <2> QED BY <1>8, <2>1
<1>10. PICK y \in AtGround(x) : v = Kill(y, s)
  BY <1>9
<1>11. x \in Worlds /\ Quiet(w, x) /\ x.ship[s].alive
  BY DEF K
<1>12. y \in Worlds /\ Quiet(w, y) /\ y.ship[s].alive
  <2>1. CASE y = x
    BY <1>11, <2>1
  <2>2. CASE y # x
    <3>1. PICK z \in ShootPlanet(x, s, str) : y = z.w
      BY <1>10, <2>2
    <3>2. Shelled(x, y)
      BY <1>11, <3>1, ShootPlanetShells
    <3> QED BY <1>11, <3>2, ShelledQuiet, QuietQuiet DEF Shelled
  <2> QED BY <2>1, <2>2
<1>13. Quiet(y, Kill(y, s))
  BY <1>12, KillHits, HitQuiet
<1> QED BY <1>10, <1>12, <1>13, QuietQuiet

LEMMA DoMineQuiet ==
  ASSUME NEW w \in Worlds, NEW s \in Ship, NEW v \in DoMine(w, s)
  PROVE  Quiet(w, v)
<1>1. CASE v = w
  BY <1>1, QuietSelf
<1>2. CASE v # w
  <2>1. w.ship[s].alive /\ v \in MineBlast(w, s)
    BY <1>2 DEF DoMine
  <2> QED BY <2>1, MineBlastQuiet
<1> QED BY <1>1, <1>2

LEMMA MinesQuiet ==
  ASSUME NEW w \in Worlds, NEW v \in Sweep({w}, DoMine)
  PROVE  Quiet(w, v)
<1> DEFINE K == {x \in Worlds : Quiet(w, x)}
           E == [n \in Ship |-> [x \in K |-> DoMine(x, n)]]
           Eqn(f) == f = [n \in 0..NShips |->
                        IF n = 0 THEN {w} ELSE UNION {DoMine(x, n) : x \in f[n - 1]}]
<1>1. {w} \subseteq K
  BY QuietSelf
<1>2. ASSUME NEW n \in Ship, NEW x \in K PROVE DoMine(x, n) \subseteq K
  BY DoMineQuiet, QuietQuiet, QuietWorlds
<1> HIDE DEF K
<1>3. \E f : Eqn(f)
  <2>1. \A n \in Ship : \A x \in K : E[n][x] \subseteq K
    BY <1>2
  <2> HIDE DEF E
  <2>2. PICK h : Swept(h, {w}, E) /\ \A n \in 0..NShips : h[n] \subseteq K
    BY <1>1, <2>1, SweepWithin
  <2>3. \A n \in 0..NShips :
          h[n] = IF n = 0 THEN {w} ELSE UNION {DoMine(x, n) : x \in h[n - 1]}
    <3> SUFFICES ASSUME NEW n \in 0..NShips
                 PROVE  h[n] = IF n = 0 THEN {w} ELSE UNION {DoMine(x, n) : x \in h[n - 1]}
      OBVIOUS
    <3>1. CASE n = 0
      BY <2>2, <3>1 DEF Swept
    <3>2. CASE n # 0
      <4>1. n \in Ship /\ n - 1 \in 0..NShips
        BY <3>2, ShipsAre
      <4>2. \A x \in h[n - 1] : E[n][x] = DoMine(x, n)
        BY <2>2, <4>1 DEF E
      <4>3. h[n] = UNION {E[n][x] : x \in h[n - 1]}
        BY <2>2, <4>1 DEF Swept
      <4>4. h[n] = UNION {DoMine(x, n) : x \in h[n - 1]}
        BY <4>2, <4>3
      <4> QED BY <3>2, <4>4, Zenon
    <3> QED BY <3>1, <3>2
  <2>4. h = [n \in 0..NShips |-> h[n]]
    BY <2>2 DEF Swept
  <2>5. Eqn(h)
    BY <2>3, <2>4
  <2> QED BY <2>5
<1> DEFINE f == CHOOSE f : Eqn(f)
<1>4. Eqn(f)
  BY <1>3
<1>5. Sweep({w}, DoMine) = f[NShips]
  BY DEF Sweep
<1> HIDE DEF f
<1>6. f[0] \subseteq K
  <2>1. f[0] = {w}
    BY <1>4, ShipsAre
  <2> QED BY <1>1, <2>1
<1>7. ASSUME NEW n \in Ship, f[n - 1] \subseteq K PROVE f[n] \subseteq K
  <2>1. n \in 0..NShips /\ n # 0
    BY ShipsAre
  <2>2. f[n] = UNION {DoMine(x, n) : x \in f[n - 1]}
    BY <1>4, <2>1
  <2> QED BY <1>2, <1>7, <2>2
<1>8. Sweep({w}, DoMine) \subseteq K
  <2>1. \A n \in 0..NShips : f[n] \subseteq K
    BY <1>6, <1>7, SweepEnds
  <2> QED BY <1>5, <2>1, ShipsAre
<1> QED BY <1>8 DEF K

-----------------------------------------------------------------------------
(* The commands.                                                           *)

\* What every step of the system leaves: a sound world, the same people in it or
\* counted as lost, and every escort asked.
Settles(w) ==
  /\ w \in Worlds /\ Census(w) = Census(World) /\ AllAsked(World, w) /\ w.log.landed = {}

LEMMA WorldIs ==
  /\ World.ship = ship /\ World.planet = planet /\ World.AP = AP
  /\ World.engaged = engaged /\ World.log = Blank
  /\ Blank \in Report /\ Blank.lost = 0 /\ Blank.landed = {} /\ Blank.quarry = None
  /\ Blank.answered = {} /\ Blank.shots = {}
<1>1. Blank \in Report
  BY DEF Blank, Report
<1> QED BY <1>1 DEF World, Blank

LEMMA QuietSettles ==
  ASSUME World \in Worlds, NEW w, Quiet(World, w)
  PROVE  Settles(w)
BY WorldIs DEF Quiet, Follows, Settles, AllAsked

\* An action point is paid somewhere along the way.
LEMMA ChargeQuiet ==
  ASSUME NEW w \in Worlds, NEW p \in Player, w.AP[p] >= 1, NEW v, Quiet(Charge(w, p), v)
  PROVE  /\ v \in Worlds /\ Census(v) = Census(w)
         /\ v.log.landed = w.log.landed /\ v.log.quarry = w.log.quarry
BY ChargeFields DEF Quiet, Follows

LEMMA QuietCharge ==
  ASSUME NEW w \in Worlds, NEW p \in Player, w.AP[p] >= 1, NEW v, Quiet(w, v)
  PROVE  LET u == Charge(v, p)
         IN /\ u \in Worlds /\ Census(u) = Census(w) /\ u.ship = v.ship
            /\ u.log.landed = w.log.landed /\ u.log.quarry = w.log.quarry
BY ChargeFields DEF Quiet, Follows

LEMMA SettlesPlain ==
  ASSUME NEW w \in Worlds, Census(w) = Census(World),
         w.log.landed = World.log.landed, w.log.quarry = World.log.quarry
  PROVE  Settles(w)
BY WorldIs DEF Settles, AllAsked

\* What a command asks for, or what the ship has, whichever is less.
LEMMA LeastOf ==
  ASSUME NEW n \in Strength, NEW m \in Nat
  PROVE  Min({n, m}) \in Amount /\ Min({n, m}) <= m /\ Min({n, m}) <= n
<1>1. n \in Nat
  BY BattleAssumption
<1> QED BY <1>1, MinOfTwo DEF Amount

LEMMA LeastAffords ==
  ASSUME NEW r \in Vessel, NEW n \in Strength
  PROVE  Min({n, CheckRetal(r)}) \in Amount /\ Affords(r, Min({n, CheckRetal(r)}), FALSE)
<1> DEFINE m == CheckRetal(r)
           k == Min({n, m})
<1>1. m \in Nat /\ Affords(r, m, FALSE)
  BY RetalBounded
<1>2. k \in Amount /\ k <= m
  BY <1>1, LeastOf
<1> HIDE DEF m, k
<1>3. IF LaserOn(r) THEN m <= r.fuel ELSE m <= r.destruct
  BY <1>1 DEF Affords
<1>4. IF LaserOn(r) THEN k <= r.fuel ELSE k <= r.destruct
  BY <1>1, <1>2, <1>3, VesselFields DEF Amount
<1>5. Affords(r, k, FALSE)
  BY <1>4 DEF Affords
<1> QED BY <1>2, <1>5 DEF m, k

LEMMA FireSettles ==
  ASSUME World \in Worlds, NEW p \in Player, NEW s \in Ship, NEW t \in Ship,
         NEW n \in Strength, Fire(p, s, t, n)
  PROVE  \E w : Settles(w) /\ Ends(w)
<1> DEFINE str == Min({n, CheckRetal(ship[s])})
<1>1. s # t /\ ship[s].alive
  BY DEF Fire, Target, Commandable, Owned
<1>2. PICK w \in ShipAttack(World, s, t, str, FALSE, p) : Ends(w)
  BY DEF Fire
<1>3. ship[s] \in Vessel
  BY WorldFields, WorldIs
<1>5. str \in Amount /\ Affords(ship[s], str, FALSE)
  BY <1>3, LeastAffords
<1> HIDE DEF str
<1> DEFINE beam == FALSE
<1>6. w \in ShipAttack(World, s, t, str, beam, p) /\ Affords(World.ship[s], str, beam)
  BY <1>2, <1>5, WorldIs
<1> HIDE DEF beam
<1>7. World.ship[s].alive /\ World.log.quarry = None
  BY <1>1, WorldIs
<1>8. /\ w \in Worlds /\ Census(w) = Census(World) /\ AllAsked(World, w)
      /\ w.engaged = World.engaged /\ w.log.landed = World.log.landed
  BY <1>1, <1>5, <1>6, <1>7, ShipAttackHolds
<1> QED BY <1>2, <1>8, WorldIs DEF Settles

LEMMA FireCewSettles ==
  ASSUME World \in Worlds, NEW p \in Player, NEW s \in Ship, NEW t \in Ship, FireCew(p, s, t)
  PROVE  \E w : Settles(w) /\ Ends(w)
<1>1. s # t /\ ship[s].alive /\ ship[s].fuel >= 2
  BY DEF FireCew, Target, Commandable, Owned
<1>2. PICK w \in ShipAttack(World, s, t, 1, TRUE, p) : Ends(w)
  BY DEF FireCew
<1> DEFINE beam == TRUE
           str == 1
<1>3. str \in Amount /\ Affords(World.ship[s], str, beam)
  <2>1. ship[s].fuel \in Nat
    BY WorldFields, VesselFields, WorldIs
  <2>2. 1 \in Amount /\ 1 <= World.ship[s].fuel
    BY <1>1, <2>1, WorldIs DEF Amount
  <2> QED BY <2>2 DEF Affords
<1>4. w \in ShipAttack(World, s, t, str, beam, p)
  BY <1>2
<1> HIDE DEF beam, str
<1>5. World.ship[s].alive /\ World.log.quarry = None
  BY <1>1, WorldIs
<1>6. /\ w \in Worlds /\ Census(w) = Census(World) /\ AllAsked(World, w)
      /\ w.engaged = World.engaged /\ w.log.landed = World.log.landed
  BY <1>1, <1>3, <1>4, <1>5, ShipAttackHolds
<1> QED BY <1>2, <1>6, WorldIs DEF Settles

LEMMA DetonateSettles ==
  ASSUME World \in Worlds, NEW p \in Player, NEW s \in Ship, Detonate(p, s)
  PROVE  \E w : Settles(w) /\ Ends(w)
<1>1. World.ship[s].alive /\ \E w \in MineBlast(World, s) : Ends(w)
  BY WorldIs DEF Detonate, Owned
<1> QED BY <1>1, MineBlastQuiet, QuietSettles

LEMMA BombardSettles ==
  ASSUME World \in Worlds, NEW p \in Player, NEW s \in Ship, NEW n \in Strength, Bombard(p, s, n)
  PROVE  \E w : Settles(w) /\ Ends(w)
<1> DEFINE str == Min({n, CheckRetal(ship[s])})
           Paying(x) == Consume(Charge(x.w, p), s, str, FALSE, FALSE)
           Answered(x) == BombardRetaliation(Paying(x), s, x.wasted, x.nuked)
<1>1. ship[s].alive /\ World.AP[p] >= 1
  BY WorldIs DEF Bombard, Commandable, Owned
<1>2. PICK o \in Overloads(World, s, FALSE, str) : \E w :
        Ends(w) /\ IF o.str = 0 THEN w = Charge(o.w, p)
                   ELSE \E x \in ShootPlanet(o.w, s, o.str) :
                          IF x.fired THEN w \in Answered(x) ELSE w = x.w
  <2> DEFINE Outcomes(o) == IF o.str = 0 THEN {Charge(o.w, p)}
                            ELSE UNION {IF x.fired THEN Answered(x) ELSE {x.w} :
                                        x \in ShootPlanet(o.w, s, o.str)}
  <2>1. \E w \in UNION {Outcomes(o) : o \in Overloads(World, s, FALSE, str)} : Ends(w)
    BY DEF Bombard
  <2> HIDE DEF Outcomes, str
  <2>2. PICK o \in Overloads(World, s, FALSE, str) : \E w \in Outcomes(o) : Ends(w)
    BY <2>1
  <2> HIDE DEF Answered
  <2>3. CASE o.str = 0
    BY <2>2, <2>3 DEF Outcomes
  <2>4. CASE o.str # 0
    BY <2>2, <2>4 DEF Outcomes
  <2> QED BY <2>3, <2>4
<1>2a. PICK w :
         Ends(w) /\ IF o.str = 0 THEN w = Charge(o.w, p)
                    ELSE \E x \in ShootPlanet(o.w, s, o.str) :
                           IF x.fired THEN w \in Answered(x) ELSE w = x.w
  BY <1>2
<1>3. ship[s] \in Vessel
  BY WorldFields, WorldIs
<1>5. str \in Amount /\ Affords(ship[s], str, FALSE)
  BY <1>3, LeastAffords
<1>6. Overloaded(World, s, str, o)
  <2> HIDE DEF str
  <2>1. o \in Overloads(World, s, FALSE, str)
    BY <1>2
  <2>2. World.ship[s].alive \/ str = 0 \/ ~LaserOn(World.ship[s])
    BY <1>1, WorldIs
  <2> QED BY <1>5, <2>1, <2>2, PlainOverloadsHit
<1>7. CASE o.str = 0
  <2>1. Quiet(World, o.w)
    BY <1>6, HitQuiet DEF Overloaded
  <2>2. Settles(Charge(o.w, p))
    BY <1>1, <2>1, QuietCharge, SettlesPlain
  <2> QED BY <1>2a, <1>7, <2>2
<1>8. CASE o.str # 0
  <2> HIDE DEF str, Paying
  <2>1. PICK x \in ShootPlanet(World, s, str) : IF x.fired THEN w \in Answered(x) ELSE w = x.w
    BY <1>2a, <1>6, <1>8 DEF Overloaded
  <2>2. Shelled(World, x.w) /\ x.nuked \subseteq Player
    BY <2>1, ShootPlanetShells
  <2>3. Quiet(World, x.w)
    BY <2>2, ShelledQuiet
  <2>4. CASE w = x.w
    BY <1>2a, <2>3, <2>4, QuietSettles
  <2>5. CASE w \in Answered(x)
    <3> DEFINE c == Charge(x.w, p)
    <3>1. /\ c \in Worlds /\ Census(c) = Census(World) /\ c.ship = x.w.ship
          /\ c.log.landed = World.log.landed /\ c.log.quarry = World.log.quarry
      BY <1>1, <2>3, QuietCharge
    <3>2. c.ship = ship
      BY <2>2, <3>1, WorldIs DEF Shelled
    <3> HIDE DEF c
    <3>3. Hit(c, Consume(c, s, str, FALSE, FALSE), {s})
      <4>1. str \in Nat /\ Affords(c.ship[s], str, FALSE)
        BY <1>5, <3>2 DEF Amount
      <4> QED BY <3>1, <4>1, ConsumeHits
    <3> DEFINE y == Consume(c, s, str, FALSE, FALSE)
    <3>4. y \in Worlds /\ Quiet(c, y)
      BY <3>3, HitQuiet, HitWorlds
    <3>5. w \in BombardRetaliation(y, s, x.wasted, x.nuked)
      BY <2>5 DEF Paying, c
    <3> HIDE DEF y
    <3>6. Quiet(y, w)
      BY <2>2, <3>4, <3>5, BombardRetaliationQuiet
    <3>7. Quiet(c, w)
      BY <3>1, <3>4, <3>6, QuietQuiet
    <3>8. Settles(w)
      BY <3>1, <3>7, SettlesPlain DEF Quiet, Follows
    <3> QED BY <1>2a, <3>8
  <2> QED BY <2>1, <2>4, <2>5
<1> QED BY <1>7, <1>8

LEMMA DefendSettles ==
  ASSUME World \in Worlds, NEW p \in Player, NEW t \in Ship, NEW n \in Strength, Defend(p, t, n)
  PROVE  \E w : Settles(w) /\ Ends(w)
<1> DEFINE str == Salvo(p, n)
           Shot(r) == Withdrawn(r.w, p, str)
<1>1. World.AP[p] >= 1
  BY WorldIs DEF Defend
<1>2. PICK r \in PlanetShoots(World, t, str) : \E w :
        /\ Ends(Charge(w, p))
        /\ \/ w \in DefendRetaliation(Shot(r), t, CheckRetal(ship[t]), LaserOn(ship[t]))
           \/ w = Shot(r)
  BY DEF Defend
<1>2a. PICK w :
         /\ Ends(Charge(w, p))
         /\ \/ w \in DefendRetaliation(Shot(r), t, CheckRetal(ship[t]), LaserOn(ship[t]))
            \/ w = Shot(r)
  BY <1>2
<1>3. str \in Nat /\ str <= planet.destruct[p]
  <2> DEFINE S == {n, planet.guns[p], planet.destruct[p]}
  <2>1. \A x \in S : x \in Nat
    BY BattleAssumption, WorldFields, SurfaceEdits, WorldIs
  <2>2. \E x \in S : \A y \in S : x <= y
    BY <2>1
  <2>3. Min(S) \in S /\ \A y \in S : Min(S) <= y
    <3> HIDE DEF S
    <3> QED BY <2>2 DEF Min
  <2>4. str = Min(S)
    BY DEF Salvo
  <2>5. planet.destruct[p] \in S
    OBVIOUS
  <2> HIDE DEF S, str
  <2> QED BY <2>1, <2>3, <2>4, <2>5
<1> HIDE DEF str
<1>4. Hit(World, r.w, {t}) /\ AfterShot(ship[t], r.w.ship[t])
  BY <1>2, PlanetShootsHit, WorldIs
<1>5. r.w \in Worlds /\ r.w.planet = planet
  BY <1>4, HitWorlds, WorldIs DEF Hit
<1>6. Shelled(r.w, Shot(r))
  BY <1>3, <1>5, WithdrawnShells
<1>7. Shot(r) \in Worlds /\ Quiet(World, Shot(r)) /\ AfterShot(ship[t], Shot(r).ship[t])
  BY <1>4, <1>5, <1>6, HitQuiet, ShelledQuiet, QuietQuiet DEF Shelled
<1>8. ship[t] \in Vessel
  BY WorldFields, WorldIs
<1> HIDE DEF Shot
<1>9. Quiet(World, w)
  <2>1. CASE w = Shot(r)
    BY <1>7, <2>1
  <2>2. CASE w \in DefendRetaliation(Shot(r), t, CheckRetal(ship[t]), LaserOn(ship[t]))
    <3>1. Quiet(Shot(r), w)
      BY <1>7, <1>8, <2>2, DefendRetaliationQuiet
    <3> QED BY <1>7, <3>1, QuietQuiet
  <2> QED BY <1>2a, <2>1, <2>2
<1>10. Settles(Charge(w, p))
  BY <1>1, <1>9, QuietCharge, SettlesPlain
<1> QED BY <1>2a, <1>10

-----------------------------------------------------------------------------
(* Boarding.                                                               *)

\* The exchange that was answered stays the one the log tells of, and nobody
\* comes back to life.
Keeps(w, v) ==
  /\ v \in Worlds /\ v.planet = w.planet
  /\ v.log.quarry = w.log.quarry /\ v.log.shooter = w.log.shooter
  /\ v.log.landed = w.log.landed /\ w.log.answered \subseteq v.log.answered
  /\ \A s \in Ship : v.ship[s].alive => w.ship[s].alive

LEMMA KeepsKeeps ==
  ASSUME NEW w, NEW v, NEW u, Keeps(w, v), Keeps(v, u)
  PROVE  Keeps(w, u)
BY DEF Keeps

LEMMA HitKeeps ==
  ASSUME NEW w, NEW v, NEW S, Hit(w, v, S)
  PROVE  Keeps(w, v) /\ Census(v) = Census(w)
BY DEF Hit, Follows, Worn, Keeps

LEMMA KeepsAsked ==
  ASSUME NEW w, NEW v, NEW u, AllAsked(w, v), Keeps(v, u)
  PROVE  AllAsked(w, u)
BY DEF AllAsked, AskedUpTo, Keeps

\* Whom a ship counts for.
Aboard(r) == IF r.alive THEN r.crew + r.troops ELSE 0

LEMMA PutKeeps ==
  ASSUME NEW w \in Worlds, NEW s \in Ship, NEW r \in Vessel, Lit(r), r.dest # s,
         r.alive => w.ship[s].alive
  PROVE  /\ Keeps(w, Put(w, s, r)) /\ Put(w, s, r).ship = [w.ship EXCEPT ![s] = r]
         /\ Put(w, s, r).ship[s] = r
         /\ Census(Put(w, s, r)) = Census(w) - Aboard(w.ship[s]) + Aboard(r)
<1> DEFINE v == Put(w, s, r)
<1>1. /\ v \in Worlds /\ v.ship = [w.ship EXCEPT ![s] = r] /\ v.planet = w.planet
      /\ v.log = w.log
  BY PutFields
<1>2. w.ship \in [Ship -> Vessel]
  BY WorldFields
<1> HIDE DEF v
<1>3. v.ship[s] = r /\ \A t \in Ship \ {s} : v.ship[t] = w.ship[t]
  BY <1>1, <1>2
<1>4. Keeps(w, v)
  BY <1>1, <1>3 DEF Keeps
<1>5. /\ \A t \in Ship \ {s} : Heads(v.ship)[t] = Heads(w.ship)[t]
      /\ Heads(w.ship)[s] = Aboard(w.ship[s]) /\ Heads(v.ship)[s] = Aboard(r)
  BY <1>3 DEF Heads, Aboard
<1>6. Census(v) = Census(w) - Heads(w.ship)[s] + Heads(v.ship)[s]
                  + (v.planet.popn - w.planet.popn) + (v.log.lost - w.log.lost)
  BY <1>1, <1>5, CensusOne
<1>7. Census(v) = Census(w) - Aboard(w.ship[s]) + Aboard(r)
  <2>1. Aboard(w.ship[s]) \in Nat /\ Aboard(r) \in Nat
    BY <1>2, VesselFields DEF Aboard
  <2> QED BY <1>1, <1>5, <1>6, <2>1, CensusIsInt
<1> QED BY <1>1, <1>3, <1>4, <1>7 DEF v

LEMMA BatteredHits ==
  ASSUME NEW w \in Worlds, NEW s \in Ship, w.ship[s].alive, NEW x \in Battered(w, s)
  PROVE  /\ Hit(w, x, {s})
         /\ x.ship[s].crew = w.ship[s].crew /\ x.ship[s].troops = w.ship[s].troops
<1> DEFINE r == [w.ship[s] EXCEPT !.damaged = TRUE]
<1>1. w.ship[s] \in Vessel /\ Lit(w.ship[s]) /\ w.ship[s].dest # s
  BY WorldFields
<1>2. r \in Vessel
  BY <1>1, FlagEdits DEF Flag
<1>3. /\ Worn(w.ship[s], r) /\ Lit(r) /\ r.dest # s /\ r.alive = w.ship[s].alive
      /\ r.crew = w.ship[s].crew /\ r.troops = w.ship[s].troops
  <2> DEFINE q == w.ship[s]
  <2>1. q \in Vessel /\ Lit(q) /\ q.dest # s /\ q.destruct \in Nat /\ r = [q EXCEPT !.damaged = TRUE]
    BY <1>1, VesselFields
  <2> HIDE DEF q, r
  <2>2. /\ r.kind = q.kind /\ r.owner = q.owner /\ r.on = q.on /\ r.salvo = q.salvo
        /\ r.at = q.at /\ r.destruct = q.destruct /\ r.alive = q.alive /\ r.dest = q.dest
        /\ r.crew = q.crew /\ r.troops = q.troops
    BY <2>1 DEF Vessel
  <2>3. Lit(r)
    BY <2>1 DEF Lit, LaserOn, Vessel
  <2>4. Worn(q, r)
    BY <2>1, <2>2 DEF Worn
  <2> QED BY <2>1, <2>2, <2>3, <2>4 DEF q
<1> HIDE DEF r
<1>4. CASE x = w
  BY <1>4, FollowsSelf
<1>5. CASE x = Put(w, s, r)
  BY <1>2, <1>3, <1>5, PutHits
<1>6. CASE x = Kill(w, s)
  BY <1>6, KillHits
<1> QED BY <1>4, <1>5, <1>6 DEF Battered, Struck, r

LEMMA FallenKeeps ==
  ASSUME NEW w \in Worlds, NEW t \in Ship,
         NEW c \in 0..w.ship[t].crew, NEW m \in 0..w.ship[t].troops
  PROVE  /\ Keeps(w, Fallen(w, t, c, m)) /\ Census(Fallen(w, t, c, m)) = Census(w)
         /\ Fallen(w, t, c, m).ship[t].alive = w.ship[t].alive
<1> DEFINE r == w.ship[t]
           n == IF r.alive THEN c + m ELSE 0
           u == Lost(w, n)
           q == [r EXCEPT !.crew = r.crew - c]
           y == [q EXCEPT !.troops = r.troops - m]
           v == Put(u, t, y)
<1>1. r \in Vessel /\ Lit(r) /\ r.dest # t /\ r.crew \in Nat /\ r.troops \in Nat
  BY WorldFields, VesselFields
<1>2. c \in Nat /\ m \in Nat /\ n \in Nat /\ r.crew - c \in Amount /\ r.troops - m \in Amount
  BY <1>1 DEF Amount
<1>3. q \in Vessel /\ q.troops = r.troops
  <2>1. q \in Vessel
    BY <1>1, <1>2, AmountEdits
  <2> QED BY <1>1, <2>1 DEF Vessel
<1>4. y \in Vessel
  <2> HIDE DEF q
  <2> QED BY <1>2, <1>3, AmountEdits
<1>5. /\ Lit(y) /\ y.dest # t /\ y.alive = r.alive
      /\ y.crew = r.crew - c /\ y.troops = r.troops - m
  BY <1>1 DEF Lit, LaserOn, Vessel
<1>6. /\ u \in Worlds /\ u.ship = w.ship /\ u.planet = w.planet
      /\ u.log.lost = w.log.lost + n /\ u.log.landed = w.log.landed
      /\ u.log.quarry = w.log.quarry /\ u.log.shooter = w.log.shooter
      /\ u.log.answered = w.log.answered
  BY <1>2, LostFields
<1>7. Fallen(w, t, c, m) = v
  <2> HIDE DEF n
  <2>1. Fallen(w, t, c, m)
          = [u EXCEPT !.ship[t].crew = r.crew - c, !.ship[t].troops = r.troops - m]
    BY <1>6, WorldFields DEF Fallen, Worlds, Vessel, n
  <2> HIDE DEF u
  <2>2. u.ship[t] = r /\ u.ship \in [Ship -> Vessel]
    BY <1>6, WorldFields
  <2>3. [u EXCEPT !.ship[t].crew = r.crew - c, !.ship[t].troops = r.troops - m]
          = [u EXCEPT !.ship[t] = y]
    BY <1>1, <1>6, <2>2 DEF Worlds, Vessel
  <2> QED BY <2>1, <2>3 DEF Put
<1> HIDE DEF y, q
<1>8. Keeps(w, u)
  BY <1>6 DEF Keeps
<1>9. Census(u) = Census(w) + n
  <2>1. \A s \in Ship : Heads(u.ship)[s] = Heads(w.ship)[s]
    BY <1>6
  <2>2. Census(u) = Census(w) + (u.planet.popn - w.planet.popn) + (u.log.lost - w.log.lost)
    BY <1>6, <2>1, CensusSame
  <2> HIDE DEF u, n
  <2> QED BY <1>2, <1>6, <2>2, CensusIsInt
<1>10. /\ Keeps(u, v) /\ v.ship[t] = y
       /\ Census(v) = Census(u) - Aboard(r) + Aboard(y)
  <2> HIDE DEF u
  <2>1. u.ship[t] = r
    BY <1>6
  <2> HIDE DEF r
  <2> QED BY <1>4, <1>5, <1>6, <2>1, PutKeeps
<1>11. Aboard(r) \in Int /\ Aboard(y) = Aboard(r) - n
  BY <1>1, <1>2, <1>5 DEF Aboard
<1>12. Census(v) = Census(w)
  <2> HIDE DEF u, v, n, r
  <2> QED BY <1>2, <1>9, <1>10, <1>11, CensusIsInt
<1> HIDE DEF u, v
<1> QED BY <1>5, <1>7, <1>8, <1>10, <1>12, KeepsKeeps

\* People come aboard, or go.
LEMMA JoinedKeeps ==
  ASSUME NEW w \in Worlds, NEW s \in Ship, w.ship[s].alive, NEW what, NEW n \in Int,
         People(w.ship[s], what) + n >= 0
  PROVE  /\ Keeps(w, Joined(w, s, what, n)) /\ Census(Joined(w, s, what, n)) = Census(w) + n
         /\ \A t \in Ship \ {s} : Joined(w, s, what, n).ship[t] = w.ship[t]
         /\ Joined(w, s, what, n).ship[s].alive
<1> DEFINE r == w.ship[s]
           c == [r EXCEPT !.crew = r.crew + n]
           m == [r EXCEPT !.troops = r.troops + n]
<1>1. /\ r \in Vessel /\ Lit(r) /\ r.dest # s /\ r.crew \in Nat /\ r.troops \in Nat
      /\ w.ship \in [Ship -> Vessel]
  BY WorldFields, VesselFields
<1>2. CASE what = "civ"
  <2>1. r.crew + n \in Amount
    BY <1>1, <1>2 DEF People, Amount
  <2>2. c \in Vessel
    BY <1>1, <2>1, AmountEdits
  <2>3. Lit(c) /\ c.dest # s /\ c.alive /\ c.crew = r.crew + n /\ c.troops = r.troops
    BY <1>1 DEF Lit, LaserOn, Vessel
  <2>4. Joined(w, s, what, n) = Put(w, s, c)
    BY <1>1, <1>2 DEF Joined, Put, Worlds
  <2> HIDE DEF c
  <2>5. /\ Keeps(w, Put(w, s, c)) /\ Put(w, s, c).ship = [w.ship EXCEPT ![s] = c]
        /\ Census(Put(w, s, c)) = Census(w) - Aboard(r) + Aboard(c)
    BY <2>2, <2>3, PutKeeps
  <2>6. Aboard(r) \in Int /\ Aboard(c) = Aboard(r) + n
    BY <1>1, <2>3 DEF Aboard
  <2> QED BY <1>1, <2>3, <2>4, <2>5, <2>6, CensusIsInt
<1>3. CASE what # "civ"
  <2>1. r.troops + n \in Amount
    BY <1>1, <1>3 DEF People, Amount
  <2>2. m \in Vessel
    BY <1>1, <2>1, AmountEdits
  <2>3. Lit(m) /\ m.dest # s /\ m.alive /\ m.crew = r.crew /\ m.troops = r.troops + n
    BY <1>1 DEF Lit, LaserOn, Vessel
  <2>4. Joined(w, s, what, n) = Put(w, s, m)
    BY <1>1, <1>3 DEF Joined, Put, Worlds
  <2> HIDE DEF m
  <2>5. /\ Keeps(w, Put(w, s, m)) /\ Put(w, s, m).ship = [w.ship EXCEPT ![s] = m]
        /\ Census(Put(w, s, m)) = Census(w) - Aboard(r) + Aboard(m)
    BY <2>2, <2>3, PutKeeps
  <2>6. Aboard(r) \in Int /\ Aboard(m) = Aboard(r) + n
    BY <1>1, <2>3 DEF Aboard
  <2> QED BY <1>1, <2>3, <2>4, <2>5, <2>6, CensusIsInt
<1> QED BY <1>2, <1>3

LEMMA LostKeeps ==
  ASSUME NEW w \in Worlds, NEW n \in Nat
  PROVE  Keeps(w, Lost(w, n)) /\ Census(Lost(w, n)) = Census(w) + n /\ Lost(w, n).ship = w.ship
<1> DEFINE u == Lost(w, n)
<1>1. /\ u \in Worlds /\ u.ship = w.ship /\ u.planet = w.planet
      /\ u.log.lost = w.log.lost + n /\ u.log.landed = w.log.landed
      /\ u.log.quarry = w.log.quarry /\ u.log.shooter = w.log.shooter
      /\ u.log.answered = w.log.answered
  BY LostFields
<1> HIDE DEF u
<1>2. \A s \in Ship : Heads(u.ship)[s] = Heads(w.ship)[s]
  BY <1>1
<1>3. Census(u) = Census(w) + (u.planet.popn - w.planet.popn) + (u.log.lost - w.log.lost)
  BY <1>1, <1>2, CensusSame
<1>4. Census(u) = Census(w) + n
  BY <1>1, <1>3, CensusIsInt
<1> QED BY <1>1, <1>4 DEF Keeps, u

\* Those who are left of a party on its way are in no ship, and not lost.
Fought(w, b, f) ==
  /\ Keeps(w, f.w) /\ f.left \in Nat /\ f.left <= b /\ Census(f.w) + f.left = Census(w) + b

\* Both sides bleed.
LEMMA MeleeFought ==
  ASSUME NEW w \in Worlds, NEW s \in Ship, NEW t \in Ship, w.ship[s].alive,
         NEW b \in Nat, NEW a \in 0..b, NEW c \in 0..w.ship[t].crew, NEW m \in 0..w.ship[t].troops,
         NEW x \in Battered(w, s),
         NEW y, Keeps(Fallen(x, t, c, m), y), Census(y) = Census(Fallen(x, t, c, m))
  PROVE  Fought(w, b, [w |-> Lost(y, a), left |-> b - a])
<1>1. Hit(w, x, {s}) /\ x.ship[t].crew = w.ship[t].crew /\ x.ship[t].troops = w.ship[t].troops
  <2>1. Hit(w, x, {s}) /\ x.ship[s].crew = w.ship[s].crew /\ x.ship[s].troops = w.ship[s].troops
    BY BatteredHits
  <2> QED BY <2>1 DEF Hit, Spared
<1>2. x \in Worlds /\ Keeps(w, x) /\ Census(x) = Census(w)
  BY <1>1, HitKeeps, HitWorlds
<1> DEFINE g == Fallen(x, t, c, m)
<1>3. Keeps(x, g) /\ Census(g) = Census(x)
  BY <1>1, <1>2, FallenKeeps
<1> HIDE DEF g
<1>4. Keeps(w, y) /\ Census(y) = Census(w) /\ y \in Worlds
  BY <1>2, <1>3, KeepsKeeps DEF g, Keeps
<1> DEFINE v == Lost(y, a)
<1>5. Keeps(y, v) /\ Census(v) = Census(y) + a
  <2>1. a \in Nat
    OBVIOUS
  <2> QED BY <1>4, <2>1, LostKeeps
<1> HIDE DEF v
<1>6. b - a \in Nat /\ b - a <= b /\ Census(v) + (b - a) = Census(w) + b
  BY <1>4, <1>5, CensusIsInt
<1> QED BY <1>4, <1>5, <1>6, KeepsKeeps DEF Fought, v

LEMMA FightsFought ==
  ASSUME NEW w \in Worlds, NEW s \in Ship, NEW t \in Ship, s # t,
         w.ship[s].alive, w.ship[t].alive, NEW b \in Nat, NEW f \in Fights(w, s, t, b)
  PROVE  Fought(w, b, f)
<1> DEFINE v == w.ship[t]
<1>1. CASE v.crew + v.troops > 0
  <2>1. PICK a \in 0..b, x \in Battered(w, s), c \in 0..v.crew, m \in 0..v.troops :
          \E y \in Battered(Fallen(x, t, c, m), t) : f = [w |-> Lost(y, a), left |-> b - a]
    <3>1. f \in {[w |-> Lost(y, a), left |-> b - a] : a \in 0..b, y \in Bled(w, s, t)}
      BY <1>1 DEF Fights
    <3>2. PICK a \in 0..b, y \in Bled(w, s, t) : f = [w |-> Lost(y, a), left |-> b - a]
      BY <3>1
    <3>3. \E x \in Battered(w, s), c \in 0..v.crew, m \in 0..v.troops :
            y \in Battered(Fallen(x, t, c, m), t)
      BY DEF Bled
    <3> QED BY <3>2, <3>3
  <2>2. PICK y \in Battered(Fallen(x, t, c, m), t) : f = [w |-> Lost(y, a), left |-> b - a]
    BY <2>1
  <2> DEFINE g == Fallen(x, t, c, m)
  <2>3. Hit(w, x, {s})
    BY BatteredHits
  <2>4. /\ x \in Worlds /\ x.ship[t].alive /\ x.ship[t].crew = v.crew
        /\ x.ship[t].troops = v.troops
    BY <2>3, HitWorlds DEF Hit, Spared
  <2>5. Keeps(x, g) /\ g.ship[t].alive
    BY <2>4, FallenKeeps
  <2>6. g \in Worlds
    BY <2>5 DEF Keeps
  <2> HIDE DEF g
  <2>7. Hit(g, y, {t})
    BY <2>2, <2>5, <2>6, BatteredHits DEF g
  <2>8. Keeps(g, y) /\ Census(y) = Census(g)
    BY <2>7, HitKeeps
  <2> QED BY <2>2, <2>8, MeleeFought DEF g
<1>2. CASE ~(v.crew + v.troops > 0)
  <2>1. PICK x : (x = w \/ x \in Battered(w, s)) /\ f = [w |-> x, left |-> b]
    BY <1>2 DEF Fights
  <2>2. Keeps(w, x) /\ Census(x) = Census(w)
    BY <2>1, BatteredHits, FollowsSelf, HitKeeps
  <2>3. f.w = x /\ f.left = b
    BY <2>1
  <2> QED BY <2>2, <2>3 DEF Fought
<1> QED BY <1>1, <1>2

\* A ship changes hands.
LEMMA CapturedKeeps ==
  ASSUME NEW w \in Worlds, NEW t \in Ship, NEW p \in Player, w.ship[t].alive
  PROVE  LET u == Put(w, t, [w.ship[t] EXCEPT !.owner = p])
         IN /\ Keeps(w, u) /\ Census(u) = Census(w) /\ u.ship[t].alive
            /\ u.ship[t].crew = w.ship[t].crew /\ u.ship[t].troops = w.ship[t].troops
<1> DEFINE r == w.ship[t]
           c == [r EXCEPT !.owner = p]
<1>1. r \in Vessel /\ Lit(r) /\ r.dest # t /\ r.crew \in Nat /\ r.troops \in Nat
  BY WorldFields, VesselFields
<1>2. c \in Vessel
  BY <1>1, OtherEdits
<1>3. Lit(c) /\ c.dest # t /\ c.alive /\ c.crew = r.crew /\ c.troops = r.troops
  BY <1>1 DEF Lit, LaserOn, Vessel
<1> HIDE DEF c
<1>4. /\ Keeps(w, Put(w, t, c)) /\ Put(w, t, c).ship[t] = c
      /\ Put(w, t, c).ship = [w.ship EXCEPT ![t] = c]
      /\ Census(Put(w, t, c)) = Census(w) - Aboard(r) + Aboard(c)
  BY <1>2, <1>3, PutKeeps
<1>5. Aboard(r) \in Int /\ Aboard(c) = Aboard(r)
  BY <1>1, <1>3 DEF Aboard
<1>6. Census(Put(w, t, c)) = Census(w)
  BY <1>4, <1>5, CensusIsInt
<1> QED BY <1>3, <1>4, <1>6 DEF c

LEMMA AfterBoardingKeeps ==
  ASSUME NEW f, f.w \in Worlds, f.left \in Nat, NEW s \in Ship, NEW t \in Ship, s # t, NEW what
  PROVE  /\ Keeps(f.w, AfterBoarding(f, s, t, what))
         /\ Census(AfterBoarding(f, s, t, what)) = Census(f.w) + f.left
<1> DEFINE w == f.w
           v == w.ship[t]
           o == w.ship[s].owner
           y == [v EXCEPT !.owner = o]
           n == f.left
<1>1. /\ v \in Vessel /\ Lit(v) /\ v.dest # t /\ v.crew \in Nat /\ v.troops \in Nat
      /\ w.ship[s] \in Vessel /\ w.ship[s].crew \in Nat /\ w.ship[s].troops \in Nat
      /\ w.ship[s].owner \in Player
  BY WorldFields, VesselFields
<1>2. CASE v.crew + v.troops = 0 /\ v.alive /\ w.ship[s].alive
  <2> DEFINE u == Put(w, t, y)
             j == Joined(u, t, what, n)
  <2>3. AfterBoarding(f, s, t, what) = j
    BY <1>2 DEF AfterBoarding
  <2>4. /\ Keeps(w, u) /\ Census(u) = Census(w) /\ u.ship[t].alive
        /\ u.ship[t].crew = v.crew /\ u.ship[t].troops = v.troops
    BY <1>1, <1>2, CapturedKeeps
  <2> HIDE DEF u
  <2>7. u \in Worlds /\ u.ship[t].alive
    BY <2>4 DEF Keeps
  <2>8. n \in Int /\ People(u.ship[t], what) + n >= 0
    BY <1>1, <2>4 DEF People
  <2> HIDE DEF n
  <2>9. Keeps(u, j) /\ Census(j) = Census(u) + n
    BY <2>7, <2>8, JoinedKeeps
  <2> QED BY <2>3, <2>4, <2>9, KeepsKeeps DEF n
<1>3. CASE ~(v.crew + v.troops = 0 /\ v.alive /\ w.ship[s].alive) /\ v.alive /\ w.ship[s].alive
  <2>1. AfterBoarding(f, s, t, what) = Joined(w, s, what, n)
    BY <1>3 DEF AfterBoarding
  <2>2. n \in Int /\ People(w.ship[s], what) + n >= 0
    BY <1>1 DEF People
  <2> HIDE DEF n
  <2>3. Keeps(w, Joined(w, s, what, n)) /\ Census(Joined(w, s, what, n)) = Census(w) + n
    BY <1>3, <2>2, JoinedKeeps
  <2> QED BY <2>1, <2>3 DEF n
<1>4. CASE ~(v.alive /\ w.ship[s].alive)
  <2>1. AfterBoarding(f, s, t, what) = Lost(w, n)
    BY <1>4 DEF AfterBoarding
  <2> HIDE DEF n
  <2>2. n \in Nat
    BY DEF n
  <2>3. Keeps(w, Lost(w, n)) /\ Census(Lost(w, n)) = Census(w) + n
    BY <2>2, LostKeeps
  <2> QED BY <2>1, <2>3 DEF n
<1> QED BY <1>2, <1>3, <1>4

LEMMA BoardersFew ==
  ASSUME NEW r \in Vessel, NEW v, NEW what, NEW n \in Strength
  PROVE  /\ Boarders(r, v, what, n) \in Nat
         /\ Boarders(r, v, what, n) <= People(r, what)
<1> DEFINE S == {n, People(r, what), MaxCrew(v)}
<1>1. \A x \in S : x \in Nat
  <2>1. n \in Nat /\ People(r, what) \in Nat /\ MaxCrew(v) \in Nat
    BY BattleAssumption, VesselFields DEF People, MaxCrew
  <2> QED BY <2>1
<1>2. \E x \in S : \A y \in S : x <= y
  BY <1>1
<1>3. Min(S) \in S /\ \A y \in S : Min(S) <= y
  <2> HIDE DEF S
  <2> QED BY <1>2 DEF Min
<1>4. Boarders(r, v, what, n) = Min(S)
  BY DEF Boarders
<1>5. People(r, what) \in S
  OBVIOUS
<1> HIDE DEF S
<1> QED BY <1>1, <1>3, <1>4, <1>5

LEMMA BoardingKeeps ==
  ASSUME NEW w \in Worlds, NEW s \in Ship, NEW t \in Ship, s # t, w.ship[s].alive,
         w.ship[t].alive, NEW what, NEW n \in Strength, NEW v \in Boarding(w, s, t, what, n)
  PROVE  Keeps(w, v) /\ Census(v) = Census(w)
<1> DEFINE b == Boarders(w.ship[s], w.ship[t], what, n)
           away == Joined(w, s, what, -b)
           r == away.ship[s]
           y == [r EXCEPT !.fuel = @ - Min({1, @})]
           near == Put(away, s, y)
<1>1. PICK f \in Fights(near, s, t, b) : v = AfterBoarding(f, s, t, what)
  BY DEF Boarding
<1>2. b \in Nat /\ b <= People(w.ship[s], what)
  BY WorldFields, BoardersFew
<1> HIDE DEF b
<1>3. /\ Keeps(w, away) /\ Census(away) = Census(w) - b
      /\ away.ship[t] = w.ship[t] /\ away.ship[s].alive
  <2>1. -b \in Int /\ People(w.ship[s], what) + -b >= 0
    <3>1. People(w.ship[s], what) \in Nat
      BY WorldFields, VesselFields DEF People
    <3> QED BY <1>2, <3>1
  <2> DEFINE k == -b
  <2>2. k \in Int /\ People(w.ship[s], what) + k >= 0
    BY <2>1
  <2> HIDE DEF k
  <2>3. /\ Keeps(w, Joined(w, s, what, k)) /\ Census(Joined(w, s, what, k)) = Census(w) + k
        /\ Joined(w, s, what, k).ship[t] = w.ship[t] /\ Joined(w, s, what, k).ship[s].alive
    BY <2>2, JoinedKeeps
  <2>4. away = Joined(w, s, what, k) /\ Census(w) + k = Census(w) - b
    BY <1>2, CensusIsInt DEF k
  <2> QED BY <2>3, <2>4
<1> HIDE DEF away
<1>4. away \in Worlds
  BY <1>3 DEF Keeps
<1>5. r \in Vessel /\ Lit(r) /\ r.dest # s /\ r.fuel \in Nat
  BY <1>4, WorldFields, VesselFields
<1>6. y \in Vessel
  <2>1. y = [r EXCEPT !.fuel = r.fuel - Min({1, r.fuel})]
    BY <1>5 DEF Vessel
  <2>2. Min({1, r.fuel}) = IF 1 <= r.fuel THEN 1 ELSE r.fuel
    BY <1>5, MinOfTwo
  <2>3. r.fuel - Min({1, r.fuel}) \in Amount
    BY <1>5, <2>2 DEF Amount
  <2> QED BY <1>5, <2>1, <2>3, AmountEdits
<1>7. /\ Lit(y) /\ y.dest # s /\ y.alive = r.alive /\ y.crew = r.crew /\ y.troops = r.troops
  BY <1>5 DEF Lit, LaserOn, Vessel
<1> HIDE DEF y
<1>8. /\ Keeps(away, near) /\ near.ship[s] = y /\ near.ship = [away.ship EXCEPT ![s] = y]
      /\ Census(near) = Census(away) - Aboard(r) + Aboard(y)
  BY <1>3, <1>4, <1>6, <1>7, PutKeeps
<1>9. Census(near) = Census(away) /\ near.ship[t] = away.ship[t]
  <2>1. Aboard(r) \in Int /\ Aboard(y) = Aboard(r)
    BY <1>5, <1>7, VesselFields DEF Aboard
  <2>2. away.ship \in [Ship -> Vessel]
    BY <1>4, WorldFields
  <2> QED BY <1>4, <1>8, <2>1, <2>2, CensusIsInt
<1> HIDE DEF near
<1>10. near \in Worlds /\ near.ship[s].alive /\ near.ship[t].alive
  BY <1>3, <1>7, <1>8, <1>9 DEF Keeps
<1>11. Fought(near, b, f)
  BY <1>1, <1>2, <1>10, FightsFought
<1>12. f.w \in Worlds /\ f.left \in Nat /\ Keeps(near, f.w)
       /\ Census(f.w) + f.left = Census(near) + b
  BY <1>11 DEF Fought, Keeps
<1>13. Keeps(f.w, v) /\ Census(v) = Census(f.w) + f.left
  BY <1>1, <1>12, AfterBoardingKeeps
<1>14. Keeps(w, v)
  BY <1>3, <1>8, <1>12, <1>13, KeepsKeeps
<1> QED BY <1>2, <1>3, <1>9, <1>12, <1>13, <1>14, CensusIsInt

LEMMA DefensiveFireHolds ==
  ASSUME NEW w \in Worlds, NEW s \in Ship, NEW t \in Ship, s # t, w.log.quarry = None,
         NEW v \in DefensiveFire(w, s, t)
  PROVE  Follows(w, v) /\ AllAsked(w, v)
<1> DEFINE r == w.ship[t]
           str == CheckRetal(r)
           beam == FALSE
<1>1. CASE v = w
  BY <1>1, FollowsSelf DEF AllAsked
<1>2. CASE v # w
  <2>1. r.alive
    BY <1>2 DEF DefensiveFire
  <2>2. PICK o \in Overloads(w, t, FALSE, str) :
          IF o.str = 0 THEN v = o.w ELSE \E x \in Exchange(o.w, t, s, o.str, beam) : v = x.w
    <3> DEFINE After(q) == IF q.str = 0 THEN {q.w}
                           ELSE {x.w : x \in Exchange(q.w, t, s, q.str, FALSE)}
    <3>1. DefensiveFire(w, s, t) \subseteq {w} \cup UNION {After(q) : q \in Overloads(w, t, FALSE, str)}
      BY DEF DefensiveFire
    <3> HIDE DEF After, str
    <3>2. PICK q \in Overloads(w, t, FALSE, str) : v \in After(q)
      BY <1>2, <3>1
    <3> QED BY <3>2 DEF After
  <2>3. str \in Amount /\ Affords(w.ship[t], str, beam)
    BY WorldFields, RetalBounded DEF Amount
  <2> HIDE DEF str
  <2>4. Overloaded(w, t, str, o)
    BY <2>1, <2>2, <2>3, PlainOverloadsHit
  <2>5. CASE o.str = 0
    BY <2>2, <2>4, <2>5 DEF Overloaded, Hit, AllAsked
  <2>6. CASE o.str # 0
    <3>1. PICK x \in Exchange(w, t, s, str, beam) : v = x.w
      BY <2>2, <2>4, <2>6 DEF Overloaded
    <3> HIDE DEF beam
    <3> QED BY <2>3, <3>1, ExchangeHolds
  <2> QED BY <2>5, <2>6
<1> QED BY <1>1, <1>2

LEMMA AssaultSettles ==
  ASSUME World \in Worlds, NEW p \in Player, NEW s \in Ship, NEW t \in Ship,
         NEW what, NEW n \in Strength, Assault(p, s, t, what, n)
  PROVE  \E w : Settles(w) /\ Ends(w)
<1> DEFINE Goes(w) == w.ship[t].alive /\ w.ship[s].alive /\ People(w.ship[s], what) > 0
           c == Charge(World, p)
<1>1. s # t /\ World.AP[p] >= 1
  BY WorldIs DEF Assault, Target
<1>2. PICK d \in DefensiveFire(c, s, t) :
        \E w \in IF Goes(d) THEN Boarding(d, s, t, what, n) ELSE {d} : Ends(w)
  BY DEF Assault
<1>3. PICK w \in IF Goes(d) THEN Boarding(d, s, t, what, n) ELSE {d} : Ends(w)
  BY <1>2
<1>4. /\ c \in Worlds /\ c.ship = World.ship /\ c.log = World.log /\ Census(c) = Census(World)
  BY <1>1, ChargeFields
<1> HIDE DEF c
<1>5. Follows(c, d) /\ AllAsked(c, d)
  BY <1>1, <1>2, <1>4, WorldIs, DefensiveFireHolds
<1>6. /\ d \in Worlds /\ Census(d) = Census(World) /\ d.log.landed = {} /\ AllAsked(World, d)
  BY <1>4, <1>5, WorldIs DEF Follows, AllAsked, AskedUpTo
<1>7. w = d \/ (Keeps(d, w) /\ Census(w) = Census(d))
  <2>1. CASE Goes(d)
    <3>1. d.ship[t].alive /\ d.ship[s].alive /\ w \in Boarding(d, s, t, what, n)
      BY <1>3, <2>1
    <3> QED BY <1>1, <1>6, <3>1, BoardingKeeps
  <2>2. CASE ~Goes(d)
    BY <1>3, <2>2
  <2> QED BY <2>1, <2>2
<1>8. Settles(w)
  BY <1>6, <1>7, KeepsAsked DEF Keeps, Settles
<1> QED BY <1>3, <1>8

-----------------------------------------------------------------------------
(* Capture by the people of a sector.                                      *)

\* Attackers who fell are counted as lost while the sector still lists them.
Stormed(w, b, f) ==
  /\ Keeps(w, f.w) /\ f.left \in Nat /\ f.left <= b /\ Census(f.w) = Census(w) + (b - f.left)

LEMMA FellStormed ==
  ASSUME NEW w \in Worlds, NEW b \in Nat, NEW a \in 0..b, NEW y, Keeps(w, y),
         Census(y) = Census(w)
  PROVE  Stormed(w, b, [w |-> Lost(y, a), left |-> b - a])
<1> DEFINE v == Lost(y, a)
<1>1. y \in Worlds /\ a \in Nat
  BY DEF Keeps
<1>2. Keeps(y, v) /\ Census(v) = Census(y) + a
  BY <1>1, LostKeeps
<1> HIDE DEF v
<1>3. b - a \in Nat /\ b - a <= b /\ Census(v) = Census(w) + (b - (b - a))
  BY <1>1, <1>2, CensusIsInt
<1> QED BY <1>2, <1>3, KeepsKeeps DEF Stormed, v

LEMMA StormsStormed ==
  ASSUME NEW w \in Worlds, NEW t \in Ship, w.ship[t].alive, NEW b \in Nat,
         NEW f \in Storms(w, t, b)
  PROVE  Stormed(w, b, f)
<1> DEFINE v == w.ship[t]
<1>1. CASE v.crew + v.troops > 0
  <2>1. PICK x \in Battered(w, t), a \in 0..b, c \in 0..v.crew, m \in 0..v.troops :
          f = [w |-> Lost(Fallen(x, t, c, m), a), left |-> b - a]
    BY <1>1 DEF Storms
  <2>2. Hit(w, x, {t}) /\ x.ship[t].crew = v.crew /\ x.ship[t].troops = v.troops
    BY BatteredHits
  <2>3. x \in Worlds /\ Keeps(w, x) /\ Census(x) = Census(w)
    BY <2>2, HitKeeps, HitWorlds
  <2> DEFINE y == Fallen(x, t, c, m)
  <2>4. Keeps(x, y) /\ Census(y) = Census(x)
    BY <2>2, <2>3, FallenKeeps
  <2>5. f = [w |-> Lost(y, a), left |-> b - a]
    BY <2>1
  <2> HIDE DEF y
  <2>6. Keeps(w, y) /\ Census(y) = Census(w)
    BY <2>3, <2>4, KeepsKeeps
  <2> QED BY <2>5, <2>6, FellStormed
<1>2. CASE ~(v.crew + v.troops > 0)
  <2>1. PICK a \in 0..b : \E x : (x = w \/ x \in Battered(w, t))
                                    /\ f = [w |-> Lost(x, a), left |-> b - a]
    <3> DEFINE Trapped(x, a) == [w |-> Lost(x, a), left |-> b - a]
    <3>1. f = Trapped(w, 0) \/ \E x \in Struck(w, t), a \in 0..b : f = Trapped(x, a)
      BY <1>2 DEF Storms
    <3>2. 0 \in 0..b
      OBVIOUS
    <3> HIDE DEF Trapped
    <3>3. \E a \in 0..b : \E x : (x = w \/ x \in Battered(w, t)) /\ f = Trapped(x, a)
      BY <3>1, <3>2 DEF Battered
    <3> QED BY <3>3 DEF Trapped
  <2> PICK x : (x = w \/ x \in Battered(w, t)) /\ f = [w |-> Lost(x, a), left |-> b - a]
    BY <2>1
  <2>2. Keeps(w, x) /\ Census(x) = Census(w)
    BY BatteredHits, FollowsSelf, HitKeeps
  <2> QED BY <2>2, FellStormed
<1> QED BY <1>1, <1>2

\* The sector loses people, and its owner with the last of them.
LEMMA DesertedFields ==
  ASSUME NEW w \in Worlds, NEW k \in Nat, k <= w.planet.popn, NEW o \in Player \cup {None}
  PROVE  LET u == [w EXCEPT !.planet.popn = @ - k, !.planet.owner = o]
         IN u \in Worlds /\ u.log = w.log /\ Census(u) = Census(w) - k
<1> DEFINE n == w.planet.popn - k
           Q == [w.planet EXCEPT !.popn = n]
           P == [Q EXCEPT !.owner = o]
           u == [w EXCEPT !.planet = P]
<1>1. w.planet \in Surface /\ w.planet.popn \in Nat
  BY WorldFields, SurfaceEdits
<1>2. Q \in Surface
  <2>1. n \in Amount
    BY <1>1 DEF Amount
  <2> HIDE DEF n
  <2> QED BY <1>1, <2>1, SurfaceEdits
<1>3. P \in Surface
  <2> HIDE DEF Q
  <2> QED BY <1>2, SurfaceEdits
<1>4. P.popn = w.planet.popn - k
  BY <1>1 DEF Surface
<1>5. [w EXCEPT !.planet.popn = @ - k, !.planet.owner = o] = u
  BY <1>1 DEF Worlds, Surface
<1> HIDE DEF P
<1>6. u \in Worlds /\ u.ship = w.ship /\ u.planet = P /\ u.log = w.log
  BY <1>3, PlanetFields
<1> HIDE DEF u
<1>7. \A s \in Ship : Heads(u.ship)[s] = Heads(w.ship)[s]
  BY <1>6
<1>8. Census(u) = Census(w) + (u.planet.popn - w.planet.popn) + (u.log.lost - w.log.lost)
  BY <1>6, <1>7, CensusSame
<1> QED BY <1>1, <1>4, <1>5, <1>6, <1>8, CensusIsInt

LEMMA CaptureSettles ==
  ASSUME World \in Worlds, NEW p \in Player, NEW t \in Ship, NEW n \in Strength, Capture(p, t, n)
  PROVE  \E w : Settles(w) /\ Ends(w)
<1> DEFINE b == Min({n, planet.popn})
           c == Charge(World, p)
<1>1. World.AP[p] >= 1 /\ World.ship[t].alive
  BY WorldIs DEF Capture, MayCapture
<1>2. PICK f \in Storms(c, t, b) : Ends(AfterStorm(f, p, t, b))
  BY DEF Capture
<1>3. /\ c \in Worlds /\ c.ship = World.ship /\ c.log = World.log /\ c.planet = planet
      /\ Census(c) = Census(World)
  BY <1>1, ChargeFields, WorldIs
<1> HIDE DEF c
<1>4. b \in Nat /\ b <= planet.popn /\ planet.popn \in Nat
  <2>1. planet.popn \in Nat
    BY WorldFields, SurfaceEdits, WorldIs
  <2> QED BY <2>1, LeastOf DEF Amount
<1> HIDE DEF b
<1>5. Stormed(c, b, f)
  BY <1>1, <1>2, <1>3, <1>4, StormsStormed
<1> DEFINE x == f.w
           v == x.ship[t]
           taken == v.crew + v.troops = 0 /\ v.alive /\ f.left > 0
           moved == IF taken THEN Min({f.left, MaxCrew(v)}) ELSE 0
           gone == moved + (b - f.left)
           y == Put(x, t, [v EXCEPT !.owner = p])
           w == IF taken THEN Joined(y, t, "civ", moved) ELSE x
           o == IF planet.popn = gone THEN None ELSE w.planet.owner
           u == [w EXCEPT !.planet.popn = @ - gone, !.planet.owner = o]
<1>6. /\ x \in Worlds /\ Keeps(c, x) /\ f.left \in Nat /\ f.left <= b
      /\ Census(x) = Census(c) + (b - f.left)
  BY <1>5 DEF Stormed, Keeps
<1>7. moved \in Nat /\ moved <= f.left
  <2>1. MaxCrew(v) \in Nat
    BY DEF MaxCrew
  <2> DEFINE k == MaxCrew(v)
  <2>2. Min({f.left, k}) = IF f.left <= k THEN f.left ELSE k
    <3> HIDE DEF k
    <3> QED BY <1>6, <2>1, MinOfTwo DEF k
  <2> QED BY <1>6, <2>1, <2>2
<1> HIDE DEF moved
<1>8. Keeps(x, w) /\ Census(w) = Census(x) + moved
  <2>1. CASE taken
    <3>1. /\ Keeps(x, y) /\ Census(y) = Census(x) /\ y.ship[t].alive
      BY <1>6, <2>1, CapturedKeeps
    <3> HIDE DEF y
    <3>2. y \in Worlds
      BY <3>1 DEF Keeps
    <3>3. moved \in Int /\ People(y.ship[t], "civ") + moved >= 0
      BY <1>7, <3>2, WorldFields, VesselFields DEF People
    <3>4. Keeps(y, Joined(y, t, "civ", moved)) /\ Census(Joined(y, t, "civ", moved)) = Census(y) + moved
      BY <3>1, <3>2, <3>3, JoinedKeeps
    <3> QED BY <2>1, <3>1, <3>4, KeepsKeeps
  <2>2. CASE ~taken
    <3>1. moved = 0 /\ w = x
      BY <2>2 DEF moved
    <3> QED BY <1>6, <3>1, CensusIsInt DEF Keeps
  <2> QED BY <2>1, <2>2
<1>9. AfterStorm(f, p, t, b) = u
  BY DEF AfterStorm, moved
<1> HIDE DEF w
<1>10. /\ w \in Worlds /\ w.planet = planet /\ w.log.quarry = World.log.quarry
       /\ w.log.landed = World.log.landed
  BY <1>3, <1>6, <1>8 DEF Keeps
<1>11. gone \in Nat /\ gone <= w.planet.popn
  BY <1>4, <1>6, <1>7, <1>10
<1>12. o \in Player \cup {None}
  BY <1>10, WorldFields, SurfaceEdits
<1>13. u \in Worlds /\ u.log = w.log /\ Census(u) = Census(w) - gone
  <2> HIDE DEF gone, o
  <2> QED BY <1>10, <1>11, <1>12, DesertedFields
<1>14. Census(u) = Census(World)
  <2>1. Census(u) = Census(w) - (moved + (b - f.left))
    BY <1>13
  <2>2. Census(c) \in Int
    BY <1>3, CensusIsInt
  <2> HIDE DEF u, x, v, taken, gone, y
  <2> QED BY <1>3, <1>4, <1>6, <1>7, <1>8, <2>1, <2>2
<1> HIDE DEF u
<1>15. Settles(u)
  BY <1>10, <1>13, <1>14, SettlesPlain
<1> QED BY <1>2, <1>9, <1>15

-----------------------------------------------------------------------------
(* Orders.                                                                 *)

\* A ship that is there stays there, with whom it has.
Refitted(s, r) ==
  /\ r \in Vessel /\ Lit(r) /\ r.dest # s
  /\ r.alive = ship[s].alive /\ r.crew = ship[s].crew /\ r.troops = ship[s].troops

LEMMA RefittedSettles ==
  ASSUME World \in Worlds, NEW s \in Ship, NEW r, Refitted(s, r)
  PROVE  Settles(Put(World, s, r))
<1>1. /\ r \in Vessel /\ Lit(r) /\ r.dest # s /\ World.ship[s] = ship[s]
      /\ r.alive => World.ship[s].alive
  BY WorldIs DEF Refitted
<1> DEFINE v == Put(World, s, r)
<1>2. /\ Keeps(World, v) /\ v.ship[s] = r /\ v.ship = [World.ship EXCEPT ![s] = r]
      /\ Census(v) = Census(World) - Aboard(World.ship[s]) + Aboard(r)
  BY <1>1, PutKeeps
<1>3. Aboard(r) = Aboard(World.ship[s]) /\ Aboard(r) \in Int
  BY <1>1, VesselFields DEF Aboard, Refitted
<1> HIDE DEF v
<1>4. v \in Worlds /\ Census(v) = Census(World)
  BY <1>2, <1>3, CensusIsInt DEF Keeps
<1>5. Settles(v)
  BY <1>2, <1>4, SettlesPlain DEF Keeps
<1> QED BY <1>5 DEF v

LEMMA ShipIs ==
  ASSUME World \in Worlds, NEW s \in Ship
  PROVE  ship[s] \in Vessel /\ Lit(ship[s]) /\ ship[s].dest # s
BY WorldFields, WorldIs

\* Orders that touch neither the laser nor the destination.
LEMMA PlainOrders ==
  ASSUME World \in Worlds, NEW s \in Ship
  PROVE  /\ \A q \in Ship \cup {None} : Refitted(s, [ship[s] EXCEPT !.prot = q])
         /\ \A n \in Amount : Refitted(s, [ship[s] EXCEPT !.salvo = n])
         /\ \A b \in Flag : /\ Refitted(s, [ship[s] EXCEPT !.retaliate = b])
                            /\ Refitted(s, [ship[s] EXCEPT !.defense = b])
                            /\ Refitted(s, [ship[s] EXCEPT !.mode = b])
                            /\ Refitted(s, [ship[s] EXCEPT !.on = b])
<1> DEFINE r == ship[s]
<1>1. r \in Vessel /\ Lit(r) /\ r.dest # s
  BY ShipIs
<1> HIDE DEF r
<1>2. ASSUME NEW q \in Ship \cup {None} PROVE Refitted(s, [r EXCEPT !.prot = q])
  <2>1. [r EXCEPT !.prot = q] \in Vessel
    BY <1>1, OtherEdits
  <2> QED BY <1>1, <2>1 DEF Refitted, Lit, LaserOn, Vessel, r
<1>3. ASSUME NEW n \in Amount PROVE Refitted(s, [r EXCEPT !.salvo = n])
  <2>1. [r EXCEPT !.salvo = n] \in Vessel
    BY <1>1, AmountEdits
  <2> QED BY <1>1, <2>1 DEF Refitted, Lit, LaserOn, Vessel, r
<1>4. ASSUME NEW b \in Flag
      PROVE  Refitted(s, [r EXCEPT !.retaliate = b]) /\ Refitted(s, [r EXCEPT !.defense = b])
  <2>1. [r EXCEPT !.retaliate = b] \in Vessel /\ [r EXCEPT !.defense = b] \in Vessel
    BY <1>1, FlagEdits
  <2>2. Refitted(s, [r EXCEPT !.retaliate = b])
    BY <1>1, <2>1 DEF Refitted, Lit, LaserOn, Vessel, r
  <2>3. Refitted(s, [r EXCEPT !.defense = b])
    BY <1>1, <2>1 DEF Refitted, Lit, LaserOn, Vessel, r
  <2> QED BY <2>2, <2>3
<1>5. ASSUME NEW b \in Flag
      PROVE  Refitted(s, [r EXCEPT !.mode = b]) /\ Refitted(s, [r EXCEPT !.on = b])
  <2>1. [r EXCEPT !.mode = b] \in Vessel /\ [r EXCEPT !.on = b] \in Vessel
    BY <1>1, FlagEdits
  <2>2. Refitted(s, [r EXCEPT !.mode = b])
    BY <1>1, <2>1 DEF Refitted, Lit, LaserOn, Vessel, r
  <2>3. Refitted(s, [r EXCEPT !.on = b])
    BY <1>1, <2>1 DEF Refitted, Lit, LaserOn, Vessel, r
  <2> QED BY <2>2, <2>3
<1> QED BY <1>2, <1>3, <1>4, <1>5 DEF r

LEMMA OrdersSettle ==
  ASSUME World \in Worlds, NEW s \in Ship, Orders(s)
  PROVE  \E w : Settles(w) /\ Commands("orders", w)
<1> DEFINE r == ship[s]
           Done(y) == Commands("orders", Put(World, s, y))
<1>1. /\ r \in Vessel /\ Lit(r) /\ r.dest # s /\ r.crystals \in Nat /\ r.guns \in Nat
      /\ r.fire \in Nat /\ r.on \in Flag
  BY ShipIs, VesselFields
<1>2. SUFFICES \E y : Refitted(s, y) /\ Done(y)
  BY RefittedSettles
<1>3. \A n \in Strength \cup {0} : n \in Amount
  BY BattleAssumption DEF Amount
<1>4. ASSUME NEW n \in Strength \cup {0}, OrderLaser(s, n) PROVE \E y : Refitted(s, y) /\ Done(y)
  <2> DEFINE q == [r EXCEPT !.fire = n]
             y == [q EXCEPT !.refit = FALSE]
  <2>1. q \in Vessel
    BY <1>1, <1>3, AmountEdits
  <2>2. y \in Vessel
    <3> HIDE DEF q
    <3> QED BY <2>1, FlagEdits DEF Flag
  <2>3. r.mounted /\ Done([r EXCEPT !.fire = n, !.refit = FALSE])
    BY <1>4 DEF OrderLaser, Ordered
  <2>4. y = [r EXCEPT !.fire = n, !.refit = FALSE]
    BY <1>1 DEF Vessel
  <2>5. Refitted(s, y)
    BY <1>1, <2>2, <2>3 DEF Refitted, Lit, LaserOn, Vessel
  <2> HIDE DEF y, Done
  <2> QED BY <2>3, <2>4, <2>5
<1>5. ASSUME NEW n \in Strength \cup {0}, OrderSalvo(s, n) PROVE \E y : Refitted(s, y) /\ Done(y)
  <2>1. Done([r EXCEPT !.salvo = Min({n, r.guns})])
    BY <1>5 DEF OrderSalvo, Ordered
  <2>2. Min({n, r.guns}) \in Amount
    BY <1>1, <1>3, MinOfTwo DEF Amount
  <2> QED BY <2>1, <2>2, PlainOrders
<1>6. ASSUME NEW t \in Ship \cup {None}, OrderProtect(s, t) PROVE \E y : Refitted(s, y) /\ Done(y)
  <2>1. Done([r EXCEPT !.prot = t])
    BY <1>6 DEF OrderProtect, Ordered
  <2> QED BY <2>1, PlainOrders
<1>7. ASSUME NEW b \in Flag, OrderRetaliate(s, b) \/ OrderDefense(s, b) \/ OrderMode(s, b)
      PROVE  \E y : Refitted(s, y) /\ Done(y)
  <2>1. \/ Done([r EXCEPT !.retaliate = b])
        \/ Done([r EXCEPT !.defense = b])
        \/ Done([r EXCEPT !.mode = b])
    BY <1>7 DEF OrderRetaliate, OrderDefense, OrderMode, Ordered
  <2> HIDE DEF Done, r
  <2> QED BY <2>1, PlainOrders DEF r
<1>8. ASSUME OrderSwitch(s) PROVE \E y : Refitted(s, y) /\ Done(y)
  <2>1. Done([r EXCEPT !.on = ~r.on])
    BY <1>1, <1>8 DEF OrderSwitch, Ordered, Vessel
  <2> DEFINE b == ~r.on
  <2>2. b \in Flag
    BY Zenon DEF Flag
  <2>3. Refitted(s, [r EXCEPT !.on = b])
    <3> HIDE DEF b
    <3> QED BY <2>2, PlainOrders
  <2> HIDE DEF Done, r
  <2> QED BY <2>1, <2>3
<1>9. ASSUME NEW d \in Ship \cup {Ground}, OrderDestination(s, d)
      PROVE  \E y : Refitted(s, y) /\ Done(y)
  <2> DEFINE y == [r EXCEPT !.dest = d]
  <2>1. Done(y) /\ d # s
    BY <1>9 DEF OrderDestination, Ordered
  <2>2. y \in Vessel
    BY <1>1, OtherEdits DEF Course
  <2>3. Refitted(s, y)
    BY <1>1, <2>1, <2>2 DEF Refitted, Lit, LaserOn, Vessel
  <2> HIDE DEF y, Done
  <2> QED BY <2>1, <2>3
<1>10. ASSUME Mount(s) PROVE \E y : Refitted(s, y) /\ Done(y)
  <2> DEFINE q == [r EXCEPT !.mounted = TRUE]
             k == r.crystals - 1
             y == [q EXCEPT !.crystals = k]
  <2>1. Done([r EXCEPT !.mounted = TRUE, !.crystals = @ - 1]) /\ r.crystals > 0
    BY <1>10 DEF Mount
  <2>2. k \in Amount
    BY <1>1, <2>1 DEF Amount
  <2>3. q \in Vessel
    BY <1>1, FlagEdits DEF Flag
  <2>4. y \in Vessel
    <3> HIDE DEF q, k
    <3> QED BY <2>2, <2>3, AmountEdits
  <2>5. y = [r EXCEPT !.mounted = TRUE, !.crystals = @ - 1]
    BY <1>1 DEF Vessel
  <2>6. Refitted(s, y)
    BY <1>1, <2>4 DEF Refitted, Lit, LaserOn, Vessel
  <2> HIDE DEF y, Done
  <2> QED BY <2>1, <2>5, <2>6
<1>11. ASSUME Dismount(s) PROVE \E y : Refitted(s, y) /\ Done(y)
  <2> DEFINE f == IF LaserOn(r) THEN 0 ELSE r.fire
             k == r.crystals + 1
             q == [r EXCEPT !.mounted = FALSE]
             g == [q EXCEPT !.crystals = k]
             h == [g EXCEPT !.fire = f]
             y == [h EXCEPT !.refit = FALSE]
  <2>1. Done(Dismounted(r))
    BY <1>11 DEF Dismount
  <2>2. k \in Amount /\ f \in Amount
    BY <1>1 DEF Amount
  <2>3. y = Dismounted(r)
    BY <1>1 DEF Dismounted, Vessel
  <2>4. ~LaserOn(y) /\ y.dest = r.dest /\ y.alive = r.alive /\ y.crew = r.crew /\ y.troops = r.troops
    BY <1>1 DEF LaserOn, Vessel
  <2>5. q \in Vessel
    BY <1>1, FlagEdits DEF Flag
  <2> HIDE DEF q, k
  <2>6. g \in Vessel
    BY <2>2, <2>5, AmountEdits
  <2> HIDE DEF g, f
  <2>7. h \in Vessel
    BY <2>2, <2>6, AmountEdits
  <2> HIDE DEF h
  <2>8. y \in Vessel
    BY <2>7, FlagEdits DEF Flag
  <2> HIDE DEF y, Done
  <2>9. Refitted(s, y)
    BY <1>1, <2>4, <2>8 DEF Refitted, Lit
  <2> QED BY <2>1, <2>3, <2>9
<1>12. ASSUME UpgradeLaser(s) PROVE \E y : Refitted(s, y) /\ Done(y)
  <2> DEFINE b == r.fire > 0
             q == [r EXCEPT !.laser = TRUE]
             y == [q EXCEPT !.refit = b]
  <2>1. Done([r EXCEPT !.laser = TRUE, !.refit = b])
    BY <1>12 DEF UpgradeLaser
  <2>2. b \in Flag
    BY DEF Flag
  <2>3. q \in Vessel
    BY <1>1, FlagEdits DEF Flag
  <2>4. y = [r EXCEPT !.laser = TRUE, !.refit = b]
    BY <1>1 DEF Vessel
  <2>5. /\ y.refit = (r.fire > 0) /\ y.fire = r.fire /\ y.dest = r.dest /\ y.alive = r.alive
        /\ y.crew = r.crew /\ y.troops = r.troops
    BY <1>1 DEF Vessel
  <2> HIDE DEF q, b
  <2>6. y \in Vessel
    BY <2>2, <2>3, FlagEdits
  <2> HIDE DEF y, Done
  <2>7. Refitted(s, y)
    BY <1>1, <2>5, <2>6 DEF Refitted, Lit, LaserOn
  <2> QED BY <2>1, <2>4, <2>7
<1> QED BY <1>4, <1>5, <1>6, <1>7, <1>8, <1>9, <1>10, <1>11, <1>12 DEF Orders, Flag

-----------------------------------------------------------------------------
(* The turn: ships and the missiles after ships.                           *)

\* What a stage of the turn does to the books of the world.
Passes(w, v) ==
  /\ v \in Worlds /\ Census(v) = Census(w)
  /\ v.log.landed = w.log.landed /\ v.log.quarry = w.log.quarry

LEMMA PassesPasses ==
  ASSUME NEW w, NEW v, NEW u, Passes(w, v), Passes(v, u)
  PROVE  Passes(w, u)
BY DEF Passes

LEMMA HitPasses ==
  ASSUME NEW w, NEW v, NEW S, Hit(w, v, S)
  PROVE  Passes(w, v)
BY DEF Hit, Follows, Passes

\* The missile is still there after its shot, and is gone then.
LEMMA ShipStrikePasses ==
  ASSUME NEW w \in Worlds, NEW m \in Ship, w.ship[m].alive, NEW v \in ShipStrike(w, m)
  PROVE  Passes(w, v)
<1> DEFINE t == w.ship[m].dest
           str == w.ship[m].destruct
<1>1. CASE v = w
  BY <1>1 DEF Passes
<1>2. CASE v # w
  <2>1. t \in Ship /\ t # m
    BY <1>2, WorldFields DEF ShipStrike
  <2>2. PICK x \in Shoot(w, m, t, str, FALSE, FALSE) : v = Kill(x.w, m)
    BY <1>2 DEF ShipStrike
  <2> HIDE DEF t, str
  <2>3. Hit(w, x.w, {t})
    BY <2>1, <2>2, ShootHits
  <2>4. x.w \in Worlds /\ x.w.ship[m].alive
    BY <2>1, <2>3, HitWorlds DEF Hit, Spared
  <2>5. Hit(x.w, Kill(x.w, m), {m})
    BY <2>4, KillHits
  <2> QED BY <2>2, <2>3, <2>5, HitPasses, PassesPasses
<1> QED BY <1>1, <1>2

\* Repairs, cures and arrivals.
LEMMA AfterDoShipSame ==
  ASSUME NEW r \in Vessel, NEW x \in AfterDoShip(r)
  PROVE  /\ x \in Vessel /\ x.alive = r.alive /\ x.crew = r.crew /\ x.troops = r.troops
         /\ x.dest = r.dest /\ x.kind = r.kind /\ (Lit(r) => Lit(x))
<1> DEFINE Same(y) ==
             /\ y \in Vessel /\ y.alive = r.alive /\ y.crew = r.crew /\ y.troops = r.troops
             /\ y.dest = r.dest /\ y.kind = r.kind /\ (Lit(r) => Lit(y))
           repaired == [r EXCEPT !.damaged = FALSE]
           cured == [r EXCEPT !.active = TRUE]
<1>1. repaired \in Vessel /\ cured \in Vessel
  BY FlagEdits DEF Flag
<1>2. Same(r)
  OBVIOUS
<1>3. Same(repaired)
  BY <1>1 DEF Lit, LaserOn, Vessel
<1>4. Same(cured)
  BY <1>1 DEF Lit, LaserOn, Vessel
<1>5. ASSUME NEW y \in Vessel, Same(y) PROVE Same([y EXCEPT !.at = "plan"])
  <2>1. [y EXCEPT !.at = "plan"] \in Vessel
    <3>1. "plan" \in Places
      BY DEF Places
    <3> QED BY <3>1, OtherEdits
  <2> QED BY <1>5, <2>1 DEF Lit, LaserOn, Vessel
<1>6. PICK y : (y = r \/ y = repaired \/ y = cured) /\ (x = y \/ x = [y EXCEPT !.at = "plan"])
  BY DEF AfterDoShip
<1> HIDE DEF repaired, cured
<1>7. Same(y) /\ y \in Vessel
  BY <1>1, <1>2, <1>3, <1>4, <1>6
<1> QED BY <1>5, <1>6, <1>7

LEMMA DoShipPasses ==
  ASSUME NEW w \in Worlds, NEW s \in Ship, NEW v \in DoShip(w, s)
  PROVE  Passes(w, v)
<1>1. CASE ~w.ship[s].alive
  BY <1>1 DEF DoShip, Passes
<1>2. CASE w.ship[s].alive
  <2>1. PICK r \in AfterDoShip(w.ship[s]) : v = Put(w, s, r) \/ v \in ShipStrike(Put(w, s, r), s)
    BY <1>2 DEF DoShip
  <2> DEFINE x == Put(w, s, r)
  <2>2. /\ w.ship[s] \in Vessel /\ Lit(w.ship[s]) /\ w.ship[s].dest # s
    BY WorldFields
  <2>3. /\ r \in Vessel /\ r.alive = w.ship[s].alive /\ r.crew = w.ship[s].crew
        /\ r.troops = w.ship[s].troops /\ r.dest = w.ship[s].dest /\ Lit(r)
    BY <2>1, <2>2, AfterDoShipSame
  <2>4. /\ Keeps(w, x) /\ x.ship[s] = r /\ x.ship = [w.ship EXCEPT ![s] = r]
        /\ Census(x) = Census(w) - Aboard(w.ship[s]) + Aboard(r)
    BY <1>2, <2>2, <2>3, PutKeeps
  <2>5. Aboard(r) = Aboard(w.ship[s]) /\ Aboard(r) \in Int
    BY <2>2, <2>3, VesselFields DEF Aboard
  <2> HIDE DEF x
  <2>6. Passes(w, x) /\ x \in Worlds /\ x.ship[s].alive
    <3>1. Census(x) = Census(w)
      BY <2>4, <2>5, CensusIsInt
    <3>2. x.ship[s].alive
      BY <1>2, <2>3, <2>4
    <3> QED BY <2>4, <3>1, <3>2 DEF Keeps, Passes
  <2>7. CASE v \in ShipStrike(x, s)
    BY <2>6, <2>7, ShipStrikePasses, PassesPasses
  <2> QED BY <2>1, <2>6, <2>7 DEF x
<1> QED BY <1>1, <1>2

LEMMA ShipsPass ==
  ASSUME NEW w \in Worlds, NEW v \in Sweep({w}, DoShip)
  PROVE  Passes(w, v)
<1> DEFINE K == {x \in Worlds : Passes(w, x)}
           E == [n \in Ship |-> [x \in K |-> DoShip(x, n)]]
           Eqn(f) == f = [n \in 0..NShips |->
                        IF n = 0 THEN {w} ELSE UNION {DoShip(x, n) : x \in f[n - 1]}]
<1>1. {w} \subseteq K
  BY DEF Passes
<1>2. ASSUME NEW n \in Ship, NEW x \in K PROVE DoShip(x, n) \subseteq K
  <2>1. \A u \in DoShip(x, n) : Passes(w, u)
    BY DoShipPasses, PassesPasses
  <2> QED BY <2>1 DEF Passes
<1> HIDE DEF K
<1>3. \E f : Eqn(f)
  <2>1. \A n \in Ship : \A x \in K : E[n][x] \subseteq K
    BY <1>2
  <2> HIDE DEF E
  <2>2. PICK h : Swept(h, {w}, E) /\ \A n \in 0..NShips : h[n] \subseteq K
    BY <1>1, <2>1, SweepWithin
  <2>3. \A n \in 0..NShips :
          h[n] = IF n = 0 THEN {w} ELSE UNION {DoShip(x, n) : x \in h[n - 1]}
    <3> SUFFICES ASSUME NEW n \in 0..NShips
                 PROVE  h[n] = IF n = 0 THEN {w} ELSE UNION {DoShip(x, n) : x \in h[n - 1]}
      OBVIOUS
    <3>1. CASE n = 0
      BY <2>2, <3>1 DEF Swept
    <3>2. CASE n # 0
      <4>1. n \in Ship /\ n - 1 \in 0..NShips
        BY <3>2, ShipsAre
      <4>2. \A x \in h[n - 1] : E[n][x] = DoShip(x, n)
        BY <2>2, <4>1 DEF E
      <4>3. h[n] = UNION {E[n][x] : x \in h[n - 1]}
        BY <2>2, <4>1 DEF Swept
      <4>4. h[n] = UNION {DoShip(x, n) : x \in h[n - 1]}
        BY <4>2, <4>3
      <4> QED BY <3>2, <4>4, Zenon
    <3> QED BY <3>1, <3>2
  <2>4. h = [n \in 0..NShips |-> h[n]]
    BY <2>2 DEF Swept
  <2>5. Eqn(h)
    BY <2>3, <2>4
  <2> QED BY <2>5
<1> DEFINE f == CHOOSE f : Eqn(f)
<1>4. Eqn(f)
  BY <1>3
<1>5. Sweep({w}, DoShip) = f[NShips]
  BY DEF Sweep
<1> HIDE DEF f
<1>6. f[0] \subseteq K
  <2>1. f[0] = {w}
    BY <1>4, ShipsAre
  <2> QED BY <1>1, <2>1
<1>7. ASSUME NEW n \in Ship, f[n - 1] \subseteq K PROVE f[n] \subseteq K
  <2>1. n \in 0..NShips /\ n # 0
    BY ShipsAre
  <2>2. f[n] = UNION {DoShip(x, n) : x \in f[n - 1]}
    BY <1>4, <2>1
  <2> QED BY <1>2, <1>7, <2>2
<1>8. Sweep({w}, DoShip) \subseteq K
  <2>1. \A n \in 0..NShips : f[n] \subseteq K
    BY <1>6, <1>7, SweepEnds
  <2> QED BY <1>5, <2>1, ShipsAre
<1> QED BY <1>8 DEF K

-----------------------------------------------------------------------------
(* The turn: ABMs.                                                         *)

\* What ABMs do: combat, and a record of whom they had their shot at.
Pursues(w, v) ==
  /\ Passes(w, v) /\ w.engaged \subseteq v.engaged
  /\ \A s \in Ship : Worn(w.ship[s], v.ship[s])

\* An ABM that could fire at a threat that is there has had its shot at it.
Shown(w, a, t) ==
  w.ship[t].alive /\ AbmReady(w.ship[a]) /\ Hostile(w.ship[a], w.ship[t]) => <<a, t>> \in w.engaged

LEMMA FollowsPursues ==
  ASSUME NEW w, NEW v, NEW S, Hit(w, v, S)
  PROVE  Pursues(w, v)
BY HitPasses DEF Hit, Follows, Pursues

LEMMA PursuesSelf == \A w \in Worlds : Pursues(w, w)
BY FollowsSelf, FollowsPursues

LEMMA PursuesPursues ==
  ASSUME NEW w \in Worlds, NEW v, NEW u, Pursues(w, v), Pursues(v, u)
  PROVE  Pursues(w, u)
<1>1. ASSUME NEW s \in Ship PROVE Worn(w.ship[s], u.ship[s])
  <2>1. v \in Worlds /\ u \in Worlds
    BY DEF Pursues, Passes
  <2>2. /\ w.ship[s].destruct \in Nat /\ v.ship[s].destruct \in Nat
        /\ u.ship[s].destruct \in Nat
    BY <2>1, WorldFields, VesselFields
  <2>3. Worn(w.ship[s], v.ship[s]) /\ Worn(v.ship[s], u.ship[s])
    BY DEF Pursues
  <2> QED BY <2>2, <2>3 DEF Worn
<1>2. Passes(w, u)
  BY PassesPasses DEF Pursues
<1> QED BY <1>1, <1>2 DEF Pursues

\* Nothing that combat does makes an ABM ready or a ship a threat.
LEMMA ThreatsStay ==
  ASSUME NEW w \in Worlds, NEW v \in Worlds, NEW a \in Ship, NEW t \in Ship,
         Worn(w.ship[a], v.ship[a]), Worn(w.ship[t], v.ship[t])
  PROVE  /\ v.ship[t].alive => w.ship[t].alive
         /\ AbmReady(v.ship[a]) => AbmReady(w.ship[a])
         /\ Hostile(v.ship[a], v.ship[t]) => Hostile(w.ship[a], w.ship[t])
<1>1. v.ship[a].destruct \in Nat /\ w.ship[a].destruct \in Nat
  BY WorldFields, VesselFields
<1>2. AbmReady(v.ship[a]) => AbmReady(w.ship[a])
  BY <1>1 DEF AbmReady, Worn
<1>3. Hostile(v.ship[a], v.ship[t]) => Hostile(w.ship[a], w.ship[t])
  BY DEF Hostile, Worn
<1> QED BY <1>2, <1>3 DEF Worn

LEMMA ShownStays ==
  ASSUME NEW w \in Worlds, NEW v, NEW a \in Ship, NEW t \in Ship, Pursues(w, v), Shown(w, a, t)
  PROVE  Shown(v, a, t)
<1>1. v \in Worlds /\ Worn(w.ship[a], v.ship[a]) /\ Worn(w.ship[t], v.ship[t])
      /\ w.engaged \subseteq v.engaged
  BY DEF Pursues, Passes
<1> QED BY <1>1, ThreatsStay DEF Shown

LEMMA EngagedPursues ==
  ASSUME NEW w \in Worlds, NEW a \in Ship, NEW t \in Ship
  PROVE  LET v == [w EXCEPT !.engaged = @ \cup {<<a, t>>}]
         IN v \in Worlds /\ Pursues(w, v) /\ <<a, t>> \in v.engaged
<1> DEFINE e == w.engaged \cup {<<a, t>>}
           v == [w EXCEPT !.engaged = e]
<1>1. e \in SUBSET (Ship \X Ship)
  BY WorldFields
<1>2. [w EXCEPT !.engaged = @ \cup {<<a, t>>}] = v
  BY DEF Worlds
<1> HIDE DEF e
<1>3. /\ v \in Worlds /\ v.ship = w.ship /\ v.planet = w.planet /\ v.log = w.log
      /\ v.engaged = e
  BY <1>1 DEF Worlds
<1> HIDE DEF v
<1>4. \A s \in Ship : Worn(w.ship[s], v.ship[s])
  BY <1>3, FollowsSelf DEF Follows
<1>5. Census(v) = Census(w)
  BY <1>3 DEF Census
<1>6. Pursues(w, v) /\ <<a, t>> \in v.engaged
  BY <1>3, <1>4, <1>5 DEF Pursues, Passes, e
<1> QED BY <1>2, <1>3, <1>6

\* The shot is paid for and noted first.
LEMMA AbmShotPursues ==
  ASSUME NEW w \in Worlds, NEW a \in Ship, NEW t \in Ship, NEW v \in AbmShot(w, a, t)
  PROVE  Pursues(w, v) /\ Shown(v, a, t)
<1> DEFINE r == w.ship[a]
           n == Min({RetalStrength(r), r.destruct, r.salvo})
           y == [r EXCEPT !.destruct = @ - n]
           paid == Put(w, a, y)
           tried == [paid EXCEPT !.engaged = @ \cup {<<a, t>>}]
<1>1. /\ r \in Vessel /\ Lit(r) /\ r.dest # a /\ r.destruct \in Nat /\ r.salvo \in Nat
      /\ RetalStrength(r) \in Nat
  BY WorldFields, VesselFields, RetalBounded
<1>2. CASE r.destruct = 0 \/ ~w.ship[t].alive
  <2>1. v = w
    BY <1>2 DEF AbmShot
  <2>2. Shown(w, a, t)
    BY <1>2 DEF Shown, AbmReady
  <2> QED BY <2>1, <2>2, PursuesSelf
<1>3. CASE ~(r.destruct = 0 \/ ~w.ship[t].alive)
  <2>1. PICK x \in Shoot(tried, a, t, n, FALSE, FALSE) : v = x.w
    BY <1>3 DEF AbmShot
  <2>2. n \in Nat /\ n <= r.destruct
    <3> DEFINE S == {RetalStrength(r), r.destruct, r.salvo}
    <3>1. \A z \in S : z \in Nat
      BY <1>1
    <3>2. \E z \in S : \A q \in S : z <= q
      BY <3>1
    <3>3. Min(S) \in S /\ \A q \in S : Min(S) <= q
      <4> HIDE DEF S
      <4> QED BY <3>2 DEF Min
    <3>4. r.destruct \in S
      OBVIOUS
    <3> HIDE DEF S
    <3>5. n = Min(S)
      BY DEF S
    <3> HIDE DEF n
    <3> QED BY <3>1, <3>3, <3>4, <3>5
  <2> HIDE DEF n
  <2>3. y \in Vessel
    <3>1. y = [r EXCEPT !.destruct = r.destruct - n] /\ r.destruct - n \in Amount
      BY <1>1, <2>2 DEF Vessel, Amount
    <3> QED BY <1>1, <3>1, AmountEdits
  <2>4. /\ Lit(y) /\ y.dest # a /\ y.alive = r.alive /\ y.crew = r.crew /\ y.troops = r.troops
    BY <1>1 DEF Lit, LaserOn, Vessel
  <2>5. Worn(r, y)
    <3>1. /\ y.kind = r.kind /\ y.owner = r.owner /\ y.on = r.on /\ y.salvo = r.salvo
          /\ y.at = r.at /\ y.destruct = r.destruct - n
      BY <1>1 DEF Vessel
    <3>2. y.destruct <= r.destruct
      BY <1>1, <2>2, <3>1
    <3> QED BY <2>4, <3>1, <3>2 DEF Worn
  <2> HIDE DEF y
  <2>6. Hit(w, paid, {a})
    BY <2>3, <2>4, <2>5, PutHits
  <2>7. paid \in Worlds /\ Pursues(w, paid)
    BY <2>6, HitWorlds, FollowsPursues
  <2> HIDE DEF paid
  <2>8. tried \in Worlds /\ Pursues(paid, tried) /\ <<a, t>> \in tried.engaged
    BY <2>7, EngagedPursues
  <2> HIDE DEF tried
  <2>9. Hit(tried, x.w, {t})
    BY <2>1, <2>8, ShootHits
  <2>10. Pursues(tried, v) /\ <<a, t>> \in v.engaged
    BY <2>1, <2>8, <2>9, FollowsPursues DEF Pursues
  <2>11. Pursues(w, v)
    BY <2>7, <2>8, <2>10, PursuesPursues
  <2> QED BY <2>10, <2>11 DEF Shown
<1> QED BY <1>2, <1>3

\* One ABM, all the threats.
LEMMA DoAbmPursues ==
  ASSUME NEW w \in Worlds, NEW a \in Ship, rows \subseteq Ship, NEW v \in DoAbm(w, a)
  PROVE  Pursues(w, v) /\ \A t \in rows : Shown(v, a, t)
<1> DEFINE threats == {t \in rows : w.ship[t].alive /\ Hostile(w.ship[a], w.ship[t])}
<1> DEFINE G == [n \in 0..NShips |-> {x \in Worlds : Pursues(w, x) /\ \A t \in rows \cap 1..n : Shown(x, a, t)}]
           E == [n \in Ship |-> [x \in Worlds |-> AtThreat(x, n, a, threats)]]
           Eqn(f) == f = [n \in 0..NShips |->
                        IF n = 0 THEN {w} ELSE UNION {AtThreat(x, n, a, threats) : x \in f[n - 1]}]
<1>0. \A n \in 0..NShips : G[n] \subseteq Worlds
  OBVIOUS
<1>1. {w} \subseteq G[0]
  BY PursuesSelf, ShipsAre
<1>2. ASSUME NEW n \in Ship, NEW x \in G[n - 1] PROVE AtThreat(x, n, a, threats) \subseteq G[n]
  <2>1. n - 1 \in 0..NShips /\ n \in 0..NShips
    BY ShipsAre
  <2>2. x \in Worlds /\ Pursues(w, x) /\ \A t \in rows \cap 1..(n - 1) : Shown(x, a, t)
    BY <1>2, <2>1
  <2>3. \A t \in rows \cap 1..n : t = n \/ t \in rows \cap 1..(n - 1)
    BY <2>1
  <2>4. ASSUME NEW u \in AtThreat(x, n, a, threats)
        PROVE  Pursues(x, u) /\ (n \in rows => Shown(u, a, n))
    <3>1. CASE n \in threats
      BY <2>2, <2>4, <3>1, AbmShotPursues DEF AtThreat
    <3>2. CASE n \notin threats
      <4>1. u = x
        BY <2>4, <3>2 DEF AtThreat
      <4>2. Worn(w.ship[a], x.ship[a]) /\ Worn(w.ship[n], x.ship[n])
        BY <2>2 DEF Pursues
      <4>3. n \in rows => Shown(x, a, n)
        BY <2>2, <3>2, <4>2, ThreatsStay DEF Shown
      <4> QED BY <2>2, <4>1, <4>3, PursuesSelf
    <3> QED BY <3>1, <3>2
  <2>5. ASSUME NEW u \in AtThreat(x, n, a, threats) PROVE u \in G[n]
    <3>1. Pursues(w, u) /\ u \in Worlds
      BY <2>2, <2>4, <2>5, PursuesPursues DEF Pursues, Passes
    <3>2. ASSUME NEW t \in rows \cap 1..n PROVE Shown(u, a, t)
      <4>1. t \in Ship
        OBVIOUS
      <4> QED BY <2>2, <2>3, <2>4, <2>5, <3>2, <4>1, ShownStays
    <3> QED BY <2>1, <3>1, <3>2
  <2> QED BY <2>5
<1> HIDE DEF threats
<1> HIDE DEF G
<1>3. \E f : Eqn(f)
  <2> HIDE DEF E
  <2>1. PICK h : Swept(h, {w}, E)
    BY SweepExists
  <2>2. /\ h = [n \in 0..NShips |-> h[n]] /\ h[0] = {w}
        /\ \A n \in Ship : h[n] = UNION {E[n][x] : x \in h[n - 1]}
    BY <2>1 DEF Swept
  <2>3. ASSUME NEW n \in Ship, h[n - 1] \subseteq G[n - 1] PROVE h[n] \subseteq G[n]
    <3>1. \A x \in h[n - 1] : E[n][x] = AtThreat(x, n, a, threats)
      BY <1>0, <2>3, ShipsAre DEF E
    <3> QED BY <1>2, <2>2, <2>3, <3>1
  <2>4. \A n \in 0..NShips : h[n] \subseteq G[n]
    BY <1>1, <2>2, <2>3, SweepStays
  <2>5. ASSUME NEW n \in Ship PROVE h[n] = UNION {AtThreat(x, n, a, threats) : x \in h[n - 1]}
    <3>1. h[n - 1] \subseteq Worlds
      BY <1>0, <2>4, ShipsAre
    <3>2. \A x \in h[n - 1] : E[n][x] = AtThreat(x, n, a, threats)
      BY <3>1 DEF E
    <3>3. h[n] = UNION {E[n][x] : x \in h[n - 1]}
      BY <2>2
    <3> QED BY <3>2, <3>3
  <2>6. ASSUME NEW n \in 0..NShips
        PROVE  h[n] = IF n = 0 THEN {w} ELSE UNION {AtThreat(x, n, a, threats) : x \in h[n - 1]}
    <3>1. CASE n = 0
      BY <2>2, <3>1
    <3>2. CASE n # 0
      <4>1. n \in Ship
        BY <3>2, ShipsAre
      <4> QED BY <2>5, <3>2, <4>1, Zenon
    <3> QED BY <3>1, <3>2
  <2>7. Eqn(h)
    BY <2>2, <2>6
  <2> QED BY <2>7
<1> DEFINE f == CHOOSE f : Eqn(f)
<1>4. Eqn(f)
  BY <1>3
<1>5. Sweep({w}, LAMBDA x, t : AtThreat(x, t, a, threats)) = f[NShips]
  BY DEF Sweep
<1> HIDE DEF f
<1>6. f[0] \subseteq G[0]
  <2>1. f[0] = {w}
    BY <1>4, ShipsAre
  <2> QED BY <1>1, <2>1
<1>7. ASSUME NEW n \in Ship, f[n - 1] \subseteq G[n - 1] PROVE f[n] \subseteq G[n]
  <2>1. n \in 0..NShips /\ n # 0
    BY ShipsAre
  <2>2. f[n] = UNION {AtThreat(x, n, a, threats) : x \in f[n - 1]}
    BY <1>4, <2>1
  <2> QED BY <1>2, <1>7, <2>2
<1>8. Sweep({w}, LAMBDA x, t : AtThreat(x, t, a, threats)) \subseteq G[NShips]
  <2>1. f[NShips] \subseteq G[NShips]
    BY <1>6, <1>7, SweepStays, ShipsAre
  <2> QED BY <1>5, <2>1
<1>9. CASE AbmReady(w.ship[a])
  <2>1. v \in G[NShips]
    BY <1>8, <1>9 DEF DoAbm, threats
  <2>2. rows \cap 1..NShips = rows
    BY ShipsAre
  <2> QED BY <2>1, <2>2, ShipsAre DEF G
<1>10. CASE ~AbmReady(w.ship[a])
  BY <1>10, PursuesSelf DEF DoAbm, Shown
<1> QED BY <1>9, <1>10

LEMMA AbmsPursue ==
  ASSUME NEW w \in Worlds, rows \subseteq Ship, NEW v \in Sweep({w}, DoAbm)
  PROVE  Pursues(w, v) /\ \A a \in Ship, t \in rows : Shown(v, a, t)
<1> DEFINE G == [n \in 0..NShips |-> {x \in Worlds : Pursues(w, x) /\ \A a \in 1..n, t \in rows : Shown(x, a, t)}]
           E == [n \in Ship |-> [x \in Worlds |-> DoAbm(x, n)]]
           Eqn(f) == f = [n \in 0..NShips |->
                        IF n = 0 THEN {w} ELSE UNION {DoAbm(x, n) : x \in f[n - 1]}]
<1>0. \A n \in 0..NShips : G[n] \subseteq Worlds
  OBVIOUS
<1>1. {w} \subseteq G[0]
  BY PursuesSelf, ShipsAre
<1>2. ASSUME NEW n \in Ship, NEW x \in G[n - 1] PROVE DoAbm(x, n) \subseteq G[n]
  <2>1. n - 1 \in 0..NShips /\ n \in 0..NShips /\ 1..n \subseteq Ship
    BY ShipsAre
  <2>2. x \in Worlds /\ Pursues(w, x) /\ \A a \in 1..(n - 1), t \in rows : Shown(x, a, t)
    BY <1>2, <2>1
  <2>3. \A a \in 1..n : a = n \/ a \in 1..(n - 1)
    BY <2>1
  <2>4. ASSUME NEW u \in DoAbm(x, n) PROVE u \in G[n]
    <3>1. Pursues(x, u) /\ \A t \in rows : Shown(u, n, t)
      BY <2>2, <2>4, DoAbmPursues
    <3>2. Pursues(w, u) /\ u \in Worlds
      BY <2>2, <3>1, PursuesPursues DEF Pursues, Passes
    <3>3. ASSUME NEW a \in 1..n, NEW t \in rows PROVE Shown(u, a, t)
      <4>1. a \in Ship /\ t \in Ship
        BY <2>1
      <4> QED BY <2>2, <2>3, <3>1, <3>3, <4>1, ShownStays
    <3> QED BY <2>1, <3>2, <3>3
  <2> QED BY <2>4
<1> HIDE DEF G
<1>3. \E f : Eqn(f)
  <2> HIDE DEF E
  <2>1. PICK h : Swept(h, {w}, E)
    BY SweepExists
  <2>2. /\ h = [n \in 0..NShips |-> h[n]] /\ h[0] = {w}
        /\ \A n \in Ship : h[n] = UNION {E[n][x] : x \in h[n - 1]}
    BY <2>1 DEF Swept
  <2>3. ASSUME NEW n \in Ship, h[n - 1] \subseteq G[n - 1] PROVE h[n] \subseteq G[n]
    <3>1. \A x \in h[n - 1] : E[n][x] = DoAbm(x, n)
      BY <1>0, <2>3, ShipsAre DEF E
    <3> QED BY <1>2, <2>2, <2>3, <3>1
  <2>4. \A n \in 0..NShips : h[n] \subseteq G[n]
    BY <1>1, <2>2, <2>3, SweepStays
  <2>5. ASSUME NEW n \in Ship PROVE h[n] = UNION {DoAbm(x, n) : x \in h[n - 1]}
    <3>1. h[n - 1] \subseteq Worlds
      BY <1>0, <2>4, ShipsAre
    <3>2. \A x \in h[n - 1] : E[n][x] = DoAbm(x, n)
      BY <3>1 DEF E
    <3>3. h[n] = UNION {E[n][x] : x \in h[n - 1]}
      BY <2>2
    <3> QED BY <3>2, <3>3
  <2>6. ASSUME NEW n \in 0..NShips
        PROVE  h[n] = IF n = 0 THEN {w} ELSE UNION {DoAbm(x, n) : x \in h[n - 1]}
    <3>1. CASE n = 0
      BY <2>2, <3>1
    <3>2. CASE n # 0
      <4>1. n \in Ship
        BY <3>2, ShipsAre
      <4> QED BY <2>5, <3>2, <4>1, Zenon
    <3> QED BY <3>1, <3>2
  <2>7. Eqn(h)
    BY <2>2, <2>6
  <2> QED BY <2>7
<1> DEFINE f == CHOOSE f : Eqn(f)
<1>4. Eqn(f)
  BY <1>3
<1>5. Sweep({w}, DoAbm) = f[NShips]
  BY DEF Sweep
<1> HIDE DEF f
<1>6. f[0] \subseteq G[0]
  <2>1. f[0] = {w}
    BY <1>4, ShipsAre
  <2> QED BY <1>1, <2>1
<1>7. ASSUME NEW n \in Ship, f[n - 1] \subseteq G[n - 1] PROVE f[n] \subseteq G[n]
  <2>1. n \in 0..NShips /\ n # 0
    BY ShipsAre
  <2>2. f[n] = UNION {DoAbm(x, n) : x \in f[n - 1]}
    BY <1>4, <2>1
  <2> QED BY <1>2, <1>7, <2>2
<1>8. Sweep({w}, DoAbm) \subseteq G[NShips]
  <2>1. f[NShips] \subseteq G[NShips]
    BY <1>6, <1>7, SweepStays, ShipsAre
  <2> QED BY <1>5, <2>1
<1> QED BY <1>8, ShipsAre DEF G

-----------------------------------------------------------------------------
(* The turn: missiles at the planet.                                       *)

\* Those who came down were there before; nobody comes back to life.
Lands(w, v) ==
  /\ v \in Worlds /\ Census(v) = Census(w) /\ v.log.quarry = w.log.quarry
  /\ \A s \in Ship : v.ship[s].alive => w.ship[s].alive
  /\ \A m \in v.log.landed : m \in w.log.landed \/ w.ship[m].alive

LEMMA LandsSelf == \A w \in Worlds : Lands(w, w)
BY DEF Lands

LEMMA LandsLands ==
  ASSUME NEW w \in Worlds, NEW v, NEW u, Lands(w, v), Lands(v, u)
  PROVE  Lands(w, u)
<1>1. v \in Worlds /\ u \in Worlds
  BY DEF Lands
<1>2. u.log.landed \subseteq Ship
  BY <1>1, WorldFields DEF Report
<1>3. ASSUME NEW m \in u.log.landed PROVE m \in w.log.landed \/ w.ship[m].alive
  <2>1. m \in Ship
    BY <1>2
  <2>2. m \in v.log.landed \/ v.ship[m].alive
    BY DEF Lands
  <2> QED BY <2>1, <2>2 DEF Lands
<1> QED BY <1>3 DEF Lands

LEMMA QuietLands ==
  ASSUME NEW w, NEW v, Quiet(w, v)
  PROVE  Lands(w, v)
BY DEF Quiet, Follows, Worn, Lands

LEMMA LeastOfSome ==
  ASSUME NEW S, S \subseteq Ship, S # {}
  PROVE  Min(S) \in S
<1>1. IsWellFoundedOn(OpToRel(<, Nat), Nat)
  BY NatLessThanWellFounded
<1>2. S \subseteq Nat
  BY ShipsAreFinite
<1>3. PICK n \in S : \A m \in S : ~(<<m, n>> \in OpToRel(<, Nat))
  BY <1>1, <1>2, WFMin
<1>4. \A m \in S : n <= m
  <2> SUFFICES ASSUME NEW m \in S PROVE n <= m
    OBVIOUS
  <2>1. ~(<<m, n>> \in OpToRel(<, Nat)) /\ m \in Nat /\ n \in Nat
    BY <1>2, <1>3
  <2>2. m \in Nat /\ n \in Nat
    BY <2>1
  <2>3. ~(m < n)
    BY <2>1 DEF OpToRel
  <2> QED BY <2>2, <2>3
<1> QED BY <1>4 DEF Min

\* It comes down, and its blast is its end; or a defense network draws it.
LEMMA PlanetStrikeLands ==
  ASSUME NEW w \in Worlds, NEW m \in Ship, w.ship[m].alive, w.ship[m].kind = "missile",
         rows \subseteq Ship, NEW v \in PlanetStrike(w, m)
  PROVE  Lands(w, v)
<1> DEFINE nets == {s \in rows : w.ship[s].alive /\ w.ship[s].kind = "pdn"}
           str == w.ship[m].destruct
           l == [w.log EXCEPT !.landed = w.log.landed \cup {m}]
           hit == [w EXCEPT !.log = l]
           d == Min(nets)
           y == [w.ship[m] EXCEPT !.dest = d]
<1>1. CASE nets # {}
  <2>1. v = Put(w, m, y)
    BY <1>1 DEF PlanetStrike
  <2>2. d \in nets
    <3>1. nets \subseteq Ship
      OBVIOUS
    <3> HIDE DEF nets
    <3> QED BY <1>1, <3>1, LeastOfSome
  <2>3. d \in Course /\ d # m
    BY <2>2 DEF Course
  <2> HIDE DEF d
  <2>4. w.ship[m] \in Vessel /\ Lit(w.ship[m])
    BY WorldFields
  <2>5. y \in Vessel
    BY <2>3, <2>4, OtherEdits
  <2>6. /\ Lit(y) /\ y.dest # m /\ y.alive = w.ship[m].alive /\ y.crew = w.ship[m].crew
        /\ y.troops = w.ship[m].troops
    BY <2>3, <2>4 DEF Lit, LaserOn, Vessel
  <2> HIDE DEF y
  <2>7. /\ Keeps(w, Put(w, m, y)) /\ Put(w, m, y).ship[m] = y
        /\ Put(w, m, y).ship = [w.ship EXCEPT ![m] = y]
        /\ Census(Put(w, m, y)) = Census(w) - Aboard(w.ship[m]) + Aboard(y)
    BY <2>5, <2>6, PutKeeps
  <2>8. Aboard(y) = Aboard(w.ship[m]) /\ Aboard(y) \in Int
    BY <2>5, <2>6, VesselFields DEF Aboard
  <2>9. Census(v) = Census(w) /\ Keeps(w, v)
    BY <2>1, <2>7, <2>8, CensusIsInt
  <2> QED BY <2>9 DEF Keeps, Lands
<1>2. CASE nets = {}
  <2>1. w.log \in Report
    BY WorldFields
  <2>2. /\ l \in Report /\ l.lost = w.log.lost /\ l.quarry = w.log.quarry
        /\ l.landed = w.log.landed \cup {m}
    <3>1. w.log.landed \cup {m} \in SUBSET Ship
      BY <2>1 DEF Report
    <3>2. \A S \in SUBSET Ship : [w.log EXCEPT !.landed = S] \in Report
      BY <2>1 DEF Report
    <3>3. l \in Report
      BY <3>1, <3>2
    <3> QED BY <2>1, <3>3 DEF Report
  <2>3. [w EXCEPT !.log.landed = @ \cup {m}] = hit
    BY <2>1 DEF Worlds, Report
  <2> HIDE DEF l
  <2>4. /\ hit \in Worlds /\ hit.ship = w.ship /\ hit.planet = w.planet /\ hit.log = l
    BY <2>2, LogFields
  <2>5. PICK x \in ShootPlanet(hit, m, str) : v = IF x.fired THEN Kill(x.w, m) ELSE w
    BY <1>2, <2>3 DEF PlanetStrike
  <2> HIDE DEF hit
  <2>6. Lands(w, hit)
    <3>1. Census(hit) = Census(w)
      BY <2>2, <2>4 DEF Census
    <3> QED BY <2>2, <2>4, <3>1 DEF Lands
  <2>7. Shelled(hit, x.w)
    BY <2>4, <2>5, ShootPlanetShells
  <2>8. x.w \in Worlds /\ x.w.ship[m].alive /\ Lands(hit, x.w)
    BY <2>4, <2>7, ShelledQuiet, QuietLands DEF Shelled
  <2>9. Lands(x.w, Kill(x.w, m))
    BY <2>8, KillHits, HitQuiet, QuietLands
  <2>10. Lands(w, Kill(x.w, m))
    BY <2>4, <2>6, <2>8, <2>9, LandsLands
  <2> QED BY <2>5, <2>10, LandsSelf
<1> QED BY <1>1, <1>2

LEMMA StrikesLand ==
  ASSUME NEW w \in Worlds, rows \subseteq Ship, NEW v \in Sweep({w}, Strike)
  PROVE  Lands(w, v)
<1> DEFINE K == {x \in Worlds : Lands(w, x)}
           E == [n \in Ship |-> [x \in K |-> Strike(x, n)]]
           Eqn(f) == f = [n \in 0..NShips |->
                        IF n = 0 THEN {w} ELSE UNION {Strike(x, n) : x \in f[n - 1]}]
<1>1. {w} \subseteq K
  BY LandsSelf
<1>2. ASSUME NEW n \in Ship, NEW x \in K PROVE Strike(x, n) \subseteq K
  <2>1. ASSUME NEW u \in Strike(x, n) PROVE Lands(x, u)
    <3>1. CASE u = x
      BY <3>1, LandsSelf
    <3>2. CASE u # x
      <4>1. x.ship[n].alive /\ x.ship[n].kind = "missile" /\ u \in PlanetStrike(x, n)
        BY <2>1, <3>2 DEF Strike
      <4> QED BY <4>1, PlanetStrikeLands
    <3> QED BY <3>1, <3>2
  <2>2. \A u \in Strike(x, n) : Lands(w, u)
    BY <2>1, LandsLands
  <2> QED BY <2>2 DEF Lands
<1> HIDE DEF K
<1>3. \E f : Eqn(f)
  <2>1. \A n \in Ship : \A x \in K : E[n][x] \subseteq K
    BY <1>2
  <2> HIDE DEF E
  <2>2. PICK h : Swept(h, {w}, E) /\ \A n \in 0..NShips : h[n] \subseteq K
    BY <1>1, <2>1, SweepWithin
  <2>3. \A n \in 0..NShips :
          h[n] = IF n = 0 THEN {w} ELSE UNION {Strike(x, n) : x \in h[n - 1]}
    <3> SUFFICES ASSUME NEW n \in 0..NShips
                 PROVE  h[n] = IF n = 0 THEN {w} ELSE UNION {Strike(x, n) : x \in h[n - 1]}
      OBVIOUS
    <3>1. CASE n = 0
      BY <2>2, <3>1 DEF Swept
    <3>2. CASE n # 0
      <4>1. n \in Ship /\ n - 1 \in 0..NShips
        BY <3>2, ShipsAre
      <4>2. \A x \in h[n - 1] : E[n][x] = Strike(x, n)
        BY <2>2, <4>1 DEF E
      <4>3. h[n] = UNION {E[n][x] : x \in h[n - 1]}
        BY <2>2, <4>1 DEF Swept
      <4>4. h[n] = UNION {Strike(x, n) : x \in h[n - 1]}
        BY <4>2, <4>3
      <4> QED BY <3>2, <4>4, Zenon
    <3> QED BY <3>1, <3>2
  <2>4. h = [n \in 0..NShips |-> h[n]]
    BY <2>2 DEF Swept
  <2>5. Eqn(h)
    BY <2>3, <2>4
  <2> QED BY <2>5
<1> DEFINE f == CHOOSE f : Eqn(f)
<1>4. Eqn(f)
  BY <1>3
<1>5. Sweep({w}, Strike) = f[NShips]
  BY DEF Sweep
<1> HIDE DEF f
<1>6. f[0] \subseteq K
  <2>1. f[0] = {w}
    BY <1>4, ShipsAre
  <2> QED BY <1>1, <2>1
<1>7. ASSUME NEW n \in Ship, f[n - 1] \subseteq K PROVE f[n] \subseteq K
  <2>1. n \in 0..NShips /\ n # 0
    BY ShipsAre
  <2>2. f[n] = UNION {Strike(x, n) : x \in f[n - 1]}
    BY <1>4, <2>1
  <2> QED BY <1>2, <1>7, <2>2
<1>8. Sweep({w}, Strike) \subseteq K
  <2>1. \A n \in 0..NShips : f[n] \subseteq K
    BY <1>6, <1>7, SweepEnds
  <2> QED BY <1>5, <2>1, ShipsAre
<1> QED BY <1>8 DEF K

-----------------------------------------------------------------------------
(* The inductive invariant, and what every step keeps.                     *)

AbmsDone ==
  phase = "strikes" =>
    \A a \in Ship, t \in rows :
      ship[t].alive /\ AbmReady(ship[a]) /\ Hostile(ship[a], ship[t]) => <<a, t>> \in engaged

BattleInv == World \in Worlds /\ log \in Report /\ rows \subseteq Ship /\ AbmsDone

\* The world a step ends in.
Leaves(w) ==
  /\ w \in Worlds /\ Census(w) = Census(World) /\ AllAsked(World, w)
  /\ ship' = w.ship /\ planet' = w.planet /\ AP' = w.AP /\ log' = w.log
  /\ engaged' \in SUBSET (Ship \X Ship)

PastAbms ==
  \A m \in log'.landed \cap rows, a \in Ship :
    AbmReady(ship[a]) /\ Hostile(ship[a], ship[m]) => <<a, m>> \in engaged

LEMMA InitBattle == Init => BattleInv
<1> SUFFICES ASSUME Init PROVE BattleInv
  OBVIOUS
<1>1. PICK x \in Start : ship = x.ship /\ planet = x.planet /\ AP = x.AP /\ left = x.left
  BY DEF Init
<1>2. ship \in Fleet /\ planet \in Surface /\ AP \in [Player -> Nat]
  BY <1>1, StartAssumption
<1>3. engaged = {} /\ rows = {} /\ phase = "command" /\ log = Blank
  BY DEF Init
<1>4. World \in Worlds
  BY <1>2, <1>3, WorldIs DEF World, Worlds
<1> QED BY <1>3, <1>4, WorldIs DEF BattleInv, AbmsDone

\* Commands and orders.
LEMMA CommandsLeave ==
  ASSUME BattleInv, NEW what, NEW w, Settles(w), Commands(what, w)
  PROVE  Leaves(w) /\ rows' = rows /\ AbmsDone' /\ PastAbms
<1>1. /\ ship' = w.ship /\ planet' = w.planet /\ AP' = w.AP /\ log' = w.log
      /\ phase' = "command" /\ rows' = rows /\ engaged' = engaged
  BY DEF Commands
<1>2. engaged \in SUBSET (Ship \X Ship)
  BY WorldFields, WorldIs DEF BattleInv
<1>3. Leaves(w)
  BY <1>1, <1>2 DEF Leaves, Settles
<1>4. AbmsDone'
  BY <1>1 DEF AbmsDone
<1>5. PastAbms
  BY <1>1 DEF PastAbms, Settles
<1> QED BY <1>1, <1>3, <1>4, <1>5

LEMMA CombatLeaves ==
  ASSUME BattleInv, NEW p \in Player, Combat(p)
  PROVE  (\E w : Leaves(w)) /\ rows' = rows /\ AbmsDone' /\ PastAbms
<1>1. World \in Worlds
  BY DEF BattleInv
<1>2. \E w : Settles(w) /\ Ends(w)
  <2>1. CASE FireCommand(p)
    BY <1>1, <2>1, FireSettles DEF FireCommand
  <2>2. CASE CewCommand(p)
    BY <1>1, <2>2, FireCewSettles DEF CewCommand
  <2>3. CASE BombardCommand(p)
    BY <1>1, <2>3, BombardSettles DEF BombardCommand
  <2>4. CASE DefendCommand(p)
    BY <1>1, <2>4, DefendSettles DEF DefendCommand
  <2>5. CASE CaptureCommand(p)
    BY <1>1, <2>5, CaptureSettles DEF CaptureCommand
  <2>6. CASE DetonateCommand(p)
    BY <1>1, <2>6, DetonateSettles DEF DetonateCommand
  <2>7. CASE AssaultCommand(p)
    BY <1>1, <2>7, AssaultSettles DEF AssaultCommand
  <2> QED BY <2>1, <2>2, <2>3, <2>4, <2>5, <2>6, <2>7 DEF Combat
<1> QED BY <1>2, CommandsLeave DEF Ends

\* The turn.  What it does asks no escort.
LEMMA PassesLeaves ==
  ASSUME BattleInv, NEW w, Passes(World, w)
  PROVE  /\ w \in Worlds /\ Census(w) = Census(World) /\ AllAsked(World, w)
         /\ w.log.landed = {} /\ w.engaged \in SUBSET (Ship \X Ship)
<1>1. w \in Worlds
  BY DEF Passes
<1>2. w.engaged \in SUBSET (Ship \X Ship)
  BY <1>1, WorldFields
<1> QED BY <1>1, <1>2, WorldIs DEF Passes, AllAsked

LEMMA TurnLeaves ==
  ASSUME BattleInv, Turn
  PROVE  (\E w : Leaves(w)) /\ rows' \subseteq Ship /\ AbmsDone' /\ PastAbms
<1>1. World \in Worlds /\ rows \subseteq Ship
  BY DEF BattleInv
<1>2. CASE BeginTurn
  <2>1. PICK w \in Sweep({World}, DoMine) : Phase("command", "ships", w)
    BY <1>2 DEF BeginTurn
  <2>2. Passes(World, w)
    BY <1>1, <2>1, MinesQuiet DEF Quiet, Follows, Passes
  <2>3. Leaves(w) /\ log'.landed = {}
    BY <2>1, <2>2, PassesLeaves DEF Leaves, Phase
  <2>4. rows' \subseteq Ship /\ phase' = "ships"
    BY <1>2, <2>1 DEF BeginTurn, Phase
  <2> QED BY <2>3, <2>4 DEF AbmsDone, PastAbms
<1>3. CASE ProcessShips
  <2>1. PICK w \in Sweep({World}, DoShip) : Phase("ships", "abms", w)
    BY <1>3 DEF ProcessShips
  <2>2. Passes(World, w)
    BY <1>1, <2>1, ShipsPass
  <2>3. Leaves(w) /\ log'.landed = {}
    BY <2>1, <2>2, PassesLeaves DEF Leaves, Phase
  <2>4. rows' \subseteq Ship /\ phase' = "abms"
    BY <1>1, <1>3, <2>1 DEF ProcessShips, Phase
  <2> QED BY <2>3, <2>4 DEF AbmsDone, PastAbms
<1>4. CASE ProcessAbms
  <2>1. PICK w \in Sweep({World}, DoAbm) : Phase("abms", "strikes", w)
    BY <1>4 DEF ProcessAbms
  <2>2. Pursues(World, w) /\ \A a \in Ship, t \in rows : Shown(w, a, t)
    BY <1>1, <2>1, AbmsPursue
  <2>3. Leaves(w) /\ log'.landed = {}
    BY <2>1, <2>2, PassesLeaves DEF Leaves, Phase, Pursues
  <2>4. rows' = rows /\ ship' = w.ship /\ engaged' = w.engaged
    BY <1>4, <2>1 DEF ProcessAbms, Phase
  <2>5. AbmsDone'
    BY <2>2, <2>4 DEF AbmsDone, Shown
  <2> QED BY <1>1, <2>3, <2>4, <2>5 DEF PastAbms
<1>5. CASE ProcessStrikes
  <2>1. PICK w \in Sweep({World}, Strike) : Phase("strikes", "command", [w EXCEPT !.engaged = {}])
    BY <1>5 DEF ProcessStrikes
  <2>2. Lands(World, w)
    BY <1>1, <2>1, StrikesLand
  <2>3. w \in Worlds /\ Census(w) = Census(World) /\ AllAsked(World, w)
    BY <2>2, WorldIs DEF Lands, AllAsked
  <2>4. /\ ship' = w.ship /\ planet' = w.planet /\ AP' = w.AP /\ log' = w.log /\ engaged' = {}
        /\ phase = "strikes" /\ phase' = "command" /\ rows' = {}
    BY <1>5, <2>1, <2>3 DEF ProcessStrikes, Phase, Worlds
  <2>5. Leaves(w)
    BY <2>3, <2>4 DEF Leaves
  <2>6. PastAbms
    <3>1. \A m \in log'.landed : ship[m].alive
      BY <2>2, <2>4, WorldIs DEF Lands
    <3> QED BY <2>4, <3>1 DEF BattleInv, AbmsDone, PastAbms
  <2> QED BY <2>4, <2>5, <2>6 DEF AbmsDone
<1> QED BY <1>2, <1>3, <1>4, <1>5 DEF Turn

LEMMA NextLeaves ==
  ASSUME BattleInv, Next
  PROVE  (\E w : Leaves(w)) /\ rows' \subseteq Ship /\ AbmsDone' /\ PastAbms
<1>1. World \in Worlds /\ rows \subseteq Ship
  BY DEF BattleInv
<1>2. CASE \E s \in Ship : Orders(s)
  <2>1. \E w : Settles(w) /\ Commands("orders", w)
    BY <1>1, <1>2, OrdersSettle
  <2> QED BY <1>1, <2>1, CommandsLeave
<1>3. CASE \E p \in Player : Combat(p)
  BY <1>1, <1>3, CombatLeaves
<1>4. CASE Turn
  BY <1>4, TurnLeaves
<1> QED BY <1>2, <1>3, <1>4 DEF Next

LEMMA BattleStep == BattleInv /\ [Next]_vars => BattleInv'
<1>1. ASSUME BattleInv, Next PROVE BattleInv'
  <2>1. PICK w : Leaves(w)
    BY <1>1, NextLeaves
  <2>2. /\ w \in Worlds /\ ship' = w.ship /\ planet' = w.planet /\ AP' = w.AP /\ log' = w.log
        /\ engaged' \in SUBSET (Ship \X Ship)
    BY <2>1 DEF Leaves
  <2>3. /\ ship' \in Fleet /\ planet' \in Surface /\ AP' \in [Player -> Nat] /\ log' \in Report
    BY <2>2 DEF Worlds
  <2>4. (World \in Worlds)'
    BY <2>2, <2>3, WorldIs DEF World, Worlds
  <2> QED BY <1>1, <2>3, <2>4, NextLeaves DEF BattleInv
<1>2. ASSUME BattleInv, UNCHANGED vars PROVE BattleInv'
  BY <1>2 DEF vars, BattleInv, World, AbmsDone
<1> QED BY <1>1, <1>2

-----------------------------------------------------------------------------
(* The theorems.                                                           *)

\* The invariant holds in every reachable state.
THEOREM BattleIsSound == Spec => []BattleInv
BY InitBattle, BattleStep, PTL DEF Spec

\* Every volley, of a ship that fires first, answers, protects or defends, is paid
\* for in full, save the one measured with a laser that the shot it answers put out
\* (consume_weapon_resources, fire.cc:113).
THEOREM VolleysArePaid == Spec => []EveryShotPaid
<1>1. BattleInv => EveryShotPaid
  BY DEF BattleInv, Report, Paid, EveryShotPaid
<1> QED BY <1>1, BattleIsSound, PTL

\* Whatever the order of shots, answers and overloads, no ship dies twice in one
\* exchange and no laser fires without a crystal that it should have (do_damage
\* and kill_ship, shootblast.cc).
THEOREM DamageIsSound == Spec => []DamageSound
<1>1. BattleInv => DamageSound
  <2> SUFFICES ASSUME BattleInv PROVE DamageSound
    OBVIOUS
  <2>1. World \in Worlds
    BY DEF BattleInv
  <2>2. TypeOK
    BY <2>1, WorldFields, WorldIs DEF TypeOK
  <2>3. LaserHasCrystal
    BY <2>1, ShipIs DEF LaserHasCrystal
  <2>4. DiesOnce
    BY DEF BattleInv, Report, DiesOnce
  <2> QED BY <2>2, <2>3, <2>4 DEF DamageSound
<1> QED BY <1>1, BattleIsSound, PTL

\* Every able ship ordered to protect the one that was hurt is asked to answer,
\* whatever the answers before its own did (escort retaliation, fire.cc).
THEOREM EscortsAreAsked == Spec => EscortsAnswer
<1>1. BattleInv /\ [Next]_vars =>
        [LET q == log'.quarry
             a == log'.shooter
         IN (q # None /\ ship'[q].alive /\ ship'[a].alive) =>
              \A e \in Ship \ {q, a} :
                (ship[e].alive /\ ship[e].active /\ ship[e].prot = q /\ Scope(ship[e]) = Scope(ship[q]))
                  => e \in log'.answered]_vars
  <2> DEFINE q == log'.quarry
             a == log'.shooter
  <2> SUFFICES ASSUME BattleInv, Next, q # None, ship'[q].alive, ship'[a].alive,
                      NEW e \in Ship \ {q, a}, ship[e].alive, ship[e].active, ship[e].prot = q,
                      Scope(ship[e]) = Scope(ship[q])
               PROVE  e \in log'.answered
    OBVIOUS
  <2>1. PICK w : Leaves(w)
    BY NextLeaves
  <2>2. AllAsked(World, w) /\ log' = w.log /\ ship' = w.ship
    BY <2>1 DEF Leaves
  <2>3. AskedUpTo(World, w, q, a, NShips)
    BY <2>2 DEF AllAsked
  <2>4. e \in (Ship \cap 1..NShips) \ {q, a}
    BY ShipsAre
  <2> QED BY <2>2, <2>3, <2>4, WorldIs DEF AskedUpTo, Able
<1> QED BY <1>1, BattleIsSound, PTL DEF Spec, EscortsAnswer

\* A missile comes down only past the ABMs of the rows that have had their shot at
\* it or have nothing left to fire (the order of a turn, doturncmd.cc:289).
THEOREM AbmsGoFirst == Spec => AbmsFirst
<1>1. BattleInv /\ [Next]_vars =>
        [\A m \in log'.landed \cap rows, a \in Ship :
           AbmReady(ship[a]) /\ Hostile(ship[a], ship[m]) => <<a, m>> \in engaged]_vars
  <2> SUFFICES ASSUME BattleInv, Next PROVE PastAbms
    BY DEF PastAbms
  <2> QED BY NextLeaves
<1> QED BY <1>1, BattleIsSound, PTL DEF Spec, AbmsFirst

\* Nobody is lost but the fallen and those aboard what was destroyed, and nobody is
\* aboard twice: through every exchange, boarding, capture and turn (a party is off
\* its ship when the fight destroys either hull, boarding.cc:169).
THEOREM PeopleAreAccounted == Spec => PeopleAccounted
<1>1. BattleInv /\ [Next]_vars => [Souls(ship, planet) = Souls(ship', planet') + log'.lost]_vars
  <2> SUFFICES ASSUME BattleInv, Next PROVE Souls(ship, planet) = Souls(ship', planet') + log'.lost
    OBVIOUS
  <2>1. PICK w : Leaves(w)
    BY NextLeaves
  <2>2. Census(w) = Census(World) /\ ship' = w.ship /\ planet' = w.planet /\ log' = w.log
    BY <2>1 DEF Leaves
  <2>3. Census(World) = Souls(ship, planet)
    <3>1. World \in Worlds
      BY DEF BattleInv
    <3>2. Census(World) = Souls(ship, planet) + 0 /\ Souls(ship, planet) \in Int
      BY <3>1, WorldIs, CensusIsInt DEF Census, Souls
    <3> QED BY <3>2
  <2>4. Census(w) = Souls(ship', planet') + log'.lost
    BY <2>2 DEF Census
  <2> QED BY <2>2, <2>3, <2>4
<1> QED BY <1>1, BattleIsSound, PTL DEF Spec, PeopleAccounted
=============================================================================
