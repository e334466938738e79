------------------------------ MODULE ShipLinks ------------------------------
(***************************************************************************)
(* The links between ships, and what a ship's destruction does to them.    *)
(* A ship is moored to another, berthed in a carrier, follows a ship or    *)
(* protects one; each link is a foreign key of tbl_ship (dal/schema.cc).   *)
(* kill_ship (services/entity_manager.cc) destroys what is berthed in the  *)
(* ship and clears the links of everybody else.  A command writes as it    *)
(* goes; a turn changes the cached ships only, and its last step writes    *)
(* the living ones and deletes the dead in the order they died.            *)
(*                                                                         *)
(* Positions, fuel, owners and crews decide whether an operation is        *)
(* allowed; here that is left open.  Whether a hangar has room at the      *)
(* moment is left open too: Fits says which craft could ever enter it.     *)
(***************************************************************************)
EXTENDS Naturals

CONSTANTS
  Ship,   \* ship numbers
  None,   \* no ship
  Fits    \* <<craft, carrier>>: the craft is smaller than the hangar

ASSUME ShipAssumption ==
  /\ Ship \subseteq Nat /\ None \notin Ship
  /\ Fits \subseteq Ship \X Ship

VARIABLES
  ship,     \* the ships as the running command or turn sees them
  row,      \* the rows of tbl_ship
  turn,     \* a turn is running (its writes are deferred)
  earlier,  \* <<x, y>>: the turn's flush will delete the row of x before y's
  refused   \* "no", or what the database refused: the server died of it

vars == <<ship, row, turn, earlier, refused>>

Image == [dock : {"spaceborne", "landed", "moored", "berthed", "gone"},
          dest : Ship \cup {None},     \* destshipno: partner, carrier or target
          guard : Ship \cup {None}]    \* protect_ship, aimed_shipno, target_ship

Gone == [dock |-> "gone", dest |-> None, guard |-> None]
New == [dock |-> "spaceborne", dest |-> None, guard |-> None]
Alive(f, s) == f[s].dock # "gone"
Names(i) == {i.dest, i.guard} \ {None}

Init ==
  /\ ship = [s \in Ship |-> New]
  /\ row = ship
  /\ turn = FALSE /\ earlier = {}
  /\ refused = "no"

-----------------------------------------------------------------------------
(* Links, in a table f of ships *)

Spaceborne(s) == ship[s].dock = "spaceborne"
Landed(s) == ship[s].dock = "landed"

\* A new dock and destination; whom it guards stays.
Placed(i, d, t) == [dock |-> d, dest |-> t, guard |-> i.guard]

\* dock_with_ship, both ways
MooredTogether(f, s, t) ==
  [f EXCEPT ![s] = Placed(@, "moored", t), ![t] = Placed(@, "moored", s)]

Undocked(i) == Placed(i, "spaceborne", None)

\* MUTANT: only one half of a mooring is undone
OneSideLetsGo(f, s) == [f EXCEPT ![s] = Undocked(@)]
\* unmoor_ships: the other one lets go only if it holds on to s.
Unmoored(f, s) ==
  [x \in Ship |->
     IF x = s \/ (x = f[s].dest /\ f[x].dest = s) THEN Undocked(f[x]) ELSE f[x]]

-----------------------------------------------------------------------------
(* kill_ship.  What is inside a carrier is looked up in the rows (in_carrier); *)
(* the ships already dead in the cache f are skipped.                          *)

Inside(rows, f, x, S) ==
  Alive(f, x) /\ rows[x].dock = "berthed" /\ rows[x].dest \in S

\* MUTANT: only the craft directly inside
OneDeck(rows, f, r) == {r} \cup {x \in Ship : Inside(rows, f, x, {r})}
\* r, and what is berthed in it at any depth
Hold(rows, f, r) ==
  {x \in Ship :
     \A S \in SUBSET Ship :
       (r \in S /\ \A y \in Ship : Inside(rows, f, y, S) => y \in S) => x \in S}

\* MUTANT: only the destination is forgotten
ForgetsDestination(i, D) == [i EXCEPT !.dest = IF @ \in D THEN None ELSE @]
\* What the living forget when the ships D die
Cleared(i, D) ==
  [dock  |-> IF i.dest \in D /\ i.dock \in {"moored", "berthed"}
             THEN "spaceborne" ELSE i.dock,
   dest  |-> IF i.dest \in D THEN None ELSE i.dest,
   guard |-> IF i.guard \in D THEN None ELSE i.guard]

Killed(rows, f, r) ==
  LET D == Hold(rows, f, r)
  IN  [x \in Ship |-> IF x \in D THEN Gone ELSE Cleared(f[x], D)]

\* Craft are deleted before their carrier, and in the order of their numbers.
DeletedBefore(rows, f, x, y) ==
  \/ x \in Hold(rows, f, y)
  \/ \E a, b \in Ship :
       /\ a < b /\ rows[a].dock = "berthed" /\ rows[b].dock = "berthed"
       /\ rows[a].dest = rows[b].dest
       /\ x \in Hold(rows, f, a) /\ y \in Hold(rows, f, b)

\* A ship is dead once it is marked, its row stands until its last handle
\* goes, and nobody updates it: the rows of D cannot be deleted before it.
StillNames(f, y, D) == \E x \in D \ {y} : x \in Names(f[y])

KillFails(f, r) == \E y \in Hold(f, f, r) : StillNames(f, y, Hold(f, f, y))

-----------------------------------------------------------------------------
(* Commands: each is one SQL transaction *)

Command(f) ==
  /\ ship' = f /\ row' = f
  /\ refused' = "no"
  /\ UNCHANGED <<turn, earlier>>

\* A failed write inside ~EntityHandle, or one nobody catches, ends the
\* process; it is started again on the rows.
Refuse(what) ==
  /\ refused' = what
  /\ ship' = row /\ UNCHANGED row
  /\ turn' = FALSE /\ earlier' = {}

\* dock_single_ship
Dock(s, t) ==
  /\ ~turn /\ s # t
  /\ Spaceborne(s) /\ Spaceborne(t)
  /\ Command(MooredTogether(ship, s, t))

\* undock_moored_ship
Undock(s) ==
  /\ ~turn /\ ship[s].dock = "moored"
  /\ Command(Unmoored(ship, s))

\* land_on_planet_sector
Land(s) ==
  /\ ~turn /\ Spaceborne(s)
  /\ Command([ship EXCEPT ![s] = Placed(@, "landed", None)])

\* launch_from_planet
LaunchFromPlanet(s) ==
  /\ ~turn /\ Landed(s)
  /\ Command([ship EXCEPT ![s] = Undocked(@)])

\* land_friendly_ship: a landed craft is loaded onto a landed carrier, a
\* spaceborne one lands on a carrier that shares its orbit.
MayBerth(s, c) ==
  /\ <<s, c>> \in Fits /\ s # c
  /\ \/ Landed(s) /\ Landed(c)
     \/ Spaceborne(s) /\ ship[c].dock \in {"spaceborne", "landed", "moored"}

Berth(s, c) ==
  /\ ~turn /\ MayBerth(s, c)
  /\ Command([ship EXCEPT ![s] = Placed(@, "berthed", c)])

\* launch_from_carrier: refused while the carrier is berthed itself
LaunchFromCarrier(s) ==
  LET c == ship[s].dest
  IN  /\ ~turn /\ ship[s].dock = "berthed"
      /\ ship[c].dock # "berthed"
      /\ Command([ship EXCEPT ![s] =
           Placed(@, IF Landed(c) THEN "landed" ELSE "spaceborne", None)])

\* order_destination: a ship that is not berthed, possibly itself
Follow(s, t) ==
  /\ ~turn /\ Spaceborne(s)
  /\ Alive(ship, t) /\ ship[t].dock # "berthed"
  /\ Command([ship EXCEPT ![s] = Placed(@, "spaceborne", t)])

\* order_destination: a star or a planet
Steer(s) ==
  /\ ~turn /\ Spaceborne(s)
  /\ Command([ship EXCEPT ![s] = Placed(@, "spaceborne", None)])

\* order_protect: any number but its own, or nothing to stop
Protect(s, t) ==
  /\ ~turn /\ Alive(ship, s) /\ t # s
  /\ IF t # None /\ ~Alive(ship, t)
     THEN Refuse("order")
     ELSE Command([ship EXCEPT ![s].guard = t])

\* One ship dies: scrapped, dissolved, shot, crashed, overloaded
Destroy(r) ==
  /\ ~turn /\ Alive(ship, r)
  /\ IF KillFails(ship, r) THEN Refuse("kill")
     ELSE Command(Killed(ship, ship, r))

\* assault_single_ship, once the target is let go by whom it is moored to:
\* the attacker is repelled, takes the target, destroys it, is destroyed, or
\* both are, the attacker first while its command still holds it.
Assault(s, t) ==
  LET f == IF ship[t].dock = "moored" THEN Unmoored(ship, t) ELSE ship
      g == Killed(f, f, s)
  IN  /\ ~turn /\ s # t
      /\ Spaceborne(s) /\ ship[t].dock \in {"spaceborne", "moored"}
      /\ \/ Command(f)
         \/ Command(MooredTogether(f, s, t))
         \/ \E r \in {s, t} :
              IF KillFails(f, r) THEN Refuse("kill") ELSE Command(Killed(f, f, r))
         \/ IF KillFails(f, s) \/ KillFails(g, t) \/ StillNames(f, s, Hold(g, g, t))
            THEN Refuse("kill") ELSE Command(Killed(g, g, t))

-----------------------------------------------------------------------------
(* Turns *)

BeginTurn ==
  /\ ~turn /\ turn' = TRUE /\ refused' = "no"
  /\ UNCHANGED <<ship, row, earlier>>

InTurn(f) ==
  /\ turn /\ ship' = f
  /\ UNCHANGED <<row, turn, refused>>

Dead == {x \in Ship : Alive(row, x) /\ ~Alive(ship, x)}

\* The deletions a kill in f adds behind those of the ships in before
Queued(f, r, before) ==
  {p \in before \X Hold(row, f, r) : TRUE}
    \cup {p \in Hold(row, f, r) \X Hold(row, f, r) :
            p[1] # p[2] /\ DeletedBefore(row, f, p[1], p[2])}

\* A nova, a mine, a mirror, an interceptor, a spore that bursts, lost in space
Perish(r) ==
  /\ Alive(ship, r)
  /\ InTurn(Killed(row, ship, r))
  /\ earlier' = earlier \cup Queued(ship, r, Dead)

\* execute_missile_ship_strike destroys its target, then the missile
Strike(m) ==
  LET t == ship[m].dest
      f == Killed(row, ship, t)
  IN  /\ Spaceborne(m) /\ t \notin {None, m} /\ Alive(ship, t)
      /\ InTurn(Killed(row, f, m))
      /\ earlier' = earlier \cup Queued(ship, t, Dead)
                       \cup Queued(f, m, Dead \cup Hold(row, ship, t))

\* intercept_missile_by_pdn: a defence network draws the missile to itself
Retarget(m, p) ==
  /\ Spaceborne(m) /\ p # m /\ ship[p].dock \in {"spaceborne", "landed"}
  /\ InTurn([ship EXCEPT ![m] = Placed(@, "spaceborne", p)])
  /\ UNCHANGED earlier

\* Out of sight, out of crew, or arrived
LoseSight(s) ==
  /\ Spaceborne(s) /\ ship[s].dest # None
  /\ InTurn([ship EXCEPT ![s] = Placed(@, "spaceborne", None)])
  /\ UNCHANGED earlier

\* flush_all: the rows of the dead are what they were when the turn began.
FlushFails == \E p \in earlier : p[1] \in Names(row[p[2]])

CommitTurn ==
  /\ turn
  /\ IF FlushFails THEN Refuse("turn")
     ELSE /\ row' = ship /\ turn' = FALSE /\ earlier' = {}
          /\ UNCHANGED <<ship, refused>>

-----------------------------------------------------------------------------
Next ==
  \/ \E s \in Ship :
       \/ Undock(s) \/ Land(s) \/ LaunchFromPlanet(s) \/ LaunchFromCarrier(s)
       \/ Steer(s) \/ Protect(s, None) \/ Destroy(s)
       \/ Perish(s) \/ Strike(s) \/ LoseSight(s)
  \/ \E s, t \in Ship :
       \/ Dock(s, t) \/ Berth(s, t) \/ Follow(s, t) \/ Protect(s, t)
       \/ Assault(s, t) \/ Retarget(s, t)
  \/ BeginTurn \/ CommitTurn

Spec == Init /\ [][Next]_vars

-----------------------------------------------------------------------------
(* Properties *)

\* The variables keep their types; a ship moored or berthed has a partner or
\* a carrier, a landed one goes nowhere.
TypeOK ==
  /\ ship \in [Ship -> Image] /\ row \in [Ship -> Image]
  /\ turn \in BOOLEAN
  /\ earlier \subseteq Ship \X Ship
  /\ refused \in {"no", "order", "kill", "turn"}
  /\ \A s \in Ship :
       /\ ship[s].dock \in {"moored", "berthed"} => ship[s].dest # None
       /\ ship[s].dock = "landed" => ship[s].dest = None

\* entity_manager.cc:925 "clear any foreign key references to this ship on
\* other alive ships": whoever is alive, in a command or in the middle of a
\* turn, names only ships that are alive.
LinksAreLive ==
  \A s \in Ship : Alive(ship, s) => \A t \in Names(ship[s]) : Alive(ship, t)

\* Mooring is mutual, whatever happens to either: docks, assaults, deaths.
MooredInPairs ==
  \A s \in Ship :
    ship[s].dock = "moored" =>
      LET t == ship[s].dest
      IN  t # s /\ ship[t].dock = "moored" /\ ship[t].dest = s

\* kill_ship and domass ask the rows which craft a carrier holds, also while a
\* turn's changes are in the cache only: the answer is never out of date.
HangarQueryIsExact ==
  \A x \in Ship, c \in Ship :
    Alive(ship, x) =>
      ((ship[x].dock = "berthed" /\ ship[x].dest = c)
         <=> (row[x].dock = "berthed" /\ row[x].dest = c))

\* docs/ships.md:50: if a carrier is destroyed, "all parasite vessels berthed
\* in its hangars are eliminated in the explosion", at every depth.
DestructionCascade ==
  [][\A x \in Ship :
       Alive(ship, x) /\ ship[x].dock = "berthed" /\ ~Alive(ship', ship[x].dest)
         => ~Alive(ship', x)]_vars

\* -- Stated in the repository, refuted by the model (README, disagreements) --

\* entity_manager_kill_ship_test.cc:409 "kill_ship inside DeferredWriteScope
\* deletes ship on commit()": what dies in a turn does not stop its flush.
TurnIsWritten == refused # "turn"

\* entity_manager.cc:925 again, for the ship and what dies with it
KillIsWritten == refused # "kill"

\* help/order.md:127 "order <shipnumber> protect <ship to protect>": a number
\* that is no ship's is refused by the order, not by the database.
OrderIsChecked == refused # "order"
=============================================================================
