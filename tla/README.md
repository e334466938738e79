# Galactic Bloodshed: a verification project

TLA+ models of the server in `src/gb`, model-checked with TLC and, where a
statement holds for every value of the constants, proved with TLAPS. Paths are
relative to the repository.

    tlc -workers 2 -config ShipLinks.cfg MCShipLinks     # a run
    tlapm ShipLinksProofs.tla                            # the proofs of a module

`PROJECT.json` lists the components, the runs, the hazards, the theorems, one
seeded bug per property ("mutants": an operator and the faulty one defined just
before it), and for every definition of a model the lines of code it stands for.

## 1. The system

Galactic Bloodshed is a turn-based multi-player game. One server process holds
the sessions of all players, runs their commands one at a time, and every few
minutes simulates a *turn*: an *update* (production, economy, movement) or a
*segment* (movement only). Everything runs on one thread of an asio event loop
over one SQLite connection, so there are no data races; what is hard is what
happens *between* callbacks, between two steps of which one fails, and between
memory and the database.

| Component | State | Operations | Hard because |
|---|---|---|---|
| Server and sessions (`gb/server`) | set of sessions; per session login, god flag, input queue and quota, output buffer, write queue | accept, read, write, tick, run commands, drop, reap, shut down | callbacks, commands that change the set being iterated over, slow and vanishing clients |
| Turn schedule (`server.cc`, `doturncmd.cc`, `vote.cc`, `update.cc`, `segment.cc`) | one `ServerState` row, `go_time_`, `pending_turn_`, votes | tick, update, segment, vote, force, restart | stale decisions, late ticks, crashes, restarts after a long stop |
| Command dispatch (`commands/dispatch.cc`) | transaction, outbox, fixed cost | check, run handler, which may spend points itself, charge, commit or roll back, deliver, prompt | partial failure: points spent and messages sent about things undone |
| EntityManager (`services/entity_manager`) | caches, reference counts, dirty flags, pending deletions, scope | get, peek, create, kill, delete, release, transaction, deferred turn, flush, rollback | aliasing handles, cache against database, rollback, crash |
| Ships' links (`dock`, `land`, `launch`, `load`, `order`, `boarding.cc`, `doship.cc`) | mooring, berth, destination, protection | dock, berth, launch, follow, protect, board, destroy | references to what has died; order of deletions |
| Market (`sell.cc`, `bid.cc`, `doturncmd.cc`) | lots, treasuries, stockpiles, governors | list, bid, settle; pay, grant, appoint, revoke | a bid reserves nothing until the update |
| Governance (`capital.cc`, `allocate.cc`, `give.cc`, `doturncmd.cc`) | `Gov_ship`, star and galaxy action points | name a capital, give, capture, destroy, earn, spend | a reference to a ship that changes hands |
| Victory (`doturncmd.cc`) | planets held, counted, the clock | count, advance, proclaim | counts accumulated over several turns |
| Colonies (`load.cc`, `ground_combat.cc`, `boarding.cc`, `doplanet.cc`, `dosector.cc`) | sectors, crews landed, the planet's sums | load, march, assault, arm, capture, scrap, dissolve, insurgency, enslave; bombard, spore, the stages of an update | sums kept in three ways or not at all; order of an update's stages |
| Construction and cargo (`build.cc`, `construction.cc`, `load.cc`, `upgrade`, `scrap`, `doship.cc`) | what a ship weighs, holds and costs | build, design, activate, upgrade, load, trade, jettison, berth, scrap, kill, a turn's count | running totals kept by a dozen commands and recounted only in a turn, nested hangars |
| Movement (`order.cc`, `navigation.cc`, `route.cc`, `fuel_cost.cc`, `doship.cc`) | destination, drive, course, routes, who explored what | order, mount, land, launch, route, forecast, a segment | orders that exclude one another, rows written while others are flown, a forecast that flies a copy with the turn's own code |
| Combat (`fire.cc`, `bombard.cc`, `shootblast.cc`, `boarding.cc`, `doship.cc`, missiles, mines, ABMs) | guns, lasers, crystals, standing orders, crews | fire, defend, detonate, board, order, mount, upgrade, a turn's shots | every shot may destroy, disarm or be answered by somebody who is asked afterwards |
| Power blocks (`block.cc`, `invite`, `pledge`, `declare`, `doturncmd.cc`) | invitations, pledges, sums per block | invite, pledge, their undoing, an update, a start | sums over members that change in between |
| What a planet yields (`doplanet.cc`, `planetary_simulation`) | stockpiles, masters, alliances | produce, plunder, tribute, deposit, enslave, declare | who gets what depends on who still owns a sector, and when that was asked |
| Von Neumann machines (`vn.cc`) | machines' holds, targets, memories | mine, launch, aim, breed | one update's targets are another's arrivals; not modelled (section 7) |
| Race creation (`gb/creator`) | a design, `racegen.json`, a galaxy's rows | edit, save, load, search a home, enrol | six saves in a row with nothing around them; two tools at work; rules tested in several places |
| Galaxy creation (`gb/creator`) | an empty database | generate | none: one run, sequential, dice |
| Presentation, reports, client | none | format | not state |

**How they interact.** A tick (`Server::tick`) asks the schedule whether a turn
is due, then runs one pass over the sessions. A session's line goes to
`dispatch_command`, which opens an `EntityManager::Transaction` and the outbox,
calls the handler and commits or rolls back both. A turn opens a
`DeferredWriteScope`: entities change in the cache only and are flushed at the
end in one SQL transaction, except for rows created on the way. Handlers and
turn phases call the mechanics, which call `kill_ship`, which changes other
ships and the owner's race. Notices go to sessions through the outbox or to the
telegram table.

**What makes each part correct** is stated as properties (section 3). The
hazards they are aimed at are in `PROJECT.json`, each at its line.

## 2. Modules

| Module | Models | Checked by | Proofs |
|---|---|---|---|
| `AtomicStore` | the abstract store: a draft that becomes the world as a whole or not at all | as a property of `EntityManager` | |
| `EntityManager` | handles, caches, scopes, deletions, crashes | `entity_manager` | `RecordsProofs` |
| `TurnSchedule` | when the server runs a turn | `schedule` | `ServerProofs` |
| `CommandDispatch` | one command from line to prompt; notices | `dispatch` | `EmpireProofs` |
| `Sessions` | connections, logins, quotas, reaping, shutdown | `sessions` | `ServerProofs` |
| `Market` | lots, bids, treasuries, governors | `market` | `EconomyProofs` |
| `ShipLinks` | links between ships; kill and flush | `links` | `ShipLinksProofs` |
| `Governance` | capitals, action points | `empire` | `EmpireProofs` |
| `Victory` | control of planets, the victory clock | `empire` | `EmpireProofs` |
| `Coalitions` | power blocks and their sums | `empire` | `EmpireProofs` |
| `Spoils` | production, plunder, tribute, deposit, toxicity | `empire` | `EmpireProofs` |
| `Colonies` | who lives on a planet, who owns it, what it believes of both | `colonies` | `EconomyProofs` |
| `Carriers` | what ships weigh, hold and cost; hangars | `carriers` | `EconomyProofs` |
| `Flight` | orders, jumps, cruise, pursuit, routes, exploration, the forecast | `flight` | `FlightProofs` |
| `Battle` | volleys and their answers, missiles, ABMs, mines, boarding, standing orders | `battle` | `BattleProofs` |
| `Enrolment` | designing a race and enrolling it, by two tools, with deaths in between | `enrolment` | `RecordsProofs` |
| `Sums` | the sum all books are stated with | in those modules | `SumTheorems` |

`MC<Module>` gives the constants that are not plain sets of model values.
`MCEmpire` joins the four modules of what a turn does to an empire; they share
no state, and `part` says which of them a behaviour moves.

The modules meet at interfaces that are named in their headers. What
`TurnSchedule` calls a turn is one step there, is a `DeferredWriteScope` in
`EntityManager`, the queue of lots in `Market`, `BeginTurn .. CommitTurn` in
`ShipLinks`, `Update` in `Governance`, `Victory` and `Coalitions`, `StartTurn ..
StaysQuiet` in `Colonies`, `Segment` in `Flight`, `Turn` in `Battle`, `BeginTurn`
with one `DoShip` per ship in `Carriers`, the stages of a planet in `Spoils`. The command transaction is
built in `EntityManager`, used by `CommandDispatch` and assumed by the others:
a handler that returns false changes nothing, so only what succeeds is an
action of theirs.

### State and actions against the code

*EntityManager.* `saved` is the file, `db` the connection's view (they differ
inside a SQL transaction), `cache` the entity caches, `held` and `dirty` the
live `EntityHandle`s (the reference count is the number of slots that hold the
entity), `pending` the ids marked for deletion. `Get`, `Peek`, `Create`,
`Change`, `Kill`, `DeleteCommod`, `Release` are the members of the same name;
`BeginCommand .. RollbackCommand` is `Transaction`, `BeginTurn ..
RollbackTurn` is `DeferredWriteScope`, `OpenBarrier`/`CloseBarrier` the
`DeletionBarrier`. `Throw` is an exception leaving the handler: handles are
destroyed without being saved. `Catch` is a handler that catches it and returns
false. Two tables are kept apart, ships (deleted when the last handle goes) and
lots (deleted at the barrier); lots also stand for tables nothing is deleted from.

*TurnSchedule.* `state` is the `ServerState` row. `TickRuns`/`TickWaits` are
`check_turn_events` with the two outcomes of `do_next_thing`; the schedule
arithmetic is translated literally, C++ division included. The schedule is
saved before the turn runs, hence `phase` "update" and "segment" between the
save and `FinishTurn`.

*CommandDispatch.* `Start` is the checks and `begin`, `Warn`, `Talk` and
`TurnTelegram` what a handler or a turn may send, `Deduct` what it spends by itself
(`deduct_ap`, as `sell`, `build` and `fire` do before they can still fail), `Succeed`
charges the fixed cost and commits, `Deliver` flushes the outbox, `Fail` rolls back
and restores the points, `Prompt` ends the command. `spent` is history: what the
command that runs has deducted so far. Role, scope
and argument checks refuse like the cost check; all notices of a loop
(`warn_star`, `notify_star`) are single notices.

*Sessions.* One callback is one action (`Accept`, `Welcome`, `ReadLine`,
`HangUp`, `Drain`, `Tick`); a pass over the sessions is split into `Visit`,
`Command`, `Leave`, `EndPass`, so that commands with an effect on sessions
(`emulate`, `revoke`, `@@update`, `@@shutdown`, `quit`) act in its middle.
Output is counted in blocks up to `MaxWrite`.

*Market.* One action per command and one `UpdateStep` per lot visited by
`process_market_transactions`. One commodity stands for four, and freight is
any function of the two places and the bid.

*ShipLinks.* `ship` is the table as the running code sees it, `row` the table
in the database; in a command both change, in a turn the first only. `guard`
stands for the three other columns that name a ship. Which ship may dock where
depends on position, fuel and owner, all left open; `Fits` is the part of it
that cannot change (a craft smaller than the hangar). Ships built later enter
like any other ship; there is no action for building. When the database
refuses a statement the exception ends the process, which restarts on the rows.

*Governance.* `place` says whether a government center stands landed, berthed
in a habitat, or neither. One star; what an update earns is any of `Raw` and
`Worth`. `Bless` adds what a deity gives or, its amount being negative, takes:
a star may hold more than the limit or less than nothing, and `Excess` bounds by how
much. Free orders of a deity are left out.

*Victory.* `held` is how many planets a race holds the majority of; `Segment`
and `Update` are the counting loop with and without the reset. The program is
built with `VICTORY = false`; the run enables it, so that the proclamation is
exercised too, and none of its properties depends on it.

*Colonies.* `sect` is owner, civilians and troops of every sector, `books` the
planet's `popn` and `troops` and each race's `info` (`popn`, `troops`,
`numsectsowned`), `aboard` the people in a race's ships that stand on the
planet, taken together. One action per command; what odds decide (who survives,
how many bodies are absorbed, which sectors revolt, whose guns enslave) is any
value the code's bounds allow. `Adjusted`/`BooksAdjusted` is
`adjust_sector_population`, `Synced` is `sync_demographics`, `CensusOf` is
`recalculate_census`: the three ways the sums are kept. `Bombard`, `Spore` and
`SlaveRevolt` keep them in none, as in the code, and `drift` records it.
An update is `StartTurn`, ship phase, `StartPlanet`, `Terraform`, `Grow` sector
by sector in any order (produce and spread; migrants go to any free sectors, a
superset of the neighbours), `EndProduction` (or
`Supernova`), `Explore`, `ToxicDamage`, `Census` (with `do_recover` before it)
and `SlaveRevolt` or `StaysQuiet`, in the order of `doplanet`; a segment ends
after the ship phase. Left out: stockpiles, mobilization and money, so all that
they would forbid may happen; combat among ships; the saturation of a sector at
ten million, which the bound on people never meets.

*Carriers.* `ship` has a ship's dock and destination, hold, cargo, size, hangar
(`bay` and what is in use, `hanger`), mass, cost and a canister's waste; `stockpile`
and `toxic` are the planet's. One action per command; in a turn `BeginTurn` and
one step per ship, in any order, as `domass` and `doown` count hangar and mass
anew. One cargo stands for fuel, crew, ammunition and crystals. `loose` and
`grown` are history: whose mass a command is known to leave uncounted, and in
whose hangar a factory has unfolded. Where the code walks hangars within hangars
(killing, counting) the model takes the set it walks: a ship's `Nest`, and the
carriers around it, its `Ancestors`.

*Flight.* Space is a line, so that a bearing is a sign and a distance a
difference; planets stand still. Alliances are given and do not change. No ship is a
telescope: what one is aimed at counts as explored too (`order.cc:44`), and
`ExploredIsSeen` is about races that have none. `OrderDestination .. OrderMerchant` are the
orders of that name, `Mount`, `Land`, `Launch` and the four `Route...` the
commands, and one `Segment` moves every ship in the order of `process_ship_turns`,
from the operators named after the functions it calls (`MoveShip`,
`HyperdriveJump`, `NavigationStep`, `DestinationStep`, `Arrival`, `Merchant`).
`Forecast` is the fuel command: it flies a copy with the same operators and
leaves in `forecast` what it promised. `been`, `earned` and `guest` are history:
where a crew or a probe has been, whose drive a crystal or an update has charged,
and how near its planet a ship is known to be: it came to its orbit by itself (0),
was let in by the one it follows (1), or trails a chain of pursuers (2), of which
each may arrive a little further out than the one before it.

*Battle.* A handler is the set of worlds it can end in: `Shoot`, `Kill`,
`SelfRetaliation`, `EscortRetaliation`, `Exchange` map a world (ships, planet,
points, log) to the worlds after it, and an action picks one. Whatever odds decide
(hits, damage, criticals, overloads) is any outcome the formulas can give. `log`
is the history of one step: who fired, what it paid, who was asked to answer, what
was lost. `Turn` is the turn's own shots: mines and ships, then ABMs, then missiles
on the planet, in the order of `doturncmd.cc`, with `rows` the ships that the
rows, not the cache, put at the planet.

*Enrolment.* `design` and `cost` are the racegen session, `file` is
`racegen.json`; `pc[t]` is how far tool `t` has come, `job[t]` the enrolment it is
at and `mem[t]` its cache of rows; `races`, `ships`, `planets`, `holder` and
`stars` are the rows. Every save of `enroll_player` is a step and a tool may die
before each (`Leave`). A race's row has its `traits`, as `build_race` made them of the
design (`Built`): a design that leaves its compatibilities at the default (`Blank`)
becomes a race with those of its planet's type, which nobody asks a price for;
`unset` is history and says of which races that is so. `overlapped` and `reused` are history: two tools were at work
at once, a home came out of the file and not of a search.

*Coalitions.* `invited` and `pledged` make the members, `block` has each block's
sums, `power` and `settled` what they are sums of. The four commands recompute
them as the code does; `UpdateBlocks` counts the systems that only members inhabit,
draws new power rows and recomputes once more. Races are enrolled while the
server is down, and its start makes every founder a member.

*Spoils.* `stock` is each race's stockpile on one planet, `ground` who owns
sectors there, `slavedTo` the master. `UpdatePlanet` takes production, plunder,
tribute and deposit in the order of `doplanet`. Who owns a sector after a battle
or a season is any outcome; `Colonies` says which.
`gone` and `yielded` are history: what was spent or dropped, what was produced.

## 3. Runs

| Run | Bounds | Shows |
|---|---|---|
| `entity_manager` | 2 ships, 1 lot, 2 values, 2 handles | handles never dangle; nothing is left over between scopes; the store implements `AtomicStore` |
| `schedule` | interval 6, 2 or 3 segments, forced segments 0 and 5, 1 crash, 2 acts of people, clock 20..33 | no update is simulated twice or lost without a crash; cadence; no drift; a due update happens |
| `dispatch` | 3 governors of 2 races, fixed costs 0 and 2 of 3 points, handlers that spend 1 at a time, 2 notices, 1 crash | nobody hears of what was undone; an alert is somewhere; what a handler and the dispatcher spend is paid exactly for success and comes back after a failure |
| `market` | 3 governors of 2 races, 3 ports, 2 money, 2 lots | goods and money are conserved; names stay appointed; bids are resolved |
| `sessions` | 2 clients, 3 governors, queue, quota and buffer of 1 | one login per governor; deity's rights end with the name; full queues are worked off; the dropped are reaped |
| `links` | 3 ships, of which the first fits in both others and the second in the third | references are to the living; mooring is mutual; hangar queries are exact; a carrier's end is its crafts' end |
| `empire` | 2 races, 2 government centers, limit 2, blessings of 3 and -3, 1 above the limit and below nothing; 4 planets, share one half, 2 updates to win; 2 systems; 3 races on the plundered planet, 2 units of goods | no order spends what is not there and nothing but a deity leads beyond the limit; a capital exists; the clock counts consecutive updates and languages are earned in one; a block's sums are those of its members; plunder and tribute lose and make nothing and are by right |
| `colonies` | 2 races of which one absorbs the dead, 3 sectors, 3 people, 1 change in a row the sums miss, a revolt per 2 people | a sector is owned exactly if inhabited; sums are exact where the code keeps them; plunder is from the sectorless; people are not made |
| `carriers` | 3 ships of 6 designs, 3 fleets to start with, amounts of 1, 6 commands and turns | a hangar holds what it says and no more; masses add up unless a named command left them loose; nothing is made out of nothing |
| `flight` | 3 ships of 2 races, 2 systems, 3 starts, up to 3 orders, tank of 12 | orders that exclude one another never meet; places and exploration are true; a forecast keeps its word; a jump order ends |
| `battle` | 3 ships, 3 players, 6 starts, each with a budget of commands and turns | every volley is paid for; a laser has its crystal; nobody dies twice; escorts and ABMs get their shot; boarders are accounted for |
| `enrolment` | 2 tools, 3 stars, 5 planets; 3 edits and 1 enrolment, or 1 edit, 2 enrolments and 1 death | no row names one that is not there; no two searched homes coincide; no race breaks the rules or has what it did not pay for, but for the compatibilities that come with its planet |

**Why the bounds are enough.** Each is the smallest at which the mechanism at
issue has all its cases: two handles to alias an entity and a second ship to be
moored or created meanwhile; an interval that two and three segments divide and
a clock that passes two updates and a long stop; a leader, his governor and
another race's leader for every choice of receiver; three ships for a
craft in a craft in a carrier, or a third party to a mooring; two races for an
owner and a thief; a clock that goes to the winning count and beyond; three
sectors for a battle beside a sector nobody takes part in, and three people for
a crew, a garrison and a family at once; a habitat, a shuttle and a fighter for a
hangar in a hangar; two systems for a jump, and a system left on the way; one who
fires, one who answers and one who stands by him; two tools for two saves in the
wrong order. Queue,
quota and buffer of 1 make every limit be hit at once. Limits and
counters are bounded by named constants in the guards (`MaxTime`, `MaxTurns`,
`MaxCrashes`, `MaxNotices`, `MaxLots`, `Excess`, `MaxCount`, `MaxClock`,
`MaxPeople`, `MaxDrift`, `MaxDays`, `MaxOrders`, `MaxTrip`, `Wealth`, and the budgets
in `Battle`'s `Start` and `Enrolment`'s `Budgets`). Three of them would bring
`Carriers`, `Battle` and `Enrolment` to a halt when they are used up, and the server of
`Sessions` really stops: these have `CHECK_DEADLOCK FALSE`.

**Fairness.** `TurnSchedule`: the timer re-arms itself after every tick, a turn
is a function that returns, an operator restarts a server that is down, time
passes; nobody is obliged to vote or to force. `Market`: updates happen and a
started update visits its lots. `Sessions`: a pass runs to its end, and among
the ticks infinitely many end a time slice (strong fairness, since a tick is
disabled during passes); clients owe nothing at all. `Flight`: segments come,
since the timer does (weak fairness of the clock); nobody is obliged to give an order.

## 4. Proofs

Each theorem holds for all constants that satisfy the assumptions of its module
(`ASSUME`, which TLC evaluates in every run). They say what the code's tables
give and no more: sets of races, planets or subscribers are finite, a price is
not negative, a catalogue has the shape of its table. `Enrolment` is the one that
needs facts about a table: by default a species likes its home's own sectors and
gas giants suit only who lives on them (`creator.cppm:28-60`), so that what a race is
given with its planet keeps the rules too, and every archetype is affordable at one
vigor or another (`PresetAssumption`, `archetypes.cc:49-61`).

| Theorem | Establishes | Inductive invariant |
|---|---|---|
| `RecordsProofs!TypeCorrect`, `HandlesAreValid`, `NoIdTwice`, `QuietAtRest` | `TypeOK`, `NoDangling`, that a cached entity has its row, `AtRest` | `IInv`: cache and rows agree for what no scope changed (`Coherent`), a pending ship is held and has its row (`PendingIsHeld`, `PendingHasRow`), the dead are pending, writes outside a command reach the file |
| `RecordsProofs!Refinement` | `Spec => Store!Spec` | the same; each action maps to a store action or a stutter |
| `RecordsProofs!RowsComeInOrder`, `EveryRaceIsLawful` | `FoundedInOrder`, `LawfulGalaxy` | `EnrolmentInv`: the design on the screen is valid and its price current, a file is valid or handmade (`DesignInv`); rows name rows (`RowsInv`); what a tool has read and written is what the rows say at its stage (`ToolsInv`), and a race made of a lawful design is lawful with its planet's compatibilities as with its own (`RowSound`); as long as no two overlap its cache is current, no searched home is shared and a marked star is founded (`AloneInv`) |
| `ServerProofs!TypeCorrect`, `UpdatesAtMostOnce` | `TypeOK`, `UpdatesAccounted` | type, and that a turn in flight is the one last counted |
| `ServerProofs!TimetableNeverDrifts` | `NoDrift` | every time in the row is the anchor plus a multiple of the interval; the division in `compute_next_update` is what has to be reasoned about |
| `ServerProofs!TimerKeepsCadence` | `CadenceKept` | `Cadence`: while only the timer runs turns, the row's segment count is the number of movements since the last update, the one in flight included |
| `ServerProofs!LoginsAreSound` | `LoginsSound` | `SessionsInv`: that, and that nobody is left to visit between passes |
| `EmpireProofs!NoticesTellTheTruth`, `PointsPayForSuccess` (with `DispatchTypes`) | `NoticesAccounted`, `APAccounted` | `DispatchInv`: only a running command has open notices, each of its alerts is staged for its receiver or his leader or is a telegram (`AlertPending`), what is staged is open, a handler has spent something only while it runs, and the points paid are the price of the phase the command is in, its handler's spending included (`Charging`) |
| `EconomyProofs!MarketTypeCorrect`, `HoldersStayActive`, `DeliveryIsDelayed`, `BidsRise` | as named | `MarketInv`, which is `Lots /\ Counters /\ Offices`: a revoked governor's lots, bids and stars go to the leader, and a lot marked for delivery was visited |
| `EconomyProofs!BooksAlwaysBalance` | `BooksBalance` | the same and `Dormant`: whoever is not in office has no money, so that revoking pays out all there is |
| `ShipLinksProofs!TypeCorrect`, `LinksStayLive`, `MooringIsMutual`, `HangarQueriesAreExact`, `CarriersTakeTheirCraft` | as named | both tables are sound, and they agree on hangars; the heart is `KilledSound`: destroying a ship together with what it holds leaves a sound table |
| `EmpireProofs!TypeCorrect`, `CapitalsStand`, `CapitalsAreChosen`, `AllocationsConserve`, `PointsStayInBounds` | as named; the last, `PointsInBounds`, is about steps: an order leaves the points of a pool it takes from at zero or more, and only a deity moves them beyond a bound | `TypeOK /\ CapitalStands` |
| `EmpireProofs!VictoryIsWonInUpdates` | `VictoryCounts` | the type and `VictoryCounts` itself |
| `EmpireProofs!BlocksAreTheirMembers` | `BlocksCoherent` | `BlocksInv`: nobody is listed in a block who is not enrolled, and who is not has counted no system |
| `EmpireProofs!SpoilsGoByRight` | `SpoilsAccounted`, which is about states and about steps | `SpoilsInv`: what is stored and gone is what was produced, kind by kind |
| `EconomyProofs!OwnersLiveThere`, `PlunderOnlyTheDefeated` | `SettledIffOwned`, `DefeatedHoldNothing` | `PeopleInv`: sectors are `Sound` and crews no less than nobody, kept command by command from one lemma per way to change a sector; `StageInv`: the sums are empty until production is over and then count every sector anybody has |
| `EconomyProofs!SumsAreThePeople`, `NobodyFromNothing` | `BooksExact`, `PeopleAccounted` | `BooksInv`: outside production and without drift the sums are `Synced(sect)`; each way to change sums (`adjust_sector_population`, `sync_demographics`, `recalculate_census`) gives what counting anew would (`OneAdjusted`, `CensusIsSynced` and their like) |
| `BattleProofs!BattleIsSound`, `VolleysArePaid`, `DamageIsSound` | `BattleInv`, `EveryShotPaid`, `DamageSound` | `BattleInv`: the present world is in `Worlds` (ships and planet have their types, every laser that fires its crystal, and the log of the step holds paid volleys only and no second death), and ABMs are done with whatever a turn has left in flight |
| `BattleProofs!EscortsAreAsked`, `AbmsGoFirst`, `PeopleAreAccounted` | `EscortsAnswer`, `AbmsFirst`, `PeopleAccounted`, which are about steps | the same; what each handler's worlds have in common with the one before it, see below |
| `FlightProofs!Logs` | `LogsAreTrue`: orders that exclude one another never meet, who is in a system or an orbit is near it, what was explored was visited, whose drive is charged earned it | every ship's record is `Good`, which adds to the parts of `LogsAreTrue` what a step in flight may assume; a segment is a recursion over the ships in their order, in which each step leaves a good fleet good, and only the ship whose turn it is changes |
| `FlightProofs!ForecastsComeTrue` | `ForecastKept`, which is about steps | the copy that `Forecast` flies agrees with the ship in all that its course depends on (`CopyOfShip`), a copy's course is the ship's as long as nobody else has a say in it (`CourseStep`), so that what was promised for the segments left stays true of them (`Promises`) |
| `EconomyProofs!HangarsAreSound`, `MassesAreBooked` | `HangarsSound`, `MassBooks`: what a hangar has in use is the sizes of what is berthed in it, and no more than it holds; a ship weighs itself and what is in it, unless a named command left that loose | `FleetInv`, which is `FleetSound /\ Hangars /\ Masses` and the types of the rest, see below |
| `EconomyProofs!NothingComesFromNothing` | `NothingFromNothing`, which is about steps | the same; what the race owns is compared ship by ship |
| `SumTheorems!SumTake` | taking any one element out of a finite set splits its sum | none: a lemma, see below |

The invariants that are not inductive by themselves are strengthened because a
step needs to know something about an *earlier* step: `LinksAreLive` about the
cache needs soundness of the rows (a crash goes back to them), `HoldersActive`
needs the offices, `NoDangling` needs that a pending ship is held, `LawfulGalaxy`
that what a tool is about to enrol was tested when it left the design, and
`BooksExact` what the stages of an update have done so far.

**Sums.** A sum over a finite set recurs over its subsets in an order `CHOOSE`
picks, and the library's induction takes a predicate, which the installed provers
cannot instantiate. `SumTheorems` does it with a set in the predicate's place
(`SubsetInduction`: what a subset inherits from the smaller ones all have), shows
that the recursion has exactly one solution (`SumRecursion`), and from it
`SumTake`. Adding, moving, changing one value, two sets side by side (`SumUnion`) and
a family of sets (`SumFamily`) are corollaries, and the conservation theorems of
`Market`, `Coalitions`, `Spoils`, `Colonies` and `Carriers` cite only these.

**Hangars.** The code keeps two totals per carrier and changes them by differences,
with every carrier around it. `FleetSound` has the types, what a design costs and
weighs, that who is berthed or moored is so with the living, and that ranks rise from
craft to carrier, so that no ship is, on whatever deck, inside itself. `Hangars` is
kept because each command changes one hangar or two. For `Masses` exactness outside
`loose` is not enough: taking off a mass stops at the base mass of the carrier
(`unload_craft`), so it must be known that the carrier weighs at least what is
taken off. A carrier that may be lighter is itself in `loose`, with every carrier
around it (`Written`), and a difference that is passed up the decks meets an exact
carrier only below others that are exact. A ship that dies takes its nest
with it and its mass off the chain around it, in which each carrier holds exactly
one of the chain (`ChainOfDecks`, `ChainOfWeights`); the count of a turn weighs a
nest as the sum of the nests inside it (`WeighedIs`, which cites `SumFamily`).

**Sweeps.** A handler of `Battle` is a set of worlds that may come of a world, and
most handlers ask every ship in turn: a recursive function over the ships' numbers.
Two lemmas stand in for the induction the provers cannot instantiate. `SweepExists`
shows that there is a function which satisfies such an equation (without that,
nothing is known of its values), `Climb` that sets which hold the start, and are
kept by every step, hold the end. What the sets say is a relation between the world
before a handler and after it: `Follows` (sound, the same people counted, no ship
changes sides or comes back), `Hit` (and only these ships took part), `Quiet` (and
no escort is asked), `Keeps` (boarding: the exchange that was answered stays the one
the log tells of), `Passes` (a stage of the turn), `Pursues` (and whoever had a shot
is on record) and `Lands` (what came down was in flight). One section of `BattleProofs` per handler shows which of them
holds, from `Consume` and `Kill` up to `Turn`. `EscortsAnswer` needs the most:
that an escort which was able before the shot is still on the list, when its turn
comes, whatever the answers of the others did to it (`AskedUpTo`).

`NoIdTwice`, `DeliveryIsDelayed`, `BidsRise`, `CapitalsAreChosen` and
`AllocationsConserve` are proved of formulas no run checks by themselves: what TLC
showed on a small instance first is proved.

**Only model-checked:**

- Liveness (`DueUpdateHappens`, `BidsAreResolved`, `SessionsProgress`, `JumpEnds`):
  it needs fairness and ENABLED, which the prover does not handle.
## 5. Where code and text disagree

Each definition below says what the text says. With it as the only INVARIANT or
PROPERTY of the module's cfg (changed as shown; `Empire.cfg` with `MCEmpire` for
`Governance`, `Victory` and `Spoils`) TLC reports a violation.

| Definition | Change to the cfg | The text | The code |
|---|---|---|---|
| `EntityManager!TurnIsAtomic` | | `.github/skills/entity-manager-access/SKILL.md:101` a turn's entities are written atomically | `create_ship` writes at once (`entity_manager.cc:265`) |
| `TurnSchedule!SingleSegmentUpdates` | `SegmentChoices = {1}`, `MaxTurns = 0`, as a PROPERTY | `tweakables.cppm:79` with one segment the move is part of the update | the segment branch is taken and `do_segment` returns at once, for ever (`doturncmd.cc:903`) |
| `TurnSchedule!EarlyTurnIsUnanimous` | two races, `MaxTurns = 3` | `help/vote.md:16` a vote can be taken back | the request already made stays (`vote.cc:92`) |
| `TurnSchedule!IntervalIsMaximum` | | `help/vote.md:26` the interval is a maximum | an early update leaves the timetable (`doturncmd.cc:752`) |
| `CommandDispatch!PromptReadsLiveRace` | | `gameobj.cppm:102` `race` is valid during a command | after a rollback the prompt reads a freed race (`prompt.cc:54`) |
| `CommandDispatch!AlertsNeverDropped` | | `ARCHITECTURE.md:453` notices are never dropped | lost with the buffer of a dead session (`server.cc:195`) |
| `Market!OutbidIsHigher` | | `help/bid.md:28` ten per cent more | truncation accepts an equal bid (`commod.cppm:138`) |
| `Market!BidCostsAP` | | `docs/economy.md:149` one point per bid | free (`bid.cc:194`) |
| `Sessions!CursorIsKept` | `Spec` | `session.cppm:61` sessions are flushed after their commands | `@@update` flushes and reaps in the middle of the pass and may erase the session it stands on (`update.cc:23`) |
| `Sessions!GovernorIsActive` | `Spec`, `MaxInput = 2` | `gameobj.cppm:127` the active governor's entry | a revoked governor's session goes on and throws (`revoke.cc:47`) |
| `Sessions!DeityDepartureAnnounced` | `Spec`, `MaxInput = 2` | `docs/diplomacy.md:238` | not after `emulate` (`emulate.cc:52`) |
| `Sessions!ShutdownCompletes` | | `server.cc:32` graceful shutdown | a session accepted meanwhile keeps the loop alive (`server.cc:74`) |
| `ShipLinks!TurnIsWritten` | | `entity_manager_kill_ship_test.cc:409` a turn's deaths are flushed | a missile dies with the ship it follows, its row still names it, and the foreign key stops the flush (`entity_manager.cc:799`) |
| `ShipLinks!KillIsWritten` | | `entity_manager.cc:925` references are cleared | a dead ship's row still names another (`entity_manager.cc:241`) |
| `ShipLinks!OrderIsChecked` | | `help/order.md:127` `protect <ship>` | any number is stored; the foreign key throws (`order.cc:189`) |
| `Governance!CapitalDies` | | `entity_manager_kill_ship_test.cc:96` a killed capital is forgotten | only if its owner still names it: a captured or given capital is named by its old race and the foreign key refuses the deletion (`entity_manager.cc:866`) |
| `Governance!OwnCapital` | | `docs/governance.md:121` anarchy when the capital is lost | the owner is never looked at (`doturncmd.cc:523`) |
| `Governance!AnarchyPaysNoTax` | | `docs/governance.md:133` no taxes in anarchy | taxes ask another question (`planet.cc:66`) |
| `Governance!DocumentedCap` | `Limit = 255`, `Raw = {0, 200}`, `Worth = {3}` | `docs/governance.md:82` at most 250 | 255 (`tweakables.cppm:115`) |
| `Governance!NoOverdraft` | | `universe_invariants.cc:26` a star's points are never negative; `bless.cc:430` a positive amount | the sign is not checked (`bless.cc:376`) |
| `Carriers!HangarCapacityInvariant` | | `docs/ships.md:61` craft never exceed the hangar | a folded factory in a hangar unfolds in the next turn (`doship.cc:515`) |
| `Carriers!ToxicitySealed` | as a PROPERTY | `docs/ships.md:71` the poison is sealed in the canister | the new ship's special data are reset after it was filled (`ship_base.cc:256`) |
| `Enrolment!WithinBudget` | | `docs/race_generation.md:74` a custom species has 1400 points | a design of 1275 that sets no compatibilities is saved and enrolled with `enrol -f`, and gets its planet's after the price was tested, a race of 1442 (`enrollment_service.cc:149`) |
| `Enrolment!HomeAlone` | | `docs/race_generation.md:149` a home system is uninhabited by others | `racegen.json` keeps the wizard's planet and `enrol -f` takes it again (`enrollment_service.cc:77`) |
| `Spoils!AllIsDiverted` | as a PROPERTY | `docs/planets.md:207` a slave's crystals go to the master | fuel, resources and destruct only (`doplanet.cc:580`) |
| `Colonies!PlanetIsSum` | | `gb/testing/universe_invariants.cc:69` a planet's sums are those of its sectors | not after bombardment, spores or a slave revolt (`shootblast.cc:231`, `doship.cc:102`, `doplanet.cc:608`) |
| `Victory!DocumentedShare` | 19 planets, 10 per cent, `MaxCount = 38`, as a PROPERTY | `docs/turn_cycle.md:157` at least 10% | integer division (`doturncmd.cc:452`) |
| `Victory!VictoryIsProclaimed` | `Enabled = FALSE` | `docs/turn_cycle.md:157` five updates win | the build has `VICTORY = false` (`tweakables.cppm:99`) |

Seen in the code while modelling and not stated as a property:

- *Server.* Dropping a slow client writes the rest of its output with a blocking
  `write_some` on the only thread (`session.cc:242`); an unauthenticated session is
  never timed out; after `@@shutdown` the other sessions' commands of the same pass
  still run.
- *Colonies.* `arm` before a race's first update, whose enrolment does not write
  `info.popn`, makes that sum negative (`ground_combat.cc:341`); what AFVs shoot of a
  marching group is not taken from the sector it left (`ground_combat.cc:588`); the
  toxicity limit is 70 (`tweakables.cppm:267`) where
  `docs/planetary_simulation.md:156` says 30; a race whose last sector is devastated
  after the count still shares the plunder (`doplanet.cc:353`).
- *Spoils.* A waste can's price is checked and never paid (`doplanet.cc:492`,
  against `docs/planetary_simulation.md:216`); what a machine makes for a race without a
  sector is dropped.
- *Coalitions.* A founder is a member from the server's next start on, not from the
  race's entry (`docs/diplomacy.md:159`).
- *Carriers.* Killing a berthed carrier takes the mass of its craft off the carriers
  around it twice (`entity_manager.cc:907`); masses drift between turns by trade and
  jettison in a hangar, and by upgrades two decks down; a merchant lands without
  asking whether its design can (`navigation.cc:84`).
- *Flight.* A trip's forecast for a ship without a crew is made as if it had lost its
  destination, which counts as arrived; a machine whose speed is set in the middle
  of a turn (`vn.cc:133`) may move twice, a ship hit in it not at all.
- *Battle.* `kill_ship` clears `protect`, so nobody answers for a ship destroyed
  outright (against `docs/combat.md:140`); an answer measured with a laser the shot
  put out is fired from guns and may be short of ammunition (`fire.cc:277`); neither
  a laser shot away nor a crystal dismounted clears the order to fire it, and an
  upgrade arms it again without a crystal (`navigation.cc:888`,
  `construction.cc:980`, against `help/mount.md:18`); missiles that arrive in a turn
  come down past the ABMs (`doship.cc:655`, against `doturncmd.cc:290`).
- *Enrolment.* Two tools at once share a player number; a tool that dies after its
  first save leaves a race without a government ship; the file may name a race with
  empty passwords, and a race of IQ 0 (against the 50 to 220 of the docs) is
  accepted, since the larger of IQ and its limit is tested; a collective IQ is
  accepted for normal races; the second race in a home may take the first's capital
  sector.
- *Von Neumann machines* (`vn.cc`). A machine holds 20 and needs 100 to replicate
  (`ship_templates.cppm:881`, `vn.cc:327`, against `docs/von_neumann.md:98`); one that has
  launched itself is never given a way (`vn.cc:214`).

## 6. Plan

Done: the store, schedule, dispatch, market, sessions and links (with their
abstract store and refinement), governance and victory, colonies, then carriers,
flight, battle, enrolment, power blocks and the spoils of a planet. Left, in this order:

1. Von Neumann machines, once the code lets them replicate and fly: holds, launches,
   the memory of who shot at them, the hunt.
2. Majorities of a planet, so that `Victory` is refined by `Colonies`; stockpiles of
   `Spoils` through market delivery.

## 7. Not modelled, and why

Formulas over real numbers and dice (combat odds, growth, fuel, orbital
geometry) decide *whether* something happens; the models let both happen. Text
(reports, prompts, telegram wording, the client protocol's JSON) changes no
state. The galaxy generator draws a universe once, offline, from dice. The data
layer below the EntityManager is represented by what SQLite promises:
transactions are atomic and foreign keys are enforced. Von Neumann machines
decide by dice on a map of sectors, and as built do little more than mine and
steal (section 5); what they take is like any other use of a stockpile in
`Spoils`, what they bombard like any bombardment in `Colonies`. Morale,
technology, climate, fertility, spying and the deity's editing commands are left
out. `PROJECT.json` gives the reason for each component that is left out.
