----------------------------- MODULE Enrolment ------------------------------
(* Designing a race and enrolling it in a galaxy (src/gb/creator): the racegen *)
(* session edits, saves and loads a design; the enrol wizard rolls one for a   *)
(* planet it found; enrol -f takes one from the file. All three end in         *)
(* enroll_player, which writes the race, its government ship, the link between *)
(* them, the planet, the sector and the star one row after the other, each a   *)
(* save of its own. A tool has its own cache of rows and may die between two   *)
(* of them.                                                                    *)
(*                                                                             *)
(* Abstractions: the graded attributes (adventurism, birthrate, fighters,      *)
(* mass, metabolism, fertilize, an IQ other than zero) are one level, vigor,   *)
(* priced by a table and below its minimum at 0; the credentials (name,        *)
(* passwords, address) are either good enough or not; sector covariances are   *)
(* left out of the prices; a row other than the race's is the set of players   *)
(* it names. is_guest changes nothing that happens here.                       *)
EXTENDS Integers, Sequences, FiniteSetsExt

CONSTANTS
  PlanetType, SectorType,
  Jovian,           \* the type of a gas giant
  Gas, Plated,      \* two of the sector types
  Common,           \* Common[t]: the sectors common on a planet of type t
  Likes, Best,      \* Likes[t], Best[t]: the default compatibilities and favourite
  Archetype,        \* the presets: [planet, meta, vigor]
  Vigor,            \* levels of the attributes; 0 is below their minimum
  VigorCost, PlanetCost, Multiplier, FlagCost, CollectiveCost, StartingPoints,
  Star, Planet, StarOf, TypeOf,
  Site, Ground,     \* Ground[p][x]: what sector x of planet p is
  Handmade,         \* designs a player may have written into racegen.json himself
  Budgets,          \* BOUND: edits, enrolments, crashes and rows of a behaviour
  None

ASSUME CatalogueAssumption ==
  /\ Common \in [PlanetType -> SUBSET SectorType]
  /\ Jovian \in PlanetType /\ {Gas, Plated} \subseteq SectorType
  /\ StarOf \in [Planet -> Star] /\ TypeOf \in [Planet -> PlanetType]
  /\ None \notin Planet
  /\ Gas # Plated /\ Best \in [PlanetType -> SectorType]
  /\ Likes \in [PlanetType -> [SectorType -> {0, 50, 100}]]
  /\ \E t \in PlanetType : Best[t] # Gas /\ PlanetCost[t] = 75
  /\ Best[Jovian] = Gas
  /\ IsFiniteSet(Vigor) /\ Vigor \subseteq Nat /\ {0, 1} \subseteq Vigor
  /\ Archetype \subseteq [planet : PlanetType, meta : BOOLEAN, vigor : Nat]

VARIABLES
  design, cost,     \* RacegenSession::spec_ and cost_
  file,             \* racegen.json, or None
  pc, job,          \* how far each tool has come, and the enrolment it is at
  mem,              \* the rows each tool has cached
  races,            \* tbl_race: number -> [gov, traits, unset]
  ships,            \* tbl_ship: the owners of the government ships
  planets, stars,   \* who owns a sector of it, by its row; who inhabits it
  holder,           \* the owner of each sector, 0 for none
  left,
  overlapped,       \* two tools have used the database at the same time
  reused            \* races whose home came out of the file, not of a search

design_vars == <<design, cost, file>>
galaxy == <<races, ships, planets, stars, holder>>
enrolment_vars == <<design, cost, file, pc, job, mem, races, ships, planets, stars, holder, left,
          overlapped, reused>>

Tool == {"racegen", "enrol"}
Compat == {0, 50, 100}

\* RaceEnrollmentSpec
Design ==
  [signed : BOOLEAN, meta : BOOLEAN, absorb : BOOLEAN, pods : BOOLEAN, collective : BOOLEAN,
   iq : {0, 150}, limit : {0, 150}, sexes : {1, 2}, vigor : Vigor, home : PlanetType,
   compat : [SectorType -> Compat], pref : SectorType, target : Planet \cup {None}]

ASSUME HandmadeAssumption == Handmade \subseteq Design

-----------------------------------------------------------------------------
(* The price and the rules of a design.                                      *)

Settled(s) == {x \in SectorType : s.compat[x] > 0}

\* get_attribute_value and the attribute part of calculate_cost.
AttributeCost(s) ==
  VigorCost[s.vigor] + (IF s.absorb THEN FlagCost ELSE 0) + (IF s.pods THEN FlagCost ELSE 0)
  + (IF s.collective THEN CollectiveCost ELSE 0)

SectorCost(s, x) ==
  (CASE s.compat[x] = 0 -> 0 [] s.compat[x] = 50 -> 67 [] OTHER -> 100) * Multiplier[s.home][x]

\* One kind of sector is free, two cost 50, and each further one 100.
CountCost(s) ==
  LET n == Cardinality(Settled(s)) IN
  IF n < 2 THEN n - 1 ELSE IF n = 2 THEN 50 ELSE 100 * (n - 2)

Cost(s) ==
  AttributeCost(s) + PlanetCost[s.home] + CountCost(s)
  + MapThenSumSet(LAMBDA x : SectorCost(s, x), SectorType)

Affordable(s) == Cost(s) <= StartingPoints

\* validate without its rigorous part. The privilege rule can never fire: every
\* caller passes an is_player that is false for a guest.
Valid(s) ==
  /\ s.vigor > 0 /\ (s.iq > 0 \/ s.limit > 0)
  /\ IF s.meta THEN s.sexes = 1 ELSE ~s.absorb /\ ~s.pods
  /\ IF s.home = Jovian THEN Settled(s) \subseteq {Gas}
                        ELSE s.compat[Plated] = 100 /\ s.compat[Gas] = 0

Rigorous(s) ==
  /\ Valid(s) /\ s.signed /\ Affordable(s)
  /\ s.home # Jovian => Cardinality(Settled(s)) # 1
  /\ \E x \in Common[s.home] : s.compat[x] = 100

Lawful(s) == Valid(s) /\ Affordable(s)

\* The compatibilities of a design that sets none: build_race tells it by them.
Blank == [x \in SectorType |-> IF x = Plated THEN 100 ELSE 0]

\* The race that build_race makes of a design: what the design leaves unset it takes
\* from the type of its planet, after the price was asked.
Built(s) == IF s.compat = Blank THEN [s EXCEPT !.compat = Likes[s.home]] ELSE s

DefaultSpec ==
  [signed |-> FALSE, meta |-> FALSE, absorb |-> FALSE, pods |-> FALSE, collective |-> FALSE,
   iq |-> 150, limit |-> 0, sexes |-> 2, vigor |-> 1,
   home |-> CHOOSE t \in PlanetType : Best[t] # Gas /\ PlanetCost[t] = 75,
   compat |-> Blank, pref |-> Plated, target |-> None]

\* A preset on a planet of type t, at a level of the attributes.
PresetAt(a, t, v) ==
  [signed |-> FALSE, meta |-> a.meta, absorb |-> a.meta, pods |-> a.meta,
   collective |-> a.meta, iq |-> IF a.meta THEN 0 ELSE 150,
   limit |-> IF a.meta THEN 150 ELSE 0, sexes |-> IF a.meta THEN 1 ELSE 2,
   vigor |-> v, home |-> t, compat |-> Likes[t], pref |-> Best[t], target |-> None]

\* What it cannot afford it pays with metabolism.
Levels(a, t, vigor) ==
  {v \in Vigor : v <= vigor /\ (Affordable(PresetAt(a, t, v)) \/ v = 0)}
Preset(a, t, vigor) == PresetAt(a, t, Max(Levels(a, t, vigor)))

\* What the presets of the code are: each fits the planet it is made for, and on it
\* none has to go below the minimum (archetypes.cc:49).
ASSUME PresetAssumption ==
  /\ \A t \in PlanetType :
       IF t = Jovian THEN \A x \in SectorType \ {Gas} : Likes[t][x] = 0
                     ELSE Likes[t][Plated] = 100 /\ Likes[t][Gas] = 0
  /\ \A a \in Archetype : \A vigor \in (a.vigor - 1)..(a.vigor + 1) :
       vigor \in Vigor \ {0} =>
         \E v \in Vigor \ {0} : v <= vigor /\ Affordable(PresetAt(a, a.planet, v))

-----------------------------------------------------------------------------
(* The fields of "modify". Each yields the designs it may ask for.           *)

SectorEdits(s) ==
  {[s EXCEPT !.compat = [@ EXCEPT ![x] = c]] : x \in SectorType \ {Plated}, c \in Compat}

PlanetEdits(s) ==
  {[s EXCEPT !.home = Jovian, !.pref = Gas,
             !.compat = [x \in SectorType |-> IF x = Gas THEN 100 ELSE 0]]} \cup
  {IF s.compat[Gas] > 0
     THEN [s EXCEPT !.home = t, !.compat = [@ EXCEPT ![Gas] = 0, ![Plated] = 100], !.pref = Plated]
     ELSE [s EXCEPT !.home = t] : t \in PlanetType \ {Jovian}}

RaceEdits(s) ==
  LET unset == s.iq = 0 IN
  {[s EXCEPT !.meta = FALSE, !.absorb = FALSE, !.pods = FALSE, !.collective = FALSE,
             !.sexes = IF s.meta THEN 2 ELSE @,
             !.iq = IF unset THEN s.limit ELSE @, !.limit = IF unset THEN 0 ELSE @],
   [s EXCEPT !.meta = TRUE, !.absorb = TRUE, !.pods = TRUE, !.collective = TRUE, !.sexes = 1,
             !.limit = IF @ = 0 THEN s.iq ELSE @, !.iq = IF s.limit = 0 THEN 0 ELSE @]}

FlagEdits(s) ==
  {[s EXCEPT !.absorb = b] : b \in BOOLEAN} \cup {[s EXCEPT !.pods = b] : b \in BOOLEAN}
  \cup {[s EXCEPT !.collective = b] : b \in BOOLEAN}

IqEdits(s) ==
  {IF s.collective THEN [s EXCEPT !.limit = n, !.iq = 0] ELSE [s EXCEPT !.iq = n, !.limit = 0] :
     n \in {0, 150}}
  \cup {[s EXCEPT !.limit = n] : n \in {0, 150}}

AttributeEdits(s) ==
  {[s EXCEPT !.vigor = v] : v \in Vigor} \cup {[s EXCEPT !.sexes = n] : n \in 1..2}

IdentityEdits(s) == {[s EXCEPT !.signed = b] : b \in BOOLEAN}

PreferredEdits(s) == {[s EXCEPT !.pref = x] : x \in SectorType}

\* What modify_field keeps: the design as a whole must be valid afterwards, else
\* the backup comes back. A refused edit changes nothing.
Accepted(s) == Valid(s)

-----------------------------------------------------------------------------
Idle == [spec |-> None]
Forgotten == [stars |-> <<>>, planets |-> <<>>]

EnrolmentInit ==
  /\ design = DefaultSpec /\ cost = Cost(DefaultSpec)
  /\ file \in Handmade \cup {None}
  /\ pc = [t \in Tool |-> "off"] /\ job = [t \in Tool |-> Idle]
  /\ mem = [t \in Tool |-> Forgotten]
  /\ races = [n \in {1} |-> [gov |-> 0, traits |-> DefaultSpec, unset |-> TRUE]]
  /\ ships = <<>>
  /\ planets = [p \in Planet |-> {}] /\ stars = [z \in Star |-> {}]
  /\ holder = [p \in Planet |-> [x \in Site |-> 0]]
  /\ left \in Budgets
  /\ overlapped = FALSE /\ reused = {}

Spend(what) == left[what] > 0 /\ left' = [left EXCEPT ![what] = @ - 1]

-----------------------------------------------------------------------------
(* The racegen session.                                                      *)

\* racegen: a new session, with the default design or the one of the file.
StartRacegen ==
  /\ pc["racegen"] = "off" /\ Spend("runs")
  /\ \E s \in {DefaultSpec} \cup ({file} \ {None}) : design' = s /\ cost' = Cost(s)
  /\ pc' = [pc EXCEPT !["racegen"] = "design"]
  /\ UNCHANGED <<file, job, mem, galaxy, overlapped, reused>>

Edit(edits) ==
  /\ pc["racegen"] = "design" /\ Spend("edits")
  /\ \E s \in edits \ {design} : Accepted(s) /\ design' = s /\ cost' = Cost(s)
  /\ UNCHANGED <<file, pc, job, mem, galaxy, overlapped, reused>>

ModifySector == Edit(SectorEdits(design))
ModifyPlanet == Edit(PlanetEdits(design))
ModifyRace == Edit(RaceEdits(design))
ModifyFlags == Edit(FlagEdits(design))
ModifyIq == Edit(IqEdits(design))
ModifyAttribute == Edit(AttributeEdits(design))
ModifyIdentity == Edit(IdentityEdits(design))
ModifyPreferred == Edit(PreferredEdits(design))

PresetCost(s) == Cost(s)
\* The credentials survive a preset, the planet a search had found does not.
LoadArchetype ==
  /\ pc["racegen"] = "design" /\ Spend("edits")
  /\ \E a \in Archetype, random \in {-1, 0, 1} :
       /\ a.vigor + random \in Vigor \ {0}
       /\ design' = [Preset(a, a.planet, a.vigor + random) EXCEPT !.signed = design.signed]
       /\ cost' = PresetCost(design')
  /\ UNCHANGED <<file, pc, job, mem, galaxy, overlapped, reused>>

Save ==
  /\ pc["racegen"] = "design" /\ file # design /\ Spend("edits")
  /\ file' = design
  /\ UNCHANGED <<design, cost, pc, job, mem, galaxy, overlapped, reused>>

\* load_from_file takes the file as it is: nothing is validated.
Load ==
  /\ pc["racegen"] = "design" /\ Spend("edits")
  /\ file \notin {None, design}
  /\ design' = file /\ cost' = Cost(file)
  /\ UNCHANGED <<file, pc, job, mem, galaxy, overlapped, reused>>

-----------------------------------------------------------------------------
(* Finding a home.                                                           *)

\* The row a tool sees: its cached copy, or the stored one.
StarRow(t, z) == IF z \in DOMAIN mem[t].stars THEN mem[t].stars[z] ELSE stars[z]
PlanetRow(t, p) == IF p \in DOMAIN mem[t].planets THEN mem[t].planets[p] ELSE planets[p]

Uninhabited(t, z) == StarRow(t, z) = {} /\ Cardinality({p \in Planet : StarOf[p] = z}) >= 2

\* MUTANT: an uninhabited star is taken to have no colonies
AnyPlanet(t, p) == TRUE
Vacant(t, p) == PlanetRow(t, p) = {}

\* find_suitable_planet: the stars are shuffled, so any that fits may be found.
Suitable(t, type) == {p \in Planet : TypeOf[p] = type /\ Uninhabited(t, StarOf[p]) /\ Vacant(t, p)}

\* What a tool has cached when its search went through every star.
Searched(t) ==
  [stars |-> [z \in Star |-> StarRow(t, z)],
   planets |-> [p \in {q \in Planet : Uninhabited(t, StarOf[q])} \cup DOMAIN mem[t].planets |->
                  PlanetRow(t, p)]]

\* The capital's sector: a free one of the kind preferred, or any of that kind,
\* or any that is not wasted. (A planet here has no wasted sector.)
CapitalSites(p, pref) ==
  LET kind == {x \in Site : Ground[p][x] = pref}
      free == {x \in kind : holder[p][x] = 0}
  IN  IF free # {} THEN free ELSE IF kind # {} THEN kind ELSE Site

Busy(t) == pc[t] \notin {"off", "design"} \/ mem[t] # Forgotten
Overlap(t) == overlapped' = (overlapped \/ \E u \in Tool \ {t} : Busy(u))

\* MUTANT: the service trusts its callers to have validated the design
Trusted(s) == TRUE
Enrollable(s) == Lawful(s)

\* enroll_player up to its first write: the next number, the checks, the home and
\* the capital's sector. The star's and the planet's row are cached from here on.
EnrollPlayer(t, s, p, star, planet, again) ==
  /\ Enrollable(s)
  /\ \E x \in CapitalSites(p, s.pref) :
       job' = [job EXCEPT ![t] =
                 [spec |-> s, num |-> Max(DOMAIN races) + 1, home |-> p, site |-> x, ship |-> 0,
                  star |-> star, planet |-> planet, again |-> again]]
  /\ pc' = [pc EXCEPT ![t] = "enrolling"]
  /\ Spend("rows")
  /\ Overlap(t)

\* The home is the one the design remembers, which nothing looks at again, or the
\* find of a search.
EnrollSomewhere(t, s) ==
  \E p \in IF s.target # None THEN {s.target} ELSE Suitable(t, s.home) :
    EnrollPlayer(t, s, p, StarRow(t, StarOf[p]), PlanetRow(t, p), s.target # None)

\* RacegenSession::enroll.
Enroll ==
  /\ pc["racegen"] = "design"
  /\ cost <= StartingPoints /\ Rigorous(design)
  /\ EnrollSomewhere("racegen", design)
  /\ UNCHANGED <<design_vars, mem, galaxy, reused>>

\* ... and finds no free planet: the session goes on with what it has cached.
EnrollInVain ==
  /\ pc["racegen"] = "design"
  /\ cost <= StartingPoints /\ Rigorous(design)
  /\ design.target = None /\ Suitable("racegen", design.home) = {}
  /\ mem' = [mem EXCEPT !["racegen"] = Searched("racegen")]
  /\ mem' # mem
  /\ Overlap("racegen")
  /\ UNCHANGED <<design_vars, pc, job, galaxy, left, reused>>

\* enrol -f: the design of the file, with the planet it may name.
EnrolFile ==
  /\ pc["enrol"] = "off" /\ file # None
  /\ EnrollSomewhere("enrol", file)
  /\ UNCHANGED <<design_vars, mem, galaxy, reused>>

\* The wizard: a preset and a type of planet, for which it finds a home. From
\* here on it shows its prompts, with the rows it has read in its cache.
WizardSearch ==
  /\ pc["enrol"] \in {"off", "asked"} /\ (pc["enrol"] = "off" => left["runs"] > 0)
  /\ left' = [left EXCEPT !["runs"] = IF pc["enrol"] = "off" THEN @ - 1 ELSE @]
  /\ \E a \in Archetype, type \in PlanetType :
       /\ pc["enrol"] = "asked" => a = job["enrol"].arch
       /\ \E p \in Suitable("enrol", type) :
            /\ pc' = [pc EXCEPT !["enrol"] = "rolling"]
            /\ job' = [job EXCEPT !["enrol"] =
                         [spec |-> None, arch |-> a, type |-> type, home |-> p,
                          star |-> StarRow("enrol", StarOf[p]), planet |-> PlanetRow("enrol", p)]]
  /\ mem' = mem
  /\ Overlap("enrol")
  /\ UNCHANGED <<design_vars, galaxy, reused>>

\* ... or finds none, and asks for another type.
WizardInVain ==
  /\ pc["enrol"] = "off" /\ Spend("runs")
  /\ \E a \in Archetype, type \in PlanetType :
       /\ Suitable("enrol", type) = {}
       /\ pc' = [pc EXCEPT !["enrol"] = "asked"]
       /\ job' = [job EXCEPT !["enrol"] = [spec |-> None, arch |-> a]]
  /\ mem' = [mem EXCEPT !["enrol"] = Searched("enrol")]
  /\ Overlap("enrol")
  /\ UNCHANGED <<design_vars, galaxy, reused>>

\* The player likes the roll: it is saved, with the planet found, and enrolled.
WizardAccept ==
  LET j == job["enrol"] IN
  /\ pc["enrol"] = "rolling"
  /\ \E random \in {-1, 0, 1}, signed \in BOOLEAN :
       /\ j.arch.vigor + random \in Vigor \ {0}
       /\ LET s == [Preset(j.arch, j.type, j.arch.vigor + random) EXCEPT
                      !.signed = signed, !.target = j.home]
          IN  file' = s /\ EnrollPlayer("enrol", s, j.home, j.star, j.planet, FALSE)
  /\ UNCHANGED <<design, cost, mem, galaxy, reused>>

-----------------------------------------------------------------------------
(* The writes of enroll_player.                                              *)

\* A tool is gone, and its session with it.
Gone(t) ==
  /\ job' = [job EXCEPT ![t] = Idle] /\ mem' = [mem EXCEPT ![t] = Forgotten]
  /\ IF t = "racegen" THEN design' = DefaultSpec /\ cost' = Cost(DefaultSpec)
                      ELSE UNCHANGED <<design, cost>>

Step(t, from, to) == pc[t] = from /\ pc' = [pc EXCEPT ![t] = to]

\* A race's row is saved: a new one, or one that replaces what the number had.
RaceSaved(n, gov, spec) ==
  races' = [m \in DOMAIN races \cup {n} |->
              IF m = n THEN [gov |-> gov, traits |-> Built(spec), unset |-> spec.compat = Blank]
                       ELSE races[m]]

\* create_race, which replaces the row if the number has been taken meanwhile.
CreateRace(t) ==
  /\ Step(t, "enrolling", "race")
  /\ RaceSaved(job[t].num, 0, job[t].spec)
  /\ reused' = IF job[t].again THEN reused \cup {job[t].num} ELSE reused
  /\ Overlap(t)
  /\ UNCHANGED <<design_vars, job, mem, ships, planets, stars, holder, left>>

CommissionShip(t) ==
  /\ Step(t, "race", "ship")
  /\ ships' = Append(ships, job[t].num)
  /\ job' = [job EXCEPT ![t] = [@ EXCEPT !.ship = Len(ships')]]
  /\ Overlap(t)
  /\ UNCHANGED <<design_vars, mem, races, planets, stars, holder, left, reused>>

\* mutate_race writes the row the tool has cached since create_race.
LinkShip(t) ==
  /\ Step(t, "ship", "linked")
  /\ RaceSaved(job[t].num, job[t].ship, job[t].spec)
  /\ Overlap(t)
  /\ UNCHANGED <<design_vars, job, mem, ships, planets, stars, holder, left, reused>>

\* The inner handle is released first: the planet, as the tool knows it.
SettlePlanet(t) ==
  /\ Step(t, "linked", "planet")
  /\ planets' = [planets EXCEPT ![job[t].home] = job[t].planet \cup {job[t].num}]
  /\ Overlap(t)
  /\ UNCHANGED <<design_vars, job, mem, races, ships, stars, holder, left, reused>>

SettleSector(t) ==
  /\ Step(t, "planet", "sector")
  /\ holder' = [holder EXCEPT ![job[t].home] = [@ EXCEPT ![job[t].site] = job[t].num]]
  /\ Overlap(t)
  /\ UNCHANGED <<design_vars, job, mem, races, ships, planets, stars, left, reused>>

\* ... and the star, with which the tool ends.
MarkStar(t) ==
  /\ Step(t, "sector", "off")
  /\ LET z == StarOf[job[t].home] IN stars' = [stars EXCEPT ![z] = job[t].star \cup {job[t].num}]
  /\ Gone(t) /\ Overlap(t)
  /\ UNCHANGED <<file, races, ships, planets, holder, left, reused>>

\* A tool is quit at its prompt, or killed wherever it is.
Leave(t) ==
  /\ pc[t] # "off"
  /\ IF pc[t] \in {"design", "asked", "rolling"} THEN left' = left ELSE Spend("crashes")
  /\ pc' = [pc EXCEPT ![t] = "off"]
  /\ Gone(t)
  /\ UNCHANGED <<file, galaxy, overlapped, reused>>

Session ==
  \/ StartRacegen \/ ModifySector \/ ModifyPlanet \/ ModifyRace \/ ModifyFlags \/ ModifyIq
  \/ ModifyAttribute \/ ModifyIdentity \/ ModifyPreferred \/ LoadArchetype \/ Save \/ Load
  \/ Enroll \/ EnrollInVain

Founding(t) ==
  \/ CreateRace(t) \/ CommissionShip(t) \/ LinkShip(t) \/ SettlePlanet(t) \/ SettleSector(t)
  \/ MarkStar(t) \/ Leave(t)

EnrolmentNext ==
  \/ Session \/ EnrolFile \/ WizardSearch \/ WizardInVain \/ WizardAccept
  \/ \E t \in Tool : Founding(t)

EnrolmentSpec == EnrolmentInit /\ [][EnrolmentNext]_enrolment_vars

-----------------------------------------------------------------------------
(* Properties.                                                               *)

\* The rows keep their shape.
EnrolmentTypeOK ==
  /\ pc \in [Tool -> {"off", "design", "asked", "rolling", "enrolling", "race", "ship", "linked",
                      "planet", "sector"}]
  /\ 1 \in DOMAIN races /\ \A n \in DOMAIN races : races[n] \in [gov : Nat, traits : Design, unset : BOOLEAN]
  /\ planets \in [Planet -> SUBSET (DOMAIN races)] /\ stars \in [Star -> SUBSET (DOMAIN races)]
  /\ \A t \in Tool : job[t].spec # None => job[t].spec.target \in Planet \cup {None}

\* Every row is there before a row that names it, whatever tool dies between two
\* of its saves and whatever number two tools share: the owner of a ship or of a
\* sector has a race, and the government ship of a race is a ship it owns
\* (enrollment_service.cc:236).
ParentsFirst ==
  /\ \A i \in DOMAIN ships : ships[i] \in DOMAIN races
  /\ \A p \in Planet, x \in Site : holder[p][x] # 0 => holder[p][x] \in DOMAIN races
  /\ \A n \in DOMAIN races :
       races[n].gov # 0 => races[n].gov \in DOMAIN ships /\ ships[races[n].gov] = n

\* No two races whose homes were searched for settle one planet, though a tool may
\* have died after settling it and before it marked the star as inhabited; as long
\* as no two tools were at work at once (enrollment_service.cc:77).
OneSettler == overlapped \/ \A p \in Planet : Cardinality(planets[p] \ reused) <= 1

\* A star is marked last: who inhabits it has a race with a government ship and a
\* sector's worth of a planet there, unless two tools were at work at once.
MarkedIsFounded ==
  overlapped \/ \A z \in Star : \A n \in stars[z] :
    races[n].gov # 0 /\ \E p \in Planet : StarOf[p] = z /\ n \in planets[p]

\* The rows of an enrolment come in the order in which they need one another, and
\* no planet is given away twice.
FoundedInOrder == EnrolmentTypeOK /\ ParentsFirst /\ MarkedIsFounded /\ OneSettler

\* What of a race was paid for: all of it, but for compatibilities it was given.
Paid(r) == IF r.unset THEN [r.traits EXCEPT !.compat = Blank] ELSE r.traits

\* Whatever was edited, preset, saved, loaded or written into the file by hand, the
\* races of the players obey the rules as they came out of build_race, and what they
\* have is within the budget of 1400 points, all but the compatibilities of their
\* planet's type, which a race whose design left its own unset is given for nothing
\* (enrollment_service.cc:149).
LawfulRaces ==
  \A n \in DOMAIN races \ {1} : Valid(races[n].traits) /\ Affordable(Paid(races[n]))

\* The points the session shows, and tests before it enrolls, are those of its
\* design (racegen_session.cc:201).
CostIsCurrent == cost = Cost(design)

\* A design obeys the rules through every edit and preset; only a file written by
\* hand brings one that does not, and no edit keeps one (racegen_session.cc:675).
DesignIsValid == Valid(design) \/ design \in Handmade

\* The rules hold at every gate, whichever tool a race comes by.
LawfulGalaxy == LawfulRaces /\ CostIsCurrent /\ DesignIsValid

-----------------------------------------------------------------------------
(* Stated by the documentation, refuted: see the README.                     *)

\* "Players designing custom species receive a budget of 1400 creation points"
\* (docs/race_generation.md:74).
WithinBudget == \A n \in DOMAIN races \ {1} : Affordable(races[n].traits)

\* "The star system must be completely uninhabited by other empires"
\* (docs/race_generation.md:149).
HomeAlone == overlapped \/ \A z \in Star : Cardinality(stars[z]) <= 1
=============================================================================
