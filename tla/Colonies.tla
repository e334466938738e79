------------------------------ MODULE Colonies ------------------------------
(***************************************************************************)
(* One planet, who lives on it and who the game believes lives on it.  The *)
(* people are in the sectors and in the ships landed there; the planet     *)
(* keeps sums of them, for itself and for each race, and every rule about  *)
(* a colony (tax, votes, garrisons, plunder, slavery, power) reads those   *)
(* sums.  A peaceful command adjusts them along with the sector; a battle  *)
(* adds them up anew; bombardment, spores and slave revolts leave them as  *)
(* they were until the next census.  An update empties them, ages the      *)
(* planet in a fixed order of stages and takes the census near the end.    *)
(***************************************************************************)
EXTENDS Integers, FiniteSets, Sums

CONSTANTS
  Players, Sectors,
  Nobody,      \* a sector nobody owns, a planet nobody is master of
  Sexes,       \* number_sexes of each race: the smallest family
  Absorb,      \* the races that absorb the dead (Metamorphs)
  Crew,        \* who is aboard each race's ships at the start
  RevoltScale, \* a revolt devastates a sector for so many people
  MaxPeople,   \* bound: no birth takes the total beyond it
  MaxDrift     \* bound: changes in a row the sums do not follow

ASSUME ColoniesAssumption ==
  /\ Nobody \notin Players /\ IsFiniteSet(Players) /\ IsFiniteSet(Sectors)
  /\ Sexes \in [Players -> Nat \ {0}] /\ Absorb \subseteq Players
  /\ Crew \in [Players -> [popn : Nat, troops : Nat]]
  /\ RevoltScale \in Nat \ {0} /\ MaxPeople \in Nat /\ MaxDrift \in Nat

VARIABLES
  sect,        \* owner, popn and troops of each sector
  books,       \* popn and troops of the planet, and its plinfo of each race
  aboard,      \* popn and troops of each race in ships landed here
  slavedTo,    \* the master of an enslaved planet
  phase,       \* "play" between turns, else the stage of the turn
  todo,        \* the sectors this update has still to age
  drift        \* history: changes since the sums last matched the sectors

vars == <<sect, books, aboard, slavedTo, phase, todo, drift>>

Kinds == {"civ", "mil"}
Phases == {"play", "ships", "surface", "grow", "islands", "toxic", "recover", "revolt"}
Holding == [owner : Players \cup {Nobody}, popn : Nat, troops : Nat]
Info == [popn : Int, troops : Int, sects : Nat]

Civ(k, n) == IF k = "civ" THEN n ELSE 0
Mil(k, n) == IF k = "mil" THEN n ELSE 0
Amounts == 1..MaxPeople

\* People that exist: what no command may add to
Total(sectors, crews) ==
  SumOf([s \in Sectors |-> sectors[s].popn + sectors[s].troops], Sectors)
    + SumOf([p \in Players |-> crews[p].popn + crews[p].troops], Players)

-----------------------------------------------------------------------------
(* A sector and the sums kept of it *)

Manned(x, civ, mil) == [owner |-> x.owner, popn |-> civ, troops |-> mil]
Devastated == [owner |-> Nobody, popn |-> 0, troops |-> 0]

\* MUTANT: a sector nobody lives on keeps its owner
Inherited(x) == x
\* clear_owner_if_empty, abandon_sector_if_empty
Abandoned(x) ==
  IF x.popn = 0 /\ x.troops = 0 THEN [x EXCEPT !.owner = Nobody] ELSE x

\* A loss is limited to what there is; a gain is not.
Added(n, d) == IF d < 0 /\ n + d < 0 THEN 0 ELSE n + d

\* Whoever moves people into an unowned sector claims it.
Claimant(x, p, civ, mil) ==
  IF x.owner = Nobody /\ (civ > 0 \/ mil > 0) THEN p ELSE x.owner

\* adjust_sector_population, the sector's side
Adjusted(x, p, civ, mil) ==
  Abandoned([owner |-> Claimant(x, p, civ, mil),
             popn |-> Added(x.popn, civ), troops |-> Added(x.troops, mil)])

InfoAdjusted(i, x, p, civ, mil) ==
  LET held == i.sects + (IF Claimant(x, p, civ, mil) # x.owner THEN 1 ELSE 0)
      lost == Adjusted(x, p, civ, mil).owner = Nobody /\ held > 0
  IN [popn |-> Added(i.popn, Added(x.popn, civ) - x.popn),
      troops |-> Added(i.troops, Added(x.troops, mil) - x.troops),
      sects |-> IF lost THEN held - 1 ELSE held]

\* MUTANT: a claimed sector is not added to the planet's count
KeptSects(b, x, p, civ, mil) ==
  [popn |-> Added(b.popn, Added(x.popn, civ) - x.popn),
   troops |-> Added(b.troops, Added(x.troops, mil) - x.troops),
   info |-> [q \in Players |->
     IF q = Claimant(x, p, civ, mil)
       THEN [InfoAdjusted(b.info[q], x, p, civ, mil) EXCEPT !.sects = b.info[q].sects]
       ELSE b.info[q]]]
\* ... and the sums' side
BooksAdjusted(b, x, p, civ, mil) ==
  [popn |-> Added(b.popn, Added(x.popn, civ) - x.popn),
   troops |-> Added(b.troops, Added(x.troops, mil) - x.troops),
   info |-> [q \in Players |->
     IF q = Claimant(x, p, civ, mil)
       THEN InfoAdjusted(b.info[q], x, p, civ, mil) ELSE b.info[q]]]

OwnedBy(sectors, p) == {s \in Sectors : sectors[s].owner = p}
SumPopn(sectors, S) == SumOf([s \in S |-> sectors[s].popn], S)
SumTroops(sectors, S) == SumOf([s \in S |-> sectors[s].troops], S)

InfoOf(sectors, p) ==
  [popn |-> SumPopn(sectors, OwnedBy(sectors, p)),
   troops |-> SumTroops(sectors, OwnedBy(sectors, p)),
   sects |-> Cardinality(OwnedBy(sectors, p))]

\* sync_demographics: the planet's sums run over every sector ...
Synced(sectors) ==
  [popn |-> SumPopn(sectors, Sectors), troops |-> SumTroops(sectors, Sectors),
   info |-> [p \in Players |-> InfoOf(sectors, p)]]

\* ... those of recalculate_census over the owned ones.
CensusOf(sectors) ==
  LET owned == {s \in Sectors : sectors[s].owner # Nobody}
  IN [popn |-> SumPopn(sectors, owned), troops |-> SumTroops(sectors, owned),
      info |-> [p \in Players |-> InfoOf(sectors, p)]]

NoInfo == [popn |-> 0, troops |-> 0, sects |-> 0]
EmptyBooks == [popn |-> 0, troops |-> 0, info |-> [p \in Players |-> NoInfo]]

\* MUTANT: the count is left for the census
Uncounted(b, sectors) == b
\* numsectsowned is counted by itself after production.
Counted(b, sectors) ==
  [b EXCEPT !.info = [p \in Players |->
    [b.info[p] EXCEPT !.sects = @ + Cardinality(OwnedBy(sectors, p))]]]

Boarded(a, civ, mil) == [popn |-> a.popn + civ, troops |-> a.troops + mil]

EnslavedToForeign(p) == slavedTo # Nobody /\ slavedTo # p

-----------------------------------------------------------------------------
\* The planet is a race's home as its enrolment leaves it: of the race's sums
\* only numsectsowned is written.
Init ==
  /\ \E p \in Players, s \in Sectors :
       /\ sect = [t \in Sectors |->
            IF t = s THEN [owner |-> p, popn |-> Sexes[p], troops |-> 0] ELSE Devastated]
       /\ books = [popn |-> Sexes[p], troops |-> 0,
            info |-> [q \in Players |-> [NoInfo EXCEPT !.sects = IF q = p THEN 1 ELSE 0]]]
  /\ aboard = Crew
  /\ slavedTo = Nobody /\ phase = "play" /\ todo = {}
  /\ drift = 1

-----------------------------------------------------------------------------
(* Commands *)

Playing == phase = "play" /\ UNCHANGED <<phase, todo>>

\* load and unload at a sector of one's own or nobody's; a ship built on a
\* planet loads its crew in the same way.
Transfer(p, s, k, n) ==
  /\ Playing
  /\ sect[s].owner \in {p, Nobody}
  /\ n <= Civ(k, sect[s].popn) + Mil(k, sect[s].troops)
  /\ -n <= Civ(k, aboard[p].popn) + Mil(k, aboard[p].troops)
  /\ sect' = [sect EXCEPT ![s] = Adjusted(@, p, Civ(k, -n), Mil(k, -n))]
  /\ books' = BooksAdjusted(books, sect[s], p, Civ(k, -n), Mil(k, -n))
  /\ aboard' = [aboard EXCEPT ![p] = Boarded(@, Civ(k, n), Mil(k, n))]
  /\ UNCHANGED <<slavedTo, drift>>

\* ground_attack leaves any part of each side alive.  The winner may absorb
\* the dead of the other side; where nobody is left nobody owns the sector.
Repelled(civ, mil) == civ + mil > 0
\* MUTANT: the survivors are absorbed with the dead
EverybodyFallen(x, p, n, alive, civ, mil) ==
  IF Repelled(civ, mil) THEN IF x.owner \in Absorb THEN n ELSE 0
  ELSE IF p \in Absorb THEN x.popn + x.troops ELSE 0
Fallen(x, p, n, alive, civ, mil) ==
  IF Repelled(civ, mil) THEN IF x.owner \in Absorb THEN n - alive ELSE 0
  ELSE IF p \in Absorb THEN x.popn + x.troops ELSE 0
Fought(x, p, k, alive, civ, mil, bodies) ==
  IF Repelled(civ, mil)
    THEN Manned(x, civ + bodies, mil)
    ELSE Abandoned([owner |-> p, popn |-> Civ(k, alive) + bodies, troops |-> Mil(k, alive)])
Back(alive, civ, mil) == IF Repelled(civ, mil) THEN alive ELSE 0

\* unload at a sector of another race
LandAssault(p, s, k, n) ==
  /\ Playing
  /\ sect[s].owner \notin {p, Nobody}
  /\ n <= Civ(k, aboard[p].popn) + Mil(k, aboard[p].troops)
  /\ \E alive \in 0..n, civ \in 0..sect[s].popn, mil \in 0..sect[s].troops :
     \E bodies \in 0..Fallen(sect[s], p, n, alive, civ, mil) :
       /\ sect' = [sect EXCEPT ![s] = Fought(@, p, k, alive, civ, mil, bodies)]
       /\ aboard' = [aboard EXCEPT ![p] =
            Boarded(@, Civ(k, Back(alive, civ, mil) - n), Mil(k, Back(alive, civ, mil) - n))]
  /\ books' = Synced(sect') /\ drift' = 0
  /\ UNCHANGED slavedTo

\* One step of a move.  What AFVs shoot of the group on the way stays behind.
CanMarch(p, s, t, k, n) ==
  /\ Playing /\ ~EnslavedToForeign(p)
  /\ s # t /\ sect[s].owner = p
  /\ n <= Civ(k, sect[s].popn) + Mil(k, sect[s].troops)

March(p, s, t, k, n) ==
  /\ CanMarch(p, s, t, k, n)
  /\ sect[t].owner \in {p, Nobody}
  /\ sect' = [sect EXCEPT ![s] = Adjusted(@, p, Civ(k, -n), Mil(k, -n)),
                          ![t] = Adjusted(@, p, Civ(k, n), Mil(k, n))]
  /\ books' = BooksAdjusted(BooksAdjusted(books, sect[s], p, Civ(k, -n), Mil(k, -n)),
                            sect[t], p, Civ(k, n), Mil(k, n))
  /\ UNCHANGED <<aboard, slavedTo, drift>>

Assault(p, s, t, k, n) ==
  /\ CanMarch(p, s, t, k, n)
  /\ sect[t].owner \notin {p, Nobody}
  /\ \E alive \in 0..n, civ \in 0..sect[t].popn, mil \in 0..sect[t].troops :
     \E bodies \in 0..Fallen(sect[t], p, n, alive, civ, mil) :
       sect' = [sect EXCEPT
         ![s] = Abandoned(Manned(@, @.popn - Civ(k, n - Back(alive, civ, mil)),
                                    @.troops - Mil(k, n - Back(alive, civ, mil)))),
         ![t] = Fought(@, p, k, alive, civ, mil, bodies)]
  /\ books' = Synced(sect') /\ drift' = 0
  /\ UNCHANGED <<aboard, slavedTo>>

\* arm (n > 0) and disarm (n < 0): here the sums are not kept from going below
\* zero.
InfoEnlisted(i, n) == [popn |-> i.popn - n, troops |-> i.troops + n, sects |-> i.sects]
Enlisted(b, p, n) ==
  [popn |-> b.popn - n, troops |-> b.troops + n,
   info |-> [q \in Players |-> IF q = p THEN InfoEnlisted(b.info[q], n) ELSE b.info[q]]]
Militia(p, s, n) ==
  /\ Playing /\ ~EnslavedToForeign(p)
  /\ sect[s].owner = p
  /\ n <= sect[s].popn /\ -n <= sect[s].troops
  /\ sect' = [sect EXCEPT ![s] =
       Manned(@, @.popn - n, @.troops + n)]
  /\ books' = Enlisted(books, p, n)
  /\ UNCHANGED <<aboard, slavedTo, drift>>

\* An AFV walks at a sector of another race and kills any number of its people,
\* or none if it has no guns; some of its crew may die.
Walk(p, s) ==
  /\ Playing
  /\ sect[s].owner \notin {p, Nobody} /\ aboard[p].popn > 0
  /\ \E civ \in 0..sect[s].popn, mil \in 0..sect[s].troops :
       sect' = [sect EXCEPT ![s] = Abandoned(Manned(@, civ, mil))]
  /\ \E civ \in 0..aboard[p].popn, mil \in 0..aboard[p].troops :
       aboard' = [aboard EXCEPT ![p] = [popn |-> civ, troops |-> mil]]
  /\ books' = Synced(sect') /\ drift' = 0
  /\ UNCHANGED slavedTo

\* capture: of n boarders some die and some, if the crew is dead, move in; the
\* others never left their sector.
Capture(p, v, s, k, n) ==
  /\ Playing /\ ~EnslavedToForeign(p)
  /\ p # v /\ sect[s].owner = p
  /\ n <= Civ(k, sect[s].popn) + Mil(k, sect[s].troops)
  /\ \E civ \in 0..aboard[v].popn, mil \in 0..aboard[v].troops,
        gone \in 0..n, in \in 0..n :
       /\ in <= gone
       /\ aboard' = [aboard EXCEPT ![v] = [popn |-> civ, troops |-> mil],
                                  ![p] = Boarded(@, Civ(k, in), Mil(k, in))]
       /\ sect' = [sect EXCEPT ![s] = Adjusted(@, p, Civ(k, -gone), Mil(k, -gone))]
       /\ books' = BooksAdjusted(books, sect[s], p, Civ(k, -gone), Mil(k, -gone))
  /\ UNCHANGED <<slavedTo, drift>>

\* scrap a landed ship: its crew steps out, or is lost in a foreign sector.
ScrapShip(p, s) ==
  /\ Playing
  /\ \E civ \in 1..aboard[p].popn, mil \in 0..aboard[p].troops :
       /\ aboard' = [aboard EXCEPT ![p] = Boarded(@, -civ, -mil)]
       /\ IF sect[s].owner \in {p, Nobody}
            THEN /\ sect' = [sect EXCEPT ![s] = Adjusted(@, p, civ, mil)]
                 /\ books' = BooksAdjusted(books, sect[s], p, civ, mil)
            ELSE UNCHANGED <<sect, books>>
  /\ UNCHANGED <<slavedTo, drift>>

Dissolve(p) ==
  /\ Playing
  /\ sect' = [s \in Sectors |-> IF sect[s].owner = p THEN Devastated ELSE sect[s]]
  /\ aboard' = [aboard EXCEPT ![p] = [popn |-> 0, troops |-> 0]]
  /\ books' = Synced(sect') /\ drift' = 0
  /\ UNCHANGED slavedTo

\* insurgency: sectors of the victim with civilians go over; some of these
\* survive, no troops do.
Revolted(p, civ) == [owner |-> p, popn |-> civ, troops |-> 0]
Insurgency(p, v) ==
  /\ Playing
  /\ p # v /\ books.info[v].popn # 0
  /\ \E R \in SUBSET {s \in OwnedBy(sect, v) : sect[s].popn > 0} \ {{}} :
     \E left \in [R -> Amounts] :
       /\ \A s \in R : left[s] <= sect[s].popn
       /\ sect' = [s \in Sectors |-> IF s \in R THEN Revolted(p, left[s]) ELSE sect[s]]
  /\ books' = Synced(sect') /\ drift' = 0
  /\ UNCHANGED <<aboard, slavedTo>>

\* enslave: whose guns prevail is left open.
Enslave(p) ==
  /\ Playing
  /\ books.info[p].sects > 0
  /\ \E q \in Players \ {p} : books.info[q].sects > 0
  /\ slavedTo' = p
  /\ UNCHANGED <<sect, books, aboard, drift>>

-----------------------------------------------------------------------------
(* Turns *)

\* A salvo (fire, bombard, a missile, a mine, a berserker, a crash) leaves any
\* part of the people of the sectors within its reach alive, and the sums alone.
Hit(x) ==
  {Abandoned(Manned(x, civ, mil)) : civ \in 0..x.popn, mil \in 0..x.troops}
Bombard ==
  /\ phase \in {"play", "ships", "surface"}
  /\ drift < MaxDrift
  /\ \E T \in SUBSET {s \in Sectors : sect[s].owner # Nobody} \ {{}} :
     \E after \in [T -> UNION {Hit(sect[s]) : s \in T}] :
       /\ \A s \in T : after[s] \in Hit(sect[s])
       /\ sect' = [s \in Sectors |-> IF s \in T THEN after[s] ELSE sect[s]]
  /\ sect' # sect /\ drift' = drift + 1
  /\ UNCHANGED <<books, aboard, slavedTo, phase, todo>>

\* Ships move in segments and updates alike.
StartTurn ==
  /\ phase = "play" /\ phase' = "ships"
  /\ UNCHANGED <<sect, books, aboard, slavedTo, todo, drift>>

\* A spore pod bursts: a family takes a sector, and of the sums only the
\* newcomer's numsectsowned follows.
Spore(p, s) ==
  /\ phase = "ships" /\ drift < MaxDrift
  /\ sect[s].owner # p
  /\ sect' = [sect EXCEPT ![s] = [owner |-> p, popn |-> Sexes[p], troops |-> 0]]
  /\ Total(sect', aboard) <= MaxPeople
  /\ books' = [books EXCEPT !.info = [q \in Players |-> IF q = p
       THEN [books.info[q] EXCEPT !.sects = @ + 1] ELSE books.info[q]]]
  /\ drift' = drift + 1
  /\ UNCHANGED <<aboard, slavedTo, phase, todo>>

EndSegment ==
  /\ phase = "ships" /\ phase' = "play"
  /\ UNCHANGED <<sect, books, aboard, slavedTo, todo, drift>>

\* doplanet: reset_planet_turn_state
StartPlanet ==
  /\ phase = "ships" /\ phase' = "surface"
  /\ books' = EmptyBooks
  /\ UNCHANGED <<sect, aboard, slavedTo, todo, drift>>

\* process_planetary_ships: a terraformer clears the sector it works on.
Terraform(s) ==
  /\ phase = "surface"
  /\ \E p \in Players : aboard[p].popn > 0
  /\ sect' = [sect EXCEPT ![s] = Devastated]
  /\ UNCHANGED <<books, aboard, slavedTo, phase, todo, drift>>

StartProduction ==
  /\ phase = "surface" /\ phase' = "grow"
  /\ todo' = Sectors
  /\ UNCHANGED <<sect, books, aboard, slavedTo, drift>>

\* produce, then spread: births only in a whole family, migrants only beyond
\* one, and only to sectors nobody owns.
Occupied(x) == x.owner # Nobody /\ (x.popn > 0 \/ x.troops > 0)
Free == {s \in Sectors : sect[s].owner = Nobody}
Spared(x) ==
  IF x.owner = Nobody \/ EnslavedToForeign(x.owner) \/ x.popn <= Sexes[x.owner] THEN 0
  ELSE x.popn - Sexes[x.owner]
Settlers(x, go) ==
  [owner |-> IF go > 0 THEN x.owner ELSE Nobody, popn |-> go, troops |-> 0]

Grow(s) ==
  /\ phase = "grow" /\ s \in todo
  /\ todo' = todo \ {s}
  /\ IF ~Occupied(sect[s]) THEN UNCHANGED sect
     ELSE \E n \in 0..MaxPeople :
       /\ n > sect[s].popn => sect[s].popn >= Sexes[sect[s].owner]
       /\ LET x == Abandoned(Manned(sect[s], n, sect[s].troops))
          IN \E gone \in 0..Spared(x) : \E go \in [Free -> 0..gone] :
               /\ gone = SumOf(go, Free)
               /\ sect' = [t \in Sectors |->
                    IF t = s THEN Manned(x, x.popn - gone, x.troops)
                    ELSE IF t \in Free THEN Settlers(x, go[t]) ELSE sect[t]]
  /\ Total(sect', aboard) <= MaxPeople
  /\ UNCHANGED <<books, aboard, slavedTo, phase, drift>>

EndProduction ==
  /\ phase = "grow" /\ todo = {}
  /\ phase' = "islands"
  /\ books' = Counted(books, sect)
  /\ UNCHANGED <<sect, aboard, slavedTo, todo, drift>>

\* In a nova's light nothing is produced: half the civilians die, in the last
\* stage everybody; and nobody explores.
Irradiated(x, up) ==
  Abandoned(Manned(x, IF up THEN (x.popn + 1) \div 2 ELSE x.popn \div 2, x.troops))
Supernova ==
  /\ phase = "grow" /\ todo = Sectors
  /\ \/ sect' = [s \in Sectors |-> Devastated]
     \/ \E up \in SUBSET Sectors :
          sect' = [s \in Sectors |-> Irradiated(sect[s], s \in up)]
  /\ todo' = {} /\ phase' = "toxic"
  /\ books' = Counted(books, sect')
  /\ UNCHANGED <<aboard, slavedTo, drift>>

\* process_island_exploration: at most one family settles an island.
Explore ==
  /\ phase = "islands" /\ phase' = "toxic"
  /\ \/ UNCHANGED sect
     \/ \E p \in Players, s \in Free :
          /\ books.info[p].sects > 0
          /\ sect' = [sect EXCEPT ![s] = [owner |-> p, popn |-> Sexes[p], troops |-> 0]]
          /\ Total(sect', aboard) <= MaxPeople
  /\ UNCHANGED <<books, aboard, slavedTo, todo, drift>>

\* process_toxic_environmental_damage: any sector, inhabited or not
ToxicDamage ==
  /\ phase = "toxic" /\ phase' = "recover"
  /\ \/ UNCHANGED sect
     \/ \E s \in Sectors : sect' = [sect EXCEPT ![s] = Devastated]
  /\ UNCHANGED <<books, aboard, slavedTo, todo, drift>>

\* do_recover plunders whoever has no numsectsowned; then the census is taken.
Defeated == {p \in Players : books.info[p].sects = 0}
Census ==
  /\ phase = "recover" /\ phase' = "revolt"
  /\ books' = CensusOf(sect) /\ drift' = 0
  /\ UNCHANGED <<sect, aboard, slavedTo, todo>>

RevoltTriggered ==
  slavedTo # Nobody /\ books.info[slavedTo].popn <= books.popn \div RevoltScale

\* No revolt: the planet works for its master, if it has one.
StaysQuiet ==
  /\ phase = "revolt" /\ phase' = "play"
  /\ ~RevoltTriggered
  /\ UNCHANGED <<sect, books, aboard, slavedTo, todo, drift>>

\* A revolt devastates random sectors, a sector drawn twice only once, and, if
\* the master's ships intimidated the slaves, any of his.
SlaveRevolt ==
  /\ phase = "revolt" /\ phase' = "play"
  /\ RevoltTriggered
  /\ \E D \in SUBSET Sectors, M \in SUBSET OwnedBy(sect, slavedTo) :
       /\ Cardinality(D) <= books.popn \div RevoltScale
       /\ books.popn \div RevoltScale > 0 => D # {}
       /\ sect' = [s \in Sectors |-> IF s \in D \cup M THEN Devastated ELSE sect[s]]
       /\ drift' = IF sect' = sect THEN drift ELSE drift + 1
  /\ slavedTo' = Nobody
  /\ UNCHANGED <<books, aboard, todo>>

Command ==
  \/ \E p \in Players, s \in Sectors :
       \/ ScrapShip(p, s) \/ Walk(p, s)
       \/ \E k \in Kinds : \E n \in (-MaxPeople)..MaxPeople : n # 0 /\ Transfer(p, s, k, n)
       \/ \E n \in (-MaxPeople)..MaxPeople : n # 0 /\ Militia(p, s, n)
       \/ \E k \in Kinds, n \in Amounts :
            \/ LandAssault(p, s, k, n)
            \/ \E t \in Sectors : March(p, s, t, k, n) \/ Assault(p, s, t, k, n)
            \/ \E v \in Players : Capture(p, v, s, k, n)
  \/ \E p \in Players :
       Dissolve(p) \/ Enslave(p) \/ (\E v \in Players : Insurgency(p, v))

Turn ==
  \/ Bombard \/ StartTurn \/ EndSegment \/ StartPlanet \/ StartProduction
  \/ \E p \in Players, s \in Sectors : Spore(p, s)
  \/ \E s \in Sectors : Terraform(s) \/ Grow(s)
  \/ EndProduction \/ Supernova \/ Explore \/ ToxicDamage
  \/ Census \/ StaysQuiet \/ SlaveRevolt

Next == Command \/ Turn

Spec == Init /\ [][Next]_vars
-----------------------------------------------------------------------------
(* Properties *)

\* The variables keep their types; sums may be negative.
TypeOK ==
  /\ sect \in [Sectors -> Holding]
  /\ books \in [popn : Int, troops : Int, info : [Players -> Info]]
  /\ aboard \in [Players -> [popn : Nat, troops : Nat]]
  /\ slavedTo \in Players \cup {Nobody} /\ phase \in Phases
  /\ todo \subseteq Sectors /\ drift \in 0..(MaxDrift + 1)

\* A sector has an owner exactly if somebody lives in it, whichever way its
\* people came or went.
SettledIffOwned ==
  \A s \in Sectors : (sect[s].owner = Nobody) <=> (sect[s].popn + sect[s].troops = 0)

\* Unless bombardment, a spore, a revolt or the enrolment itself came between,
\* the sums are those of the sectors, for the planet and for every race.
BooksExact == phase \in {"play", "ships"} /\ drift = 0 => books = Synced(sect)

\* Whom do_recover plunders as defeated holds no sector of the planet.
DefeatedHoldNothing ==
  phase = "recover" => \A p \in Defeated : OwnedBy(sect, p) = {}

\* No command makes people: who wins a sector absorbs no more than fell, and
\* moving, loading, arming and disarming lose nobody either.
Peaceful ==
  \E p \in Players, s \in Sectors :
    \/ \E k \in Kinds : \E n \in (-MaxPeople)..MaxPeople : n # 0 /\ Transfer(p, s, k, n)
    \/ \E n \in (-MaxPeople)..MaxPeople : n # 0 /\ Militia(p, s, n)
    \/ \E k \in Kinds, n \in Amounts, t \in Sectors : March(p, s, t, k, n)
PeopleAccounted ==
  [][LET now == Total(sect, aboard) next == Total(sect', aboard')
     IN phase = "play" => next = now \/ (next < now /\ ~Peaceful)]_vars

\* -- Stated in the repository, refuted by the model (README, disagreements) --

\* gb/testing/universe_invariants.cc:69 "Planet population and troops ==
\* sum(Sector populations and troops)", between turns.
PlanetIsSum ==
  phase = "play" => books.popn = SumPopn(sect, Sectors) /\ books.troops = SumTroops(sect, Sectors)
=============================================================================
