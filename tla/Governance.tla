----------------------------- MODULE Governance ------------------------------
(***************************************************************************)
(* Seats of government and action points.  A race names one ship its       *)
(* capital (Race::Gov_ship, a foreign key from tbl_race to tbl_ship).      *)
(* While the capital stands landed, or berthed in a habitat in orbit, the  *)
(* race is governed: each update it earns action points in full and its    *)
(* planets' points for the whole galaxy.  The ship itself can be flown,    *)
(* given away, captured and destroyed like any other.                      *)
(*                                                                         *)
(* One star system is modelled; how much a race earns there is any number  *)
(* of Raw, and what its planets are worth any number of Worth.             *)
(***************************************************************************)
EXTENDS Integers

CONSTANTS
  Race, Ship,     \* players; ship numbers of government centers, never reused
  None,           \* no capital
  Home,           \* the capital each race begins with, or None: it was lost
  Raw, Worth,     \* what an update may earn in the star, and in the galaxy
  Gift,           \* amounts of points a deity blesses with
  Limit,          \* LIMIT_APs
  CapitalCost,    \* CAPITAL_AP_COST
  GiveCost,       \* points the giver of a ship pays
  Excess          \* bound: how far outside 0..Limit a deity takes points

ASSUME GovernanceAssumption ==
  /\ None \notin Ship
  /\ Home \in [Race -> Ship \cup {None}]
  /\ \A r, q \in Race : Home[r] = Home[q] => r = q \/ Home[r] = None
  /\ Race \cap {"unbuilt", "wreck"} = {}
  /\ Raw \subseteq Nat /\ Worth \subseteq Nat /\ Gift \subseteq Int
  /\ Limit \in Nat /\ CapitalCost \in Nat \ {0} /\ GiveCost \in Nat \ {0}
  /\ Excess \in Nat

VARIABLES
  owner,    \* who owns each ship; "unbuilt" and "wreck" before and after
  place,    \* where it stands ("landed" for what does not stand)
  capital,  \* Gov_ship of each race
  star,     \* its action points in the star
  univ,     \* its action points in the galaxy
  taxed,    \* history: who collected taxes in anarchy at the last update
  refused   \* the database refused to delete a ship: the process ended

vars == <<owner, place, capital, star, univ, taxed, refused>>
points == <<star, univ>>

Init ==
  /\ owner = [s \in Ship |-> IF \E r \in Race : Home[r] = s
                             THEN CHOOSE r \in Race : Home[r] = s ELSE "unbuilt"]
  /\ place = [s \in Ship |-> "landed"]
  /\ capital = Home
  /\ star = [r \in Race |-> IF Limit < 5 THEN Limit ELSE 5]
  /\ univ = [r \in Race |-> 0]
  /\ taxed = {}
  /\ refused = FALSE

Stands(s) == owner[s] \in Race

\* compute_governed_status: landed, or berthed in a habitat that orbits
\* something.  Whose ship it is is not asked.
Governed(r) == capital[r] # None /\ place[capital[r]] \in {"landed", "habitat"}

\* has_government_center, which taxes and research ask instead
HasCenter(r) == capital[r] # None

-----------------------------------------------------------------------------
(* Points *)

Capped(n) == IF n > Limit THEN Limit ELSE n

\* MUTANT: nothing is checked
Unpriced(p, n) == TRUE
\* deduct_ap, deduct_univ_ap and the checks like them: never more than there is
Affordable(p, n) == p >= n

PaysInStar(r, n) ==
  /\ Affordable(star[r], n)
  /\ star' = [star EXCEPT ![r] = @ - n] /\ UNCHANGED univ

\* Universe::deduct_AP takes what there is.
Deducted(p, n) == IF p > n THEN p - n ELSE 0

PaysInGalaxy(r, n) ==
  /\ Affordable(univ[r], n)
  /\ univ' = [univ EXCEPT ![r] = Deducted(@, n)] /\ UNCHANGED star

\* Any order that costs points
Spend(r) ==
  /\ \E n \in {1, CapitalCost} : PaysInStar(r, n) \/ PaysInGalaxy(r, n)
  /\ refused' = FALSE
  /\ UNCHANGED <<owner, place, capital, taxed>>

\* allocate: from the galaxy to the star, never past the limit
Allocatable(r, n) == n <= univ[r] /\ n <= Limit - star[r]

Allocate(r) ==
  \E n \in 1..Limit :
    /\ Allocatable(r, n)
    /\ univ' = [univ EXCEPT ![r] = Deducted(@, n)]
    /\ star' = [star EXCEPT ![r] = Capped(@ + n)]
    /\ refused' = FALSE
    /\ UNCHANGED <<owner, place, capital, taxed>>

\* bless <player> ap <amount>: of either sign, past the limit and below nothing
Bless(r) ==
  /\ \E n \in Gift :
       /\ star[r] + n \in -Excess..(Limit + Excess)
       /\ star' = [star EXCEPT ![r] = @ + n]
  /\ refused' = FALSE
  /\ UNCHANGED <<owner, place, capital, univ, taxed>>

\* round_rand(n, d): up or down, by chance
Rounded(n, d) == {n \div d} \cup (IF n % d = 0 THEN {} ELSE {n \div d + 1})

\* compute_star_action_points: in anarchy a twentieth
StarPoints(r, raw) == IF Governed(r) THEN {raw} ELSE Rounded(raw, 20)

\* What an update may leave in the star (nobody lives there, or someone does)
\* and in the galaxy
StarAfter(r) ==
  {star[r]} \cup {Capped(star[r] + n) : n \in UNION {StarPoints(r, raw) : raw \in Raw}}
UnivAfter(r) ==
  IF Governed(r) THEN {Capped(univ[r] + n) : n \in Worth} ELSE {univ[r]}

Update ==
  /\ star' \in {f \in [Race -> UNION {StarAfter(r) : r \in Race}] :
                  \A r \in Race : f[r] \in StarAfter(r)}
  /\ univ' \in {f \in [Race -> UNION {UnivAfter(r) : r \in Race}] :
                  \A r \in Race : f[r] \in UnivAfter(r)}
  /\ taxed' = {r \in Race : HasCenter(r) /\ ~Governed(r)}
  /\ refused' = FALSE
  /\ UNCHANGED <<owner, place, capital>>

-----------------------------------------------------------------------------
(* Ships *)

Build(r, s) ==
  /\ owner[s] = "unbuilt"
  /\ owner' = [owner EXCEPT ![s] = r]
  /\ place' = [place EXCEPT ![s] = "landed"]
  /\ refused' = FALSE
  /\ UNCHANGED <<capital, points, taxed>>

\* It is launched, loaded or landed, or the habitat around it moves.
Move(s) ==
  /\ Stands(s)
  /\ \E p \in {"landed", "habitat", "adrift"} \ {place[s]} :
       place' = [place EXCEPT ![s] = p]
  /\ refused' = FALSE
  /\ UNCHANGED <<owner, capital, points, taxed>>

Capital(r, s) ==
  /\ owner[s] = r /\ place[s] = "landed"
  /\ PaysInStar(r, CapitalCost)
  /\ capital' = [capital EXCEPT ![r] = s]
  /\ refused' = FALSE
  /\ UNCHANGED <<owner, place, taxed>>

\* give: an empty ship that is not in a hangar, to an ally
Give(s, q) ==
  LET r == owner[s]
  IN  /\ Stands(s) /\ q # r /\ place[s] # "habitat"
      /\ PaysInStar(r, GiveCost) \/ (place[s] = "adrift" /\ PaysInGalaxy(r, GiveCost))
      /\ owner' = [owner EXCEPT ![s] = q]
      /\ refused' = FALSE
      /\ UNCHANGED <<place, capital, taxed>>

\* capture, assault, or the capture of the habitat around it; the attack may
\* be repelled.
Capture(s, q) ==
  /\ Stands(s) /\ q # owner[s]
  /\ PaysInStar(q, 1) \/ (place[s] = "adrift" /\ PaysInGalaxy(q, 1))
  /\ owner' \in {owner, [owner EXCEPT ![s] = q]}
  /\ refused' = FALSE
  /\ UNCHANGED <<place, capital, taxed>>

\* kill_ship: the owner's capital is forgotten if this is it.
Forgotten(s) == [capital EXCEPT ![owner[s]] = IF @ = s THEN None ELSE @]

\* MUTANT: the foreign key is missing
NobodyNames(c, s) == TRUE
\* The foreign key from the races that still name the ship
Deletable(c, s) == \A r \in Race : c[r] # s

\* Shot, scuttled or crashed, by command or in a turn; if its row cannot be
\* deleted the command, or the whole turn, is undone and the process ends.
Destroy(s) ==
  /\ Stands(s)
  /\ IF Deletable(Forgotten(s), s)
     THEN /\ owner' = [owner EXCEPT ![s] = "wreck"]
          /\ place' = [place EXCEPT ![s] = "landed"]
          /\ capital' = Forgotten(s)
          /\ refused' = FALSE
     ELSE /\ refused' = TRUE /\ UNCHANGED <<owner, place, capital>>
  /\ UNCHANGED <<points, taxed>>

-----------------------------------------------------------------------------
Next ==
  \/ \E s \in Ship : Move(s) \/ Destroy(s)
  \/ \E r \in Race, s \in Ship :
       Build(r, s) \/ Capital(r, s) \/ Give(s, r) \/ Capture(s, r)
  \/ \E r \in Race : Allocate(r) \/ Spend(r) \/ Bless(r)
  \/ Update

Spec == Init /\ [][Next]_vars
-----------------------------------------------------------------------------
(* Properties *)

\* The variables keep their types.
TypeOK ==
  /\ owner \in [Ship -> Race \cup {"unbuilt", "wreck"}]
  /\ place \in [Ship -> {"landed", "habitat", "adrift"}]
  /\ capital \in [Race -> Ship \cup {None}]
  /\ star \in [Race -> -Excess..(Limit + Excess)]
  /\ univ \in [Race -> 0..Limit]
  /\ taxed \subseteq Race
  /\ refused \in BOOLEAN

\* No order spends points that are not there, of a star that a deity overdrew
\* no less than of any other, and neither an update nor an allocation brings
\* more than the limit: what steps outside the bounds is a deity's blessing.
\* (MCEmpire keeps the two apart: no order costs what a blessing takes.)
PointsInBounds ==
  [][\/ \A r \in Race : /\ star'[r] < star[r] => star'[r] >= 0
                        /\ star'[r] > star[r] => star'[r] <= Limit
                        /\ univ'[r] \in 0..Limit
     \/ \E r \in Race : Bless(r)]_vars

\* A capital exists, whoever has held it since (universe_invariants.cc:54-63:
\* Gov_ship is no "non-existent" and no "dead" ship).
CapitalStands == \A r \in Race : capital[r] # None => Stands(capital[r])

\* A race's capital changes only when its leader says so, who owns it and pays,
\* or when the ship that falls is that capital (kill_ship).
CapitalIsChosen ==
  [][\A r \in Race :
       capital'[r] # capital[r] =>
         \/ capital'[r] = None /\ owner'[capital[r]] = "wreck"
         \/ capital'[r] # None /\ owner[capital'[r]] = r /\ star'[r] < star[r]]_vars

\* allocate moves points and loses none of them to the limit.
AllocationConserves ==
  [][\A r \in Race :
       univ'[r] < univ[r] /\ star'[r] # star[r] =>
         star'[r] + univ'[r] = star[r] + univ[r]]_vars

\* -- Stated in the repository, refuted by the model (README, disagreements) --

\* entity_manager_kill_ship_test.cc:96 "Gov_ship gets cleared when government
\* ship is killed": no capital's death is refused.
CapitalDies == ~refused

\* docs/governance.md:121 "Governed --> Anarchy: Capital Destroyed / Scuttled /
\* Lost": nobody rules from a capital that somebody else has taken.
OwnCapital == \A r \in Race : Governed(r) => owner[capital[r]] = r

\* docs/governance.md:133 "Planetary tax collection is completely suspended":
\* nobody in anarchy collected taxes in the last update.
AnarchyPaysNoTax == taxed = {}

\* universe_invariants.cc:26 "Star '{}' has negative AP for race '{}'", reported
\* as a broken universe.
NoOverdraft == \A r \in Race : star[r] >= 0

\* docs/governance.md:82: an update leaves at most 250 points in a star.
DocumentedCap == \A r \in Race : star[r] <= 250
=============================================================================
