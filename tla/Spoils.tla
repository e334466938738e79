-------------------------------- MODULE Spoils --------------------------------
(***************************************************************************)
(* What a planet yields and who gets it.  A colony keeps a stockpile.  In  *)
(* an update the sectors, and machines that stand on them, produce; then   *)
(* races that no longer own a sector are plundered by those that do, if    *)
(* these are all allied to one another; on an enslaved planet the goods    *)
(* produced go to the master as long as he has a garrison, the crystals    *)
(* stay with the slaves; what is left is deposited, for races that own     *)
(* sectors only.  Who owns sectors after a battle, a season or a revolt is *)
(* in Colonies; here it is any outcome.                                    *)
(***************************************************************************)
EXTENDS Sums

CONSTANTS
  Empires,     \* the races by their numbers: RaceList visits them in that order
  Envoys,      \* bound: those who declare anything
  NoMaster,    \* slaved_to is unset
  Wealth       \* bound: what is ever produced

ASSUME SpoilsAssumption ==
  /\ Empires \subseteq Nat /\ IsFiniteSet(Empires) /\ NoMaster \notin Empires
  /\ Envoys \subseteq Empires /\ Wealth \in Nat

Kinds == {"goods", "crystals"}   \* goods: resources, fuel and destruct

VARIABLES
  allied, foes,   \* Race::allied, Race::atwar
  ground,         \* who owns sectors, as numsectsowned says
  stock,          \* the stockpile of each race on the planet
  slavedTo,       \* the master of the planet
  gone,           \* history: what was loaded, spent or wasted
  yielded         \* history: what sectors and machines of owners produced

spoils_vars == <<allied, foes, ground, stock, slavedTo, gone, yielded>>

Nothing == [k \in Kinds |-> 0]
Plus(x, y) == [k \in Kinds |-> x[k] + y[k]]
SumOver(f, S) == [k \in Kinds |-> SumOf([r \in S |-> f[r][k]], S)]

SpoilsInit ==
  /\ allied = [r \in Empires |-> {}] /\ foes = [r \in Empires |-> {}]
  /\ ground \in {{r} : r \in Empires}
  /\ stock = [r \in Empires |-> Nothing]
  /\ slavedTo = NoMaster
  /\ gone = Nothing /\ yielded = Nothing

-----------------------------------------------------------------------------
(* Between updates *)

\* declare: alliance ends a war, war and neutrality end an alliance, and only
\* the declarer's own view changes.
Stance == {"alliance", "neutral", "war"}
Declare(r, q) ==
  /\ r # q /\ {r, q} \subseteq Envoys
  /\ \E say \in Stance :
       /\ allied' = [allied EXCEPT ![r] = IF say = "alliance" THEN @ \cup {q} ELSE @ \ {q}]
       /\ foes' = [foes EXCEPT ![r] = IF say = "war" THEN @ \cup {q} ELSE @ \ {q}]
  /\ UNCHANGED <<ground, stock, slavedTo, gone, yielded>>

\* Sectors are taken, settled and abandoned: the stockpile stays where it is.
Conquest(r) ==
  /\ ground' = IF r \in ground THEN ground \ {r} ELSE ground \cup {r}
  /\ UNCHANGED <<allied, foes, stock, slavedTo, gone, yielded>>

\* load, build, sell ...
Use(r, k) ==
  /\ stock[r][k] > 0
  /\ stock' = [stock EXCEPT ![r][k] = @ - 1]
  /\ gone' = [gone EXCEPT ![k] = @ + 1]
  /\ UNCHANGED <<allied, foes, ground, slavedTo, yielded>>

\* enslave: with a platform in orbit, a garrison and somebody else to enslave
Enslave(r) ==
  /\ r \in ground /\ ground # {r}
  /\ slavedTo' = r
  /\ UNCHANGED <<allied, foes, ground, stock, gone, yielded>>

\* dissolve_empire_colonies: the stockpile is lost with the sectors.
Dissolve(r) ==
  /\ ground' = ground \ {r}
  /\ stock' = [stock EXCEPT ![r] = Nothing]
  /\ gone' = Plus(gone, stock[r])
  /\ UNCHANGED <<allied, foes, slavedTo, yielded>>

-----------------------------------------------------------------------------
(* The update *)

\* MUTANT: one side's word is enough.
HalfAllied(S) == \A p, q \in S : p = q \/ p \in allied[q] \/ q \in allied[p]
\* check_mutual_alliances
MutuallyAllied(S) == \A p, q \in S : p = q \/ q \in allied[p]

\* split_share rounds up or down, by chance; all but the last take a share of
\* the whole and never more than remains, the last takes what is left.
RoundedShare(n, d) == {n \div d} \cup (IF n % d = 0 THEN {} ELSE {n \div d + 1})
Less(x, y) == IF x < y THEN x ELSE y
Last(heirs, r) == \A q \in heirs : q <= r
Left(n, w, heirs, r) == n - SumOf(w, {q \in heirs : q < r})
Shares(n, heirs) ==
  {w \in [heirs -> 0..n] : \A r \in heirs :
     IF Last(heirs, r) THEN w[r] = Left(n, w, heirs, r)
     ELSE \E c \in RoundedShare(n, Cardinality(heirs)) : w[r] = Less(c, Left(n, w, heirs, r))}

\* recover_conquered_stockpiles: the stockpiles after it, lords being those
\* who own sectors when production is over. (MODEL: a deity, who cannot be
\* stolen from, keeps no stockpile.)
Distributed(share, lords) ==
  [r \in Empires |-> IF r \in lords THEN Plus(stock[r], [k \in Kinds |-> share[k][r]])
                     ELSE Nothing]
Plundered(lords) ==
  LET loot == SumOver(stock, Empires \ lords)
  IN IF ~MutuallyAllied(lords) \/ lords = {} \/ loot = Nothing THEN {stock}
     ELSE {Distributed([k \in Kinds |-> IF k = "goods" THEN v ELSE w], lords) :
             v \in Shares(loot["goods"], lords), w \in Shares(loot["crystals"], lords)}

\* divert_slave_tribute: of every race with sectors, the master's own included;
\* crystals are not taken.
Tribute(made, owners) == [goods |-> SumOver(made, owners)["goods"], crystals |-> 0]
KeptBySlaves(made, owners) ==
  [r \in Empires |-> IF r \in owners THEN [made[r] EXCEPT !["goods"] = 0] ELSE made[r]]

\* process_planet_economy: production of a race without sectors is dropped.
Deposited(piles, made, owners) ==
  [r \in Empires |-> IF r \in owners THEN Plus(piles[r], made[r]) ELSE piles[r]]

\* is_slave_revolt_triggered is false only if the master has people there.
Diverted(piles, made, owners) ==
  Deposited([piles EXCEPT ![slavedTo] = Plus(@, Tribute(made, owners))],
            KeptBySlaves(made, owners), owners)

\* One unit more, by somebody's sectors or by a weapon plant or quarry of
\* anybody who has landed one
Yield ==
  {[r \in Empires |-> Nothing]} \cup
  {[r \in Empires |-> IF r = p THEN [Nothing EXCEPT ![k] = 1] ELSE Nothing] :
     p \in Empires, k \in Kinds}

\* doplanet: production settles who owns sectors, then the plunder, then toxic
\* waste may cost some of them their last sector before the census is taken.
UpdatePlanet ==
  \E lords \in SUBSET ground : \E piles \in Plundered(lords), made \in Yield :
    \E owners \in SUBSET lords :
      /\ ground' = owners
      /\ yielded' = Plus(yielded, SumOver(made, owners))
      /\ \A k \in Kinds : yielded'[k] <= Wealth
      /\ \/ stock' = Deposited(piles, made, owners) /\ slavedTo' = NoMaster
         \/ /\ slavedTo \in owners
            /\ stock' = Diverted(piles, made, owners) /\ slavedTo' = slavedTo
      /\ UNCHANGED <<allied, foes, gone>>

SpoilsNext ==
  \/ \E r \in Empires : Conquest(r) \/ Enslave(r) \/ Dissolve(r)
  \/ \E r \in Empires, k \in Kinds : Use(r, k)
  \/ \E r, q \in Empires : Declare(r, q)
  \/ UpdatePlanet

SpoilsSpec == SpoilsInit /\ [][SpoilsNext]_spoils_vars

-----------------------------------------------------------------------------
(* Properties *)

\* The variables keep their types; nobody is friend and foe to the same race.
SpoilsTypeOK ==
  /\ allied \in [Empires -> SUBSET Empires] /\ foes \in [Empires -> SUBSET Empires]
  /\ \A r \in Empires : allied[r] \cap foes[r] = {}
  /\ ground \subseteq Empires /\ stock \in [Empires -> [Kinds -> Nat]]
  /\ slavedTo \in Empires \cup {NoMaster}

\* Plunder and tribute make nothing and lose nothing: what owners of sectors
\* produced is in a stockpile or was used.
GoodsAccounted == Plus(SumOver(stock, Empires), gone) = yielded

\* A stockpile shrinks in an update only if its holder owns nothing there, and
\* those who grow by it are allied to each other both ways, whatever was
\* declared since they took the planet (docs/planetary_simulation.md:161).
PlunderIsLawful ==
  [][UNCHANGED gone =>
       \A r \in Empires :
         (\E k \in Kinds : stock'[r][k] < stock[r][k]) =>
           /\ r \notin ground'
           /\ \A p, q \in ground' : p = q \/ q \in allied[p]]_spoils_vars

\* Every unit is accounted for and no stockpile is taken but by right.
SpoilsAccounted == [](SpoilsTypeOK /\ GoodsAccounted) /\ PlunderIsLawful

\* -- Stated in the repository, refuted by the model (README, disagreements) --

\* docs/planets.md:207 "the entire output of newly harvested commodities (fuel,
\* minerals, destruct, crystals) is automatically diverted"
AllIsDiverted ==
  [][\A r \in Empires :
       slavedTo # NoMaster /\ slavedTo' = slavedTo /\ r # slavedTo
         => stock'[r]["crystals"] <= stock[r]["crystals"]
            \/ \E p \in Empires : stock'[p]["crystals"] < stock[p]["crystals"]]_spoils_vars
=============================================================================
