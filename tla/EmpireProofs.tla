---------------------------- MODULE EmpireProofs ----------------------------
(***************************************************************************)
(* What commands and turns do to an empire, for any races, governors,      *)
(* ships and amounts.                                                      *)
(*                                                                         *)
(* Governance: a capital that a race names exists whoever has held it      *)
(* since, it changes only by its race's order or by that ship's death, and *)
(* no order overdraws a star or loses points to the limit.  TypeOK and     *)
(* CapitalStands are inductive together (IInv).                            *)
(*                                                                         *)
(* Victory: the clock counts updates in a row, inductive as it stands.     *)
(*                                                                         *)
(* Coalitions: the books of the blocks are those of their members.         *)
(* BlocksInv adds that nobody is listed who is not enrolled, and that a    *)
(* race not enrolled has counted no system.                                *)
(*                                                                         *)
(* Spoils: plunder and tribute make and lose nothing and take only by      *)
(* right.  SpoilsInv is the balance of the goods, kind by kind; that the   *)
(* shares of a loot add up to it, however rounded, is SharesAddUp.         *)
(*                                                                         *)
(* CommandDispatch: action points pay for commands that succeeded and for  *)
(* nothing else, nobody is told of what was taken back, and no alert of a  *)
(* command that went through is lost on its way (DispatchInv).             *)
(***************************************************************************)
EXTENDS Governance, Victory, Coalitions, Spoils, CommandDispatch, SumTheorems, TLAPS

-----------------------------------------------------------------------------
(* Capitals and action points *)


LEMMA CappedType ==
  ASSUME NEW n \in Int, -Excess <= n
  PROVE  Capped(n) \in -Excess..(Limit + Excess) /\ Capped(n) <= n
BY GovernanceAssumption DEF Capped

\* What an update earns is never negative.
LEMMA StarPointsNat ==
  ASSUME NEW r \in Race, NEW raw \in Nat, NEW n \in StarPoints(r, raw)
  PROVE  n \in Nat
<1>1. raw \div 20 \in Nat
  BY SMT
<1> QED
  BY <1>1 DEF StarPoints, Rounded

LEMMA StarAfterType ==
  ASSUME TypeOK, NEW r \in Race, NEW n \in StarAfter(r)
  PROVE  /\ n \in -Excess..(Limit + Excess) /\ (star[r] >= 0 => n >= 0)
         /\ n < star[r] => n = Limit
         /\ n > star[r] => n <= Limit
<1>1. star[r] \in -Excess..(Limit + Excess)
  BY DEF TypeOK
<1>2. CASE n = star[r]
  BY <1>1, <1>2, GovernanceAssumption
<1>3. CASE \E raw \in Raw : \E m \in StarPoints(r, raw) : n = Capped(star[r] + m)
  <2>0. PICK raw \in Raw : \E m \in StarPoints(r, raw) : n = Capped(star[r] + m)
    BY <1>3
  <2>1. PICK m \in StarPoints(r, raw) : n = Capped(star[r] + m)
    BY <2>0
  <2>2. m \in Nat
    BY <2>1, StarPointsNat, GovernanceAssumption
  <2>3. star[r] + m \in Int /\ -Excess <= star[r] + m
    BY <1>1, <2>2, GovernanceAssumption
  <2>4. Capped(star[r] + m) \in -Excess..(Limit + Excess)
    BY <2>3, CappedType
  <2>5. /\ star[r] >= 0 => Capped(star[r] + m) >= 0
        /\ Capped(star[r] + m) <= Limit
        /\ Capped(star[r] + m) < star[r] => Capped(star[r] + m) = Limit
    BY <1>1, <2>2, GovernanceAssumption DEF Capped
  <2> QED
    BY <2>1, <2>4, <2>5
<1> QED
  BY <1>2, <1>3 DEF StarAfter

LEMMA UnivAfterType ==
  ASSUME TypeOK, NEW r \in Race, NEW n \in UnivAfter(r)
  PROVE  n \in 0..Limit /\ n >= univ[r]
<1>1. univ[r] \in 0..Limit
  BY DEF TypeOK
<1>2. CASE n = univ[r]
  BY <1>1, <1>2, GovernanceAssumption
<1>3. CASE \E m \in Worth : n = Capped(univ[r] + m)
  BY <1>1, <1>3, GovernanceAssumption DEF Capped
<1> QED
  BY <1>2, <1>3 DEF UnivAfter

\* What an update does to the points, as functions.
LEMMA UpdatePoints ==
  ASSUME TypeOK, Update
  PROVE  /\ star' \in [Race -> -Excess..(Limit + Excess)]
         /\ univ' \in [Race -> 0..Limit]
         /\ \A r \in Race : star'[r] \in StarAfter(r) /\ univ'[r] \in UnivAfter(r)
<1>1. /\ \A r \in Race : star'[r] \in StarAfter(r) /\ univ'[r] \in UnivAfter(r)
      /\ star' \in [Race -> UNION {StarAfter(r) : r \in Race}]
      /\ univ' \in [Race -> UNION {UnivAfter(r) : r \in Race}]
  BY DEF Update
<1>2. \A r \in Race : star'[r] \in -Excess..(Limit + Excess) /\ univ'[r] \in 0..Limit
  BY <1>1, StarAfterType, UnivAfterType
<1> QED
  BY <1>1, <1>2

-----------------------------------------------------------------------------
(* Points *)

\* A payment leaves the points typed, and takes from one pool only.
LEMMA PaymentType ==
  ASSUME TypeOK, NEW r \in Race, NEW n \in Nat, PaysInStar(r, n) \/ PaysInGalaxy(r, n)
  PROVE  /\ star' \in [Race -> -Excess..(Limit + Excess)]
         /\ univ' \in [Race -> 0..Limit]
         /\ star' = star \/ univ' = univ
         /\ \A q \in Race : star'[q] <= star[q] /\ (star'[q] < star[q] => star'[q] >= 0)
         /\ \A q \in Race : univ'[q] <= univ[q]
<1>1. /\ star \in [Race -> -Excess..(Limit + Excess)] /\ univ \in [Race -> 0..Limit]
      /\ star[r] \in Int /\ univ[r] \in 0..Limit
      /\ Limit \in Nat /\ Excess \in Nat
  BY GovernanceAssumption DEF TypeOK
<1>2. CASE PaysInStar(r, n)
  <2>1. star' = [star EXCEPT ![r] = star[r] - n] /\ univ' = univ /\ star[r] >= n
    BY <1>2 DEF PaysInStar, Affordable
  <2>2. star[r] - n \in -Excess..(Limit + Excess) /\ star[r] - n <= star[r] /\ star[r] - n >= 0
    BY <1>1, <2>1
  <2> QED
    BY <1>1, <2>1, <2>2
<1>3. CASE PaysInGalaxy(r, n)
  <2>1. univ' = [univ EXCEPT ![r] = Deducted(univ[r], n)] /\ star' = star
    BY <1>3 DEF PaysInGalaxy
  <2>2. Deducted(univ[r], n) \in 0..Limit /\ Deducted(univ[r], n) <= univ[r]
    BY <1>1 DEF Deducted
  <2> QED
    BY <1>1, <2>1, <2>2
<1> QED
  BY <1>2, <1>3

\* An allocation moves n points and loses none.
LEMMA AllocateEffect ==
  ASSUME TypeOK, NEW r \in Race, Allocate(r)
  PROVE  \E n \in Nat \ {0} :
           /\ star' = [star EXCEPT ![r] = star[r] + n] /\ star[r] + n <= Limit
           /\ univ' = [univ EXCEPT ![r] = univ[r] - n] /\ n <= univ[r]
           /\ UNCHANGED <<owner, place, capital, taxed>> /\ refused' = FALSE
<1>1. star[r] \in Int /\ univ[r] \in Nat /\ Limit \in Nat
  BY GovernanceAssumption DEF TypeOK
<1>2. PICK n \in 1..Limit :
        /\ n <= univ[r] /\ n <= Limit - star[r]
        /\ univ' = [univ EXCEPT ![r] = Deducted(univ[r], n)]
        /\ star' = [star EXCEPT ![r] = Capped(star[r] + n)]
        /\ refused' = FALSE /\ UNCHANGED <<owner, place, capital, taxed>>
  BY DEF Allocate, Allocatable
<1>3. Capped(star[r] + n) = star[r] + n /\ star[r] + n <= Limit
  BY <1>1, <1>2 DEF Capped
<1>4. Deducted(univ[r], n) = univ[r] - n
  BY <1>1, <1>2 DEF Deducted
<1>5. n \in Nat \ {0}
  BY <1>1, <1>2
<1> QED
  BY <1>2, <1>3, <1>4, <1>5

-----------------------------------------------------------------------------
(* The invariant *)

IInv == TypeOK /\ CapitalStands

LEMMA InitInv == Init => IInv
<1> SUFFICES ASSUME Init PROVE IInv
  OBVIOUS
<1> DEFINE First(s) == IF \E r \in Race : Home[r] = s
                       THEN CHOOSE r \in Race : Home[r] = s ELSE "unbuilt"
<1>1. \A s \in Ship : First(s) \in Race \cup {"unbuilt"}
  BY Zenon
<1>2. owner = [s \in Ship |-> First(s)]
  BY Zenon DEF Init
<1>3. owner \in [Ship -> Race \cup {"unbuilt", "wreck"}]
  BY <1>1, <1>2
<1>4. TypeOK
  <2>1. /\ star = [r \in Race |-> IF Limit < 5 THEN Limit ELSE 5]
        /\ univ = [r \in Race |-> 0]
    BY Zenon DEF Init
  <2>2. star \in [Race -> -Excess..(Limit + Excess)] /\ univ \in [Race -> 0..Limit]
    BY <2>1, GovernanceAssumption
  <2> QED
    BY <1>3, <2>2, GovernanceAssumption DEF Init, TypeOK
<1>5. CapitalStands
  <2> SUFFICES ASSUME NEW r \in Race, Home[r] # None PROVE owner[Home[r]] \in Race
    BY DEF Init, CapitalStands, Stands
  <2>1. Home[r] \in Ship
    BY GovernanceAssumption
  <2>2. First(Home[r]) \in Race
    BY Zenon
  <2> QED
    BY <1>2, <2>1, <2>2, Zenon
<1> QED
  BY <1>4, <1>5 DEF IInv

\* What happens to the ships and their names, apart from points.
LEMMA ShipsStep ==
  ASSUME IInv, [Next]_vars
  PROVE  /\ owner' \in [Ship -> Race \cup {"unbuilt", "wreck"}]
         /\ place' \in [Ship -> {"landed", "habitat", "adrift"}]
         /\ capital' \in [Race -> Ship \cup {None}]
         /\ taxed' \subseteq Race /\ refused' \in BOOLEAN
         /\ CapitalStands'
<1>1. /\ owner \in [Ship -> Race \cup {"unbuilt", "wreck"}]
      /\ place \in [Ship -> {"landed", "habitat", "adrift"}]
      /\ capital \in [Race -> Ship \cup {None}]
      /\ taxed \subseteq Race /\ refused \in BOOLEAN
      /\ \A r \in Race : capital[r] # None => owner[capital[r]] \in Race
      /\ None \notin Ship
  BY GovernanceAssumption DEF IInv, TypeOK, CapitalStands, Stands
<1>2. CASE \E r \in Race : Allocate(r) \/ Spend(r) \/ Bless(r)
  BY <1>1, <1>2 DEF Allocate, Spend, Bless, CapitalStands, Stands
<1>3. CASE Update
  BY <1>1, <1>3 DEF Update, CapitalStands, Stands
<1>4. CASE \E r \in Race, s \in Ship : Build(r, s)
  <2>1. PICK r \in Race, s \in Ship : Build(r, s)
    BY <1>4
  <2>2. /\ owner' = [owner EXCEPT ![s] = r] /\ place' = [place EXCEPT ![s] = "landed"]
        /\ refused' = FALSE /\ capital' = capital /\ taxed' = taxed
    BY <2>1 DEF Build
  <2>3. CapitalStands'
    BY <1>1, <2>2 DEF CapitalStands, Stands
  <2> QED
    BY <1>1, <2>2, <2>3
<1>5. CASE \E s \in Ship : Move(s)
  BY <1>1, <1>5 DEF Move, CapitalStands, Stands
<1>6. CASE \E r \in Race, s \in Ship : Capital(r, s)
  BY <1>1, <1>6 DEF Capital, CapitalStands, Stands
<1>7. CASE \E r \in Race, s \in Ship : Give(s, r)
  BY <1>1, <1>7 DEF Give, CapitalStands, Stands
<1>8. CASE \E r \in Race, s \in Ship : Capture(s, r)
  <2>1. PICK q \in Race, s \in Ship : Capture(s, q)
    BY <1>8
  <2>2. /\ owner' = owner \/ owner' = [owner EXCEPT ![s] = q]
        /\ refused' = FALSE /\ UNCHANGED <<place, capital, taxed>>
    BY <2>1 DEF Capture
  <2>3. CapitalStands'
    BY <1>1, <2>2 DEF CapitalStands, Stands
  <2> QED
    BY <1>1, <2>2, <2>3
<1>9. CASE \E s \in Ship : Destroy(s)
  <2>1. PICK s \in Ship : Destroy(s)
    BY <1>9
  <2>2. CASE Deletable(Forgotten(s), s)
    <3>1. /\ owner' = [owner EXCEPT ![s] = "wreck"]
          /\ place' = [place EXCEPT ![s] = "landed"]
          /\ capital' = Forgotten(s) /\ refused' = FALSE /\ taxed' = taxed
          /\ owner[s] \in Race
      BY <2>1, <2>2 DEF Destroy, Stands
    <3>2. capital' = [capital EXCEPT ![owner[s]] = IF capital[owner[s]] = s
                                                   THEN None ELSE capital[owner[s]]]
      BY <3>1 DEF Forgotten
    <3>3. \A r \in Race : capital'[r] # s
      BY <2>2, <3>1 DEF Deletable
    <3>4. \A r \in Race : capital'[r] # None => capital'[r] = capital[r]
      BY <1>1, <3>1, <3>2
    <3>5. CapitalStands'
      BY <1>1, <3>1, <3>3, <3>4 DEF CapitalStands, Stands
    <3> QED
      BY <1>1, <3>1, <3>2, <3>5
  <2>3. CASE ~Deletable(Forgotten(s), s)
    <3>1. UNCHANGED <<owner, place, capital, taxed>> /\ refused' = TRUE
      BY <2>1, <2>3 DEF Destroy
    <3> QED
      BY <1>1, <3>1 DEF CapitalStands, Stands
  <2> QED
    BY <2>2, <2>3
<1>10. CASE UNCHANGED vars
  BY <1>1, <1>10 DEF vars, CapitalStands, Stands
<1> QED
  BY <1>2, <1>3, <1>4, <1>5, <1>6, <1>7, <1>8, <1>9, <1>10 DEF Next

\* Which steps touch the points at all.
LEMMA PointsStep ==
  ASSUME IInv, [Next]_vars
  PROVE  \/ UNCHANGED points
         \/ Update
         \/ \E r \in Race : Allocate(r) \/ Bless(r)
         \/ \E r \in Race, n \in Nat : PaysInStar(r, n) \/ PaysInGalaxy(r, n)
<1>1. CapitalCost \in Nat /\ GiveCost \in Nat /\ 1 \in Nat
      /\ owner \in [Ship -> Race \cup {"unbuilt", "wreck"}]
  BY GovernanceAssumption DEF IInv, TypeOK
<1>2. CASE \E r \in Race : Spend(r)
  BY <1>1, <1>2 DEF Spend
<1>3. CASE \E r \in Race, s \in Ship : Capital(r, s) \/ Give(s, r) \/ Capture(s, r)
  BY <1>1, <1>3 DEF Capital, Give, Capture, Stands
<1>4. CASE \E s \in Ship : Move(s) \/ Destroy(s)
  BY <1>4 DEF Move, Destroy
<1>5. CASE \E r \in Race, s \in Ship : Build(r, s)
  BY <1>5 DEF Build
<1>6. CASE UNCHANGED vars
  BY <1>6 DEF vars, points
<1> QED
  BY <1>2, <1>3, <1>4, <1>5, <1>6 DEF Next

LEMMA InvStep ==
  ASSUME IInv, [Next]_vars
  PROVE  IInv'
<1>1. TypeOK
  BY DEF IInv
<1>2. star' \in [Race -> -Excess..(Limit + Excess)] /\ univ' \in [Race -> 0..Limit]
  <2>1. CASE UNCHANGED points
    BY <1>1, <2>1 DEF TypeOK, points
  <2>2. CASE Update
    BY <1>1, <2>2, UpdatePoints
  <2>3. CASE \E r \in Race : Allocate(r)
    <3>1. PICK r \in Race : Allocate(r)
      BY <2>3
    <3>2. PICK n \in Nat \ {0} :
            /\ star' = [star EXCEPT ![r] = star[r] + n] /\ star[r] + n <= Limit
            /\ univ' = [univ EXCEPT ![r] = univ[r] - n] /\ n <= univ[r]
      BY <1>1, <3>1, AllocateEffect
    <3>3. star[r] \in -Excess..(Limit + Excess) /\ univ[r] \in 0..Limit
      BY <1>1 DEF TypeOK
    <3>4. star[r] + n \in -Excess..(Limit + Excess) /\ univ[r] - n \in 0..Limit
      BY <3>2, <3>3, GovernanceAssumption
    <3> QED
      BY <1>1, <3>2, <3>4 DEF TypeOK
  <2>4. CASE \E r \in Race : Bless(r)
    BY <1>1, <2>4 DEF Bless, TypeOK
  <2>5. CASE \E r \in Race, n \in Nat : PaysInStar(r, n) \/ PaysInGalaxy(r, n)
    BY <1>1, <2>5, PaymentType
  <2> QED
    BY <2>1, <2>2, <2>3, <2>4, <2>5, PointsStep
<1> QED
  BY <1>2, ShipsStep DEF IInv, TypeOK

\* The variables keep their types, whatever a capital goes through.
THEOREM TypeCorrect == Spec => []TypeOK
<1>1. IInv /\ [Next]_vars => IInv'
  BY InvStep
<1>2. IInv => TypeOK
  BY DEF IInv
<1> QED
  BY InitInv, <1>1, <1>2, PTL DEF Spec

\* A race's capital is a ship that exists, however often it has changed hands:
\* kill_ship and the foreign key on Gov_ship together see to it.
THEOREM CapitalsStand == Spec => []CapitalStands
<1>1. IInv /\ [Next]_vars => IInv'
  BY InvStep
<1>2. IInv => CapitalStands
  BY DEF IInv
<1> QED
  BY InitInv, <1>1, <1>2, PTL DEF Spec

\* No order overdraws a race's points, in the star or the galaxy, no update and
\* no allocation takes them past the limit, whatever deities have done before:
\* only their own blessings and curses step outside.
THEOREM PointsStayInBounds == Spec => PointsInBounds
<1> DEFINE Within ==
      \/ \A r \in Race : /\ star'[r] < star[r] => star'[r] >= 0
                         /\ star'[r] > star[r] => star'[r] <= Limit
                         /\ univ'[r] \in 0..Limit
      \/ \E r \in Race : Bless(r)
<1>1. ASSUME IInv, [Next]_vars
      PROVE  [Within]_vars
  <2>1. /\ TypeOK /\ star \in [Race -> Int] /\ univ \in [Race -> 0..Limit]
        /\ Limit \in Nat
    BY <1>1, GovernanceAssumption DEF IInv, TypeOK
  <2>0. \A r \in Race : univ'[r] \in 0..Limit
    BY <1>1, InvStep DEF IInv, TypeOK
  <2>2. CASE UNCHANGED points
    BY <2>0, <2>1, <2>2 DEF points
  <2>3. CASE Update
    <3>1. \A r \in Race : star'[r] \in StarAfter(r)
      BY <2>1, <2>3, UpdatePoints
    <3>2. \A r \in Race : /\ star'[r] < star[r] => star'[r] >= 0
                          /\ star'[r] > star[r] => star'[r] <= Limit
                          /\ univ'[r] \in 0..Limit
      BY <2>0, <2>1, <3>1, StarAfterType, GovernanceAssumption
    <3> QED
      BY <3>2, Zenon
  <2>4. CASE \E r \in Race : Allocate(r)
    <3>1. PICK r \in Race : Allocate(r)
      BY <2>4
    <3>2. PICK n \in Nat \ {0} : /\ star' = [star EXCEPT ![r] = star[r] + n]
                                 /\ star[r] + n <= Limit
      BY <2>1, <3>1, AllocateEffect
    <3> QED
      BY <2>0, <2>1, <3>2
  <2>5. CASE \E r \in Race, n \in Nat : PaysInStar(r, n) \/ PaysInGalaxy(r, n)
    <3>1. \A q \in Race : star'[q] <= star[q] /\ (star'[q] < star[q] => star'[q] >= 0)
      BY <2>1, <2>5, PaymentType
    <3>2. star' \in [Race -> Int]
      BY <1>1, InvStep, GovernanceAssumption DEF IInv, TypeOK
    <3> QED
      BY <2>0, <2>1, <3>1, <3>2
  <2> QED
    BY <1>1, <2>2, <2>3, <2>4, <2>5, PointsStep
<1>2. IInv /\ [Next]_vars => IInv'
  BY InvStep
<1>3. IInv /\ [Next]_vars => [Within]_vars
  BY <1>1
<1> QED
  BY InitInv, <1>2, <1>3, PTL DEF Spec, PointsInBounds

\* A capital changes only by its race's own paid order for a ship it owns, or
\* by the death of that very ship.
THEOREM CapitalsAreChosen == Spec => CapitalIsChosen
<1> DEFINE Chosen ==
      \A r \in Race :
        capital'[r] # capital[r] =>
          \/ capital'[r] = None /\ owner'[capital[r]] = "wreck"
          \/ capital'[r] # None /\ owner[capital'[r]] = r /\ star'[r] < star[r]
<1>1. ASSUME IInv, [Next]_vars
      PROVE  [Chosen]_vars
  <2>1. /\ owner \in [Ship -> Race \cup {"unbuilt", "wreck"}]
        /\ capital \in [Race -> Ship \cup {None}] /\ star \in [Race -> Int]
        /\ None \notin Ship /\ CapitalCost \in Nat \ {0}
    BY <1>1, GovernanceAssumption DEF IInv, TypeOK
  <2>2. CASE UNCHANGED capital
    BY <2>2
  <2>3. CASE \E r \in Race, s \in Ship : Capital(r, s)
    <3>1. PICK r \in Race, s \in Ship : Capital(r, s)
      BY <2>3
    <3>2. /\ capital' = [capital EXCEPT ![r] = s] /\ owner[s] = r
          /\ star' = [star EXCEPT ![r] = star[r] - CapitalCost]
      BY <3>1 DEF Capital, PaysInStar
    <3> QED
      BY <2>1, <3>2
  <2>4. CASE \E s \in Ship : Destroy(s)
    <3>1. PICK s \in Ship : Destroy(s)
      BY <2>4
    <3>2. CASE UNCHANGED capital
      BY <3>2
    <3>3. CASE capital' = Forgotten(s) /\ owner' = [owner EXCEPT ![s] = "wreck"]
      <4>1. capital' = [capital EXCEPT ![owner[s]] = IF capital[owner[s]] = s
                                                     THEN None ELSE capital[owner[s]]]
        BY <3>3 DEF Forgotten
      <4>2. \A r \in Race : capital'[r] # capital[r] => capital[r] = s /\ capital'[r] = None
        BY <2>1, <4>1
      <4>3. owner'[s] = "wreck"
        BY <2>1, <3>3
      <4> QED
        BY <4>2, <4>3
    <3> QED
      BY <3>1, <3>2, <3>3 DEF Destroy
  <2>5. UNCHANGED capital
        \/ (\E r \in Race, s \in Ship : Capital(r, s)) \/ (\E s \in Ship : Destroy(s))
    BY <1>1 DEF Next, vars, Move, Build, Give, Capture, Allocate, Spend, Bless, Update
  <2> QED
    BY <2>2, <2>3, <2>4, <2>5
<1>2. IInv /\ [Next]_vars => IInv'
  BY InvStep
<1>3. IInv /\ [Next]_vars => [Chosen]_vars
  BY <1>1
<1> QED
  BY InitInv, <1>2, <1>3, PTL DEF Spec, CapitalIsChosen

\* allocate moves points from the galaxy to a star and loses none of them to
\* the limit; no other step does both.
THEOREM AllocationsConserve == Spec => AllocationConserves
<1> DEFINE Conserved ==
      \A r \in Race :
        univ'[r] < univ[r] /\ star'[r] # star[r] =>
          star'[r] + univ'[r] = star[r] + univ[r]
<1>1. ASSUME IInv, [Next]_vars
      PROVE  [Conserved]_vars
  <2>1. TypeOK /\ star \in [Race -> Int] /\ univ \in [Race -> Nat]
    BY <1>1, GovernanceAssumption DEF IInv, TypeOK
  <2>2. CASE UNCHANGED points
    BY <2>2 DEF points
  <2>3. CASE Update
    <3>1. \A r \in Race : univ'[r] \in Nat /\ univ'[r] >= univ[r]
      BY <2>1, <2>3, UpdatePoints, UnivAfterType, GovernanceAssumption
    <3> QED
      BY <2>1, <3>1
  <2>4. CASE \E r \in Race : Allocate(r)
    <3>1. PICK r \in Race : Allocate(r)
      BY <2>4
    <3>2. PICK n \in Nat \ {0} : /\ star' = [star EXCEPT ![r] = star[r] + n]
                                 /\ univ' = [univ EXCEPT ![r] = univ[r] - n]
      BY <2>1, <3>1, AllocateEffect
    <3> QED
      BY <2>1, <3>2
  <2>5. CASE \E r \in Race : Bless(r)
    BY <2>1, <2>5 DEF Bless
  <2>6. CASE \E r \in Race, n \in Nat : PaysInStar(r, n) \/ PaysInGalaxy(r, n)
    <3>1. star' = star \/ univ' = univ
      BY <2>1, <2>6, PaymentType
    <3> QED
      BY <2>1, <3>1
  <2> QED
    BY <1>1, <2>2, <2>3, <2>4, <2>5, <2>6, PointsStep
<1>2. IInv /\ [Next]_vars => IInv'
  BY InvStep
<1>3. IInv /\ [Next]_vars => [Conserved]_vars
  BY <1>1
<1> QED
  BY InitInv, <1>2, <1>3, PTL DEF Spec, AllocationConserves

-----------------------------------------------------------------------------
(* The victory clock *)

LEMMA ThresholdsArePositive == Threshold \in Nat \ {0} /\ TranslationThreshold \in Nat \ {0}
<1>1. \A n \in Int : AtLeastOne(n) \in Nat \ {0}
  BY DEF AtLeastOne
<1>2. (Planets * Percent) \div 100 \in Int /\ (Planets * Percent) \div 200 \in Int
  BY VictoryAssumption
<1> QED  BY <1>1, <1>2 DEF Threshold, TranslationThreshold

LEMMA VictoryInitInv == VictoryInit => VictoryCounts
BY VictoryAssumption DEF VictoryInit, VictoryCounts, VictoryTypeOK, ClockIsStreak, KnownIsEarned

\* An update counts what is held at it, and nothing from the segments before.
LEMMA UpdateCounts ==
  ASSUME VictoryCounts, VictoryUpdate
  PROVE  VictoryCounts'
<1>1. /\ held \in [Contender -> 0..Planets] /\ clock \in [Contender -> 0..MaxClock]
      /\ known \subseteq Contender /\ clock = streak /\ known = ascended
  BY DEF VictoryCounts, VictoryTypeOK, ClockIsStreak, KnownIsEarned
<1>2. /\ controlled' = [r \in Contender |-> held[r]]
      /\ clock' = [r \in Contender |-> IF controlled'[r] >= Threshold THEN clock[r] + 1 ELSE 0]
      /\ known' = known \cup {r \in Contender : controlled'[r] > 0
                                                /\ controlled'[r] >= TranslationThreshold}
      /\ winners' = Proclaimed(clock')
      /\ streak' = [r \in Contender |-> IF held[r] >= Threshold THEN streak[r] + 1 ELSE 0]
      /\ ascended' = ascended \cup {r \in Contender : held[r] >= TranslationThreshold}
      /\ held' = held /\ \A r \in Contender : clock[r] < MaxClock
  BY <1>1 DEF VictoryUpdate, Counted, Fresh, Progress, Unlocked
<1>3. \A r \in Contender : controlled'[r] = held[r]
  BY <1>2
<1>4. ClockIsStreak'
  BY <1>1, <1>2, <1>3 DEF ClockIsStreak
<1>5. KnownIsEarned'
  <2>1. \A r \in Contender : held[r] >= TranslationThreshold => held[r] > 0
    BY <1>1, ThresholdsArePositive
  <2> QED  BY <1>1, <1>2, <1>3, <2>1 DEF KnownIsEarned
<1>6. controlled' \in [Contender -> 0..MaxCount]
  BY <1>1, <1>2, VictoryAssumption
<1>7. clock' \in [Contender -> 0..MaxClock]
  BY <1>1, <1>2, VictoryAssumption
<1>8. known' \subseteq Contender /\ winners' \subseteq Contender
  BY <1>1, <1>2 DEF Proclaimed
<1> QED  BY <1>1, <1>2, <1>4, <1>5, <1>6, <1>7, <1>8 DEF VictoryCounts, VictoryTypeOK

\* A segment adds to the stored count, which the clock never reads.
LEMMA OtherTurnsCountNothing ==
  ASSUME VictoryCounts, VictorySegment \/ NogoUpdate \/ \E r \in Contender : Shift(r)
  PROVE  VictoryCounts'
<1>1. VictoryTypeOK /\ ClockIsStreak /\ KnownIsEarned
  BY DEF VictoryCounts
<1>2. UNCHANGED <<clock, known, streak, ascended>>
  BY DEF VictorySegment, NogoUpdate, Shift
<1>3. CASE VictorySegment
  <2>1. \A r \in Contender : controlled[r] + held[r] \in Nat
    BY <1>1 DEF VictoryTypeOK
  <2>2. controlled' \in [Contender -> 0..MaxCount]
    BY <1>3, <2>1, VictoryAssumption DEF VictorySegment, Counted
  <2> QED  BY <1>1, <1>2, <1>3, <2>2
           DEF VictorySegment, VictoryCounts, VictoryTypeOK, ClockIsStreak, KnownIsEarned
<1>4. CASE NogoUpdate
  BY <1>1, <1>4
  DEF NogoUpdate, Proclaimed, VictoryCounts, VictoryTypeOK, ClockIsStreak, KnownIsEarned
<1>5. CASE \E r \in Contender : Shift(r)
  BY <1>1, <1>5 DEF Shift, VictoryCounts, VictoryTypeOK, ClockIsStreak, KnownIsEarned
<1> QED  BY <1>3, <1>4, <1>5

\* The victory clock is the number of updates in a row at which the race held
\* the share of planets, and a language is known to all exactly if its race once
\* held half that share at an update: turns that only move ships, and updates
\* that a nogo file suppresses, count for nothing.
THEOREM VictoryIsWonInUpdates == VictorySpec => []VictoryCounts
<1>1. VictoryCounts /\ [VictoryNext]_victory_vars => VictoryCounts'
  <2> SUFFICES ASSUME VictoryCounts, [VictoryNext]_victory_vars PROVE VictoryCounts'
    OBVIOUS
  <2>1. CASE UNCHANGED victory_vars
    BY <2>1 DEF victory_vars, VictoryCounts, VictoryTypeOK, ClockIsStreak, KnownIsEarned
  <2> QED  BY <2>1, UpdateCounts, OtherTurnsCountNothing DEF VictoryNext
<1> QED  BY <1>1, VictoryInitInv, PTL DEF VictorySpec

-----------------------------------------------------------------------------
(* Power blocks *)

\* Nobody is invited or pledges who is not enrolled, and a race that is not
\* enrolled has counted no system: with these the books of the blocks are
\* inductive.
Listed(f, S) == \A r \in Party : f[r] \subseteq S
BlocksInv ==
  /\ BlocksCoherent
  /\ Listed(invited, enrolled) /\ Listed(pledged, enrolled)
  /\ \A r \in Party \ enrolled : block[r].systems = 0

Lists == [Party -> SUBSET Party]

LEMMA PartyParts ==
  ASSUME NEW S \in SUBSET Party
  PROVE  IsFiniteSet(S) /\ Cardinality(S) \in 0..Cardinality(Party)
<1>1. IsFiniteSet(S) /\ Cardinality(S) <= Cardinality(Party)
  BY CoalitionAssumption, FS_Subset
<1>2. Cardinality(S) \in Nat /\ Cardinality(Party) \in Nat
  BY <1>1, CoalitionAssumption, FS_CardinalityType
<1> QED  BY <1>1, <1>2

\* What compute_power_blocks stores, and what it leaves as it was.
LEMMA SummedFact ==
  ASSUME NEW b \in [Party -> Rows], NEW i \in Lists, NEW p \in Lists,
         Listed(i, enrolled), NEW rows \in [Party -> Nat], NEW n,
         n = Summed(b, i, p, rows)
  PROVE  /\ n \in [Party -> Rows]
         /\ \A r \in Party : n[r].systems = b[r].systems
         /\ \A r \in Party \cap enrolled :
              /\ n[r].members = Cardinality(Members(i, p, r))
              /\ n[r].popn = SumOf(rows, Members(i, p, r))
<1> SUFFICES ASSUME NEW r \in Party
             PROVE  /\ n[r] \in Rows /\ n[r].systems = b[r].systems
                    /\ r \in enrolled =>
                         /\ n[r].members = Cardinality(Members(i, p, r))
                         /\ n[r].popn = SumOf(rows, Members(i, p, r))
  <2>1. n = [r \in Party |-> IF r \notin enrolled THEN b[r]
                             ELSE Joined(b[r], Members(i, p, r) \cap enrolled, rows)]
    BY DEF Summed
  <2> QED  BY <2>1
<1> DEFINE who == Members(i, p, r)
<1>1. who \in SUBSET Party /\ who \cap enrolled = who
  BY DEF Lists, Members, Listed
<1>2. Cardinality(who) \in 0..Cardinality(Party) /\ SumOf(rows, who) \in Nat
  BY <1>1, PartyParts, SumIsNat
<1>3. n[r] = IF r \notin enrolled THEN b[r] ELSE Joined(b[r], who, rows)
  BY <1>1 DEF Summed
<1> HIDE DEF who
<1>4. b[r] \in Rows
  OBVIOUS
<1>5. Joined(b[r], who, rows) \in Rows
  BY <1>2, <1>4 DEF Joined, Rows
<1> QED  BY <1>3, <1>4, <1>5 DEF Joined, who

\* Whoever changes a list computes the sums anew.
LEMMA Recalculated ==
  ASSUME BlocksInv, UNCHANGED <<enrolled, settled, power, roster, peopled>>,
         up' \in BOOLEAN, invited' \in Lists, pledged' \in Lists,
         Listed(invited', enrolled), Listed(pledged', enrolled), FounderIsMember',
         block' = Summed(block, invited', pledged', power)
  PROVE  BlocksInv'
<1>1. /\ block \in [Party -> Rows] /\ power \in [Party -> Nat]
      /\ enrolled \subseteq Party /\ settled \in [System -> SUBSET Party]
  BY DEF BlocksInv, BlocksCoherent, CoalitionTypeOK
<1>2. /\ block' \in [Party -> Rows]
      /\ \A r \in Party : block'[r].systems = block[r].systems
      /\ \A r \in Party \cap enrolled :
           /\ block'[r].members = Cardinality(Members(invited', pledged', r))
           /\ block'[r].popn = SumOf(power, Members(invited', pledged', r))
  BY <1>1, SummedFact
<1>3. CoalitionTypeOK'
  BY <1>1, <1>2 DEF CoalitionTypeOK, Lists
<1>4. BlockBooks'
  BY <1>1, <1>2 DEF BlockBooks
<1>5. SystemsCountOnce'
  BY <1>2 DEF SystemsCountOnce, BlocksInv, BlocksCoherent
<1>6. \A r \in Party \ enrolled' : block'[r].systems = 0
  BY <1>2 DEF BlocksInv
<1> QED  BY <1>3, <1>4, <1>5, <1>6 DEF BlocksInv, BlocksCoherent

\* A leader adds another race to a list or takes it off one: he stays on both.
LEMMA OrdersKeepBlocks ==
  ASSUME BlocksInv, NEW r \in Party, NEW q \in Party,
         Invite(r, q) \/ Uninvite(r, q) \/ Pledge(r, q) \/ Unpledge(r, q)
  PROVE  BlocksInv'
<1>1. /\ invited \in Lists /\ pledged \in Lists /\ up \in BOOLEAN
      /\ Listed(invited, enrolled) /\ Listed(pledged, enrolled)
      /\ \A l \in enrolled : l \in invited[l] /\ l \in pledged[l]
      /\ up /\ r \in enrolled /\ q \in enrolled /\ r # q /\ enrolled \subseteq Party
  BY DEF BlocksInv, BlocksCoherent, CoalitionTypeOK, FounderIsMember, Members, Lists,
         Invite, Uninvite, Pledge, Unpledge, Addresses
<1>2. /\ UNCHANGED <<enrolled, up, settled, power, roster, peopled>>
      /\ block' = Summed(block, invited', pledged', power)
  BY DEF Invite, Uninvite, Pledge, Unpledge, Quiet, Recomputed
<1> DEFINE Kept(f, g) == g \in Lists /\ Listed(g, enrolled)
                         /\ \A l \in enrolled : l \in f[l] => l \in g[l]
<1>3. \A f \in Lists, l \in Party, k \in enrolled :
        Listed(f, enrolled) =>
          /\ Kept(f, [f EXCEPT ![l] = @ \cup {k}])
          /\ l # k => Kept(f, [f EXCEPT ![l] = @ \ {k}])
  BY <1>1 DEF Lists, Listed
<1>4. Kept(invited, invited') /\ Kept(pledged, pledged')
  <2>1. Kept(invited, invited) /\ Kept(pledged, pledged)
    BY <1>1
  <2> HIDE DEF Kept
  <2>2. CASE Invite(r, q)
    BY <1>1, <1>3, <2>1, <2>2 DEF Invite
  <2>3. CASE Uninvite(r, q)
    BY <1>1, <1>3, <2>1, <2>3 DEF Uninvite
  <2>4. CASE Pledge(r, q)
    BY <1>1, <1>3, <2>1, <2>4 DEF Pledge
  <2>5. CASE Unpledge(r, q)
    BY <1>1, <1>3, <2>1, <2>5 DEF Unpledge
  <2> QED  BY <2>2, <2>3, <2>4, <2>5
<1>5. FounderIsMember'
  BY <1>1, <1>2, <1>4 DEF FounderIsMember, Members
<1> QED  BY <1>1, <1>2, <1>4, <1>5, Recalculated

\* The start of the server makes every founder a member of his block.
LEMMA StartKeepsBlocks == ASSUME BlocksInv, StartServer PROVE BlocksInv'
<1>1. /\ invited \in Lists /\ pledged \in Lists /\ enrolled \subseteq Party
      /\ Listed(invited, enrolled) /\ Listed(pledged, enrolled)
  BY DEF BlocksInv, BlocksCoherent, CoalitionTypeOK, Lists
<1>2. \A f \in Lists : Listed(f, enrolled) =>
        /\ Founded(f) \in Lists /\ Listed(Founded(f), enrolled)
        /\ \A r \in enrolled : r \in Founded(f)[r]
  BY <1>1 DEF Founded, Lists, Listed
<1>3. /\ invited' \in Lists /\ Listed(invited', enrolled)
      /\ pledged' \in Lists /\ Listed(pledged', enrolled)
      /\ \A r \in enrolled : r \in Members(invited', pledged', r)
  BY <1>1, <1>2 DEF StartServer, Members
<1>4. /\ UNCHANGED <<enrolled, settled, power, roster, peopled>> /\ up' = TRUE
      /\ block' = Summed(block, invited', pledged', power)
  BY DEF StartServer
<1>5. FounderIsMember'
  BY <1>3, <1>4 DEF FounderIsMember
<1> QED  BY <1>3, <1>4, <1>5, Recalculated

\* Without a server, or between updates, the books are not read or do not change.
LEMMA QuietKeepsBlocks ==
  ASSUME BlocksInv,
         StopServer \/ (\E r \in Party : EnrolParty(r))
           \/ \E r \in Party, s \in System : Spread(r, s)
  PROVE  BlocksInv'
<1>1. /\ CoalitionTypeOK /\ BlockBooks /\ FounderIsMember /\ SystemsCountOnce
      /\ Listed(invited, enrolled) /\ Listed(pledged, enrolled)
      /\ \A r \in Party \ enrolled : block[r].systems = 0
  BY DEF BlocksInv, BlocksCoherent
<1>2. UNCHANGED <<invited, pledged, power, block, roster, peopled>> /\ enrolled \subseteq enrolled'
      /\ enrolled' \subseteq Party /\ settled' \in [System -> SUBSET Party]
      /\ up' \in BOOLEAN /\ (up' => up /\ enrolled' = enrolled)
  <2>1. CASE StopServer
    BY <1>1, <2>1 DEF StopServer, CoalitionTypeOK
  <2>2. CASE \E r \in Party : EnrolParty(r)
    BY <1>1, <2>2 DEF EnrolParty, CoalitionTypeOK
  <2>3. CASE \E r \in Party, s \in System : Spread(r, s)
    BY <1>1, <2>3 DEF Spread, CoalitionTypeOK
  <2> QED  BY <2>1, <2>2, <2>3
<1>3. CoalitionTypeOK' /\ SystemsCountOnce'
  BY <1>1, <1>2 DEF CoalitionTypeOK, SystemsCountOnce
<1>4. BlockBooks' /\ FounderIsMember'
  BY <1>1, <1>2 DEF BlockBooks, FounderIsMember
<1>5. Listed(invited', enrolled') /\ Listed(pledged', enrolled')
  BY <1>1, <1>2 DEF Listed
<1> QED  BY <1>1, <1>2, <1>3, <1>4, <1>5 DEF BlocksInv, BlocksCoherent

\* Systems owned by blocks without a common member are different ones.
LEMMA OwnedApart ==
  ASSUME CoalitionTypeOK, NEW r \in Party, NEW q \in Party,
         Members(invited, pledged, r) \cap Members(invited, pledged, q) = {}
  PROVE  Cardinality(OwnedSystems(r)) + Cardinality(OwnedSystems(q)) <= Cardinality(Inhabited)
<1>1. /\ OwnedSystems(r) \subseteq Inhabited /\ OwnedSystems(q) \subseteq Inhabited
      /\ OwnedSystems(r) \cap OwnedSystems(q) = {}
  BY DEF OwnedSystems, Inhabited
<1>2. IsFiniteSet(Inhabited)
  BY CoalitionAssumption, FS_Subset DEF Inhabited
<1>3. /\ IsFiniteSet(OwnedSystems(r)) /\ IsFiniteSet(OwnedSystems(q))
      /\ IsFiniteSet(OwnedSystems(r) \cup OwnedSystems(q))
  BY <1>1, <1>2, FS_Subset, FS_Union
<1>4. Cardinality(OwnedSystems(r) \cup OwnedSystems(q))
        = Cardinality(OwnedSystems(r)) + Cardinality(OwnedSystems(q)) - Cardinality({})
  BY <1>1, <1>3, FS_Union
<1>5. Cardinality(OwnedSystems(r) \cup OwnedSystems(q)) <= Cardinality(Inhabited)
  BY <1>1, <1>2, FS_Subset
<1>6. Cardinality(OwnedSystems(r)) \in Nat /\ Cardinality(OwnedSystems(q)) \in Nat
  BY <1>3, FS_CardinalityType
<1> QED  BY <1>4, <1>5, <1>6, FS_EmptySet

\* An update counts the systems anew, then the members by the new power rows.
LEMMA UpdateKeepsBlocks == ASSUME BlocksInv, UpdateBlocks PROVE BlocksInv'
<1>1. /\ CoalitionTypeOK /\ FounderIsMember /\ enrolled \subseteq Party
      /\ invited \in Lists /\ pledged \in Lists
      /\ Listed(invited, enrolled) /\ Listed(pledged, enrolled)
      /\ block \in [Party -> Rows] /\ power \in [Party -> Nat]
      /\ \A r \in Party \ enrolled : block[r].systems = 0
  BY DEF BlocksInv, BlocksCoherent, CoalitionTypeOK, Lists
<1>2. /\ UNCHANGED <<enrolled, up, invited, pledged>> /\ up
      /\ settled' \in [System -> SUBSET Party]
      /\ power' = PowerOf(settled')
      /\ block' = Summed(Recounted(block), invited, pledged, power')
      /\ roster' = [r \in Party |-> Members(invited, pledged, r)]
      /\ peopled' = Cardinality(Inhabited)
  BY DEF UpdateBlocks
<1>3. \A S \in SUBSET System :
        /\ IsFiniteSet(S) /\ Cardinality(S) \in 0..Cardinality(System)
  <2> SUFFICES ASSUME NEW S \in SUBSET System
               PROVE  IsFiniteSet(S) /\ Cardinality(S) \in 0..Cardinality(System)
    OBVIOUS
  <2>1. IsFiniteSet(S) /\ Cardinality(S) <= Cardinality(System)
    BY CoalitionAssumption, FS_Subset
  <2> QED  BY <2>1, CoalitionAssumption, FS_CardinalityType
<1>4. power' \in [Party -> Nat]
  <2>1. \A r \in Party : Cardinality({s \in System : r \in settled'[s]}) \in Nat
    BY <1>3
  <2> QED  BY <1>1, <1>2, <2>1 DEF PowerOf
<1>5. \A r \in Party : /\ Cardinality(OwnedSystems(r)) \in 0..Cardinality(System)
                       /\ OwnedSystems(r) \subseteq Inhabited /\ Inhabited \subseteq System
  BY <1>3 DEF OwnedSystems, Inhabited
<1>6. /\ Recounted(block) \in [Party -> Rows]
      /\ \A r \in Party : Recounted(block)[r].systems =
           IF r \in enrolled THEN Cardinality(OwnedSystems(r)) ELSE 0
  <2>1. \A x \in Rows, n \in 0..Cardinality(System) :
          Scored(x, n) \in Rows /\ Scored(x, n).systems = n
    BY CoalitionAssumption, FS_CardinalityType DEF Scored, Rows
  <2> QED  BY <1>1, <1>5, <2>1 DEF Recounted
<1>7. /\ block' \in [Party -> Rows]
      /\ \A r \in Party : block'[r].systems = Recounted(block)[r].systems
      /\ \A r \in Party \cap enrolled :
           /\ block'[r].members = Cardinality(Members(invited, pledged, r))
           /\ block'[r].popn = SumOf(power', Members(invited, pledged, r))
  BY <1>1, <1>2, <1>4, <1>6, SummedFact
<1>8. SystemsCountOnce'
  <2> SUFFICES ASSUME NEW r \in Party, NEW q \in Party,
                      Members(invited, pledged, r) \cap Members(invited, pledged, q) = {}
               PROVE  block'[r].systems + block'[q].systems <= Cardinality(Inhabited)
    BY <1>2 DEF SystemsCountOnce
  <2>1. Cardinality(OwnedSystems(r)) + Cardinality(OwnedSystems(q)) <= Cardinality(Inhabited)
    BY <1>1, OwnedApart
  <2>2. /\ Cardinality(OwnedSystems(r)) \in Nat /\ Cardinality(OwnedSystems(q)) \in Nat
        /\ Cardinality(Inhabited) \in Nat
    BY <1>3, <1>5
  <2> QED  BY <1>6, <1>7, <2>1, <2>2
<1>9. CoalitionTypeOK'
  BY <1>1, <1>2, <1>4, <1>7 DEF CoalitionTypeOK
<1>10. BlockBooks' /\ FounderIsMember'
  BY <1>1, <1>2, <1>7 DEF BlockBooks, FounderIsMember
<1>11. \A r \in Party \ enrolled' : block'[r].systems = 0
  BY <1>2, <1>6, <1>7
<1> QED  BY <1>1, <1>2, <1>8, <1>9, <1>10, <1>11 DEF BlocksInv, BlocksCoherent

LEMMA BlocksInit == CoalitionInit => BlocksInv
<1> SUFFICES ASSUME CoalitionInit PROVE BlocksInv
  OBVIOUS
<1>1. Cardinality(Party) \in Nat /\ Cardinality(System) \in Nat
  BY CoalitionAssumption, FS_CardinalityType
<1>2. [members |-> 0, popn |-> 0, systems |-> 0, vps |-> 0] \in Rows
  BY <1>1 DEF Rows
<1>3. CoalitionTypeOK
  BY <1>2 DEF CoalitionInit, CoalitionTypeOK
<1>4. \A r \in Party : block[r].systems = 0
  BY DEF CoalitionInit
<1>5. BlockBooks /\ FounderIsMember /\ SystemsCountOnce
  BY <1>4 DEF CoalitionInit, BlockBooks, FounderIsMember, SystemsCountOnce
<1> QED  BY <1>3, <1>4, <1>5 DEF CoalitionInit, BlocksInv, BlocksCoherent, Listed

\* A block's stored sums are those of its members of the moment, its founder is
\* one of them, and two blocks without a common member never count the same
\* system, whatever the leaders invite, pledge and take back around an update.
THEOREM BlocksAreTheirMembers == CoalitionSpec => []BlocksCoherent
<1>1. BlocksInv /\ [CoalitionNext]_coalition_vars => BlocksInv'
  <2> SUFFICES ASSUME BlocksInv, [CoalitionNext]_coalition_vars PROVE BlocksInv'
    OBVIOUS
  <2>1. CASE UNCHANGED coalition_vars
    BY <2>1 DEF coalition_vars, BlocksInv, BlocksCoherent, CoalitionTypeOK, BlockBooks,
                FounderIsMember, SystemsCountOnce
  <2>2. CASE CoalitionNext
    BY <2>2, OrdersKeepBlocks, StartKeepsBlocks, QuietKeepsBlocks, UpdateKeepsBlocks
    DEF CoalitionNext
  <2> QED  BY <2>1, <2>2
<1>2. BlocksInv => BlocksCoherent
  BY DEF BlocksInv
<1> QED  BY <1>1, <1>2, BlocksInit, PTL DEF CoalitionSpec

-----------------------------------------------------------------------------
(* Stockpiles *)

Pile == [Kinds -> Nat]
Piles == [Empires -> Pile]
Stored(p, k) == SumOf([r \in Empires |-> p[r][k]], Empires)

\* Goods are accounted for kind by kind; the histories are part of the invariant.
Balanced(p, g, y) == \A k \in Kinds : Stored(p, k) + g[k] = y[k]
SpoilsInv ==
  /\ SpoilsTypeOK /\ gone \in Pile /\ yielded \in Pile
  /\ Balanced(stock, gone, yielded)

LEMMA BalancedIsAccounted ==
  ASSUME yielded \in Pile
  PROVE  Balanced(stock, gone, yielded) <=> GoodsAccounted
<1>1. Plus(SumOver(stock, Empires), gone) = [k \in Kinds |-> Stored(stock, k) + gone[k]]
  BY DEF Plus, SumOver, Stored
<1> QED  BY <1>1 DEF Balanced, GoodsAccounted, Pile

LEMMA RacesAreFinite ==
  ASSUME NEW R \in SUBSET Empires
  PROVE  IsFiniteSet(R) /\ \A r \in R : r \in Nat
BY SpoilsAssumption, FS_Subset

LEMMA StoredIsNat ==
  ASSUME NEW p \in Piles, NEW k \in Kinds
  PROVE  Stored(p, k) \in Nat
<1> DEFINE f == [r \in Empires |-> p[r][k]]
<1>1. IsFiniteSet(Empires) /\ \A r \in Empires : f[r] \in Nat
  BY SpoilsAssumption DEF Piles, Pile
<1> HIDE DEF f
<1>2. SumOf(f, Empires) \in Nat
  BY <1>1, SumIsNat
<1> QED  BY <1>2 DEF f, Stored

\* One stockpile changes.
LEMMA PileChange ==
  ASSUME NEW p \in Piles, NEW q \in Piles, NEW a \in Empires,
         \A r \in Empires \ {a} : q[r] = p[r], NEW k \in Kinds
  PROVE  Stored(q, k) = Stored(p, k) - p[a][k] + q[a][k]
<1> DEFINE f == [r \in Empires |-> p[r][k]]
           g == [r \in Empires |-> q[r][k]]
<1>1. /\ IsFiniteSet(Empires) /\ f[a] = p[a][k] /\ g[a] = q[a][k]
      /\ \A r \in Empires : f[r] \in Int /\ g[r] \in Int
      /\ \A r \in Empires \ {a} : g[r] = f[r]
  BY SpoilsAssumption DEF Piles, Pile
<1> HIDE DEF f, g
<1>2. SumOf(g, Empires) = SumOf(f, Empires) - f[a] + g[a]
  BY <1>1, SumChange
<1> QED  BY <1>1, <1>2 DEF f, g, Stored

\* What some of the races get adds up to what is given.
LEMMA PilesGrow ==
  ASSUME NEW p \in Piles, NEW q \in Piles, NEW R \in SUBSET Empires, NEW k \in Kinds,
         NEW w \in [R -> Nat],
         \A r \in Empires : q[r][k] = p[r][k] + (IF r \in R THEN w[r] ELSE 0)
  PROVE  Stored(q, k) = Stored(p, k) + SumOf(w, R)
<1> DEFINE f == [r \in Empires |-> p[r][k]]
           h == [r \in Empires |-> q[r][k]]
           g == [r \in Empires |-> IF r \in R THEN w[r] ELSE 0]
<1>1. IsFiniteSet(Empires) /\ IsFiniteSet(R)
  BY RacesAreFinite
<1>2. /\ \A r \in Empires : f[r] \in Int /\ g[r] \in Int /\ h[r] = f[r] + g[r]
      /\ \A r \in R : g[r] \in Int /\ w[r] = g[r]
      /\ \A r \in Empires \ R : g[r] = 0
  BY DEF Piles, Pile
<1> HIDE DEF f, g, h
<1>3. SumOf(h, Empires) = SumOf(f, Empires) + SumOf(g, Empires)
  BY <1>1, <1>2, SumPlus
<1>4. SumOf(g, R) = SumOf(g, Empires)
  BY <1>1, <1>2, SumOverSupport
<1>5. SumOf(w, R) = SumOf(g, R)
  BY <1>1, <1>2, SumCongruence
<1> QED  BY <1>3, <1>4, <1>5 DEF f, h, Stored

LEMMA CollectedIsPile ==
  ASSUME NEW f \in Piles, NEW R \in SUBSET Empires
  PROVE  SumOver(f, R) \in Pile
<1> SUFFICES ASSUME NEW k \in Kinds PROVE SumOver(f, R)[k] \in Nat
  BY DEF SumOver, Pile
<1> DEFINE g == [r \in R |-> f[r][k]]
<1>1. \A r \in R : g[r] \in Nat
  BY DEF Piles, Pile
<1> HIDE DEF g
<1>2. SumOf(g, R) \in Nat
  BY <1>1, RacesAreFinite, SumIsNat
<1> QED  BY <1>2 DEF SumOver, g

-----------------------------------------------------------------------------
(* Plunder *)

\* Of several races one has the highest number.
LEMMA OneIsLast ==
  ASSUME NEW heirs \in SUBSET Empires, heirs # {}
  PROVE  \E r \in heirs : Last(heirs, r)
<1> DEFINE G == {T \in SUBSET heirs : T # {} => \E r \in T : Last(T, r)}
<1>1. IsFiniteSet(heirs) /\ heirs \subseteq Nat
  BY RacesAreFinite
<1>2. ASSUME NEW T \in SUBSET heirs, \A U \in SUBSET T : U # T => U \in G
      PROVE  T \in G
  <2> SUFFICES ASSUME NEW a \in T PROVE \E r \in T : Last(T, r)
    OBVIOUS
  <2>1. T \ {a} \in G
    BY <1>2
  <2>2. CASE T \ {a} = {}
    BY <1>1, <2>2 DEF Last
  <2>3. CASE T \ {a} # {}
    <3>1. PICK b \in T \ {a} : Last(T \ {a}, b)
      BY <2>1, <2>3
    <3>2. \A q \in T : q \in Nat /\ (q # a => q <= b)
      BY <1>1, <3>1 DEF Last
    <3>3. CASE a <= b
      BY <3>2, <3>3 DEF Last
    <3>4. CASE ~(a <= b)
      BY <3>2, <3>4 DEF Last
    <3> QED  BY <3>3, <3>4
  <2> QED  BY <2>2, <2>3
<1> HIDE DEF G
<1>3. \A T \in SUBSET heirs : T \in G
  BY <1>1, <1>2, SubsetInduction
<1>4. heirs \in G
  BY <1>3
<1> QED  BY <1>4 DEF G

\* The shares of a loot add up to it, however they were rounded: the last takes
\* what is left.
LEMMA SharesAddUp ==
  ASSUME NEW n \in Nat, NEW heirs \in SUBSET Empires, heirs # {}, NEW w \in Shares(n, heirs)
  PROVE  w \in [heirs -> Nat] /\ SumOf(w, heirs) = n
<1>1. w \in [heirs -> 0..n]
  BY DEF Shares
<1>2. PICK r \in heirs : Last(heirs, r)
  BY OneIsLast
<1>3. w[r] = Left(n, w, heirs, r)
  BY <1>2 DEF Shares
<1>4. {q \in heirs : q < r} = heirs \ {r}
  <2>1. \A q \in heirs : q \in Nat /\ q <= r
    BY <1>2, RacesAreFinite DEF Last
  <2>2. \A q \in heirs : q < r <=> q # r
    BY <1>2, <2>1
  <2> QED  BY <2>2
<1>5. IsFiniteSet(heirs) /\ \A q \in heirs : w[q] \in Int
  BY <1>1, RacesAreFinite
<1>6. SumOf(w, heirs) = w[r] + SumOf(w, heirs \ {r})
  BY <1>2, <1>5, SumTake
<1>7. IsFiniteSet(heirs \ {r}) /\ SumOf(w, heirs \ {r}) \in Int
  BY <1>5, FS_Subset, SumIsInt
<1>8. w[r] = n - SumOf(w, heirs \ {r})
  BY <1>3, <1>4 DEF Left
<1>9. w \in [heirs -> Nat]
  BY <1>1
<1> QED  BY <1>6, <1>7, <1>8, <1>9

\* What plunder does to the stockpiles.
Plunder(piles, lords) ==
  /\ piles \in Piles
  /\ \A k \in Kinds : Stored(piles, k) = Stored(stock, k)
  /\ \A r \in Empires, k \in Kinds :
       piles[r][k] < stock[r][k] => r \notin lords /\ MutuallyAllied(lords)

LEMMA DistributionKeeps ==
  ASSUME stock \in Piles, NEW lords \in SUBSET Empires, MutuallyAllied(lords), NEW share,
         \A k \in Kinds : /\ share[k] \in [lords -> Nat]
                          /\ SumOf(share[k], lords) = SumOver(stock, Empires \ lords)[k]
  PROVE  Plunder(Distributed(share, lords), lords)
<1> DEFINE piles == Distributed(share, lords)
<1>1. \A r \in Empires, k \in Kinds :
        /\ stock[r][k] \in Nat
        /\ piles[r][k] = IF r \in lords THEN stock[r][k] + share[k][r] ELSE 0
  BY DEF Distributed, Plus, Nothing, Piles, Pile
<1>2. \A r \in lords, k \in Kinds : share[k][r] \in Nat
  OBVIOUS
<1>3. piles \in Piles
  <2>1. \A r \in Empires : piles[r] \in Pile
    <3> TAKE r \in Empires
    <3>1. CASE r \in lords
      BY <1>2, <3>1 DEF Distributed, Plus, Piles, Pile
    <3>2. CASE r \notin lords
      BY <3>2 DEF Distributed, Nothing, Pile
    <3> QED  BY <3>1, <3>2
  <2> QED  BY <2>1 DEF Distributed, Piles
<1> HIDE DEF piles
<1>4. ASSUME NEW k \in Kinds PROVE Stored(piles, k) = Stored(stock, k)
  <2> DEFINE poor == Empires \ lords
             d == [r \in poor |-> stock[r][k]]
             mid == [r \in Empires |-> [piles[r] EXCEPT ![k] =
                                          stock[r][k] + (IF r \in lords THEN share[k][r] ELSE 0)]]
  <2>1. mid \in Piles /\ \A r \in Empires :
          mid[r][k] = stock[r][k] + (IF r \in lords THEN share[k][r] ELSE 0)
    BY <1>1, <1>2, <1>3 DEF Piles, Pile
  <2>2. \A r \in Empires : mid[r][k] = piles[r][k] + (IF r \in poor THEN d[r] ELSE 0)
    BY <1>1, <1>2, <1>3, <2>1 DEF Piles, Pile
  <2>3. d \in [poor -> Nat] /\ poor \in SUBSET Empires
    BY <1>1
  <2>4. SumOf(d, poor) = SumOver(stock, poor)[k]
    BY DEF SumOver
  <2> HIDE DEF mid, d
  <2>5. Stored(mid, k) = Stored(stock, k) + SumOf(share[k], lords)
    BY <2>1, PilesGrow
  <2>6. Stored(mid, k) = Stored(piles, k) + SumOf(d, poor)
    BY <1>3, <2>1, <2>2, <2>3, PilesGrow
  <2>7. Stored(piles, k) \in Nat /\ Stored(stock, k) \in Nat
    BY <1>3, StoredIsNat
  <2>8. SumOf(d, poor) \in Nat
    BY <2>3, <2>4, CollectedIsPile DEF Pile
  <2> QED  BY <2>4, <2>5, <2>6, <2>7, <2>8
<1>5. \A r \in Empires, k \in Kinds : piles[r][k] < stock[r][k] => r \notin lords
  BY <1>1, <1>2
<1> QED  BY <1>3, <1>4, <1>5 DEF Plunder, piles

LEMMA PlunderKeeps ==
  ASSUME stock \in Piles, NEW lords \in SUBSET Empires, NEW piles \in Plundered(lords)
  PROVE  Plunder(piles, lords)
<1> DEFINE loot == SumOver(stock, Empires \ lords)
<1>1. loot["goods"] \in Nat /\ loot["crystals"] \in Nat
  BY CollectedIsPile DEF Pile, Kinds
<1>2. CASE piles = stock
  <2>1. \A r \in Empires, k \in Kinds : ~(stock[r][k] < stock[r][k])
    BY DEF Piles, Pile
  <2> QED  BY <1>2, <2>1 DEF Plunder
<1>3. CASE piles # stock
  <2>1. MutuallyAllied(lords) /\ lords # {}
    BY <1>3 DEF Plundered
  <2> DEFINE Both(v, w) == [k \in Kinds |-> IF k = "goods" THEN v ELSE w]
  <2>2. PICK v \in Shares(loot["goods"], lords), w \in Shares(loot["crystals"], lords) :
          piles = Distributed(Both(v, w), lords)
    <3>1. Plundered(lords) =
            IF ~MutuallyAllied(lords) \/ lords = {} \/ loot = Nothing THEN {stock}
            ELSE {Distributed(Both(v, w), lords) :
                    v \in Shares(loot["goods"], lords), w \in Shares(loot["crystals"], lords)}
      BY DEF Plundered
    <3> HIDE DEF Both, loot
    <3>2. piles \in {Distributed(Both(v, w), lords) :
                    v \in Shares(loot["goods"], lords), w \in Shares(loot["crystals"], lords)}
      BY <1>3, <3>1
    <3> QED  BY <3>2
  <2> DEFINE share == Both(v, w)
  <2>3. /\ v \in [lords -> Nat] /\ SumOf(v, lords) = loot["goods"]
        /\ w \in [lords -> Nat] /\ SumOf(w, lords) = loot["crystals"]
    BY <1>1, <2>1, SharesAddUp
  <2>4. \A k \in Kinds : share[k] \in [lords -> Nat] /\ SumOf(share[k], lords) = loot[k]
    BY <2>3 DEF Kinds
  <2> HIDE DEF share
  <2>5. Plunder(Distributed(share, lords), lords)
    BY <2>1, <2>4, DistributionKeeps
  <2> QED  BY <2>2, <2>5 DEF share
<1> QED  BY <1>2, <1>3

-----------------------------------------------------------------------------
(* Production and tribute *)

LEMMA YieldIsPiles == ASSUME NEW made \in Yield PROVE made \in Piles
<1>1. Nothing \in Pile /\ \A k \in Kinds : [Nothing EXCEPT ![k] = 1] \in Pile
  BY DEF Nothing, Pile
<1> QED  BY <1>1 DEF Yield, Piles

\* q is p and what these owners made; nobody lost by it.
PilesFed(q, p, made, owners) ==
  /\ q \in Piles
  /\ \A r \in Empires, k \in Kinds : q[r][k] >= p[r][k]
  /\ \A k \in Kinds : Stored(q, k) = Stored(p, k) + SumOver(made, owners)[k]

\* What owners of sectors produced is deposited; nobody loses by it.
LEMMA DepositsAddUp ==
  ASSUME NEW p \in Piles, NEW made \in Piles, NEW owners \in SUBSET Empires, NEW q,
         q = Deposited(p, made, owners)
  PROVE  PilesFed(q, p, made, owners)
<1>1. \A r \in Empires : q[r] = IF r \in owners THEN Plus(p[r], made[r]) ELSE p[r]
  BY DEF Deposited
<1>2. \A r \in Empires, k \in Kinds :
        /\ p[r][k] \in Nat /\ made[r][k] \in Nat
        /\ q[r][k] = p[r][k] + (IF r \in owners THEN made[r][k] ELSE 0)
  <2> TAKE r \in Empires, k \in Kinds
  <2>1. p[r][k] \in Nat /\ made[r][k] \in Nat
    BY DEF Piles, Pile
  <2>2. q[r][k] = IF r \in owners THEN p[r][k] + made[r][k] ELSE p[r][k]
    BY <1>1 DEF Plus
  <2> QED  BY <2>1, <2>2
<1>3. q \in Piles
  <2>1. \A r \in Empires : Plus(p[r], made[r]) \in Pile /\ p[r] \in Pile
    BY DEF Plus, Piles, Pile
  <2> QED  BY <2>1 DEF Deposited, Piles
<1>4. ASSUME NEW k \in Kinds
      PROVE  Stored(q, k) = Stored(p, k) + SumOver(made, owners)[k]
  <2> DEFINE w == [r \in owners |-> made[r][k]]
  <2>1. w \in [owners -> Nat]
    BY <1>2
  <2>2. \A r \in Empires : q[r][k] = p[r][k] + (IF r \in owners THEN w[r] ELSE 0)
    BY <1>2
  <2>3. SumOver(made, owners)[k] = SumOf(w, owners)
    BY DEF SumOver
  <2> HIDE DEF w
  <2> QED  BY <1>3, <2>1, <2>2, <2>3, PilesGrow
<1>5. \A r \in Empires, k \in Kinds : q[r][k] >= p[r][k]
  BY <1>2
<1> QED  BY <1>3, <1>4, <1>5 DEF PilesFed

\* The master's tribute and what the slaves keep are what they produced.
LEMMA TributeAddsUp ==
  ASSUME NEW p \in Piles, NEW made \in Piles, NEW owners \in SUBSET Empires,
         slavedTo \in owners, NEW q, q = Diverted(p, made, owners)
  PROVE  PilesFed(q, p, made, owners)
<1> DEFINE t == Tribute(made, owners)
           own == KeptBySlaves(made, owners)
           mid == [p EXCEPT ![slavedTo] = Plus(p[slavedTo], t)]
<1>1. t \in Pile
  <2>1. SumOver(made, owners)["goods"] \in Nat
    BY CollectedIsPile DEF Pile, Kinds
  <2> QED  BY <2>1 DEF Tribute, Pile, Kinds
<1>2. t["goods"] = SumOver(made, owners)["goods"] /\ t["crystals"] = 0
  BY DEF Tribute
<1>3. own \in Piles /\ \A r \in owners : own[r]["goods"] = 0
                                         /\ own[r]["crystals"] = made[r]["crystals"]
  BY DEF KeptBySlaves, Piles, Pile, Kinds
<1>4. q = Deposited(mid, own, owners)
  BY DEF Diverted
<1>5. Plus(p[slavedTo], t) \in Pile
      /\ \A k \in Kinds : Plus(p[slavedTo], t)[k] = p[slavedTo][k] + t[k]
  BY <1>1 DEF Plus, Piles, Pile
<1>6. mid \in Piles /\ \A r \in Empires \ {slavedTo} : mid[r] = p[r]
  BY <1>5 DEF Piles
<1>7. mid[slavedTo] = Plus(p[slavedTo], t) /\ slavedTo \in Empires
  BY DEF Piles
<1> HIDE DEF t, own, mid
<1>8. /\ q \in Piles
      /\ \A r \in Empires, k \in Kinds : q[r][k] >= mid[r][k]
      /\ \A k \in Kinds : Stored(q, k) = Stored(mid, k) + SumOver(own, owners)[k]
  <2>1. PilesFed(q, mid, own, owners)
    BY <1>3, <1>4, <1>6, DepositsAddUp
  <2> QED  BY <2>1 DEF PilesFed
<1>9. \A r \in Empires, k \in Kinds :
        /\ mid[r][k] >= p[r][k] /\ mid[r][k] \in Nat /\ p[r][k] \in Nat /\ q[r][k] \in Nat
  <2> TAKE r \in Empires, k \in Kinds
  <2>1. mid[r][k] \in Nat /\ p[r][k] \in Nat /\ q[r][k] \in Nat /\ t[k] \in Nat
    BY <1>1, <1>6, <1>8 DEF Piles, Pile
  <2>2. mid[r][k] = IF r = slavedTo THEN p[r][k] + t[k] ELSE p[r][k]
    BY <1>5, <1>6, <1>7
  <2> QED  BY <2>1, <2>2
<1>10. \A k \in Kinds : Stored(mid, k) = Stored(p, k) + t[k]
  <2> TAKE k \in Kinds
  <2>1. Stored(mid, k) = Stored(p, k) - p[slavedTo][k] + mid[slavedTo][k]
    BY <1>6, <1>7, PileChange
  <2>2. Stored(p, k) \in Nat /\ t[k] \in Nat /\ p[slavedTo][k] \in Nat
    BY <1>1, <1>7, <1>9, StoredIsNat DEF Pile
  <2> QED  BY <1>5, <1>7, <2>1, <2>2
<1>11. \A k \in Kinds : t[k] + SumOver(own, owners)[k] = SumOver(made, owners)[k]
  <2>1. SumOver(own, owners)["goods"] = 0
    <3> DEFINE f == [r \in owners |-> own[r]["goods"]]
    <3>1. \A r \in owners : f[r] = 0
      BY <1>3
    <3> HIDE DEF f
    <3>2. SumOf(f, owners) = 0
      BY <3>1, RacesAreFinite, SumOfNothing
    <3> QED  BY <3>2 DEF f, SumOver, Kinds
  <2>2. SumOver(own, owners)["crystals"] = SumOver(made, owners)["crystals"]
    <3>1. [r \in owners |-> own[r]["crystals"]] = [r \in owners |-> made[r]["crystals"]]
      BY <1>3
    <3> QED  BY <3>1 DEF SumOver, Kinds
  <2>3. SumOver(made, owners)["goods"] \in Nat /\ SumOver(made, owners)["crystals"] \in Nat
    BY CollectedIsPile DEF Pile, Kinds
  <2> QED  BY <1>2, <2>1, <2>2, <2>3 DEF Kinds
<1>12. \A k \in Kinds : Stored(q, k) = Stored(p, k) + SumOver(made, owners)[k]
  <2> TAKE k \in Kinds
  <2>1. Stored(p, k) \in Nat /\ t[k] \in Nat /\ SumOver(own, owners)[k] \in Nat
    BY <1>1, <1>3, StoredIsNat, CollectedIsPile DEF Pile
  <2> QED  BY <1>8, <1>10, <1>11, <2>1
<1>13. \A r \in Empires, k \in Kinds : q[r][k] >= p[r][k]
  BY <1>8, <1>9
<1> QED  BY <1>8, <1>12, <1>13 DEF PilesFed

-----------------------------------------------------------------------------
(* Steps *)

\* An update of the planet, seen from its stockpiles.
LEMMA UpdatePiles ==
  ASSUME SpoilsInv, UpdatePlanet
  PROVE  /\ stock' \in Piles /\ yielded' \in Pile /\ ground' \subseteq Empires
         /\ slavedTo' \in Empires \cup {NoMaster} /\ UNCHANGED <<allied, foes, gone>>
         /\ Balanced(stock', gone', yielded')
         /\ \A r \in Empires, k \in Kinds : stock'[r][k] < stock[r][k] =>
              r \notin ground' /\ MutuallyAllied(ground')
<1>1. PICK lords \in SUBSET ground : \E piles \in Plundered(lords), made \in Yield :
        \E owners \in SUBSET lords :
          /\ ground' = owners
          /\ yielded' = Plus(yielded, SumOver(made, owners))
          /\ \/ stock' = Deposited(piles, made, owners) /\ slavedTo' = NoMaster
             \/ /\ slavedTo \in owners
                /\ stock' = Diverted(piles, made, owners) /\ slavedTo' = slavedTo
          /\ UNCHANGED <<allied, foes, gone>>
  BY Zenon DEF UpdatePlanet
<1>2. PICK piles \in Plundered(lords), made \in Yield, owners \in SUBSET lords :
          /\ ground' = owners
          /\ yielded' = Plus(yielded, SumOver(made, owners))
          /\ \/ stock' = Deposited(piles, made, owners) /\ slavedTo' = NoMaster
             \/ /\ slavedTo \in owners
                /\ stock' = Diverted(piles, made, owners) /\ slavedTo' = slavedTo
          /\ UNCHANGED <<allied, foes, gone>>
  BY <1>1
<1>3. /\ stock \in Piles /\ gone \in Pile /\ yielded \in Pile
      /\ ground \subseteq Empires /\ slavedTo \in Empires \cup {NoMaster}
      /\ Balanced(stock, gone, yielded)
  BY DEF SpoilsInv, SpoilsTypeOK, Piles, Pile
<1>4. lords \in SUBSET Empires /\ owners \in SUBSET Empires /\ owners \subseteq lords
  BY <1>3
<1>5. made \in Piles
  BY YieldIsPiles
<1>6. Plunder(piles, lords)
  BY <1>3, <1>4, PlunderKeeps
<1>7. piles \in Piles
  BY <1>6 DEF Plunder
<1>8. /\ stock' \in Piles
      /\ \A r \in Empires, k \in Kinds : stock'[r][k] >= piles[r][k]
      /\ \A k \in Kinds : Stored(stock', k) = Stored(piles, k) + SumOver(made, owners)[k]
  <2>1. owners \in SUBSET Empires
    BY <1>4
  <2>2. PilesFed(Deposited(piles, made, owners), piles, made, owners)
    BY <1>5, <1>7, <2>1, DepositsAddUp
  <2>3. CASE slavedTo \in owners /\ stock' = Diverted(piles, made, owners)
    <3>1. PilesFed(stock', piles, made, owners)
      BY <1>5, <1>7, <2>1, <2>3, TributeAddsUp
    <3> QED BY <3>1 DEF PilesFed
  <2>4. CASE stock' = Deposited(piles, made, owners)
    BY <2>2, <2>4 DEF PilesFed
  <2> QED  BY <1>2, <2>3, <2>4
<1>9. SumOver(made, owners) \in Pile
  BY <1>4, <1>5, CollectedIsPile
<1>10. yielded' \in Pile /\ \A k \in Kinds : yielded'[k] = yielded[k] + SumOver(made, owners)[k]
  BY <1>2, <1>3, <1>9 DEF Plus, Pile
<1>11. Balanced(stock', gone', yielded')
  <2> SUFFICES ASSUME NEW k \in Kinds PROVE Stored(stock', k) + gone'[k] = yielded'[k]
    BY DEF Balanced
  <2>1. Stored(piles, k) = Stored(stock, k) /\ Stored(stock, k) + gone[k] = yielded[k]
    BY <1>3, <1>6 DEF Plunder, Balanced
  <2>2. /\ Stored(stock, k) \in Nat /\ SumOver(made, owners)[k] \in Nat
        /\ gone[k] \in Nat /\ gone'[k] = gone[k]
    BY <1>2, <1>3, <1>9, StoredIsNat DEF Pile
  <2> QED  BY <1>8, <1>10, <2>1, <2>2
<1>12. \A r \in Empires, k \in Kinds : stock'[r][k] < stock[r][k] =>
         r \notin owners /\ MutuallyAllied(owners)
  <2> TAKE r \in Empires, k \in Kinds
  <2>1. stock'[r][k] \in Nat /\ stock[r][k] \in Nat /\ piles[r][k] \in Nat
    BY <1>3, <1>7, <1>8 DEF Piles, Pile
  <2>2. stock'[r][k] < stock[r][k] => piles[r][k] < stock[r][k]
    BY <1>8, <2>1
  <2> QED  BY <1>4, <1>6, <2>2 DEF Plunder, MutuallyAllied
<1> QED  BY <1>2, <1>3, <1>4, <1>8, <1>10, <1>11, <1>12

LEMMA UseKeeps ==
  ASSUME SpoilsInv, NEW r \in Empires, NEW k \in Kinds, Use(r, k)
  PROVE  SpoilsInv' /\ ~UNCHANGED gone
<1>1. /\ stock \in Piles /\ gone \in Pile /\ yielded \in Pile
      /\ Balanced(stock, gone, yielded) /\ SpoilsTypeOK
  BY DEF SpoilsInv, SpoilsTypeOK, Piles, Pile
<1>2. /\ stock[r][k] > 0
      /\ stock' = [stock EXCEPT ![r] = [stock[r] EXCEPT ![k] = stock[r][k] - 1]]
      /\ gone' = [gone EXCEPT ![k] = gone[k] + 1]
      /\ UNCHANGED <<allied, foes, ground, slavedTo, yielded>>
  BY <1>1 DEF Use
<1>3. stock[r][k] \in Nat /\ gone[k] \in Nat /\ stock[r] \in Pile
  BY <1>1 DEF Piles, Pile
<1>4. [stock[r] EXCEPT ![k] = stock[r][k] - 1] \in Pile
  BY <1>2, <1>3 DEF Pile
<1>5. stock' \in Piles /\ stock'[r] = [stock[r] EXCEPT ![k] = stock[r][k] - 1]
      /\ \A q \in Empires \ {r} : stock'[q] = stock[q]
  BY <1>1, <1>2, <1>4 DEF Piles
<1>6. gone' \in Pile /\ gone'[k] = gone[k] + 1 /\ \A l \in Kinds \ {k} : gone'[l] = gone[l]
  BY <1>1, <1>2, <1>3 DEF Pile
<1>7. Balanced(stock', gone', yielded')
  <2> SUFFICES ASSUME NEW l \in Kinds PROVE Stored(stock', l) + gone'[l] = yielded[l]
    BY <1>2 DEF Balanced
  <2>1. Stored(stock', l) = Stored(stock, l) - stock[r][l] + stock'[r][l]
    <3>1. stock \in Piles /\ stock' \in Piles /\ \A q \in Empires \ {r} : stock'[q] = stock[q]
      BY <1>1, <1>5
    <3> QED  BY <3>1, PileChange
  <2>2. /\ stock[r][l] \in Nat /\ gone[l] \in Nat /\ Stored(stock, l) \in Nat
        /\ Stored(stock, l) + gone[l] = yielded[l]
        /\ stock'[r][l] = IF l = k THEN stock[r][l] - 1 ELSE stock[r][l]
    BY <1>1, <1>3, <1>5, StoredIsNat DEF Balanced, Pile
  <2> QED  BY <1>6, <2>1, <2>2
<1>8. SpoilsTypeOK'
  BY <1>1, <1>2, <1>5 DEF SpoilsTypeOK, Piles, Pile
<1> QED  BY <1>1, <1>2, <1>3, <1>6, <1>7, <1>8 DEF SpoilsInv

\* A race that dissolves wastes its stockpile; if that was empty nobody loses.
LEMMA DissolveKeeps ==
  ASSUME SpoilsInv, NEW r \in Empires, Dissolve(r)
  PROVE  /\ SpoilsInv'
         /\ gone' = gone => \A q \in Empires, k \in Kinds : ~(stock'[q][k] < stock[q][k])
<1>1. /\ stock \in Piles /\ gone \in Pile /\ yielded \in Pile
      /\ Balanced(stock, gone, yielded) /\ SpoilsTypeOK
  BY DEF SpoilsInv, SpoilsTypeOK, Piles, Pile
<1>2. /\ ground' = ground \ {r} /\ UNCHANGED <<allied, foes, slavedTo, yielded>>
      /\ stock' = [stock EXCEPT ![r] = Nothing] /\ gone' = Plus(gone, stock[r])
  BY DEF Dissolve
<1>3. stock' \in Piles /\ \A q \in Empires \ {r} : stock'[q] = stock[q]
  BY <1>1, <1>2 DEF Piles, Pile, Nothing
<1>4. \A k \in Kinds : /\ stock[r][k] \in Nat /\ gone[k] \in Nat /\ stock'[r][k] = 0
                       /\ gone'[k] = gone[k] + stock[r][k]
  BY <1>1, <1>2 DEF Piles, Pile, Nothing, Plus
<1>5. gone' \in Pile
  BY <1>1, <1>2, <1>4 DEF Pile, Plus
<1>6. Balanced(stock', gone', yielded')
  <2> SUFFICES ASSUME NEW l \in Kinds PROVE Stored(stock', l) + gone'[l] = yielded[l]
    BY <1>2 DEF Balanced
  <2>1. Stored(stock', l) = Stored(stock, l) - stock[r][l] + stock'[r][l]
    <3>1. stock \in Piles
      BY <1>1
    <3> QED  BY <1>3, <3>1, PileChange
  <2>2. Stored(stock, l) \in Nat /\ Stored(stock, l) + gone[l] = yielded[l]
    BY <1>1, StoredIsNat DEF Balanced
  <2> QED  BY <1>4, <2>1, <2>2
<1>7. SpoilsTypeOK'
  BY <1>1, <1>2, <1>3 DEF SpoilsTypeOK, Piles, Pile
<1>8. gone' = gone => \A q \in Empires, k \in Kinds : ~(stock'[q][k] < stock[q][k])
  <2>1. \A q \in Empires, k \in Kinds : stock[q][k] \in Nat
    BY <1>1 DEF Piles, Pile
  <2> QED  BY <1>3, <1>4, <2>1
<1> QED  BY <1>1, <1>2, <1>5, <1>6, <1>7, <1>8 DEF SpoilsInv

\* The other steps move no goods.
LEMMA PolicyKeeps ==
  ASSUME SpoilsInv,
         (\E r, q \in Empires : Declare(r, q))
           \/ (\E r \in Empires : Conquest(r) \/ Enslave(r)) \/ UNCHANGED spoils_vars
  PROVE  SpoilsInv' /\ UNCHANGED stock
<1>1. SpoilsTypeOK /\ gone \in Pile /\ yielded \in Pile /\ Balanced(stock, gone, yielded)
  BY DEF SpoilsInv
<1>2. UNCHANGED <<stock, gone, yielded>>
  BY DEF Declare, Conquest, Enslave, spoils_vars
<1>3. SpoilsTypeOK'
  <2>1. CASE \E r, q \in Empires : Declare(r, q)
    <3>1. PICK r \in Empires, q \in Empires : Declare(r, q)
      BY <2>1
    <3>2. PICK say \in Stance :
            /\ allied' = [allied EXCEPT ![r] = IF say = "alliance" THEN allied[r] \cup {q}
                                               ELSE allied[r] \ {q}]
            /\ foes' = [foes EXCEPT ![r] = IF say = "war" THEN foes[r] \cup {q}
                                           ELSE foes[r] \ {q}]
      BY <3>1 DEF Declare
    <3>3. /\ allied' \in [Empires -> SUBSET Empires] /\ foes' \in [Empires -> SUBSET Empires]
          /\ \A p \in Empires : allied'[p] \cap foes'[p] = {}
      BY <1>1, <3>2 DEF SpoilsTypeOK
    <3>4. UNCHANGED <<ground, stock, slavedTo>>
      BY <3>1 DEF Declare
    <3> QED  BY <1>1, <3>3, <3>4 DEF SpoilsTypeOK
  <2>2. CASE \E r \in Empires : Conquest(r) \/ Enslave(r)
    BY <1>1, <2>2 DEF SpoilsTypeOK, Conquest, Enslave
  <2>3. CASE UNCHANGED spoils_vars
    BY <1>1, <2>3 DEF SpoilsTypeOK, spoils_vars
  <2> QED  BY <2>1, <2>2, <2>3
<1> QED  BY <1>1, <1>2, <1>3 DEF SpoilsInv

LEMMA SpoilsInitInv == SpoilsInit => SpoilsInv
<1> SUFFICES ASSUME SpoilsInit PROVE SpoilsInv
  OBVIOUS
<1>1. Nothing \in Pile
  BY DEF Nothing, Pile
<1>2. SpoilsTypeOK /\ gone \in Pile /\ yielded \in Pile
  BY <1>1 DEF SpoilsInit, SpoilsTypeOK, Pile
<1>3. ASSUME NEW k \in Kinds PROVE Stored(stock, k) + gone[k] = yielded[k]
  <2> DEFINE f == [r \in Empires |-> stock[r][k]]
  <2>1. IsFiniteSet(Empires) /\ \A r \in Empires : f[r] = 0
    BY SpoilsAssumption DEF SpoilsInit, Nothing
  <2> HIDE DEF f
  <2>2. SumOf(f, Empires) = 0
    BY <2>1, SumOfNothing
  <2>3. gone[k] = 0 /\ yielded[k] = 0
    BY DEF SpoilsInit, Nothing
  <2> QED  BY <2>2, <2>3 DEF f, Stored
<1> QED  BY <1>2, <1>3 DEF SpoilsInv, Balanced

\* Who may lose goods without using them, and to whom.
LawfulStep ==
  UNCHANGED gone =>
    \A r \in Empires :
      (\E k \in Kinds : stock'[r][k] < stock[r][k]) =>
        /\ r \notin ground'
        /\ \A p, q \in ground' : p = q \/ q \in allied[p]

LEMMA SpoilsStep ==
  ASSUME SpoilsInv, [SpoilsNext]_spoils_vars
  PROVE  SpoilsInv' /\ LawfulStep
<1>1. CASE UpdatePlanet
  <2>1. /\ stock' \in Piles /\ yielded' \in Pile /\ ground' \subseteq Empires
        /\ slavedTo' \in Empires \cup {NoMaster} /\ UNCHANGED <<allied, foes, gone>>
        /\ Balanced(stock', gone', yielded')
        /\ \A r \in Empires, k \in Kinds : stock'[r][k] < stock[r][k] =>
             r \notin ground' /\ MutuallyAllied(ground')
    BY <1>1, UpdatePiles
  <2>2. SpoilsInv'
    BY <2>1 DEF SpoilsInv, SpoilsTypeOK, Piles, Pile
  <2>3. LawfulStep
    BY <2>1 DEF LawfulStep, MutuallyAllied
  <2> QED  BY <2>2, <2>3
<1>2. CASE \E r \in Empires, k \in Kinds : Use(r, k)
  BY <1>2, UseKeeps DEF LawfulStep
<1>3. CASE \E r \in Empires : Dissolve(r)
  BY <1>3, DissolveKeeps DEF LawfulStep
<1>4. CASE \/ \E r, q \in Empires : Declare(r, q)
           \/ \E r \in Empires : Conquest(r) \/ Enslave(r)
           \/ UNCHANGED spoils_vars
  <2>1. SpoilsInv' /\ stock' = stock
    BY <1>4, PolicyKeeps
  <2>2. \A r \in Empires, k \in Kinds : ~(stock[r][k] < stock[r][k])
    BY DEF SpoilsInv, SpoilsTypeOK
  <2> QED  BY <2>1, <2>2 DEF LawfulStep
<1> QED  BY <1>1, <1>2, <1>3, <1>4 DEF SpoilsNext

\* Plunder and tribute make nothing and lose nothing, however the loot is
\* rounded and split; and a stockpile only shrinks in an update if its holder
\* has no sector left there, to races that are allied to each other both ways.
THEOREM SpoilsGoByRight == SpoilsSpec => SpoilsAccounted
<1>1. SpoilsInv /\ [SpoilsNext]_spoils_vars => SpoilsInv'
  BY SpoilsStep
<1>2. SpoilsInv /\ [SpoilsNext]_spoils_vars =>
        [UNCHANGED gone =>
           \A r \in Empires :
             (\E k \in Kinds : stock'[r][k] < stock[r][k]) =>
               /\ r \notin ground'
               /\ \A p, q \in ground' : p = q \/ q \in allied[p]]_spoils_vars
  BY SpoilsStep DEF LawfulStep
<1>3. SpoilsInv => SpoilsTypeOK /\ GoodsAccounted
  BY BalancedIsAccounted DEF SpoilsInv
<1> QED  BY <1>1, <1>2, <1>3, SpoilsInitInv, PTL
         DEF SpoilsSpec, SpoilsAccounted, PlunderIsLawful

-----------------------------------------------------------------------------
(* Commands: their notices and their price *)


Notice == [to : People, kind : {"alert", "talk", "turn"}, fate : Fates]
Sent == People \X DOMAIN notices

\* Notices are numbered as they are sent, and messages carry those numbers.
Messaging ==
  /\ notices \in Seq(Notice) /\ Len(notices) <= MaxNotices
  /\ tele \subseteq Sent /\ savedTele \subseteq Sent
  /\ buffer \subseteq Sent /\ seen \subseteq Sent /\ dropped \subseteq Sent
  /\ outbox \in Seq(Sent)

\* The transaction and the outbox are open in the phases that need them.
Phasing ==
  /\ phase \in {"idle", "handler", "flushing", "prompt", "turn"}
  /\ actor \in People \cup {NoOne}
  /\ phase \in {"handler", "flushing"} => actor \in People
  /\ txn \in BOOLEAN /\ (txn <=> phase = "handler")
  /\ inTurn \in BOOLEAN /\ (inTurn <=> phase = "turn")
  /\ outboxOn \in BOOLEAN /\ (outboxOn <=> phase \in {"handler", "flushing"})
  /\ ~outboxOn => outbox = <<>>
  /\ race \in {"null", "live", "dangling"}
  /\ online \subseteq People
  /\ crashes \in 0..MaxCrashes

\* Only what the running handler spent is between the two tables.
Charging ==
  /\ ap \in [Races -> 0..StartAP] /\ savedAp \in [Races -> 0..StartAP]
  /\ paid \in [Races -> 0..StartAP] /\ spent \in 0..StartAP
  /\ cost \in Costs \cup {0}
  /\ phase # "handler" => spent = 0
  /\ phase = "handler" => cost <= ap[Leader[actor]]
  /\ APAccounted

\* An open notice belongs to the command or the turn that is running.
Opened ==
  \A i \in DOMAIN notices :
    notices[i].fate = "open" => /\ phase \in {"handler", "turn"}
                                /\ phase = "turn" <=> notices[i].kind = "turn"

\* What is staged waits for its command's fate, and for somebody who is there.
Staged ==
  \A j \in DOMAIN outbox :
    /\ outbox[j][1] \in online
    /\ notices[outbox[j][2]].kind # "turn"
    /\ phase = "handler" => notices[outbox[j][2]].fate = "open"
    /\ phase = "flushing" => notices[outbox[j][2]].fate = "committed"

\* The telegrams of a command that runs wait for its fate too.
Telegrams ==
  /\ savedTele \subseteq tele
  /\ ~txn => tele = savedTele
  /\ \A m \in tele :
       notices[m[2]].kind # "turn" => notices[m[2]].fate \in {"open", "committed"}

\* An alert of the running command is staged or a telegram.
AlertPending ==
  \A i \in DOMAIN notices :
    notices[i].kind = "alert" /\ notices[i].fate = "open" =>
      \/ <<notices[i].to, i>> \in tele
      \/ \E p \in {notices[i].to, Leader[notices[i].to]} :
           \E j \in DOMAIN outbox : outbox[j] = <<p, i>>

DispatchInv ==
  /\ Messaging /\ Phasing /\ Charging /\ Opened /\ Staged /\ Telegrams
  /\ NoPhantomNotice /\ AlertPending /\ AlertAccounted

-----------------------------------------------------------------------------
(* Sequences and notices *)

\* A sequence stays one when its elements gain company.
LEMMA WiderSeq ==
  ASSUME NEW S, NEW T, S \subseteq T, NEW s \in Seq(S)
  PROVE  s \in Seq(T)
<1>1. \A j \in 1..Len(s) : s[j] \in T  OBVIOUS
<1>2. s = [j \in 1..Len(s) |-> s[j]] /\ Len(s) \in Nat  OBVIOUS
<1> QED  BY <1>1, <1>2

\* A longer outbox holds what it held and the message staged.
LEMMA Appended ==
  ASSUME NEW S, NEW T, S \subseteq T, NEW s \in Seq(S), NEW m \in T, NEW t,
         t = Append(s, m)
  PROVE  /\ t \in Seq(T)
         /\ \A j \in DOMAIN t : \/ j \in DOMAIN s /\ t[j] = s[j]
                               \/ t[j] = m
         /\ \A j \in DOMAIN s : j \in DOMAIN t /\ t[j] = s[j]
<1>1. s \in Seq(T)  OBVIOUS
<1>2. t \in Seq(T) /\ Len(t) = Len(s) + 1 /\ t[Len(t)] = m
  BY <1>1
<1>3. \A j \in 1..Len(s) : t[j] = s[j]
  BY <1>1
<1>4. DOMAIN t = 1..(Len(s) + 1) /\ DOMAIN s = 1..Len(s) /\ Len(s) \in Nat
  BY <1>1, <1>2
<1> QED  BY <1>2, <1>3, <1>4

\* Every message carries the number of a notice.
LEMMA Numbered ==
  ASSUME Messaging
  PROVE  /\ \A m \in buffer \cup seen \cup dropped \cup tele \cup savedTele :
              m[2] \in DOMAIN notices
         /\ \A j \in DOMAIN outbox : /\ outbox[j][1] \in People
                                     /\ outbox[j][2] \in DOMAIN notices
BY DEF Messaging, Sent

\* A notice sent takes the next number, and leaves the others alone.
LEMMA AppendFact ==
  ASSUME DispatchAssumption, Messaging, NEW n \in Notice, NextId \in Ids,
         notices' = Append(notices, n)
  PROVE  /\ notices' \in Seq(Notice) /\ Len(notices') <= MaxNotices
         /\ DOMAIN notices' = DOMAIN notices \cup {NextId}
         /\ NextId \notin DOMAIN notices
         /\ \A i \in DOMAIN notices : notices'[i] = notices[i]
         /\ notices'[NextId] = n
  BY DEF Messaging, NextId, Ids

\* Settling changes the fate of the open notices only.
LEMMA SettleFact ==
  ASSUME Messaging, NEW fate \in Fates, notices' = Settle(fate)
  PROVE  /\ notices' \in Seq(Notice) /\ Len(notices') <= MaxNotices
         /\ DOMAIN notices' = DOMAIN notices
         /\ \A i \in DOMAIN notices :
              /\ notices'[i].to = notices[i].to
              /\ notices'[i].kind = notices[i].kind
              /\ notices'[i].fate =
                   IF notices[i].fate = "open" THEN fate ELSE notices[i].fate
<1>1. /\ notices \in Seq(Notice) /\ DOMAIN notices = 1..Len(notices)
      /\ Len(notices) \in Nat
  BY DEF Messaging
<1>2. ASSUME NEW i \in DOMAIN notices
      PROVE  /\ notices'[i] \in Notice
             /\ notices'[i].to = notices[i].to
             /\ notices'[i].kind = notices[i].kind
             /\ notices'[i].fate =
                  IF notices[i].fate = "open" THEN fate ELSE notices[i].fate
  <2>1. notices[i] \in Notice  BY <1>1
  <2> QED  BY <2>1 DEF Settle, Notice
<1>3. notices' = [i \in 1..Len(notices) |-> notices'[i]]
  BY <1>1 DEF Settle
<1>4. notices' \in Seq(Notice)
  BY <1>1, <1>2, <1>3
<1> QED  BY <1>1, <1>2, <1>3, <1>4 DEF Messaging

-----------------------------------------------------------------------------
(* One lemma per action *)

LEMMA RefuseStep ==
  ASSUME NEW p \in People, NEW c \in Costs, DispatchAssumption, DispatchInv, Refuse(p, c)
  PROVE  DispatchInv'
<1>1. Messaging'
  BY DEF DispatchInv, Messaging, Sent, Refuse, output, tables, history
<1>2. Phasing'
  BY DEF DispatchInv, Phasing, Refuse, output, history
<1>3. Charging'
  BY DEF DispatchInv, Charging, APAccounted, Running, Refuse, tables, history
<1>4. Opened'
  BY DEF DispatchInv, Opened, Refuse, history
<1>5. Staged'
  BY DEF DispatchInv, Staged, Refuse, output, history
<1>6. Telegrams'
  BY DEF DispatchInv, Telegrams, Refuse, tables, history
<1>7. NoPhantomNotice'
  BY DEF DispatchInv, NoPhantomNotice, Refuse, output, tables, history
<1>8. AlertPending'
  BY DEF DispatchInv, AlertPending, Refuse, output, tables, history
<1>9. AlertAccounted'
  BY DEF DispatchInv, AlertAccounted, Refuse, output, tables, history
<1> QED  BY <1>1, <1>2, <1>3, <1>4, <1>5, <1>6, <1>7, <1>8, <1>9 DEF DispatchInv

LEMMA PromptStep ==
  ASSUME DispatchAssumption, DispatchInv, Prompt
  PROVE  DispatchInv'
<1>1. Messaging'
  BY DEF DispatchInv, Messaging, Sent, Prompt, output, tables, history
<1>2. Phasing'
  BY DEF DispatchInv, Phasing, Prompt, output, history
<1>3. Charging'
  BY DEF DispatchInv, Charging, APAccounted, Running, Prompt, tables, history
<1>4. Opened'
  BY DEF DispatchInv, Opened, Prompt, history
<1>5. Staged'
  BY DEF DispatchInv, Staged, Prompt, output, history
<1>6. Telegrams'
  BY DEF DispatchInv, Telegrams, Prompt, tables, history
<1>7. NoPhantomNotice'
  BY DEF DispatchInv, NoPhantomNotice, Prompt, output, tables, history
<1>8. AlertPending'
  BY DEF DispatchInv, AlertPending, Prompt, output, tables, history
<1>9. AlertAccounted'
  BY DEF DispatchInv, AlertAccounted, Prompt, output, tables, history
<1> QED  BY <1>1, <1>2, <1>3, <1>4, <1>5, <1>6, <1>7, <1>8, <1>9 DEF DispatchInv

LEMMA StartTurnStep ==
  ASSUME DispatchAssumption, DispatchInv, StartTurn
  PROVE  DispatchInv'
<1>1. Messaging'
  BY DEF DispatchInv, Messaging, Sent, StartTurn, output, tables, history
<1>2. Phasing'
  BY DEF DispatchInv, Phasing, StartTurn, output, history
<1>3. Charging'
  BY DEF DispatchInv, Charging, APAccounted, Running, StartTurn, tables, history
<1>4. Opened'
  BY DEF DispatchInv, Opened, StartTurn, history
<1>5. Staged'
  BY DEF DispatchInv, Staged, StartTurn, output, history
<1>6. Telegrams'
  BY DEF DispatchInv, Telegrams, StartTurn, tables, history
<1>7. NoPhantomNotice'
  BY DEF DispatchInv, NoPhantomNotice, StartTurn, output, tables, history
<1>8. AlertPending'
  BY DEF DispatchInv, AlertPending, StartTurn, output, tables, history
<1>9. AlertAccounted'
  BY DEF DispatchInv, AlertAccounted, StartTurn, output, tables, history
<1> QED  BY <1>1, <1>2, <1>3, <1>4, <1>5, <1>6, <1>7, <1>8, <1>9 DEF DispatchInv

LEMMA StartStep ==
  ASSUME NEW p \in People, NEW c \in Costs, DispatchAssumption, DispatchInv, Start(p, c)
  PROVE  DispatchInv'
<1>1. Messaging'
  BY DEF DispatchInv, Messaging, Sent, Start, tables, history
<1>2. Phasing'
  BY DEF DispatchInv, Phasing, Start, history
<1>3. Charging'
  BY DEF DispatchInv, Charging, APAccounted, Running, CannotPay, Races, Start, tables, history
<1>4. Opened'
  BY DEF DispatchInv, Opened, Start, history
<1>5. Staged'
  BY DEF Staged, Start
<1>6. Telegrams'
  BY DEF DispatchInv, Telegrams, Start, tables, history
<1>7. NoPhantomNotice'
  BY DEF DispatchInv, NoPhantomNotice, Start, tables, history
<1>8. AlertPending'
  BY DEF DispatchInv, AlertPending, Phasing, Start, tables, history
<1>9. AlertAccounted'
  BY DEF DispatchInv, AlertAccounted, Start, tables, history
<1> QED  BY <1>1, <1>2, <1>3, <1>4, <1>5, <1>6, <1>7, <1>8, <1>9 DEF DispatchInv

LEMMA ConnectStep ==
  ASSUME NEW p \in People, DispatchAssumption, DispatchInv, Connect(p)
  PROVE  DispatchInv'
<1>1. Messaging'
  BY DEF DispatchInv, Messaging, Sent, Connect, output, tables, history
<1>2. Phasing'
  BY DEF DispatchInv, Phasing, Connect, memory, output, history
<1>3. Charging'
  BY DEF DispatchInv, Charging, APAccounted, Running, Connect, memory, tables, history
<1>4. Opened'
  BY DEF DispatchInv, Opened, Connect, history
<1>5. Staged'
  BY DEF DispatchInv, Staged, Connect, memory, output, history
<1>6. Telegrams'
  BY DEF DispatchInv, Telegrams, Connect, memory, tables, history
<1>7. NoPhantomNotice'
  BY DEF DispatchInv, NoPhantomNotice, Connect, output, tables, history
<1>8. AlertPending'
  BY DEF DispatchInv, AlertPending, Connect, output, tables, history
<1>9. AlertAccounted'
  BY DEF DispatchInv, AlertAccounted, Connect, output, tables, history
<1> QED  BY <1>1, <1>2, <1>3, <1>4, <1>5, <1>6, <1>7, <1>8, <1>9 DEF DispatchInv

LEMMA WriteStep ==
  ASSUME NEW p \in People, DispatchAssumption, DispatchInv, Write(p)
  PROVE  DispatchInv'
<1>1. Messaging'
  BY DEF DispatchInv, Messaging, Sent, Write, tables, history, Mine
<1>2. Phasing'
  BY DEF DispatchInv, Phasing, Write, memory, history
<1>3. Charging'
  BY DEF DispatchInv, Charging, APAccounted, Running, Write, memory, tables, history
<1>4. Opened'
  BY DEF DispatchInv, Opened, Write, history
<1>5. Staged'
  BY DEF DispatchInv, Staged, Write, memory, history
<1>6. Telegrams'
  BY DEF DispatchInv, Telegrams, Write, memory, tables, history
<1>7. NoPhantomNotice'
  BY DEF DispatchInv, NoPhantomNotice, Write, tables, history, Mine
<1>8. AlertPending'
  BY DEF DispatchInv, AlertPending, Write, tables, history
<1>9. AlertAccounted'
  BY DEF DispatchInv, AlertAccounted, Write, tables, history
<1> QED  BY <1>1, <1>2, <1>3, <1>4, <1>5, <1>6, <1>7, <1>8, <1>9 DEF DispatchInv

LEMMA DisconnectStep ==
  ASSUME NEW p \in People, DispatchAssumption, DispatchInv, Disconnect(p)
  PROVE  DispatchInv'
<1>1. Messaging'
  BY DEF DispatchInv, Messaging, Sent, Disconnect, tables, history, Mine
<1>2. Phasing'
  BY DEF DispatchInv, Phasing, Disconnect, memory, history
<1>3. Charging'
  BY DEF DispatchInv, Charging, APAccounted, Running, Disconnect, memory, tables, history
<1>4. Opened'
  BY DEF DispatchInv, Opened, Disconnect, history
<1>5. Staged'
  BY DEF DispatchInv, Staged, Phasing, Disconnect
<1>6. Telegrams'
  BY DEF DispatchInv, Telegrams, Disconnect, memory, tables, history
<1>7. NoPhantomNotice'
  BY DEF DispatchInv, NoPhantomNotice, Disconnect, tables, history, Mine
<1>8. AlertPending'
  BY DEF DispatchInv, AlertPending, Disconnect, tables, history
<1>9. AlertAccounted'
  BY DEF DispatchInv, AlertAccounted, Disconnect, tables, history
<1> QED  BY <1>1, <1>2, <1>3, <1>4, <1>5, <1>6, <1>7, <1>8, <1>9 DEF DispatchInv

\* What is staged has somebody to read it, so nothing goes back to push_telegram.
LEMMA DeliverStep ==
  ASSUME DispatchAssumption, DispatchInv, Deliver
  PROVE  DispatchInv'
<1>b. /\ phase = "flushing" /\ phase' = "prompt" /\ outbox' = <<>>
      /\ notices' = notices /\ seen' = seen /\ dropped' = dropped
      /\ tele = savedTele
  BY DEF Deliver, DispatchInv, Phasing, Telegrams, history
<1>c. /\ \A j \in DOMAIN outbox : outbox[j] \in buffer'
      /\ buffer' = buffer \cup {outbox[j] : j \in DOMAIN outbox}
      /\ tele' = tele /\ savedTele' = tele
  BY <1>b DEF Deliver, StagedFor, PushTelegrams, Notifiable, DispatchInv, Phasing, Staged
<1>1. Messaging'
  BY DEF DispatchInv, Messaging, Sent, Deliver, history, PushTelegrams, StagedFor
<1>2. Phasing'
  BY DEF DispatchInv, Phasing, Deliver, history
<1>3. Charging'
  BY DEF DispatchInv, Charging, APAccounted, Running, Deliver, history
<1>4. Opened'
  BY DEF DispatchInv, Opened, Deliver, history
<1>5. Staged'
  BY DEF Staged, Deliver
<1>6. Telegrams'
  BY DEF DispatchInv, Telegrams, Staged, Deliver, history, PushTelegrams, StagedFor
<1>7. NoPhantomNotice'
  BY <1>b, <1>c DEF DispatchInv, NoPhantomNotice, Staged
<1>8. AlertPending'
  BY <1>b DEF DispatchInv, AlertPending, Opened
<1>9. AlertAccounted'
  BY <1>b, <1>c DEF DispatchInv, AlertAccounted
<1> QED  BY <1>1, <1>2, <1>3, <1>4, <1>5, <1>6, <1>7, <1>8, <1>9 DEF DispatchInv

\* An alert goes to the outbox or to the telegrams; nothing else knows its number.
LEMMA WarnStep ==
  ASSUME NEW to \in People, DispatchAssumption, DispatchInv, Warn(to)
  PROVE  DispatchInv'
<1> DEFINE n == [to |-> to, kind |-> "alert", fate |-> "open"]
<1>a. /\ notices' \in Seq(Notice) /\ Len(notices') <= MaxNotices
      /\ DOMAIN notices' = DOMAIN notices \cup {NextId}
      /\ NextId \notin DOMAIN notices
      /\ \A i \in DOMAIN notices : notices'[i] = notices[i]
      /\ notices'[NextId] = n
  <2>1. n \in Notice /\ NextId \in Ids /\ notices' = Append(notices, n)
    BY DEF Warn, Notice, Fates
  <2> QED  BY <2>1, AppendFact DEF DispatchInv
<1>s. ASSUME NEW r \in {to, Leader[to]}, outbox' = Append(outbox, <<r, NextId>>)
      PROVE  /\ outbox' \in Seq(Sent')
             /\ \A j \in DOMAIN outbox' :
                  \/ j \in DOMAIN outbox /\ outbox'[j] = outbox[j]
                  \/ outbox'[j] = <<r, NextId>>
             /\ \A j \in DOMAIN outbox :
                  j \in DOMAIN outbox' /\ outbox'[j] = outbox[j]
  <2>1. Sent \subseteq Sent' /\ <<r, NextId>> \in Sent'
    BY <1>a DEF Sent
  <2>2. outbox \in Seq(Sent)  BY DEF DispatchInv, Messaging
  <2> QED  BY <1>s, <2>1, <2>2
<1>b. /\ phase = "handler" /\ buffer' = buffer /\ seen' = seen
      /\ dropped' = dropped /\ savedTele' = savedTele
      /\ phase' = phase /\ online' = online
      /\ \/ tele' = tele \cup {<<to, NextId>>} /\ outbox' = outbox
         \/ \E r \in {to, Leader[to]} :
              /\ r \in online /\ tele' = tele
              /\ outbox' = Append(outbox, <<r, NextId>>)
  BY DEF Warn, Receiver, Notifiable, Send, PushTelegrams, DispatchInv, Phasing, memory
<1>c. \A j \in DOMAIN outbox' :
        \/ j \in DOMAIN outbox /\ outbox'[j] = outbox[j]
        \/ \E r \in {to, Leader[to]} :
             r \in online /\ outbox'[j] = <<r, NextId>>
  <2>1. CASE outbox' = outbox  BY <2>1
  <2>2. ASSUME NEW r \in {to, Leader[to]}, r \in online,
               outbox' = Append(outbox, <<r, NextId>>)
        PROVE  \A j \in DOMAIN outbox' :
                 \/ j \in DOMAIN outbox /\ outbox'[j] = outbox[j]
                 \/ \E q \in {to, Leader[to]} :
                      q \in online /\ outbox'[j] = <<q, NextId>>
    <3>1. \A j \in DOMAIN outbox' : \/ j \in DOMAIN outbox /\ outbox'[j] = outbox[j]
                                  \/ outbox'[j] = <<r, NextId>>
      BY <1>s, <2>2
    <3> QED  BY <2>2, <3>1
  <2> QED  BY <1>b, <2>1, <2>2
<1>d. /\ \A j \in DOMAIN outbox : j \in DOMAIN outbox' /\ outbox'[j] = outbox[j]
      /\ tele \subseteq tele'
  BY <1>b, <1>s
<1>1. Messaging'
  <2>1. Sent \subseteq Sent' /\ <<to, NextId>> \in Sent'
    BY <1>a DEF Sent
  <2>2. outbox' \in Seq(Sent')
    <3>1. CASE outbox' = outbox
      BY <2>1, <3>1 DEF DispatchInv, Messaging
    <3> QED  BY <1>b, <1>s, <3>1
  <2> QED  BY <1>a, <1>b, <2>1, <2>2 DEF DispatchInv, Messaging
<1>2. Phasing'
  BY <1>a DEF DispatchInv, Phasing, Warn, memory
<1>3. Charging'
  BY <1>a DEF DispatchInv, Charging, APAccounted, Running, Warn, memory
<1>4. Opened'
  BY <1>a DEF DispatchInv, Opened, Warn, memory
<1>5. Staged'
  BY <1>a, <1>b, <1>c, Numbered DEF DispatchInv, Staged
<1>6. Telegrams'
  BY <1>a, Numbered DEF DispatchInv, Telegrams, Warn, memory, PushTelegrams
<1>7. NoPhantomNotice'
  BY <1>a, <1>b, Numbered DEF DispatchInv, NoPhantomNotice
<1>8. AlertPending'
  <2> SUFFICES ASSUME NEW i \in DOMAIN notices', notices'[i].kind = "alert",
                      notices'[i].fate = "open"
               PROVE  \/ <<notices'[i].to, i>> \in tele'
                      \/ \E p \in {notices'[i].to, Leader[notices'[i].to]} :
                           \E j \in DOMAIN outbox' : outbox'[j] = <<p, i>>
    BY DEF AlertPending
  <2>1. CASE i \in DOMAIN notices
    BY <1>a, <1>d, <2>1 DEF DispatchInv, AlertPending
  <2>2. CASE i = NextId
    <3>1. notices'[i].to = to  BY <1>a, <2>2
    <3>2. CASE tele' = tele \cup {<<to, NextId>>}  BY <2>2, <3>1, <3>2
    <3>3. ASSUME NEW r \in {to, Leader[to]},
                 outbox' = Append(outbox, <<r, NextId>>)
          PROVE  \E j \in DOMAIN outbox' : outbox'[j] = <<r, i>>
      <4>1. outbox'[Len(outbox) + 1] = <<r, i>> /\ Len(outbox) + 1 \in DOMAIN outbox'
        BY <2>2, <3>3<4> QED  BY <4>1
    <3> QED  BY <1>b, <3>1, <3>2, <3>3
  <2> QED  BY <1>a, <2>1, <2>2
<1>9. AlertAccounted'
  <2>1. ASSUME NEW i \in DOMAIN notices', notices'[i].kind = "alert",
               notices'[i].fate = "committed"
        PROVE  i \in DOMAIN notices /\ notices'[i] = notices[i]
    BY <1>a, <2>1
  <2> QED  BY <1>b, <2>1 DEF DispatchInv, AlertAccounted
<1> QED  BY <1>1, <1>2, <1>3, <1>4, <1>5, <1>6, <1>7, <1>8, <1>9 DEF DispatchInv

LEMMA TalkStep ==
  ASSUME NEW to \in People, DispatchAssumption, DispatchInv, Talk(to)
  PROVE  DispatchInv'
<1> DEFINE n == [to |-> to, kind |-> "talk", fate |-> IF txn THEN "open" ELSE "committed"]
<1>a. /\ notices' \in Seq(Notice) /\ Len(notices') <= MaxNotices
      /\ DOMAIN notices' = DOMAIN notices \cup {NextId}
      /\ NextId \notin DOMAIN notices
      /\ \A i \in DOMAIN notices : notices'[i] = notices[i]
      /\ notices'[NextId] = n
  <2>1. n \in Notice /\ NextId \in Ids /\ notices' = Append(notices, n)
    BY DEF Talk, Notice, Fates
  <2> QED  BY <2>1, AppendFact DEF DispatchInv
<1>s. ASSUME NEW r \in {to}, outbox' = Append(outbox, <<r, NextId>>)
      PROVE  /\ outbox' \in Seq(Sent')
             /\ \A j \in DOMAIN outbox' :
                  \/ j \in DOMAIN outbox /\ outbox'[j] = outbox[j]
                  \/ outbox'[j] = <<r, NextId>>
             /\ \A j \in DOMAIN outbox :
                  j \in DOMAIN outbox' /\ outbox'[j] = outbox[j]
  <2>1. Sent \subseteq Sent' /\ <<r, NextId>> \in Sent'
    BY <1>a DEF Sent
  <2>2. outbox \in Seq(Sent)  BY DEF DispatchInv, Messaging
  <2> QED  BY <1>s, <2>1, <2>2
<1>b. /\ seen' = seen /\ dropped' = dropped /\ tele' = tele
      /\ savedTele' = savedTele /\ phase' = phase
      /\ online' = online /\ to \in online
      /\ \/ /\ phase = "handler" /\ n.fate = "open" /\ buffer' = buffer
            /\ outbox' = Append(outbox, <<to, NextId>>)
         \/ /\ phase = "idle" /\ n.fate = "committed" /\ outbox' = outbox
            /\ buffer' = buffer \cup {<<to, NextId>>}
  BY DEF Talk, Notifiable, Send, DispatchInv, Phasing, memory, tables
<1>c. /\ \A j \in DOMAIN outbox' : \/ j \in DOMAIN outbox /\ outbox'[j] = outbox[j]
                                \/ outbox'[j] = <<to, NextId>>
      /\ \A j \in DOMAIN outbox : j \in DOMAIN outbox' /\ outbox'[j] = outbox[j]
  BY <1>b, <1>s
<1>1. Messaging'
  <2>1. Sent \subseteq Sent' /\ <<to, NextId>> \in Sent'
    BY <1>a DEF Sent
  <2>2. outbox' \in Seq(Sent')
    <3>1. CASE outbox' = outbox
      BY <2>1, <3>1 DEF DispatchInv, Messaging
    <3> QED  BY <1>b, <1>s, <3>1
  <2> QED  BY <1>a, <1>b, <2>1, <2>2 DEF DispatchInv, Messaging
<1>2. Phasing'
  BY <1>a DEF DispatchInv, Phasing, Talk, memory, Send
<1>3. Charging'
  BY <1>a DEF DispatchInv, Charging, APAccounted, Running, Talk, memory, tables
<1>4. Opened'
  BY <1>a DEF DispatchInv, Opened, Phasing, Talk, memory
<1>5. Staged'
  <2> SUFFICES ASSUME NEW j \in DOMAIN outbox'
               PROVE  /\ outbox'[j][1] \in online'
                      /\ notices'[outbox'[j][2]].kind # "turn"
                      /\ phase' = "handler" => notices'[outbox'[j][2]].fate = "open"
                      /\ phase' = "flushing" =>
                           notices'[outbox'[j][2]].fate = "committed"
    BY DEF Staged
  <2>1. CASE j \in DOMAIN outbox /\ outbox'[j] = outbox[j]
    BY <1>a, <1>b, <2>1, Numbered DEF DispatchInv, Staged
  <2>2. CASE j \notin DOMAIN outbox
    <3>1. outbox'[j] = <<to, NextId>> /\ phase = "handler"  BY <1>b, <1>c, <2>2
    <3> QED  BY <1>a, <1>b, <3>1
  <2> QED  BY <1>c, <2>1, <2>2
<1>6. Telegrams'
  BY <1>a, Numbered DEF DispatchInv, Telegrams, Talk, memory, tables
<1>7. NoPhantomNotice'
  BY <1>a, <1>b, Numbered DEF DispatchInv, NoPhantomNotice
<1>8. AlertPending'
  BY <1>a, <1>b, <1>c DEF DispatchInv, AlertPending
<1>9. AlertAccounted'
  BY <1>a, <1>b, <1>c DEF DispatchInv, AlertAccounted
<1> QED  BY <1>1, <1>2, <1>3, <1>4, <1>5, <1>6, <1>7, <1>8, <1>9 DEF DispatchInv

LEMMA TurnTelegramStep ==
  ASSUME NEW to \in People, DispatchAssumption, DispatchInv, TurnTelegram(to)
  PROVE  DispatchInv'
<1> DEFINE n == [to |-> to, kind |-> "turn", fate |-> "open"]
<1>a. /\ notices' \in Seq(Notice) /\ Len(notices') <= MaxNotices
      /\ DOMAIN notices' = DOMAIN notices \cup {NextId}
      /\ NextId \notin DOMAIN notices
      /\ \A i \in DOMAIN notices : notices'[i] = notices[i]
      /\ notices'[NextId] = n
  <2>1. n \in Notice /\ NextId \in Ids /\ notices' = Append(notices, n)
    BY DEF TurnTelegram, Notice, Fates
  <2> QED  BY <2>1, AppendFact DEF DispatchInv
<1>b. /\ phase' = phase /\ outbox' = outbox /\ buffer' = buffer
      /\ seen' = seen /\ dropped' = dropped
      /\ tele' = tele \cup {<<to, NextId>>}
      /\ savedTele' = tele' /\ savedTele = tele
  BY DEF TurnTelegram, PushTelegrams, DispatchInv, Phasing, Telegrams, memory, output
<1>1. Messaging'
  BY <1>a DEF DispatchInv, Messaging, Sent, TurnTelegram, output, PushTelegrams
<1>2. Phasing'
  BY <1>a DEF DispatchInv, Phasing, TurnTelegram, memory, output
<1>3. Charging'
  BY <1>a DEF DispatchInv, Charging, APAccounted, Running, TurnTelegram, memory
<1>4. Opened'
  BY <1>a DEF DispatchInv, Opened, TurnTelegram, memory
<1>5. Staged'
  BY <1>a DEF DispatchInv, Staged, Messaging, Sent, TurnTelegram, memory, output
<1>6. Telegrams'
  BY <1>a, Numbered DEF DispatchInv, Telegrams, TurnTelegram, memory, PushTelegrams
<1>7. NoPhantomNotice'
  BY <1>a, <1>b, Numbered DEF DispatchInv, NoPhantomNotice
<1>8. AlertPending'
  BY <1>a DEF DispatchInv, AlertPending, TurnTelegram, output, PushTelegrams
<1>9. AlertAccounted'
  BY <1>a, <1>b DEF DispatchInv, AlertAccounted
<1> QED  BY <1>1, <1>2, <1>3, <1>4, <1>5, <1>6, <1>7, <1>8, <1>9 DEF DispatchInv

\* What the handler spends is missing from the running transaction only.
LEMMA DeductStep ==
  ASSUME NEW n \in Fees, DispatchAssumption, DispatchInv, Deduct(n)
  PROVE  DispatchInv'
<1>1. Messaging'
  BY DEF DispatchInv, Messaging, Sent, Deduct, output, history
<1>2. Phasing'
  BY DEF DispatchInv, Phasing, Deduct, output, history
<1>3. Charging'
  <2>1. /\ phase = "handler" /\ phase' = phase /\ actor' = actor
        /\ cost = 0 /\ cost' = cost /\ savedAp' = savedAp /\ paid' = paid
        /\ n \in Nat /\ n <= ap[Leader[actor]] /\ Leader[actor] \in Races
        /\ spent' = spent + n /\ ap' = [ap EXCEPT ![Leader[actor]] = @ - n]
    BY DEF Deduct, DispatchInv, Phasing, Races, history, DispatchAssumption
  <2>2. ap' \in [Races -> 0..StartAP]
    BY <2>1 DEF DispatchInv, Charging, DispatchAssumption
  <2>3. \A r \in Races : savedAp'[r] = ap'[r] + Running(r)'
    BY <2>1 DEF DispatchInv, Charging, APAccounted, Running
  <2>4. spent' \in 0..StartAP
    <3>1. savedAp[Leader[actor]] = ap[Leader[actor]] + spent
      BY <2>1 DEF DispatchInv, Charging, APAccounted, Running
    <3> QED  BY <2>1, <3>1 DEF DispatchInv, Charging, DispatchAssumption
  <2>5. cost' <= ap'[Leader[actor']]
    BY <2>1, <2>2
  <2> QED  BY <2>1, <2>2, <2>3, <2>4, <2>5 DEF DispatchInv, Charging, APAccounted
<1>4. Opened'
  BY DEF DispatchInv, Opened, Deduct, history
<1>5. Staged'
  BY DEF DispatchInv, Staged, Deduct, output, history
<1>6. Telegrams'
  BY DEF DispatchInv, Telegrams, Deduct, history
<1>7. NoPhantomNotice'
  BY DEF DispatchInv, NoPhantomNotice, Deduct, output, history
<1>8. AlertPending'
  BY DEF DispatchInv, AlertPending, Deduct, output, history
<1>9. AlertAccounted'
  BY DEF DispatchInv, AlertAccounted, Deduct, output, history
<1> QED  BY <1>1, <1>2, <1>3, <1>4, <1>5, <1>6, <1>7, <1>8, <1>9 DEF DispatchInv

\* COMMIT: the open notices become true, and the charge is what the handler
\* spent and the cost.
LEMMA SucceedStep ==
  ASSUME DispatchAssumption, DispatchInv, Succeed
  PROVE  DispatchInv'
<1>a. /\ notices' \in Seq(Notice) /\ Len(notices') <= MaxNotices
      /\ DOMAIN notices' = DOMAIN notices /\ Sent' = Sent
      /\ \A i \in DOMAIN notices :
           /\ notices'[i].to = notices[i].to
           /\ notices'[i].kind = notices[i].kind
           /\ notices'[i].fate =
                IF notices[i].fate = "open" THEN "committed" ELSE notices[i].fate
  <2>1. "committed" \in Fates /\ notices' = Settle("committed")  BY DEF Succeed, Fates
  <2> QED  BY <2>1, SettleFact DEF DispatchInv, Sent
<1>1. Messaging'
  BY <1>a DEF DispatchInv, Messaging, Succeed, output
<1>2. Phasing'
  BY <1>a DEF DispatchInv, Phasing, Succeed, output
<1>3. Charging'
  <2>1. /\ actor \in People /\ Leader[actor] \in Races /\ phase = "handler"
        /\ cost \in 0..StartAP /\ cost <= ap[Leader[actor]]
    BY DEF Succeed, DispatchInv, Phasing, Charging, Races, DispatchAssumption
  <2>2. \A r \in Races :
          /\ ap'[r] = ap[r] - (IF r = Leader[actor] THEN cost ELSE 0)
          /\ paid'[r] = paid[r] + (IF r = Leader[actor] THEN spent + cost ELSE 0)
    BY <2>1 DEF Succeed, DispatchInv, Charging
  <2>3. /\ spent \in 0..StartAP
        /\ \A r \in Races :
             /\ ap[r] \in 0..StartAP /\ paid[r] \in 0..StartAP
             /\ ap[r] + (IF r = Leader[actor] THEN spent ELSE 0) + paid[r] = StartAP
    BY <2>1 DEF DispatchInv, Charging, APAccounted, Running
  <2>4. \A r \in Races : /\ ap'[r] \in 0..StartAP /\ paid'[r] \in 0..StartAP
                        /\ ap'[r] + paid'[r] = StartAP
    BY <2>1, <2>2, <2>3
  <2>5. /\ savedAp' = ap' /\ spent' = 0 /\ phase' # "handler" /\ cost' = cost
        /\ 0 \in 0..StartAP
    BY <2>3 DEF Succeed, DispatchAssumption
  <2>6. ap' \in [Races -> 0..StartAP] /\ paid' \in [Races -> 0..StartAP]
    <3>1. ap' = [r \in Races |-> ap'[r]] /\ paid' = [r \in Races |-> paid'[r]]
      BY DEF Succeed, DispatchInv, Charging
    <3> QED  BY <2>4, <3>1
  <2>7. APAccounted'
    BY <2>4, <2>5, <2>6 DEF APAccounted, Running
  <2>8. cost' \in Costs \cup {0}
    BY <2>5 DEF DispatchInv, Charging
  <2> QED  BY <2>5, <2>6, <2>7, <2>8 DEF Charging
<1>4. Opened'
  BY <1>a DEF Opened
<1>5. Staged'
  BY <1>a, Numbered DEF DispatchInv, Staged, Succeed, output
<1>6. Telegrams'
  BY <1>a, Numbered DEF DispatchInv, Telegrams, Succeed
<1>7. NoPhantomNotice'
  BY <1>a, Numbered DEF Succeed, output, DispatchInv, NoPhantomNotice, Telegrams
<1>8. AlertPending'
  BY <1>a DEF AlertPending
<1>9. AlertAccounted'
  <2> SUFFICES ASSUME NEW i \in DOMAIN notices, notices[i].kind = "alert",
                      notices'[i].fate = "committed"
               PROVE  \/ <<notices[i].to, i>> \in savedTele'
                      \/ \E p \in {notices[i].to, Leader[notices[i].to]} :
                           \/ <<p, i>> \in (buffer \cup seen \cup dropped)'
                           \/ /\ phase' = "flushing"
                              /\ \E j \in DOMAIN outbox' : outbox'[j] = <<p, i>>
    BY <1>a DEF AlertAccounted
  <2>1. CASE notices[i].fate = "open"
    <3>1. \/ <<notices[i].to, i>> \in tele
          \/ \E p \in {notices[i].to, Leader[notices[i].to]} :
               \E j \in DOMAIN outbox : outbox[j] = <<p, i>>
      BY <2>1 DEF DispatchInv, AlertPending
    <3> QED  BY <3>1 DEF Succeed, output
  <2>2. CASE notices[i].fate = "committed"
    <3>1. \/ <<notices[i].to, i>> \in savedTele
          \/ \E p \in {notices[i].to, Leader[notices[i].to]} :
               <<p, i>> \in buffer \cup seen \cup dropped
      BY <2>2 DEF Succeed, DispatchInv, AlertAccounted
    <3>2. savedTele \subseteq savedTele'
      BY DEF Succeed, DispatchInv, Telegrams
    <3> QED  BY <3>1, <3>2 DEF Succeed, output
  <2> QED  BY <1>a, <2>1, <2>2
<1> QED  BY <1>1, <1>2, <1>3, <1>4, <1>5, <1>6, <1>7, <1>8, <1>9 DEF DispatchInv

\* What the command said is forgotten with what it did.
LEMMA FailStep ==
  ASSUME DispatchAssumption, DispatchInv, Fail
  PROVE  DispatchInv'
<1>a. /\ notices' \in Seq(Notice) /\ Len(notices') <= MaxNotices
      /\ DOMAIN notices' = DOMAIN notices /\ Sent' = Sent
      /\ \A i \in DOMAIN notices :
           /\ notices'[i].to = notices[i].to
           /\ notices'[i].kind = notices[i].kind
           /\ notices'[i].fate =
                IF notices[i].fate = "open" THEN "discarded" ELSE notices[i].fate
  <2>1. "discarded" \in Fates /\ notices' = Settle("discarded")  BY DEF Fail, Fates
  <2> QED  BY <2>1, SettleFact DEF DispatchInv, Sent
<1>1. Messaging'
  BY <1>a DEF DispatchInv, Messaging, Fail, RestoredTelegrams
<1>2. Phasing'
  BY <1>a DEF DispatchInv, Phasing, Fail
<1>3. Charging'
  BY <1>a DEF DispatchInv, Charging, APAccounted, Running, Fail, RestoredAP
<1>4. Opened'
  BY <1>a DEF Opened
<1>5. Staged'
  BY <1>a DEF Staged, Fail
<1>6. Telegrams'
  BY <1>a, Numbered DEF Fail, RestoredTelegrams, DispatchInv, Telegrams, NoPhantomNotice
<1>7. NoPhantomNotice'
  BY <1>a, Numbered DEF DispatchInv, NoPhantomNotice, Fail, RestoredTelegrams
<1>8. AlertPending'
  BY <1>a DEF AlertPending
<1>9. AlertAccounted'
  BY <1>a DEF DispatchInv, AlertAccounted, Fail, RestoredTelegrams
<1> QED  BY <1>1, <1>2, <1>3, <1>4, <1>5, <1>6, <1>7, <1>8, <1>9 DEF DispatchInv

LEMMA EndTurnStep ==
  ASSUME DispatchAssumption, DispatchInv, EndTurn
  PROVE  DispatchInv'
<1>a. /\ notices' \in Seq(Notice) /\ Len(notices') <= MaxNotices
      /\ DOMAIN notices' = DOMAIN notices /\ Sent' = Sent
      /\ \A i \in DOMAIN notices :
           /\ notices'[i].to = notices[i].to
           /\ notices'[i].kind = notices[i].kind
           /\ notices'[i].fate =
                IF notices[i].fate = "open" THEN "committed" ELSE notices[i].fate
  <2>1. "committed" \in Fates /\ notices' = Settle("committed")  BY DEF EndTurn, Fates
  <2> QED  BY <2>1, SettleFact DEF DispatchInv, Sent
<1>1. Messaging'
  BY <1>a DEF DispatchInv, Messaging, EndTurn, output, tables
<1>2. Phasing'
  BY <1>a DEF DispatchInv, Phasing, EndTurn, output
<1>3. Charging'
  BY <1>a DEF DispatchInv, Charging, APAccounted, Running, EndTurn, tables
<1>4. Opened'
  BY <1>a DEF Opened
<1>5. Staged'
  BY <1>a DEF DispatchInv, Staged, Phasing, EndTurn, output
<1>6. Telegrams'
  BY <1>a, Numbered DEF DispatchInv, Telegrams, EndTurn, tables
<1>7. NoPhantomNotice'
  BY <1>a, Numbered DEF DispatchInv, NoPhantomNotice, EndTurn, output, tables
<1>8. AlertPending'
  BY <1>a DEF AlertPending
<1>9. AlertAccounted'
  <2> SUFFICES ASSUME NEW i \in DOMAIN notices, notices[i].kind = "alert",
                      notices'[i].fate = "committed"
               PROVE  \/ <<notices[i].to, i>> \in savedTele'
                      \/ \E p \in {notices[i].to, Leader[notices[i].to]} :
                           \/ <<p, i>> \in (buffer \cup seen \cup dropped)'
                           \/ /\ phase' = "flushing"
                              /\ \E j \in DOMAIN outbox' : outbox'[j] = <<p, i>>
    BY <1>a DEF AlertAccounted
  <2>1. notices[i].fate = "committed"
    BY <1>a DEF EndTurn, DispatchInv, Opened
  <2> QED  BY <2>1 DEF EndTurn, output, tables, DispatchInv, AlertAccounted
<1> QED  BY <1>1, <1>2, <1>3, <1>4, <1>5, <1>6, <1>7, <1>8, <1>9 DEF DispatchInv

\* What was committed and not yet written is dropped, never made false.
LEMMA CrashStep ==
  ASSUME DispatchAssumption, DispatchInv, Crash
  PROVE  DispatchInv'
<1>a. /\ notices' \in Seq(Notice) /\ Len(notices') <= MaxNotices
      /\ DOMAIN notices' = DOMAIN notices /\ Sent' = Sent
      /\ \A i \in DOMAIN notices :
           /\ notices'[i].to = notices[i].to
           /\ notices'[i].kind = notices[i].kind
           /\ notices'[i].fate =
                IF notices[i].fate = "open" THEN "discarded" ELSE notices[i].fate
  <2>1. "discarded" \in Fates /\ notices' = Settle("discarded")  BY DEF Crash, Fates
  <2> QED  BY <2>1, SettleFact DEF DispatchInv, Sent
<1>b. \/ phase # "flushing" /\ dropped' = dropped \cup buffer
      \/ /\ phase = "flushing"
         /\ dropped' = dropped \cup buffer \cup {outbox[j] : j \in DOMAIN outbox}
  BY DEF Crash
<1>c. /\ phase' = "idle" /\ outbox' = <<>> /\ buffer' = {} /\ seen' = seen
      /\ tele' = savedTele /\ savedTele' = savedTele
  BY DEF Crash
<1>1. Messaging'
  BY <1>a DEF DispatchInv, Messaging, Crash
<1>2. Phasing'
  <2>1. crashes' \in 0..MaxCrashes
    BY DEF Crash, DispatchInv, Phasing
  <2>2. /\ phase' = "idle" /\ actor' = NoOne /\ race' = "null"
        /\ txn' = FALSE /\ inTurn' = FALSE /\ outboxOn' = FALSE
        /\ outbox' = <<>> /\ online' = {}
    BY DEF Crash
  <2> QED  BY <2>1, <2>2 DEF Phasing
<1>3. Charging'
  BY <1>a DEF DispatchInv, Charging, APAccounted, Running, Crash
<1>4. Opened'
  BY <1>a DEF Opened
<1>5. Staged'
  BY <1>a DEF Staged, Crash
<1>6. Telegrams'
  BY <1>a, <1>c, Numbered DEF DispatchInv, Telegrams, NoPhantomNotice
<1>7. NoPhantomNotice'
  <2>1. \A m \in buffer \cup seen \cup dropped \cup savedTele :
          /\ notices'[m[2]].kind = notices[m[2]].kind
          /\ notices[m[2]].fate # "open" =>
               notices'[m[2]].fate = notices[m[2]].fate
    BY <1>a, Numbered DEF DispatchInv
  <2>2. phase = "flushing" =>
          \A j \in DOMAIN outbox : notices'[outbox[j][2]].fate = "committed"
    BY <1>a, Numbered DEF DispatchInv, Staged
  <2>3. ASSUME NEW m \in (buffer \cup seen \cup dropped \cup savedTele)'
        PROVE  \/ m \in buffer \cup seen \cup dropped \cup savedTele
               \/ /\ phase = "flushing"
                  /\ \E j \in DOMAIN outbox : m = outbox[j]
    BY <1>b, <1>c, <2>3
  <2> QED  BY <2>1, <2>2, <2>3 DEF DispatchInv, NoPhantomNotice
<1>8. AlertPending'
  BY <1>a DEF AlertPending
<1>9. AlertAccounted'
  <2> SUFFICES ASSUME NEW i \in DOMAIN notices, notices[i].kind = "alert",
                      notices'[i].fate = "committed"
               PROVE  \/ <<notices[i].to, i>> \in savedTele'
                      \/ \E p \in {notices[i].to, Leader[notices[i].to]} :
                           \/ <<p, i>> \in (buffer \cup seen \cup dropped)'
                           \/ /\ phase' = "flushing"
                              /\ \E j \in DOMAIN outbox' : outbox'[j] = <<p, i>>
    BY <1>a DEF AlertAccounted
  <2>1. notices[i].fate = "committed"
    BY <1>a
  <2>2. <<notices[i].to, i>> \notin savedTele =>
          \E p \in {notices[i].to, Leader[notices[i].to]} :
            \/ <<p, i>> \in buffer \cup seen \cup dropped
            \/ phase = "flushing" /\ \E j \in DOMAIN outbox : outbox[j] = <<p, i>>
    BY <2>1 DEF DispatchInv, AlertAccounted
  <2>3. ASSUME NEW j \in DOMAIN outbox, phase = "flushing"
        PROVE  outbox[j] \in dropped'
    BY <1>b, <2>3
  <2>4. buffer \cup seen \cup dropped \subseteq dropped' \cup seen'
    BY <1>b, <1>c
  <2> QED  BY <1>c, <2>2, <2>3, <2>4
<1> QED  BY <1>1, <1>2, <1>3, <1>4, <1>5, <1>6, <1>7, <1>8, <1>9 DEF DispatchInv

-----------------------------------------------------------------------------
(* The theorems *)

LEMMA DispatchInvInit == DispatchAssumption /\ DispatchInit => DispatchInv
<1> SUFFICES ASSUME DispatchAssumption, DispatchInit  PROVE DispatchInv
  OBVIOUS
<1>1. Messaging  BY DEF DispatchInit, Messaging
<1>2. Phasing
  <2>1. crashes \in 0..MaxCrashes  BY DEF DispatchInit
  <2>2. /\ phase = "idle" /\ actor = NoOne /\ race = "null"
        /\ txn = FALSE /\ inTurn = FALSE /\ outboxOn = FALSE
        /\ outbox = <<>> /\ online = {}
    BY DEF DispatchInit
  <2> QED  BY <2>1, <2>2 DEF Phasing
<1>3. Charging
  BY DEF DispatchInit, Charging, APAccounted, Running, DispatchAssumption
<1>4. Opened /\ Staged /\ Telegrams  BY DEF DispatchInit, Opened, Staged, Telegrams
<1>5. NoPhantomNotice /\ AlertPending /\ AlertAccounted
  BY DEF DispatchInit, NoPhantomNotice, AlertPending, AlertAccounted
<1> QED  BY <1>1, <1>2, <1>3, <1>4, <1>5 DEF DispatchInv

LEMMA DispatchInvStep ==
  DispatchAssumption /\ DispatchInv /\ [DispatchNext]_dispatch_vars => DispatchInv'
<1> SUFFICES ASSUME DispatchAssumption, DispatchInv, [DispatchNext]_dispatch_vars
             PROVE DispatchInv'
  OBVIOUS
<1>1. ASSUME NEW p \in People, Warn(p)  PROVE DispatchInv'  BY <1>1, WarnStep
<1>2. ASSUME NEW p \in People, Talk(p)  PROVE DispatchInv'  BY <1>2, TalkStep
<1>3. ASSUME NEW p \in People, TurnTelegram(p)  PROVE DispatchInv'
  BY <1>3, TurnTelegramStep
<1>4. ASSUME NEW p \in People, Connect(p)  PROVE DispatchInv'  BY <1>4, ConnectStep
<1>5. ASSUME NEW p \in People, Disconnect(p)  PROVE DispatchInv'  BY <1>5, DisconnectStep
<1>6. ASSUME NEW p \in People, Write(p)  PROVE DispatchInv'  BY <1>6, WriteStep
<1>7. ASSUME NEW p \in People, NEW c \in Costs, Start(p, c)  PROVE DispatchInv'
  BY <1>7, StartStep
<1>8. ASSUME NEW p \in People, NEW c \in Costs, Refuse(p, c)  PROVE DispatchInv'
  BY <1>8, RefuseStep
<1>9. CASE Succeed  BY <1>9, SucceedStep
<1>10. CASE Deliver  BY <1>10, DeliverStep
<1>11. CASE Fail  BY <1>11, FailStep
<1>12. CASE Prompt  BY <1>12, PromptStep
<1>13. CASE StartTurn  BY <1>13, StartTurnStep
<1>14. CASE EndTurn  BY <1>14, EndTurnStep
<1>15. CASE Crash  BY <1>15, CrashStep
<1>16. ASSUME NEW n \in Fees, Deduct(n)  PROVE DispatchInv'  BY <1>16, DeductStep
<1>17. CASE UNCHANGED dispatch_vars
  <2>1. /\ UNCHANGED <<phase, actor, txn, cost, spent, inTurn, race>>
        /\ UNCHANGED <<outboxOn, outbox, buffer, seen, dropped>>
        /\ UNCHANGED <<ap, savedAp, tele, savedTele>>
        /\ UNCHANGED <<notices, paid, crashes, online>>
    BY <1>17 DEF dispatch_vars, memory, output, tables, history
  <2>2. Messaging'  BY <2>1 DEF DispatchInv, Messaging, Sent
  <2>3. Phasing'  BY <2>1 DEF DispatchInv, Phasing
  <2>4. Charging'  BY <2>1 DEF DispatchInv, Charging, APAccounted, Running
  <2>5. Opened' /\ Staged' /\ Telegrams'
    BY <2>1 DEF DispatchInv, Opened, Staged, Telegrams
  <2>6. NoPhantomNotice' /\ AlertPending' /\ AlertAccounted'
    BY <2>1 DEF DispatchInv, NoPhantomNotice, AlertPending, AlertAccounted
  <2> QED  BY <2>2, <2>3, <2>4, <2>5, <2>6 DEF DispatchInv
<1> QED
  BY <1>1, <1>2, <1>3, <1>4, <1>5, <1>6, <1>7, <1>8, <1>9, <1>10, <1>11, <1>12,
     <1>13, <1>14, <1>15, <1>16, <1>17 DEF DispatchNext

LEMMA DispatchInvariance == DispatchSpec => []DispatchInv
<1>1. DispatchInit => DispatchInv  BY DispatchInvInit, DispatchAssumption
<1>2. DispatchInv /\ [DispatchNext]_dispatch_vars => DispatchInv'
  BY DispatchInvStep, DispatchAssumption
<1> QED  BY <1>1, <1>2, PTL DEF DispatchSpec

LEMMA DispatchInvTypes == DispatchAssumption /\ DispatchInv => DispatchTypeOK
<1> SUFFICES ASSUME DispatchAssumption, DispatchInv  PROVE DispatchTypeOK
  OBVIOUS
<1>1. /\ phase \in {"idle", "handler", "flushing", "prompt", "turn"}
      /\ actor \in People \cup {NoOne} /\ race \in {"null", "live", "dangling"}
      /\ online \subseteq People /\ crashes \in 0..MaxCrashes
  BY DEF DispatchInv, Phasing
<1>2. {txn, inTurn, outboxOn} \subseteq BOOLEAN
  <2>1. txn \in BOOLEAN /\ inTurn \in BOOLEAN /\ outboxOn \in BOOLEAN
    BY DEF DispatchInv, Phasing
  <2> QED  BY <2>1
<1>3. /\ cost \in Costs \cup {0} /\ spent \in 0..StartAP
      /\ {ap, savedAp, paid} \subseteq [Races -> 0..StartAP]
  BY DEF DispatchInv, Charging
<1>4. Sent \subseteq Messages
  BY DEF DispatchInv, Messaging, Sent, Messages, Ids
<1>5. UNION {tele, savedTele, buffer, seen, dropped} \subseteq Messages
  BY <1>4 DEF DispatchInv, Messaging
<1>6. \A i \in DOMAIN outbox : outbox[i] \in Messages
  BY <1>4 DEF DispatchInv, Messaging
<1>7. \A i \in DOMAIN notices : notices[i] \in Notice
  BY DEF DispatchInv, Messaging
<1> QED  BY <1>1, <1>2, <1>3, <1>5, <1>6, <1>7 DEF DispatchTypeOK, Notice

\* Of commands, notices and action points only the states meant are reached:
\* no race's points go below zero, whatever fails, and no message names a notice
\* that was not sent (dispatch.cc, session_registry.cppm, notification.cc).
THEOREM DispatchTypes == DispatchSpec => []DispatchTypeOK
<1>1. DispatchInv => DispatchTypeOK  BY DispatchInvTypes, DispatchAssumption
<1> QED  BY <1>1, DispatchInvariance, PTL

\* Nobody is told, on screen or by telegram, of what a command did that was then
\* taken back; and an alert of a command that went through is on a screen of the
\* governor's race, on its way there, lost with the session, or a telegram
\* (dispatch_command with commit_outbox and rollback_outbox, warn_player).
THEOREM NoticesTellTheTruth == DispatchSpec => []NoticesAccounted
<1>1. DispatchInv => DispatchTypeOK  BY DispatchInvTypes, DispatchAssumption
<1>2. DispatchInv => NoPhantomNotice /\ AlertAccounted  BY DEF DispatchInv
<1>3. DispatchTypeOK /\ NoPhantomNotice /\ AlertAccounted => NoticesAccounted
  BY DEF NoticesAccounted
<1> QED  BY <1>1, <1>2, <1>3, DispatchInvariance, PTL

\* Every action point a race had is in tbl_star or paid for a command that
\* succeeded, through failures, turns and crashes (dispatch_command's charge).
THEOREM PointsPayForSuccess == DispatchSpec => []APAccounted
<1>1. DispatchInv => APAccounted  BY DEF DispatchInv, Charging
<1> QED  BY <1>1, DispatchInvariance, PTL

=============================================================================
