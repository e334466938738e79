---------------------------- MODULE EconomyProofs ----------------------------
(***************************************************************************)
(* What people, goods and money add up to.                                 *)
(*                                                                         *)
(* Colonies, for any races, any planet and any numbers: a sector has an    *)
(* owner exactly if somebody lives in it; the planet's sums are exact      *)
(* wherever the code keeps them; whom an update plunders as defeated holds *)
(* no sector; and no command makes people, or loses any but in a fight.    *)
(* The first is inductive with the types of the sectors and crews: it is   *)
(* kept sector by sector, whatever happens to the sums.  For the second,   *)
(* BooksInv says that the books are those a census would write, between    *)
(* updates and until an unbooked change; each adjustment is compared with  *)
(* the census of the sectors it changes (AdjustKeeps).  The third needs    *)
(* the stages of the update: the sums are empty until production is over,  *)
(* then count the sectors, and until the census only who has one gains one. *)
(* The last counts heads, on land and aboard, before and after each step.  *)
(*                                                                         *)
(* The market, for any races, ports, fees and amounts: types (so no        *)
(* treasury is ever overdrawn), every governor a lot or a star names is    *)
(* appointed, no lot is sold by the first update that visits it, bids only *)
(* rise between updates, and the books of goods and of money balance.      *)
(*                                                                         *)
(* Carriers, for any ships, designs, amounts and fleets to start from.     *)
(* FleetInv says three things of the fleet.  FleetSound: records have      *)
(* their types and are priced as the code prices them, who is berthed or   *)
(* moored is so with the living, and ranks rise from craft to carrier, so  *)
(* that nobody is in itself (Docks, Ranked).  Hangars: what is in use is   *)
(* the sizes of what is inside; each command changes one hangar or two.    *)
(* Masses: outside loose a ship weighs itself and what is in it; and a     *)
(* carrier lighter than that is in loose with every carrier around it      *)
(* (Written), so that where the code stops at the base mass nothing is     *)
(* promised any more.  A death takes a nest off a chain of carriers, each  *)
(* of which holds exactly one of the chain (ChainOfDecks); a count weighs  *)
(* a nest as the nests inside it (WeighedIs).  What the race owns is       *)
(* compared ship by ship.                                                  *)
(***************************************************************************)
EXTENDS Colonies, Market, Carriers, SumTheorems, TLAPS

-----------------------------------------------------------------------------
(* Colonies *)

Crews == [popn : Nat, troops : Nat]
Owners == Players \cup {Nobody}

\* A sector as it should be.
Sound(x) == x \in Holding /\ (x.owner = Nobody <=> x.popn + x.troops = 0)
SoundSectors(sectors) ==
  sectors \in [Sectors -> Holding] /\ \A s \in Sectors : Sound(sectors[s])

PeopleInv == SoundSectors(sect) /\ aboard \in [Players -> Crews]

LEMMA SoundIsSettled ==
  ASSUME SoundSectors(sect)
  PROVE  SettledIffOwned
BY DEF SoundSectors, Sound, SettledIffOwned

-----------------------------------------------------------------------------
(* Sectors *)

LEMMA RecordSound ==
  ASSUME NEW o \in Owners, NEW c \in Nat, NEW m \in Nat,
         o = Nobody <=> c + m = 0
  PROVE  Sound([owner |-> o, popn |-> c, troops |-> m])
BY DEF Sound, Holding, Owners

LEMMA DevastatedSound == Sound(Devastated)
BY RecordSound DEF Devastated, Owners

\* What is abandoned when nobody is left is sound.
LEMMA AbandonedSound ==
  ASSUME NEW o \in Owners, NEW c \in Nat, NEW m \in Nat,
         o = Nobody => c + m = 0
  PROVE  Sound(Abandoned([owner |-> o, popn |-> c, troops |-> m]))
<1> DEFINE x == [owner |-> o, popn |-> c, troops |-> m]
<1>1. CASE c = 0 /\ m = 0
  <2>1. Abandoned(x) = Devastated
    BY <1>1 DEF Abandoned, Devastated
  <2> QED
    BY <2>1, DevastatedSound
<1>2. CASE ~(c = 0 /\ m = 0)
  <2>1. Abandoned(x) = x
    BY <1>2 DEF Abandoned
  <2>2. c + m # 0 /\ o # Nobody
    BY <1>2
  <2> QED
    BY <2>1, <2>2, RecordSound
<1> QED
  BY <1>1, <1>2

LEMMA SoundFields ==
  ASSUME NEW x, Sound(x)
  PROVE  /\ x.owner \in Owners /\ x.popn \in Nat /\ x.troops \in Nat
         /\ x.owner = Nobody <=> x.popn + x.troops = 0
         /\ x = [owner |-> x.owner, popn |-> x.popn, troops |-> x.troops]
BY DEF Sound, Holding, Owners

\* A sector some of whose people survive, abandoned if none does.
LEMMA ThinnedSound ==
  ASSUME NEW x, Sound(x), NEW c \in Nat, NEW m \in Nat,
         x.owner = Nobody => c + m = 0
  PROVE  Sound(Abandoned(Manned(x, c, m)))
BY SoundFields, AbandonedSound DEF Manned

LEMMA AdjustedSound ==
  ASSUME NEW x, Sound(x), NEW p \in Players, NEW c \in Int, NEW m \in Int
  PROVE  Sound(Adjusted(x, p, c, m))
<1>1. /\ x.owner \in Owners /\ x.popn \in Nat /\ x.troops \in Nat
      /\ x.owner = Nobody <=> x.popn + x.troops = 0
  BY SoundFields
<1>2. Claimant(x, p, c, m) \in Owners
  BY <1>1 DEF Claimant, Owners
<1>3. Added(x.popn, c) \in Nat /\ Added(x.troops, m) \in Nat
  BY <1>1 DEF Added
<1>4. Claimant(x, p, c, m) = Nobody => Added(x.popn, c) + Added(x.troops, m) = 0
  <2> SUFFICES ASSUME Claimant(x, p, c, m) = Nobody
               PROVE  Added(x.popn, c) + Added(x.troops, m) = 0
    OBVIOUS
  <2>1. x.owner = Nobody /\ ~(c > 0) /\ ~(m > 0)
    BY ColoniesAssumption DEF Claimant
  <2>2. x.popn = 0 /\ x.troops = 0
    BY <1>1, <2>1
  <2> QED
    BY <2>1, <2>2 DEF Added
<1> QED
  BY <1>2, <1>3, <1>4, AbandonedSound DEF Adjusted

LEMMA FoughtSound ==
  ASSUME NEW x, Sound(x), x.owner # Nobody, NEW p \in Players, NEW k \in Kinds,
         NEW alive \in Nat, NEW c \in Nat, NEW m \in Nat, NEW bodies \in Nat
  PROVE  Sound(Fought(x, p, k, alive, c, m, bodies))
<1>1. CASE Repelled(c, m)
  <2>1. c + bodies + m # 0 /\ c + bodies \in Nat
    BY <1>1 DEF Repelled
  <2> QED
    BY <1>1, <2>1, SoundFields, RecordSound DEF Fought, Manned
<1>2. CASE ~Repelled(c, m)
  <2>1. Civ(k, alive) + bodies \in Nat /\ Mil(k, alive) \in Nat
    BY DEF Civ, Mil
  <2>2. p \in Owners /\ p # Nobody
    BY ColoniesAssumption DEF Owners
  <2> QED
    BY <1>2, <2>1, <2>2, AbandonedSound DEF Fought
<1> QED
  BY <1>1, <1>2

-----------------------------------------------------------------------------
(* The planet *)

LEMMA OneChanged ==
  ASSUME SoundSectors(sect), NEW s \in Sectors, NEW y, Sound(y)
  PROVE  SoundSectors([sect EXCEPT ![s] = y])
<1>1. y \in Holding
  BY DEF Sound
<1>2. [sect EXCEPT ![s] = y] \in [Sectors -> Holding]
  BY <1>1 DEF SoundSectors
<1>3. \A t \in Sectors : [sect EXCEPT ![s] = y][t] = IF t = s THEN y ELSE sect[t]
  BY DEF SoundSectors
<1> QED
  BY <1>2, <1>3 DEF SoundSectors

LEMMA TwoChanged ==
  ASSUME SoundSectors(sect), NEW s \in Sectors, NEW t \in Sectors, s # t,
         NEW y, Sound(y), NEW z, Sound(z)
  PROVE  SoundSectors([sect EXCEPT ![s] = y, ![t] = z])
<1>1. y \in Holding /\ z \in Holding
  BY DEF Sound
<1>2. [sect EXCEPT ![s] = y, ![t] = z] \in [Sectors -> Holding]
  BY <1>1 DEF SoundSectors
<1>3. \A u \in Sectors : [sect EXCEPT ![s] = y, ![t] = z][u]
                           = IF u = s THEN y ELSE IF u = t THEN z ELSE sect[u]
  BY DEF SoundSectors
<1> QED
  BY <1>2, <1>3 DEF SoundSectors

\* Every sector may change, if it changes into a sound one.
LEMMA AllChanged ==
  ASSUME NEW f, f = [s \in Sectors |-> f[s]], \A s \in Sectors : Sound(f[s])
  PROVE  SoundSectors(f)
<1>1. \A s \in Sectors : f[s] \in Holding
  BY DEF Sound
<1>2. [s \in Sectors |-> f[s]] \in [Sectors -> Holding]
  BY <1>1
<1>3. f \in [Sectors -> Holding]
  BY <1>2
<1> QED
  BY <1>3 DEF SoundSectors

LEMMA SomeDevastated ==
  ASSUME SoundSectors(sect), NEW D
  PROVE  SoundSectors([s \in Sectors |-> IF s \in D THEN Devastated ELSE sect[s]])
<1> DEFINE f == [s \in Sectors |-> IF s \in D THEN Devastated ELSE sect[s]]
<1>1. \A s \in Sectors : Sound(f[s])
  BY DevastatedSound DEF SoundSectors
<1>2. f = [s \in Sectors |-> f[s]]
  OBVIOUS
<1>3. SoundSectors(f)
  <2> HIDE DEF f
  <2> QED
    BY <1>1, <1>2, AllChanged
<1> QED
  BY <1>3

LEMMA CrewChanged ==
  ASSUME aboard \in [Players -> Crews], NEW p \in Players, NEW c \in Int, NEW m \in Int,
         aboard[p].popn + c >= 0, aboard[p].troops + m >= 0
  PROVE  Boarded(aboard[p], c, m) \in Crews
BY DEF Boarded, Crews

LEMMA KindAmounts ==
  ASSUME NEW k \in Kinds, NEW n \in Int
  PROVE  /\ Civ(k, n) \in Int /\ Mil(k, n) \in Int
         /\ (n >= 0 => Civ(k, n) >= 0 /\ Mil(k, n) >= 0)
         /\ Civ(k, -n) = -Civ(k, n) /\ Mil(k, -n) = -Mil(k, n)
BY DEF Civ, Mil

-----------------------------------------------------------------------------
(* Commands *)

LEMMA TransferSound ==
  ASSUME PeopleInv, NEW p \in Players, NEW s \in Sectors, NEW k \in Kinds, NEW n \in Int,
         Transfer(p, s, k, n)
  PROVE  PeopleInv'
<1>1. Sound(sect[s]) /\ aboard[p] \in Crews
  BY DEF PeopleInv, SoundSectors
<1>2. Civ(k, n) \in Int /\ Mil(k, n) \in Int /\ Civ(k, -n) \in Int /\ Mil(k, -n) \in Int
  BY KindAmounts
<1>3. sect' = [sect EXCEPT ![s] = Adjusted(sect[s], p, Civ(k, -n), Mil(k, -n))]
  BY DEF Transfer
<1>4. SoundSectors(sect')
  BY <1>1, <1>2, <1>3, AdjustedSound, OneChanged DEF PeopleInv
<1>5. Boarded(aboard[p], Civ(k, n), Mil(k, n)) \in Crews
  BY <1>1 DEF Transfer, Civ, Mil, Crews, Boarded, Kinds
<1>6. aboard' \in [Players -> Crews]
  BY <1>5 DEF Transfer, PeopleInv
<1> QED
  BY <1>4, <1>6 DEF PeopleInv

LEMMA LandAssaultSound ==
  ASSUME PeopleInv, NEW p \in Players, NEW s \in Sectors, NEW k \in Kinds,
         NEW n \in Amounts,
         LandAssault(p, s, k, n)
  PROVE  PeopleInv'
<1>1. Sound(sect[s]) /\ aboard[p] \in Crews /\ sect[s].owner # Nobody /\ n \in Nat
  BY ColoniesAssumption DEF PeopleInv, SoundSectors, LandAssault, Amounts
<1>2. PICK alive \in 0..n, civ \in 0..sect[s].popn, mil \in 0..sect[s].troops :
      \E bodies \in 0..Fallen(sect[s], p, n, alive, civ, mil) :
        /\ sect' = [sect EXCEPT ![s] = Fought(sect[s], p, k, alive, civ, mil, bodies)]
        /\ aboard' = [aboard EXCEPT ![p] =
             Boarded(aboard[p], Civ(k, Back(alive, civ, mil) - n), Mil(k, Back(alive, civ, mil) - n))]
  BY DEF LandAssault
<1>3. PICK bodies \in 0..Fallen(sect[s], p, n, alive, civ, mil) :
        sect' = [sect EXCEPT ![s] = Fought(sect[s], p, k, alive, civ, mil, bodies)]
  BY <1>2
<1>4. alive \in Nat /\ civ \in Nat /\ mil \in Nat /\ bodies \in Nat
  BY <1>1, SoundFields
<1>5. SoundSectors(sect')
  BY <1>1, <1>3, <1>4, FoughtSound, OneChanged DEF PeopleInv
<1>6. Back(alive, civ, mil) \in 0..n
  BY <1>1 DEF Back
<1>7. n <= Civ(k, aboard[p].popn) + Mil(k, aboard[p].troops)
  BY DEF LandAssault
<1>8. Boarded(aboard[p], Civ(k, Back(alive, civ, mil) - n),
              Mil(k, Back(alive, civ, mil) - n)) \in Crews
  BY <1>1, <1>6, <1>7 DEF Civ, Mil, Crews, Boarded, Kinds
<1>9. aboard' \in [Players -> Crews]
  BY <1>2, <1>8 DEF PeopleInv
<1> QED
  BY <1>5, <1>9 DEF PeopleInv

LEMMA MarchSound ==
  ASSUME PeopleInv, NEW p \in Players, NEW s \in Sectors, NEW t \in Sectors,
         NEW k \in Kinds, NEW n \in Amounts, March(p, s, t, k, n)
  PROVE  PeopleInv'
<1>1. Sound(sect[s]) /\ Sound(sect[t]) /\ s # t /\ n \in Int
  BY DEF PeopleInv, SoundSectors, March, CanMarch, Amounts
<1>2. Civ(k, n) \in Int /\ Mil(k, n) \in Int /\ Civ(k, -n) \in Int /\ Mil(k, -n) \in Int
  BY <1>1, KindAmounts
<1>3. sect' = [sect EXCEPT ![s] = Adjusted(sect[s], p, Civ(k, -n), Mil(k, -n)),
                           ![t] = Adjusted(sect[t], p, Civ(k, n), Mil(k, n))]
  BY <1>1 DEF March
<1>4. SoundSectors(sect')
  BY <1>1, <1>2, <1>3, AdjustedSound, TwoChanged DEF PeopleInv
<1> QED
  BY <1>4 DEF March, PeopleInv

LEMMA AssaultSound ==
  ASSUME PeopleInv, NEW p \in Players, NEW s \in Sectors, NEW t \in Sectors,
         NEW k \in Kinds, NEW n \in Amounts, Assault(p, s, t, k, n)
  PROVE  PeopleInv'
<1> DEFINE origin(away) ==
      Abandoned(Manned(sect[s], sect[s].popn - Civ(k, away), sect[s].troops - Mil(k, away)))
<1>1. /\ Sound(sect[s]) /\ Sound(sect[t]) /\ s # t /\ n \in Nat
      /\ sect[t].owner # Nobody /\ sect[s].owner # Nobody
  BY ColoniesAssumption DEF PeopleInv, SoundSectors, Assault, CanMarch, Amounts
<1>2. PICK alive \in 0..n, civ \in 0..sect[t].popn, mil \in 0..sect[t].troops :
      \E bodies \in 0..Fallen(sect[t], p, n, alive, civ, mil) :
        sect' = [sect EXCEPT ![s] = origin(n - Back(alive, civ, mil)),
                             ![t] = Fought(sect[t], p, k, alive, civ, mil, bodies)]
  BY <1>1 DEF Assault
<1>3. PICK bodies \in 0..Fallen(sect[t], p, n, alive, civ, mil) :
        sect' = [sect EXCEPT ![s] = origin(n - Back(alive, civ, mil)),
                             ![t] = Fought(sect[t], p, k, alive, civ, mil, bodies)]
  BY <1>2
<1>4. alive \in Nat /\ civ \in Nat /\ mil \in Nat /\ bodies \in Nat
  BY <1>1, SoundFields
<1>5. Sound(Fought(sect[t], p, k, alive, civ, mil, bodies))
  BY <1>1, <1>4, FoughtSound
<1>6. n - Back(alive, civ, mil) \in 0..n
  BY <1>1 DEF Back
<1>7. n <= Civ(k, sect[s].popn) + Mil(k, sect[s].troops)
  BY DEF Assault, CanMarch
<1>8. ASSUME NEW away \in 0..n PROVE Sound(origin(away))
  <2>1. sect[s].popn \in Nat /\ sect[s].troops \in Nat
    BY <1>1, SoundFields
  <2>2. sect[s].popn - Civ(k, away) \in Nat /\ sect[s].troops - Mil(k, away) \in Nat
    BY <1>1, <1>7, <2>1 DEF Civ, Mil, Kinds
  <2> QED
    BY <1>1, <2>2, ThinnedSound
<1>9. SoundSectors(sect')
  <2>1. Sound(origin(n - Back(alive, civ, mil)))
    BY <1>6, <1>8
  <2> HIDE DEF origin
  <2> QED
    BY <1>1, <1>3, <1>5, <2>1, TwoChanged DEF PeopleInv
<1> QED
  BY <1>9 DEF Assault, PeopleInv

LEMMA MilitiaSound ==
  ASSUME PeopleInv, NEW p \in Players, NEW s \in Sectors, NEW n \in Int, Militia(p, s, n)
  PROVE  PeopleInv'
<1>1. /\ Sound(sect[s]) /\ sect[s].owner = p
      /\ n <= sect[s].popn /\ -n <= sect[s].troops
  BY DEF PeopleInv, SoundSectors, Militia
<1>2. sect' = [sect EXCEPT ![s] = Manned(sect[s], sect[s].popn - n, sect[s].troops + n)]
  BY DEF Militia
<1>3. /\ sect[s].popn - n \in Nat /\ sect[s].troops + n \in Nat
      /\ (sect[s].popn - n) + (sect[s].troops + n) = sect[s].popn + sect[s].troops
  BY <1>1, SoundFields
<1>4. Sound(Manned(sect[s], sect[s].popn - n, sect[s].troops + n))
  BY <1>1, <1>3, SoundFields, RecordSound DEF Manned
<1>5. SoundSectors(sect')
  BY <1>2, <1>4, OneChanged DEF PeopleInv
<1> QED
  BY <1>5 DEF Militia, PeopleInv

LEMMA WalkSound ==
  ASSUME PeopleInv, NEW p \in Players, NEW s \in Sectors, Walk(p, s)
  PROVE  PeopleInv'
<1>1. Sound(sect[s]) /\ sect[s].owner # Nobody
  BY DEF PeopleInv, SoundSectors, Walk
<1>2. PICK civ \in 0..sect[s].popn, mil \in 0..sect[s].troops :
        sect' = [sect EXCEPT ![s] = Abandoned(Manned(sect[s], civ, mil))]
  BY DEF Walk
<1>3. Sound(Abandoned(Manned(sect[s], civ, mil)))
  BY <1>1, SoundFields, ThinnedSound
<1>4. SoundSectors(sect')
  BY <1>2, <1>3, OneChanged DEF PeopleInv
<1>5. PICK c \in 0..aboard[p].popn, m \in 0..aboard[p].troops :
        aboard' = [aboard EXCEPT ![p] = [popn |-> c, troops |-> m]]
  BY DEF Walk
<1>6. [popn |-> c, troops |-> m] \in Crews
  BY DEF Crews
<1>7. aboard' \in [Players -> Crews]
  BY <1>5, <1>6 DEF PeopleInv
<1> QED
  BY <1>4, <1>7 DEF PeopleInv

\* The boarders that are gone were in the sector, those that moved in are
\* among them; the crew, whose ship it was, only shrinks.
LEMMA CaptureSound ==
  ASSUME PeopleInv, NEW p \in Players, NEW v \in Players, NEW s \in Sectors,
         NEW k \in Kinds, NEW n \in Amounts, Capture(p, v, s, k, n)
  PROVE  PeopleInv'
<1>1. Sound(sect[s]) /\ aboard[p] \in Crews /\ n \in Nat /\ p # v
  BY DEF PeopleInv, SoundSectors, Amounts, Capture
<1>2. PICK civ \in 0..aboard[v].popn, mil \in 0..aboard[v].troops,
           gone \in 0..n, in \in 0..n :
       /\ in <= gone
       /\ aboard' = [aboard EXCEPT ![v] = [popn |-> civ, troops |-> mil],
                                  ![p] = Boarded(aboard[p], Civ(k, in), Mil(k, in))]
       /\ sect' = [sect EXCEPT ![s] = Adjusted(sect[s], p, Civ(k, -gone), Mil(k, -gone))]
       /\ books' = BooksAdjusted(books, sect[s], p, Civ(k, -gone), Mil(k, -gone))
  BY Zenon DEF Capture
<1>4. Civ(k, -gone) \in Int /\ Mil(k, -gone) \in Int
  BY <1>1 DEF Civ, Mil
<1>5. SoundSectors(sect')
  BY <1>1, <1>2, <1>4, AdjustedSound, OneChanged DEF PeopleInv
<1>6. [popn |-> civ, troops |-> mil] \in Crews
  BY DEF Crews
<1>7. Boarded(aboard[p], Civ(k, in), Mil(k, in)) \in Crews
  BY <1>1 DEF Civ, Mil, Crews, Boarded
<1>8. aboard' \in [Players -> Crews]
  BY <1>2, <1>6, <1>7 DEF PeopleInv
<1> QED
  BY <1>5, <1>8 DEF PeopleInv

LEMMA ScrapShipSound ==
  ASSUME PeopleInv, NEW p \in Players, NEW s \in Sectors, ScrapShip(p, s)
  PROVE  PeopleInv'
<1>1. Sound(sect[s]) /\ aboard[p] \in Crews
  BY DEF PeopleInv, SoundSectors
<1>2. PICK civ \in 1..aboard[p].popn, mil \in 0..aboard[p].troops :
       /\ aboard' = [aboard EXCEPT ![p] = Boarded(aboard[p], -civ, -mil)]
       /\ \/ sect' = [sect EXCEPT ![s] = Adjusted(sect[s], p, civ, mil)]
          \/ sect' = sect
  BY DEF ScrapShip
<1>3. civ \in Int /\ mil \in Int
  OBVIOUS
<1>4. SoundSectors(sect')
  BY <1>1, <1>2, <1>3, AdjustedSound, OneChanged DEF PeopleInv
<1>5. Boarded(aboard[p], -civ, -mil) \in Crews
  BY <1>1 DEF Crews, Boarded
<1>6. aboard' \in [Players -> Crews]
  BY <1>2, <1>5 DEF PeopleInv
<1> QED
  BY <1>4, <1>6 DEF PeopleInv

LEMMA DissolveSound ==
  ASSUME PeopleInv, NEW p \in Players, Dissolve(p)
  PROVE  PeopleInv'
<1>1. sect' = [s \in Sectors |-> IF s \in OwnedBy(sect, p) THEN Devastated ELSE sect[s]]
  BY DEF Dissolve, OwnedBy
<1>2. SoundSectors(sect')
  BY <1>1, SomeDevastated DEF PeopleInv
<1>3. [popn |-> 0, troops |-> 0] \in Crews
  BY DEF Crews
<1>4. aboard' \in [Players -> Crews]
  BY <1>3 DEF Dissolve, PeopleInv
<1> QED
  BY <1>2, <1>4 DEF PeopleInv

LEMMA InsurgencySound ==
  ASSUME PeopleInv, NEW p \in Players, NEW v \in Players, Insurgency(p, v)
  PROVE  PeopleInv'
<1>1. PICK R \in SUBSET {s \in OwnedBy(sect, v) : sect[s].popn > 0} \ {{}} :
      \E left \in [R -> Amounts] :
        sect' = [s \in Sectors |-> IF s \in R THEN Revolted(p, left[s]) ELSE sect[s]]
  BY DEF Insurgency
<1>2. PICK left \in [R -> Amounts] :
        sect' = [s \in Sectors |-> IF s \in R THEN Revolted(p, left[s]) ELSE sect[s]]
  BY <1>1
<1>3. ASSUME NEW c \in Amounts PROVE Sound(Revolted(p, c))
  BY ColoniesAssumption, RecordSound DEF Revolted, Amounts, Owners
<1>4. \A s \in Sectors : Sound(sect'[s])
  BY <1>2, <1>3 DEF PeopleInv, SoundSectors
<1>5. sect' = [s \in Sectors |-> sect'[s]]
  BY <1>2
<1>6. SoundSectors(sect')
  BY <1>4, <1>5, AllChanged
<1> QED
  BY <1>6 DEF Insurgency, PeopleInv

\* Commands keep sectors and crews sound.
LEMMA CommandSound ==
  ASSUME PeopleInv, Command
  PROVE  PeopleInv'
<1>1. /\ -MaxPeople \in Int /\ MaxPeople \in Int
      /\ \A n \in (-MaxPeople)..MaxPeople : n \in Int
  BY ColoniesAssumption
<1>2. ASSUME NEW p \in Players, NEW s \in Sectors, ScrapShip(p, s) \/ Walk(p, s)
      PROVE  PeopleInv'
  BY <1>2, ScrapShipSound, WalkSound
<1>3. ASSUME NEW p \in Players, NEW s \in Sectors, NEW n \in (-MaxPeople)..MaxPeople,
             Militia(p, s, n) \/ \E k \in Kinds : Transfer(p, s, k, n)
      PROVE  PeopleInv'
  BY <1>1, <1>3, MilitiaSound, TransferSound
<1>4. ASSUME NEW p \in Players, NEW s \in Sectors, NEW k \in Kinds, NEW n \in Amounts,
             \/ LandAssault(p, s, k, n)
             \/ \E t \in Sectors : March(p, s, t, k, n) \/ Assault(p, s, t, k, n)
             \/ \E v \in Players : Capture(p, v, s, k, n)
      PROVE  PeopleInv'
  BY <1>4, LandAssaultSound, MarchSound, AssaultSound, CaptureSound
<1>5. ASSUME NEW p \in Players,
             Dissolve(p) \/ Enslave(p) \/ (\E v \in Players : Insurgency(p, v))
      PROVE  PeopleInv'
  <2>1. CASE Enslave(p)
    BY <2>1 DEF Enslave, PeopleInv
  <2> QED
    BY <1>5, <2>1, DissolveSound, InsurgencySound
<1> QED
  BY <1>2, <1>3, <1>4, <1>5 DEF Command

-----------------------------------------------------------------------------
(* Turns *)

LEMMA BombardSound ==
  ASSUME PeopleInv, Bombard
  PROVE  PeopleInv'
<1>1. PICK T \in SUBSET {s \in Sectors : sect[s].owner # Nobody} \ {{}} :
      \E after \in [T -> UNION {Hit(sect[s]) : s \in T}] :
        /\ \A s \in T : after[s] \in Hit(sect[s])
        /\ sect' = [s \in Sectors |-> IF s \in T THEN after[s] ELSE sect[s]]
  BY DEF Bombard
<1>2. PICK after \in [T -> UNION {Hit(sect[s]) : s \in T}] :
        /\ \A s \in T : after[s] \in Hit(sect[s])
        /\ sect' = [s \in Sectors |-> IF s \in T THEN after[s] ELSE sect[s]]
  BY <1>1
<1>3. ASSUME NEW s \in T PROVE Sound(after[s])
  <2>1. Sound(sect[s]) /\ sect[s].owner # Nobody
    BY DEF PeopleInv, SoundSectors
  <2>2. PICK civ \in 0..sect[s].popn, mil \in 0..sect[s].troops :
          after[s] = Abandoned(Manned(sect[s], civ, mil))
    BY <1>2 DEF Hit
  <2> QED
    BY <2>1, <2>2, SoundFields, ThinnedSound
<1>4. \A s \in Sectors : Sound(sect'[s])
  BY <1>2, <1>3 DEF PeopleInv, SoundSectors
<1>5. sect' = [s \in Sectors |-> sect'[s]]
  BY <1>2
<1>6. SoundSectors(sect')
  BY <1>4, <1>5, AllChanged
<1> QED
  BY <1>6 DEF Bombard, PeopleInv

LEMMA FamilySound ==
  ASSUME NEW p \in Players
  PROVE  Sound([owner |-> p, popn |-> Sexes[p], troops |-> 0])
<1>1. Sexes[p] \in Nat /\ Sexes[p] # 0 /\ p # Nobody /\ p \in Owners
  BY ColoniesAssumption DEF Owners
<1> QED
  BY <1>1, RecordSound

LEMMA SporeSound ==
  ASSUME PeopleInv, NEW p \in Players, NEW s \in Sectors, Spore(p, s)
  PROVE  PeopleInv'
BY FamilySound, OneChanged DEF Spore, PeopleInv

LEMMA TerraformSound ==
  ASSUME PeopleInv, NEW s \in Sectors, Terraform(s)
  PROVE  PeopleInv'
BY DevastatedSound, OneChanged DEF Terraform, PeopleInv

\* Settlers own what they settle; one family at least stays at home.
LEMMA GrowSound ==
  ASSUME PeopleInv, NEW s \in Sectors, Grow(s)
  PROVE  PeopleInv'
<1>1. Sound(sect[s])
  BY DEF PeopleInv, SoundSectors
<1>2. CASE ~Occupied(sect[s])
  BY <1>2 DEF Grow, PeopleInv
<1>3. CASE Occupied(sect[s])
  <2>1. PICK n \in 0..MaxPeople :
        LET x == Abandoned(Manned(sect[s], n, sect[s].troops))
        IN \E gone \in 0..Spared(x) : \E go \in [Free -> 0..gone] :
             sect' = [t \in Sectors |->
                        IF t = s THEN Manned(x, x.popn - gone, x.troops)
                        ELSE IF t \in Free THEN Settlers(x, go[t]) ELSE sect[t]]
    BY <1>3 DEF Grow
  <2> DEFINE x == Abandoned(Manned(sect[s], n, sect[s].troops))
  <2>2a. PICK gone \in 0..Spared(x) : \E go \in [Free -> 0..gone] :
          sect' = [t \in Sectors |->
                     IF t = s THEN Manned(x, x.popn - gone, x.troops)
                     ELSE IF t \in Free THEN Settlers(x, go[t]) ELSE sect[t]]
    BY <2>1
  <2>2. PICK go \in [Free -> 0..gone] :
          sect' = [t \in Sectors |->
                     IF t = s THEN Manned(x, x.popn - gone, x.troops)
                     ELSE IF t \in Free THEN Settlers(x, go[t]) ELSE sect[t]]
    BY <2>2a
  <2>3. Sound(x)
    <3>1. sect[s].owner # Nobody /\ sect[s].troops \in Nat /\ n \in Nat
      BY <1>1, <1>3, ColoniesAssumption, SoundFields DEF Occupied
    <3> QED
      BY <1>1, <3>1, ThinnedSound
  <2> HIDE DEF x
  <2>4. Spared(x) \in Nat
    BY <2>3, SoundFields, ColoniesAssumption DEF Spared, Owners
  <2>5. Sound(Manned(x, x.popn - gone, x.troops))
    <3>1. CASE gone = 0
      BY <2>3, <3>1, SoundFields, RecordSound DEF Manned
    <3>2. CASE gone # 0
      <4>1. /\ x.owner \in Players /\ Sexes[x.owner] \in Nat \ {0}
            /\ x.popn \in Nat /\ x.troops \in Nat
        BY <2>3, <2>4, <3>2, SoundFields, ColoniesAssumption DEF Spared, Owners
      <4>2. gone <= x.popn - Sexes[x.owner]
        BY <2>4, <3>2, <4>1 DEF Spared
      <4>3. x.popn - gone \in Nat \ {0} /\ x.owner # Nobody /\ x.owner \in Owners
        BY <2>4, <4>1, <4>2, ColoniesAssumption DEF Owners
      <4> QED
        BY <4>1, <4>3, RecordSound DEF Manned
    <3> QED
      BY <3>1, <3>2
  <2>6. ASSUME NEW t \in Free, t # s PROVE Sound(Settlers(x, go[t]))
    <3>1. go[t] \in 0..gone /\ gone \in Nat
      BY <2>4
    <3>2. CASE go[t] = 0
      BY <3>2, DevastatedSound DEF Settlers, Devastated
    <3>3. CASE go[t] > 0
      <4>1. x.owner # Nobody
        <5>1. gone # 0
          BY <3>1, <3>3
        <5> QED
          BY <2>4, <5>1 DEF Spared
      <4> QED
        BY <2>3, <3>1, <3>3, <4>1, SoundFields, RecordSound DEF Settlers
    <3> QED
      BY <3>1, <3>2, <3>3
  <2>7. \A t \in Sectors : Sound(sect'[t])
    BY <2>2, <2>5, <2>6 DEF PeopleInv, SoundSectors
  <2>8. sect' = [t \in Sectors |-> sect'[t]]
    BY <2>2
  <2>9. SoundSectors(sect')
    BY <2>7, <2>8, AllChanged
  <2> QED
    BY <2>9 DEF Grow, PeopleInv
<1> QED
  BY <1>2, <1>3

LEMMA SupernovaSound ==
  ASSUME PeopleInv, Supernova
  PROVE  PeopleInv'
<1>1. CASE sect' = [s \in Sectors |-> Devastated]
  BY <1>1, DevastatedSound, AllChanged DEF Supernova, PeopleInv
<1>2. CASE \E up \in SUBSET Sectors :
             sect' = [s \in Sectors |-> Irradiated(sect[s], s \in up)]
  <2>1. PICK up \in SUBSET Sectors :
          sect' = [s \in Sectors |-> Irradiated(sect[s], s \in up)]
    BY <1>2
  <2>2. ASSUME NEW s \in Sectors
        PROVE  Sound(Irradiated(sect[s], TRUE)) /\ Sound(Irradiated(sect[s], FALSE))
    <3>1. Sound(sect[s])
      BY DEF PeopleInv, SoundSectors
    <3>2. sect[s].popn \in Nat /\ sect[s].troops \in Nat
      BY <3>1, SoundFields
    <3>3. /\ (sect[s].popn + 1) \div 2 \in Nat /\ sect[s].popn \div 2 \in Nat
          /\ (sect[s].popn = 0 => (sect[s].popn + 1) \div 2 = 0 /\ sect[s].popn \div 2 = 0)
      BY <3>2
    <3>4. sect[s].owner = Nobody => sect[s].popn = 0 /\ sect[s].troops = 0
      BY <3>1, <3>2, SoundFields
    <3> QED
      BY <3>1, <3>2, <3>3, <3>4, ThinnedSound DEF Irradiated
  <2>3. ASSUME NEW s \in Sectors PROVE Sound(sect'[s])
    <3>1. sect'[s] = Irradiated(sect[s], s \in up)
      BY Zenon, <2>1
    <3>2. CASE s \in up
      <4>1. Irradiated(sect[s], s \in up) = Irradiated(sect[s], TRUE)
        BY <3>2 DEF Irradiated
      <4> QED
        BY Zenon, <3>1, <4>1, <2>2
    <3>3. CASE s \notin up
      <4>1. Irradiated(sect[s], s \in up) = Irradiated(sect[s], FALSE)
        BY <3>3 DEF Irradiated
      <4> QED
        BY Zenon, <3>1, <4>1, <2>2
    <3> QED
      BY <3>2, <3>3
  <2>4. sect' = [s \in Sectors |-> sect'[s]]
    BY <2>1
  <2>5. SoundSectors(sect')
    BY <2>3, <2>4, AllChanged
  <2> QED
    BY <2>5 DEF Supernova, PeopleInv
<1> QED
  BY <1>1, <1>2 DEF Supernova

LEMMA ExploreSound ==
  ASSUME PeopleInv, Explore
  PROVE  PeopleInv'
<1>1. CASE sect' = sect
  BY <1>1 DEF Explore, PeopleInv
<1>2. CASE \E p \in Players, s \in Free :
             sect' = [sect EXCEPT ![s] = [owner |-> p, popn |-> Sexes[p], troops |-> 0]]
  <2>1. PICK p \in Players, s \in Free :
          sect' = [sect EXCEPT ![s] = [owner |-> p, popn |-> Sexes[p], troops |-> 0]]
    BY <1>2
  <2>2. Sound([owner |-> p, popn |-> Sexes[p], troops |-> 0]) /\ s \in Sectors
    BY FamilySound DEF Free
  <2>3. SoundSectors(sect')
    BY <2>1, <2>2, OneChanged DEF PeopleInv
  <2> QED
    BY <2>3 DEF Explore, PeopleInv
<1> QED
  BY <1>1, <1>2 DEF Explore

LEMMA ToxicSound ==
  ASSUME PeopleInv, ToxicDamage
  PROVE  PeopleInv'
BY DevastatedSound, OneChanged DEF ToxicDamage, PeopleInv

LEMMA RevoltSound ==
  ASSUME PeopleInv, SlaveRevolt
  PROVE  PeopleInv'
<1>1. PICK D \in SUBSET Sectors, M \in SUBSET OwnedBy(sect, slavedTo) :
        sect' = [s \in Sectors |-> IF s \in D \cup M THEN Devastated ELSE sect[s]]
  BY DEF SlaveRevolt
<1>2. SoundSectors(sect')
  BY <1>1, SomeDevastated DEF PeopleInv
<1> QED
  BY <1>2 DEF SlaveRevolt, PeopleInv

LEMMA TurnSound ==
  ASSUME PeopleInv, Turn
  PROVE  PeopleInv'
<1>1. CASE \/ StartTurn \/ EndSegment \/ StartPlanet \/ StartProduction
           \/ EndProduction \/ Census \/ StaysQuiet
  <2>1. sect' = sect /\ aboard' = aboard
    BY <1>1 DEF StartTurn, EndSegment, StartPlanet, StartProduction, EndProduction,
                Census,
                StaysQuiet
  <2> QED
    BY <2>1 DEF PeopleInv
<1>2. CASE Bombard \/ Supernova \/ Explore \/ ToxicDamage \/ SlaveRevolt
  BY <1>2, BombardSound, SupernovaSound, ExploreSound, ToxicSound, RevoltSound
<1>3. ASSUME NEW s \in Sectors, Terraform(s) \/ Grow(s) \/ (\E p \in Players : Spore(p, s))
      PROVE  PeopleInv'
  BY <1>3, TerraformSound, GrowSound, SporeSound
<1> QED
  BY <1>1, <1>2, <1>3 DEF Turn

LEMMA InitSound ==
  ASSUME Init
  PROVE  PeopleInv
<1>1. PICK p \in Players, s \in Sectors :
        sect = [t \in Sectors |->
          IF t = s THEN [owner |-> p, popn |-> Sexes[p], troops |-> 0] ELSE Devastated]
  BY Zenon DEF Init
<1>2. \A t \in Sectors : Sound(sect[t])
  BY <1>1, FamilySound, DevastatedSound
<1>3. sect = [t \in Sectors |-> sect[t]]
  BY <1>1
<1>4. SoundSectors(sect)
  BY <1>2, <1>3, AllChanged
<1>5. aboard \in [Players -> Crews]
  BY ColoniesAssumption DEF Init, Crews
<1> QED
  BY <1>4, <1>5 DEF PeopleInv

LEMMA PeopleStep ==
  ASSUME PeopleInv, [Next]_vars
  PROVE  PeopleInv'
<1>1. CASE UNCHANGED vars
  BY <1>1 DEF vars, PeopleInv
<1>2. CASE Next
  BY <1>2, CommandSound, TurnSound DEF Next
<1> QED
  BY <1>1, <1>2

\* However people come, go, fight or die, a sector has an owner exactly if
\* somebody lives in it (clear_owner_if_empty and its callers).
THEOREM OwnersLiveThere == Spec => []SettledIffOwned
<1>1. Init => PeopleInv
  BY InitSound
<1>2. PeopleInv /\ [Next]_vars => PeopleInv'
  BY PeopleStep
<1>3. PeopleInv => SettledIffOwned
  BY SoundIsSettled DEF PeopleInv
<1> QED
  BY <1>1, <1>2, <1>3, PTL DEF Spec
-----------------------------------------------------------------------------
(* The stages of an update *)

\* Whoever's sectors have been counted as none has none.
CountStands(b, sectors) ==
  \A p \in Players : b.info[p].sects = 0 => OwnedBy(sectors, p) = {}

StageInv ==
  /\ phase \in {"surface", "grow"} => books = EmptyBooks
  /\ phase \in {"islands", "toxic", "recover"} => CountStands(books, sect)

LEMMA CountedStands ==
  ASSUME NEW sectors
  PROVE  CountStands(Counted(EmptyBooks, sectors), sectors)
<1> SUFFICES ASSUME NEW p \in Players, Counted(EmptyBooks, sectors).info[p].sects = 0
             PROVE  OwnedBy(sectors, p) = {}
  BY DEF CountStands
<1>1. Counted(EmptyBooks, sectors).info[p].sects = 0 + Cardinality(OwnedBy(sectors, p))
  BY DEF Counted, EmptyBooks, NoInfo
<1>2. IsFiniteSet(OwnedBy(sectors, p))
  BY ColoniesAssumption, FS_Subset DEF OwnedBy
<1>3. Cardinality(OwnedBy(sectors, p)) = 0
  BY <1>1, <1>2, FS_CardinalityType
<1> QED
  BY <1>2, <1>3, FS_EmptySet

\* An island is settled only by a race that has a sector already.
LEMMA ExploreStands ==
  ASSUME PeopleInv, CountStands(books, sect), Explore
  PROVE  CountStands(books', sect')
<1>1. books' = books
  BY DEF Explore
<1>2. CASE sect' = sect
  BY <1>1, <1>2
<1>3. CASE \E p \in Players, s \in Free :
             /\ books.info[p].sects > 0
             /\ sect' = [sect EXCEPT ![s] = [owner |-> p, popn |-> Sexes[p], troops |-> 0]]
  <2>1. PICK p \in Players, s \in Free :
          /\ books.info[p].sects > 0
          /\ sect' = [sect EXCEPT ![s] = [owner |-> p, popn |-> Sexes[p], troops |-> 0]]
    BY <1>3
  <2>2. \A t \in Sectors : sect'[t].owner = IF t = s THEN p ELSE sect[t].owner
    BY <2>1 DEF PeopleInv, SoundSectors
  <2>3. ASSUME NEW q \in Players, books.info[q].sects = 0 PROVE OwnedBy(sect', q) = {}
    <3>1. q # p /\ OwnedBy(sect, q) = {}
      BY <2>1, <2>3 DEF CountStands
    <3> QED
      BY <2>2, <3>1 DEF OwnedBy
  <2> QED
    BY <1>1, <2>3 DEF CountStands
<1> QED
  BY <1>2, <1>3 DEF Explore

LEMMA ToxicStands ==
  ASSUME PeopleInv, CountStands(books, sect), ToxicDamage
  PROVE  CountStands(books', sect')
<1>1. books' = books
  BY DEF ToxicDamage
<1>2. \A t \in Sectors : sect'[t].owner \in {sect[t].owner, Nobody}
  BY DEF ToxicDamage, PeopleInv, SoundSectors, Devastated
<1>3. ASSUME NEW q \in Players, books.info[q].sects = 0 PROVE OwnedBy(sect', q) = {}
  <2>1. OwnedBy(sect, q) = {}
    BY <1>3 DEF CountStands
  <2> QED
    BY <1>2, <2>1, ColoniesAssumption DEF OwnedBy
<1> QED
  BY <1>1, <1>3 DEF CountStands

LEMMA CommandInPlay ==
  ASSUME Command
  PROVE  phase = "play" /\ phase' = "play"
<1>1. ASSUME NEW p \in Players, NEW s \in Sectors,
             \/ ScrapShip(p, s) \/ Walk(p, s)
             \/ \E k \in Kinds : \E n \in (-MaxPeople)..MaxPeople : n # 0 /\ Transfer(p, s, k, n)
             \/ \E n \in (-MaxPeople)..MaxPeople : n # 0 /\ Militia(p, s, n)
      PROVE  Playing
  BY <1>1 DEF ScrapShip, Walk, Transfer, Militia
<1>2. ASSUME NEW p \in Players, NEW s \in Sectors, NEW k \in Kinds, NEW n \in Amounts,
             \/ LandAssault(p, s, k, n)
             \/ \E t \in Sectors : March(p, s, t, k, n) \/ Assault(p, s, t, k, n)
             \/ \E v \in Players : Capture(p, v, s, k, n)
      PROVE  Playing
  BY <1>2 DEF LandAssault, March, Assault, CanMarch, Capture
<1>3. ASSUME NEW p \in Players,
             Dissolve(p) \/ Enslave(p) \/ (\E v \in Players : Insurgency(p, v))
      PROVE  Playing
  BY <1>3 DEF Dissolve, Enslave, Insurgency
<1>4. Playing
  BY <1>1, <1>2, <1>3 DEF Command
<1> QED
  BY <1>4 DEF Playing

LEMMA StageStep ==
  ASSUME PeopleInv, StageInv, [Next]_vars
  PROVE  StageInv'
<1>1. CASE UNCHANGED vars
  BY <1>1 DEF vars, StageInv, CountStands, OwnedBy
<1>2. CASE Command
  BY <1>2, CommandInPlay DEF StageInv
<1>3. CASE Bombard
  BY <1>3 DEF Bombard, StageInv
<1>4. CASE StartTurn \/ EndSegment \/ StaysQuiet \/ SlaveRevolt \/ Census
           \/ \E p \in Players, s \in Sectors : Spore(p, s)
  <2>1. phase' \in {"ships", "play", "revolt"}
    BY <1>4 DEF StartTurn, EndSegment, StaysQuiet, SlaveRevolt, Census, Spore
  <2> QED
    BY <2>1 DEF StageInv
<1>5. CASE StartPlanet
  BY <1>5 DEF StartPlanet, StageInv, EmptyBooks
<1>6. CASE StartProduction \/ \E s \in Sectors : Terraform(s) \/ Grow(s)
  <2>1. phase \in {"surface", "grow"} /\ phase' \in {"surface", "grow"} /\ books' = books
    BY <1>6 DEF StartProduction, Terraform, Grow
  <2> QED
    BY <2>1 DEF StageInv, EmptyBooks
<1>7. CASE EndProduction \/ Supernova
  <2>1. phase' \in {"islands", "toxic"} /\ books' = Counted(EmptyBooks, sect')
    BY <1>7 DEF EndProduction, Supernova, StageInv
  <2> QED
    BY <2>1, CountedStands DEF StageInv
<1>8. CASE Explore
  <2>1. phase = "islands" /\ phase' = "toxic"
    BY <1>8 DEF Explore
  <2> QED
    BY <1>8, <2>1, ExploreStands DEF StageInv, CountStands, OwnedBy
<1>9. CASE ToxicDamage
  <2>1. phase = "toxic" /\ phase' = "recover"
    BY <1>9 DEF ToxicDamage
  <2> QED
    BY <1>9, <2>1, ToxicStands DEF StageInv, CountStands, OwnedBy
<1> QED
  BY <1>1, <1>2, <1>3, <1>4, <1>5, <1>6, <1>7, <1>8, <1>9 DEF Next, Turn

\* Whom do_recover treats as defeated, on a count made before the census, holds
\* no sector of the planet.
THEOREM PlunderOnlyTheDefeated == Spec => []DefeatedHoldNothing
<1>1. Init => PeopleInv /\ StageInv
  <2>1. Init => phase = "play"
    BY DEF Init
  <2> QED
    BY <2>1, InitSound DEF StageInv
<1>2. PeopleInv /\ StageInv /\ [Next]_vars => (PeopleInv /\ StageInv)'
  BY PeopleStep, StageStep
<1>3. StageInv => DefeatedHoldNothing
  BY DEF StageInv, CountStands, DefeatedHoldNothing, Defeated
<1> QED
  BY <1>1, <1>2, <1>3, PTL DEF Spec
-----------------------------------------------------------------------------
(* The sums *)

LEMMA PeopleTake ==
  ASSUME NEW f, SoundSectors(f), NEW S \in SUBSET Sectors, NEW s \in S
  PROVE  /\ SumPopn(f, S) = f[s].popn + SumPopn(f, S \ {s})
         /\ SumTroops(f, S) = f[s].troops + SumTroops(f, S \ {s})
<1> DEFINE civ == [t \in S |-> f[t].popn]
           mil == [t \in S |-> f[t].troops]
           civRest == [t \in S \ {s} |-> f[t].popn]
           milRest == [t \in S \ {s} |-> f[t].troops]
<1>1. IsFiniteSet(S) /\ IsFiniteSet(S \ {s})
  BY ColoniesAssumption, FS_Subset
<1>2. \A t \in S : f[t].popn \in Int /\ f[t].troops \in Int
  BY SoundFields DEF SoundSectors
<1>3. /\ \A t \in S : civ[t] \in Int /\ mil[t] \in Int
      /\ \A t \in S \ {s} : civRest[t] = civ[t] /\ milRest[t] = mil[t]
      /\ civ[s] = f[s].popn /\ mil[s] = f[s].troops
  BY <1>2
<1>4. SumPopn(f, S) = SumOf(civ, S) /\ SumTroops(f, S) = SumOf(mil, S)
  BY DEF SumPopn, SumTroops
<1>5. /\ SumPopn(f, S \ {s}) = SumOf(civRest, S \ {s})
      /\ SumTroops(f, S \ {s}) = SumOf(milRest, S \ {s})
  BY DEF SumPopn, SumTroops
<1> HIDE DEF civ, mil, civRest, milRest
<1>6. /\ SumOf(civ, S) = civ[s] + SumOf(civ, S \ {s})
      /\ SumOf(mil, S) = mil[s] + SumOf(mil, S \ {s})
  BY <1>1, <1>3, SumTake
<1>7. /\ SumOf(civRest, S \ {s}) = SumOf(civ, S \ {s})
      /\ SumOf(milRest, S \ {s}) = SumOf(mil, S \ {s})
  BY <1>1, <1>3, SumCongruence
<1> QED
  BY <1>3, <1>4, <1>5, <1>6, <1>7

LEMMA PeopleCount ==
  ASSUME NEW f, SoundSectors(f), NEW S \in SUBSET Sectors
  PROVE  SumPopn(f, S) \in Nat /\ SumTroops(f, S) \in Nat
<1> DEFINE civ == [t \in S |-> f[t].popn]
           mil == [t \in S |-> f[t].troops]
<1>1. IsFiniteSet(S)
  BY ColoniesAssumption, FS_Subset
<1>2. \A t \in S : civ[t] \in Nat /\ mil[t] \in Nat
  BY SoundFields DEF SoundSectors
<1>3. SumPopn(f, S) = SumOf(civ, S) /\ SumTroops(f, S) = SumOf(mil, S)
  BY DEF SumPopn, SumTroops
<1> HIDE DEF civ, mil
<1> QED
  BY <1>1, <1>2, <1>3, SumIsNat

LEMMA PeopleSame ==
  ASSUME NEW f, SoundSectors(f), NEW g, NEW S \in SUBSET Sectors,
         \A t \in S : g[t] = f[t]
  PROVE  SumPopn(g, S) = SumPopn(f, S) /\ SumTroops(g, S) = SumTroops(f, S)
<1>1. [t \in S |-> g[t].popn] = [t \in S |-> f[t].popn]
  OBVIOUS
<1>2. [t \in S |-> g[t].troops] = [t \in S |-> f[t].troops]
  OBVIOUS
<1> QED
  BY <1>1, <1>2 DEF SumPopn, SumTroops

\* What a sector adds to the sums of a race.
Part(x, p) ==
  [popn |-> IF x.owner = p THEN x.popn ELSE 0,
   troops |-> IF x.owner = p THEN x.troops ELSE 0,
   sects |-> IF x.owner = p THEN 1 ELSE 0]

LEMMA InfoSplit ==
  ASSUME NEW f, SoundSectors(f), NEW s \in Sectors, NEW p,
         NEW rest, rest = OwnedBy(f, p) \ {s}
  PROVE  /\ InfoOf(f, p).popn = Part(f[s], p).popn + SumPopn(f, rest)
         /\ InfoOf(f, p).troops = Part(f[s], p).troops + SumTroops(f, rest)
         /\ InfoOf(f, p).sects = Part(f[s], p).sects + Cardinality(rest)
         /\ SumPopn(f, rest) \in Nat /\ SumTroops(f, rest) \in Nat
         /\ Cardinality(rest) \in Nat
<1>1. OwnedBy(f, p) \in SUBSET Sectors /\ rest \in SUBSET Sectors
  BY DEF OwnedBy
<1>2. IsFiniteSet(OwnedBy(f, p)) /\ IsFiniteSet(rest)
  BY <1>1, ColoniesAssumption, FS_Subset
<1>3. /\ SumPopn(f, rest) \in Nat /\ SumTroops(f, rest) \in Nat
      /\ Cardinality(rest) \in Nat
  BY <1>1, <1>2, PeopleCount, FS_CardinalityType
<1>4. CASE f[s].owner = p
  <2>1. s \in OwnedBy(f, p)  BY <1>4 DEF OwnedBy
  <2>2. Cardinality(OwnedBy(f, p)) = 1 + Cardinality(rest)
    BY <1>2, <1>3, <2>1, FS_RemoveElement, FS_CardinalityType
  <2>3. /\ SumPopn(f, OwnedBy(f, p)) = f[s].popn + SumPopn(f, rest)
        /\ SumTroops(f, OwnedBy(f, p)) = f[s].troops + SumTroops(f, rest)
    BY <1>1, <2>1, PeopleTake
  <2> QED  BY <1>3, <1>4, <2>2, <2>3 DEF InfoOf, Part
<1>5. CASE f[s].owner # p
  <2>1. rest = OwnedBy(f, p)  BY <1>5 DEF OwnedBy
  <2> QED  BY <1>3, <1>5, <2>1 DEF InfoOf, Part
<1> QED  BY <1>4, <1>5

\* The sums follow the one sector that changes.
LEMMA InfoChange ==
  ASSUME NEW f, SoundSectors(f), NEW g, SoundSectors(g), NEW s \in Sectors,
         \A t \in Sectors \ {s} : g[t] = f[t], NEW p \in Players
  PROVE  InfoOf(g, p) =
    [popn |-> InfoOf(f, p).popn - Part(f[s], p).popn + Part(g[s], p).popn,
     troops |-> InfoOf(f, p).troops - Part(f[s], p).troops + Part(g[s], p).troops,
     sects |-> InfoOf(f, p).sects - Part(f[s], p).sects + Part(g[s], p).sects]
<1> DEFINE rest == OwnedBy(f, p) \ {s}
<1>1. rest = OwnedBy(g, p) \ {s} /\ rest \in SUBSET Sectors
  BY DEF OwnedBy
<1>2. SumPopn(g, rest) = SumPopn(f, rest) /\ SumTroops(g, rest) = SumTroops(f, rest)
  <2>1. \A t \in rest : g[t] = f[t]  BY <1>1
  <2> HIDE DEF rest
  <2> QED  BY <1>1, <2>1, PeopleSame
<1>3. /\ InfoOf(f, p).popn = Part(f[s], p).popn + SumPopn(f, rest)
      /\ InfoOf(f, p).troops = Part(f[s], p).troops + SumTroops(f, rest)
      /\ InfoOf(f, p).sects = Part(f[s], p).sects + Cardinality(rest)
      /\ SumPopn(f, rest) \in Nat /\ SumTroops(f, rest) \in Nat
      /\ Cardinality(rest) \in Nat
  BY InfoSplit
<1>4. /\ InfoOf(g, p).popn = Part(g[s], p).popn + SumPopn(g, rest)
      /\ InfoOf(g, p).troops = Part(g[s], p).troops + SumTroops(g, rest)
      /\ InfoOf(g, p).sects = Part(g[s], p).sects + Cardinality(rest)
  <2> HIDE DEF rest
  <2> QED  BY <1>1, InfoSplit
<1>5. /\ Part(f[s], p).popn \in Nat /\ Part(f[s], p).troops \in Nat
      /\ Part(f[s], p).sects \in Nat /\ Part(g[s], p).popn \in Nat
      /\ Part(g[s], p).troops \in Nat /\ Part(g[s], p).sects \in Nat
  BY SoundFields DEF SoundSectors, Part
<1>6. InfoOf(g, p) = [popn |-> InfoOf(g, p).popn, troops |-> InfoOf(g, p).troops,
                      sects |-> InfoOf(g, p).sects]
  BY DEF InfoOf
<1> HIDE DEF rest
<1>7. /\ InfoOf(g, p).popn = InfoOf(f, p).popn - Part(f[s], p).popn + Part(g[s], p).popn
      /\ InfoOf(g, p).troops =
           InfoOf(f, p).troops - Part(f[s], p).troops + Part(g[s], p).troops
      /\ InfoOf(g, p).sects =
           InfoOf(f, p).sects - Part(f[s], p).sects + Part(g[s], p).sects
  BY <1>2, <1>3, <1>4, <1>5
<1> QED  BY <1>6, <1>7

LEMMA PlanetChange ==
  ASSUME NEW f, SoundSectors(f), NEW g, SoundSectors(g), NEW s \in Sectors,
         \A t \in Sectors \ {s} : g[t] = f[t]
  PROVE  /\ SumPopn(g, Sectors) = SumPopn(f, Sectors) - f[s].popn + g[s].popn
         /\ SumTroops(g, Sectors) = SumTroops(f, Sectors) - f[s].troops + g[s].troops
         /\ f[s].popn <= SumPopn(f, Sectors) /\ f[s].troops <= SumTroops(f, Sectors)
<1> DEFINE rest == Sectors \ {s}
<1>1. rest \in SUBSET Sectors /\ Sectors \in SUBSET Sectors
  OBVIOUS
<1>2. SumPopn(g, rest) = SumPopn(f, rest) /\ SumTroops(g, rest) = SumTroops(f, rest)
  <2>1. \A t \in rest : g[t] = f[t]  OBVIOUS
  <2> HIDE DEF rest
  <2> QED  BY <1>1, <2>1, PeopleSame
<1>3. SumPopn(f, rest) \in Nat /\ SumTroops(f, rest) \in Nat
  <2> HIDE DEF rest
  <2> QED  BY <1>1, PeopleCount
<1>4. /\ SumPopn(f, Sectors) = f[s].popn + SumPopn(f, rest)
      /\ SumTroops(f, Sectors) = f[s].troops + SumTroops(f, rest)
      /\ SumPopn(g, Sectors) = g[s].popn + SumPopn(g, rest)
      /\ SumTroops(g, Sectors) = g[s].troops + SumTroops(g, rest)
  BY <1>1, PeopleTake
<1>5. /\ f[s].popn \in Nat /\ f[s].troops \in Nat
      /\ g[s].popn \in Nat /\ g[s].troops \in Nat
  BY SoundFields DEF SoundSectors
<1> HIDE DEF rest
<1> QED  BY <1>2, <1>3, <1>4, <1>5

LEMMA InfoCovers ==
  ASSUME NEW f, SoundSectors(f), NEW s \in Sectors, NEW p \in Players
  PROVE  /\ InfoOf(f, p).popn \in Nat /\ Part(f[s], p).popn <= InfoOf(f, p).popn
         /\ InfoOf(f, p).troops \in Nat /\ Part(f[s], p).troops <= InfoOf(f, p).troops
         /\ InfoOf(f, p).sects \in Nat /\ Part(f[s], p).sects <= InfoOf(f, p).sects
<1>1. /\ Part(f[s], p).popn \in Nat /\ Part(f[s], p).troops \in Nat
      /\ Part(f[s], p).sects \in Nat
  BY SoundFields DEF SoundSectors, Part
<1> DEFINE rest == OwnedBy(f, p) \ {s}
<1>2. /\ InfoOf(f, p).popn = Part(f[s], p).popn + SumPopn(f, rest)
      /\ InfoOf(f, p).troops = Part(f[s], p).troops + SumTroops(f, rest)
      /\ InfoOf(f, p).sects = Part(f[s], p).sects + Cardinality(rest)
      /\ SumPopn(f, rest) \in Nat /\ SumTroops(f, rest) \in Nat
      /\ Cardinality(rest) \in Nat
  BY InfoSplit
<1> HIDE DEF rest
<1> QED  BY <1>1, <1>2

\* adjust_sector_population's sums are the sums of what it makes of the sector.
LEMMA AdjustKeeps ==
  ASSUME NEW f, SoundSectors(f), NEW s \in Sectors, NEW p \in Players,
         NEW c \in Int, NEW m \in Int, f[s].owner \in {p, Nobody},
         NEW g, SoundSectors(g), g[s] = Adjusted(f[s], p, c, m),
         \A t \in Sectors \ {s} : g[t] = f[t]
  PROVE  BooksAdjusted(Synced(f), f[s], p, c, m) = Synced(g)
<1> DEFINE x == f[s]
           y == Adjusted(f[s], p, c, m)
           claim == Claimant(f[s], p, c, m)
<1>1. /\ x.popn \in Nat /\ x.troops \in Nat /\ x.owner \in {p, Nobody}
      /\ x.owner = Nobody <=> x.popn + x.troops = 0
  BY SoundFields DEF SoundSectors
<1>2. Sound(y)
  BY AdjustedSound DEF SoundSectors
<1>3. /\ y.popn \in Nat /\ y.troops \in Nat
      /\ y.owner = Nobody <=> y.popn + y.troops = 0
  BY <1>2, SoundFields
<1>4. /\ y.popn = Added(x.popn, c) /\ y.troops = Added(x.troops, m)
      /\ y.owner = IF y.popn = 0 /\ y.troops = 0 THEN Nobody ELSE claim
  BY DEF Adjusted, Abandoned
<1>5. /\ claim \in {p, Nobody} /\ p # Nobody
      /\ claim = Nobody => x.owner = Nobody /\ y.popn = 0 /\ y.troops = 0
      /\ claim # x.owner <=> claim = p /\ x.owner = Nobody
  <2>1. claim \in {p, Nobody} /\ p # Nobody
    BY <1>1, ColoniesAssumption DEF Claimant
  <2>2. ASSUME claim = Nobody
        PROVE  x.owner = Nobody /\ y.popn = 0 /\ y.troops = 0
    <3>1. x.owner = Nobody /\ ~(c > 0) /\ ~(m > 0)
      BY <2>1, <2>2 DEF Claimant
    <3>2. x.popn = 0 /\ x.troops = 0
      BY <1>1, <3>1
    <3>3. \A d \in Int : ~(d > 0) => Added(0, d) = 0
      BY DEF Added
    <3> QED  BY <1>4, <3>1, <3>2, <3>3
  <2>3. x.owner = p => claim = p
    BY <2>1 DEF Claimant
  <2> QED  BY <1>1, <2>1, <2>2, <2>3
<1>6. g[s] = y
  OBVIOUS
<1>7. /\ Added(SumPopn(f, Sectors), y.popn - x.popn) = SumPopn(g, Sectors)
      /\ Added(SumTroops(f, Sectors), y.troops - x.troops) = SumTroops(g, Sectors)
  <2>1. /\ SumPopn(g, Sectors) = SumPopn(f, Sectors) - x.popn + y.popn
        /\ SumTroops(g, Sectors) = SumTroops(f, Sectors) - x.troops + y.troops
        /\ x.popn <= SumPopn(f, Sectors) /\ x.troops <= SumTroops(f, Sectors)
    BY PlanetChange
  <2>2. SumPopn(f, Sectors) \in Nat /\ SumTroops(f, Sectors) \in Nat
    BY PeopleCount
  <2> HIDE DEF x, y
  <2> QED  BY <1>1, <1>3, <2>1, <2>2 DEF Added
<1>8. ASSUME NEW q \in Players
      PROVE  InfoOf(g, q) = IF q = claim THEN InfoAdjusted(InfoOf(f, q), x, p, c, m)
                            ELSE InfoOf(f, q)
  <2> DEFINE i == InfoOf(f, q)
             j == InfoOf(g, q)
  <2>1. j = [popn |-> i.popn - Part(x, q).popn + Part(y, q).popn,
             troops |-> i.troops - Part(x, q).troops + Part(y, q).troops,
             sects |-> i.sects - Part(x, q).sects + Part(y, q).sects]
    BY InfoChange
  <2>2. /\ i.popn \in Nat /\ i.troops \in Nat /\ i.sects \in Nat
        /\ Part(x, q).popn <= i.popn /\ Part(x, q).troops <= i.troops
        /\ Part(x, q).sects <= i.sects
    BY InfoCovers
  <2>3. i = [popn |-> i.popn, troops |-> i.troops, sects |-> i.sects]
    BY DEF InfoOf
  <2> HIDE DEF i, j, x, y, claim
  <2>4. CASE q # claim
    <3>1. x.owner # q /\ y.owner # q
      BY <1>1, <1>4, <1>5, <2>4, ColoniesAssumption
    <3>2. j = [popn |-> i.popn, troops |-> i.troops, sects |-> i.sects]
      BY <2>1, <2>2, <3>1 DEF Part
    <3> QED  BY <2>3, <2>4, <3>2 DEF i, j
  <2>5. CASE q = claim
    <3>1. q = p /\ claim = p
      BY <1>5, <2>5, ColoniesAssumption
    <3>2. /\ Part(x, q).popn = x.popn /\ Part(x, q).troops = x.troops
          /\ Part(y, q).popn = y.popn /\ Part(y, q).troops = y.troops
          /\ Part(x, q).sects = IF x.owner = Nobody THEN 0 ELSE 1
          /\ Part(y, q).sects = IF y.owner = Nobody THEN 0 ELSE 1
      BY <1>1, <1>3, <1>4, <1>5, <3>1 DEF Part
    <3>3. /\ Added(i.popn, y.popn - x.popn) = j.popn
          /\ Added(i.troops, y.troops - x.troops) = j.troops
      <4>1. /\ j.popn = i.popn - x.popn + y.popn
            /\ j.troops = i.troops - x.troops + y.troops
        BY <2>1, <3>2
      <4>2. x.popn <= i.popn /\ x.troops <= i.troops
        BY <2>2, <3>2
      <4> QED  BY <1>1, <1>3, <2>2, <4>1, <4>2 DEF Added
    <3> DEFINE held == i.sects + (IF claim # x.owner THEN 1 ELSE 0)
    <3>4. (IF y.owner = Nobody /\ held > 0 THEN held - 1 ELSE held) = j.sects
      <4>1. held = i.sects + (IF x.owner = Nobody THEN 1 ELSE 0)
        BY <1>5, <3>1
      <4>2. held \in Nat /\ held > 0
        BY <2>2, <3>2, <4>1
      <4> HIDE DEF held
      <4> QED  BY <2>1, <2>2, <3>2, <4>1, <4>2
    <3>5. InfoAdjusted(i, x, p, c, m) =
            [popn |-> j.popn, troops |-> j.troops, sects |-> j.sects]
      BY <1>4, <3>3, <3>4 DEF InfoAdjusted, x, y, claim
    <3>6. j = [popn |-> j.popn, troops |-> j.troops, sects |-> j.sects]
      BY <2>1
    <3> QED  BY <2>5, <3>5, <3>6 DEF i, j
  <2> QED  BY <2>4, <2>5 DEF i, j
<1>9. BooksAdjusted(Synced(f), x, p, c, m) =
        [popn |-> Added(SumPopn(f, Sectors), y.popn - x.popn),
         troops |-> Added(SumTroops(f, Sectors), y.troops - x.troops),
         info |-> [q \in Players |->
           IF q = claim THEN InfoAdjusted(InfoOf(f, q), x, p, c, m) ELSE InfoOf(f, q)]]
  BY <1>4 DEF BooksAdjusted, Synced
<1>10. Synced(g) = [popn |-> SumPopn(g, Sectors), troops |-> SumTroops(g, Sectors),
                    info |-> [q \in Players |-> InfoOf(g, q)]]
  BY DEF Synced
<1> HIDE DEF x, y, claim
<1> QED  BY <1>6, <1>7, <1>8, <1>9, <1>10 DEF x

\* arm and disarm: who changes trade changes sums.
LEMMA EnlistKeeps ==
  ASSUME NEW f, SoundSectors(f), NEW s \in Sectors, NEW p \in Players,
         NEW n \in Int, f[s].owner = p, NEW g, SoundSectors(g),
         g[s] = Manned(f[s], f[s].popn - n, f[s].troops + n),
         \A t \in Sectors \ {s} : g[t] = f[t]
  PROVE  Enlisted(Synced(f), p, n) = Synced(g)
<1> DEFINE x == f[s]
<1>1. /\ x.popn \in Nat /\ x.troops \in Nat /\ p # Nobody
  BY SoundFields, ColoniesAssumption DEF SoundSectors
<1>2. /\ g[s].owner = p /\ g[s].popn = x.popn - n /\ g[s].troops = x.troops + n
  BY DEF Manned
<1>3. /\ SumPopn(g, Sectors) = SumPopn(f, Sectors) - n
      /\ SumTroops(g, Sectors) = SumTroops(f, Sectors) + n
  <2>1. SumPopn(f, Sectors) \in Nat /\ SumTroops(f, Sectors) \in Nat
    BY PeopleCount
  <2>2. /\ SumPopn(g, Sectors) = SumPopn(f, Sectors) - x.popn + g[s].popn
        /\ SumTroops(g, Sectors) = SumTroops(f, Sectors) - x.troops + g[s].troops
    BY PlanetChange
  <2> QED  BY <1>1, <1>2, <2>1, <2>2
<1>4. ASSUME NEW q \in Players
      PROVE  InfoOf(g, q) = IF q = p THEN InfoEnlisted(InfoOf(f, q), n) ELSE InfoOf(f, q)
  <2> DEFINE i == InfoOf(f, q)
  <2>1. InfoOf(g, q) = [popn |-> i.popn - Part(x, q).popn + Part(g[s], q).popn,
                        troops |-> i.troops - Part(x, q).troops + Part(g[s], q).troops,
                        sects |-> i.sects - Part(x, q).sects + Part(g[s], q).sects]
    BY InfoChange
  <2>2. i.popn \in Nat /\ i.troops \in Nat /\ i.sects \in Nat
    BY InfoCovers
  <2>3. i = [popn |-> i.popn, troops |-> i.troops, sects |-> i.sects]
    BY DEF InfoOf
  <2>4. /\ Part(x, q).popn = IF q = p THEN x.popn ELSE 0
        /\ Part(x, q).troops = IF q = p THEN x.troops ELSE 0
        /\ Part(g[s], q).popn = IF q = p THEN x.popn - n ELSE 0
        /\ Part(g[s], q).troops = IF q = p THEN x.troops + n ELSE 0
        /\ Part(x, q).sects = Part(g[s], q).sects
        /\ Part(x, q).sects \in Nat
    BY <1>2 DEF Part
  <2> HIDE DEF i, x
  <2> QED  BY <1>1, <2>1, <2>2, <2>3, <2>4 DEF i, InfoEnlisted
<1>5. Enlisted(Synced(f), p, n) =
        [popn |-> SumPopn(f, Sectors) - n, troops |-> SumTroops(f, Sectors) + n,
         info |-> [q \in Players |->
           IF q = p THEN InfoEnlisted(InfoOf(f, q), n) ELSE InfoOf(f, q)]]
  BY DEF Enlisted, Synced
<1> QED  BY <1>3, <1>4, <1>5 DEF Synced

\* The census leaves nobody out: there is nobody in what nobody owns.
LEMMA CensusIsSynced ==
  ASSUME NEW f, SoundSectors(f)
  PROVE  CensusOf(f) = Synced(f)
<1> DEFINE owned == {s \in Sectors : f[s].owner # Nobody}
           civ == [t \in Sectors |-> f[t].popn]
           mil == [t \in Sectors |-> f[t].troops]
           civOwned == [t \in owned |-> f[t].popn]
           milOwned == [t \in owned |-> f[t].troops]
<1>1. IsFiniteSet(Sectors) /\ owned \in SUBSET Sectors
  BY ColoniesAssumption
<1>2. /\ \A t \in Sectors : civ[t] \in Int /\ mil[t] \in Int
      /\ \A t \in Sectors \ owned : civ[t] = 0 /\ mil[t] = 0
  BY SoundFields DEF SoundSectors
<1>3. \A t \in owned : civOwned[t] = civ[t] /\ milOwned[t] = mil[t]
  OBVIOUS
<1>4. CensusOf(f) = [popn |-> SumOf(civOwned, owned), troops |-> SumOf(milOwned, owned),
                     info |-> [p \in Players |-> InfoOf(f, p)]]
  BY DEF CensusOf, SumPopn, SumTroops
<1>5. Synced(f) = [popn |-> SumOf(civ, Sectors), troops |-> SumOf(mil, Sectors),
                   info |-> [p \in Players |-> InfoOf(f, p)]]
  BY DEF Synced, SumPopn, SumTroops
<1> HIDE DEF owned, civ, mil, civOwned, milOwned
<1>6. IsFiniteSet(owned)
  BY <1>1, FS_Subset
<1>7. /\ SumOf(civOwned, owned) = SumOf(civ, owned)
      /\ SumOf(milOwned, owned) = SumOf(mil, owned)
  BY <1>1, <1>2, <1>3, <1>6, SumCongruence
<1>8. SumOf(civ, owned) = SumOf(civ, Sectors) /\ SumOf(mil, owned) = SumOf(mil, Sectors)
  BY <1>1, <1>2, SumOverSupport
<1> QED  BY <1>4, <1>5, <1>7, <1>8

\* Where the code keeps the sums: at play, among ships, after the census.
Kept == phase \in {"play", "ships", "revolt"} /\ drift = 0
BooksInv == drift \in Nat /\ (Kept => books = Synced(sect))

LEMMA OneReplaced ==
  ASSUME SoundSectors(sect), NEW s \in Sectors, NEW y, sect' = [sect EXCEPT ![s] = y]
  PROVE  sect'[s] = y /\ \A t \in Sectors \ {s} : sect'[t] = sect[t]
BY DEF SoundSectors

LEMMA OneAdjusted ==
  ASSUME SoundSectors(sect), SoundSectors(sect'), NEW s \in Sectors, NEW p \in Players,
         NEW c \in Int, NEW m \in Int, sect[s].owner \in {p, Nobody},
         sect'[s] = Adjusted(sect[s], p, c, m),
         \A t \in Sectors \ {s} : sect'[t] = sect[t],
         books = Synced(sect), books' = BooksAdjusted(books, sect[s], p, c, m)
  PROVE  books' = Synced(sect')
<1>1. BooksAdjusted(Synced(sect), sect[s], p, c, m) = Synced(sect')
  BY AdjustKeeps
<1> QED  BY <1>1

LEMMA TransferBooks ==
  ASSUME PeopleInv, BooksInv, NEW p \in Players, NEW s \in Sectors, NEW k \in Kinds,
         NEW n \in Int, Transfer(p, s, k, n), PeopleInv'
  PROVE  BooksInv'
<1>1. Civ(k, -n) \in Int /\ Mil(k, -n) \in Int
  BY KindAmounts
<1>2. /\ sect' = [sect EXCEPT ![s] = Adjusted(sect[s], p, Civ(k, -n), Mil(k, -n))]
      /\ books' = BooksAdjusted(books, sect[s], p, Civ(k, -n), Mil(k, -n))
      /\ sect[s].owner \in {p, Nobody} /\ drift' = drift /\ phase' = phase
  BY DEF Transfer, Playing
<1>3. /\ sect'[s] = Adjusted(sect[s], p, Civ(k, -n), Mil(k, -n))
      /\ \A t \in Sectors \ {s} : sect'[t] = sect[t]
  BY <1>2, OneReplaced DEF PeopleInv
<1>4. /\ books' = BooksAdjusted(books, sect[s], p, Civ(k, -n), Mil(k, -n))
      /\ sect[s].owner \in {p, Nobody} /\ drift' = drift /\ phase' = phase
  BY <1>2
<1>5. Kept => books' = Synced(sect')
  BY <1>1, <1>3, <1>4, OneAdjusted DEF PeopleInv, BooksInv
<1> QED  BY <1>4, <1>5 DEF BooksInv, Kept

LEMMA MarchBooks ==
  ASSUME PeopleInv, BooksInv, NEW p \in Players, NEW s \in Sectors, NEW t \in Sectors,
         NEW k \in Kinds, NEW n \in Amounts, March(p, s, t, k, n)
  PROVE  BooksInv'
<1> DEFINE y == Adjusted(sect[s], p, Civ(k, -n), Mil(k, -n))
           z == Adjusted(sect[t], p, Civ(k, n), Mil(k, n))
           f == [sect EXCEPT ![s] = y]
<1>1. n \in Int /\ s # t /\ sect[s].owner = p /\ sect[t].owner \in {p, Nobody}
  BY DEF Amounts, March, CanMarch
<1>2. /\ Civ(k, n) \in Int /\ Mil(k, n) \in Int
      /\ Civ(k, -n) \in Int /\ Mil(k, -n) \in Int
  BY <1>1, KindAmounts
<1>3. /\ sect' = [sect EXCEPT ![s] = y, ![t] = z]
      /\ books' = BooksAdjusted(BooksAdjusted(books, sect[s], p, Civ(k, -n), Mil(k, -n)),
                                sect[t], p, Civ(k, n), Mil(k, n))
      /\ drift' = drift /\ phase' = phase
  BY <1>1 DEF March, CanMarch, Playing
<1>4. Sound(y) /\ Sound(z) /\ SoundSectors(sect)
  BY <1>2, AdjustedSound DEF PeopleInv, SoundSectors
<1> HIDE DEF y, z
<1>5. SoundSectors(f) /\ SoundSectors(sect')
  BY <1>1, <1>3, <1>4, OneChanged, TwoChanged
<1>6. /\ f[s] = y /\ \A u \in Sectors \ {s} : f[u] = sect[u]
      /\ sect'[t] = z /\ \A u \in Sectors \ {t} : sect'[u] = f[u]
  BY <1>1, <1>3, <1>4 DEF SoundSectors
<1> HIDE DEF f
<1>7. BooksAdjusted(Synced(sect), sect[s], p, Civ(k, -n), Mil(k, -n)) = Synced(f)
  BY <1>1, <1>2, <1>4, <1>5, <1>6, AdjustKeeps DEF y
<1>8. BooksAdjusted(Synced(f), f[t], p, Civ(k, n), Mil(k, n)) = Synced(sect')
  <2>1. f[t] = sect[t]
    BY <1>1, <1>6
  <2>2. sect'[t] = Adjusted(f[t], p, Civ(k, n), Mil(k, n))
    BY <1>6, <2>1 DEF z
  <2>3. f[t].owner \in {p, Nobody}
    BY <1>1, <2>1
  <2> QED  BY <1>2, <1>5, <1>6, <2>2, <2>3, AdjustKeeps
<1>9. Kept => books' = Synced(sect')
  BY <1>1, <1>3, <1>6, <1>7, <1>8 DEF BooksInv
<1> QED  BY <1>3, <1>9 DEF BooksInv, Kept

LEMMA MilitiaBooks ==
  ASSUME PeopleInv, BooksInv, NEW p \in Players, NEW s \in Sectors, NEW n \in Int,
         Militia(p, s, n), PeopleInv'
  PROVE  BooksInv'
<1>1. /\ sect' = [sect EXCEPT ![s] = Manned(sect[s], sect[s].popn - n, sect[s].troops + n)]
      /\ books' = Enlisted(books, p, n) /\ sect[s].owner = p
      /\ drift' = drift /\ phase' = phase
  BY DEF Militia, Playing
<1>2. SoundSectors(sect) /\ SoundSectors(sect')
  BY DEF PeopleInv
<1>3. /\ sect'[s] = Manned(sect[s], sect[s].popn - n, sect[s].troops + n)
      /\ \A t \in Sectors \ {s} : sect'[t] = sect[t]
  BY <1>1, <1>2, OneReplaced
<1>4. Enlisted(Synced(sect), p, n) = Synced(sect')
  <2>1. sect[s].owner = p  BY <1>1
  <2> QED  BY <1>2, <1>3, <2>1, EnlistKeeps
<1> QED  BY <1>1, <1>4 DEF BooksInv, Kept

LEMMA CaptureBooks ==
  ASSUME PeopleInv, BooksInv, NEW p \in Players, NEW v \in Players, NEW s \in Sectors,
         NEW k \in Kinds, NEW n \in Amounts, Capture(p, v, s, k, n), PeopleInv'
  PROVE  BooksInv'
<1>1. PICK civ \in 0..aboard[v].popn, mil \in 0..aboard[v].troops,
           gone \in 0..n, in \in 0..n :
       /\ in <= gone
       /\ aboard' = [aboard EXCEPT ![v] = [popn |-> civ, troops |-> mil],
                                  ![p] = Boarded(aboard[p], Civ(k, in), Mil(k, in))]
       /\ sect' = [sect EXCEPT ![s] = Adjusted(sect[s], p, Civ(k, -gone), Mil(k, -gone))]
       /\ books' = BooksAdjusted(books, sect[s], p, Civ(k, -gone), Mil(k, -gone))
  BY Zenon DEF Capture
<1>2. Civ(k, -gone) \in Int /\ Mil(k, -gone) \in Int
  <2>1. -gone \in Int  BY DEF Amounts
  <2> QED  BY <2>1 DEF Civ, Mil
<1>3. sect[s].owner \in {p, Nobody} /\ drift' = drift /\ phase' = phase
  BY DEF Capture, Playing
<1>4. /\ sect'[s] = Adjusted(sect[s], p, Civ(k, -gone), Mil(k, -gone))
      /\ \A t \in Sectors \ {s} : sect'[t] = sect[t]
  BY <1>1, OneReplaced DEF PeopleInv
<1>5. books' = BooksAdjusted(books, sect[s], p, Civ(k, -gone), Mil(k, -gone))
  BY <1>1
<1>6. Kept => books' = Synced(sect')
  BY <1>2, <1>3, <1>4, <1>5, OneAdjusted DEF PeopleInv, BooksInv
<1> QED  BY <1>3, <1>6 DEF BooksInv, Kept

LEMMA ScrapShipBooks ==
  ASSUME PeopleInv, BooksInv, NEW p \in Players, NEW s \in Sectors, ScrapShip(p, s),
         PeopleInv'
  PROVE  BooksInv'
<1>1. drift' = drift /\ phase' = phase
  BY DEF ScrapShip, Playing
<1>2. PICK civ \in 1..aboard[p].popn, mil \in 0..aboard[p].troops :
       IF sect[s].owner \in {p, Nobody}
         THEN /\ sect' = [sect EXCEPT ![s] = Adjusted(sect[s], p, civ, mil)]
              /\ books' = BooksAdjusted(books, sect[s], p, civ, mil)
         ELSE UNCHANGED <<sect, books>>
  BY DEF ScrapShip
<1>3. CASE sect[s].owner \in {p, Nobody}
  <2>1. civ \in Int /\ mil \in Int
    OBVIOUS
  <2>2. /\ sect'[s] = Adjusted(sect[s], p, civ, mil)
        /\ \A t \in Sectors \ {s} : sect'[t] = sect[t]
    BY <1>2, <1>3, OneReplaced DEF PeopleInv
  <2>3. books' = BooksAdjusted(books, sect[s], p, civ, mil)
    BY <1>2, <1>3
  <2>4. Kept => books' = Synced(sect')
    BY <1>3, <2>1, <2>2, <2>3, OneAdjusted DEF PeopleInv, BooksInv
  <2> QED  BY <1>1, <2>4 DEF BooksInv, Kept
<1>4. CASE sect[s].owner \notin {p, Nobody}
  <2>1. sect' = sect /\ books' = books
    BY <1>2, <1>4
  <2>2. Synced(sect') = Synced(sect)
    BY <2>1
  <2> QED  BY <1>1, <2>1, <2>2 DEF BooksInv, Kept
<1> QED  BY <1>3, <1>4

\* A battle, a dissolution and an insurgency add the sums up anew.
LEMMA SyncedBooks ==
  ASSUME books' = Synced(sect'), drift' = 0
  PROVE  BooksInv'
BY DEF BooksInv

LEMMA CommandBooks ==
  ASSUME PeopleInv, BooksInv, PeopleInv', Command
  PROVE  BooksInv'
<1>1. \A n \in (-MaxPeople)..MaxPeople : n \in Int
  BY ColoniesAssumption
<1>2. ASSUME NEW p \in Players, NEW s \in Sectors, ScrapShip(p, s) \/ Walk(p, s)
      PROVE  BooksInv'
  BY <1>2, ScrapShipBooks, SyncedBooks DEF Walk
<1>3. ASSUME NEW p \in Players, NEW s \in Sectors, NEW n \in (-MaxPeople)..MaxPeople,
             Militia(p, s, n) \/ \E k \in Kinds : Transfer(p, s, k, n)
      PROVE  BooksInv'
  BY <1>1, <1>3, MilitiaBooks, TransferBooks
<1>4. ASSUME NEW p \in Players, NEW s \in Sectors, NEW k \in Kinds, NEW n \in Amounts,
             \/ LandAssault(p, s, k, n)
             \/ \E t \in Sectors : March(p, s, t, k, n) \/ Assault(p, s, t, k, n)
             \/ \E v \in Players : Capture(p, v, s, k, n)
      PROVE  BooksInv'
  <2>1. CASE LandAssault(p, s, k, n)
    BY <2>1, SyncedBooks DEF LandAssault
  <2>2. ASSUME NEW t \in Sectors, March(p, s, t, k, n) PROVE BooksInv'
    BY <2>2, MarchBooks
  <2>3. ASSUME NEW t \in Sectors, Assault(p, s, t, k, n) PROVE BooksInv'
    BY <2>3, SyncedBooks DEF Assault
  <2>4. ASSUME NEW v \in Players, Capture(p, v, s, k, n) PROVE BooksInv'
    BY <2>4, CaptureBooks
  <2> QED  BY <1>4, <2>1, <2>2, <2>3, <2>4
<1>5. ASSUME NEW p \in Players,
             Dissolve(p) \/ Enslave(p) \/ (\E v \in Players : Insurgency(p, v))
      PROVE  BooksInv'
  <2>1. CASE Dissolve(p)
    BY <2>1, SyncedBooks DEF Dissolve
  <2>2. CASE Enslave(p)
    <3>1. UNCHANGED <<sect, books, drift, phase>>  BY <2>2 DEF Enslave, Playing
    <3>2. Synced(sect') = Synced(sect)  BY <3>1
    <3> QED  BY <3>1, <3>2 DEF BooksInv, Kept
  <2>3. ASSUME NEW v \in Players, Insurgency(p, v) PROVE BooksInv'
    BY <2>3, SyncedBooks DEF Insurgency
  <2> QED  BY <1>5, <2>1, <2>2, <2>3
<1> QED  BY <1>2, <1>3, <1>4, <1>5 DEF Command

LEMMA TurnBooks ==
  ASSUME PeopleInv, BooksInv, Turn
  PROVE  BooksInv'
<1>1. CASE Bombard \/ \E p \in Players, s \in Sectors : Spore(p, s)
  <2>1. drift' = drift + 1  BY <1>1 DEF Bombard, Spore
  <2> QED  BY <2>1 DEF BooksInv, Kept
<1>2. CASE StartTurn \/ EndSegment \/ StaysQuiet
  <2>1. UNCHANGED <<sect, books, drift>> /\ phase \in {"play", "ships", "revolt"}
    BY <1>2 DEF StartTurn, EndSegment, StaysQuiet
  <2>2. Synced(sect') = Synced(sect)  BY <2>1
  <2> QED  BY <2>1, <2>2 DEF BooksInv, Kept
<1>3. CASE \/ StartPlanet \/ StartProduction \/ EndProduction \/ Supernova
           \/ Explore \/ ToxicDamage \/ \E s \in Sectors : Terraform(s) \/ Grow(s)
  <2>1. drift' = drift /\ phase' \notin {"play", "ships", "revolt"}
    BY <1>3 DEF StartPlanet, StartProduction, EndProduction, Supernova, Explore,
                ToxicDamage, Terraform, Grow
  <2> QED  BY <2>1 DEF BooksInv, Kept
<1>4. CASE Census
  <2>1. books' = CensusOf(sect) /\ drift' = 0 /\ sect' = sect
    BY <1>4 DEF Census
  <2>2. books' = Synced(sect)
    BY <2>1, CensusIsSynced DEF PeopleInv
  <2>3. Synced(sect') = Synced(sect)
    BY <2>1
  <2> QED  BY <2>1, <2>2, <2>3, SyncedBooks
<1>5. CASE SlaveRevolt
  <2>1. /\ phase = "revolt" /\ books' = books
        /\ drift' = IF sect' = sect THEN drift ELSE drift + 1
    BY <1>5 DEF SlaveRevolt
  <2>2. CASE sect' = sect
    <3>1. Synced(sect') = Synced(sect)  BY <2>2
    <3> QED  BY <2>1, <2>2, <3>1 DEF BooksInv, Kept
  <2>3. CASE sect' # sect
    <3>1. drift' = drift + 1  BY <2>1, <2>3
    <3> QED  BY <3>1 DEF BooksInv, Kept
  <2> QED  BY <2>2, <2>3
<1> QED  BY <1>1, <1>2, <1>3, <1>4, <1>5 DEF Turn

LEMMA BooksStep ==
  ASSUME PeopleInv, BooksInv, PeopleInv', [Next]_vars
  PROVE  BooksInv'
<1>1. CASE UNCHANGED vars
  <2>1. UNCHANGED <<sect, books, drift, phase>>  BY <1>1 DEF vars
  <2>2. Synced(sect') = Synced(sect)  BY <2>1
  <2> QED  BY <2>1, <2>2 DEF BooksInv, Kept
<1> QED  BY <1>1, CommandBooks, TurnBooks DEF Next

\* The sums every rule about a colony reads are those of its sectors, for the
\* planet and for each race, wherever the code promises to keep them: after any
\* command but bombardment, and again after the census of every update
\* (adjust_sector_population, sync_demographics, recalculate_census).
THEOREM SumsAreThePeople == Spec => []BooksExact
<1>1. Init => PeopleInv /\ BooksInv
  <2>1. Init => drift = 1
    BY DEF Init
  <2> QED
    BY <2>1, InitSound DEF BooksInv, Kept
<1>2. PeopleInv /\ BooksInv /\ [Next]_vars => (PeopleInv /\ BooksInv)'
  BY PeopleStep, BooksStep
<1>3. BooksInv => BooksExact
  BY DEF BooksInv, Kept, BooksExact
<1> QED
  BY <1>1, <1>2, <1>3, PTL DEF Spec

-----------------------------------------------------------------------------
(* People *)

Heads(x) == x.popn + x.troops
InSectors(f) == SumOf([s \in Sectors |-> f[s].popn + f[s].troops], Sectors)
InShips(a) == SumOf([p \in Players |-> a[p].popn + a[p].troops], Players)

LEMMA HeadCount ==
  /\ \A x : Sound(x) => Heads(x) \in Nat
  /\ \A x \in Crews : Heads(x) \in Nat
BY SoundFields DEF Heads, Crews

LEMMA SectorsBounded ==
  ASSUME NEW f, SoundSectors(f), NEW g, SoundSectors(g),
         \A s \in Sectors : Heads(g[s]) <= Heads(f[s])
  PROVE  /\ InSectors(f) \in Int /\ InSectors(g) \in Int
         /\ InSectors(g) <= InSectors(f)
<1> DEFINE u == [s \in Sectors |-> f[s].popn + f[s].troops]
           v == [s \in Sectors |-> g[s].popn + g[s].troops]
<1>1. \A s \in Sectors : u[s] \in Int /\ v[s] \in Int /\ v[s] <= u[s]
  BY HeadCount DEF SoundSectors, Heads
<1>2. InSectors(f) = SumOf(u, Sectors) /\ InSectors(g) = SumOf(v, Sectors)
  BY DEF InSectors
<1> HIDE DEF u, v
<1>3. IsFiniteSet(Sectors)  BY ColoniesAssumption
<1>4. SumOf(u, Sectors) \in Int /\ SumOf(v, Sectors) \in Int
  BY <1>1, <1>3, SumIsInt
<1>5. SumOf(v, Sectors) <= SumOf(u, Sectors)
  BY <1>1, <1>3, SumBounded
<1> QED  BY <1>2, <1>4, <1>5

LEMMA SectorChanged ==
  ASSUME NEW f, SoundSectors(f), NEW g, SoundSectors(g), NEW s \in Sectors,
         \A t \in Sectors \ {s} : g[t] = f[t]
  PROVE  /\ InSectors(f) \in Int
         /\ InSectors(g) = InSectors(f) - Heads(f[s]) + Heads(g[s])
<1> DEFINE u == [t \in Sectors |-> f[t].popn + f[t].troops]
           v == [t \in Sectors |-> g[t].popn + g[t].troops]
<1>1. /\ \A t \in Sectors : u[t] \in Int /\ v[t] \in Int
      /\ \A t \in Sectors \ {s} : v[t] = u[t]
      /\ u[s] = Heads(f[s]) /\ v[s] = Heads(g[s])
  BY HeadCount DEF SoundSectors, Heads
<1>2. InSectors(f) = SumOf(u, Sectors) /\ InSectors(g) = SumOf(v, Sectors)
  BY DEF InSectors
<1> HIDE DEF u, v
<1>3. IsFiniteSet(Sectors)  BY ColoniesAssumption
<1>4. SumOf(u, Sectors) \in Int
  BY <1>1, <1>3, SumIsInt
<1>5. SumOf(v, Sectors) = SumOf(u, Sectors) - u[s] + v[s]
  BY <1>1, <1>3, SumChange
<1> QED  BY <1>1, <1>2, <1>4, <1>5

LEMMA SectorsChanged ==
  ASSUME NEW f, SoundSectors(f), NEW g, SoundSectors(g),
         NEW s \in Sectors, NEW t \in Sectors, s # t,
         \A u \in Sectors \ {s, t} : g[u] = f[u]
  PROVE  /\ InSectors(f) \in Int
         /\ InSectors(g) = InSectors(f) - Heads(f[s]) - Heads(f[t])
                             + Heads(g[s]) + Heads(g[t])
<1> DEFINE u == [q \in Sectors |-> f[q].popn + f[q].troops]
           v == [q \in Sectors |-> g[q].popn + g[q].troops]
<1>1. /\ \A q \in Sectors : u[q] \in Int /\ v[q] \in Int
      /\ \A q \in Sectors \ {s, t} : v[q] = u[q]
      /\ u[s] = Heads(f[s]) /\ v[s] = Heads(g[s])
      /\ u[t] = Heads(f[t]) /\ v[t] = Heads(g[t])
  BY HeadCount DEF SoundSectors, Heads
<1>2. InSectors(f) = SumOf(u, Sectors) /\ InSectors(g) = SumOf(v, Sectors)
  BY DEF InSectors
<1> HIDE DEF u, v
<1>3. IsFiniteSet(Sectors)  BY ColoniesAssumption
<1>4. SumOf(u, Sectors) \in Int
  BY <1>1, <1>3, SumIsInt
<1>5. SumOf(v, Sectors) = SumOf(u, Sectors) - u[s] - u[t] + v[s] + v[t]
  BY <1>1, <1>3, SumMove
<1> QED  BY <1>1, <1>2, <1>4, <1>5

LEMMA ShipsBounded ==
  ASSUME NEW a \in [Players -> Crews], NEW b \in [Players -> Crews],
         \A p \in Players : Heads(b[p]) <= Heads(a[p])
  PROVE  /\ InShips(a) \in Int /\ InShips(b) \in Int
         /\ InShips(b) <= InShips(a)
<1> DEFINE u == [p \in Players |-> a[p].popn + a[p].troops]
           v == [p \in Players |-> b[p].popn + b[p].troops]
<1>1. \A p \in Players : u[p] \in Int /\ v[p] \in Int /\ v[p] <= u[p]
  BY HeadCount DEF Heads
<1>2. InShips(a) = SumOf(u, Players) /\ InShips(b) = SumOf(v, Players)
  BY DEF InShips
<1> HIDE DEF u, v
<1>3. IsFiniteSet(Players)  BY ColoniesAssumption
<1>4. SumOf(u, Players) \in Int /\ SumOf(v, Players) \in Int
  BY <1>1, <1>3, SumIsInt
<1>5. SumOf(v, Players) <= SumOf(u, Players)
  BY <1>1, <1>3, SumBounded
<1> QED  BY <1>2, <1>4, <1>5

LEMMA ShipsChanged ==
  ASSUME NEW a \in [Players -> Crews], NEW b \in [Players -> Crews], NEW p \in Players,
         \A q \in Players \ {p} : b[q] = a[q]
  PROVE  /\ InShips(a) \in Int
         /\ InShips(b) = InShips(a) - Heads(a[p]) + Heads(b[p])
<1> DEFINE u == [q \in Players |-> a[q].popn + a[q].troops]
           v == [q \in Players |-> b[q].popn + b[q].troops]
<1>1. /\ \A q \in Players : u[q] \in Int /\ v[q] \in Int
      /\ \A q \in Players \ {p} : v[q] = u[q]
      /\ u[p] = Heads(a[p]) /\ v[p] = Heads(b[p])
  BY HeadCount DEF Heads
<1>2. InShips(a) = SumOf(u, Players) /\ InShips(b) = SumOf(v, Players)
  BY DEF InShips
<1> HIDE DEF u, v
<1>3. IsFiniteSet(Players)  BY ColoniesAssumption
<1>4. SumOf(u, Players) \in Int
  BY <1>1, <1>3, SumIsInt
<1>5. SumOf(v, Players) = SumOf(u, Players) - u[p] + v[p]
  BY <1>1, <1>3, SumChange
<1> QED  BY <1>1, <1>2, <1>4, <1>5

LEMMA TwoCrewsChanged ==
  ASSUME NEW a \in [Players -> Crews], NEW b \in [Players -> Crews],
         NEW p \in Players, NEW v \in Players, p # v,
         \A q \in Players \ {p, v} : b[q] = a[q]
  PROVE  /\ InShips(a) \in Int
         /\ InShips(b) = InShips(a) - Heads(a[p]) - Heads(a[v])
                           + Heads(b[p]) + Heads(b[v])
<1> DEFINE u == [q \in Players |-> a[q].popn + a[q].troops]
           w == [q \in Players |-> b[q].popn + b[q].troops]
<1>1. /\ \A q \in Players : u[q] \in Int /\ w[q] \in Int
      /\ \A q \in Players \ {p, v} : w[q] = u[q]
      /\ u[p] = Heads(a[p]) /\ w[p] = Heads(b[p])
      /\ u[v] = Heads(a[v]) /\ w[v] = Heads(b[v])
  BY HeadCount DEF Heads
<1>2. InShips(a) = SumOf(u, Players) /\ InShips(b) = SumOf(w, Players)
  BY DEF InShips
<1> HIDE DEF u, w
<1>3. IsFiniteSet(Players)  BY ColoniesAssumption
<1>4. SumOf(u, Players) \in Int
  BY <1>1, <1>3, SumIsInt
<1>5. SumOf(w, Players) = SumOf(u, Players) - u[p] - u[v] + w[p] + w[v]
  BY <1>1, <1>3, SumMove
<1> QED  BY <1>1, <1>2, <1>4, <1>5

LEMMA TotalSplit ==
  ASSUME NEW f, NEW a
  PROVE  Total(f, a) = InSectors(f) + InShips(a)
BY DEF Total, InSectors, InShips

\* Who is added to a sector or taken from it is as many as was meant.
LEMMA AdjustedHeads ==
  ASSUME NEW x, Sound(x), NEW p, NEW k \in Kinds, NEW d \in Int,
         -d <= Civ(k, x.popn) + Mil(k, x.troops)
  PROVE  Heads(Adjusted(x, p, Civ(k, d), Mil(k, d))) = Heads(x) + d
<1>1. x.popn \in Nat /\ x.troops \in Nat
  BY SoundFields
<1>2. Added(x.popn, Civ(k, d)) + Added(x.troops, Mil(k, d)) = x.popn + x.troops + d
  BY <1>1 DEF Added, Civ, Mil, Kinds
<1>3. Heads(Adjusted(x, p, Civ(k, d), Mil(k, d))) =
        Added(x.popn, Civ(k, d)) + Added(x.troops, Mil(k, d))
  BY DEF Heads, Adjusted, Abandoned
<1> QED  BY <1>2, <1>3 DEF Heads

LEMMA BoardedHeads ==
  ASSUME NEW a \in Crews, NEW k \in Kinds, NEW d \in Int
  PROVE  Heads(Boarded(a, Civ(k, d), Mil(k, d))) = Heads(a) + d
BY DEF Heads, Boarded, Civ, Mil, Kinds, Crews

\* The winner absorbs no more than fell.
LEMMA FoughtHeads ==
  ASSUME NEW x, Sound(x), NEW p \in Players, NEW k \in Kinds, NEW n \in Nat,
         NEW alive \in 0..n, NEW civ \in 0..x.popn, NEW mil \in 0..x.troops,
         NEW bodies \in 0..Fallen(x, p, n, alive, civ, mil)
  PROVE  /\ Back(alive, civ, mil) \in 0..n
         /\ Heads(Fought(x, p, k, alive, civ, mil, bodies)) + Back(alive, civ, mil)
              <= Heads(x) + n
<1>1. x.popn \in Nat /\ x.troops \in Nat
  BY SoundFields
<1>2. CASE Repelled(civ, mil)
  <2>1. bodies \in Nat /\ bodies <= n - alive
    BY <1>2 DEF Fallen
  <2>2. Heads(Fought(x, p, k, alive, civ, mil, bodies)) = civ + bodies + mil
    BY <1>2 DEF Heads, Fought, Manned
  <2>3. Back(alive, civ, mil) = alive
    BY <1>2 DEF Back
  <2> QED  BY <1>1, <2>1, <2>2, <2>3 DEF Heads
<1>3. CASE ~Repelled(civ, mil)
  <2>1. bodies \in Nat /\ bodies <= x.popn + x.troops
    BY <1>1, <1>3 DEF Fallen
  <2>2. Heads(Fought(x, p, k, alive, civ, mil, bodies))
          = Civ(k, alive) + bodies + Mil(k, alive)
    BY <1>3 DEF Heads, Fought, Abandoned
  <2>3. /\ Civ(k, alive) + Mil(k, alive) = alive
        /\ Civ(k, alive) \in Nat /\ Mil(k, alive) \in Nat
    BY DEF Civ, Mil, Kinds
  <2>4. Back(alive, civ, mil) = 0
    BY <1>3 DEF Back
  <2> QED  BY <1>1, <2>1, <2>2, <2>3, <2>4 DEF Heads
<1> QED  BY <1>2, <1>3

LEMMA CrewReplaced ==
  ASSUME aboard \in [Players -> Crews], NEW p \in Players, NEW a,
         aboard' = [aboard EXCEPT ![p] = a]
  PROVE  aboard'[p] = a /\ \A q \in Players \ {p} : aboard'[q] = aboard[q]
OBVIOUS

LEMMA TransferHeads ==
  ASSUME PeopleInv, PeopleInv', NEW p \in Players, NEW s \in Sectors, NEW k \in Kinds,
         NEW n \in Int, Transfer(p, s, k, n)
  PROVE  Total(sect', aboard') = Total(sect, aboard) /\ Total(sect, aboard) \in Int
<1>1. /\ SoundSectors(sect) /\ SoundSectors(sect') /\ Sound(sect[s])
      /\ aboard \in [Players -> Crews] /\ aboard' \in [Players -> Crews]
      /\ aboard[p] \in Crews
  BY DEF PeopleInv, SoundSectors
<1>2. /\ sect'[s] = Adjusted(sect[s], p, Civ(k, -n), Mil(k, -n))
      /\ \A t \in Sectors \ {s} : sect'[t] = sect[t]
  BY <1>1, OneReplaced DEF Transfer
<1>3. /\ aboard'[p] = Boarded(aboard[p], Civ(k, n), Mil(k, n))
      /\ \A q \in Players \ {p} : aboard'[q] = aboard[q]
  BY <1>1, CrewReplaced DEF Transfer
<1>4. Heads(sect'[s]) = Heads(sect[s]) + (-n)
  <2>1. -n \in Int /\ -(-n) <= Civ(k, sect[s].popn) + Mil(k, sect[s].troops)
    BY <1>1, SoundFields DEF Transfer, Civ, Mil, Kinds
  <2> QED  BY <1>1, <1>2, <2>1, AdjustedHeads
<1>5. Heads(aboard'[p]) = Heads(aboard[p]) + n
  BY <1>1, <1>3, BoardedHeads
<1>6. /\ InSectors(sect) \in Int
      /\ InSectors(sect') = InSectors(sect) - Heads(sect[s]) + Heads(sect'[s])
  BY <1>1, <1>2, SectorChanged
<1>7. /\ InShips(aboard) \in Int
      /\ InShips(aboard') = InShips(aboard) - Heads(aboard[p]) + Heads(aboard'[p])
  BY <1>1, <1>3, ShipsChanged
<1>8. Heads(sect[s]) \in Int /\ Heads(aboard[p]) \in Int
  BY <1>1, HeadCount
<1> QED  BY <1>4, <1>5, <1>6, <1>7, <1>8, TotalSplit

LEMMA MarchHeads ==
  ASSUME PeopleInv, PeopleInv', NEW p \in Players, NEW s \in Sectors, NEW t \in Sectors,
         NEW k \in Kinds, NEW n \in Amounts, March(p, s, t, k, n)
  PROVE  Total(sect', aboard') = Total(sect, aboard) /\ Total(sect, aboard) \in Int
<1>1. /\ SoundSectors(sect) /\ SoundSectors(sect') /\ Sound(sect[s]) /\ Sound(sect[t])
      /\ aboard \in [Players -> Crews] /\ aboard' = aboard
      /\ s # t /\ n \in Nat
  BY DEF PeopleInv, SoundSectors, March, CanMarch, Amounts
<1>2. sect' = [sect EXCEPT ![s] = Adjusted(sect[s], p, Civ(k, -n), Mil(k, -n)),
                           ![t] = Adjusted(sect[t], p, Civ(k, n), Mil(k, n))]
  BY <1>1 DEF March
<1>3. /\ sect'[s] = Adjusted(sect[s], p, Civ(k, -n), Mil(k, -n))
      /\ sect'[t] = Adjusted(sect[t], p, Civ(k, n), Mil(k, n))
      /\ \A u \in Sectors \ {s, t} : sect'[u] = sect[u]
  BY <1>1, <1>2 DEF SoundSectors
<1>4. Heads(sect'[s]) = Heads(sect[s]) + (-n)
  <2>1. -n \in Int /\ -(-n) <= Civ(k, sect[s].popn) + Mil(k, sect[s].troops)
    BY <1>1, SoundFields DEF March, CanMarch, Civ, Mil, Kinds
  <2> QED  BY <1>1, <1>3, <2>1, AdjustedHeads
<1>5. Heads(sect'[t]) = Heads(sect[t]) + n
  <2>1. n \in Int /\ -n <= Civ(k, sect[t].popn) + Mil(k, sect[t].troops)
    BY <1>1, SoundFields DEF Civ, Mil, Kinds
  <2> QED  BY <1>1, <1>3, <2>1, AdjustedHeads
<1>6. /\ InSectors(sect) \in Int
      /\ InSectors(sect') = InSectors(sect) - Heads(sect[s]) - Heads(sect[t])
                              + Heads(sect'[s]) + Heads(sect'[t])
  BY <1>1, <1>3, SectorsChanged
<1>7. InShips(aboard) \in Int /\ InShips(aboard') = InShips(aboard)
  BY <1>1, ShipsBounded, HeadCount
<1>8. Heads(sect[s]) \in Int /\ Heads(sect[t]) \in Int
  BY <1>1, HeadCount
<1> QED  BY <1>1, <1>4, <1>5, <1>6, <1>7, <1>8, TotalSplit

LEMMA MilitiaHeads ==
  ASSUME PeopleInv, PeopleInv', NEW p \in Players, NEW s \in Sectors, NEW n \in Int,
         Militia(p, s, n)
  PROVE  Total(sect', aboard') = Total(sect, aboard) /\ Total(sect, aboard) \in Int
<1>1. /\ SoundSectors(sect) /\ SoundSectors(sect') /\ Sound(sect[s])
      /\ aboard \in [Players -> Crews] /\ aboard' = aboard
  BY DEF PeopleInv, SoundSectors, Militia
<1>2. /\ sect'[s] = Manned(sect[s], sect[s].popn - n, sect[s].troops + n)
      /\ \A t \in Sectors \ {s} : sect'[t] = sect[t]
  BY <1>1, OneReplaced DEF Militia
<1>3. Heads(sect'[s]) = Heads(sect[s])
  BY <1>1, <1>2, SoundFields DEF Manned, Heads
<1>4. /\ InSectors(sect) \in Int
      /\ InSectors(sect') = InSectors(sect) - Heads(sect[s]) + Heads(sect'[s])
  BY <1>1, <1>2, SectorChanged
<1>5. InShips(aboard) \in Int /\ InShips(aboard') = InShips(aboard)
  BY <1>1, ShipsBounded, HeadCount
<1>6. Heads(sect[s]) \in Int
  BY <1>1, HeadCount
<1> QED  BY <1>3, <1>4, <1>5, <1>6, TotalSplit

LEMMA LandAssaultHeads ==
  ASSUME PeopleInv, PeopleInv', NEW p \in Players, NEW s \in Sectors, NEW k \in Kinds,
         NEW n \in Amounts, LandAssault(p, s, k, n)
  PROVE  Total(sect', aboard') <= Total(sect, aboard) /\ Total(sect, aboard) \in Int
<1>1. /\ SoundSectors(sect) /\ SoundSectors(sect') /\ Sound(sect[s])
      /\ aboard \in [Players -> Crews] /\ aboard' \in [Players -> Crews]
      /\ aboard[p] \in Crews /\ n \in Nat
  BY DEF PeopleInv, SoundSectors, Amounts
<1>2a. PICK alive \in 0..n, civ \in 0..sect[s].popn, mil \in 0..sect[s].troops :
       \E bodies \in 0..Fallen(sect[s], p, n, alive, civ, mil) :
        /\ sect' = [sect EXCEPT ![s] = Fought(sect[s], p, k, alive, civ, mil, bodies)]
        /\ aboard' = [aboard EXCEPT ![p] =
             Boarded(aboard[p], Civ(k, Back(alive, civ, mil) - n),
                                Mil(k, Back(alive, civ, mil) - n))]
  BY DEF LandAssault
<1>2. PICK bodies \in 0..Fallen(sect[s], p, n, alive, civ, mil) :
        /\ sect' = [sect EXCEPT ![s] = Fought(sect[s], p, k, alive, civ, mil, bodies)]
        /\ aboard' = [aboard EXCEPT ![p] =
             Boarded(aboard[p], Civ(k, Back(alive, civ, mil) - n),
                                Mil(k, Back(alive, civ, mil) - n))]
  BY <1>2a
<1> DEFINE back == Back(alive, civ, mil)
<1>3. /\ sect'[s] = Fought(sect[s], p, k, alive, civ, mil, bodies)
      /\ \A t \in Sectors \ {s} : sect'[t] = sect[t]
  BY <1>1, <1>2, OneReplaced
<1>4. /\ aboard'[p] = Boarded(aboard[p], Civ(k, back - n), Mil(k, back - n))
      /\ \A q \in Players \ {p} : aboard'[q] = aboard[q]
  BY <1>1, <1>2, CrewReplaced
<1>5. back \in 0..n /\ Heads(sect'[s]) + back <= Heads(sect[s]) + n
  BY <1>1, <1>3, FoughtHeads
<1> HIDE DEF back
<1>6. Heads(aboard'[p]) = Heads(aboard[p]) + (back - n)
  <2>1. back - n \in Int  BY <1>1, <1>5
  <2> QED  BY <1>1, <1>4, <2>1, BoardedHeads
<1>7. /\ InSectors(sect) \in Int
      /\ InSectors(sect') = InSectors(sect) - Heads(sect[s]) + Heads(sect'[s])
  BY <1>1, <1>3, SectorChanged
<1>8. /\ InShips(aboard) \in Int
      /\ InShips(aboard') = InShips(aboard) - Heads(aboard[p]) + Heads(aboard'[p])
  BY <1>1, <1>4, ShipsChanged
<1>9. Heads(sect[s]) \in Int /\ Heads(aboard[p]) \in Int /\ Heads(sect'[s]) \in Int
  <2>1. Sound(sect'[s])  BY <1>1 DEF SoundSectors
  <2> QED  BY <1>1, <2>1, HeadCount
<1> QED  BY <1>1, <1>5, <1>6, <1>7, <1>8, <1>9, TotalSplit

LEMMA AssaultHeads ==
  ASSUME PeopleInv, PeopleInv', NEW p \in Players, NEW s \in Sectors, NEW t \in Sectors,
         NEW k \in Kinds, NEW n \in Amounts, Assault(p, s, t, k, n)
  PROVE  Total(sect', aboard') <= Total(sect, aboard) /\ Total(sect, aboard) \in Int
<1> DEFINE origin(away) ==
      Abandoned(Manned(sect[s], sect[s].popn - Civ(k, away), sect[s].troops - Mil(k, away)))
<1>1. /\ SoundSectors(sect) /\ SoundSectors(sect') /\ Sound(sect[s]) /\ Sound(sect[t])
      /\ aboard \in [Players -> Crews] /\ aboard' = aboard
      /\ s # t /\ n \in Nat
  BY DEF PeopleInv, SoundSectors, Assault, CanMarch, Amounts
<1>2a. PICK alive \in 0..n, civ \in 0..sect[t].popn, mil \in 0..sect[t].troops :
      \E bodies \in 0..Fallen(sect[t], p, n, alive, civ, mil) :
        sect' = [sect EXCEPT ![s] = origin(n - Back(alive, civ, mil)),
                             ![t] = Fought(sect[t], p, k, alive, civ, mil, bodies)]
  BY <1>1 DEF Assault
<1>2. PICK bodies \in 0..Fallen(sect[t], p, n, alive, civ, mil) :
        sect' = [sect EXCEPT ![s] = origin(n - Back(alive, civ, mil)),
                             ![t] = Fought(sect[t], p, k, alive, civ, mil, bodies)]
  BY <1>2a
<1> DEFINE back == Back(alive, civ, mil)
<1>3. /\ sect'[s] = origin(n - back)
      /\ sect'[t] = Fought(sect[t], p, k, alive, civ, mil, bodies)
      /\ \A u \in Sectors \ {s, t} : sect'[u] = sect[u]
  <2> HIDE DEF origin
  <2> QED  BY <1>1, <1>2 DEF SoundSectors
<1>4. back \in 0..n /\ Heads(sect'[t]) + back <= Heads(sect[t]) + n
  BY <1>1, <1>3, FoughtHeads
<1>5. Heads(sect'[s]) = Heads(sect[s]) - (n - back)
  <2>1. Heads(sect'[s]) = (sect[s].popn - Civ(k, n - back)) + (sect[s].troops - Mil(k, n - back))
    BY <1>3 DEF Heads, Abandoned, Manned
  <2> HIDE DEF back
  <2> QED  BY <1>1, <1>4, <2>1, SoundFields DEF Heads, Civ, Mil, Kinds
<1> HIDE DEF back
<1>6. /\ InSectors(sect) \in Int
      /\ InSectors(sect') = InSectors(sect) - Heads(sect[s]) - Heads(sect[t])
                              + Heads(sect'[s]) + Heads(sect'[t])
  BY <1>1, <1>3, SectorsChanged
<1>7. InShips(aboard) \in Int /\ InShips(aboard') = InShips(aboard)
  BY <1>1, ShipsBounded, HeadCount
<1>8. Heads(sect[s]) \in Int /\ Heads(sect[t]) \in Int /\ Heads(sect'[t]) \in Int
  <2>1. Sound(sect'[t])  BY <1>1 DEF SoundSectors
  <2> QED  BY <1>1, <2>1, HeadCount
<1> QED  BY <1>1, <1>4, <1>5, <1>6, <1>7, <1>8, TotalSplit

LEMMA CaptureHeads ==
  ASSUME PeopleInv, PeopleInv', NEW p \in Players, NEW v \in Players, NEW s \in Sectors,
         NEW k \in Kinds, NEW n \in Amounts, Capture(p, v, s, k, n)
  PROVE  Total(sect', aboard') <= Total(sect, aboard) /\ Total(sect, aboard) \in Int
<1>1. /\ SoundSectors(sect) /\ SoundSectors(sect') /\ Sound(sect[s])
      /\ aboard \in [Players -> Crews] /\ aboard' \in [Players -> Crews]
      /\ aboard[p] \in Crews /\ aboard[v] \in Crews /\ p # v /\ n \in Nat
      /\ n <= Civ(k, sect[s].popn) + Mil(k, sect[s].troops)
  BY DEF PeopleInv, SoundSectors, Amounts, Capture
<1>2. PICK civ \in 0..aboard[v].popn, mil \in 0..aboard[v].troops,
           gone \in 0..n, in \in 0..n :
       /\ in <= gone
       /\ aboard' = [aboard EXCEPT ![v] = [popn |-> civ, troops |-> mil],
                                  ![p] = Boarded(aboard[p], Civ(k, in), Mil(k, in))]
       /\ sect' = [sect EXCEPT ![s] = Adjusted(sect[s], p, Civ(k, -gone), Mil(k, -gone))]
       /\ books' = BooksAdjusted(books, sect[s], p, Civ(k, -gone), Mil(k, -gone))
  BY Zenon DEF Capture
<1>3. /\ sect'[s] = Adjusted(sect[s], p, Civ(k, -gone), Mil(k, -gone))
      /\ \A t \in Sectors \ {s} : sect'[t] = sect[t]
  BY <1>1, <1>2, OneReplaced
<1>4. /\ aboard'[v] = [popn |-> civ, troops |-> mil]
      /\ aboard'[p] = Boarded(aboard[p], Civ(k, in), Mil(k, in))
      /\ \A q \in Players \ {p, v} : aboard'[q] = aboard[q]
  BY <1>1, <1>2
<1>5. gone \in Nat /\ gone <= n /\ in \in Int /\ in <= gone
  BY <1>1, <1>2
<1>6. Heads(sect'[s]) = Heads(sect[s]) + (-gone)
  <2>1. -gone \in Int /\ -(-gone) <= Civ(k, sect[s].popn) + Mil(k, sect[s].troops)
    BY <1>1, <1>5, SoundFields DEF Civ, Mil, Kinds
  <2> QED  BY <1>1, <1>3, <2>1, AdjustedHeads
<1>7. Heads(aboard'[p]) = Heads(aboard[p]) + in
  BY <1>1, <1>4, <1>5, BoardedHeads
<1>8. Heads(aboard'[v]) <= Heads(aboard[v]) /\ Heads(aboard'[v]) \in Int
  BY <1>1, <1>4 DEF Heads, Crews
<1>9. /\ InSectors(sect) \in Int
      /\ InSectors(sect') = InSectors(sect) - Heads(sect[s]) + Heads(sect'[s])
  BY <1>1, <1>3, SectorChanged
<1>10. /\ InShips(aboard) \in Int
       /\ InShips(aboard') = InShips(aboard) - Heads(aboard[p]) - Heads(aboard[v])
                               + Heads(aboard'[p]) + Heads(aboard'[v])
  BY <1>1, <1>4, TwoCrewsChanged
<1>11. Heads(sect[s]) \in Int /\ Heads(aboard[p]) \in Int /\ Heads(aboard[v]) \in Int
  BY <1>1, HeadCount
<1> QED  BY <1>5, <1>6, <1>7, <1>8, <1>9, <1>10, <1>11, TotalSplit

LEMMA ScrapShipHeads ==
  ASSUME PeopleInv, PeopleInv', NEW p \in Players, NEW s \in Sectors, ScrapShip(p, s)
  PROVE  Total(sect', aboard') <= Total(sect, aboard) /\ Total(sect, aboard) \in Int
<1>1. /\ SoundSectors(sect) /\ SoundSectors(sect') /\ Sound(sect[s])
      /\ aboard \in [Players -> Crews] /\ aboard' \in [Players -> Crews]
      /\ aboard[p] \in Crews
  BY DEF PeopleInv, SoundSectors
<1>2. PICK civ \in 1..aboard[p].popn, mil \in 0..aboard[p].troops :
       /\ aboard' = [aboard EXCEPT ![p] = Boarded(aboard[p], -civ, -mil)]
       /\ \/ sect' = [sect EXCEPT ![s] = Adjusted(sect[s], p, civ, mil)]
          \/ sect' = sect
  BY DEF ScrapShip
<1>3. civ \in Nat /\ mil \in Nat
  BY <1>1 DEF Crews
<1>4. /\ aboard'[p] = Boarded(aboard[p], -civ, -mil)
      /\ \A q \in Players \ {p} : aboard'[q] = aboard[q]
  BY <1>1, <1>2, CrewReplaced
<1>5. Heads(aboard'[p]) = Heads(aboard[p]) - (civ + mil)
  BY <1>1, <1>3, <1>4 DEF Heads, Boarded, Crews
<1>6. /\ Heads(sect'[s]) <= Heads(sect[s]) + (civ + mil)
      /\ \A t \in Sectors \ {s} : sect'[t] = sect[t]
  <2>1. CASE sect' = sect
    BY <1>1, <1>3, <2>1, HeadCount
  <2>2. CASE sect' = [sect EXCEPT ![s] = Adjusted(sect[s], p, civ, mil)]
    <3>1. /\ sect'[s] = Adjusted(sect[s], p, civ, mil)
          /\ \A t \in Sectors \ {s} : sect'[t] = sect[t]
      BY <1>1, <2>2, OneReplaced
    <3>2. Heads(sect'[s]) = Heads(sect[s]) + (civ + mil)
      BY <1>1, <1>3, <3>1, SoundFields DEF Heads, Adjusted, Abandoned, Added
    <3>3. Heads(sect[s]) \in Int
      BY <1>1, HeadCount
    <3> QED  BY <1>3, <3>1, <3>2, <3>3
  <2> QED  BY <1>2, <2>1, <2>2
<1>7. /\ InSectors(sect) \in Int
      /\ InSectors(sect') = InSectors(sect) - Heads(sect[s]) + Heads(sect'[s])
  BY <1>1, <1>6, SectorChanged
<1>8. /\ InShips(aboard) \in Int
      /\ InShips(aboard') = InShips(aboard) - Heads(aboard[p]) + Heads(aboard'[p])
  BY <1>1, <1>4, ShipsChanged
<1>9. Heads(sect[s]) \in Int /\ Heads(aboard[p]) \in Int /\ Heads(sect'[s]) \in Int
  <2>1. Sound(sect'[s])  BY <1>1 DEF SoundSectors
  <2> QED  BY <1>1, <2>1, HeadCount
<1> QED  BY <1>3, <1>5, <1>6, <1>7, <1>8, <1>9, TotalSplit

\* Sectors and crews that only lose people.
LEMMA OnlyLosses ==
  ASSUME PeopleInv, PeopleInv',
         \A s \in Sectors : Heads(sect'[s]) <= Heads(sect[s]),
         \A p \in Players : Heads(aboard'[p]) <= Heads(aboard[p])
  PROVE  Total(sect', aboard') <= Total(sect, aboard) /\ Total(sect, aboard) \in Int
<1>1. /\ SoundSectors(sect) /\ SoundSectors(sect')
      /\ aboard \in [Players -> Crews] /\ aboard' \in [Players -> Crews]
  BY DEF PeopleInv
<1>2. /\ InSectors(sect) \in Int /\ InSectors(sect') \in Int
      /\ InSectors(sect') <= InSectors(sect)
  BY <1>1, SectorsBounded
<1>3. /\ InShips(aboard) \in Int /\ InShips(aboard') \in Int
      /\ InShips(aboard') <= InShips(aboard)
  BY <1>1, ShipsBounded
<1> QED  BY <1>2, <1>3, TotalSplit

LEMMA CommandLosses ==
  ASSUME PeopleInv, PeopleInv', NEW p \in Players,
         \/ \E s \in Sectors : Walk(p, s)
         \/ Dissolve(p) \/ Enslave(p) \/ \E v \in Players : Insurgency(p, v)
  PROVE  Total(sect', aboard') <= Total(sect, aboard) /\ Total(sect, aboard) \in Int
<1>1. /\ \A s \in Sectors : Sound(sect[s]) /\ Heads(sect[s]) \in Nat
      /\ \A q \in Players : aboard[q] \in Crews /\ Heads(aboard[q]) \in Nat
      /\ SoundSectors(sect) /\ aboard \in [Players -> Crews]
  BY HeadCount DEF PeopleInv, SoundSectors
<1>2. ASSUME NEW s \in Sectors, Walk(p, s)
      PROVE  /\ \A t \in Sectors : Heads(sect'[t]) <= Heads(sect[t])
             /\ \A q \in Players : Heads(aboard'[q]) <= Heads(aboard[q])
  <2>1. PICK civ \in 0..sect[s].popn, mil \in 0..sect[s].troops :
          sect' = [sect EXCEPT ![s] = Abandoned(Manned(sect[s], civ, mil))]
    BY <1>2 DEF Walk
  <2>2. PICK c \in 0..aboard[p].popn, m \in 0..aboard[p].troops :
          aboard' = [aboard EXCEPT ![p] = [popn |-> c, troops |-> m]]
    BY <1>2 DEF Walk
  <2>3. /\ sect'[s] = Abandoned(Manned(sect[s], civ, mil))
        /\ \A t \in Sectors \ {s} : sect'[t] = sect[t]
    BY <1>1, <2>1, OneReplaced
  <2>4. /\ aboard'[p] = [popn |-> c, troops |-> m]
        /\ \A q \in Players \ {p} : aboard'[q] = aboard[q]
    BY <1>1, <2>2, CrewReplaced
  <2>5. Heads(sect'[s]) <= Heads(sect[s])
    BY <1>1, <2>3, SoundFields DEF Heads, Abandoned, Manned
  <2>6. Heads(aboard'[p]) <= Heads(aboard[p])
    BY <1>1, <2>4 DEF Heads, Crews
  <2> QED  BY <1>1, <2>3, <2>4, <2>5, <2>6
<1>3. ASSUME Dissolve(p)
      PROVE  /\ \A t \in Sectors : Heads(sect'[t]) <= Heads(sect[t])
             /\ \A q \in Players : Heads(aboard'[q]) <= Heads(aboard[q])
  <2>1. \A t \in Sectors : sect'[t] = Devastated \/ sect'[t] = sect[t]
    BY <1>3 DEF Dissolve
  <2>2. /\ aboard'[p] = [popn |-> 0, troops |-> 0]
        /\ \A q \in Players \ {p} : aboard'[q] = aboard[q]
    BY <1>1, <1>3, CrewReplaced DEF Dissolve
  <2>3. Heads(Devastated) = 0 /\ Heads([popn |-> 0, troops |-> 0]) = 0
    BY DEF Heads, Devastated
  <2> QED  BY <1>1, <2>1, <2>2, <2>3
<1>4. ASSUME Enslave(p)
      PROVE  /\ \A t \in Sectors : Heads(sect'[t]) <= Heads(sect[t])
             /\ \A q \in Players : Heads(aboard'[q]) <= Heads(aboard[q])
  <2>1. sect' = sect /\ aboard' = aboard  BY <1>4 DEF Enslave
  <2> QED  BY <1>1, <2>1
<1>5. ASSUME NEW v \in Players, Insurgency(p, v)
      PROVE  /\ \A t \in Sectors : Heads(sect'[t]) <= Heads(sect[t])
             /\ \A q \in Players : Heads(aboard'[q]) <= Heads(aboard[q])
  <2>1a. PICK R \in SUBSET {s \in OwnedBy(sect, v) : sect[s].popn > 0} \ {{}} :
         \E left \in [R -> Amounts] :
          /\ \A s \in R : left[s] <= sect[s].popn
          /\ sect' = [s \in Sectors |->
               IF s \in R THEN Revolted(p, left[s]) ELSE sect[s]]
    BY <1>5 DEF Insurgency
  <2>1. PICK left \in [R -> Amounts] :
          /\ \A s \in R : left[s] <= sect[s].popn
          /\ sect' = [s \in Sectors |->
               IF s \in R THEN Revolted(p, left[s]) ELSE sect[s]]
    BY <2>1a
  <2>2. ASSUME NEW t \in Sectors PROVE Heads(sect'[t]) <= Heads(sect[t])
    <3>1. CASE t \in R
      <4>1. Heads(sect'[t]) = left[t] /\ left[t] <= sect[t].popn /\ left[t] \in Int
        BY <2>1, <3>1 DEF Heads, Revolted, Amounts
      <4>2. sect[t].popn \in Nat /\ sect[t].troops \in Nat
        BY <1>1, SoundFields
      <4> QED  BY <4>1, <4>2 DEF Heads
    <3>2. CASE t \notin R
      BY <1>1, <2>1, <3>2
    <3> QED  BY <3>1, <3>2
  <2>3. aboard' = aboard  BY <1>5 DEF Insurgency
  <2> QED  BY <1>1, <2>2, <2>3
<1> QED  BY <1>2, <1>3, <1>4, <1>5, OnlyLosses

LEMMA BombardLosses ==
  ASSUME PeopleInv, PeopleInv', Bombard
  PROVE  Total(sect', aboard') <= Total(sect, aboard) /\ Total(sect, aboard) \in Int
<1>1. /\ \A s \in Sectors : Sound(sect[s]) /\ Heads(sect[s]) \in Nat
      /\ \A q \in Players : Heads(aboard[q]) \in Nat
  BY HeadCount DEF PeopleInv, SoundSectors
<1>2a. PICK T \in SUBSET {s \in Sectors : sect[s].owner # Nobody} \ {{}} :
      \E after \in [T -> UNION {Hit(sect[s]) : s \in T}] :
        /\ \A s \in T : after[s] \in Hit(sect[s])
        /\ sect' = [s \in Sectors |-> IF s \in T THEN after[s] ELSE sect[s]]
  BY DEF Bombard
<1>2. PICK after \in [T -> UNION {Hit(sect[s]) : s \in T}] :
        /\ \A s \in T : after[s] \in Hit(sect[s])
        /\ sect' = [s \in Sectors |-> IF s \in T THEN after[s] ELSE sect[s]]
  BY <1>2a
<1>3. ASSUME NEW t \in Sectors PROVE Heads(sect'[t]) <= Heads(sect[t])
  <2>1. CASE t \in T
    <3>1. PICK civ \in 0..sect[t].popn, mil \in 0..sect[t].troops :
            after[t] = Abandoned(Manned(sect[t], civ, mil))
      BY <1>2, <2>1 DEF Hit
    <3>2. Heads(sect'[t]) = civ + mil
      BY <1>2, <2>1, <3>1 DEF Heads, Abandoned, Manned
    <3> QED  BY <1>1, <3>2, SoundFields DEF Heads
  <2>2. CASE t \notin T
    BY <1>1, <1>2, <2>2
  <2> QED  BY <2>1, <2>2
<1>4. aboard' = aboard  BY DEF Bombard
<1> QED  BY <1>1, <1>3, <1>4, OnlyLosses

LEMMA TotalIsInt ==
  ASSUME NEW f, SoundSectors(f), NEW a \in [Players -> Crews]
  PROVE  Total(f, a) \in Int
<1>1. \A s \in Sectors : Heads(f[s]) <= Heads(f[s])
  BY HeadCount DEF SoundSectors
<1>2. \A p \in Players : Heads(a[p]) <= Heads(a[p])
  BY HeadCount
<1> QED  BY <1>1, <1>2, SectorsBounded, ShipsBounded, TotalSplit

\* A command loses people or keeps them.
LEMMA PlayKeepsCount ==
  ASSUME PeopleInv, PeopleInv', Next, phase = "play"
  PROVE  Total(sect', aboard') <= Total(sect, aboard) /\ Total(sect, aboard) \in Int
<1> DEFINE Goal == Total(sect', aboard') <= Total(sect, aboard) /\ Total(sect, aboard) \in Int
<1>1. \A n \in (-MaxPeople)..MaxPeople : n \in Int
  BY ColoniesAssumption
<1>2. ASSUME NEW p \in Players, NEW s \in Sectors, NEW n \in (-MaxPeople)..MaxPeople,
             Militia(p, s, n) \/ \E k \in Kinds : Transfer(p, s, k, n)
      PROVE  Goal
  BY <1>1, <1>2, MilitiaHeads, TransferHeads
<1>3. ASSUME NEW p \in Players, NEW s \in Sectors, ScrapShip(p, s) \/ Walk(p, s)
      PROVE  Goal
  BY <1>3, ScrapShipHeads, CommandLosses
<1>4. ASSUME NEW p \in Players, NEW s \in Sectors, NEW k \in Kinds, NEW n \in Amounts,
             \/ LandAssault(p, s, k, n)
             \/ \E t \in Sectors : March(p, s, t, k, n) \/ Assault(p, s, t, k, n)
             \/ \E v \in Players : Capture(p, v, s, k, n)
      PROVE  Goal
  <2>1. ASSUME NEW t \in Sectors, March(p, s, t, k, n) PROVE Goal
    BY <2>1, MarchHeads
  <2> QED  BY <1>4, <2>1, LandAssaultHeads, AssaultHeads, CaptureHeads
<1>5. ASSUME NEW p \in Players,
             Dissolve(p) \/ Enslave(p) \/ (\E v \in Players : Insurgency(p, v))
      PROVE  Goal
  BY <1>5, CommandLosses
<1>6. Command => Goal
  <2> HIDE DEF Goal
  <2> QED  BY <1>2, <1>3, <1>4, <1>5 DEF Command
<1>7. CASE Turn
  <2>1. Bombard \/ StartTurn
    BY <1>7 DEF Turn, EndSegment, StartPlanet, StartProduction, Spore, Terraform, Grow,
      EndProduction, Supernova, Explore, ToxicDamage, Census, StaysQuiet, SlaveRevolt
  <2>2. CASE StartTurn
    <3>1. sect' = sect /\ aboard' = aboard
      BY <2>2 DEF StartTurn
    <3>2. /\ \A s \in Sectors : Heads(sect[s]) \in Nat
          /\ \A q \in Players : Heads(aboard[q]) \in Nat
      BY HeadCount DEF PeopleInv, SoundSectors
    <3> QED  BY <3>1, <3>2, OnlyLosses
  <2> QED  BY <2>1, <2>2, BombardLosses
<1> QED  BY <1>6, <1>7 DEF Next

LEMMA PeacefulKeepsCount ==
  ASSUME PeopleInv, PeopleInv', Peaceful
  PROVE  Total(sect', aboard') = Total(sect, aboard)
<1>1. \A n \in (-MaxPeople)..MaxPeople : n \in Int
  BY ColoniesAssumption
<1> QED  BY <1>1, TransferHeads, MilitiaHeads, MarchHeads DEF Peaceful

\* No command makes people: battles, boarding, revolts and scrapping lose some or
\* keep all, and who loads, marches, arms or disarms loses nobody (ground_attack's
\* absorption, execute_planet_cargo_transfer, arm_sector_militia).
THEOREM NobodyFromNothing == Spec => PeopleAccounted
<1>1. Init => PeopleInv
  BY InitSound
<1>2. PeopleInv /\ [Next]_vars => PeopleInv'
  BY PeopleStep
<1>3. PeopleInv /\ PeopleInv' /\ [Next]_vars =>
        [LET now == Total(sect, aboard) next == Total(sect', aboard')
         IN phase = "play" => next = now \/ (next < now /\ ~Peaceful)]_vars
  <2> SUFFICES ASSUME PeopleInv, PeopleInv', Next, phase = "play"
               PROVE  \/ Total(sect', aboard') = Total(sect, aboard)
                      \/ /\ Total(sect', aboard') < Total(sect, aboard)
                         /\ ~Peaceful
    OBVIOUS
  <2>1. Total(sect', aboard') <= Total(sect, aboard) /\ Total(sect, aboard) \in Int
    BY PlayKeepsCount
  <2>2. Peaceful => Total(sect', aboard') = Total(sect, aboard)
    BY PeacefulKeepsCount
  <2>3. Total(sect', aboard') \in Int
    BY TotalIsInt DEF PeopleInv
  <2> QED  BY <2>1, <2>2, <2>3
<1> QED
  BY <1>1, <1>2, <1>3, PTL DEF Spec, PeopleAccounted

-----------------------------------------------------------------------------
(* The market *)

(* A lot is well formed, names appointed governors, has a port to deliver  *)
(* to when there is a bid, and is ready only if an update has visited it.  *)
LotOK(l) ==
  /\ lots[l] \in Lot /\ l < nextLot
  /\ lots[l].seller \in active
  /\ HasBid(lots[l]) => /\ lots[l].bidder \in active
                        /\ lots[l].to \in Planet
                        /\ <<RaceOf(lots[l].bidder), lots[l].to>> \in Port
  /\ lots[l].deliver => l \in visited

Lots ==
  /\ DOMAIN lots \subseteq LotId
  /\ \A l \in DOMAIN lots : LotOK(l)

Counters ==
  /\ treasury \in [Governor -> Nat] /\ outside \in Nat
  /\ stock \in [Port -> Nat] /\ ap \in [Port -> 0..MaxAP]
  /\ nextLot \in 1..MaxLots + 1
  /\ queue \subseteq DOMAIN lots /\ visited \subseteq LotId

Offices ==
  /\ active \subseteq Governor
  /\ starGov \in [Port -> Nat]
  /\ \A r \in Race : LeaderOf(r) \in active
  /\ \A p \in Port : <<p[1], starGov[p]>> \in active

MarketInv == Lots /\ Counters /\ Offices

USE DEF RaceOf, LeaderOf, Leader, HasBid, Idle, LotId

LEMMA MarketInitSound == MarketInit => MarketInv
<1> SUFFICES ASSUME MarketInit PROVE MarketInv
  OBVIOUS
<1>1. DOMAIN lots = {}
  BY DEF MarketInit
<1>2. Lots
  BY <1>1 DEF Lots
<1>3. Counters
  BY <1>1, ConstantsAssumption DEF MarketInit, Counters
<1>4. Offices
  <2>1. \A p \in Port : p[1] \in Race
    BY ConstantsAssumption
  <2> QED
    BY <2>1, ConstantsAssumption DEF MarketInit, Offices
<1> QED
  BY <1>2, <1>3, <1>4 DEF MarketInv

LEMMA SellStep ==
  ASSUME MarketInv, NEW g \in Governor, NEW pt \in Port, NEW n \in 1..Goods,
         pt[1] = g[1], Sell(g, pt[2], n)
  PROVE  MarketInv'
<1> DEFINE amount == IF n < stock[pt] THEN n ELSE stock[pt]
<1>1. pt = <<RaceOf(g), pt[2]>> /\ pt[2] \in Planet
  BY ConstantsAssumption
<1>2. stock[pt] \in Nat /\ n \in Nat \ {0}
  BY ConstantsAssumption DEF MarketInv, Counters
<1>3. /\ nextLot \in LotId /\ Controls(g, pt[2]) /\ stock[pt] > 0
      /\ ap[pt] >= ListingCost(amount)
      /\ ap' = [ap EXCEPT ![pt] = @ - ListingCost(amount)]
      /\ stock' = [stock EXCEPT ![pt] = @ - amount]
      /\ lots' = [l \in DOMAIN lots \cup {nextLot} |->
                    IF l = nextLot THEN NewLot(g, pt[2], amount) ELSE lots[l]]
      /\ nextLot' = nextLot + 1
      /\ UNCHANGED <<active, treasury, outside, starGov, queue, visited>>
  BY <1>1 DEF Sell
<1> HIDE DEF amount
<1>4. amount \in Nat \ {0} /\ amount <= stock[pt]
  BY <1>2, <1>3 DEF amount
<1>5. g \in active
  <2>1. g = <<g[1], g[2]>> /\ g[1] \in Race
    BY ConstantsAssumption
  <2>2. <<pt[1], starGov[pt]>> \in active /\ LeaderOf(g[1]) \in active
    BY <2>1 DEF MarketInv, Offices
  <2>3. g[2] = Leader \/ starGov[pt] = g[2]
    BY <1>1, <1>3 DEF Controls
  <2> QED
    BY <2>1, <2>2, <2>3
<1>6. Lots'
  <2>1. NewLot(g, pt[2], amount) \in Lot
    BY <1>1, <1>4, ConstantsAssumption DEF NewLot, Lot
  <2>2. ASSUME NEW l \in DOMAIN lots' PROVE LotOK(l)'
    <3>1. CASE l = nextLot
      BY <1>3, <1>5, <2>1, <3>1 DEF LotOK, NewLot
    <3>2. CASE l # nextLot
      BY <1>3, <3>2 DEF LotOK, MarketInv, Lots
    <3> QED
      BY <3>1, <3>2
  <2> QED
    BY <1>3, <2>2 DEF MarketInv, Lots
<1>7. Counters'
  <2>1. ListingCost(amount) \in Nat
    BY <1>4 DEF ListingCost
  <2> QED
    BY <1>2, <1>3, <1>4, <2>1, ConstantsAssumption DEF MarketInv, Counters
<1>8. Offices'
  BY <1>3 DEF MarketInv, Offices
<1> QED
  BY <1>6, <1>7, <1>8 DEF MarketInv

LEMMA BidStep ==
  ASSUME MarketInv, NEW g \in Governor, NEW p \in Planet, NEW l \in DOMAIN lots,
         NEW n \in 0..Money, Bid(g, p, l, n)
  PROVE  MarketInv'
<1>1. /\ lots' = [lots EXCEPT ![l].bid = n, ![l].bidder = g, ![l].to = p]
      /\ <<RaceOf(g), p>> \in Port /\ g \in active
      /\ UNCHANGED <<active, treasury, outside, stock, ap, starGov, nextLot, queue, visited>>
  BY DEF Bid
<1>2. DOMAIN lots' = DOMAIN lots /\ \A k \in DOMAIN lots : k # l => lots'[k] = lots[k]
  BY <1>1
<1>3. lots[l] \in Lot
  BY DEF MarketInv, Lots, LotOK
<1>4. lots'[l] = [lots[l] EXCEPT !.bid = n, !.bidder = g, !.to = p]
  BY <1>1
<1>5. LotOK(l)'
  BY <1>1, <1>3, <1>4 DEF Lot, LotOK, MarketInv, Lots
<1>6. ASSUME NEW k \in DOMAIN lots, k # l PROVE LotOK(k)'
  BY <1>1, <1>2, <1>6 DEF LotOK, MarketInv, Lots
<1>7. Lots'
  BY <1>2, <1>5, <1>6 DEF Lots, MarketInv
<1> QED
  BY <1>1, <1>2, <1>7 DEF MarketInv, Counters, Offices

(* Steps that touch neither lots nor offices *)
LEMMA MoneyStep ==
  ASSUME MarketInv, treasury' \in [Governor -> Nat], outside' \in Nat,
         UNCHANGED <<active, stock, ap, starGov, lots, nextLot, queue, visited>>
  PROVE  MarketInv'
BY DEF MarketInv, Lots, LotOK, Counters, Offices

LEMMA MovedType ==
  ASSUME treasury \in [Governor -> Nat], NEW g \in Governor, NEW h \in Governor,
         NEW n \in Nat, n <= treasury[g]
  PROVE  Moved(g, h, n) \in [Governor -> Nat]
BY DEF Moved

LEMMA TreasuryStep ==
  ASSUME MarketInv,
         \/ \E g \in Governor, n \in 1..Money : Spend(g, n) \/ Earn(g, n)
         \/ \E r, s \in Race, n \in 1..Money : Pay(r, s, n)
         \/ \E g, h \in Governor, n \in 1..Money : Grant(g, h, n)
  PROVE  MarketInv'
<1> USE ConstantsAssumption
<1>0. treasury \in [Governor -> Nat] /\ outside \in Nat
  BY DEF MarketInv, Counters
<1>1. ASSUME NEW g \in Governor, NEW n \in 1..Money, Spend(g, n) PROVE MarketInv'
  <2>1. treasury' \in [Governor -> Nat] /\ outside' \in Nat
    BY <1>0, <1>1 DEF Spend
  <2> QED
    BY <1>1, <2>1, MoneyStep DEF Spend
<1>2. ASSUME NEW g \in Governor, NEW n \in 1..Money, Earn(g, n) PROVE MarketInv'
  <2>1. treasury' \in [Governor -> Nat] /\ outside' \in Nat
    BY <1>0, <1>2 DEF Earn
  <2> QED
    BY <1>2, <2>1, MoneyStep DEF Earn
<1>3. ASSUME NEW r \in Race, NEW s \in Race, NEW n \in 1..Money, Pay(r, s, n) PROVE MarketInv'
  <2>1. treasury' \in [Governor -> Nat] /\ outside' \in Nat
    <3>1. LeaderOf(r) \in Governor /\ LeaderOf(s) \in Governor
      OBVIOUS
    <3>2. n \in Nat /\ n <= treasury[LeaderOf(r)]
      BY <1>3 DEF Pay
    <3>3. treasury' = Moved(LeaderOf(r), LeaderOf(s), n) /\ outside' = outside
      BY <1>3 DEF Pay
    <3> HIDE DEF LeaderOf
    <3> QED
      BY <1>0, <3>1, <3>2, <3>3, MovedType
  <2> QED
    BY <1>3, <2>1, MoneyStep DEF Pay
<1>4. ASSUME NEW g \in Governor, NEW h \in Governor, NEW n \in 1..Money, Grant(g, h, n)
      PROVE MarketInv'
  <2>1. treasury' \in [Governor -> Nat] /\ outside' \in Nat
    BY <1>0, <1>4, MovedType DEF Grant
  <2> QED
    BY <1>4, <2>1, MoneyStep DEF Grant
<1> QED
  BY <1>1, <1>2, <1>3, <1>4

LEMMA GrantStarStep ==
  ASSUME MarketInv, NEW g \in Governor, NEW pt \in Port, pt[1] = g[1], GrantStar(g, pt[2])
  PROVE  MarketInv'
<1>1. pt = <<RaceOf(g), pt[2]>> /\ g = <<g[1], g[2]>> /\ g[2] \in Nat
  BY ConstantsAssumption
<1>2. /\ g \in active /\ starGov' = [starGov EXCEPT ![pt] = g[2]]
      /\ UNCHANGED <<active, treasury, outside, stock, ap, lots, nextLot, queue, visited>>
  BY <1>1 DEF GrantStar
<1>3. Offices'
  BY <1>1, <1>2 DEF MarketInv, Offices
<1> QED
  BY <1>2, <1>3 DEF MarketInv, Lots, LotOK, Counters

LEMMA AppointStep ==
  ASSUME MarketInv, NEW g \in Governor, Appoint(g)
  PROVE  MarketInv'
<1>1. Lots'
  BY DEF Appoint, MarketInv, Lots, LotOK
<1>2. Counters' /\ Offices'
  BY DEF Appoint, MarketInv, Counters, Offices
<1> QED
  BY <1>1, <1>2 DEF MarketInv

LEMMA RevokeStep ==
  ASSUME MarketInv, NEW g \in Governor, NEW h \in Governor, Revoke(g, h)
  PROVE  MarketInv'
<1> USE DEF Revoke
<1>1. g \in active /\ h \in active /\ g[2] # 1 /\ g # h /\ g[1] = h[1]
  OBVIOUS
<1>2. /\ g = <<g[1], g[2]>> /\ h = <<h[1], h[2]>> /\ h[2] \in Nat
      /\ g # None
  BY ConstantsAssumption
<1>3. DOMAIN lots' = DOMAIN lots
  OBVIOUS
<1>4. ASSUME NEW l \in DOMAIN lots PROVE LotOK(l)'
  <2>1. lots'[l] = TransferGovernor(lots[l], g, h)
    OBVIOUS
  <2>2. LotOK(l)
    BY DEF MarketInv, Lots
  <2>3. lots'[l] \in Lot
    BY <2>1, <2>2 DEF LotOK, Lot, TransferGovernor
  <2>4. /\ lots'[l].seller = IF lots[l].seller = g THEN h ELSE lots[l].seller
        /\ lots'[l].bidder = IF lots[l].bidder = g THEN h ELSE lots[l].bidder
        /\ lots'[l].to = lots[l].to /\ lots'[l].deliver = lots[l].deliver
    BY <2>1, <2>2 DEF LotOK, Lot, TransferGovernor
  <2>5. active' = active \ {g} /\ visited' = visited
    OBVIOUS
  <2>6. lots'[l].seller \in active'
    BY <1>1, <2>2, <2>4, <2>5 DEF LotOK
  <2>7. ASSUME HasBid(lots'[l])
        PROVE  /\ lots'[l].bidder \in active' /\ lots'[l].to \in Planet
               /\ <<RaceOf(lots'[l].bidder), lots'[l].to>> \in Port
    <3>1. HasBid(lots[l])
      BY <1>2, <2>4, <2>7
    <3>2. lots[l].bidder \in active /\ lots[l].to \in Planet
          /\ <<RaceOf(lots[l].bidder), lots[l].to>> \in Port
      BY <2>2, <3>1 DEF LotOK
    <3> QED
      BY <1>1, <2>4, <2>5, <3>2
  <2> QED
    BY <2>2, <2>3, <2>4, <2>5, <2>6, <2>7 DEF LotOK
<1>5. Lots'
  BY <1>3, <1>4 DEF MarketInv, Lots
<1>6. Counters'
  <2>1. treasury' \in [Governor -> Nat]
    BY MovedType DEF MarketInv, Counters
  <2> QED
    BY <1>3, <2>1 DEF MarketInv, Counters
<1>7. Offices'
  <2>1. starGov' = [p \in Port |-> IF p[1] = g[1] /\ starGov[p] = g[2]
                                   THEN h[2] ELSE starGov[p]]
    OBVIOUS
  <2>2. ASSUME NEW p \in Port PROVE <<p[1], starGov'[p]>> \in active'
    <3>1. <<p[1], starGov[p]>> \in active
      BY DEF MarketInv, Offices
    <3>2. CASE p[1] = g[1] /\ starGov[p] = g[2]
      BY <1>1, <1>2, <2>1, <3>2
    <3>3. CASE ~(p[1] = g[1] /\ starGov[p] = g[2])
      BY <1>2, <2>1, <3>1, <3>3
    <3> QED
      BY <3>2, <3>3
  <2>3. starGov' \in [Port -> Nat]
    BY <1>2, <2>1 DEF MarketInv, Offices
  <2>4. \A r \in Race : LeaderOf(r) \in active'
    <3>1. \A r \in Race : LeaderOf(r)[2] = 1 /\ LeaderOf(r) \in active
      BY DEF MarketInv, Offices
    <3> QED
      BY <1>1, <3>1
  <2> QED
    BY <2>2, <2>3, <2>4 DEF MarketInv, Offices
<1> QED
  BY <1>5, <1>6, <1>7 DEF MarketInv

LEMMA BeginUpdateStep ==
  ASSUME MarketInv, BeginUpdate
  PROVE  MarketInv'
BY ConstantsAssumption DEF BeginUpdate, MarketInv, Lots, LotOK, Counters, Offices

LEMMA MarkReadyStep ==
  ASSUME MarketInv, NEW l \in queue, MarkReady(l)
  PROVE  MarketInv'
<1> USE DEF MarkReady, Visit
<1>1. l \in DOMAIN lots /\ l \in LotId
  BY DEF MarketInv, Counters, Lots
<1>2. DOMAIN lots' = DOMAIN lots /\ visited' = visited \cup {l} /\ active' = active
  OBVIOUS
<1>3. ASSUME NEW k \in DOMAIN lots PROVE LotOK(k)'
  <2>1. CASE k = l
    <3>1. lots'[k] = [lots[k] EXCEPT !.deliver = TRUE] /\ LotOK(k)
      BY <1>1, <2>1 DEF MarketInv, Lots
    <3> QED
      BY <1>2, <2>1, <3>1 DEF LotOK, Lot
  <2>2. CASE k # l
    BY <1>2, <2>2 DEF MarketInv, Lots, LotOK
  <2> QED
    BY <2>1, <2>2
<1> QED
  BY <1>1, <1>2, <1>3 DEF MarketInv, Lots, Counters, Offices

LEMMA FreightFact ==
  ASSUME NEW l, LotOK(l), HasBid(lots[l]), Solvent(lots[l]), treasury \in [Governor -> Nat]
  PROVE  /\ FreightPaid(lots[l]) \in Nat
         /\ FreightPaid(lots[l]) <= treasury[lots[l].bidder] - lots[l].bid
<1>1. /\ lots[l].bidder \in Governor /\ lots[l].bid \in 0..Money
      /\ lots[l].from \in Planet /\ lots[l].to \in Planet
  BY DEF LotOK, Lot
<1>2. Fee(lots[l].to, lots[l].from, lots[l].bid) \in Nat
  BY <1>1, ConstantsAssumption
<1>3. treasury[lots[l].bidder] \in Nat /\ treasury[lots[l].bidder] >= lots[l].bid
  BY <1>1 DEF Solvent
<1> QED
  BY <1>1, <1>2, <1>3, ConstantsAssumption DEF FreightPaid

LEMMA PaidOut ==
  ASSUME NEW T \in [Governor -> Nat], NEW b \in Governor, NEW s \in Governor,
         NEW n \in Nat, NEW f \in Nat, f <= T[b] - n
  PROVE  [[T EXCEPT ![b] = @ - n - f] EXCEPT ![s] = @ + n] \in [Governor -> Nat]
<1>1. T[b] - n - f \in Nat
  OBVIOUS
<1>2. [T EXCEPT ![b] = @ - n - f] \in [Governor -> Nat]
  BY <1>1
<1> QED
  BY <1>2

LEMMA Deposited ==
  ASSUME NEW T \in [Port -> Nat], NEW p \in Port, NEW n \in Nat
  PROVE  [T EXCEPT ![p] = @ + n] \in [Port -> Nat]
OBVIOUS

LEMMA SettleStep ==
  ASSUME MarketInv, NEW l \in queue, Settle(l)
  PROVE  MarketInv'
<1> DEFINE c == lots[l]
           fee == FreightPaid(c)
<1>1. l \in DOMAIN lots /\ l \in LotId /\ LotOK(l)
  BY DEF MarketInv, Counters, Lots
<1>2. /\ c.seller \in Governor /\ c.bidder \in Governor /\ c.bid \in Nat /\ c.amount \in Nat
      /\ <<RaceOf(c.bidder), c.to>> \in Port
  BY <1>1, ConstantsAssumption DEF LotOK, Lot, Settle
<1>3. fee \in Nat /\ fee <= treasury[c.bidder] - c.bid
  BY <1>1, FreightFact DEF MarketInv, Counters, Settle
<1>4. /\ treasury' = [[treasury EXCEPT ![c.bidder] = @ - c.bid - fee]
                        EXCEPT ![c.seller] = @ + c.bid]
      /\ outside' = outside + fee
      /\ stock' = [stock EXCEPT ![<<RaceOf(c.bidder), c.to>>] = @ + c.amount]
      /\ lots' = [k \in DOMAIN lots \ {l} |-> lots[k]]
      /\ queue' = queue \ {l} /\ visited' = visited \cup {l}
      /\ UNCHANGED <<active, ap, starGov, nextLot>>
  BY DEF Settle, Visit, WithoutLot, Restrict
<1> HIDE DEF c, fee
<1>5. Lots'
  BY <1>4 DEF MarketInv, Lots, LotOK
<1>6. Counters'
  <2>1. treasury \in [Governor -> Nat] /\ outside \in Nat /\ stock \in [Port -> Nat]
    BY DEF MarketInv, Counters
  <2>2. treasury' \in [Governor -> Nat]
    BY <1>2, <1>3, <1>4, <2>1, PaidOut
  <2>3. outside' \in Nat
    BY <1>3, <1>4, <2>1
  <2>4. stock' \in [Port -> Nat]
    BY <1>2, <1>4, <2>1, Deposited
  <2> QED
    BY <1>1, <1>4, <2>2, <2>3, <2>4 DEF MarketInv, Counters
<1>7. Offices'
  BY <1>4 DEF MarketInv, Offices
<1> QED
  BY <1>5, <1>6, <1>7 DEF MarketInv

LEMMA ClearedLot ==
  ASSUME NEW c \in Lot
  PROVE  /\ Cleared(c) \in Lot /\ Cleared(c).seller = c.seller
         /\ Cleared(c).bidder = None
<1>1. 0 \in 0..Money
  BY ConstantsAssumption
<1> QED
  BY <1>1 DEF Lot, Cleared

LEMMA ClearBidStep ==
  ASSUME MarketInv, NEW l \in queue, ClearBid(l)
  PROVE  MarketInv'
<1> USE DEF ClearBid, Visit
<1>1. l \in DOMAIN lots /\ l \in LotId
  BY DEF MarketInv, Counters, Lots
<1>2. DOMAIN lots' = DOMAIN lots /\ visited' = visited \cup {l} /\ active' = active
  OBVIOUS
<1>3. ASSUME NEW k \in DOMAIN lots PROVE LotOK(k)'
  <2>1. CASE k = l
    <3>1. lots'[k] = Cleared(lots[k]) /\ LotOK(k)
      BY <1>1, <2>1 DEF MarketInv, Lots
    <3>2. /\ Cleared(lots[k]) \in Lot
          /\ Cleared(lots[k]).seller = lots[k].seller
          /\ Cleared(lots[k]).bidder = None
      <4>1. lots[k] \in Lot
        BY <3>1 DEF LotOK
      <4> QED
        BY <4>1, ClearedLot
    <3> QED
      BY <1>2, <2>1, <3>1, <3>2 DEF LotOK
  <2>2. CASE k # l
    BY <1>2, <2>2 DEF MarketInv, Lots, LotOK
  <2> QED
    BY <2>1, <2>2
<1> QED
  BY <1>1, <1>2, <1>3 DEF MarketInv, Lots, Counters, Offices

LEMMA MarketStepSound == MarketInv /\ [MarketNext]_market_vars => MarketInv'
<1> SUFFICES ASSUME MarketInv, [MarketNext]_market_vars PROVE MarketInv'
  OBVIOUS
<1>1. CASE \E g \in Governor, pt \in Port, n \in 1..Goods : pt[1] = g[1] /\ Sell(g, pt[2], n)
  BY <1>1, SellStep
<1>2. CASE \E g \in Governor, p \in Planet, l \in DOMAIN lots, n \in 0..Money : Bid(g, p, l, n)
  BY <1>2, BidStep
<1>3. CASE \/ \E g \in Governor, n \in 1..Money : Spend(g, n) \/ Earn(g, n)
           \/ \E r, s \in Race, n \in 1..Money : Pay(r, s, n)
           \/ \E g, h \in Governor, n \in 1..Money : Grant(g, h, n)
  BY <1>3, TreasuryStep
<1>4. CASE \E g \in Governor, pt \in Port : pt[1] = g[1] /\ GrantStar(g, pt[2])
  BY <1>4, GrantStarStep
<1>5. CASE \E g \in Governor : Appoint(g)
  BY <1>5, AppointStep
<1>6. CASE \E g, h \in Governor : Revoke(g, h)
  BY <1>6, RevokeStep
<1>7. CASE BeginUpdate
  BY <1>7, BeginUpdateStep
<1>8. CASE UpdateStep
  BY <1>8, MarkReadyStep, SettleStep, ClearBidStep DEF UpdateStep
<1>9. CASE UNCHANGED market_vars
  BY <1>9 DEF market_vars, MarketInv, Lots, LotOK, Counters, Offices
<1> QED
  BY <1>1, <1>2, <1>3, <1>4, <1>5, <1>6, <1>7, <1>8, <1>9 DEF MarketNext

LEMMA MarketInvariant == MarketSpec => []MarketInv
BY MarketInitSound, MarketStepSound, PTL DEF MarketSpec

(* Types, for all constants: no treasury, stockpile or action point count  *)
(* is ever negative (doturncmd.cc:197, deduct_maintenance).                *)
THEOREM MarketTypeCorrect == MarketSpec => []MarketTypeOK
<1>1. MarketInv => MarketTypeOK
  BY DEF MarketInv, Lots, LotOK, Counters, Offices, MarketTypeOK
<1> QED
  BY <1>1, MarketInvariant, PTL

(* No lot and no star ever names a governor who is not appointed, so       *)
(* Race::governor never throws inside an update (doturncmd.cc:197, 207).   *)
THEOREM HoldersStayActive == MarketSpec => []HoldersActive
<1>1. MarketInv => HoldersActive
  BY DEF MarketInv, Lots, LotOK, Offices, HoldersActive
<1> QED
  BY <1>1, MarketInvariant, PTL

(* A lot leaves the market only in an update that is not the first to      *)
(* visit it (doturncmd.cc:185).                                            *)
THEOREM DeliveryIsDelayed == MarketSpec => DeliveryDelay
<1> DEFINE Delayed == \A l \in DOMAIN lots \ DOMAIN lots' : l \in visited
<1>1. ASSUME MarketInv, MarketNext PROVE Delayed
  <2> SUFFICES ASSUME NEW l \in DOMAIN lots \ DOMAIN lots' PROVE l \in visited
    OBVIOUS
  <2>1. \E k \in queue : Settle(k)
    <3>1. ASSUME NEW g, NEW pt, NEW n, Sell(g, pt, n) PROVE FALSE
      BY <3>1 DEF Sell
    <3>2. ASSUME NEW g, NEW q, NEW k, NEW n, Bid(g, q, k, n) PROVE FALSE
      BY <3>2 DEF Bid
    <3>3. ASSUME NEW g, NEW h, NEW n,
                 \/ Spend(g, n) \/ Earn(g, n) \/ Pay(g, h, n) \/ Grant(g, h, n)
                 \/ GrantStar(g, h) \/ Appoint(g) \/ BeginUpdate
          PROVE  FALSE
      BY <3>3 DEF Spend, Earn, Pay, Grant, GrantStar, Appoint, BeginUpdate
    <3>4. ASSUME NEW g, NEW h, Revoke(g, h) PROVE FALSE
      BY <3>4 DEF Revoke
    <3>5. ASSUME NEW k, MarkReady(k) \/ ClearBid(k) PROVE FALSE
      BY <3>5 DEF MarkReady, ClearBid
    <3> QED
      BY <1>1, <3>1, <3>2, <3>3, <3>4, <3>5 DEF MarketNext, UpdateStep
  <2>2. PICK k \in queue : Settle(k)
    BY <2>1
  <2>3. l = k
    BY <2>2 DEF Settle, WithoutLot, Restrict
  <2> QED
    BY <1>1, <2>2, <2>3 DEF Settle, CanSettle, MarketInv, Lots, LotOK
<1>2. MarketInv /\ [MarketNext]_market_vars => [Delayed]_market_vars
  BY <1>1
<1> HIDE DEF Delayed
<1>3. MarketSpec => [][Delayed]_market_vars
  BY <1>2, MarketInvariant, PTL DEF MarketSpec
<1> QED
  BY <1>3 DEF DeliveryDelay, Delayed

LEMMA NextBidNoLower == ASSUME NEW b \in Nat PROVE MinNextBid(b) \in Nat /\ MinNextBid(b) >= b
BY DEF MinNextBid

(* Between updates a standing bid only gives way to one as high            *)
(* (commod.cppm:138, bid.cc:137).                                          *)
THEOREM BidsRise == MarketSpec => BidsOnlyRise
<1> DEFINE Rise == Idle => \A l \in DOMAIN lots :
                     l \in DOMAIN lots' /\ lots'[l].bid >= lots[l].bid
<1>1. ASSUME MarketInv, MarketNext PROVE Rise
  <2> SUFFICES ASSUME Idle, NEW l \in DOMAIN lots
               PROVE  l \in DOMAIN lots' /\ lots'[l].bid >= lots[l].bid
    OBVIOUS
  <2>0. lots[l] \in Lot /\ lots[l].bid \in Nat /\ l # nextLot
    <3>1. lots[l] \in Lot /\ l < nextLot /\ nextLot \in Int
      <4>1. LotOK(l)
        BY <1>1 DEF MarketInv, Lots
      <4>2. nextLot \in 1..MaxLots + 1
        BY <1>1 DEF MarketInv, Counters
      <4> QED
        BY <4>1, <4>2, ConstantsAssumption DEF LotOK
    <3> QED
      BY <3>1, ConstantsAssumption DEF Lot
  <2>1. ASSUME NEW g, NEW pt, NEW n, Sell(g, pt, n)
        PROVE  l \in DOMAIN lots' /\ lots'[l].bid >= lots[l].bid
    BY <2>0, <2>1 DEF Sell
  <2>2. ASSUME NEW g, NEW q, NEW k \in DOMAIN lots, NEW n \in 0..Money, Bid(g, q, k, n)
        PROVE  l \in DOMAIN lots' /\ lots'[l].bid >= lots[l].bid
    <3>1. lots' = [lots EXCEPT ![k].bid = n, ![k].bidder = g, ![k].to = q]
      BY <2>2 DEF Bid
    <3>2. CASE l # k
      BY <2>0, <3>1, <3>2
    <3>3. CASE l = k
      <4>1. n >= lots[l].bid
        BY <2>0, <2>2, <3>3, NextBidNoLower, ConstantsAssumption DEF Bid
      <4>2. lots'[l].bid = n
        BY <2>0, <3>1, <3>3 DEF Lot
      <4> QED
        BY <3>1, <4>1, <4>2
    <3> QED
      BY <3>2, <3>3
  <2>3. ASSUME UNCHANGED lots
        PROVE  l \in DOMAIN lots' /\ lots'[l].bid >= lots[l].bid
    BY <2>0, <2>3
  <2>4. ASSUME NEW g, NEW h, Revoke(g, h)
        PROVE  l \in DOMAIN lots' /\ lots'[l].bid >= lots[l].bid
    <3>1. DOMAIN lots' = DOMAIN lots /\ lots'[l] = TransferGovernor(lots[l], g, h)
      BY <2>4 DEF Revoke
    <3> QED
      BY <2>0, <3>1 DEF TransferGovernor, Lot
  <2>5. ASSUME NEW g, NEW h, NEW n,
               \/ Spend(g, n) \/ Earn(g, n) \/ Pay(g, h, n) \/ Grant(g, h, n)
               \/ GrantStar(g, h) \/ Appoint(g) \/ BeginUpdate
        PROVE  UNCHANGED lots
    BY <2>5 DEF Spend, Earn, Pay, Grant, GrantStar, Appoint, BeginUpdate
  <2>6. ~UpdateStep
    BY DEF UpdateStep
  <2> QED
    BY <1>1, <2>1, <2>2, <2>3, <2>4, <2>5, <2>6 DEF MarketNext
<1>2. MarketInv /\ [MarketNext]_market_vars => [Rise]_market_vars
  BY <1>1
<1> HIDE DEF Rise
<1>3. MarketSpec => [][Rise]_market_vars
  BY <1>2, MarketInvariant, PTL DEF MarketSpec
<1> QED
  BY <1>3 DEF BidsOnlyRise, Rise
-----------------------------------------------------------------------------
(* The books.  Money needs that whoever is not in office has none: appoint *)
(* starts a treasury at nothing, which would otherwise destroy money.      *)
Dormant == \A g \in Governor \ active : treasury[g] = 0

(* Moving money, to oneself as well, changes no total. *)
LEMMA MovedSum ==
  ASSUME treasury \in [Governor -> Nat], NEW g \in Governor, NEW h \in Governor, NEW n \in Nat
  PROVE  SumOf(Moved(g, h, n), Governor) = SumOf(treasury, Governor)
<1> DEFINE T == Moved(g, h, n)
<1>1. \A x \in Governor : treasury[x] \in Int /\ T[x] \in Int
  BY DEF Moved
<1>2. CASE g = h
  <2>1. \A x \in Governor : T[x] = treasury[x]
    BY <1>2 DEF Moved
  <2> HIDE DEF T
  <2>2. SumOf(T, Governor) = SumOf(treasury, Governor)
    BY <1>1, <2>1, SumCongruence, ConstantsAssumption
  <2> QED
    BY <2>2 DEF T
<1>3. CASE g # h
  <2>1. \A x \in Governor \ {g, h} : T[x] = treasury[x]
    BY DEF Moved
  <2>2. T[g] = treasury[g] - n /\ T[h] = treasury[h] + n
    BY <1>3 DEF Moved
  <2>3. SumOf(treasury, Governor) \in Int
    BY <1>1, SumIsInt, ConstantsAssumption
  <2> HIDE DEF T
  <2>4. SumOf(T, Governor) = SumOf(treasury, Governor) - treasury[g] - treasury[h] + T[g] + T[h]
    BY <1>1, <1>3, <2>1, SumMove, ConstantsAssumption
  <2>5. treasury[g] \in Int /\ treasury[h] \in Int
    BY <1>1
  <2>6. SumOf(T, Governor) = SumOf(treasury, Governor)
    BY <2>2, <2>3, <2>4, <2>5
  <2> QED
    BY <2>6 DEF T
<1> QED
  BY <1>2, <1>3

(* Paying a seller, oneself as well, and losing a fee. *)
PaidFor(T, U, b, s, n, f) ==
  \A x \in Governor : U[x] = (IF x = b THEN T[x] - n - f ELSE T[x])
                                + (IF x = s THEN n ELSE 0)

LEMMA PaidOutSum ==
  ASSUME NEW T \in [Governor -> Nat], NEW U \in [Governor -> Nat],
         NEW b \in Governor, NEW s \in Governor, NEW n \in Nat, NEW f \in Nat,
         PaidFor(T, U, b, s, n, f)
  PROVE  SumOf(U, Governor) = SumOf(T, Governor) - f
<1>1. \A x \in Governor : T[x] \in Int /\ U[x] \in Int
  OBVIOUS
<1>2. SumOf(T, Governor) \in Int
  BY <1>1, SumIsInt, ConstantsAssumption
<1>3. CASE b = s
  <2>1. U[b] = T[b] - f /\ \A x \in Governor \ {b} : U[x] = T[x]
    BY <1>3 DEF PaidFor
  <2>2. SumOf(U, Governor) = SumOf(T, Governor) - T[b] + U[b]
    BY <1>1, <2>1, SumChange, ConstantsAssumption
  <2> QED
    BY <1>1, <1>2, <2>1, <2>2
<1>4. CASE b # s
  <2>1. U[b] = T[b] - n - f /\ U[s] = T[s] + n /\ \A x \in Governor \ {b, s} : U[x] = T[x]
    BY <1>4 DEF PaidFor
  <2>2. SumOf(U, Governor) = SumOf(T, Governor) - T[b] - T[s] + U[b] + U[s]
    BY <1>1, <1>4, <2>1, SumMove, ConstantsAssumption
  <2> QED
    BY <1>1, <1>2, <2>1, <2>2
<1> QED
  BY <1>3, <1>4

LEMMA InitMoney == MarketInit => Dormant /\ MoneyConserved
<1> SUFFICES ASSUME MarketInit PROVE Dormant /\ MoneyConserved
  OBVIOUS
<1>1. \A g \in Governor : treasury[g] = 0
  BY DEF MarketInit
<1>2. SumOf(treasury, Governor) = 0
  BY <1>1, SumOfNothing, ConstantsAssumption
<1> QED
  BY <1>1, <1>2, ConstantsAssumption DEF MarketInit, Dormant, MoneyConserved

LEMMA MoneyKept ==
  ASSUME MarketInv, [MarketNext]_market_vars, Dormant, MoneyConserved
  PROVE  Dormant' /\ MoneyConserved'
<1> USE DEF MoneyConserved, Dormant
<1>0. /\ treasury \in [Governor -> Nat] /\ outside \in Nat /\ active \subseteq Governor
      /\ SumOf(treasury, Governor) \in Int
  <2>1. treasury \in [Governor -> Nat] /\ outside \in Nat /\ active \subseteq Governor
    BY DEF MarketInv, Counters, Offices
  <2>2. \A x \in Governor : treasury[x] \in Int
    BY <2>1
  <2> QED
    BY <2>1, <2>2, SumIsInt, ConstantsAssumption
<1>1. ASSUME UNCHANGED <<treasury, outside, active>> PROVE Dormant' /\ MoneyConserved'
  BY <1>1
<1>2. ASSUME NEW g \in Governor, NEW n \in 1..Money, Spend(g, n)
      PROVE  Dormant' /\ MoneyConserved'
  <2>1. /\ treasury' = [treasury EXCEPT ![g] = @ - n] /\ outside' = outside + n
        /\ g \in active /\ active' = active /\ n \in Int
    BY <1>2 DEF Spend
  <2>2. SumOf(treasury', Governor) = SumOf(treasury, Governor) - treasury[g] + treasury'[g]
    <3>1. \A x \in Governor : treasury[x] \in Int /\ treasury'[x] \in Int
      BY <1>0, <2>1
    <3>2. \A x \in Governor \ {g} : treasury'[x] = treasury[x]
      BY <1>0, <2>1
    <3> QED
      BY <3>1, <3>2, SumChange, ConstantsAssumption
  <2>3. treasury'[g] = treasury[g] - n /\ treasury[g] \in Int
    BY <1>0, <2>1
  <2>4. Dormant'
    BY <1>0, <2>1
  <2>5. MoneyConserved'
    BY <1>0, <2>1, <2>2, <2>3, ConstantsAssumption
  <2> QED
    BY <2>4, <2>5
<1>3. ASSUME NEW g \in Governor, NEW n \in 1..Money, Earn(g, n)
      PROVE  Dormant' /\ MoneyConserved'
  <2>1. /\ treasury' = [treasury EXCEPT ![g] = @ + n] /\ outside' = outside - n
        /\ g \in active /\ active' = active /\ n \in Int
    BY <1>3 DEF Earn
  <2>2. SumOf(treasury', Governor) = SumOf(treasury, Governor) - treasury[g] + treasury'[g]
    <3>1. \A x \in Governor : treasury[x] \in Int /\ treasury'[x] \in Int
      BY <1>0, <2>1
    <3>2. \A x \in Governor \ {g} : treasury'[x] = treasury[x]
      BY <1>0, <2>1
    <3> QED
      BY <3>1, <3>2, SumChange, ConstantsAssumption
  <2>3. treasury'[g] = treasury[g] + n /\ treasury[g] \in Int
    BY <1>0, <2>1
  <2>4. Dormant'
    BY <1>0, <2>1
  <2>5. MoneyConserved'
    BY <1>0, <2>1, <2>2, <2>3, ConstantsAssumption
  <2> QED
    BY <2>4, <2>5
<1>4. ASSUME NEW g \in active, NEW h \in active, NEW n \in Nat,
             treasury' = Moved(g, h, n), UNCHANGED <<outside, active>>
      PROVE  Dormant' /\ MoneyConserved'
  <2>1. Dormant'
    BY <1>0, <1>4 DEF Moved
  <2>2. SumOf(treasury', Governor) = SumOf(treasury, Governor)
    BY <1>0, <1>4, MovedSum
  <2> QED
    BY <1>4, <2>1, <2>2
<1>5. ASSUME NEW r \in Race, NEW s \in Race, NEW n \in 1..Money, Pay(r, s, n)
      PROVE  Dormant' /\ MoneyConserved'
  <2>1. LeaderOf(r) \in active /\ LeaderOf(s) \in active
    BY DEF MarketInv, Offices
  <2> HIDE DEF LeaderOf
  <2>2. treasury' = Moved(LeaderOf(r), LeaderOf(s), n) /\ UNCHANGED <<outside, active>>
    BY <1>5 DEF Pay
  <2> QED
    BY <1>4, <2>1, <2>2
<1>6. ASSUME NEW g \in Governor, NEW h \in Governor, NEW n \in 1..Money, Grant(g, h, n)
      PROVE  Dormant' /\ MoneyConserved'
  BY <1>4, <1>6 DEF Grant
<1>7. ASSUME NEW g \in Governor, Appoint(g) PROVE Dormant' /\ MoneyConserved'
  <2>1. treasury' = treasury
    BY <1>0, <1>7 DEF Appoint
  <2> QED
    BY <1>0, <1>7, <2>1 DEF Appoint
<1>8. ASSUME NEW g \in Governor, NEW h \in Governor, Revoke(g, h)
      PROVE  Dormant' /\ MoneyConserved'
  <2>1. /\ g # h /\ h \in active /\ treasury' = Moved(g, h, treasury[g])
        /\ active' = active \ {g} /\ outside' = outside
    BY <1>8 DEF Revoke
  <2>2. Dormant'
    BY <1>0, <2>1 DEF Moved
  <2>3. SumOf(treasury', Governor) = SumOf(treasury, Governor)
    BY <1>0, <2>1, MovedSum
  <2> QED
    BY <2>1, <2>2, <2>3
<1>9. ASSUME NEW l \in queue, Settle(l) PROVE Dormant' /\ MoneyConserved'
  <2> DEFINE c == lots[l]
             fee == FreightPaid(c)
  <2>1. l \in DOMAIN lots /\ LotOK(l)
    BY DEF MarketInv, Counters, Lots
  <2>2. /\ c.seller \in active /\ c.bidder \in active /\ c.bid \in Nat
    BY <1>9, <2>1, ConstantsAssumption DEF LotOK, Lot, Settle
  <2>3. fee \in Nat
    BY <1>0, <1>9, <2>1, FreightFact DEF Settle
  <2>4. /\ treasury' = [[treasury EXCEPT ![c.bidder] = @ - c.bid - fee]
                          EXCEPT ![c.seller] = @ + c.bid]
        /\ outside' = outside + fee /\ active' = active
    BY <1>9 DEF Settle, Visit
  <2> HIDE DEF c, fee
  <2>5. Dormant'
    BY <1>0, <2>2, <2>4
  <2>6. SumOf(treasury', Governor) = SumOf(treasury, Governor) - fee
    <3>1. c.seller \in Governor /\ c.bidder \in Governor
      BY <1>0, <2>2
    <3>2. PaidFor(treasury, treasury', c.bidder, c.seller, c.bid, fee)
      BY <1>0, <2>2, <2>3, <2>4, <3>1 DEF PaidFor
    <3>3. treasury' \in [Governor -> Nat]
      BY <1>9, SettleStep DEF MarketInv, Counters
    <3> QED
      BY <1>0, <2>2, <2>3, <3>1, <3>2, <3>3, PaidOutSum
  <2> QED
    BY <1>0, <2>3, <2>4, <2>5, <2>6, ConstantsAssumption
<1>10. CASE UpdateStep
  <2>1. ASSUME NEW l \in queue, MarkReady(l) \/ ClearBid(l) PROVE Dormant' /\ MoneyConserved'
    BY <1>1, <2>1 DEF MarkReady, ClearBid, Visit
  <2> QED
    BY <1>9, <1>10, <2>1 DEF UpdateStep
<1>11. CASE \E g \in Governor, pt \in Port, n \in 1..Goods : pt[1] = g[1] /\ Sell(g, pt[2], n)
  BY <1>1, <1>11 DEF Sell
<1>12. CASE \E g \in Governor, p \in Planet, l \in DOMAIN lots, n \in 0..Money : Bid(g, p, l, n)
  BY <1>1, <1>12 DEF Bid
<1>13. CASE \E g \in Governor, pt \in Port : pt[1] = g[1] /\ GrantStar(g, pt[2])
  BY <1>1, <1>13 DEF GrantStar
<1>14. CASE BeginUpdate
  BY <1>1, <1>14 DEF BeginUpdate
<1>15. CASE UNCHANGED market_vars
  BY <1>1, <1>15 DEF market_vars
<1> QED
  BY <1>2, <1>3, <1>5, <1>6, <1>7, <1>8, <1>10, <1>11, <1>12, <1>13, <1>14, <1>15
     DEF MarketNext

(* Goods: a listed unit left its stockpile when it was listed and arrives  *)
(* in one when the lot is delivered.                                       *)
LEMMA InitGoods == MarketInit => GoodsConserved
<1> SUFFICES ASSUME MarketInit PROVE GoodsConserved
  OBVIOUS
<1>1. SumOf(stock, Port) = Goods * Cardinality(Port)
  <2>1. \A p \in Port : stock[p] = Goods
    BY DEF MarketInit
  <2> QED
    BY <2>1, SumOfEquals, ConstantsAssumption
<1>2. SumOf(OnMarket, DOMAIN lots) = 0
  <2>1. DOMAIN lots = {}
    BY DEF MarketInit
  <2> QED
    BY <2>1, SumEmpty
<1>3. SumOf(stock, Port) \in Int
  BY <1>1, FS_CardinalityType, ConstantsAssumption
<1> QED
  BY <1>1, <1>2, <1>3 DEF GoodsConserved

LEMMA MarketTypes ==
  ASSUME MarketInv
  PROVE  /\ IsFiniteSet(DOMAIN lots)
         /\ \A p \in Port : stock[p] \in Int
         /\ \A l \in DOMAIN lots : OnMarket[l] \in Int /\ lots[l].amount \in Nat
         /\ SumOf(stock, Port) \in Int /\ SumOf(OnMarket, DOMAIN lots) \in Int
<1>1. IsFiniteSet(DOMAIN lots)
  <2>1. DOMAIN lots \in SUBSET LotId
    BY DEF MarketInv, Lots
  <2>2. IsFiniteSet(LotId)
    BY FS_Interval, ConstantsAssumption
  <2> QED
    BY <2>1, <2>2, FS_Subset
<1>2. \A p \in Port : stock[p] \in Int
  BY DEF MarketInv, Counters
<1>3. \A l \in DOMAIN lots : lots[l].amount \in Nat
  BY DEF MarketInv, Lots, LotOK, Lot
<1>4. \A l \in DOMAIN lots : OnMarket[l] \in Int
  BY <1>3 DEF OnMarket
<1> QED
  BY <1>1, <1>2, <1>3, <1>4, SumIsInt, ConstantsAssumption

(* A step that moves no goods *)
LEMMA GoodsStay ==
  ASSUME MarketInv, GoodsConserved, stock' = stock, DOMAIN lots' = DOMAIN lots,
         \A l \in DOMAIN lots : lots'[l].amount = lots[l].amount
  PROVE  GoodsConserved'
<1>1. \A l \in DOMAIN lots : OnMarket'[l] = OnMarket[l]
  BY DEF OnMarket
<1>2. SumOf(OnMarket', DOMAIN lots) = SumOf(OnMarket, DOMAIN lots)
  BY <1>1, MarketTypes, SumCongruence
<1> QED
  BY <1>2 DEF GoodsConserved

LEMMA SellGoods ==
  ASSUME MarketInv, GoodsConserved, NEW g \in Governor, NEW pt \in Port, NEW n \in 1..Goods,
         pt[1] = g[1], Sell(g, pt[2], n)
  PROVE  GoodsConserved'
<1> DEFINE amount == IF n < stock[pt] THEN n ELSE stock[pt]
<1>1. pt = <<RaceOf(g), pt[2]>>
  BY ConstantsAssumption
<1>2. /\ stock' = [stock EXCEPT ![pt] = @ - amount]
      /\ lots' = [l \in DOMAIN lots \cup {nextLot} |->
                    IF l = nextLot THEN NewLot(g, pt[2], amount) ELSE lots[l]]
  BY <1>1 DEF Sell
<1>3. amount \in Int /\ n \in Int /\ stock[pt] \in Int
  BY MarketTypes, ConstantsAssumption
<1> HIDE DEF amount
<1>4. nextLot \notin DOMAIN lots
  <2>1. nextLot \in Int
    BY ConstantsAssumption DEF MarketInv, Counters
  <2>2. \A l \in DOMAIN lots : l < nextLot
    BY DEF MarketInv, Lots, LotOK
  <2> QED
    BY <2>1, <2>2
<1>5. SumOf(stock', Port) = SumOf(stock, Port) - amount
  <2>1. stock \in [Port -> Nat]
    BY DEF MarketInv, Counters
  <2>2. /\ \A p \in Port : stock[p] \in Int /\ stock'[p] \in Int
        /\ \A p \in Port \ {pt} : stock'[p] = stock[p]
        /\ stock'[pt] = stock[pt] - amount
    BY <1>2, <1>3, <2>1
  <2>3. SumOf(stock', Port) = SumOf(stock, Port) - stock[pt] + stock'[pt]
    BY <2>2, SumChange, ConstantsAssumption
  <2> QED
    BY <1>3, <2>2, <2>3, MarketTypes
<1>6. SumOf(OnMarket', DOMAIN lots') = amount + SumOf(OnMarket, DOMAIN lots)
  <2>1. DOMAIN lots' = DOMAIN lots \cup {nextLot}
    BY <1>2
  <2>2. /\ OnMarket'[nextLot] = amount
        /\ \A l \in DOMAIN lots : OnMarket'[l] = OnMarket[l]
    BY <1>2, <1>4 DEF OnMarket, NewLot
  <2>3. SumOf(OnMarket', DOMAIN lots \cup {nextLot})
          = OnMarket'[nextLot] + SumOf(OnMarket', DOMAIN lots)
    BY <1>3, <1>4, <2>2, MarketTypes, SumGrow
  <2>4. SumOf(OnMarket', DOMAIN lots) = SumOf(OnMarket, DOMAIN lots)
    BY <2>2, MarketTypes, SumCongruence
  <2> QED
    BY <2>1, <2>2, <2>3, <2>4
<1> QED
  BY <1>3, <1>5, <1>6, MarketTypes DEF GoodsConserved

LEMMA SettleGoods ==
  ASSUME MarketInv, GoodsConserved, NEW l \in queue, Settle(l)
  PROVE  GoodsConserved'
<1> DEFINE n == lots[l].amount
           port == <<RaceOf(lots[l].bidder), lots[l].to>>
<1>1. l \in DOMAIN lots /\ LotOK(l)
  BY DEF MarketInv, Counters, Lots
<1>2. port \in Port
  BY <1>1 DEF LotOK, Settle
<1>3. /\ stock' = [stock EXCEPT ![port] = @ + n]
      /\ lots' = [k \in DOMAIN lots \ {l} |-> lots[k]]
  BY DEF Settle, WithoutLot, Restrict
<1>4. n \in Int /\ n = OnMarket[l]
  BY <1>1, MarketTypes DEF OnMarket
<1> HIDE DEF n, port
<1>5. SumOf(stock', Port) = SumOf(stock, Port) + n
  <2>1. stock \in [Port -> Nat]
    BY DEF MarketInv, Counters
  <2>2. /\ \A p \in Port : stock[p] \in Int /\ stock'[p] \in Int
        /\ \A p \in Port \ {port} : stock'[p] = stock[p]
        /\ stock'[port] = stock[port] + n
    BY <1>2, <1>3, <1>4, <2>1
  <2>3. SumOf(stock', Port) = SumOf(stock, Port) - stock[port] + stock'[port]
    BY <1>2, <2>2, SumChange, ConstantsAssumption
  <2> QED
    BY <1>2, <1>4, <2>2, <2>3, MarketTypes
<1>6. /\ SumOf(OnMarket, DOMAIN lots) = n + SumOf(OnMarket', DOMAIN lots')
      /\ SumOf(OnMarket', DOMAIN lots') \in Int
  <2>1. DOMAIN lots' = DOMAIN lots \ {l}
    BY <1>3
  <2>2. \A k \in DOMAIN lots \ {l} : OnMarket'[k] = OnMarket[k]
    BY <1>3 DEF OnMarket
  <2>3. SumOf(OnMarket, DOMAIN lots) = OnMarket[l] + SumOf(OnMarket, DOMAIN lots \ {l})
    BY <1>1, MarketTypes, SumTake
  <2>4. SumOf(OnMarket', DOMAIN lots \ {l}) = SumOf(OnMarket, DOMAIN lots \ {l})
    <3>1. IsFiniteSet(DOMAIN lots \ {l})
      BY MarketTypes, FS_RemoveElement
    <3> QED
      BY <2>2, <3>1, MarketTypes, SumCongruence
  <2>5. SumOf(OnMarket, DOMAIN lots \ {l}) \in Int
    BY MarketTypes, FS_RemoveElement, SumIsInt
  <2> QED
    BY <1>4, <2>1, <2>3, <2>4, <2>5
<1> QED
  BY <1>4, <1>5, <1>6, MarketTypes DEF GoodsConserved

LEMMA GoodsKept ==
  ASSUME MarketInv, [MarketNext]_market_vars, GoodsConserved
  PROVE  GoodsConserved'
<1>1. CASE \E g \in Governor, pt \in Port, n \in 1..Goods : pt[1] = g[1] /\ Sell(g, pt[2], n)
  BY <1>1, SellGoods
<1>2. CASE \E g \in Governor, p \in Planet, l \in DOMAIN lots, n \in 0..Money : Bid(g, p, l, n)
  <2>1. PICK g \in Governor, p \in Planet, l \in DOMAIN lots, n \in 0..Money : Bid(g, p, l, n)
    BY <1>2
  <2>2. stock' = stock /\ lots' = [lots EXCEPT ![l].bid = n, ![l].bidder = g, ![l].to = p]
    BY <2>1 DEF Bid
  <2>3. ASSUME NEW k \in DOMAIN lots PROVE lots'[k].amount = lots[k].amount
    <3>1. CASE k = l
      <4>1. lots[k] \in Lot
        BY DEF MarketInv, Lots, LotOK
      <4>2. lots'[k] = [lots[k] EXCEPT !.bid = n, !.bidder = g, !.to = p]
        BY <2>2, <3>1
      <4> QED
        BY <4>1, <4>2 DEF Lot
    <3>2. CASE k # l
      BY <2>2, <3>2
    <3> QED
      BY <3>1, <3>2
  <2> QED
    BY <2>2, <2>3, GoodsStay
<1>3. CASE \/ \E g \in Governor, n \in 1..Money : Spend(g, n) \/ Earn(g, n)
           \/ \E r, s \in Race, n \in 1..Money : Pay(r, s, n)
           \/ \E g, h \in Governor, n \in 1..Money : Grant(g, h, n)
           \/ \E g \in Governor, pt \in Port : pt[1] = g[1] /\ GrantStar(g, pt[2])
           \/ \E g \in Governor : Appoint(g)
           \/ BeginUpdate
  <2>1. UNCHANGED <<stock, lots>>
    BY <1>3 DEF Spend, Earn, Pay, Grant, GrantStar, Appoint, BeginUpdate
  <2> QED
    BY <2>1, GoodsStay
<1>4. CASE \E g, h \in Governor : Revoke(g, h)
  <2>1. PICK g \in Governor, h \in Governor : Revoke(g, h)
    BY <1>4
  <2>2. stock' = stock /\ lots' = [l \in DOMAIN lots |-> TransferGovernor(lots[l], g, h)]
    BY <2>1 DEF Revoke
  <2>3. ASSUME NEW k \in DOMAIN lots PROVE lots'[k].amount = lots[k].amount
    <3>1. lots[k] \in Lot
      BY DEF MarketInv, Lots, LotOK
    <3> QED
      BY <2>2, <3>1 DEF TransferGovernor, Lot
  <2> QED
    BY <2>2, <2>3, GoodsStay
<1>5. CASE \E l \in queue : Settle(l)
  BY <1>5, SettleGoods
<1>6. ASSUME NEW l \in queue, MarkReady(l) \/ ClearBid(l) PROVE GoodsConserved'
  <2>1. l \in DOMAIN lots /\ lots[l] \in Lot
    BY DEF MarketInv, Counters, Lots, LotOK
  <2>2. PICK c : /\ c = [lots[l] EXCEPT !.deliver = TRUE] \/ c = Cleared(lots[l])
                 /\ lots' = [lots EXCEPT ![l] = c] /\ stock' = stock
    <3>1. CASE MarkReady(l)
      <4>1. lots' = [lots EXCEPT ![l] = [lots[l] EXCEPT !.deliver = TRUE]] /\ stock' = stock
        BY <3>1 DEF MarkReady
      <4> QED
        BY <4>1
    <3>2. CASE ClearBid(l)
      BY <3>2 DEF ClearBid
    <3> QED
      BY <1>6, <3>1, <3>2
  <2>3. c.amount = lots[l].amount
    BY <2>1, <2>2 DEF Cleared, Lot
  <2> QED
    BY <2>1, <2>2, <2>3, GoodsStay
<1>7. CASE UNCHANGED market_vars
  BY <1>7, GoodsStay DEF market_vars
<1> QED
  BY <1>1, <1>2, <1>3, <1>4, <1>5, <1>6, <1>7 DEF MarketNext, UpdateStep

(* Goods and money are conserved by listings, deliveries, bids that cannot *)
(* be paid, payments to oneself, revocations, taxes and freight            *)
(* (sell.cc:110, doturncmd.cc:197-209, grant.cc:84, deduct_maintenance).   *)
THEOREM BooksAlwaysBalance == MarketSpec => []BooksBalance
<1>1. MarketInit => Dormant /\ MoneyConserved /\ GoodsConserved
  BY InitMoney, InitGoods
<1>2. /\ MarketInv /\ Dormant /\ MoneyConserved /\ GoodsConserved
      /\ [MarketNext]_market_vars
      => (Dormant /\ MoneyConserved /\ GoodsConserved)'
  BY MoneyKept, GoodsKept
<1>3. MarketSpec => [](Dormant /\ MoneyConserved /\ GoodsConserved)
  BY <1>1, <1>2, MarketInvariant, PTL DEF MarketSpec
<1> QED
  BY <1>3, PTL DEF BooksBalance


-----------------------------------------------------------------------------
(* Carriers: records *)

Dock == {"gone", "landed", "spaceborne", "moored", "berthed"}
Craft ==
  [type : Type \cup {Nil}, make : Type \cup {Nil}, dock : Dock, dest : Ship \cup {Nil},
   hold : Nat, bay : Nat, size : Nat, cost : Nat, on : BOOLEAN, res : Nat,
   hanger : Int, mass : Int, waste : Nat]

\* The record of a ship that exists.
Whole(i) ==
  /\ i \in Craft /\ i.dock # "gone" /\ i.type \in Type /\ i.cost = Cost(i)
  /\ i.dock \in {"moored", "berthed"} => i.dest \in Ship

(* What the tables of ship types and the planet give.                      *)
LEMMA FleetNumbers ==
  /\ IsFiniteSet(Ship) /\ Ship \subseteq Nat /\ Nil \notin Ship
  /\ Nil \notin Type /\ "factory" \in Type
  /\ Amount \subseteq Nat /\ Setting \subseteq Nat
  /\ TOXMAX \in Nat /\ Riches \in Nat /\ Pollution \in Nat
  /\ \A t \in Type : /\ Template[t].hold \in Nat /\ Template[t].bay \in Nat
                     /\ Template[t].hull \in Nat
  BY CarriersAssumption

LEMMA CraftFields ==
  ASSUME NEW i \in Craft
  PROVE  /\ i.type \in Type \cup {Nil} /\ i.make \in Type \cup {Nil} /\ i.dock \in Dock
         /\ i.dest \in Ship \cup {Nil} /\ i.hold \in Nat /\ i.bay \in Nat /\ i.size \in Nat
         /\ i.cost \in Nat /\ i.on \in BOOLEAN /\ i.res \in Nat /\ i.hanger \in Int
         /\ i.mass \in Int /\ i.waste \in Nat
  BY DEF Craft

(* Two of a finite set of integers. *)
LEMMA GreaterOf ==
  ASSUME NEW a \in Int, NEW b \in Int
  PROVE  Max({a, b}) = IF a >= b THEN a ELSE b
  <1> DEFINE P(x) == x \in {a, b} /\ \A y \in {a, b} : x >= y
             z == IF a >= b THEN a ELSE b
  <1>1. P(z)
    OBVIOUS
  <1>2. \A x, y : P(x) /\ P(y) => x = y
    OBVIOUS
  <1> QED BY <1>1, <1>2 DEF Max
LEMMA SmallerOf ==
  ASSUME NEW a \in Int, NEW b \in Int
  PROVE  Min({a, b}) = IF a <= b THEN a ELSE b
  <1> DEFINE P(x) == x \in {a, b} /\ \A y \in {a, b} : x <= y
             z == IF a <= b THEN a ELSE b
  <1>1. P(z)
    OBVIOUS
  <1>2. \A x, y : P(x) /\ P(y) => x = y
    OBVIOUS
  <1> QED BY <1>1, <1>2 DEF Min

(* What is computed from a record. *)
LEMMA HullNumbers ==
  ASSUME NEW i, Whole(i)
  PROVE  /\ BuildType(i) \in Type /\ Cost(i) \in Nat /\ BaseMass(i) \in Nat /\ BaseMass(i) >= 1
         /\ LocalMass(i) \in Nat /\ LocalMass(i) = BaseMass(i) + i.res
         /\ CalculatedSize(i) \in Nat /\ MaxResource(i) \in Nat /\ Room(i) \in Nat
         /\ EffectiveCost(i) \in Nat /\ ScrapValue(i) \in Nat
  <1>1. i \in Craft /\ i.type \in Type
    BY DEF Whole
  <1>2. BuildType(i) \in Type
    BY <1>1, CraftFields DEF BuildType
  <1>3. Cost(i) \in Nat
    BY <1>1, <1>2, CraftFields, FleetNumbers DEF Cost
  <1>4. BaseMass(i) \in Nat /\ BaseMass(i) >= 1 /\ LocalMass(i) \in Nat
        /\ CalculatedSize(i) \in Nat /\ LocalMass(i) = BaseMass(i) + i.res
    BY <1>1, CraftFields DEF BaseMass, LocalMass, CalculatedSize
  <1>5. MaxResource(i) \in Nat
    BY <1>1, CraftFields, FleetNumbers DEF MaxResource
  <1>6. Room(i) \in Nat
    <2>1. MaxResource(i) - i.res \in Int /\ 0 \in Int
      BY <1>1, <1>5, CraftFields
    <2> QED BY <2>1, GreaterOf DEF Room
  <1>7. EffectiveCost(i) \in Nat
    BY <1>1, CraftFields, FleetNumbers DEF EffectiveCost
  <1>8. ScrapValue(i) \in Nat
    BY <1>1, <1>7, CraftFields DEF ScrapValue
  <1> QED BY <1>2, <1>3, <1>4, <1>5, <1>6, <1>7, <1>8

\* y is the ship i with another cargo, mass, size or hangar in use.
SameHull(i, y) ==
  /\ y.type = i.type /\ y.make = i.make /\ y.hold = i.hold /\ y.bay = i.bay
  /\ y.cost = i.cost /\ y.on = i.on

LEMMA HullKept ==
  ASSUME NEW i, Whole(i), NEW y \in Craft, SameHull(i, y), y.dock = i.dock, y.dest = i.dest
  PROVE  /\ Whole(y) /\ Cost(y) = Cost(i) /\ BaseMass(y) = BaseMass(i)
         /\ MaxResource(y) = MaxResource(i) /\ EffectiveCost(y) = EffectiveCost(i)
         /\ CalculatedSize(y) = CalculatedSize(i)
  BY DEF SameHull, Whole, Cost, BuildType, BaseMass, MaxResource, EffectiveCost,
         CalculatedSize

\* The ship i with m more, or less, of cargo
Stowed(i, m) == [i EXCEPT !.res = @ + m, !.mass = @ + m]

LEMMA StowedRecord ==
  ASSUME NEW i, Whole(i), NEW m \in Int, i.res + m >= 0
  PROVE  LET y == Stowed(i, m)
         IN  /\ y \in Craft /\ SameHull(i, y) /\ y.dock = i.dock /\ y.dest = i.dest
             /\ y.res = i.res + m /\ y.mass = i.mass + m /\ y.size = i.size
             /\ y.hanger = i.hanger /\ y.waste = i.waste
  <1>1. i \in Craft /\ i.res + m \in Nat /\ i.mass + m \in Int
    BY CraftFields DEF Whole
  <1> QED BY <1>1 DEF Stowed, Craft, SameHull

LEMMA StowedWorth ==
  ASSUME NEW i, Whole(i), NEW m \in Int, i.res + m >= 0
  PROVE  LET y == Stowed(i, m)
         IN  /\ Whole(y) /\ BaseMass(y) = BaseMass(i) /\ MaxResource(y) = MaxResource(i)
             /\ LocalMass(y) = LocalMass(i) + m /\ ScrapValue(y) = ScrapValue(i) + m
  <1> DEFINE y == Stowed(i, m)
  <1>1. /\ y \in Craft /\ SameHull(i, y) /\ y.dock = i.dock /\ y.dest = i.dest
        /\ y.res = i.res + m
    BY StowedRecord
  <1> HIDE DEF y
  <1>2. Whole(y) /\ BaseMass(y) = BaseMass(i) /\ MaxResource(y) = MaxResource(i)
        /\ EffectiveCost(y) = EffectiveCost(i)
    BY <1>1, HullKept
  <1>3. i.res \in Int /\ BaseMass(i) \in Int /\ EffectiveCost(i) \div 2 \in Int
    BY HullNumbers, CraftFields DEF Whole
  <1>4. LocalMass(y) = LocalMass(i) + m
    BY <1>1, <1>2, <1>3 DEF LocalMass
  <1>5. ScrapValue(y) = ScrapValue(i) + m
    BY <1>1, <1>2, <1>3 DEF ScrapValue
  <1> QED BY <1>2, <1>4, <1>5 DEF y

-----------------------------------------------------------------------------
(* Berths: who is in whom *)

\* Ranks rise from craft to carrier: no ship is, on whatever deck, in itself.
Ranked(f) ==
  \E r \in [Ship -> Nat] : \A s \in Ship : Berthed(f, s) => r[s] < r[f[s].dest]
Docks(f) ==
  \A s \in Ship :
    /\ Berthed(f, s) => /\ f[s].dest \in Ship /\ Alive(f, f[s].dest)
                        /\ f[f[s].dest].type # "factory"
    /\ f[s].dock = "moored" => /\ f[s].dest \in Ship /\ f[s].dest # s
                               /\ f[f[s].dest].dock = "moored" /\ f[f[s].dest].dest = s
FleetSound(f) ==
  /\ f \in [Ship -> Craft]
  /\ \A s \in Ship : IF Alive(f, s) THEN Whole(f[s]) ELSE f[s] = Gone
  /\ Docks(f) /\ Ranked(f)

LEMMA Around1 ==
  ASSUME NEW f, Docks(f), NEW c \in Ship
  PROVE  /\ Ancestors(f, c) \subseteq Ship
         /\ ~Berthed(f, c) => Ancestors(f, c) = {}
         /\ Berthed(f, c) =>
              /\ f[c].dest \in Ancestors(f, c)
              /\ Ancestors(f, c) = {f[c].dest} \cup Ancestors(f, f[c].dest)
         /\ Upwards(f, Ancestors(f, c))
  <1> DEFINE Good(d, S) == (Berthed(f, d) => f[d].dest \in S) /\ Upwards(f, S)
  <1>1. \A d : Ancestors(f, d) = {a \in Ship : \A S \in SUBSET Ship : Good(d, S) => a \in S}
    BY DEF Ancestors
  <1>2. ASSUME NEW d \in Ship PROVE Good(d, Ancestors(f, d))
    <2>1. ASSUME Berthed(f, d) PROVE f[d].dest \in Ancestors(f, d)
      <3>1. f[d].dest \in Ship
        BY <2>1 DEF Docks
      <3> QED BY <1>1, <2>1, <3>1
    <2>2. ASSUME NEW x \in Ancestors(f, d), Berthed(f, x) PROVE f[x].dest \in Ancestors(f, d)
      <3>1. x \in Ship
        BY <1>1
      <3>2. f[x].dest \in Ship
        BY <2>2, <3>1 DEF Docks
      <3>3. ASSUME NEW S \in SUBSET Ship, Good(d, S) PROVE f[x].dest \in S
        <4>1. x \in S
          BY <1>1, <3>3
        <4> QED BY <2>2, <3>3, <4>1 DEF Upwards
      <3> QED BY <1>1, <3>2, <3>3
    <2> QED BY <2>1, <2>2 DEF Upwards
  <1>3. \A d \in Ship, S \in SUBSET Ship : Good(d, S) => Ancestors(f, d) \subseteq S
    BY <1>1
  <1>4. Ancestors(f, c) \subseteq Ship
    BY <1>1
  <1>5. ASSUME ~Berthed(f, c) PROVE Ancestors(f, c) = {}
    <2>1. Good(c, {})
      BY <1>5 DEF Upwards
    <2> QED BY <1>3, <2>1
  <1>6. ASSUME Berthed(f, c) PROVE Ancestors(f, c) = {f[c].dest} \cup Ancestors(f, f[c].dest)
    <2> DEFINE d == f[c].dest
               T == {d} \cup Ancestors(f, d)
    <2>1. d \in Ship
      BY <1>6 DEF Docks
    <2>2. T \subseteq Ship
      BY <1>1, <2>1
    <2>3. Good(c, T)
      <3>1. Good(d, Ancestors(f, d))
        BY <1>2, <2>1
      <3> QED BY <3>1 DEF Upwards
    <2>4. Ancestors(f, c) \subseteq T
      BY <1>3, <2>2, <2>3
    <2>5. Good(c, Ancestors(f, c))
      BY <1>2
    <2>6. d \in Ancestors(f, c)
      BY <1>6, <2>5
    <2>7. Good(d, Ancestors(f, c))
      BY <2>5, <2>6 DEF Upwards
    <2>8. Ancestors(f, d) \subseteq Ancestors(f, c)
      BY <1>3, <1>4, <2>1, <2>7
    <2> QED BY <2>4, <2>6, <2>8
  <1> QED BY <1>2, <1>4, <1>5, <1>6

(* The smallest such set. *)
LEMMA Around2 ==
  ASSUME NEW f, NEW c, NEW S \in SUBSET Ship, Berthed(f, c) => f[c].dest \in S, Upwards(f, S)
  PROVE  Ancestors(f, c) \subseteq S
  BY DEF Ancestors

\* g has the same ships in the same hangars as f.
SameBerths(f, g) ==
  \A x \in Ship :
    /\ Alive(g, x) <=> Alive(f, x)
    /\ Berthed(g, x) <=> Berthed(f, x)
    /\ Berthed(f, x) => g[x].dest = f[x].dest

LEMMA BerthsFollow ==
  ASSUME NEW f, NEW g, SameBerths(f, g)
  PROVE  /\ \A c \in Ship : /\ InCarrier(g, c) = InCarrier(f, c)
                           /\ Ancestors(g, c) = Ancestors(f, c)
                           /\ Nest(g, c) = Nest(f, c)
         /\ Ranked(f) => Ranked(g)
  <1>1. \A c \in Ship : InCarrier(g, c) = InCarrier(f, c)
    BY DEF SameBerths, InCarrier
  <1>2. \A S \in SUBSET Ship : Upwards(g, S) <=> Upwards(f, S)
    BY DEF SameBerths, Upwards
  <1>3. ASSUME NEW c \in Ship PROVE Ancestors(g, c) = Ancestors(f, c)
    <2>1. \A S \in SUBSET Ship : (Berthed(g, c) => g[c].dest \in S) <=> (Berthed(f, c) => f[c].dest \in S)
      BY DEF SameBerths
    <2> QED BY <1>2, <2>1 DEF Ancestors
  <1>4. \A c \in Ship : Nest(g, c) = Nest(f, c)
    BY <1>3 DEF Nest
  <1>5. ASSUME Ranked(f) PROVE Ranked(g)
    BY <1>5 DEF Ranked, SameBerths
  <1> QED BY <1>1, <1>3, <1>4, <1>5

(* No more berths than there were, or one more in a ship that is in none.  *)
LEMMA RanksLess ==
  ASSUME NEW f, NEW g, Ranked(f),
         \A x \in Ship : Berthed(g, x) => Berthed(f, x) /\ g[x].dest = f[x].dest
  PROVE  Ranked(g)
  BY DEF Ranked
LEMMA RanksJoin ==
  ASSUME NEW f, NEW g, Ranked(f), NEW s \in Ship, NEW c \in Ship, s # c,
         ~Berthed(g, c), Berthed(g, s) => g[s].dest = c,
         \A x \in Ship \ {s} : Berthed(g, x) => Berthed(f, x) /\ g[x].dest = f[x].dest
  PROVE  Ranked(g)
  <1>1. PICK r \in [Ship -> Nat] : \A x \in Ship : Berthed(f, x) => r[x] < r[f[x].dest]
    BY DEF Ranked
  <1> DEFINE q == [r EXCEPT ![c] = r[c] + r[s] + 1]
  <1>2. q \in [Ship -> Nat] /\ \A x \in Ship : q[x] >= r[x]
    BY <1>1
  <1>3. ASSUME NEW x \in Ship, Berthed(g, x) PROVE q[x] < q[g[x].dest]
    <2>1. x # c /\ q[x] = r[x]
      BY <1>1, <1>3
    <2>2. CASE x = s
      BY <1>1, <1>3, <2>1, <2>2
    <2>3. CASE x # s
      <3>1. Berthed(f, x) /\ g[x].dest = f[x].dest /\ r[x] < r[f[x].dest]
        BY <1>1, <1>3, <2>3
      <3>2. CASE f[x].dest \in Ship
        <4>1. q[f[x].dest] >= r[f[x].dest] /\ q[f[x].dest] \in Nat /\ r[f[x].dest] \in Nat /\ r[x] \in Nat
          BY <1>1, <1>2, <3>2
        <4> QED BY <2>1, <3>1, <4>1
      <3>3. CASE f[x].dest \notin Ship
        <4>1. q[f[x].dest] = r[f[x].dest]
          BY <1>1, <3>3
        <4> QED BY <2>1, <3>1, <4>1
      <3> QED BY <3>2, <3>3
    <2> QED BY <2>2, <2>3
  <1> QED BY <1>2, <1>3 DEF Ranked

(* A set that whoever is in the ship's chain does not leave.                *)
LEMMA AncestorsWithin ==
  ASSUME NEW g, FleetSound(g), NEW x \in Ship, NEW T \in SUBSET Ship,
         \A y \in {x} \cup T, d \in Ship : y \in InCarrier(g, d) => d \in T
  PROVE  Ancestors(g, x) \subseteq T
  <1>1. \A y \in {x} \cup T : Berthed(g, y) => g[y].dest \in T
    BY DEF FleetSound, Docks, InCarrier
  <1>2. Upwards(g, T)
    BY <1>1 DEF Upwards
  <1> QED BY <1>1, <1>2, Around2

(* The carriers around a ship are alive, no factories, and not in it.      *)
LEMMA AncestorsLive ==
  ASSUME NEW f, FleetSound(f), NEW c \in Ship
  PROVE  /\ \A a \in Ancestors(f, c) : a \in Ship /\ Alive(f, a) /\ f[a].type # "factory"
         /\ c \notin Ancestors(f, c)
         /\ \A a \in Ancestors(f, c) : c \notin Ancestors(f, a)
  <1> DEFINE L == {x \in Ship : Alive(f, x) /\ f[x].type # "factory"}
  <1>1. Docks(f)
    BY DEF FleetSound
  <1>2. Upwards(f, L) /\ (Berthed(f, c) => f[c].dest \in L)
    BY <1>1 DEF Docks, Upwards
  <1>3. Ancestors(f, c) \subseteq L
    BY <1>2, Around2
  <1>4. PICK r \in [Ship -> Nat] : \A x \in Ship : Berthed(f, x) => r[x] < r[f[x].dest]
    BY DEF FleetSound, Ranked
  <1>5. \A y \in Ship : \A a \in Ancestors(f, y) : r[y] < r[a]
    <2> SUFFICES ASSUME NEW y \in Ship PROVE \A a \in Ancestors(f, y) : r[y] < r[a]
      OBVIOUS
    <2> DEFINE U == {x \in Ship : r[y] < r[x]}
    <2>1. Berthed(f, y) => f[y].dest \in U
      BY <1>1, <1>4 DEF Docks
    <2>2. Upwards(f, U)
      <3> SUFFICES ASSUME NEW x \in U, Berthed(f, x) PROVE f[x].dest \in U
        BY DEF Upwards
      <3>1. f[x].dest \in Ship /\ r[x] < r[f[x].dest] /\ r[y] < r[x]
        BY <1>1, <1>4 DEF Docks
      <3>2. r[x] \in Nat /\ r[y] \in Nat /\ r[f[x].dest] \in Nat
        BY <1>4, <3>1
      <3> QED BY <3>1, <3>2
    <2> QED BY <2>1, <2>2, Around2
  <1>6. c \notin Ancestors(f, c)
    BY <1>4, <1>5
  <1>7. \A a \in Ancestors(f, c) : c \notin Ancestors(f, a)
    <2> SUFFICES ASSUME NEW a \in Ancestors(f, c), c \in Ancestors(f, a) PROVE FALSE
      OBVIOUS
    <2>1. a \in Ship
      BY <1>3
    <2>2. r[c] < r[a] /\ r[a] < r[c] /\ r[a] \in Nat /\ r[c] \in Nat
      BY <1>4, <1>5, <2>1
    <2> QED BY <2>2
  <1> QED BY <1>3, <1>6, <1>7

(* A table is sound when its ships are whole and moored as before.         *)
LEMMA SoundFollows ==
  ASSUME NEW f, FleetSound(f), NEW g \in [Ship -> Craft], SameBerths(f, g),
         \A x \in Ship : IF Alive(f, x) THEN Whole(g[x]) /\ g[x].type = f[x].type
                        ELSE g[x] = f[x],
         \A x \in Ship : g[x].dock = "moored" =>
            /\ g[x].dest \in Ship /\ g[x].dest # x
            /\ g[g[x].dest].dock = "moored" /\ g[g[x].dest].dest = x
  PROVE  FleetSound(g)
  <1>1. \A x \in Ship : IF Alive(g, x) THEN Whole(g[x]) ELSE g[x] = Gone
    BY DEF FleetSound, SameBerths
  <1>2. Ranked(g)
    BY BerthsFollow DEF FleetSound
  <1>3. ASSUME NEW x \in Ship, Berthed(g, x)
        PROVE /\ g[x].dest \in Ship /\ Alive(g, g[x].dest) /\ g[g[x].dest].type # "factory"
    <2>1. Berthed(f, x) /\ g[x].dest = f[x].dest
      BY <1>3 DEF SameBerths
    <2>2. f[x].dest \in Ship /\ Alive(f, f[x].dest) /\ f[f[x].dest].type # "factory"
      BY <2>1 DEF FleetSound, Docks
    <2> QED BY <2>1, <2>2 DEF SameBerths
  <1> QED BY <1>1, <1>2, <1>3 DEF FleetSound, Docks

(* ... with docks and destinations left alone.                             *)
Alike(f, g) ==
  /\ g \in [Ship -> Craft]
  /\ \A x \in Ship :
       IF Alive(f, x)
       THEN /\ Whole(g[x]) /\ g[x].type = f[x].type
            /\ g[x].dock = f[x].dock /\ g[x].dest = f[x].dest
       ELSE g[x] = f[x]
LEMMA AlikeSound ==
  ASSUME NEW f, FleetSound(f), NEW g, Alike(f, g)
  PROVE  FleetSound(g) /\ SameBerths(f, g)
  <1>1. \A x \in Ship : g[x].dock = f[x].dock /\ g[x].dest = f[x].dest
    BY DEF Alike
  <1>2. SameBerths(f, g)
    BY <1>1 DEF SameBerths, Alive, Berthed
  <1>3. \A x \in Ship : g[x].dock = "moored" =>
            /\ g[x].dest \in Ship /\ g[x].dest # x
            /\ g[g[x].dest].dock = "moored" /\ g[g[x].dest].dest = x
    BY <1>1 DEF FleetSound, Docks
  <1>4. \A x \in Ship : IF Alive(f, x) THEN Whole(g[x]) /\ g[x].type = f[x].type
                        ELSE g[x] = f[x]
    BY DEF Alike
  <1>5. g \in [Ship -> Craft]
    BY DEF Alike
  <1>6. FleetSound(g)
    BY <1>2, <1>3, <1>4, <1>5, SoundFollows, Zenon
  <1> QED BY <1>2, <1>6

(* One ship changes. *)
Changes(f, g, s) == g \in [Ship -> Craft] /\ \A x \in Ship \ {s} : g[x] = f[x]

LEMMA PutChanges ==
  ASSUME NEW f, FleetSound(f), NEW s \in Ship, NEW y \in Craft
  PROVE  Changes(f, [f EXCEPT ![s] = y], s) /\ [f EXCEPT ![s] = y][s] = y
  BY DEF FleetSound, Changes

LEMMA OneAlike ==
  ASSUME NEW f, FleetSound(f), NEW s \in Ship, Alive(f, s), NEW g, Changes(f, g, s), Whole(g[s]),
         g[s].type = f[s].type, g[s].dock = f[s].dock, g[s].dest = f[s].dest
  PROVE  Alike(f, g)
  BY DEF FleetSound, Changes, Alike

(* One ship that is not in a hangar lands or takes off. *)
LEMMA OneFree ==
  ASSUME NEW f, FleetSound(f), NEW s \in Ship, f[s].dock \in {"landed", "spaceborne"},
         NEW g, Changes(f, g, s), Whole(g[s]),
         g[s].type = f[s].type, g[s].dock \in {"landed", "spaceborne"}
  PROVE  FleetSound(g) /\ SameBerths(f, g)
  <1>2. g \in [Ship -> Craft] /\ \A x \in Ship \ {s} : g[x] = f[x]
    BY DEF Changes
  <1>3. SameBerths(f, g)
    BY <1>2 DEF SameBerths, Alive, Berthed
  <1>4. \A x \in Ship : IF Alive(f, x) THEN Whole(g[x]) /\ g[x].type = f[x].type
                        ELSE g[x] = f[x]
    BY <1>2 DEF FleetSound, Alive
  <1>5. ASSUME NEW x \in Ship, g[x].dock = "moored"
        PROVE  /\ g[x].dest \in Ship /\ g[x].dest # x
               /\ g[g[x].dest].dock = "moored" /\ g[g[x].dest].dest = x
    <2>1. x # s /\ g[x] = f[x]
      BY <1>2, <1>5
    <2>2. f[x].dest \in Ship /\ f[x].dest # x /\ f[f[x].dest].dock = "moored" /\ f[f[x].dest].dest = x
      BY <1>5, <2>1 DEF FleetSound, Docks
    <2>3. f[x].dest # s
      BY <2>2
    <2> QED BY <1>2, <2>1, <2>2, <2>3
  <1>6. FleetSound(g)
    BY <1>2, <1>3, <1>4, <1>5, SoundFollows
  <1> QED BY <1>3, <1>6

-----------------------------------------------------------------------------
(* What is inside *)

LEMMA FewInside ==
  ASSUME NEW f, NEW c
  PROVE  InCarrier(f, c) \subseteq Ship /\ IsFiniteSet(InCarrier(f, c))
  <1>1. InCarrier(f, c) \subseteq Ship
    BY DEF InCarrier
  <1> QED BY <1>1, FleetNumbers, FS_Subset

LEMMA SizesAndMasses ==
  ASSUME NEW f \in [Ship -> Craft], NEW S \in SUBSET Ship
  PROVE  \A x \in S : /\ [y \in Ship |-> f[y].size][x] = f[x].size /\ f[x].size \in Nat
                     /\ [y \in Ship |-> f[y].mass][x] = f[x].mass /\ f[x].mass \in Int
                     /\ [y \in Ship |-> f[y].size][x] \in Int
                     /\ [y \in Ship |-> f[y].mass][x] \in Int
  BY CraftFields

LEMMA SizeInsideIs ==
  ASSUME NEW f \in [Ship -> Craft], NEW c
  PROVE  SizeInside(f, c) \in Int
  <1>1. \A x \in InCarrier(f, c) : [y \in Ship |-> f[y].size][x] \in Int
    BY FewInside, SizesAndMasses
  <1> QED BY <1>1, FewInside, SumIsInt DEF SizeInside

LEMMA SizeInsideSame ==
  ASSUME NEW f \in [Ship -> Craft], NEW g \in [Ship -> Craft], NEW c, InCarrier(g, c) = InCarrier(f, c),
         \A x \in InCarrier(f, c) : g[x].size = f[x].size
  PROVE  SizeInside(g, c) = SizeInside(f, c)
  <1> DEFINE F == [y \in Ship |-> f[y].size]
             G == [y \in Ship |-> g[y].size]
             S == InCarrier(f, c)
  <1>1. IsFiniteSet(S) /\ \A x \in S : F[x] \in Int /\ G[x] = F[x]
    BY FewInside, SizesAndMasses
  <1>2. SizeInside(g, c) = SumOf(G, S) /\ SizeInside(f, c) = SumOf(F, S)
    BY DEF SizeInside
  <1> HIDE DEF F, G, S
  <1> QED BY <1>1, <1>2, SumCongruence

LEMMA SizeInsideMore ==
  ASSUME NEW f \in [Ship -> Craft], NEW g \in [Ship -> Craft], NEW c, NEW s \in Ship,
         InCarrier(g, c) = InCarrier(f, c) \cup {s}, s \notin InCarrier(f, c),
         \A x \in InCarrier(f, c) : g[x].size = f[x].size
  PROVE  SizeInside(g, c) = SizeInside(f, c) + g[s].size
  <1> DEFINE F == [y \in Ship |-> f[y].size]
             G == [y \in Ship |-> g[y].size]
             S == InCarrier(f, c)
  <1>1. IsFiniteSet(S) /\ \A x \in S : F[x] \in Int /\ G[x] = F[x] /\ G[x] \in Int
    BY FewInside, SizesAndMasses
  <1>2. G[s] = g[s].size /\ G[s] \in Int /\ s \notin S
    BY SizesAndMasses
  <1>3. SizeInside(g, c) = SumOf(G, S \cup {s}) /\ SizeInside(f, c) = SumOf(F, S)
    BY DEF SizeInside
  <1> HIDE DEF F, G, S
  <1>4. SumOf(G, S) = SumOf(F, S) /\ SumOf(F, S) \in Int
    BY <1>1, SumCongruence, SumIsInt
  <1>5. SumOf(G, S \cup {s}) = G[s] + SumOf(G, S)
    BY <1>1, <1>2, SumGrow
  <1> QED BY <1>2, <1>3, <1>4, <1>5

LEMMA SizeInsideLess ==
  ASSUME NEW f \in [Ship -> Craft], NEW g \in [Ship -> Craft], NEW c, NEW s \in InCarrier(f, c),
         InCarrier(g, c) = InCarrier(f, c) \ {s},
         \A x \in InCarrier(f, c) \ {s} : g[x].size = f[x].size
  PROVE  SizeInside(g, c) = SizeInside(f, c) - f[s].size
  <1> DEFINE F == [y \in Ship |-> f[y].size]
             G == [y \in Ship |-> g[y].size]
             S == InCarrier(f, c)
  <1>1. IsFiniteSet(S) /\ IsFiniteSet(S \ {s}) /\ \A x \in S : F[x] \in Int
    BY FewInside, SizesAndMasses, FS_Subset
  <1>2. \A x \in S \ {s} : G[x] = F[x]
    BY FewInside, SizesAndMasses
  <1>3. F[s] = f[s].size /\ F[s] \in Int /\ s \in S
    BY FewInside, SizesAndMasses
  <1>4. SizeInside(g, c) = SumOf(G, S \ {s}) /\ SizeInside(f, c) = SumOf(F, S)
    BY DEF SizeInside
  <1> HIDE DEF F, G, S
  <1>5. SumOf(G, S \ {s}) = SumOf(F, S \ {s}) /\ SumOf(F, S \ {s}) \in Int
    BY <1>1, <1>2, SumCongruence, SumIsInt
  <1>6. SumOf(F, S) = F[s] + SumOf(F, S \ {s})
    BY <1>1, <1>3, SumTake
  <1> QED BY <1>3, <1>4, <1>5, <1>6

LEMMA SizeInsideChanged ==
  ASSUME NEW f \in [Ship -> Craft], NEW g \in [Ship -> Craft], NEW c, NEW s \in InCarrier(f, c),
         InCarrier(g, c) = InCarrier(f, c),
         \A x \in InCarrier(f, c) \ {s} : g[x].size = f[x].size
  PROVE  SizeInside(g, c) = SizeInside(f, c) - f[s].size + g[s].size
  <1> DEFINE F == [y \in Ship |-> f[y].size]
             G == [y \in Ship |-> g[y].size]
             S == InCarrier(f, c)
  <1>1. IsFiniteSet(S) /\ \A x \in S : F[x] \in Int /\ G[x] \in Int
    BY FewInside, SizesAndMasses
  <1>2. \A x \in S \ {s} : G[x] = F[x]
    BY FewInside, SizesAndMasses
  <1>3. F[s] = f[s].size /\ G[s] = g[s].size /\ s \in S
    BY FewInside, SizesAndMasses
  <1>4. SizeInside(g, c) = SumOf(G, S) /\ SizeInside(f, c) = SumOf(F, S)
    BY DEF SizeInside
  <1> HIDE DEF F, G, S
  <1> QED BY <1>1, <1>2, <1>3, <1>4, SumChange

LEMMA MassInsideIs ==
  ASSUME NEW f \in [Ship -> Craft], NEW c
  PROVE  MassInside(f, c) \in Int
  <1>1. \A x \in InCarrier(f, c) : [y \in Ship |-> f[y].mass][x] \in Int
    BY FewInside, SizesAndMasses
  <1> QED BY <1>1, FewInside, SumIsInt DEF MassInside

LEMMA MassInsideSame ==
  ASSUME NEW f \in [Ship -> Craft], NEW g \in [Ship -> Craft], NEW c, InCarrier(g, c) = InCarrier(f, c),
         \A x \in InCarrier(f, c) : g[x].mass = f[x].mass
  PROVE  MassInside(g, c) = MassInside(f, c)
  <1> DEFINE F == [y \in Ship |-> f[y].mass]
             G == [y \in Ship |-> g[y].mass]
             S == InCarrier(f, c)
  <1>1. IsFiniteSet(S) /\ \A x \in S : F[x] \in Int /\ G[x] = F[x]
    BY FewInside, SizesAndMasses
  <1>2. MassInside(g, c) = SumOf(G, S) /\ MassInside(f, c) = SumOf(F, S)
    BY DEF MassInside
  <1> HIDE DEF F, G, S
  <1> QED BY <1>1, <1>2, SumCongruence

LEMMA MassInsideMore ==
  ASSUME NEW f \in [Ship -> Craft], NEW g \in [Ship -> Craft], NEW c, NEW s \in Ship,
         InCarrier(g, c) = InCarrier(f, c) \cup {s}, s \notin InCarrier(f, c),
         \A x \in InCarrier(f, c) : g[x].mass = f[x].mass
  PROVE  MassInside(g, c) = MassInside(f, c) + g[s].mass
  <1> DEFINE F == [y \in Ship |-> f[y].mass]
             G == [y \in Ship |-> g[y].mass]
             S == InCarrier(f, c)
  <1>1. IsFiniteSet(S) /\ \A x \in S : F[x] \in Int /\ G[x] = F[x] /\ G[x] \in Int
    BY FewInside, SizesAndMasses
  <1>2. G[s] = g[s].mass /\ G[s] \in Int /\ s \notin S
    BY SizesAndMasses
  <1>3. MassInside(g, c) = SumOf(G, S \cup {s}) /\ MassInside(f, c) = SumOf(F, S)
    BY DEF MassInside
  <1> HIDE DEF F, G, S
  <1>4. SumOf(G, S) = SumOf(F, S) /\ SumOf(F, S) \in Int
    BY <1>1, SumCongruence, SumIsInt
  <1>5. SumOf(G, S \cup {s}) = G[s] + SumOf(G, S)
    BY <1>1, <1>2, SumGrow
  <1> QED BY <1>2, <1>3, <1>4, <1>5

LEMMA MassInsideLess ==
  ASSUME NEW f \in [Ship -> Craft], NEW g \in [Ship -> Craft], NEW c, NEW s \in InCarrier(f, c),
         InCarrier(g, c) = InCarrier(f, c) \ {s},
         \A x \in InCarrier(f, c) \ {s} : g[x].mass = f[x].mass
  PROVE  MassInside(g, c) = MassInside(f, c) - f[s].mass
  <1> DEFINE F == [y \in Ship |-> f[y].mass]
             G == [y \in Ship |-> g[y].mass]
             S == InCarrier(f, c)
  <1>1. IsFiniteSet(S) /\ IsFiniteSet(S \ {s}) /\ \A x \in S : F[x] \in Int
    BY FewInside, SizesAndMasses, FS_Subset
  <1>2. \A x \in S \ {s} : G[x] = F[x]
    BY FewInside, SizesAndMasses
  <1>3. F[s] = f[s].mass /\ F[s] \in Int /\ s \in S
    BY FewInside, SizesAndMasses
  <1>4. MassInside(g, c) = SumOf(G, S \ {s}) /\ MassInside(f, c) = SumOf(F, S)
    BY DEF MassInside
  <1> HIDE DEF F, G, S
  <1>5. SumOf(G, S \ {s}) = SumOf(F, S \ {s}) /\ SumOf(F, S \ {s}) \in Int
    BY <1>1, <1>2, SumCongruence, SumIsInt
  <1>6. SumOf(F, S) = F[s] + SumOf(F, S \ {s})
    BY <1>1, <1>3, SumTake
  <1> QED BY <1>3, <1>4, <1>5, <1>6

LEMMA MassInsideChanged ==
  ASSUME NEW f \in [Ship -> Craft], NEW g \in [Ship -> Craft], NEW c, NEW s \in InCarrier(f, c),
         InCarrier(g, c) = InCarrier(f, c),
         \A x \in InCarrier(f, c) \ {s} : g[x].mass = f[x].mass
  PROVE  MassInside(g, c) = MassInside(f, c) - f[s].mass + g[s].mass
  <1> DEFINE F == [y \in Ship |-> f[y].mass]
             G == [y \in Ship |-> g[y].mass]
             S == InCarrier(f, c)
  <1>1. IsFiniteSet(S) /\ \A x \in S : F[x] \in Int /\ G[x] \in Int
    BY FewInside, SizesAndMasses
  <1>2. \A x \in S \ {s} : G[x] = F[x]
    BY FewInside, SizesAndMasses
  <1>3. F[s] = f[s].mass /\ G[s] = g[s].mass /\ s \in S
    BY FewInside, SizesAndMasses
  <1>4. MassInside(g, c) = SumOf(G, S) /\ MassInside(f, c) = SumOf(F, S)
    BY DEF MassInside
  <1> HIDE DEF F, G, S
  <1> QED BY <1>1, <1>2, <1>3, <1>4, SumChange

(* A hangar holds nobody but at least as much as any one of them.          *)
LEMMA SizeInsideCovers ==
  ASSUME NEW f \in [Ship -> Craft], NEW c
  PROVE  /\ SizeInside(f, c) \in Nat
         /\ \A s \in InCarrier(f, c) : f[s].size <= SizeInside(f, c)
         /\ InCarrier(f, c) = {} => SizeInside(f, c) = 0
  <1> DEFINE F == [y \in Ship |-> f[y].size]
             S == InCarrier(f, c)
  <1>1. IsFiniteSet(S) /\ \A x \in S : F[x] \in Nat /\ F[x] = f[x].size
    BY FewInside, SizesAndMasses
  <1>2. SizeInside(f, c) = SumOf(F, S)
    BY DEF SizeInside
  <1>3. S = InCarrier(f, c)
    OBVIOUS
  <1> HIDE DEF F, S
  <1>4. SumOf(F, S) \in Nat /\ \A x \in S : F[x] <= SumOf(F, S)
    BY <1>1, SumIsNat, SumCovers
  <1>5. S = {} => SumOf(F, S) = 0
    BY SumEmpty
  <1> QED BY <1>1, <1>2, <1>3, <1>4, <1>5

\* The hangars' books, given when a factory last grew in them.
Hangars(f, gr) ==
  \A c \in Ship :
    Alive(f, c) => /\ gr[c] # "now" => f[c].hanger = SizeInside(f, c)
                   /\ gr[c] = "never" => f[c].hanger <= f[c].bay

LEMMA HangarsFollow ==
  ASSUME NEW f, FleetSound(f), NEW gr, Hangars(f, gr), NEW g, FleetSound(g), SameBerths(f, g),
         \A x \in Ship : Alive(f, x) =>
           /\ g[x].size = f[x].size /\ g[x].hanger = f[x].hanger
           /\ f[x].type = "factory" \/ g[x].bay >= f[x].bay
  PROVE  Hangars(g, gr)
  <1> SUFFICES ASSUME NEW c \in Ship, Alive(g, c)
               PROVE  /\ gr[c] # "now" => g[c].hanger = SizeInside(g, c)
                      /\ gr[c] = "never" => g[c].hanger <= g[c].bay
    BY DEF Hangars
  <1>1. Alive(f, c) /\ f \in [Ship -> Craft] /\ g \in [Ship -> Craft]
    BY DEF SameBerths, FleetSound
  <1>2. SizeInside(g, c) = SizeInside(f, c)
    <2>1. InCarrier(g, c) = InCarrier(f, c)
      BY BerthsFollow
    <2>2. \A x \in InCarrier(f, c) : g[x].size = f[x].size
      BY DEF InCarrier, Berthed, Alive
    <2> QED BY <1>1, <2>1, <2>2, SizeInsideSame
  <1>3. ASSUME gr[c] = "never" PROVE g[c].hanger <= g[c].bay
    <2>1. f[c].hanger <= f[c].bay /\ f[c].hanger = SizeInside(f, c)
      BY <1>1, <1>3 DEF Hangars
    <2>2. f[c].hanger \in Int /\ f[c].bay \in Nat /\ g[c].bay \in Nat
      BY <1>1, CraftFields
    <2>3. CASE f[c].type = "factory"
      <3>1. InCarrier(f, c) = {}
        BY <2>3 DEF FleetSound, Docks, InCarrier
      <3> QED BY <1>1, <2>1, <2>2, <3>1, SizeInsideCovers
    <2>4. CASE f[c].type # "factory"
      BY <1>1, <2>1, <2>2, <2>4
    <2> QED BY <2>3, <2>4
  <1> QED BY <1>1, <1>2, <1>3 DEF Hangars

-----------------------------------------------------------------------------
(* What carriers weigh *)

\* What a ship weighs at least by itself: a factory's design is no weight yet.
Own(i) == i.res + (IF i.type = "factory" THEN 0 ELSE BaseMass(i))

\* A ship weighs itself and what is in it, exactly or at least.
Exact(f, c) == f[c].mass = LocalMass(f[c]) + MassInside(f, c)
Heavy(f, c) == f[c].mass >= Own(f[c]) /\ f[c].mass >= Own(f[c]) + MassInside(f, c)

\* Nothing is promised of c, nor of any carrier around it.
Written(f, L, c) == {c} \cup Ancestors(f, c) \subseteq L

\* Outside L masses are exact, and only who is written off may be too light.
Masses(f, L) ==
  \A c \in Ship :
    Alive(f, c) => /\ c \notin L => Exact(f, c)
                   /\ ~Heavy(f, c) => Written(f, L, c)

LEMMA MassNumbers ==
  ASSUME NEW f, FleetSound(f), NEW c \in Ship, Alive(f, c)
  PROVE  /\ f[c].mass \in Int /\ f[c].res \in Nat /\ BaseMass(f[c]) \in Nat
         /\ Own(f[c]) \in Nat /\ LocalMass(f[c]) = BaseMass(f[c]) + f[c].res
         /\ Own(f[c]) <= LocalMass(f[c]) /\ MassInside(f, c) \in Int
         /\ f[c].type # "factory" => Own(f[c]) = LocalMass(f[c])
  <1>1. Whole(f[c]) /\ f[c] \in Craft /\ f \in [Ship -> Craft]
    BY DEF FleetSound
  <1>2. f[c].mass \in Int /\ f[c].res \in Nat /\ BaseMass(f[c]) \in Nat
    BY <1>1, CraftFields, HullNumbers
  <1>3. LocalMass(f[c]) = BaseMass(f[c]) + f[c].res
    BY DEF LocalMass
  <1>4. Own(f[c]) = IF f[c].type = "factory" THEN f[c].res ELSE f[c].res + BaseMass(f[c])
    BY <1>2 DEF Own
  <1> QED BY <1>1, <1>2, <1>3, <1>4, MassInsideIs

(* Whoever is written off takes the carriers around along. *)
LEMMA WrittenUpwards ==
  ASSUME NEW f, FleetSound(f), NEW L, NEW x \in Ship, Written(f, L, x)
  PROVE  /\ Berthed(f, x) => Written(f, L, f[x].dest)
         /\ \A c \in Ancestors(f, x) : Written(f, L, c)
  <1>1. Docks(f)
    BY DEF FleetSound
  <1>2. ASSUME Berthed(f, x) PROVE Written(f, L, f[x].dest)
    <2>1. Ancestors(f, x) = {f[x].dest} \cup Ancestors(f, f[x].dest)
      BY <1>1, <1>2, Around1
    <2> QED BY <2>1 DEF Written
  <1>3. ASSUME NEW c \in Ancestors(f, x) PROVE Written(f, L, c)
    <2>1. Ancestors(f, x) \subseteq Ship /\ Upwards(f, Ancestors(f, x))
      BY <1>1, Around1
    <2>2. Berthed(f, c) => f[c].dest \in Ancestors(f, x)
      BY <2>1 DEF Upwards
    <2>3. Ancestors(f, c) \subseteq Ancestors(f, x)
      BY <2>1, <2>2, Around2
    <2> QED BY <2>3 DEF Written
  <1> QED BY <1>2, <1>3

(* What is left in a carrier when a ship is taken out of it. *)
LEMMA RestIsHeavy ==
  ASSUME NEW f, FleetSound(f), NEW L, Masses(f, L), NEW s \in Ship, Berthed(f, s),
         NEW c, c = f[s].dest, ~Written(f, L, c)
  PROVE  /\ c \in Ship /\ Alive(f, c) /\ s \in InCarrier(f, c) /\ Heavy(f, c)
         /\ Heavy(f, s) /\ f[s].mass >= 0
         /\ MassInside(f, c) >= f[s].mass /\ f[c].mass - f[s].mass >= BaseMass(f[c]) + f[c].res
  <1>1. c \in Ship /\ Alive(f, c) /\ f[c].type # "factory" /\ s \in InCarrier(f, c) /\ f \in [Ship -> Craft]
    BY DEF FleetSound, Docks, InCarrier
  <1>2. Heavy(f, c)
    BY <1>1 DEF Masses
  <1>3. ASSUME NEW x \in InCarrier(f, c) PROVE Heavy(f, x) /\ f[x].mass \in Int /\ f[x].mass >= 0
    <2>1. x \in Ship /\ Berthed(f, x) /\ f[x].dest = c /\ Alive(f, x)
      BY <1>3 DEF InCarrier, Berthed, Alive
    <2>2. ~Written(f, L, x)
      BY <2>1, WrittenUpwards
    <2>3. Heavy(f, x)
      BY <2>1, <2>2 DEF Masses
    <2> QED BY <2>1, <2>3, MassNumbers DEF Heavy
  <1>4. MassInside(f, c) >= f[s].mass
    <2> DEFINE F == [y \in Ship |-> f[y].mass]
               S == InCarrier(f, c)
    <2>1. IsFiniteSet(S) /\ s \in S /\ \A x \in S : F[x] \in Nat /\ F[x] = f[x].mass
      BY <1>1, <1>3, FewInside, SizesAndMasses
    <2>2. MassInside(f, c) = SumOf(F, S)
      BY DEF MassInside
    <2> HIDE DEF F, S
    <2>3. SumOf(F, S) \in Nat /\ F[s] <= SumOf(F, S)
      BY <2>1, SumIsNat, SumCovers
    <2> QED BY <2>1, <2>2, <2>3
  <1>5. f[c].mass \in Int /\ MassInside(f, c) \in Int /\ Own(f[c]) = BaseMass(f[c]) + f[c].res
        /\ BaseMass(f[c]) \in Nat /\ f[c].res \in Nat /\ f[s].mass \in Int
    BY <1>1, <1>3, MassNumbers
  <1>6. f[c].mass - f[s].mass >= BaseMass(f[c]) + f[c].res
    BY <1>2, <1>4, <1>5 DEF Heavy
  <1> QED BY <1>1, <1>2, <1>3, <1>4, <1>6

\* g keeps, but for M, what f but for L promised of x.
Upheld(f, L, g, M, x) ==
  /\ Alive(f, x)
  /\ x \notin M => x \notin L /\ (Exact(f, x) => Exact(g, x))
  /\ Heavy(f, x) => Heavy(g, x) \/ Written(g, M, x)
  /\ Written(f, L, x) => Written(g, M, x)

LEMMA MassesJoin ==
  ASSUME NEW f, NEW L, Masses(f, L), NEW g, NEW M,
         \A x \in Ship : Alive(g, x) => Upheld(f, L, g, M, x) \/ (Exact(g, x) /\ Heavy(g, x))
  PROVE  Masses(g, M)
  BY Zenon DEF Masses, Upheld

(* Masses stay when every ship alive that is promised something keeps it.  *)
LEMMA MassesFollow ==
  ASSUME NEW f, NEW L, Masses(f, L), NEW g, NEW M,
         \A x \in Ship : Alive(g, x) => Upheld(f, L, g, M, x)
  PROVE  Masses(g, M)
  BY Zenon DEF Masses, Upheld

(* A ship whose mass and inside stay keeps what was promised of it.        *)
LEMMA Unmoved ==
  ASSUME NEW f, FleetSound(f), NEW L, NEW g, FleetSound(g), NEW M, L \subseteq M, NEW x \in Ship,
         Alive(f, x), g[x].mass = f[x].mass, Own(g[x]) = Own(f[x]),
         LocalMass(g[x]) = LocalMass(f[x]), InCarrier(g, x) = InCarrier(f, x),
         \A y \in InCarrier(f, x) : g[y].mass = f[y].mass, Ancestors(g, x) \subseteq Ancestors(f, x)
  PROVE  Upheld(f, L, g, M, x)
  <1>1. MassInside(g, x) = MassInside(f, x)
    BY MassInsideSame DEF FleetSound
  <1>2. (Exact(f, x) => Exact(g, x)) /\ (Heavy(f, x) => Heavy(g, x))
    BY <1>1 DEF Exact, Heavy
  <1>3. Written(f, L, x) => Written(g, M, x)
    BY DEF Written
  <1> QED BY <1>2, <1>3 DEF Upheld

(* Nobody's mass changes. *)
LEMMA MassesRest ==
  ASSUME NEW f, FleetSound(f), NEW L, Masses(f, L), NEW g, FleetSound(g), SameBerths(f, g),
         NEW M, L \subseteq M,
         \A x \in Ship : Alive(f, x) =>
           /\ g[x].mass = f[x].mass /\ Own(g[x]) <= Own(f[x])
           /\ x \in M \/ LocalMass(g[x]) = LocalMass(f[x])
  PROVE  Masses(g, M)
  <1>1. ASSUME NEW x \in Ship, Alive(g, x)
        PROVE  Upheld(f, L, g, M, x)
    <2>1. Alive(f, x)
      BY <1>1 DEF SameBerths
    <2>2. InCarrier(g, x) = InCarrier(f, x) /\ Ancestors(g, x) = Ancestors(f, x)
      BY BerthsFollow
    <2>3. \A y \in InCarrier(f, x) : g[y].mass = f[y].mass
      BY DEF InCarrier, Berthed, Alive
    <2>4. MassInside(g, x) = MassInside(f, x)
      BY <2>2, <2>3, MassInsideSame DEF FleetSound
    <2>5. Exact(f, x) /\ x \notin M => Exact(g, x)
      BY <2>1, <2>4 DEF Exact
    <2>6. Heavy(f, x) => Heavy(g, x)
      BY <1>1, <2>1, <2>4, MassNumbers DEF Heavy
    <2>7. Written(f, L, x) => Written(g, M, x)
      BY <2>2 DEF Written
    <2> QED BY <2>1, <2>5, <2>6, <2>7 DEF Upheld
  <1>2. \A x \in Ship : Alive(g, x) => Upheld(f, L, g, M, x)
    BY <1>1
  <1> QED BY <1>2, MassesFollow, Zenon

-----------------------------------------------------------------------------
(* What the fleet is worth *)

Worth(f) == [s \in Ship |-> IF Alive(f, s) THEN ScrapValue(f[s]) ELSE 0]

LEMMA WorthIs ==
  ASSUME NEW f, FleetSound(f)
  PROVE  \A x \in Ship : Worth(f)[x] \in Nat /\ Worth(f)[x] \in Int
  BY HullNumbers DEF Worth, FleetSound

LEMMA WealthIs ==
  ASSUME NEW f, NEW r
  PROVE  Wealth(f, r) = r + SumOf(Worth(f), Ship)
  BY DEF Wealth, Worth

LEMMA NoRicherByTwo ==
  ASSUME NEW f, FleetSound(f), NEW g, FleetSound(g), NEW r \in Int, NEW q \in Int,
         NEW a \in Ship, NEW b \in Ship, a # b,
         \A x \in Ship \ {a, b} : Worth(g)[x] <= Worth(f)[x],
         q + Worth(g)[a] + Worth(g)[b] <= r + Worth(f)[a] + Worth(f)[b]
  PROVE  Wealth(g, q) <= Wealth(f, r)
  <1> DEFINE F == Worth(f)
             G == Worth(g)
             U == [x \in Ship |-> IF x \in {a, b} THEN G[x] ELSE F[x]]
  <1>1. \A x \in Ship : F[x] \in Int /\ G[x] \in Int
    BY WorthIs
  <1>2. /\ \A x \in Ship : U[x] \in Int /\ G[x] <= U[x]
        /\ U[a] = G[a] /\ U[b] = G[b] /\ \A x \in Ship \ {a, b} : U[x] = F[x]
    BY <1>1
  <1>3. q + G[a] + G[b] <= r + F[a] + F[b]
    OBVIOUS
  <1>4. Wealth(f, r) = r + SumOf(F, Ship) /\ Wealth(g, q) = q + SumOf(G, Ship)
    BY WealthIs
  <1>5. IsFiniteSet(Ship)
    BY FleetNumbers
  <1> HIDE DEF F, G, U
  <1>6. SumOf(U, Ship) = SumOf(F, Ship) - F[a] - F[b] + U[a] + U[b]
    BY <1>1, <1>2, <1>5, SumMove
  <1>7. SumOf(G, Ship) <= SumOf(U, Ship)
    BY <1>1, <1>2, <1>5, SumBounded
  <1>8. SumOf(F, Ship) \in Int /\ SumOf(G, Ship) \in Int /\ SumOf(U, Ship) \in Int
    BY <1>1, <1>2, <1>5, SumIsInt
  <1> QED BY <1>1, <1>2, <1>3, <1>4, <1>6, <1>7, <1>8

LEMMA NoRicherByOne ==
  ASSUME NEW f, FleetSound(f), NEW g, FleetSound(g), NEW r \in Int, NEW q \in Int, NEW a \in Ship,
         \A x \in Ship \ {a} : Worth(g)[x] <= Worth(f)[x],
         q + Worth(g)[a] <= r + Worth(f)[a]
  PROVE  Wealth(g, q) <= Wealth(f, r)
  <1> DEFINE F == Worth(f)
             G == Worth(g)
             U == [x \in Ship |-> IF x = a THEN G[x] ELSE F[x]]
  <1>1. \A x \in Ship : F[x] \in Int /\ G[x] \in Int
    BY WorthIs
  <1>2. /\ \A x \in Ship : U[x] \in Int /\ G[x] <= U[x]
        /\ U[a] = G[a] /\ \A x \in Ship \ {a} : U[x] = F[x]
    BY <1>1
  <1>3. q + G[a] <= r + F[a]
    OBVIOUS
  <1>4. Wealth(f, r) = r + SumOf(F, Ship) /\ Wealth(g, q) = q + SumOf(G, Ship)
    BY WealthIs
  <1>5. IsFiniteSet(Ship)
    BY FleetNumbers
  <1> HIDE DEF F, G, U
  <1>6. SumOf(U, Ship) = SumOf(F, Ship) - F[a] + U[a]
    BY <1>1, <1>2, <1>5, SumChange
  <1>7. SumOf(G, Ship) <= SumOf(U, Ship)
    BY <1>1, <1>2, <1>5, SumBounded
  <1>8. SumOf(F, Ship) \in Int /\ SumOf(G, Ship) \in Int /\ SumOf(U, Ship) \in Int
    BY <1>1, <1>2, <1>5, SumIsInt
  <1> QED BY <1>1, <1>2, <1>3, <1>4, <1>6, <1>7, <1>8

LEMMA NoRicher ==
  ASSUME NEW f, FleetSound(f), NEW g, FleetSound(g), NEW r \in Int, NEW q \in Int,
         \A x \in Ship : Worth(g)[x] <= Worth(f)[x], q <= r
  PROVE  Wealth(g, q) <= Wealth(f, r)
  <1> DEFINE F == Worth(f)
             G == Worth(g)
  <1>1. \A x \in Ship : F[x] \in Int /\ G[x] \in Int /\ G[x] <= F[x]
    BY WorthIs
  <1>2. Wealth(f, r) = r + SumOf(F, Ship) /\ Wealth(g, q) = q + SumOf(G, Ship)
    BY WealthIs
  <1>3. IsFiniteSet(Ship)
    BY FleetNumbers
  <1> HIDE DEF F, G
  <1>4. SumOf(G, Ship) <= SumOf(F, Ship)
    BY <1>1, <1>3, SumBounded
  <1>5. SumOf(F, Ship) \in Int /\ SumOf(G, Ship) \in Int
    BY <1>1, <1>3, SumIsInt
  <1> QED BY <1>2, <1>4, <1>5

-----------------------------------------------------------------------------
(* Cargo *)

\* In g, s has m more of cargo than in f, or less.
Stows(f, g, s, m) == Changes(f, g, s) /\ g[s] = Stowed(f[s], m)

\* m is what s takes of n: all, if it has room for it.
Takes(f, s, n, m) ==
  /\ m \in Nat /\ m <= n
  /\ Straps(f, s) => m = n
  /\ ~Straps(f, s) => m <= Room(f[s]) /\ (n <= Room(f[s]) => m = n)

LEMMA LoadedStows ==
  ASSUME NEW f, FleetSound(f), NEW s \in Ship, Alive(f, s), NEW n \in Nat
  PROVE  \E m : Takes(f, s, n, m) /\ Stows(f, Loaded(f, s, n), s, m)
  <1> DEFINE i == f[s]
             m == IF Straps(f, s) THEN n ELSE Min({n, Room(i)})
  <1>1. Whole(i) /\ i \in Craft /\ f \in [Ship -> Craft]
    BY DEF FleetSound, Whole
  <1>2. Room(i) \in Nat
    BY <1>1, HullNumbers
  <1>3. Takes(f, s, n, m) /\ m \in Nat
    BY <1>2, SmallerOf DEF Takes
  <1>4. Loaded(f, s, n) = [f EXCEPT ![s] = Stowed(i, m)]
    BY <1>1, Zenon DEF Loaded, Stowed
  <1> HIDE DEF m
  <1>5. Stowed(i, m) \in Craft
    BY <1>1, <1>3, StowedRecord, CraftFields
  <1> DEFINE y == Stowed(i, m)
  <1> HIDE DEF y
  <1>6. Changes(f, [f EXCEPT ![s] = y], s) /\ [f EXCEPT ![s] = y][s] = y
    BY <1>5, PutChanges DEF y
  <1>7. Stows(f, Loaded(f, s, n), s, m)
    BY <1>4, <1>6, Zenon DEF Stows, y
  <1> QED BY <1>3, <1>7

LEMMA SpentStows ==
  ASSUME NEW f, FleetSound(f), NEW s \in Ship, Alive(f, s), NEW n \in Nat, n <= f[s].res
  PROVE  Stows(f, Spent(f, s, n), s, 0 - n)
  <1> DEFINE i == f[s]
  <1>1. Whole(i) /\ i \in Craft /\ f \in [Ship -> Craft]
    BY DEF FleetSound, Whole
  <1>2. i.res \in Nat /\ i.mass \in Int
    BY <1>1, CraftFields
  <1>3. Min({n, i.res}) = n
    BY <1>2, SmallerOf
  <1>4. Spent(f, s, n) = [f EXCEPT ![s] = [i EXCEPT !.res = @ - n, !.mass = @ - n]]
    BY <1>1, <1>3, Zenon DEF Spent
  <1>5. i.res - n = i.res + (0 - n) /\ i.mass - n = i.mass + (0 - n)
    BY <1>2
  <1>6. [i EXCEPT !.res = @ - n, !.mass = @ - n] = Stowed(i, 0 - n)
    BY <1>5 DEF Stowed
  <1>7. Stowed(i, 0 - n) \in Craft
    BY <1>1, <1>2, StowedRecord
  <1> DEFINE y == Stowed(i, 0 - n)
  <1> HIDE DEF y
  <1>8. Changes(f, [f EXCEPT ![s] = y], s) /\ [f EXCEPT ![s] = y][s] = y
    BY <1>7, PutChanges DEF y
  <1>9. Spent(f, s, n) = [f EXCEPT ![s] = y]
    BY <1>4, <1>6, Zenon DEF y
  <1> QED BY <1>8, <1>9, Zenon DEF Stows, y

\* Ships that differ in what they weigh and cost, if at all.
SameShape(f, g) ==
  \A x \in Ship :
    /\ g[x].size = f[x].size /\ g[x].hanger = f[x].hanger /\ g[x].bay = f[x].bay
    /\ g[x].dock = f[x].dock /\ g[x].dest = f[x].dest /\ g[x].type = f[x].type
    /\ g[x].waste = f[x].waste

LEMMA StowsKeeps ==
  ASSUME NEW f, FleetSound(f), NEW g, NEW s \in Ship, Alive(f, s), NEW m \in Int, f[s].res + m >= 0,
         Stows(f, g, s, m)
  PROVE  /\ Alike(f, g) /\ FleetSound(g) /\ SameBerths(f, g)
         /\ SameShape(f, g)
         /\ g[s].res = f[s].res + m /\ g[s].mass = f[s].mass + m
         /\ BaseMass(g[s]) = BaseMass(f[s]) /\ LocalMass(g[s]) = LocalMass(f[s]) + m
         /\ \A x \in Ship \ {s} : g[x] = f[x] /\ Worth(g)[x] = Worth(f)[x]
         /\ Worth(g)[s] = Worth(f)[s] + m
  <1> DEFINE i == f[s]
             y == Stowed(i, m)
  <1>1. Whole(i)
    BY DEF FleetSound
  <1>2. Changes(f, g, s) /\ g[s] = y /\ \A x \in Ship \ {s} : g[x] = f[x]
    BY DEF Stows, Changes
  <1>3. /\ y \in Craft /\ SameHull(i, y) /\ y.dock = i.dock /\ y.dest = i.dest
        /\ y.res = i.res + m /\ y.mass = i.mass + m /\ y.size = i.size
        /\ y.hanger = i.hanger /\ y.waste = i.waste
    BY <1>1, StowedRecord
  <1>4. Whole(y) /\ BaseMass(y) = BaseMass(i)
        /\ LocalMass(y) = LocalMass(i) + m /\ ScrapValue(y) = ScrapValue(i) + m
    BY <1>1, StowedWorth
  <1> HIDE DEF y
  <1>5. y.type = i.type /\ y.bay = i.bay
    BY <1>3 DEF SameHull
  <1>6. Alike(f, g)
    BY <1>2, <1>3, <1>4, <1>5, OneAlike
  <1>7. FleetSound(g) /\ SameBerths(f, g)
    BY <1>6, AlikeSound
  <1>8. Alive(g, s)
    BY <1>7 DEF SameBerths
  <1>9. \A x \in Ship \ {s} : Worth(g)[x] = Worth(f)[x]
    BY <1>2 DEF Worth, Alive
  <1>10. Worth(g)[s] = Worth(f)[s] + m
    BY <1>2, <1>4, <1>8 DEF Worth
  <1>11. SameShape(f, g)
    BY <1>2, <1>3, <1>5 DEF SameShape
  <1> QED BY <1>2, <1>3, <1>4, <1>6, <1>7, <1>9, <1>10, <1>11

LEMMA StowsHangars ==
  ASSUME NEW f, FleetSound(f), NEW g, NEW s \in Ship, Alive(f, s), NEW m \in Int, f[s].res + m >= 0,
         Stows(f, g, s, m), NEW gr, Hangars(f, gr)
  PROVE  Hangars(g, gr)
  <1>1. FleetSound(g) /\ SameBerths(f, g) /\ SameShape(f, g)
    BY StowsKeeps
  <1>2. \A x \in Ship : f[x].bay \in Nat
    BY CraftFields DEF FleetSound
  <1>3. \A x \in Ship : Alive(f, x) =>
           /\ g[x].size = f[x].size /\ g[x].hanger = f[x].hanger
           /\ f[x].type = "factory" \/ g[x].bay >= f[x].bay
    BY <1>1, <1>2 DEF SameShape
  <1> QED BY <1>1, <1>3, HangarsFollow

LEMMA StowsWealth ==
  ASSUME NEW f, FleetSound(f), NEW g, NEW s \in Ship, Alive(f, s), NEW m \in Int, f[s].res + m >= 0,
         Stows(f, g, s, m), NEW r \in Int, NEW q \in Int, q + m <= r
  PROVE  Wealth(g, q) <= Wealth(f, r)
  <1>1. /\ FleetSound(g) /\ \A x \in Ship \ {s} : Worth(g)[x] = Worth(f)[x]
        /\ Worth(g)[s] = Worth(f)[s] + m
    BY StowsKeeps
  <1>2. \A x \in Ship : Worth(f)[x] \in Int /\ Worth(g)[x] \in Int
    BY <1>1, WorthIs
  <1>3. \A x \in Ship \ {s} : Worth(g)[x] <= Worth(f)[x]
    BY <1>1, <1>2
  <1>4. q + Worth(g)[s] <= r + Worth(f)[s]
    BY <1>1, <1>2
  <1> QED BY <1>1, <1>3, <1>4, NoRicherByOne

(* Who is docked is docked with somebody else.                             *)
LEMMA PartnerIsOther ==
  ASSUME NEW f, FleetSound(f), NEW s \in Ship, Docked(f, s)
  PROVE  f[s].dest \in Ship /\ f[s].dest # s /\ Alive(f, f[s].dest) /\ Alive(f, s)
  <1>1. CASE f[s].dock = "moored"
    BY <1>1 DEF FleetSound, Docks, Alive
  <1>2. CASE Berthed(f, s)
    <2>1. f[s].dest \in Ship /\ Alive(f, f[s].dest)
      BY <1>2 DEF FleetSound, Docks
    <2>2. PICK r \in [Ship -> Nat] : \A x \in Ship : Berthed(f, x) => r[x] < r[f[x].dest]
      BY DEF FleetSound, Ranked
    <2>3. f[s].dest # s
      BY <1>2, <2>1, <2>2
    <2> QED BY <1>2, <2>1, <2>3 DEF Berthed, Alive
  <1> QED BY <1>1, <1>2 DEF Docked, Berthed

\* From f to g, s and its cargo weigh m more.
Shifts(f, g, s, m) ==
  /\ FleetSound(g) /\ SameBerths(f, g) /\ \A x \in Ship \ {s} : g[x] = f[x]
  /\ g[s].mass = f[s].mass + m /\ Own(g[s]) = Own(f[s]) + m
  /\ LocalMass(g[s]) = LocalMass(f[s]) + m

LEMMA OwnFollows ==
  ASSUME NEW f, FleetSound(f), NEW g, FleetSound(g), NEW s \in Ship, Alive(f, s), Alive(g, s),
         NEW m \in Int, g[s].type = f[s].type, BaseMass(g[s]) = BaseMass(f[s]),
         LocalMass(g[s]) = LocalMass(f[s]) + m
  PROVE  Own(g[s]) = Own(f[s]) + m
  <1>1. /\ f[s].res \in Int /\ g[s].res \in Int /\ BaseMass(f[s]) \in Int
        /\ LocalMass(f[s]) = BaseMass(f[s]) + f[s].res
        /\ LocalMass(g[s]) = BaseMass(g[s]) + g[s].res
    BY MassNumbers
  <1>2. g[s].res = f[s].res + m
    BY <1>1
  <1>3. CASE f[s].type = "factory"
    BY <1>1, <1>2, <1>3 DEF Own
  <1>4. CASE f[s].type # "factory"
    BY <1>1, <1>2, <1>4 DEF Own
  <1> QED BY <1>3, <1>4

LEMMA OwnSame ==
  ASSUME NEW f, FleetSound(f), NEW g, FleetSound(g), NEW x \in Ship, Alive(f, x), Alive(g, x),
         g[x].type = f[x].type, BaseMass(g[x]) = BaseMass(f[x]), LocalMass(g[x]) = LocalMass(f[x])
  PROVE  Own(g[x]) = Own(f[x])
  <1>1. LocalMass(g[x]) = LocalMass(f[x]) + 0 /\ 0 \in Int /\ Own(f[x]) \in Int
    BY MassNumbers
  <1>2. Own(g[x]) = Own(f[x]) + 0
    BY <1>1, OwnFollows
  <1> QED BY <1>1, <1>2

(* A ship takes cargo or gives it away: what it is berthed in is not told. *)
LEMMA ShiftsMasses ==
  ASSUME NEW f, FleetSound(f), NEW L, Masses(f, L), NEW s \in Ship, Alive(f, s), NEW m \in Int,
         NEW g, Shifts(f, g, s, m), NEW M, L \subseteq M,
         Berthed(f, s) => f[s].dest \in M /\ (m > 0 => Written(f, M, f[s].dest))
  PROVE  Masses(g, M)
  <1>1. /\ FleetSound(g) /\ SameBerths(f, g) /\ \A x \in Ship \ {s} : g[x] = f[x]
        /\ g[s].mass = f[s].mass + m /\ Own(g[s]) = Own(f[s]) + m
        /\ LocalMass(g[s]) = LocalMass(f[s]) + m
    BY DEF Shifts
  <1>2. ASSUME NEW x \in Ship, Alive(g, x)
        PROVE  Upheld(f, L, g, M, x)
    <2>1. Alive(f, x)
      BY <1>1, <1>2 DEF SameBerths
    <2>2. InCarrier(g, x) = InCarrier(f, x) /\ Ancestors(g, x) = Ancestors(f, x)
      BY <1>1, BerthsFollow
    <2>3. Written(f, L, x) => Written(g, M, x)
      BY <2>2 DEF Written
    <2>4. f[x].mass \in Int /\ Own(f[x]) \in Int /\ LocalMass(f[x]) \in Int /\ MassInside(f, x) \in Int
      BY <2>1, MassNumbers
    <2>5. CASE s \notin InCarrier(f, x)
      <3>1. \A y \in InCarrier(f, x) : g[y].mass = f[y].mass
        BY <1>1, <2>5 DEF InCarrier
      <3>2. MassInside(g, x) = MassInside(f, x)
        BY <1>1, <2>2, <3>1, MassInsideSame DEF FleetSound
      <3>3. CASE x = s
        <4>1. Exact(f, x) => Exact(g, x)
          BY <1>1, <2>4, <3>2, <3>3 DEF Exact
        <4>2. Heavy(f, x) => Heavy(g, x)
          BY <1>1, <2>4, <3>2, <3>3 DEF Heavy
        <4> QED BY <2>1, <2>3, <4>1, <4>2 DEF Upheld
      <3>4. CASE x # s
        BY <1>1, <2>1, <2>3, <3>2, <3>4 DEF Exact, Heavy, Upheld
      <3> QED BY <3>3, <3>4
    <2>6. CASE s \in InCarrier(f, x)
      <3>1. Berthed(f, s) /\ x = f[s].dest /\ x # s
        BY <2>6, PartnerIsOther DEF InCarrier, Docked, Berthed
      <3>2. x \in M /\ g[x] = f[x]
        BY <1>1, <3>1
      <3>3. CASE m > 0
        <4>1. Written(g, M, x)
          BY <2>2, <3>1, <3>3 DEF Written
        <4> QED BY <2>1, <3>2, <4>1 DEF Upheld
      <3>4. CASE m <= 0
        <4>1. \A y \in InCarrier(f, x) \ {s} : g[y].mass = f[y].mass
          BY <1>1 DEF InCarrier
        <4>2. MassInside(g, x) = MassInside(f, x) - f[s].mass + g[s].mass
          BY <1>1, <2>2, <2>6, <4>1, MassInsideChanged DEF FleetSound
        <4>3. f[s].mass \in Int
          BY MassNumbers
        <4>4. MassInside(g, x) <= MassInside(f, x) /\ MassInside(g, x) \in Int
          BY <1>1, <2>4, <3>4, <4>2, <4>3
        <4>5. Heavy(f, x) => Heavy(g, x)
          BY <2>4, <3>2, <4>4 DEF Heavy
        <4> QED BY <2>1, <2>3, <3>2, <4>5 DEF Upheld
      <3> QED BY <3>3, <3>4
    <2> QED BY <2>5, <2>6
  <1>3. \A x \in Ship : Alive(g, x) => Upheld(f, L, g, M, x)
    BY <1>2
  <1> QED BY <1>3, MassesFollow, Zenon

LEMMA StowsMasses ==
  ASSUME NEW f, FleetSound(f), NEW L, Masses(f, L), NEW s \in Ship, Alive(f, s), NEW m \in Int,
         f[s].res + m >= 0, NEW g, Stows(f, g, s, m), NEW M, L \subseteq M,
         Berthed(f, s) => f[s].dest \in M /\ (m > 0 => Written(f, M, f[s].dest))
  PROVE  Masses(g, M)
  <1>1. /\ FleetSound(g) /\ SameBerths(f, g) /\ SameShape(f, g)
        /\ g[s].mass = f[s].mass + m /\ BaseMass(g[s]) = BaseMass(f[s])
        /\ LocalMass(g[s]) = LocalMass(f[s]) + m /\ \A x \in Ship \ {s} : g[x] = f[x]
    BY StowsKeeps
  <1>2. Own(g[s]) = Own(f[s]) + m
    BY <1>1, OwnFollows DEF SameShape, SameBerths
  <1>3. Shifts(f, g, s, m)
    BY <1>1, <1>2 DEF Shifts
  <1> QED BY <1>3, ShiftsMasses

-----------------------------------------------------------------------------
(* The fleet, command by command *)

FleetInv ==
  /\ FleetSound(ship) /\ Hangars(ship, grown) /\ Masses(ship, loose)
  /\ stockpile \in Nat /\ toxic \in Nat
  /\ waiting \subseteq Fleet
  /\ grown \in [Ship -> {"never", "once", "now"}] /\ loose \subseteq Ship

\* What every step of the fleet leaves.
Steady == FleetInv' /\ Wealth(ship', stockpile') <= Wealth(ship, stockpile)

LEMMA OrderedKeeps ==
  ASSUME FleetInv, NEW f, Ordered(f), FleetSound(f), Hangars(f, grown), grown' = grown,
         Masses(f, loose'), loose' \subseteq Ship, stockpile' \in Nat, toxic' \in Nat,
         Wealth(f, stockpile') <= Wealth(ship, stockpile)
  PROVE  Steady
  <1>1. ship' = f /\ waiting' = {}
    BY DEF Ordered
  <1>2. FleetSound(ship') /\ Hangars(ship', grown') /\ Masses(ship', loose')
    BY <1>1
  <1>3. FleetInv'
    BY <1>1, <1>2 DEF FleetInv
  <1> QED BY <1>1, <1>3 DEF Steady

LEMMA LoadKeeps ==
  ASSUME FleetInv, NEW s \in Ship, NEW n \in Amount, LoadFromPlanet(s, n)
  PROVE  Steady
  <1>1. FleetSound(ship) /\ Hangars(ship, grown) /\ stockpile \in Nat /\ toxic \in Nat /\ n \in Nat
        /\ loose \subseteq Ship /\ Masses(ship, loose)
    BY FleetNumbers DEF FleetInv
  <1>2. /\ n <= PlanetLimit(s) /\ stockpile' = stockpile - n /\ Ordered(Loaded(ship, s, n))
        /\ toxic' = toxic /\ loose' = loose /\ grown' = grown /\ Alive(ship, s)
        /\ ~Berthed(ship, s)
    BY DEF LoadFromPlanet, Quiet, Landed, Alive, Berthed
  <1>3. Room(ship[s]) \in Nat
    BY <1>1, <1>2, HullNumbers DEF FleetSound
  <1>4. n <= stockpile
    BY <1>1, <1>2, <1>3, SmallerOf DEF PlanetLimit
  <1> DEFINE g == Loaded(ship, s, n)
  <1> HIDE DEF g
  <1>a. PICK m : Takes(ship, s, n, m) /\ Stows(ship, g, s, m)
    BY <1>1, <1>2, LoadedStows, Zenon DEF g
  <1>5. m \in Nat /\ m <= n /\ Stows(ship, g, s, m)
    BY <1>a DEF Takes
  <1>6. ship[s].res + m >= 0 /\ m \in Int
    BY <1>1, <1>5, CraftFields DEF FleetSound
  <1>7. FleetSound(g)
    BY <1>1, <1>2, <1>5, <1>6, StowsKeeps
  <1>8. Hangars(g, grown)
    BY <1>1, <1>2, <1>5, <1>6, StowsHangars
  <1>b. Masses(g, loose')
    BY <1>1, <1>2, <1>5, <1>6, StowsMasses
  <1>9. stockpile' \in Nat /\ stockpile' + m <= stockpile
    BY <1>1, <1>2, <1>4, <1>5
  <1>10. Wealth(g, stockpile') <= Wealth(ship, stockpile)
    BY <1>1, <1>2, <1>5, <1>6, <1>9, StowsWealth
  <1>11. Ordered(g)
    BY <1>2 DEF g
  <1> QED BY <1>1, <1>2, <1>7, <1>8, <1>b, <1>9, <1>10, <1>11, OrderedKeeps

LEMMA UnloadKeeps ==
  ASSUME FleetInv, NEW s \in Ship, NEW n \in Amount, UnloadToPlanet(s, n)
  PROVE  Steady
  <1>1. FleetSound(ship) /\ Hangars(ship, grown) /\ stockpile \in Nat /\ toxic \in Nat /\ n \in Nat
        /\ loose \subseteq Ship /\ Masses(ship, loose)
    BY FleetNumbers DEF FleetInv
  <1>2. /\ n <= ship[s].res /\ stockpile' = stockpile + n /\ Ordered(Spent(ship, s, n))
        /\ toxic' = toxic /\ loose' = loose /\ grown' = grown /\ Alive(ship, s)
        /\ ~Berthed(ship, s)
    BY DEF UnloadToPlanet, Quiet, Landed, Alive, Berthed
  <1> DEFINE g == Spent(ship, s, n)
             m == 0 - n
  <1>3. Stows(ship, g, s, m)
    BY <1>1, <1>2, SpentStows
  <1>4. ship[s].res + m >= 0 /\ m \in Int /\ stockpile' \in Nat /\ stockpile' + m <= stockpile
    BY <1>1, <1>2, CraftFields DEF FleetSound
  <1>5. Ordered(g)
    BY <1>2
  <1> HIDE DEF g, m
  <1>6. FleetSound(g)
    BY <1>1, <1>2, <1>3, <1>4, StowsKeeps
  <1>7. Hangars(g, grown)
    BY <1>1, <1>2, <1>3, <1>4, StowsHangars
  <1>8. Wealth(g, stockpile') <= Wealth(ship, stockpile)
    BY <1>1, <1>2, <1>3, <1>4, StowsWealth
  <1>9. Masses(g, loose')
    BY <1>1, <1>2, <1>3, <1>4, StowsMasses
  <1> QED BY <1>1, <1>2, <1>4, <1>5, <1>6, <1>7, <1>8, <1>9, OrderedKeeps

LEMMA JettisonKeeps ==
  ASSUME FleetInv, NEW s \in Ship, NEW n \in Amount, Jettison(s, n)
  PROVE  Steady
  <1>1. FleetSound(ship) /\ Hangars(ship, grown) /\ stockpile \in Nat /\ toxic \in Nat /\ n \in Nat
        /\ loose \subseteq Ship /\ Masses(ship, loose)
    BY FleetNumbers DEF FleetInv
  <1>2. /\ n <= ship[s].res /\ stockpile' = stockpile /\ Ordered(Spent(ship, s, n))
        /\ toxic' = toxic /\ loose' = loose \cup Around(s) /\ grown' = grown /\ Alive(ship, s)
    BY DEF Jettison, Loosened
  <1>3. loose' \subseteq Ship
    BY <1>1, <1>2 DEF Around, FleetSound, Docks
  <1> DEFINE g == Spent(ship, s, n)
             m == 0 - n
  <1>4. Stows(ship, g, s, m)
    BY <1>1, <1>2, SpentStows
  <1>5. ship[s].res + m >= 0 /\ m \in Int /\ stockpile' \in Nat /\ stockpile' + m <= stockpile
    BY <1>1, <1>2, CraftFields DEF FleetSound
  <1>6. Ordered(g)
    BY <1>2
  <1> HIDE DEF g, m
  <1>7. FleetSound(g)
    BY <1>1, <1>2, <1>4, <1>5, StowsKeeps
  <1>8. Hangars(g, grown)
    BY <1>1, <1>2, <1>4, <1>5, StowsHangars
  <1>9. Wealth(g, stockpile') <= Wealth(ship, stockpile)
    BY <1>1, <1>2, <1>4, <1>5, StowsWealth
  <1>10. Masses(g, loose')
    <2>1. Berthed(ship, s) => ship[s].dest \in loose' /\ ~(m > 0)
      BY <1>1, <1>2 DEF Around, m
    <2> QED BY <1>1, <1>2, <1>4, <1>5, <2>1, StowsMasses
  <1> QED BY <1>1, <1>2, <1>3, <1>5, <1>6, <1>7, <1>8, <1>9, <1>10, OrderedKeeps

(* A transfer between two ships, as far as the one has and the other holds. *)
LEMMA TransferredStows ==
  ASSUME NEW f, FleetSound(f), NEW a \in Ship, NEW b \in Ship, a # b, Alive(f, a), Alive(f, b),
         NEW n \in Nat
  PROVE  \E m \in Nat : /\ m <= f[a].res
                       /\ Stows(f, Spent(f, a, m), a, 0 - m)
                       /\ Stows(Spent(f, a, m), Transferred(f, a, b, n), b, m)
  <1> DEFINE m == Transferable(f, a, b, n)
             h == Spent(f, a, m)
  <1>1. f[a].res \in Nat /\ Room(f[b]) \in Nat
    BY CraftFields, HullNumbers DEF FleetSound
  <1>2. /\ \E x \in {n, f[a].res, Room(f[b])} : \A y \in {n, f[a].res, Room(f[b])} : x <= y
        /\ Min({n, f[a].res}) = IF n <= f[a].res THEN n ELSE f[a].res
    BY <1>1, SmallerOf
  <1>3. m \in Nat /\ m <= f[a].res /\ (Straps(f, b) \/ m <= Room(f[b]))
    <2>1. CASE Straps(f, b)
      BY <1>1, <1>2, <2>1 DEF Transferable
    <2>2. CASE ~Straps(f, b)
      <3>1. m = Min({n, f[a].res, Room(f[b])})
        BY <2>2 DEF Transferable
      <3>2. /\ m \in {n, f[a].res, Room(f[b])}
            /\ \A y \in {n, f[a].res, Room(f[b])} : m <= y
        BY <1>2, <3>1, Zenon DEF Min
      <3> QED BY <1>1, <3>2
    <2> QED BY <2>1, <2>2
  <1>4. Transferred(f, a, b, n) = Loaded(h, b, m)
    BY DEF Transferred
  <1> HIDE DEF m
  <1>5. Stows(f, h, a, 0 - m)
    BY <1>3, SpentStows
  <1>6. 0 - m \in Int /\ f[a].res + (0 - m) >= 0
    BY <1>1, <1>3
  <1> HIDE DEF h
  <1>7. FleetSound(h) /\ SameBerths(f, h) /\ h[b] = f[b]
    <2>1. FleetSound(h) /\ SameBerths(f, h)
      BY <1>5, <1>6, StowsKeeps
    <2> QED BY <1>5, <2>1 DEF Stows, Changes
  <1>8. Alive(h, b) /\ (Straps(h, b) <=> Straps(f, b))
    BY <1>7 DEF SameBerths, Straps
  <1>9. Stows(h, Loaded(h, b, m), b, m)
    <2>1. PICK k : Takes(h, b, m, k) /\ Stows(h, Loaded(h, b, m), b, k)
      BY <1>3, <1>7, <1>8, LoadedStows, Zenon
    <2>2. k = m
      <3>1. CASE Straps(h, b)
        BY <2>1, <3>1, Zenon DEF Takes
      <3>2. CASE ~Straps(h, b)
        <4>1. m <= Room(h[b])
          BY <1>3, <1>7, <1>8, <3>2, Zenon
        <4> QED BY <2>1, <3>2, <4>1, Zenon DEF Takes
      <3> QED BY <3>1, <3>2
    <2> QED BY <2>1, <2>2, Zenon
  <1> QED BY <1>3, <1>4, <1>5, <1>9 DEF h

LEMMA TransferKeeps ==
  ASSUME FleetInv, NEW a \in Ship, NEW b \in Ship, a # b, Alive(ship, a), Alive(ship, b),
         NEW n \in Nat, Ordered(Transferred(ship, a, b, n)),
         UNCHANGED <<stockpile, toxic, grown>>, loose' \subseteq Ship,
         loose' = loose \cup Ancestors(ship, a) \cup Ancestors(ship, b)
  PROVE  Steady
  <1>1. FleetSound(ship) /\ Hangars(ship, grown) /\ stockpile \in Nat /\ toxic \in Nat
        /\ Masses(ship, loose) /\ Docks(ship)
    BY DEF FleetInv, FleetSound
  <1> DEFINE g == Transferred(ship, a, b, n)
  <1>2. PICK m \in Nat : /\ m <= ship[a].res
                        /\ Stows(ship, Spent(ship, a, m), a, 0 - m)
                        /\ Stows(Spent(ship, a, m), g, b, m)
    BY <1>1, TransferredStows
  <1> DEFINE h == Spent(ship, a, m)
  <1>3. Stows(ship, h, a, 0 - m) /\ Stows(h, g, b, m) /\ Ordered(g)
    BY <1>2
  <1>4. 0 - m \in Int /\ ship[a].res + (0 - m) >= 0 /\ m \in Int /\ stockpile \in Int
        /\ stockpile + m \in Int /\ stockpile + m + (0 - m) <= stockpile
        /\ stockpile + m <= stockpile + m
    BY <1>1, <1>2, CraftFields DEF FleetSound
  <1> HIDE DEF g, h
  <1>5. FleetSound(h) /\ SameBerths(ship, h) /\ h[b] = ship[b]
    <2>1. FleetSound(h) /\ SameBerths(ship, h)
      BY <1>1, <1>3, <1>4, StowsKeeps
    <2> QED BY <1>3, <2>1 DEF Stows, Changes
  <1>6. Hangars(h, grown) /\ Wealth(h, stockpile + m) <= Wealth(ship, stockpile)
    <2>1. Hangars(h, grown)
      BY <1>1, <1>3, <1>4, StowsHangars
    <2>2. Wealth(h, stockpile + m) <= Wealth(ship, stockpile)
      BY <1>1, <1>3, <1>4, StowsWealth
    <2> QED BY <2>1, <2>2
  <1>7. Alive(h, b) /\ h[b].res + m >= 0
    BY <1>2, <1>5, CraftFields DEF SameBerths, FleetSound
  <1>8. FleetSound(g)
    BY <1>3, <1>4, <1>5, <1>7, StowsKeeps
  <1>9. Hangars(g, grown)
    BY <1>3, <1>4, <1>5, <1>6, <1>7, StowsHangars
  <1>10. Wealth(g, stockpile) <= Wealth(h, stockpile + m)
    BY <1>3, <1>4, <1>5, <1>7, StowsWealth
  <1>11. Wealth(g, stockpile) <= Wealth(ship, stockpile)
    <2>1. \A x \in Ship : Worth(g)[x] \in Int /\ Worth(h)[x] \in Int /\ Worth(ship)[x] \in Int
      BY <1>1, <1>5, <1>8, WorthIs
    <2>2. SumOf(Worth(g), Ship) \in Int /\ SumOf(Worth(h), Ship) \in Int /\ SumOf(Worth(ship), Ship) \in Int
      BY <2>1, FleetNumbers, SumIsInt
    <2>3. Wealth(g, stockpile) \in Int /\ Wealth(h, stockpile + m) \in Int /\ Wealth(ship, stockpile) \in Int
      BY <1>4, <2>2, WealthIs
    <2> QED BY <1>6, <1>10, <2>3
  <1>12. ASSUME NEW x \in {a, b}, Berthed(ship, x)
         PROVE  ship[x].dest \in loose' /\ Written(ship, loose', ship[x].dest)
    <2>1. Ancestors(ship, x) = {ship[x].dest} \cup Ancestors(ship, ship[x].dest)
      BY <1>1, <1>12, Around1
    <2> QED BY <2>1 DEF Written
  <1>13. Masses(h, loose')
    BY <1>1, <1>3, <1>4, <1>12, StowsMasses
  <1>14. Masses(g, loose')
    <2>1. Berthed(h, b) => /\ h[b].dest \in loose'
                           /\ Written(h, loose', h[b].dest)
      <3>1. ASSUME Berthed(h, b) PROVE Berthed(ship, b) /\ h[b].dest = ship[b].dest /\ ship[b].dest \in Ship
        BY <1>1, <1>5, <3>1 DEF SameBerths, Docks
      <3>2. \A x \in Ship : Ancestors(h, x) = Ancestors(ship, x)
        BY <1>5, BerthsFollow
      <3> QED BY <1>12, <3>1, <3>2 DEF Written
    <2> QED BY <1>3, <1>4, <1>5, <1>7, <1>13, <2>1, StowsMasses
  <1> QED BY <1>1, <1>3, <1>8, <1>9, <1>11, <1>14, OrderedKeeps

LEMMA TradeKeeps ==
  ASSUME FleetInv, NEW s \in Ship, NEW n \in Amount, Trade(s, n)
  PROVE  Steady
  <1>1. FleetSound(ship) /\ n \in Nat /\ loose \subseteq Ship
    BY FleetNumbers DEF FleetInv
  <1> DEFINE d == Partner(s)
  <1>2. /\ Docked(ship, s) /\ UNCHANGED <<stockpile, toxic, grown>>
        /\ loose' = loose \cup (Ancestors(ship, s) \cup Ancestors(ship, d))
        /\ Ordered(Transferred(ship, d, s, n)) \/ Ordered(Transferred(ship, s, d, n))
    BY DEF Trade, MayTrade, Loosened
  <1>3. d \in Ship /\ d # s /\ Alive(ship, d) /\ Alive(ship, s)
    BY <1>1, <1>2, PartnerIsOther DEF Partner
  <1>4. loose' \subseteq Ship
    BY <1>1, <1>2 DEF Ancestors
  <1>5. loose' = loose \cup Ancestors(ship, s) \cup Ancestors(ship, d)
    BY <1>2
  <1> HIDE DEF d
  <1>6. CASE Ordered(Transferred(ship, d, s, n))
    <2>1. loose' = loose \cup Ancestors(ship, d) \cup Ancestors(ship, s)
      BY <1>5
    <2> QED BY <1>1, <1>2, <1>3, <1>4, <1>6, <2>1, TransferKeeps
  <1>7. CASE Ordered(Transferred(ship, s, d, n))
    BY <1>1, <1>2, <1>3, <1>4, <1>5, <1>7, TransferKeeps
  <1> QED BY <1>2, <1>6, <1>7

-----------------------------------------------------------------------------
(* Designs *)

LEMMA CostNumber ==
  ASSUME NEW i \in Craft, i.type \in Type
  PROVE  BuildType(i) \in Type /\ Cost(i) \in Nat
  <1>1. BuildType(i) \in Type
    BY CraftFields DEF BuildType
  <1> QED BY <1>1, CraftFields, FleetNumbers DEF Cost

(* A design at its own cost. *)
LEMMA PricedRecord ==
  ASSUME NEW i \in Craft, i.type \in Type, i.dock # "gone",
         i.dock \in {"moored", "berthed"} => i.dest \in Ship
  PROVE  LET y == [i EXCEPT !.cost = Cost(i)]
         IN  /\ Whole(y) /\ y.cost = Cost(i)
             /\ y.type = i.type /\ y.dock = i.dock /\ y.dest = i.dest /\ y.size = i.size
             /\ y.hanger = i.hanger /\ y.bay = i.bay /\ y.res = i.res /\ y.on = i.on
             /\ y.mass = i.mass /\ y.make = i.make
  <1> DEFINE n == Cost(i)
             y == [i EXCEPT !.cost = n]
  <1>1. n \in Nat /\ n = Cost(i)
    BY CostNumber
  <1> HIDE DEF n
  <1>2. /\ y \in Craft /\ y.cost = n /\ y.type = i.type /\ y.make = i.make /\ y.dock = i.dock
        /\ y.dest = i.dest /\ y.hold = i.hold /\ y.bay = i.bay /\ y.size = i.size
        /\ y.hanger = i.hanger /\ y.res = i.res /\ y.on = i.on /\ y.mass = i.mass
    BY <1>1 DEF Craft
  <1>3. y = [i EXCEPT !.cost = Cost(i)]
    BY <1>1
  <1> HIDE DEF y
  <1>4. Cost(y) = Cost(i)
    BY <1>2 DEF Cost, BuildType
  <1>5. Whole(y)
    BY <1>1, <1>2, <1>4 DEF Whole
  <1> QED BY <1>1, <1>2, <1>3, <1>5

(* A ship that lies idle is worth its hull and its cargo, whatever it is    *)
(* to make.                                                                *)
LEMMA RedesignKeeps ==
  ASSUME FleetInv, NEW s \in Ship, NEW i \in Craft, Redesigned(s, i),
         i.type = ship[s].type, i.dock = ship[s].dock, i.dest = ship[s].dest,
         i.size = ship[s].size, i.hanger = ship[s].hanger, i.res = ship[s].res, i.on = ship[s].on,
         i.mass = ship[s].mass
  PROVE  Steady
  <1> DEFINE y == [i EXCEPT !.cost = Cost(i)]
             g == [ship EXCEPT ![s] = y]
  <1>1. FleetSound(ship) /\ Hangars(ship, grown) /\ stockpile \in Nat /\ toxic \in Nat /\ loose \subseteq Ship
        /\ Masses(ship, loose)
    BY DEF FleetInv
  <1>2. /\ ship[s].type = "factory" /\ ~ship[s].on /\ Ordered(g)
        /\ stockpile' = stockpile /\ toxic' = toxic /\ grown' = grown /\ loose' \subseteq Ship
        /\ loose \subseteq loose' /\ (s \in loose' \/ BaseMass(i) = BaseMass(ship[s]))
    BY <1>1 DEF Redesigned, Loosened
  <1>3. Whole(ship[s]) /\ Alive(ship, s)
    BY <1>1, <1>2, FleetNumbers DEF FleetSound, Gone
  <1>4. Whole(y) /\ y.type = i.type /\ y.dock = i.dock /\ y.dest = i.dest /\ y.size = i.size
        /\ y.hanger = i.hanger /\ y.res = i.res /\ y.on = i.on
        /\ y.bay = i.bay /\ y.mass = i.mass
    BY <1>3, PricedRecord DEF Whole
  <1> HIDE DEF y
  <1>5. Changes(ship, g, s) /\ g[s] = y
    BY <1>1, <1>4, PutChanges DEF Whole
  <1> HIDE DEF g
  <1>6. Alike(ship, g)
    BY <1>1, <1>3, <1>4, <1>5, OneAlike
  <1>7. FleetSound(g) /\ SameBerths(ship, g)
    BY <1>1, <1>6, AlikeSound
  <1>8. \A x \in Ship : Alive(ship, x) =>
           /\ g[x].size = ship[x].size /\ g[x].hanger = ship[x].hanger
           /\ ship[x].type = "factory" \/ g[x].bay >= ship[x].bay
    <2>1. \A x \in Ship : ship[x].bay \in Nat
      BY <1>1, CraftFields DEF FleetSound
    <2> QED BY <1>2, <1>4, <1>5, <2>1 DEF Changes
  <1>9. Hangars(g, grown)
    BY <1>1, <1>7, <1>8, HangarsFollow
  <1>10. ScrapValue(y) = ScrapValue(ship[s])
    BY <1>2, <1>4 DEF ScrapValue, EffectiveCost
  <1>11. \A x \in Ship : Worth(g)[x] <= Worth(ship)[x]
    <2>1. \A x \in Ship : Worth(g)[x] = Worth(ship)[x]
      BY <1>5, <1>7, <1>10 DEF Worth, Changes, SameBerths, Alive
    <2> QED BY <1>1, <2>1, WorthIs
  <1>12. Wealth(g, stockpile') <= Wealth(ship, stockpile)
    BY <1>1, <1>2, <1>7, <1>11, NoRicher
  <1>13. Masses(g, loose')
    <2>1. Own(y) = Own(ship[s]) /\ (s \in loose' \/ LocalMass(y) = LocalMass(ship[s]))
      BY <1>2, <1>4 DEF Own, LocalMass, BaseMass
    <2>2. \A x \in Ship : Alive(ship, x) =>
            /\ g[x].mass = ship[x].mass /\ Own(g[x]) <= Own(ship[x])
            /\ x \in loose' \/ LocalMass(g[x]) = LocalMass(ship[x])
      <3>1. \A x \in Ship : Alive(ship, x) => Own(ship[x]) \in Nat
        BY <1>1, MassNumbers
      <3> QED BY <1>4, <1>5, <2>1, <3>1 DEF Changes
    <2> QED BY <1>1, <1>2, <1>7, <2>2, MassesRest
  <1> QED BY <1>1, <1>2, <1>7, <1>9, <1>12, <1>13, OrderedKeeps

LEMMA MakeKeeps ==
  ASSUME FleetInv, NEW s \in Ship, NEW t \in Type, Make(s, t)
  PROVE  Steady
  <1> DEFINE i == Blueprint(ship[s], t)
  <1>1. ship[s] \in Craft /\ Template[t].hold \in Nat /\ Template[t].bay \in Nat
    BY FleetNumbers DEF FleetInv, FleetSound
  <1>2. /\ i \in Craft /\ i.type = ship[s].type /\ i.dock = ship[s].dock /\ i.dest = ship[s].dest
        /\ i.size = ship[s].size /\ i.hanger = ship[s].hanger /\ i.res = ship[s].res
        /\ i.on = ship[s].on /\ i.mass = ship[s].mass
    BY <1>1 DEF Blueprint, Craft
  <1>3. Redesigned(s, i)
    BY DEF Make
  <1> HIDE DEF i
  <1> QED BY <1>2, <1>3, RedesignKeeps

LEMMA RequestedRecord ==
  ASSUME NEW i \in Craft, NEW a \in {"hold", "bay"}, NEW v \in Nat
  PROVE  LET j == Requested(i, a, v)
         IN  /\ j \in Craft /\ j.type = i.type /\ j.dock = i.dock /\ j.dest = i.dest
             /\ j.size = i.size /\ j.hanger = i.hanger /\ j.res = i.res /\ j.on = i.on
             /\ j.mass = i.mass /\ j.cost = i.cost /\ j.make = i.make /\ j.waste = i.waste
             /\ a = "hold" => j.hold = v /\ j.bay = i.bay
             /\ a = "bay" => j.hold = i.hold /\ j.bay = v
  <1>1. CASE a = "hold"
    <2>1. Requested(i, a, v) = [i EXCEPT !.hold = v]
      BY <1>1 DEF Requested
    <2> QED BY <1>1, <2>1 DEF Craft
  <1>2. CASE a = "bay"
    <2>1. Requested(i, a, v) = [i EXCEPT !.bay = v]
      BY <1>2 DEF Requested
    <2> QED BY <1>2, <2>1 DEF Craft
  <1> QED BY <1>1, <1>2

LEMMA ModifyKeeps ==
  ASSUME FleetInv, NEW s \in Ship, NEW a \in {"hold", "bay"}, NEW v \in Setting, Modify(s, a, v)
  PROVE  Steady
  <1> DEFINE i == Requested(ship[s], a, v)
  <1>1. ship[s] \in Craft /\ v \in Nat
    BY FleetNumbers DEF FleetInv, FleetSound
  <1>2. /\ i \in Craft /\ i.type = ship[s].type /\ i.dock = ship[s].dock /\ i.dest = ship[s].dest
        /\ i.size = ship[s].size /\ i.hanger = ship[s].hanger /\ i.res = ship[s].res
        /\ i.on = ship[s].on /\ i.mass = ship[s].mass
    BY <1>1, RequestedRecord
  <1>3. Redesigned(s, i)
    BY DEF Modify
  <1> HIDE DEF i
  <1> QED BY <1>2, <1>3, RedesignKeeps

-----------------------------------------------------------------------------
(* Docking and landing *)

\* A dock, and a destination that goes with it.
Mooring(d, t) ==
  /\ d \in Dock \ {"gone"} /\ t \in Ship \cup {Nil}
  /\ d \in {"moored", "berthed"} => t \in Ship

\* The ship i there
At(i, d, t) == [i EXCEPT !.dock = d, !.dest = t]

LEMMA RedockedRecord ==
  ASSUME NEW i, Whole(i), NEW d, NEW t, Mooring(d, t)
  PROVE  LET y == At(i, d, t)
         IN  /\ Whole(y) /\ y.dock = d /\ y.dest = t /\ SameHull(i, y) /\ y.size = i.size
             /\ y.hanger = i.hanger /\ y.res = i.res /\ y.mass = i.mass /\ y.waste = i.waste
             /\ ScrapValue(y) = ScrapValue(i) /\ BaseMass(y) = BaseMass(i)
             /\ LocalMass(y) = LocalMass(i)
  <1> DEFINE y == At(i, d, t)
  <1>1. i \in Craft
    BY DEF Whole
  <1>2. /\ y \in Craft /\ y.dock = d /\ y.dest = t /\ SameHull(i, y) /\ y.size = i.size
        /\ y.hanger = i.hanger /\ y.res = i.res /\ y.mass = i.mass /\ y.waste = i.waste
    BY <1>1 DEF Craft, SameHull, Mooring, At
  <1> HIDE DEF y
  <1>3. Cost(y) = Cost(i) /\ BuildType(y) = BuildType(i)
    BY <1>2 DEF Cost, BuildType, SameHull
  <1>4. Whole(y)
    BY <1>2, <1>3 DEF Whole, SameHull, Mooring
  <1>5. ScrapValue(y) = ScrapValue(i) /\ BaseMass(y) = BaseMass(i) /\ LocalMass(y) = LocalMass(i)
    BY <1>2 DEF ScrapValue, EffectiveCost, BaseMass, LocalMass, SameHull
  <1> QED BY <1>2, <1>4, <1>5 DEF y

LEMMA PlacedChanges ==
  ASSUME NEW f, FleetSound(f), NEW s \in Ship, Alive(f, s), NEW d, NEW t, Mooring(d, t)
  PROVE  /\ Changes(f, Placed(f, s, d, t), s)
         /\ Placed(f, s, d, t)[s] = At(f[s], d, t)
  <1> DEFINE y == At(f[s], d, t)
  <1>1. Whole(f[s]) /\ f \in [Ship -> Craft]
    BY DEF FleetSound
  <1>2. Placed(f, s, d, t) = [f EXCEPT ![s] = y]
    BY <1>1, Zenon DEF Placed, At
  <1>3. Whole(y)
    BY <1>1, RedockedRecord
  <1> HIDE DEF y
  <1>4. y \in Craft
    BY <1>3 DEF Whole
  <1>5. Changes(f, [f EXCEPT ![s] = y], s) /\ [f EXCEPT ![s] = y][s] = y
    BY <1>4, PutChanges
  <1>6. Changes(f, Placed(f, s, d, t), s) /\ Placed(f, s, d, t)[s] = y
    BY <1>2, <1>5, Zenon
  <1> QED BY <1>6 DEF y

\* g has the ships of f, wherever they are.
Redocked(f, g) ==
  \A x \in Ship :
    /\ g[x].size = f[x].size /\ g[x].hanger = f[x].hanger /\ g[x].bay = f[x].bay
    /\ g[x].mass = f[x].mass /\ g[x].res = f[x].res /\ g[x].type = f[x].type
    /\ Worth(g)[x] = Worth(f)[x]

LEMMA RedockedKeeps ==
  ASSUME FleetInv, NEW g, Moves(g), FleetSound(g), SameBerths(ship, g), Redocked(ship, g)
  PROVE  Steady
  <1>1. /\ FleetSound(ship) /\ Hangars(ship, grown) /\ stockpile \in Nat /\ toxic \in Nat
        /\ loose \subseteq Ship /\ Ordered(g) /\ stockpile' = stockpile /\ toxic' = toxic
        /\ loose' = loose /\ grown' = grown /\ Masses(ship, loose)
    BY DEF FleetInv, Moves, Quiet
  <1>2. \A x \in Ship : ship[x].bay \in Nat /\ Worth(ship)[x] \in Int
    BY <1>1, WorthIs, CraftFields DEF FleetSound
  <1>3. Hangars(g, grown)
    <2>1. \A x \in Ship : Alive(ship, x) =>
           /\ g[x].size = ship[x].size /\ g[x].hanger = ship[x].hanger
           /\ ship[x].type = "factory" \/ g[x].bay >= ship[x].bay
      BY <1>2 DEF Redocked
    <2> QED BY <1>1, <2>1, HangarsFollow
  <1>4. Wealth(g, stockpile') <= Wealth(ship, stockpile)
    <2>1. \A x \in Ship : Worth(g)[x] <= Worth(ship)[x]
      BY <1>2 DEF Redocked
    <2> QED BY <1>1, <2>1, NoRicher
  <1>5. Masses(g, loose')
    <2>1. \A x \in Ship : Alive(ship, x) =>
            /\ g[x].mass = ship[x].mass /\ Own(g[x]) <= Own(ship[x])
            /\ x \in loose' \/ LocalMass(g[x]) = LocalMass(ship[x])
      <3>1. \A x \in Ship : Alive(ship, x) => Own(ship[x]) \in Nat
        BY <1>1, MassNumbers
      <3>2. \A x \in Ship : Own(g[x]) = Own(ship[x]) /\ LocalMass(g[x]) = LocalMass(ship[x])
        BY DEF Redocked, Own, LocalMass, BaseMass
      <3> QED BY <3>1, <3>2 DEF Redocked
    <2> QED BY <1>1, <2>1, MassesRest
  <1> QED BY <1>1, <1>3, <1>4, <1>5, OrderedKeeps

(* A ship lands or takes off. *)
LEMMA FreeKeeps ==
  ASSUME FleetInv, NEW s \in Ship, ship[s].dock \in {"landed", "spaceborne"},
         NEW d \in {"landed", "spaceborne"}, Moves(Placed(ship, s, d, Nil))
  PROVE  Steady
  <1> DEFINE g == Placed(ship, s, d, Nil)
             y == At(ship[s], d, Nil)
  <1>1. FleetSound(ship) /\ Alive(ship, s) /\ Whole(ship[s]) /\ Moves(g)
        /\ Mooring(d, Nil)
    BY DEF FleetInv, FleetSound, Alive, Dock, Mooring
  <1>2. Changes(ship, g, s) /\ g[s] = y
    BY <1>1, PlacedChanges
  <1>3. /\ Whole(y) /\ y.dock = d /\ SameHull(ship[s], y) /\ y.size = ship[s].size
        /\ y.hanger = ship[s].hanger /\ ScrapValue(y) = ScrapValue(ship[s])
        /\ y.mass = ship[s].mass /\ y.res = ship[s].res
    BY <1>1, RedockedRecord
  <1> HIDE DEF g, y
  <1>4. y.type = ship[s].type /\ y.bay = ship[s].bay
    BY <1>3 DEF SameHull
  <1>5. FleetSound(g) /\ SameBerths(ship, g)
    BY <1>1, <1>2, <1>3, <1>4, OneFree
  <1>6. Redocked(ship, g)
    <2>1. \A x \in Ship : Worth(g)[x] = Worth(ship)[x]
      BY <1>1, <1>2, <1>3 DEF Worth, Changes, Alive
    <2> QED BY <1>2, <1>3, <1>4, <2>1 DEF Redocked, Changes
  <1> QED BY <1>1, <1>5, <1>6, RedockedKeeps

LEMMA LandKeeps ==
  ASSUME FleetInv, NEW s \in Ship, Land(s)
  PROVE  Steady
  BY FreeKeeps DEF Land, Spaceborne
LEMMA LaunchKeeps ==
  ASSUME FleetInv, NEW s \in Ship, LaunchFromPlanet(s)
  PROVE  Steady
  BY FreeKeeps DEF LaunchFromPlanet, Landed

(* Two ships moor, or part. *)
LEMMA PairKeeps ==
  ASSUME FleetInv, NEW s \in Ship, NEW t \in Ship, s # t, Alive(ship, s), Alive(ship, t),
         ~Berthed(ship, s), ~Berthed(ship, t),
         NEW d \in {"moored", "spaceborne"}, NEW a \in Ship \cup {Nil}, NEW b \in Ship \cup {Nil},
         d = "moored" => a = t /\ b = s,
         \A x \in Ship \ {s, t} : ship[x].dock = "moored" => ship[x].dest \notin {s, t},
         Moves(Placed(Placed(ship, s, d, a), t, d, b))
  PROVE  Steady
  <1> DEFINE h == Placed(ship, s, d, a)
             g == Placed(h, t, d, b)
             y == At(ship[s], d, a)
             z == At(ship[t], d, b)
  <1>1. /\ FleetSound(ship) /\ Whole(ship[s]) /\ Whole(ship[t]) /\ Moves(g)
        /\ Mooring(d, a) /\ Mooring(d, b) /\ ship \in [Ship -> Craft]
    BY DEF FleetInv, FleetSound, Alive, Dock, Mooring
  <1>2. /\ Whole(y) /\ y.dock = d /\ y.dest = a /\ SameHull(ship[s], y) /\ y.size = ship[s].size
        /\ y.hanger = ship[s].hanger /\ ScrapValue(y) = ScrapValue(ship[s])
        /\ y.mass = ship[s].mass /\ y.res = ship[s].res
    BY <1>1, RedockedRecord
  <1>3. /\ Whole(z) /\ z.dock = d /\ z.dest = b /\ SameHull(ship[t], z) /\ z.size = ship[t].size
        /\ z.hanger = ship[t].hanger /\ ScrapValue(z) = ScrapValue(ship[t])
        /\ z.mass = ship[t].mass /\ z.res = ship[t].res
    BY <1>1, RedockedRecord
  <1>4. h = [ship EXCEPT ![s] = y]
    BY <1>1, Zenon DEF Placed, At
  <1>5. g = [h EXCEPT ![t] = At(h[t], d, b)]
    BY <1>1, <1>4, Zenon DEF Placed, At
  <1>6. h[t] = ship[t]
    BY <1>1, <1>4
  <1>7. g = [[ship EXCEPT ![s] = y] EXCEPT ![t] = z]
    BY <1>4, <1>5, <1>6, Zenon
  <1> HIDE DEF g, h, y, z
  <1>8. y \in Craft /\ z \in Craft
    BY <1>2, <1>3 DEF Whole
  <1>9. /\ g \in [Ship -> Craft] /\ g[s] = y /\ g[t] = z
        /\ \A x \in Ship \ {s, t} : g[x] = ship[x]
    BY <1>1, <1>7, <1>8
  <1>10. y.type = ship[s].type /\ y.bay = ship[s].bay /\ z.type = ship[t].type /\ z.bay = ship[t].bay
    BY <1>2, <1>3 DEF SameHull
  <1>11. SameBerths(ship, g)
    BY <1>2, <1>3, <1>9 DEF SameBerths, Alive, Berthed
  <1>12. \A x \in Ship : IF Alive(ship, x) THEN Whole(g[x]) /\ g[x].type = ship[x].type
                          ELSE g[x] = ship[x]
    BY <1>1, <1>2, <1>3, <1>9, <1>10 DEF FleetSound
  <1>13. ASSUME NEW x \in Ship, g[x].dock = "moored"
         PROVE  /\ g[x].dest \in Ship /\ g[x].dest # x
                /\ g[g[x].dest].dock = "moored" /\ g[g[x].dest].dest = x
    <2>1. CASE x \in {s, t}
      BY <1>2, <1>3, <1>9, <1>13, <2>1
    <2>2. CASE x \notin {s, t}
      <3>1. g[x] = ship[x] /\ ship[x].dock = "moored" /\ ship[x].dest \notin {s, t}
        BY <1>9, <1>13, <2>2
      <3>2. /\ ship[x].dest \in Ship /\ ship[x].dest # x
            /\ ship[ship[x].dest].dock = "moored" /\ ship[ship[x].dest].dest = x
        BY <1>1, <3>1 DEF FleetSound, Docks
      <3> QED BY <1>9, <3>1, <3>2
    <2> QED BY <2>1, <2>2
  <1>14. FleetSound(g)
    BY <1>1, <1>9, <1>11, <1>12, <1>13, SoundFollows
  <1>15. Redocked(ship, g)
    <2>1. \A x \in Ship : Worth(g)[x] = Worth(ship)[x]
      BY <1>2, <1>3, <1>9, <1>11 DEF Worth, SameBerths, Alive
    <2> QED BY <1>2, <1>3, <1>9, <1>10, <2>1 DEF Redocked
  <1> QED BY <1>1, <1>11, <1>14, <1>15, RedockedKeeps

LEMMA MoorKeeps ==
  ASSUME FleetInv, NEW s \in Ship, NEW t \in Ship, Moor(s, t)
  PROVE  Steady
  <1>1. s # t /\ ship[s].dock = "spaceborne" /\ ship[t].dock = "spaceborne"
        /\ Moves(Placed(Placed(ship, s, "moored", t), t, "moored", s))
    BY DEF Moor, Spaceborne
  <1>2. Alive(ship, s) /\ Alive(ship, t) /\ ~Berthed(ship, s) /\ ~Berthed(ship, t)
    BY <1>1 DEF Alive, Berthed
  <1>3. \A x \in Ship \ {s, t} : ship[x].dock = "moored" => ship[x].dest \notin {s, t}
    BY <1>1 DEF FleetInv, FleetSound, Docks
  <1> QED BY <1>1, <1>2, <1>3, PairKeeps

LEMMA UndockKeeps ==
  ASSUME FleetInv, NEW s \in Ship, Undock(s)
  PROVE  Steady
  <1> DEFINE t == ship[s].dest
  <1>1. ship[s].dock = "moored"
        /\ Moves(Placed(Placed(ship, s, "spaceborne", Nil), t, "spaceborne", Nil))
    BY DEF Undock
  <1>2. t \in Ship /\ t # s /\ ship[t].dock = "moored" /\ ship[t].dest = s
    BY <1>1 DEF FleetInv, FleetSound, Docks
  <1>3. Alive(ship, s) /\ Alive(ship, t) /\ ~Berthed(ship, s) /\ ~Berthed(ship, t)
    BY <1>1, <1>2 DEF Alive, Berthed
  <1>4. \A x \in Ship \ {s, t} : ship[x].dock = "moored" => ship[x].dest \notin {s, t}
    BY <1>2 DEF FleetInv, FleetSound, Docks
  <1> HIDE DEF t
  <1> QED BY <1>1, <1>2, <1>3, <1>4, PairKeeps

-----------------------------------------------------------------------------
(* Books: the hangar in use and the mass of a ship *)

\* g has the ships of f, with other books.
Rebooked(f, g) ==
  /\ g \in [Ship -> Craft]
  /\ \A x \in Ship : /\ SameHull(f[x], g[x]) /\ g[x].dock = f[x].dock /\ g[x].dest = f[x].dest
                     /\ g[x].size = f[x].size /\ g[x].res = f[x].res /\ g[x].waste = f[x].waste
                     /\ ~Alive(f, x) => g[x] = f[x]

LEMMA RebookedKeeps ==
  ASSUME NEW f, FleetSound(f), NEW g, Rebooked(f, g)
  PROVE  /\ Alike(f, g) /\ FleetSound(g) /\ SameBerths(f, g)
         /\ \A x \in Ship : /\ Worth(g)[x] = Worth(f)[x] /\ BaseMass(g[x]) = BaseMass(f[x])
                            /\ LocalMass(g[x]) = LocalMass(f[x])
  <1>1. \A x \in Ship : Alive(f, x) => Whole(g[x]) /\ g[x].type = f[x].type
    <2> SUFFICES ASSUME NEW x \in Ship, Alive(f, x) PROVE Whole(g[x]) /\ g[x].type = f[x].type
      OBVIOUS
    <2>1. Whole(f[x]) /\ g[x] \in Craft /\ SameHull(f[x], g[x]) /\ g[x].dock = f[x].dock
          /\ g[x].dest = f[x].dest
      BY DEF FleetSound, Rebooked
    <2> QED BY <2>1, HullKept DEF SameHull
  <1>2. Alike(f, g)
    BY <1>1 DEF Alike, Rebooked
  <1>3. FleetSound(g) /\ SameBerths(f, g)
    BY <1>2, AlikeSound
  <1>4. \A x \in Ship : ScrapValue(g[x]) = ScrapValue(f[x]) /\ BaseMass(g[x]) = BaseMass(f[x])
                       /\ LocalMass(g[x]) = LocalMass(f[x])
    BY DEF Rebooked, SameHull, ScrapValue, EffectiveCost, BaseMass, LocalMass
  <1>5. \A x \in Ship : Worth(g)[x] = Worth(f)[x]
    BY <1>3, <1>4 DEF Worth, SameBerths
  <1> QED BY <1>2, <1>3, <1>4, <1>5

\* The ship i with these books
Booked(i, h, m) == [i EXCEPT !.hanger = h, !.mass = m]

LEMMA BookedRecord ==
  ASSUME NEW i \in Craft, NEW h \in Int, NEW m \in Int
  PROVE  LET y == Booked(i, h, m)
         IN  /\ y \in Craft /\ SameHull(i, y) /\ y.dock = i.dock /\ y.dest = i.dest
             /\ y.size = i.size /\ y.res = i.res /\ y.waste = i.waste
             /\ y.hanger = h /\ y.mass = m
  BY DEF Craft, Booked, SameHull

LEMMA OneRebooked ==
  ASSUME NEW f, FleetSound(f), NEW c \in Ship, Alive(f, c), NEW h \in Int, NEW m \in Int,
         NEW g, Changes(f, g, c), g[c] = Booked(f[c], h, m)
  PROVE  /\ Rebooked(f, g) /\ Changes(f, g, c)
         /\ g[c].hanger = h /\ g[c].mass = m
  <1> DEFINE y == Booked(f[c], h, m)
  <1>1. f \in [Ship -> Craft] /\ f[c] \in Craft
    BY DEF FleetSound
  <1>2. /\ y \in Craft /\ SameHull(f[c], y) /\ y.dock = f[c].dock /\ y.dest = f[c].dest
        /\ y.size = f[c].size /\ y.res = f[c].res /\ y.waste = f[c].waste
        /\ y.hanger = h /\ y.mass = m
    BY <1>1, BookedRecord
  <1> HIDE DEF y
  <1>4. Changes(f, g, c) /\ g[c] = y
    BY DEF y
  <1>5. \A x \in Ship : SameHull(f[x], f[x])
    BY DEF SameHull
  <1>6. Rebooked(f, g)
    BY <1>2, <1>4, <1>5 DEF Rebooked, Changes
  <1> QED BY <1>2, <1>4, <1>6

LEMMA LoadCraftBooks ==
  ASSUME NEW f, FleetSound(f), NEW c \in Ship, Alive(f, c), NEW z \in Int, NEW m \in Int,
         NEW g, g = LoadCraft(f, c, z, m)
  PROVE  /\ Rebooked(f, g) /\ Changes(f, g, c)
         /\ g[c].hanger = f[c].hanger + z /\ g[c].mass = f[c].mass + m
  <1>1. f \in [Ship -> Craft]
    BY DEF FleetSound
  <1>2. f[c].hanger \in Int /\ f[c].mass \in Int
    BY <1>1, CraftFields
  <1> DEFINE h == f[c].hanger + z
             k == f[c].mass + m
  <1>3. g = [f EXCEPT ![c] = Booked(f[c], h, k)]
    BY <1>1, Zenon DEF LoadCraft, Booked
  <1>4. h \in Int /\ k \in Int
    BY <1>2
  <1> HIDE DEF h, k
  <1> DEFINE y == Booked(f[c], h, k)
  <1>y. y \in Craft
    BY <1>1, <1>3, <1>4, BookedRecord
  <1>z. Changes(f, g, c) /\ g[c] = y
    <2> HIDE DEF y
    <2>1. Changes(f, [f EXCEPT ![c] = y], c) /\ [f EXCEPT ![c] = y][c] = y
      BY <1>y, PutChanges
    <2> QED BY <1>3, <2>1, Zenon DEF y
  <1>5. Rebooked(f, g) /\ Changes(f, g, c) /\ g[c].hanger = h /\ g[c].mass = k
    BY <1>1, <1>4, <1>z, OneRebooked
  <1> QED BY <1>5 DEF h, k

LEMMA UnloadCraftBooks ==
  ASSUME NEW f, FleetSound(f), NEW c \in Ship, Alive(f, c), NEW z \in Int, NEW m \in Int,
         NEW g, g = UnloadCraft(f, c, z, m)
  PROVE  /\ Rebooked(f, g) /\ Changes(f, g, c)
         /\ g[c].hanger = IF f[c].hanger >= z THEN f[c].hanger - z ELSE 0
         /\ g[c].mass = IF f[c].mass - m >= BaseMass(f[c]) THEN f[c].mass - m
                        ELSE BaseMass(f[c])
  <1>1. f \in [Ship -> Craft]
    BY DEF FleetSound
  <1>2. f[c].hanger \in Int /\ f[c].mass \in Int /\ BaseMass(f[c]) \in Int
    BY <1>1, CraftFields, HullNumbers DEF FleetSound
  <1> DEFINE h == Max({0, f[c].hanger - z})
             b == BaseMass(f[c])
             k == Max({b, f[c].mass - m})
  <1>3. g = [f EXCEPT ![c] = Booked(f[c], h, k)]
    BY <1>1, Zenon DEF UnloadCraft, Booked
  <1>4. /\ h = IF f[c].hanger >= z THEN f[c].hanger - z ELSE 0
        /\ h \in Int
    <2>1. f[c].hanger - z \in Int /\ 0 \in Int
      BY <1>2
    <2>2. h = IF 0 >= f[c].hanger - z THEN 0 ELSE f[c].hanger - z
      BY <2>1, GreaterOf
    <2> HIDE DEF h
    <2> QED BY <1>2, <2>1, <2>2
  <1>5. /\ k = IF f[c].mass - m >= b THEN f[c].mass - m ELSE b
        /\ k \in Int
    <2> HIDE DEF b
    <2>1. f[c].mass - m \in Int /\ b \in Int
      BY <1>2 DEF b
    <2>2. k = IF b >= f[c].mass - m THEN b ELSE f[c].mass - m
      BY <2>1, GreaterOf
    <2> HIDE DEF k
    <2> QED BY <1>2, <2>1, <2>2
  <1> HIDE DEF h, k
  <1> DEFINE y == Booked(f[c], h, k)
  <1>y. y \in Craft
    BY <1>1, <1>3, <1>4, <1>5, BookedRecord
  <1>z. Changes(f, g, c) /\ g[c] = y
    <2> HIDE DEF y
    <2>1. Changes(f, [f EXCEPT ![c] = y], c) /\ [f EXCEPT ![c] = y][c] = y
      BY <1>y, PutChanges
    <2> QED BY <1>3, <2>1, Zenon DEF y
  <1>6. Rebooked(f, g) /\ Changes(f, g, c) /\ g[c].hanger = h /\ g[c].mass = k
    <2>1. h \in Int /\ k \in Int
      BY <1>4, <1>5
    <2> QED BY <2>1, <1>z, OneRebooked
  <1> QED BY <1>4, <1>5, <1>6

(* The books of a hangar in which a ship takes another size.               *)
LEMMA HangarsResized ==
  ASSUME NEW f, FleetSound(f), NEW gr, Hangars(f, gr), NEW g, FleetSound(g), SameBerths(f, g), NEW q,
         NEW s \in Ship, \A x \in Ship \ {s} : g[x].size = f[x].size,
         \A x \in Ship : Alive(f, x) /\ q[x] # "now" =>
           /\ q[x] = gr[x]
           /\ s \in InCarrier(f, x) =>
                /\ g[x].hanger = f[x].hanger - f[s].size + g[s].size
                /\ gr[x] = "never" => g[x].hanger <= g[x].bay
           /\ s \notin InCarrier(f, x) =>
                /\ g[x].hanger = f[x].hanger
                /\ f[x].type = "factory" \/ g[x].bay >= f[x].bay
  PROVE  Hangars(g, q)
  <1> SUFFICES ASSUME NEW c \in Ship, Alive(g, c), q[c] # "now"
               PROVE  /\ g[c].hanger = SizeInside(g, c)
                      /\ q[c] = "never" => g[c].hanger <= g[c].bay
    BY DEF Hangars
  <1>1. Alive(f, c) /\ f \in [Ship -> Craft] /\ g \in [Ship -> Craft]
    BY DEF SameBerths, FleetSound
  <1>2. InCarrier(g, c) = InCarrier(f, c)
    BY BerthsFollow
  <1>3. /\ q[c] = gr[c]
        /\ s \in InCarrier(f, c) =>
             /\ g[c].hanger = f[c].hanger - f[s].size + g[s].size
             /\ gr[c] = "never" => g[c].hanger <= g[c].bay
        /\ s \notin InCarrier(f, c) =>
             /\ g[c].hanger = f[c].hanger
             /\ f[c].type = "factory" \/ g[c].bay >= f[c].bay
    BY <1>1
  <1>4. f[c].hanger = SizeInside(f, c) /\ (gr[c] = "never" => f[c].hanger <= f[c].bay)
    BY <1>1, <1>3 DEF Hangars
  <1>5. CASE s \in InCarrier(f, c)
    <2>1. \A x \in InCarrier(f, c) \ {s} : g[x].size = f[x].size
      BY DEF InCarrier
    <2>2. SizeInside(g, c) = SizeInside(f, c) - f[s].size + g[s].size
      BY <1>1, <1>2, <1>5, <2>1, SizeInsideChanged
    <2> QED BY <1>3, <1>4, <1>5, <2>2
  <1>6. CASE s \notin InCarrier(f, c)
    <2>1. \A x \in InCarrier(f, c) : g[x].size = f[x].size
      BY <1>6 DEF InCarrier
    <2>2. SizeInside(g, c) = SizeInside(f, c)
      BY <1>1, <1>2, <2>1, SizeInsideSame
    <2>3. f[c].hanger \in Int /\ f[c].bay \in Nat /\ g[c].bay \in Nat
      BY <1>1, CraftFields
    <2>4. CASE f[c].type = "factory"
      <3>1. InCarrier(f, c) = {}
        BY <2>4 DEF FleetSound, Docks, InCarrier
      <3>2. SizeInside(f, c) = 0
        BY <1>1, <3>1, SizeInsideCovers
      <3> QED BY <1>3, <1>4, <1>6, <2>2, <2>3, <3>2
    <2>5. CASE f[c].type # "factory"
      BY <1>3, <1>4, <1>6, <2>2, <2>3, <2>5
    <2> QED BY <2>4, <2>5
  <1> QED BY <1>5, <1>6

-----------------------------------------------------------------------------
(* Upgrades *)

\* The ship j of this size, cost and mass
Refitted(j, z, n, m) == [j EXCEPT !.size = z, !.cost = n, !.mass = m]

LEMMA RefittedRecord ==
  ASSUME NEW j \in Craft, j.type \in Type, j.dock # "gone",
         j.dock \in {"moored", "berthed"} => j.dest \in Ship, NEW z \in Nat, NEW m \in Int
  PROVE  LET y == Refitted(j, z, Cost(j), m)
         IN  /\ Whole(y) /\ y.type = j.type /\ y.make = j.make /\ y.dock = j.dock /\ y.dest = j.dest
             /\ y.hold = j.hold /\ y.bay = j.bay /\ y.size = z /\ y.cost = Cost(j) /\ y.on = j.on
             /\ y.res = j.res /\ y.hanger = j.hanger /\ y.mass = m /\ y.waste = j.waste
  <1> DEFINE n == Cost(j)
             y == Refitted(j, z, n, m)
  <1>1. n \in Nat
    BY CostNumber
  <1>2. n = Cost(j)
    OBVIOUS
  <1> HIDE DEF n
  <1>3. /\ y \in Craft /\ y.type = j.type /\ y.make = j.make /\ y.dock = j.dock /\ y.dest = j.dest
        /\ y.hold = j.hold /\ y.bay = j.bay /\ y.size = z /\ y.cost = n /\ y.on = j.on
        /\ y.res = j.res /\ y.hanger = j.hanger /\ y.mass = m /\ y.waste = j.waste
    BY <1>1 DEF Craft, Refitted
  <1> HIDE DEF y
  <1>4. Cost(y) = Cost(j)
    BY <1>3 DEF Cost, BuildType
  <1>5. Whole(y)
    BY <1>2, <1>3, <1>4 DEF Whole
  <1> QED BY <1>2, <1>3, <1>5 DEF y

\* The ship s of f, upgraded to j, before it pays.
Rebuilt(f, s, j) ==
  Refitted(j, CalculatedSize(j), Cost(j), j.mass + BaseMass(j) - BaseMass(f[s]))

RebuiltAs(i, j, k) ==
  /\ Whole(k) /\ k.type = i.type /\ k.dock = i.dock /\ k.dest = i.dest
  /\ k.size = CalculatedSize(j) /\ k.cost = Cost(j) /\ k.on = i.on /\ k.res = i.res
  /\ k.hanger = i.hanger /\ k.bay >= i.bay /\ k.bay = j.bay /\ k.waste = i.waste
  /\ BaseMass(k) = BaseMass(j) /\ BaseMass(j) \in Nat
  /\ k.mass = i.mass + BaseMass(j) - BaseMass(i) /\ Cost(j) \in Nat

(* What an upgrade of one attribute makes of a ship.                       *)
LEMMA RebuiltRecord ==
  ASSUME NEW f, FleetSound(f), NEW s \in Ship, Alive(f, s), NEW a \in {"hold", "bay"}, NEW v \in Nat
  PROVE  RebuiltAs(f[s], Candidate(f[s], a, v), Rebuilt(f, s, Candidate(f[s], a, v)))
  <1> DEFINE i == f[s]
             w == Max({v, i[a]})
             j == Candidate(i, a, v)
             m == j.mass + BaseMass(j) - BaseMass(i)
             k == Rebuilt(f, s, j)
  <1>1. Whole(i) /\ i \in Craft
    BY DEF FleetSound, Whole
  <1>2. w \in Nat /\ (a = "bay" => w >= i.bay)
    <2>1. i.hold \in Nat /\ i.bay \in Nat
      BY <1>1, CraftFields
    <2>2. CASE a = "hold"
      BY <2>1, <2>2, GreaterOf
    <2>3. CASE a = "bay"
      BY <2>1, <2>3, GreaterOf
    <2> QED BY <2>2, <2>3
  <1>3. j = Requested(i, a, w)
    BY DEF Candidate
  <1> HIDE DEF w, j, k
  <1>4. /\ j \in Craft /\ j.type = i.type /\ j.dock = i.dock /\ j.dest = i.dest
        /\ j.hanger = i.hanger /\ j.res = i.res /\ j.on = i.on /\ j.mass = i.mass
        /\ a = "hold" => j.hold = w /\ j.bay = i.bay
        /\ a = "bay" => j.hold = i.hold /\ j.bay = w
    BY <1>1, <1>2, <1>3, RequestedRecord
  <1>5. j.waste = i.waste
    BY <1>1, <1>2, <1>3, RequestedRecord
  <1>6. j.bay >= i.bay
    BY <1>1, <1>2, <1>4, CraftFields
  <1>7. CalculatedSize(j) \in Nat /\ BaseMass(j) \in Nat /\ Cost(j) \in Nat /\ m \in Int
    <2>1. CalculatedSize(j) \in Nat /\ BaseMass(j) \in Nat
      BY <1>4, CraftFields DEF CalculatedSize, BaseMass
    <2>2. Cost(j) \in Nat
      BY <1>1, <1>4, CostNumber DEF Whole
    <2>3. m \in Int
      BY <1>1, <1>4, <2>1, CraftFields, HullNumbers
    <2> QED BY <2>1, <2>2, <2>3
  <1>8. k = Refitted(j, CalculatedSize(j), Cost(j), m)
    BY DEF Rebuilt, k
  <1> HIDE DEF m
  <1>9. /\ Whole(k) /\ k.type = j.type /\ k.dock = j.dock /\ k.dest = j.dest
        /\ k.bay = j.bay /\ k.size = CalculatedSize(j) /\ k.cost = Cost(j) /\ k.on = j.on
        /\ k.res = j.res /\ k.hanger = j.hanger /\ k.mass = m /\ k.waste = j.waste
    <2>1. j.type \in Type /\ j.dock # "gone" /\ (j.dock \in {"moored", "berthed"} => j.dest \in Ship)
      BY <1>1, <1>4 DEF Whole
    <2> QED BY <1>4, <1>7, <1>8, <2>1, RefittedRecord
  <1>10. BaseMass(k) = BaseMass(j)
    BY <1>9 DEF BaseMass
  <1>11. RebuiltAs(i, j, k)
    BY <1>4, <1>5, <1>6, <1>7, <1>9, <1>10 DEF RebuiltAs, m
  <1> QED BY <1>11 DEF j, k

\* What an upgrade of s to j leaves in g.
CommittedAs(s, j, g) ==
  LET i == ship[s]
      c == i.dest
      n == NetCost(i, j)
  IN  /\ Alike(ship, g) /\ n \in Nat /\ n >= 1 /\ n >= 2 * (Cost(j) - i.cost)
      /\ Cost(j) \in Nat
      /\ \A x \in Ship : x # s /\ ~(Berthed(ship, s) /\ x = c) => g[x] = ship[x]
      /\ g[s].size = CalculatedSize(j) /\ g[s].hanger = i.hanger /\ g[s].bay >= i.bay
      /\ g[s].type = i.type /\ g[s].on = i.on /\ g[s].cost = Cost(j) /\ g[s].res = i.res - n
      /\ BaseMass(g[s]) = BaseMass(j) /\ BaseMass(j) \in Nat
      /\ g[s].mass = i.mass + BaseMass(j) - BaseMass(i) - n
      /\ Berthed(ship, s) =>
           /\ c \in Ship /\ c # s /\ g[c].size = ship[c].size /\ g[c].bay = ship[c].bay
           /\ Worth(g)[c] = Worth(ship)[c]
           /\ LocalMass(g[c]) = LocalMass(ship[c]) /\ BaseMass(g[c]) = BaseMass(ship[c])
           /\ g[c].hanger = (IF ship[c].hanger >= i.size THEN ship[c].hanger - i.size ELSE 0)
                            + CalculatedSize(j)
           /\ g[c].mass = (IF ship[c].mass - i.mass >= BaseMass(ship[c])
                           THEN ship[c].mass - i.mass ELSE BaseMass(ship[c]))
                          + g[s].mass

(* commit_ship_upgrade, its carrier's books included.                      *)
LEMMA UpgradeCommits ==
  ASSUME NEW s \in Ship, NEW a \in {"hold", "bay"}, NEW v \in Nat, FleetInv, Alive(ship, s),
         NEW j, j = Candidate(ship[s], a, v), NetCost(ship[s], j) <= ship[s].res,
         Cost(j) >= ship[s].cost,
         NEW g, g = Committed(s, ship[s], j)
  PROVE  CommittedAs(s, j, g)
  <1> DEFINE i == ship[s]
             c == i.dest
             n == NetCost(i, j)
             k == Rebuilt(ship, s, j)
             h == [ship EXCEPT ![s] = k]
             f == Spent(h, s, n)
             u == UnloadCraft(f, c, i.size, i.mass)
  <1>1. FleetSound(ship) /\ ship \in [Ship -> Craft] /\ Whole(i) /\ i \in Craft
    BY DEF FleetInv, FleetSound, Whole
  <1>2. /\ Whole(k) /\ k.type = i.type /\ k.dock = i.dock /\ k.dest = i.dest
        /\ k.size = CalculatedSize(j) /\ k.cost = Cost(j) /\ k.on = i.on /\ k.res = i.res
        /\ k.hanger = i.hanger /\ k.bay >= i.bay /\ k.bay = j.bay /\ k.waste = i.waste
        /\ BaseMass(k) = BaseMass(j) /\ BaseMass(j) \in Nat
        /\ k.mass = i.mass + BaseMass(j) - BaseMass(i) /\ Cost(j) \in Nat
    <2>1. RebuiltAs(i, j, k)
      BY <1>1, RebuiltRecord, Zenon
    <2> HIDE DEF i, k
    <2> QED BY <2>1 DEF RebuiltAs
  <1>3. n \in Nat /\ n >= 1 /\ n >= 2 * (Cost(j) - i.cost) /\ n <= i.res
    <2> DEFINE e == 2 * (Cost(j) - i.cost)
    <2>1. e \in Int /\ 1 \in Int
      BY <1>1, <1>2, CraftFields
    <2>2. n = Max({1, e})
      BY DEF NetCost
    <2>3. e = 2 * (Cost(j) - i.cost) /\ n <= i.res
      OBVIOUS
    <2> HIDE DEF e, n
    <2>4. n = IF 1 >= e THEN 1 ELSE e
      BY <2>1, <2>2, GreaterOf
    <2> QED BY <2>1, <2>3, <2>4
  <1>4. g = IF Berthed(ship, s) THEN LoadCraft(u, c, k.size, f[s].mass) ELSE f
    BY Zenon DEF Committed, Rebuilt, Refitted
  <1>5. Changes(ship, h, s) /\ h[s] = k
    <2> HIDE DEF k
    <2>1. k \in Craft
      BY <1>2 DEF Whole
    <2> QED BY <1>1, <2>1, PutChanges
  <1> HIDE DEF k, h, f, u, n
  <1>6. Alike(ship, h)
    BY <1>1, <1>2, <1>5, OneAlike
  <1>7. FleetSound(h) /\ SameBerths(ship, h)
    BY <1>1, <1>6, AlikeSound
  <1>8. Alive(h, s) /\ n <= h[s].res
    BY <1>2, <1>3, <1>5, <1>7 DEF SameBerths
  <1>9. Stows(h, f, s, 0 - n)
    BY <1>3, <1>7, <1>8, SpentStows DEF f
  <1>10. 0 - n \in Int /\ h[s].res + (0 - n) >= 0
    BY <1>1, <1>2, <1>3, <1>5, CraftFields
  <1>11. /\ Alike(h, f) /\ FleetSound(f) /\ SameBerths(h, f) /\ SameShape(h, f)
         /\ f[s].res = k.res + (0 - n) /\ f[s].mass = k.mass + (0 - n)
         /\ BaseMass(f[s]) = BaseMass(k)
    BY <1>5, <1>7, <1>8, <1>9, <1>10, StowsKeeps
  <1>12. \A x \in Ship \ {s} : f[x] = ship[x]
    BY <1>5, <1>9 DEF Stows, Changes
  <1>13. SameHull(k, f[s])
    BY <1>1, <1>2, <1>5, <1>9, <1>10, StowedRecord DEF Stows
  <1>14. /\ f[s].size = CalculatedSize(j) /\ f[s].hanger = i.hanger /\ f[s].bay >= i.bay
         /\ f[s].type = i.type /\ f[s].on = i.on /\ f[s].cost = Cost(j) /\ f[s].res = i.res - n
         /\ BaseMass(f[s]) = BaseMass(j)
         /\ f[s].mass = i.mass + BaseMass(j) - BaseMass(i) - n
    <2>1. i.res \in Int /\ i.mass \in Int /\ BaseMass(i) \in Int
      BY <1>1, CraftFields, HullNumbers
    <2> QED BY <1>2, <1>3, <1>5, <1>11, <1>13, <2>1 DEF SameShape, SameHull
  <1>15. Alike(ship, f)
    BY <1>5, <1>6, <1>7, <1>11, <1>2 DEF Alike, SameBerths
  <1>16. CASE ~Berthed(ship, s)
    <2>1. g = f
      BY <1>4, <1>16
    <2> QED BY <1>2, <1>3, <1>12, <1>14, <1>15, <1>16, <2>1 DEF n, CommittedAs
  <1>17. CASE Berthed(ship, s)
    <2>1. c \in Ship /\ c # s /\ Alive(ship, c)
      BY <1>1, <1>17, PartnerIsOther DEF Berthed, Docked
    <2>2. f[c] = ship[c] /\ Alive(f, c)
      BY <1>12, <2>1 DEF Alive
    <2>3. i.size \in Int /\ i.mass \in Int /\ k.size \in Int /\ f[s].mass \in Int
      BY <1>1, <1>2, <1>11, CraftFields DEF FleetSound, Whole
    <2>4. /\ Rebooked(f, u) /\ Changes(f, u, c)
          /\ u[c].hanger = IF f[c].hanger >= i.size THEN f[c].hanger - i.size ELSE 0
          /\ u[c].mass = IF f[c].mass - i.mass >= BaseMass(f[c]) THEN f[c].mass - i.mass
                         ELSE BaseMass(f[c])
      BY <1>11, <2>1, <2>2, <2>3, UnloadCraftBooks DEF u
    <2>5. /\ Alike(f, u) /\ FleetSound(u) /\ SameBerths(f, u) /\ Worth(u)[c] = Worth(f)[c]
          /\ BaseMass(u[c]) = BaseMass(f[c]) /\ LocalMass(u[c]) = LocalMass(f[c])
      BY <1>11, <2>1, <2>4, RebookedKeeps
    <2>6. g = LoadCraft(u, c, k.size, f[s].mass) /\ Alive(u, c)
      BY <1>4, <1>17, <2>1, <2>2, <2>5 DEF SameBerths
    <2>7. /\ Rebooked(u, g) /\ Changes(u, g, c)
          /\ g[c].hanger = u[c].hanger + k.size /\ g[c].mass = u[c].mass + f[s].mass
      BY <2>1, <2>3, <2>5, <2>6, LoadCraftBooks
    <2>8. /\ Alike(u, g) /\ Worth(g)[c] = Worth(u)[c]
          /\ BaseMass(g[c]) = BaseMass(u[c]) /\ LocalMass(g[c]) = LocalMass(u[c])
      BY <2>1, <2>5, <2>7, RebookedKeeps
    <2>9. Alike(ship, g)
      <3>1. SameBerths(ship, f)
        BY <1>1, <1>15, AlikeSound
      <3> QED BY <1>15, <2>5, <2>8, <3>1 DEF Alike, SameBerths
    <2>10. \A x \in Ship \ {c} : g[x] = f[x]
      BY <2>4, <2>7 DEF Changes
    <2>11. Worth(f)[c] = Worth(ship)[c]
      BY <2>1, <2>2, SMTT(20) DEF Worth, Alive
    <2>12. g[c].size = ship[c].size /\ g[c].bay = ship[c].bay
      BY <2>1, <2>2, <2>4, <2>7 DEF Rebooked, SameHull
    <2>13. g[c].hanger = (IF ship[c].hanger >= i.size THEN ship[c].hanger - i.size ELSE 0)
                         + CalculatedSize(j)
      BY <1>2, <2>2, <2>4, <2>7
    <2>14. g[s] = f[s]
      BY <2>1, <2>10
    <2>15. g[c].mass = (IF ship[c].mass - i.mass >= BaseMass(ship[c])
                        THEN ship[c].mass - i.mass ELSE BaseMass(ship[c])) + g[s].mass
      BY <2>2, <2>4, <2>7, <2>14
    <2>16. /\ Worth(g)[c] = Worth(ship)[c] /\ LocalMass(g[c]) = LocalMass(ship[c])
           /\ BaseMass(g[c]) = BaseMass(ship[c])
      BY <2>2, <2>5, <2>8, <2>11
    <2>17. \A x \in Ship : x # s /\ x # c => g[x] = ship[x]
      BY <1>12, <2>10
    <2> QED BY <1>2, <1>3, <1>14, <1>17, <2>1, <2>9, <2>12, <2>13, <2>14, <2>15,
               <2>16, <2>17
         DEF n, CommittedAs
  <1> QED BY <1>16, <1>17

(* An upgraded ship's carrier is told; the carriers around that one are    *)
(* written off.                                                            *)
LEMMA UpgradeMasses ==
  ASSUME FleetInv, NEW s \in Ship, Alive(ship, s), ship[s].type # "factory",
         NEW j, NEW g, CommittedAs(s, j, g), NEW M, M = loose \cup Beyond(s)
  PROVE  Masses(g, M)
  <1> DEFINE i == ship[s]
             c == i.dest
             n == NetCost(i, j)
             m == BaseMass(j) - BaseMass(i) - n
  <1>1. FleetSound(ship) /\ Masses(ship, loose) /\ ship \in [Ship -> Craft] /\ loose \subseteq M
    BY DEF FleetInv, FleetSound
  <1>2. /\ Alike(ship, g) /\ n \in Nat /\ BaseMass(j) \in Nat
        /\ \A x \in Ship : x # s /\ ~(Berthed(ship, s) /\ x = c) => g[x] = ship[x]
        /\ g[s].type = i.type /\ g[s].res = i.res - n /\ BaseMass(g[s]) = BaseMass(j)
        /\ g[s].mass = i.mass + BaseMass(j) - BaseMass(i) - n
        /\ Berthed(ship, s) =>
              /\ c \in Ship /\ c # s
              /\ LocalMass(g[c]) = LocalMass(ship[c])
              /\ g[c].mass = (IF ship[c].mass - i.mass >= BaseMass(ship[c])
                              THEN ship[c].mass - i.mass ELSE BaseMass(ship[c]))
                             + g[s].mass
    BY DEF CommittedAs
  <1> HIDE DEF n
  <1>3. FleetSound(g) /\ SameBerths(ship, g) /\ g \in [Ship -> Craft]
    BY <1>1, <1>2, AlikeSound DEF Alike
  <1>4. m \in Int /\ i.mass \in Int /\ g[s].mass = i.mass + m /\ Own(g[s]) = Own(i) + m
        /\ LocalMass(g[s]) = LocalMass(i) + m
    <2>1. Alive(g, s)
      BY <1>3 DEF SameBerths
    <2>2. /\ i.mass \in Int /\ i.res \in Int /\ BaseMass(i) \in Int
          /\ LocalMass(i) = BaseMass(i) + i.res /\ Own(i) = LocalMass(i)
      BY <1>1, MassNumbers
    <2>3. LocalMass(g[s]) = BaseMass(g[s]) + g[s].res /\ Own(g[s]) = LocalMass(g[s])
      BY <1>2, <1>3, <2>1, MassNumbers
    <2> QED BY <1>2, <2>2, <2>3
  <1> HIDE DEF m
  <1>5. \A x \in Ship : InCarrier(g, x) = InCarrier(ship, x) /\ Ancestors(g, x) = Ancestors(ship, x)
    BY <1>3, BerthsFollow
  <1>6. Docks(ship)
    BY <1>1 DEF FleetSound
  <1>7. ASSUME Berthed(ship, s) PROVE c \in Ship /\ Alive(ship, c) /\ ship[c].type # "factory"
    BY <1>1, <1>7 DEF FleetSound, Docks
  <1>8. ASSUME NEW x \in Ship, Alive(ship, x), x = s PROVE Upheld(ship, loose, g, M, x)
    <2>1. ASSUME NEW y \in InCarrier(ship, s) PROVE g[y].mass = ship[y].mass
      <3>1. y \in Ship /\ Berthed(ship, y) /\ ship[y].dest = s
        BY <2>1 DEF InCarrier
      <3>2. s \in Ancestors(ship, y) /\ y \notin Ancestors(ship, s) /\ y # s
        BY <1>1, <1>6, <3>1, Around1, AncestorsLive
      <3>3. ~(Berthed(ship, s) /\ y = c)
        BY <1>6, <3>2, Around1
      <3> QED BY <1>2, <3>1, <3>2, <3>3
    <2>2. MassInside(g, s) = MassInside(ship, s) /\ MassInside(ship, s) \in Int
      BY <1>1, <1>3, <1>5, <2>1, MassInsideSame, MassInsideIs
    <2>3. Own(i) \in Int /\ LocalMass(i) \in Int
      BY <1>1, MassNumbers
    <2>4. Exact(ship, s) => Exact(g, s)
      BY <1>4, <2>2, <2>3 DEF Exact
    <2>5. Heavy(ship, s) => Heavy(g, s)
      BY <1>4, <2>2, <2>3 DEF Heavy
    <2>6. Written(ship, loose, s) => Written(g, M, s)
      BY <1>1, <1>5 DEF Written
    <2>7. s \notin M => s \notin loose
      BY <1>1
    <2> QED BY <1>8, <2>4, <2>5, <2>6, <2>7 DEF Upheld
  <1>9. ASSUME NEW x \in Ship, Alive(ship, x), Berthed(ship, s), x = c PROVE Upheld(ship, loose, g, M, x)
    <2>1. Written(ship, loose, c) => Written(g, M, c)
      BY <1>1, <1>5, <1>7, <1>9 DEF Written
    <2>2. CASE Written(ship, loose, c)
      <3>1. x \notin M => x \notin loose /\ FALSE
        BY <1>1, <1>9, <2>2 DEF Written
      <3> QED BY <1>9, <2>1, <2>2, <3>1 DEF Upheld
    <2>3. CASE ~Written(ship, loose, c)
      <3>1. /\ s \in InCarrier(ship, c) /\ ship[c].mass - i.mass >= BaseMass(ship[c]) + ship[c].res
        BY <1>1, <1>9, <2>3, RestIsHeavy
      <3>2. /\ ship[c].mass \in Int /\ ship[c].res \in Nat /\ BaseMass(ship[c]) \in Nat
            /\ MassInside(ship, c) \in Int /\ LocalMass(ship[c]) \in Int /\ Own(ship[c]) = LocalMass(ship[c])
        BY <1>1, <1>7, <1>9, MassNumbers
      <3>3. g[c].mass = ship[c].mass + m
        BY <1>2, <1>4, <1>9, <3>1, <3>2
      <3>4. MassInside(g, c) = MassInside(ship, c) - i.mass + g[s].mass
        <4>1. \A y \in InCarrier(ship, c) \ {s} : g[y].mass = ship[y].mass
          <5> SUFFICES ASSUME NEW y \in InCarrier(ship, c) \ {s} PROVE g[y].mass = ship[y].mass
            OBVIOUS
          <5>1. y \in Ship /\ Berthed(ship, y) /\ ship[y].dest = c
            BY DEF InCarrier
          <5>2. y # c
            BY <1>1, <5>1, PartnerIsOther DEF Docked, Berthed
          <5> QED BY <1>2, <5>1, <5>2
        <4> QED BY <1>1, <1>3, <1>5, <1>9, <3>1, <4>1, MassInsideChanged
      <3>5. MassInside(g, c) = MassInside(ship, c) + m
        BY <1>4, <3>2, <3>4
      <3>6. Own(g[c]) = LocalMass(g[c]) /\ LocalMass(g[c]) = LocalMass(ship[c])
        <4>1. Alive(g, c) /\ g[c].type # "factory"
          BY <1>2, <1>3, <1>7, <1>9 DEF Alike, SameBerths
        <4> QED BY <1>2, <1>3, <1>7, <1>9, <4>1, MassNumbers
      <3>7. Exact(ship, c) => Exact(g, c)
        BY <1>4, <3>2, <3>3, <3>5, <3>6 DEF Exact
      <3>8. Heavy(g, c)
        <4>1. Heavy(ship, c)
          BY <1>1, <1>9, <2>3, RestIsHeavy
        <4>2. g[c].mass >= Own(g[c]) + MassInside(g, c)
          BY <1>4, <3>2, <3>3, <3>5, <3>6, <4>1 DEF Heavy
        <4>3. g[c].mass >= Own(g[c])
          <5>1. g[s].mass >= 0
            <6>1. Heavy(ship, s)
              BY <1>1, <1>9, <2>3, RestIsHeavy
            <6>2. Alive(g, s) /\ Own(g[s]) \in Nat /\ Own(i) \in Int
              BY <1>1, <1>3, MassNumbers DEF SameBerths
            <6> QED BY <1>4, <6>1, <6>2 DEF Heavy
          <5> QED BY <1>4, <3>1, <3>2, <3>3, <3>6, <5>1 DEF LocalMass
        <4> QED BY <4>2, <4>3 DEF Heavy
      <3>9. c \notin M => c \notin loose
        BY <1>1
      <3> QED BY <1>9, <2>1, <3>7, <3>8, <3>9 DEF Upheld
    <2> QED BY <2>2, <2>3
  <1>10. ASSUME NEW x \in Ship, Alive(ship, x), x # s, ~(Berthed(ship, s) /\ x = c)
         PROVE  Upheld(ship, loose, g, M, x)
    <2>1. g[x] = ship[x]
      BY <1>2, <1>10
    <2>2. CASE Berthed(ship, s) /\ c \in InCarrier(ship, x)
      <3>1. c \in Ship /\ Berthed(ship, c) /\ ship[c].dest = x
        BY <2>2 DEF InCarrier
      <3>2. Ancestors(ship, c) = {x} \cup Ancestors(ship, x) /\ Beyond(s) = Ancestors(ship, c)
        BY <1>6, <2>2, <3>1, Around1 DEF Beyond
      <3>3. Written(g, M, x) /\ x \in M
        BY <1>5, <3>2 DEF Written
      <3> QED BY <1>10, <3>3 DEF Upheld
    <2>3. CASE ~(Berthed(ship, s) /\ c \in InCarrier(ship, x))
      <3>1. s \notin InCarrier(ship, x)
        BY <1>10 DEF InCarrier
      <3>2. \A y \in InCarrier(ship, x) : g[y].mass = ship[y].mass
        BY <1>2, <2>3, <3>1 DEF InCarrier
      <3> QED BY <1>1, <1>3, <1>5, <1>10, <2>1, <3>2, Unmoved
    <2> QED BY <2>2, <2>3
  <1>11. \A x \in Ship : Alive(g, x) => Upheld(ship, loose, g, M, x)
    <2> SUFFICES ASSUME NEW x \in Ship, Alive(g, x) PROVE Upheld(ship, loose, g, M, x)
      OBVIOUS
    <2>1. Alive(ship, x)
      BY <1>3 DEF SameBerths
    <2> QED BY <1>8, <1>9, <1>10, <2>1
  <1> QED BY <1>1, <1>11, MassesFollow, Zenon

LEMMA UpgradeKeeps ==
  ASSUME FleetInv, NEW s \in Ship, NEW a \in {"hold", "bay"}, NEW v \in Setting, Upgrade(s, a, v)
  PROVE  Steady
  <1> DEFINE i == ship[s]
             j == Candidate(i, a, v)
             c == i.dest
             n == NetCost(i, j)
             g == Committed(s, i, j)
  <1>1. /\ FleetSound(ship) /\ Hangars(ship, grown) /\ stockpile \in Nat /\ toxic \in Nat
        /\ loose \subseteq Ship /\ v \in Nat /\ ship \in [Ship -> Craft]
    BY FleetNumbers DEF FleetInv, FleetSound
  <1>2. /\ Alive(ship, s) /\ Upgradable(i, a) /\ HangarAllows(s, j) /\ Cost(j) >= i.cost
        /\ n <= i.res /\ Ordered(g) /\ loose' = loose \cup Beyond(s)
        /\ stockpile' = stockpile /\ toxic' = toxic /\ grown' = grown
    BY DEF Upgrade, Loosened
  <1>3. i.type # "factory"
    BY <1>2 DEF Upgradable
  <1>4. loose' \subseteq Ship
    BY <1>1, <1>2 DEF Beyond, Ancestors
  <1>5. HangarAllows(s, j) /\ Ordered(g)
    BY <1>2
  <1> HIDE DEF j, g
  <1>6. CommittedAs(s, j, g)
    BY <1>1, <1>2, UpgradeCommits DEF j, g
  <1>7. /\ Alike(ship, g) /\ n \in Nat /\ n >= 1 /\ n >= 2 * (Cost(j) - i.cost)
        /\ Cost(j) \in Nat
        /\ \A x \in Ship : x # s /\ ~(Berthed(ship, s) /\ x = c) => g[x] = ship[x]
        /\ g[s].size = CalculatedSize(j) /\ g[s].hanger = i.hanger /\ g[s].bay >= i.bay
        /\ g[s].type = i.type /\ g[s].on = i.on /\ g[s].cost = Cost(j) /\ g[s].res = i.res - n
        /\ Berthed(ship, s) =>
              /\ c \in Ship /\ c # s /\ g[c].size = ship[c].size /\ g[c].bay = ship[c].bay
              /\ Worth(g)[c] = Worth(ship)[c]
              /\ g[c].hanger = (IF ship[c].hanger >= i.size THEN ship[c].hanger - i.size ELSE 0)
                               + CalculatedSize(j)
    BY <1>6 DEF CommittedAs
  <1> HIDE DEF n
  <1>8. FleetSound(g) /\ SameBerths(ship, g)
    BY <1>1, <1>7, AlikeSound
  <1>9. Hangars(g, grown)
    <2>1. \A x \in Ship \ {s} : g[x].size = ship[x].size
      BY <1>7
    <2>2. ASSUME NEW x \in Ship, Alive(ship, x), grown[x] # "now"
          PROVE  /\ grown[x] = grown[x]
                 /\ s \in InCarrier(ship, x) =>
                      /\ g[x].hanger = ship[x].hanger - ship[s].size + g[s].size
                      /\ grown[x] = "never" => g[x].hanger <= g[x].bay
                 /\ s \notin InCarrier(ship, x) =>
                      /\ g[x].hanger = ship[x].hanger
                      /\ ship[x].type = "factory" \/ g[x].bay >= ship[x].bay
      <3>1. CASE s \in InCarrier(ship, x)
        <4>1. Berthed(ship, s) /\ x = c
          BY <3>1 DEF InCarrier
        <4>2. ship[x].hanger = SizeInside(ship, x) /\ i.size <= SizeInside(ship, x)
          BY <1>1, <2>2, <3>1, SizeInsideCovers DEF Hangars
        <4>3. ship[x].hanger \in Int /\ i.size \in Int /\ g[s].size \in Int /\ SizeInside(ship, x) \in Int
          BY <1>1, <1>8, SizeInsideCovers, CraftFields DEF FleetSound
        <4>4. g[x].hanger = ship[x].hanger - ship[s].size + g[s].size
          BY <1>7, <4>1, <4>2, <4>3
        <4>5. g[s].size <= ship[x].bay - (ship[x].hanger - i.size)
          BY <1>5, <1>7, <4>1 DEF HangarAllows
        <4>6. ship[x].bay \in Int /\ g[x].bay = ship[x].bay
          BY <1>1, <1>7, <4>1, CraftFields
        <4>7. g[x].hanger <= g[x].bay
          BY <4>3, <4>4, <4>5, <4>6
        <4> QED BY <3>1, <4>4, <4>7
      <3>2. CASE s \notin InCarrier(ship, x)
        <4>1. ~(Berthed(ship, s) /\ x = c)
          BY <3>2 DEF InCarrier
        <4>2. ship[x].bay \in Int
          BY <1>1, CraftFields
        <4>3. g[x].hanger = ship[x].hanger /\ g[x].bay >= ship[x].bay
          BY <1>7, <4>1, <4>2
        <4> QED BY <3>2, <4>3
      <3> QED BY <3>1, <3>2
    <2>3. \A x \in Ship : Alive(ship, x) /\ grown[x] # "now" =>
                 /\ grown[x] = grown[x]
                 /\ s \in InCarrier(ship, x) =>
                      /\ g[x].hanger = ship[x].hanger - ship[s].size + g[s].size
                      /\ grown[x] = "never" => g[x].hanger <= g[x].bay
                 /\ s \notin InCarrier(ship, x) =>
                      /\ g[x].hanger = ship[x].hanger
                      /\ ship[x].type = "factory" \/ g[x].bay >= ship[x].bay
      BY <2>2
    <2> QED BY <1>1, <1>8, <2>1, <2>3, HangarsResized
  <1>10. stockpile' + Worth(g)[s] <= stockpile + Worth(ship)[s]
    <2>1. i.res \in Nat /\ i.cost \in Nat
      BY <1>1, CraftFields
    <2>2. ScrapValue(g[s]) = Cost(j) \div 2 + (i.res - n) /\ ScrapValue(i) = i.cost \div 2 + i.res
      BY <1>3, <1>7 DEF ScrapValue, EffectiveCost
    <2>3. Cost(j) \div 2 <= i.cost \div 2 + (Cost(j) - i.cost) /\ Cost(j) \div 2 \in Int
          /\ i.cost \div 2 \in Int
      BY <1>2, <1>7, <2>1
    <2>4. ScrapValue(g[s]) <= ScrapValue(i)
      <3> DEFINE p == Cost(j) \div 2
                 q == i.cost \div 2
      <3>1. p \in Int /\ q \in Int /\ p <= q + (Cost(j) - i.cost)
        BY <2>3
      <3>2. ScrapValue(g[s]) = p + (i.res - n) /\ ScrapValue(i) = q + i.res
        BY <2>2
      <3> HIDE DEF p, q
      <3>3. n >= Cost(j) - i.cost
        BY <1>2, <1>7, <2>1
      <3> QED BY <1>7, <2>1, <3>1, <3>2, <3>3
    <2>5. Alive(g, s)
      BY <1>2, <1>8 DEF SameBerths
    <2>6. Worth(g)[s] = ScrapValue(g[s]) /\ Worth(ship)[s] = ScrapValue(i)
      BY <1>2, <2>5 DEF Worth
    <2>7. Worth(g)[s] \in Int /\ Worth(ship)[s] \in Int
      BY <1>1, <1>8, WorthIs
    <2> QED BY <1>1, <1>2, <2>4, <2>6, <2>7
  <1>11. \A x \in Ship \ {s} : Worth(g)[x] <= Worth(ship)[x]
    <2>1. \A x \in Ship \ {s} : Worth(g)[x] = Worth(ship)[x]
      BY <1>7 DEF Worth, Alive
    <2> QED BY <1>1, <2>1, WorthIs
  <1>12. Wealth(g, stockpile') <= Wealth(ship, stockpile)
    BY <1>1, <1>2, <1>8, <1>10, <1>11, NoRicherByOne
  <1>13. Masses(g, loose')
    BY <1>2, <1>3, <1>6, UpgradeMasses, Zenon
  <1> QED BY <1>1, <1>2, <1>4, <1>5, <1>8, <1>9, <1>12, <1>13, OrderedKeeps

-----------------------------------------------------------------------------
(* Factories at work *)

\* The factory i at work, of size z
Working(i, z) == [i EXCEPT !.on = TRUE, !.size = z]

LEMMA WorkingRecord ==
  ASSUME NEW i, Whole(i), i.type = "factory", ~i.on, NEW z \in Nat
  PROVE  LET y == Working(i, z)
         IN  /\ Whole(y) /\ y.type = i.type /\ y.dock = i.dock /\ y.dest = i.dest /\ y.size = z
             /\ y.hanger = i.hanger /\ y.bay = i.bay /\ y.mass = i.mass
             /\ LocalMass(y) = LocalMass(i) /\ BaseMass(y) = BaseMass(i) /\ Own(y) = Own(i)
             /\ ScrapValue(y) = ScrapValue(i) + i.cost
  <1> DEFINE y == Working(i, z)
  <1>1. i \in Craft /\ i.cost \in Nat /\ i.res \in Nat
    BY CraftFields DEF Whole
  <1>2. /\ y \in Craft /\ y.type = i.type /\ y.make = i.make /\ y.dock = i.dock /\ y.dest = i.dest
        /\ y.hold = i.hold /\ y.bay = i.bay /\ y.size = z /\ y.cost = i.cost /\ y.on = TRUE
        /\ y.res = i.res /\ y.hanger = i.hanger /\ y.mass = i.mass
    BY <1>1 DEF Craft, Working
  <1> HIDE DEF y
  <1>3. Cost(y) = Cost(i) /\ LocalMass(y) = LocalMass(i) /\ BaseMass(y) = BaseMass(i)
    BY <1>2 DEF Cost, BuildType, LocalMass, BaseMass
  <1>a. Own(y) = Own(i)
    BY <1>2, <1>3 DEF Own
  <1>4. Whole(y)
    BY <1>2, <1>3 DEF Whole
  <1>5. ScrapValue(y) = ScrapValue(i) + i.cost
    <2> DEFINE h == Template["factory"].hull
    <2>1. h \in Nat
      BY FleetNumbers
    <2>2. ScrapValue(y) = (2 * i.cost + h) \div 2 + i.res /\ ScrapValue(i) = (0 + h) \div 2 + i.res
      BY <1>2 DEF ScrapValue, EffectiveCost
    <2> HIDE DEF h
    <2> QED BY <1>1, <2>1, <2>2
  <1> QED BY <1>2, <1>3, <1>a, <1>4, <1>5 DEF y

\* The ship i with this hangar in use and cargo
Provided(i, h, r) == [i EXCEPT !.hanger = h, !.res = r]

LEMMA ProvidedRecord ==
  ASSUME NEW i, Whole(i), NEW h \in Int, NEW r \in Nat
  PROVE  LET y == Provided(i, h, r)
         IN  /\ Whole(y) /\ y.type = i.type /\ y.dock = i.dock /\ y.dest = i.dest /\ y.size = i.size
             /\ y.hanger = h /\ y.bay = i.bay /\ y.mass = i.mass /\ BaseMass(y) = BaseMass(i)
             /\ r <= i.res => Own(y) <= Own(i)
             /\ ScrapValue(y) = ScrapValue(i) - i.res + r
  <1> DEFINE y == Provided(i, h, r)
  <1>1. i \in Craft /\ i.res \in Nat
    BY CraftFields DEF Whole
  <1>2. /\ y \in Craft /\ SameHull(i, y) /\ y.dock = i.dock /\ y.dest = i.dest /\ y.size = i.size
        /\ y.res = r /\ y.hanger = h /\ y.mass = i.mass
    BY <1>1 DEF Craft, SameHull, Provided
  <1> HIDE DEF y
  <1>3. Whole(y) /\ BaseMass(y) = BaseMass(i) /\ EffectiveCost(y) = EffectiveCost(i)
    BY <1>2, HullKept
  <1>a. ASSUME r <= i.res PROVE Own(y) <= Own(i)
    <2>1. BaseMass(i) \in Nat
      BY HullNumbers
    <2>2. CASE i.type = "factory"
      BY <1>1, <1>2, <1>a, <2>2 DEF Own, SameHull
    <2>3. CASE i.type # "factory"
      BY <1>1, <1>2, <1>3, <1>a, <2>1, <2>3 DEF Own, SameHull
    <2> QED BY <2>2, <2>3
  <1>4. ScrapValue(y) = ScrapValue(i) - i.res + r
    <2>1. EffectiveCost(i) \div 2 \in Int
      BY HullNumbers
    <2> QED BY <1>1, <1>2, <1>3, <2>1 DEF ScrapValue
  <1> QED BY <1>2, <1>3, <1>a, <1>4 DEF y, SameHull

LEMMA ActivateOnPlanetKeeps ==
  ASSUME FleetInv, NEW s \in Ship, ship[s].type = "factory", ~ship[s].on,
         ActivateOnPlanet(s, ship[s]), toxic' = toxic
  PROVE  Steady
  <1> DEFINE i == ship[s]
             y == Working(i, i.size)
             g == [ship EXCEPT ![s].on = TRUE]
  <1>1. /\ FleetSound(ship) /\ Hangars(ship, grown) /\ stockpile \in Nat /\ toxic \in Nat
        /\ loose \subseteq Ship /\ ship \in [Ship -> Craft] /\ i \in Craft
        /\ Masses(ship, loose)
    BY DEF FleetInv, FleetSound
  <1>2. /\ Alive(ship, s) /\ 2 * i.cost <= stockpile /\ stockpile' = stockpile - 2 * i.cost
        /\ Ordered(g) /\ loose' = loose /\ grown' = grown
    BY DEF ActivateOnPlanet, Quiet, Landed, Alive
  <1>3. Whole(i) /\ i.cost \in Nat /\ i.size \in Nat
    BY <1>1, <1>2, CraftFields DEF FleetSound
  <1>4. g = [ship EXCEPT ![s] = y]
    <2>1. y = [i EXCEPT !.on = TRUE]
      BY <1>1 DEF Working, Craft
    <2>2. g = [ship EXCEPT ![s] = [i EXCEPT !.on = TRUE]]
      BY <1>1, Zenon
    <2> QED BY <2>1, <2>2, Zenon
  <1>5. /\ Whole(y) /\ y.type = i.type /\ y.dock = i.dock /\ y.dest = i.dest /\ y.size = i.size
        /\ y.hanger = i.hanger /\ y.bay = i.bay /\ ScrapValue(y) = ScrapValue(i) + i.cost
        /\ y.mass = i.mass /\ LocalMass(y) = LocalMass(i) /\ Own(y) = Own(i)
    BY <1>3, WorkingRecord
  <1>6. Changes(ship, g, s) /\ g[s] = y
    <2> HIDE DEF y
    <2>1. Changes(ship, [ship EXCEPT ![s] = y], s) /\ [ship EXCEPT ![s] = y][s] = y
      BY <1>1, <1>5, PutChanges DEF Whole
    <2> QED BY <1>4, <2>1, Zenon
  <1>7. Ordered(g)
    BY <1>2
  <1> HIDE DEF g, y
  <1>8. Alike(ship, g)
    BY <1>1, <1>2, <1>5, <1>6, OneAlike
  <1>9. FleetSound(g) /\ SameBerths(ship, g)
    BY <1>1, <1>8, AlikeSound
  <1>10. Hangars(g, grown)
    <2>1. \A x \in Ship : ship[x].bay \in Nat
      BY <1>1, CraftFields
    <2>2. \A x \in Ship : Alive(ship, x) =>
           /\ g[x].size = ship[x].size /\ g[x].hanger = ship[x].hanger
           /\ ship[x].type = "factory" \/ g[x].bay >= ship[x].bay
      BY <1>5, <1>6, <2>1 DEF Changes
    <2> QED BY <1>1, <1>9, <2>2, HangarsFollow
  <1>11. stockpile' \in Nat /\ stockpile' + Worth(g)[s] <= stockpile + Worth(ship)[s]
    <2>1. Worth(g)[s] = ScrapValue(y) /\ Worth(ship)[s] = ScrapValue(i) /\ Worth(ship)[s] \in Int
      BY <1>1, <1>2, <1>6, <1>9, WorthIs DEF Worth, SameBerths
    <2> QED BY <1>1, <1>2, <1>3, <1>5, <2>1
  <1>12. \A x \in Ship \ {s} : Worth(g)[x] <= Worth(ship)[x]
    <2>1. \A x \in Ship \ {s} : Worth(g)[x] = Worth(ship)[x]
      BY <1>6 DEF Worth, Alive, Changes
    <2> QED BY <1>1, <2>1, WorthIs
  <1>13. Wealth(g, stockpile') <= Wealth(ship, stockpile)
    BY <1>1, <1>9, <1>11, <1>12, NoRicherByOne
  <1>14. Masses(g, loose')
    <2>1. ASSUME NEW x \in Ship, Alive(ship, x)
          PROVE  /\ g[x].mass = ship[x].mass /\ Own(g[x]) <= Own(ship[x])
                 /\ x \in loose' \/ LocalMass(g[x]) = LocalMass(ship[x])
      <3>1. Own(ship[x]) \in Nat
        BY <1>1, <2>1, MassNumbers
      <3>2. CASE x = s
        BY <1>5, <1>6, <3>1, <3>2
      <3>3. CASE x # s
        BY <1>6, <3>1, <3>3 DEF Changes
      <3> QED BY <3>2, <3>3
    <2>2. \A x \in Ship : Alive(ship, x) =>
            /\ g[x].mass = ship[x].mass /\ Own(g[x]) <= Own(ship[x])
            /\ x \in loose' \/ LocalMass(g[x]) = LocalMass(ship[x])
      BY <2>1
    <2> QED BY <1>1, <1>2, <1>9, <2>2, MassesRest
  <1> QED BY <1>1, <1>2, <1>7, <1>9, <1>10, <1>11, <1>13, <1>14, OrderedKeeps

\* What folding a factory in a habitat leaves in g.
FoldedAs(s, g) ==
  LET i == ship[s]
      h == i.dest
  IN  /\ h \in Ship /\ h # s /\ Alive(ship, s) /\ Alive(ship, h) /\ Alike(ship, g)
      /\ HabSize(i) \in Nat /\ i.cost \in Nat /\ 4 * i.cost <= ship[h].res
      /\ \A x \in Ship \ {s, h} : g[x] = ship[x]
      /\ g[s] = Working(i, HabSize(i))
      /\ g[h] = Provided(ship[h], ship[h].hanger - i.size + HabSize(i), ship[h].res - 4 * i.cost)

\* In g, a is y and b is v; the others are as in f.
TwoPut(f, g, a, b, y, v) ==
  /\ g \in [Ship -> Craft] /\ g[a] = y /\ g[b] = v
  /\ \A x \in Ship \ {a, b} : g[x] = f[x]

LEMMA PutTwo ==
  ASSUME NEW f \in [Ship -> Craft], NEW a \in Ship, NEW b \in Ship, b # a,
         NEW y \in Craft, NEW v \in Craft
  PROVE  TwoPut(f, [[f EXCEPT ![a] = y] EXCEPT ![b] = v], a, b, y, v)
  BY DEF TwoPut

LEMMA HabitatFolds ==
  ASSUME FleetInv, NEW s \in Ship, ship[s].type = "factory", ~ship[s].on, Berthed(ship, s),
         4 * ship[s].cost <= ship[ship[s].dest].res,
         NEW g, g = [ship EXCEPT ![s].on = TRUE, ![s].size = HabSize(ship[s]),
                                 ![ship[s].dest].hanger = @ - ship[s].size + HabSize(ship[s]),
                                 ![ship[s].dest].res = @ - 4 * ship[s].cost]
  PROVE  FoldedAs(s, g)
  <1> DEFINE i == ship[s]
             h == i.dest
             z == HabSize(i)
             y == Working(i, z)
             u == ship[h].hanger - i.size + z
             r == ship[h].res - 4 * i.cost
             v == Provided(ship[h], u, r)
  <1>1. FleetSound(ship) /\ ship \in [Ship -> Craft]
    BY DEF FleetInv, FleetSound
  <1>2. h \in Ship /\ h # s /\ Alive(ship, h) /\ Alive(ship, s)
    BY <1>1, PartnerIsOther DEF Berthed, Docked
  <1>3. Whole(i) /\ Whole(ship[h]) /\ i \in Craft /\ ship[h] \in Craft
    BY <1>1, <1>2 DEF FleetSound
  <1>4. z \in Nat
    BY <1>3, HullNumbers DEF HabSize
  <1>5. u \in Int /\ r \in Nat /\ i.cost \in Nat
    BY <1>3, <1>4, CraftFields
  <1>6. g = [[ship EXCEPT ![s] = y] EXCEPT ![h] = v]
    <2>1. g = [ship EXCEPT ![s].on = TRUE, ![s].size = z, ![h].hanger = u, ![h].res = r]
      BY Zenon
    <2> HIDE DEF z, h, u, r
    <2>2. g = [[ship EXCEPT ![s].on = TRUE, ![s].size = z] EXCEPT ![h].hanger = u, ![h].res = r]
      BY <2>1, Zenon
    <2> DEFINE f == [ship EXCEPT ![s] = y]
    <2>3. [ship EXCEPT ![s].on = TRUE, ![s].size = z] = f
      BY <1>1, Zenon DEF Working
    <2>4. f \in [Ship -> Craft] /\ f[h] = ship[h]
      <3>1. y \in Craft
        BY <1>3, <1>4, WorkingRecord DEF Whole
      <3> HIDE DEF y
      <3> QED BY <1>1, <1>2, <3>1
    <2> HIDE DEF f
    <2>5. g = [f EXCEPT ![h].hanger = u, ![h].res = r]
      BY <2>2, <2>3, Zenon
    <2>6. [f EXCEPT ![h].hanger = u, ![h].res = r] = [f EXCEPT ![h] = [f[h] EXCEPT !.hanger = u, !.res = r]]
      BY <2>4, Zenon
    <2>7. [f[h] EXCEPT !.hanger = u, !.res = r] = v
      BY <2>4, Zenon DEF Provided
    <2> QED BY <2>5, <2>6, <2>7, Zenon DEF f
  <1>7. Whole(y) /\ y.type = i.type /\ y.dock = i.dock /\ y.dest = i.dest
    BY <1>3, <1>4, WorkingRecord
  <1> HIDE DEF u, r
  <1>8. Whole(v) /\ v.type = ship[h].type /\ v.dock = ship[h].dock /\ v.dest = ship[h].dest
    BY <1>3, <1>5, ProvidedRecord
  <1> HIDE DEF y, v, z, h, i
  <1>9. /\ g \in [Ship -> Craft] /\ g[s] = y /\ g[h] = v
        /\ \A x \in Ship \ {s, h} : g[x] = ship[x]
    <2>1. y \in Craft /\ v \in Craft
      BY <1>7, <1>8 DEF Whole
    <2>2. TwoPut(ship, [[ship EXCEPT ![s] = y] EXCEPT ![h] = v], s, h, y, v)
      BY <1>1, <1>2, <2>1, PutTwo, Zenon
    <2>3. TwoPut(ship, g, s, h, y, v)
      BY <1>6, <2>2, Zenon
    <2> QED BY <2>3, Zenon DEF TwoPut
  <1>10. Alike(ship, g)
    BY <1>1, <1>2, <1>7, <1>8, <1>9, Zenon DEF Alike, FleetSound, i
  <1>11. 4 * i.cost <= ship[h].res
    BY DEF i, h
  <1> QED BY <1>2, <1>4, <1>5, <1>9, <1>10, <1>11, Zenon DEF FoldedAs, y, v, u, r, z,
                                        h, i

LEMMA ActivateInHabitatKeeps ==
  ASSUME FleetInv, NEW s \in Ship, ship[s].type = "factory", ~ship[s].on,
         ActivateInHabitat(s, ship[s], ship[s].dest), toxic' = toxic
  PROVE  Steady
  <1> DEFINE i == ship[s]
             h == i.dest
             z == HabSize(i)
             y == Working(i, z)
             u == ship[h].hanger - i.size + z
             r == ship[h].res - 4 * i.cost
             v == Provided(ship[h], u, r)
             g == [ship EXCEPT ![s].on = TRUE, ![s].size = HabSize(i),
                               ![h].hanger = @ - i.size + HabSize(i),
                               ![h].res = @ - 4 * i.cost]
  <1>1. /\ FleetSound(ship) /\ Hangars(ship, grown) /\ stockpile \in Nat /\ toxic \in Nat
        /\ loose \subseteq Ship /\ ship \in [Ship -> Craft] /\ Masses(ship, loose)
    BY DEF FleetInv, FleetSound
  <1>2. /\ Berthed(ship, s) /\ ship[h].type = "habitat" /\ 4 * i.cost <= ship[h].res
        /\ z <= ship[h].bay - ship[h].hanger + i.size
        /\ stockpile' = stockpile /\ loose' = loose \cup {h} /\ grown' = grown
    BY Zenon DEF ActivateInHabitat, Loosened
  <1>3. Ordered(g)
    BY Zenon DEF ActivateInHabitat
  <1>4. FoldedAs(s, g)
    BY <1>2, HabitatFolds, Zenon
  <1> HIDE DEF g
  <1>5. /\ h \in Ship /\ h # s /\ Alive(ship, s) /\ Alive(ship, h) /\ Alike(ship, g)
        /\ z \in Nat /\ i.cost \in Nat /\ 4 * i.cost <= ship[h].res
        /\ \A x \in Ship \ {s, h} : g[x] = ship[x]
        /\ g[s] = y /\ g[h] = v
    BY <1>4 DEF FoldedAs
  <1>6. Whole(i) /\ Whole(ship[h]) /\ i \in Craft /\ ship[h] \in Craft
    BY <1>1, <1>5 DEF FleetSound
  <1>7. u \in Int /\ r \in Nat
    BY <1>5, <1>6, CraftFields
  <1>8. /\ y.size = z /\ y.hanger = i.hanger /\ y.bay = i.bay /\ ScrapValue(y) = ScrapValue(i) + i.cost
        /\ y.mass = i.mass /\ LocalMass(y) = LocalMass(i) /\ Own(y) = Own(i)
    BY <1>5, <1>6, WorkingRecord
  <1>9. u = ship[h].hanger - i.size + z /\ r = ship[h].res - 4 * i.cost
    OBVIOUS
  <1> HIDE DEF u, r, y
  <1>10. /\ v.size = ship[h].size /\ v.hanger = u /\ v.bay = ship[h].bay
         /\ ScrapValue(v) = ScrapValue(ship[h]) - ship[h].res + r
         /\ v.mass = ship[h].mass /\ (r <= ship[h].res => Own(v) <= Own(ship[h]))
    BY <1>6, <1>7, ProvidedRecord
  <1> HIDE DEF v, z, h
  <1>11. FleetSound(g) /\ SameBerths(ship, g)
    BY <1>1, <1>5, AlikeSound
  <1>12. loose' \subseteq Ship
    BY <1>1, <1>2, <1>5
  <1>13. Hangars(g, grown)
    <2>1. \A x \in Ship \ {s} : g[x].size = ship[x].size
      BY <1>5, <1>10
    <2>2. ASSUME NEW x \in Ship, Alive(ship, x), grown[x] # "now"
          PROVE  /\ grown[x] = grown[x]
                 /\ s \in InCarrier(ship, x) =>
                      /\ g[x].hanger = ship[x].hanger - ship[s].size + g[s].size
                      /\ grown[x] = "never" => g[x].hanger <= g[x].bay
                 /\ s \notin InCarrier(ship, x) =>
                      /\ g[x].hanger = ship[x].hanger
                      /\ ship[x].type = "factory" \/ g[x].bay >= ship[x].bay
      <3>1. CASE s \in InCarrier(ship, x)
        <4>1. x = h
          BY <3>1 DEF InCarrier, h
        <4>2. g[x].hanger = ship[x].hanger - ship[s].size + g[s].size
          BY <1>5, <1>8, <1>9, <1>10, <4>1
        <4>3. ship[h].bay \in Int /\ ship[h].hanger \in Int /\ i.size \in Int
          BY <1>6, CraftFields
        <4>4. g[x].hanger <= g[x].bay
          BY <1>2, <1>5, <1>9, <1>10, <4>1, <4>3
        <4> QED BY <3>1, <4>2, <4>4
      <3>2. CASE s \notin InCarrier(ship, x)
        <4>1. x # h
          BY <1>2, <3>2 DEF InCarrier, h
        <4>2. ship[x].bay \in Int
          BY <1>1, CraftFields
        <4>3. g[x].hanger = ship[x].hanger /\ g[x].bay >= ship[x].bay
          BY <1>5, <1>8, <4>1, <4>2
        <4> QED BY <3>2, <4>3
      <3> QED BY <3>1, <3>2
    <2>3. \A x \in Ship : Alive(ship, x) /\ grown[x] # "now" =>
                 /\ grown[x] = grown[x]
                 /\ s \in InCarrier(ship, x) =>
                      /\ g[x].hanger = ship[x].hanger - ship[s].size + g[s].size
                      /\ grown[x] = "never" => g[x].hanger <= g[x].bay
                 /\ s \notin InCarrier(ship, x) =>
                      /\ g[x].hanger = ship[x].hanger
                      /\ ship[x].type = "factory" \/ g[x].bay >= ship[x].bay
      BY <2>2
    <2> QED BY <1>1, <1>11, <2>1, <2>3, HangarsResized
  <1>14. stockpile' + Worth(g)[s] + Worth(g)[h] <= stockpile + Worth(ship)[s] + Worth(ship)[h]
    <2>1. /\ Worth(g)[s] = ScrapValue(y) /\ Worth(ship)[s] = ScrapValue(i)
          /\ Worth(g)[h] = ScrapValue(v) /\ Worth(ship)[h] = ScrapValue(ship[h])
      BY <1>5, <1>11 DEF Worth, SameBerths
    <2>2. Worth(ship)[s] \in Int /\ Worth(ship)[h] \in Int /\ ship[h].res \in Int
      BY <1>1, <1>5, <1>6, WorthIs, CraftFields
    <2> QED BY <1>1, <1>2, <1>5, <1>7, <1>8, <1>9, <1>10, <2>1, <2>2
  <1>15. \A x \in Ship \ {s, h} : Worth(g)[x] <= Worth(ship)[x]
    <2>1. \A x \in Ship \ {s, h} : Worth(g)[x] = Worth(ship)[x]
      BY <1>5 DEF Worth, Alive
    <2> QED BY <1>1, <2>1, WorthIs
  <1>16. Wealth(g, stockpile') <= Wealth(ship, stockpile)
    <2>1. FleetSound(ship) /\ FleetSound(g) /\ stockpile \in Int /\ stockpile' \in Int
          /\ h \in Ship /\ s # h
      BY <1>1, <1>2, <1>5, <1>11
    <2> QED BY <1>14, <1>15, <2>1, NoRicherByTwo
  <1>17. Masses(g, loose')
    <2>1. ASSUME NEW x \in Ship, Alive(ship, x)
          PROVE  /\ g[x].mass = ship[x].mass /\ Own(g[x]) <= Own(ship[x])
                 /\ x \in loose' \/ LocalMass(g[x]) = LocalMass(ship[x])
      <3>1. Own(ship[x]) \in Nat
        BY <1>1, <2>1, MassNumbers
      <3>2. CASE x = s
        BY <1>5, <1>8, <3>1, <3>2
      <3>3. CASE x = h
        <4>a. ship[h].res \in Nat
          BY <1>6, CraftFields
        <4>1. r <= ship[h].res
          BY <1>5, <1>9, <4>a
        <4> QED BY <1>2, <1>5, <1>10, <3>3, <4>1
      <3>4. CASE x \notin {s, h}
        BY <1>5, <3>1, <3>4
      <3> QED BY <3>2, <3>3, <3>4
    <2>2. \A x \in Ship : Alive(ship, x) =>
            /\ g[x].mass = ship[x].mass /\ Own(g[x]) <= Own(ship[x])
            /\ x \in loose' \/ LocalMass(g[x]) = LocalMass(ship[x])
      BY <2>1
    <2>3. loose \subseteq loose'
      BY <1>2
    <2> QED BY <1>1, <1>11, <2>2, <2>3, MassesRest
  <1> QED BY <1>1, <1>2, <1>3, <1>11, <1>12, <1>13, <1>16, <1>17, OrderedKeeps

LEMMA ActivateKeeps ==
  ASSUME FleetInv, NEW s \in Ship, Activate(s)
  PROVE  Steady
  <1>1. /\ ship[s].type = "factory" /\ ~ship[s].on /\ toxic' = toxic
        /\ ActivateOnPlanet(s, ship[s]) \/ ActivateInHabitat(s, ship[s], ship[s].dest)
    BY DEF Activate
  <1> QED BY <1>1, ActivateOnPlanetKeeps, ActivateInHabitatKeeps

-----------------------------------------------------------------------------
(* Turns, ship by ship *)

LEMMA TurnKeeps ==
  ASSUME FleetInv, NEW s, NEW f, TurnStep(s, f), FleetSound(f), Hangars(f, grown'),
         Masses(f, loose'),
         grown' \in [Ship -> {"never", "once", "now"}],
         loose' \subseteq Ship, stockpile' \in Nat, toxic' \in Nat,
         Wealth(f, stockpile') <= Wealth(ship, stockpile)
  PROVE  Steady
  <1>1. ship' = f /\ waiting' = {x \in waiting \ {s} : Alive(f, x)}
    BY DEF TurnStep
  <1>2. waiting' \subseteq Fleet'
    BY <1>1 DEF Fleet, FleetInv, Alive
  <1>3. FleetSound(ship') /\ Hangars(ship', grown') /\ Masses(ship', loose')
    BY <1>1
  <1>4. FleetInv'
    BY <1>1, <1>2, <1>3 DEF FleetInv
  <1> QED BY <1>1, <1>4 DEF Steady

\* The ship i of this size
Sized(i, z) == [i EXCEPT !.size = z]

LEMMA SizedRecord ==
  ASSUME NEW i, Whole(i), NEW z \in Nat
  PROVE  LET y == Sized(i, z)
         IN  /\ Whole(y) /\ y.type = i.type /\ y.dock = i.dock /\ y.dest = i.dest /\ y.size = z
             /\ y.hanger = i.hanger /\ y.bay = i.bay /\ y.mass = i.mass /\ y.waste = i.waste
             /\ ScrapValue(y) = ScrapValue(i) /\ BaseMass(y) = BaseMass(i) /\ LocalMass(y) = LocalMass(i)
             /\ Own(y) = Own(i)
  <1> DEFINE y == Sized(i, z)
  <1>1. i \in Craft
    BY DEF Whole
  <1>2. /\ y \in Craft /\ SameHull(i, y) /\ y.dock = i.dock /\ y.dest = i.dest /\ y.size = z
        /\ y.res = i.res /\ y.hanger = i.hanger /\ y.mass = i.mass /\ y.waste = i.waste
    BY <1>1 DEF Craft, SameHull, Sized
  <1> HIDE DEF y
  <1>3. Whole(y) /\ BaseMass(y) = BaseMass(i) /\ EffectiveCost(y) = EffectiveCost(i)
    BY <1>2, HullKept
  <1>4. ScrapValue(y) = ScrapValue(i) /\ LocalMass(y) = LocalMass(i) /\ Own(y) = Own(i)
    BY <1>2, <1>3 DEF ScrapValue, LocalMass, Own, SameHull
  <1> QED BY <1>2, <1>3, <1>4 DEF y, SameHull

\* In g, s has the size z, and all else is as in f.
Sizes(f, g, s, z) == Changes(f, g, s) /\ g[s] = Sized(f[s], z)

LEMMA ResizedSizes ==
  ASSUME NEW f, FleetSound(f), NEW s \in Ship, Alive(f, s)
  PROVE  CalculatedSize(f[s]) \in Nat /\ Sizes(f, Resized(f, s), s, CalculatedSize(f[s]))
  <1> DEFINE z == CalculatedSize(f[s])
             y == Sized(f[s], z)
  <1>1. z \in Nat /\ f \in [Ship -> Craft] /\ Whole(f[s])
    BY HullNumbers DEF FleetSound
  <1> HIDE DEF z
  <1>2. Resized(f, s) = [f EXCEPT ![s] = y]
    BY <1>1, Zenon DEF Resized, Sized, z
  <1>3. y \in Craft
    BY <1>1, SizedRecord DEF Whole
  <1> HIDE DEF y
  <1>4. Changes(f, [f EXCEPT ![s] = y], s) /\ [f EXCEPT ![s] = y][s] = y
    BY <1>3, PutChanges
  <1>5. Changes(f, Resized(f, s), s) /\ Resized(f, s)[s] = y
    BY <1>2, <1>4, Zenon
  <1> QED BY <1>1, <1>5, Zenon DEF Sizes, y, z

LEMMA SizesKeeps ==
  ASSUME NEW f, FleetSound(f), NEW s \in Ship, Alive(f, s), NEW g, NEW z \in Nat, Sizes(f, g, s, z)
  PROVE  /\ Alike(f, g) /\ FleetSound(g) /\ SameBerths(f, g)
         /\ g[s].size = z /\ \A x \in Ship \ {s} : g[x] = f[x]
         /\ \A x \in Ship : /\ g[x].hanger = f[x].hanger /\ g[x].bay = f[x].bay
                            /\ Worth(g)[x] = Worth(f)[x] /\ g[x].mass = f[x].mass
                            /\ BaseMass(g[x]) = BaseMass(f[x]) /\ LocalMass(g[x]) = LocalMass(f[x])
                            /\ Own(g[x]) = Own(f[x])
  <1> DEFINE i == f[s]
             y == Sized(i, z)
  <1>1. Whole(i) /\ Changes(f, g, s) /\ g[s] = y /\ \A x \in Ship \ {s} : g[x] = f[x]
    BY DEF FleetSound, Sizes, Changes
  <1>2. /\ Whole(y) /\ y.type = i.type /\ y.dock = i.dock /\ y.dest = i.dest /\ y.size = z
        /\ y.hanger = i.hanger /\ y.bay = i.bay /\ y.mass = i.mass
        /\ ScrapValue(y) = ScrapValue(i) /\ BaseMass(y) = BaseMass(i) /\ LocalMass(y) = LocalMass(i)
        /\ Own(y) = Own(i)
    BY <1>1, SizedRecord
  <1> HIDE DEF y
  <1>3. Alike(f, g)
    BY <1>1, <1>2, OneAlike
  <1>4. FleetSound(g) /\ SameBerths(f, g)
    BY <1>3, AlikeSound
  <1>5. \A x \in Ship : Worth(g)[x] = Worth(f)[x]
    BY <1>1, <1>2, <1>4 DEF Worth, SameBerths
  <1> QED BY <1>1, <1>2, <1>3, <1>4, <1>5

(* A turn, for a ship: it has its design's size again, and the hangar it    *)
(* is in has not been told.                                                *)
LEMMA DoShipKeeps ==
  ASSUME FleetInv, NEW s \in Ship, DoShip(s)
  PROVE  Steady
  <1> DEFINE g == Resized(ship, s)
             z == CalculatedSize(ship[s])
  <1>1. /\ FleetSound(ship) /\ Hangars(ship, grown) /\ stockpile \in Nat /\ toxic \in Nat
        /\ loose \subseteq Ship /\ ship \in [Ship -> Craft] /\ waiting \subseteq Fleet
        /\ grown \in [Ship -> {"never", "once", "now"}]
    BY DEF FleetInv, FleetSound
  <1>m. Masses(ship, loose)
    BY DEF FleetInv
  <1>2. /\ s \in waiting /\ TurnStep(s, g)
        /\ stockpile' = stockpile /\ toxic' = toxic /\ loose' = loose
        /\ grown' = [c \in Ship |-> IF c \in Around(s) /\ z # ship[s].size
                                    THEN "now" ELSE grown[c]]
    BY DEF DoShip, TurnStep, Grew
  <1>3. Alive(ship, s)
    BY <1>1, <1>2 DEF Fleet
  <1>4. z \in Nat /\ Sizes(ship, g, s, z)
    BY <1>1, <1>3, ResizedSizes
  <1>a. \A c \in Ship : c \in Around(s) <=> s \in InCarrier(ship, c)
    BY DEF Around, InCarrier
  <1>b. \A c \in Ship : grown'[c] # "now" =>
           grown'[c] = grown[c] /\ (c \in Around(s) => z = ship[s].size)
    BY <1>2
  <1>c. grown' \in [Ship -> {"never", "once", "now"}]
    BY <1>1, <1>2
  <1> HIDE DEF g, z
  <1>5. /\ FleetSound(g) /\ SameBerths(ship, g) /\ g[s].size = z
        /\ \A x \in Ship \ {s} : g[x] = ship[x]
        /\ \A x \in Ship : /\ g[x].hanger = ship[x].hanger /\ g[x].bay = ship[x].bay
                           /\ Worth(g)[x] = Worth(ship)[x]
    BY <1>1, <1>3, <1>4, SizesKeeps
  <1>d. \A x \in Ship : /\ g[x].mass = ship[x].mass /\ LocalMass(g[x]) = LocalMass(ship[x])
                        /\ Own(g[x]) = Own(ship[x])
    BY <1>1, <1>3, <1>4, SizesKeeps
  <1>6. Hangars(g, grown')
    <2>1. \A x \in Ship \ {s} : g[x].size = ship[x].size
      BY <1>5
    <2>2. ASSUME NEW x \in Ship, Alive(ship, x), grown'[x] # "now"
          PROVE  /\ grown'[x] = grown[x]
                 /\ s \in InCarrier(ship, x) =>
                      /\ g[x].hanger = ship[x].hanger - ship[s].size + g[s].size
                      /\ grown[x] = "never" => g[x].hanger <= g[x].bay
                 /\ s \notin InCarrier(ship, x) =>
                      /\ g[x].hanger = ship[x].hanger
                      /\ ship[x].type = "factory" \/ g[x].bay >= ship[x].bay
      <3>1. grown'[x] = grown[x] /\ (s \in InCarrier(ship, x) => z = ship[s].size)
        BY <1>a, <1>b, <2>2
      <3>2. ship[x].hanger \in Int /\ ship[x].bay \in Int /\ z \in Int
        BY <1>1, <1>4, CraftFields
      <3>3. grown[x] = "never" => ship[x].hanger <= ship[x].bay
        BY <1>1, <2>2 DEF Hangars
      <3> QED BY <1>5, <3>1, <3>2, <3>3
    <2>3. \A x \in Ship : Alive(ship, x) /\ grown'[x] # "now" =>
                 /\ grown'[x] = grown[x]
                 /\ s \in InCarrier(ship, x) =>
                      /\ g[x].hanger = ship[x].hanger - ship[s].size + g[s].size
                      /\ grown[x] = "never" => g[x].hanger <= g[x].bay
                 /\ s \notin InCarrier(ship, x) =>
                      /\ g[x].hanger = ship[x].hanger
                      /\ ship[x].type = "factory" \/ g[x].bay >= ship[x].bay
      BY <2>2
    <2> QED BY <1>1, <1>5, <2>1, <2>3, HangarsResized
  <1>7. Wealth(g, stockpile') <= Wealth(ship, stockpile)
    <2>1. \A x \in Ship : Worth(g)[x] <= Worth(ship)[x]
      BY <1>1, <1>5, WorthIs
    <2> QED BY <1>1, <1>2, <1>5, <2>1, NoRicher
  <1>8. Masses(g, loose')
    <2>1. \A x \in Ship : Alive(ship, x) => Own(ship[x]) \in Nat
      BY <1>1, MassNumbers
    <2>2. \A x \in Ship : Alive(ship, x) =>
            /\ g[x].mass = ship[x].mass /\ Own(g[x]) <= Own(ship[x])
            /\ x \in loose' \/ LocalMass(g[x]) = LocalMass(ship[x])
      BY <1>d, <2>1
    <2> QED BY <1>1, <1>m, <1>2, <1>5, <2>2, MassesRest
  <1> QED BY <1>1, <1>2, <1>c, <1>5, <1>6, <1>7, <1>8, TurnKeeps

(* What a stop of a merchant leaves: so much more cargo, its design's size, *)
(* and a place to go on from.                                              *)
LEMMA StoppedAs ==
  ASSUME FleetSound(ship), NEW s \in Ship, ship[s].dock = "spaceborne",
         NEW d \in {"landed", "spaceborne"},
         NEW in \in Nat, NEW out \in Nat, in <= Room(ship[s]), out <= ship[s].res + in,
         NEW g, g = Stopped(s, in, out, d)
  PROVE  /\ FleetSound(g) /\ SameBerths(ship, g)
         /\ \A x \in Ship \ {s} : g[x] = ship[x]
         /\ g[s].hanger = ship[s].hanger /\ g[s].bay = ship[s].bay
         /\ g[s].dock = d /\ Worth(g)[s] = Worth(ship)[s] + in - out
         /\ Shifts(ship, g, s, in - out)
  <1> DEFINE a == Loaded(ship, s, in)
             b == Spent(a, s, out)
             c == Placed(b, s, d, Nil)
             z == CalculatedSize(c[s])
             y == At(b[s], d, Nil)
  <1>1. g = Resized(c, s) /\ Alive(ship, s)
    BY DEF Stopped, Alive
  <1>2. Stows(ship, a, s, in)
    <2> HIDE DEF a
    <2>1. PICK m : Takes(ship, s, in, m) /\ Stows(ship, a, s, m)
      BY <1>1, LoadedStows, Zenon DEF a
    <2>2. m = in
      <3>1. CASE Straps(ship, s)
        BY <2>1, <3>1, Zenon DEF Takes
      <3>2. CASE ~Straps(ship, s)
        BY <2>1, <3>2, Zenon DEF Takes
      <3> QED BY <3>1, <3>2
    <2> QED BY <2>1, <2>2, Zenon
  <1> HIDE DEF a
  <1>3. ship[s].res + in >= 0 /\ in \in Int
    BY CraftFields DEF FleetSound
  <1>4. /\ FleetSound(a) /\ SameBerths(ship, a) /\ SameShape(ship, a) /\ a[s].res = ship[s].res + in
        /\ \A x \in Ship \ {s} : a[x] = ship[x]
        /\ Worth(a)[s] = Worth(ship)[s] + in
        /\ a[s].mass = ship[s].mass + in /\ LocalMass(a[s]) = LocalMass(ship[s]) + in
        /\ BaseMass(a[s]) = BaseMass(ship[s])
    BY <1>1, <1>2, <1>3, StowsKeeps
  <1>5. Alive(a, s) /\ a[s].dock = "spaceborne" /\ out <= a[s].res
    BY <1>4 DEF SameShape, Alive
  <1>6. Stows(a, b, s, 0 - out)
    BY <1>4, <1>5, SpentStows
  <1> HIDE DEF b
  <1>7. a[s].res + (0 - out) >= 0 /\ 0 - out \in Int
    BY <1>4, <1>5, CraftFields DEF FleetSound
  <1>8. /\ FleetSound(b) /\ SameBerths(a, b) /\ SameShape(a, b)
        /\ \A x \in Ship \ {s} : b[x] = a[x]
        /\ Worth(b)[s] = Worth(a)[s] + (0 - out)
        /\ b[s].mass = a[s].mass + (0 - out) /\ LocalMass(b[s]) = LocalMass(a[s]) + (0 - out)
        /\ BaseMass(b[s]) = BaseMass(a[s])
    <2> DEFINE k == 0 - out
    <2>1. k \in Int /\ a[s].res + k >= 0 /\ Stows(a, b, s, k)
      BY <1>6, <1>7
    <2> HIDE DEF k
    <2>2. /\ FleetSound(b) /\ SameBerths(a, b) /\ SameShape(a, b)
          /\ \A x \in Ship \ {s} : b[x] = a[x]
          /\ Worth(b)[s] = Worth(a)[s] + k
          /\ b[s].mass = a[s].mass + k /\ LocalMass(b[s]) = LocalMass(a[s]) + k
          /\ BaseMass(b[s]) = BaseMass(a[s])
      BY <1>4, <1>5, <2>1, StowsKeeps
    <2> QED BY <2>2 DEF k
  <1>9. Alive(b, s) /\ b[s].dock = "spaceborne" /\ Whole(b[s]) /\ Mooring(d, Nil)
    BY <1>5, <1>8 DEF SameShape, Alive, FleetSound, Mooring, Dock
  <1>10. Changes(b, c, s) /\ c[s] = y
    BY <1>8, <1>9, PlacedChanges
  <1>11. /\ Whole(y) /\ y.dock = d /\ SameHull(b[s], y) /\ y.hanger = b[s].hanger
         /\ ScrapValue(y) = ScrapValue(b[s]) /\ y.mass = b[s].mass
         /\ LocalMass(y) = LocalMass(b[s]) /\ BaseMass(y) = BaseMass(b[s])
    BY <1>9, RedockedRecord
  <1> HIDE DEF c, y
  <1>12. y.type = b[s].type /\ y.bay = b[s].bay
    BY <1>11 DEF SameHull
  <1>13. FleetSound(c) /\ SameBerths(b, c)
    BY <1>8, <1>9, <1>10, <1>11, <1>12, OneFree
  <1>14. Alive(c, s) /\ Worth(c)[s] = Worth(b)[s]
    BY <1>9, <1>10, <1>11 DEF Alive, Worth
  <1>15. z \in Nat /\ Sizes(c, g, s, z)
    BY <1>1, <1>13, <1>14, ResizedSizes
  <1> HIDE DEF z
  <1>16. /\ Alike(c, g) /\ FleetSound(g) /\ SameBerths(c, g) /\ \A x \in Ship \ {s} : g[x] = c[x]
         /\ g[s].hanger = c[s].hanger /\ g[s].bay = c[s].bay /\ Worth(g)[s] = Worth(c)[s]
         /\ g[s].mass = c[s].mass /\ LocalMass(g[s]) = LocalMass(c[s]) /\ BaseMass(g[s]) = BaseMass(c[s])
    BY <1>13, <1>14, <1>15, SizesKeeps
  <1>17. SameBerths(ship, g)
    BY <1>4, <1>8, <1>13, <1>16 DEF SameBerths
  <1>18. \A x \in Ship \ {s} : g[x] = ship[x]
    BY <1>4, <1>8, <1>10, <1>16 DEF Changes
  <1>19. g[s].hanger = ship[s].hanger /\ g[s].bay = ship[s].bay
    BY <1>4, <1>8, <1>10, <1>11, <1>12, <1>16 DEF SameShape
  <1>20. g[s].dock = d
    BY <1>10, <1>11, <1>14, <1>16 DEF Alike
  <1>21. Worth(g)[s] = Worth(ship)[s] + in - out
    <2>1. Worth(ship)[s] \in Int
      BY WorthIs
    <2> QED BY <1>4, <1>8, <1>14, <1>16, <2>1
  <1>22. Shifts(ship, g, s, in - out)
    <2> DEFINE m == in - out
    <2>1. ship[s].mass \in Int /\ LocalMass(ship[s]) \in Int /\ m \in Int
      BY <1>1, MassNumbers
    <2>2. g[s].mass = ship[s].mass + m /\ LocalMass(g[s]) = LocalMass(ship[s]) + m
          /\ BaseMass(g[s]) = BaseMass(ship[s])
      BY <1>4, <1>8, <1>10, <1>11, <1>16, <2>1
    <2>3. g[s].type = ship[s].type /\ Alive(g, s)
      BY <1>1, <1>4, <1>8, <1>10, <1>12, <1>14, <1>16, <1>17 DEF SameShape, Alike,
                                        SameBerths
    <2> HIDE DEF m
    <2>4. Own(g[s]) = Own(ship[s]) + m
      BY <1>1, <1>16, <2>1, <2>2, <2>3, OwnFollows
    <2>5. Shifts(ship, g, s, m)
      BY <1>16, <1>17, <1>18, <2>2, <2>4 DEF Shifts
    <2> QED BY <2>5 DEF m
  <1> QED BY <1>16, <1>17, <1>18, <1>19, <1>20, <1>21, <1>22

LEMMA MerchantStopKeeps ==
  ASSUME FleetInv, NEW s \in Ship, NEW load \in BOOLEAN, NEW unload \in BOOLEAN,
         MerchantStop(s, load, unload)
  PROVE  Steady
  <1> DEFINE in == IF load THEN Min({stockpile, Room(ship[s])}) ELSE 0
             out == IF unload THEN ship[s].res + in ELSE 0
  <1>1. /\ FleetSound(ship) /\ Hangars(ship, grown) /\ stockpile \in Nat /\ toxic \in Nat
        /\ loose \subseteq Ship /\ ship \in [Ship -> Craft] /\ waiting \subseteq Fleet
        /\ grown \in [Ship -> {"never", "once", "now"}]
    BY DEF FleetInv, FleetSound
  <1>m. Masses(ship, loose)
    BY DEF FleetInv
  <1>2. /\ ship[s].dock = "spaceborne"
        /\ stockpile' = stockpile - in + out /\ toxic' = toxic /\ loose' = loose
        /\ grown' = grown
        /\ \E d \in {"landed", "spaceborne"} : TurnStep(s, Stopped(s, in, out, d))
    BY DEF MerchantStop, Spaceborne
  <1>3. PICK d \in {"landed", "spaceborne"} : TurnStep(s, Stopped(s, in, out, d))
    BY <1>2
  <1>4. Whole(ship[s]) /\ Alive(ship, s)
    BY <1>1, <1>2 DEF FleetSound, Alive
  <1>5. ship[s].res \in Nat /\ Room(ship[s]) \in Nat
    BY <1>1, <1>4, CraftFields, HullNumbers
  <1>6. in \in Nat /\ in <= stockpile /\ in <= Room(ship[s])
    BY <1>1, <1>5, SmallerOf
  <1>7. out \in Nat /\ out <= ship[s].res + in
    <2> HIDE DEF in
    <2> QED BY <1>5, <1>6
  <1> HIDE DEF in, out
  <1> DEFINE g == Stopped(s, in, out, d)
  <1>8. g = Stopped(s, in, out, d) /\ TurnStep(s, g)
    BY <1>3
  <1> HIDE DEF g
  <1>9. /\ FleetSound(g) /\ SameBerths(ship, g)
        /\ \A x \in Ship \ {s} : g[x] = ship[x]
        /\ g[s].hanger = ship[s].hanger /\ g[s].bay = ship[s].bay
        /\ Worth(g)[s] = Worth(ship)[s] + in - out /\ Shifts(ship, g, s, in - out)
    BY <1>1, <1>2, <1>6, <1>7, <1>8, StoppedAs
  <1>10. Hangars(g, grown)
    <2>1. \A x \in Ship \ {s} : g[x].size = ship[x].size
      BY <1>9
    <2>2. \A x \in Ship : Alive(ship, x) /\ grown[x] # "now" =>
                 /\ grown[x] = grown[x]
                 /\ s \in InCarrier(ship, x) =>
                      /\ g[x].hanger = ship[x].hanger - ship[s].size + g[s].size
                      /\ grown[x] = "never" => g[x].hanger <= g[x].bay
                 /\ s \notin InCarrier(ship, x) =>
                      /\ g[x].hanger = ship[x].hanger
                      /\ ship[x].type = "factory" \/ g[x].bay >= ship[x].bay
      <3>1. \A x \in Ship : s \notin InCarrier(ship, x)
        BY <1>2 DEF InCarrier, Berthed
      <3>2. \A x \in Ship : ship[x].bay \in Nat
        BY <1>1, CraftFields
      <3>3. \A x \in Ship : g[x].hanger = ship[x].hanger /\ g[x].bay = ship[x].bay
        BY <1>9
      <3> QED BY <3>1, <3>2, <3>3
    <2> QED BY <1>1, <1>9, <2>1, <2>2, HangarsResized
  <1>11. stockpile' \in Nat /\ Wealth(g, stockpile') <= Wealth(ship, stockpile)
    <2>1. stockpile' \in Nat
      BY <1>1, <1>2, <1>6, <1>7
    <2>2. \A x \in Ship : Worth(ship)[x] \in Int
      BY <1>1, WorthIs
    <2>3. \A x \in Ship \ {s} : Worth(g)[x] = Worth(ship)[x]
      BY <1>9 DEF Worth, Alive
    <2>4. stockpile' + Worth(g)[s] <= stockpile + Worth(ship)[s]
      BY <1>1, <1>2, <1>6, <1>7, <1>9, <2>2
    <2>5. \A x \in Ship \ {s} : Worth(g)[x] <= Worth(ship)[x]
      BY <2>2, <2>3
    <2> QED BY <1>1, <1>9, <2>1, <2>4, <2>5, NoRicherByOne
  <1>12. Masses(g, loose')
    <2>1. ~Berthed(ship, s) /\ in - out \in Int
      BY <1>2, <1>6, <1>7 DEF Berthed
    <2> QED BY <1>1, <1>m, <1>2, <1>4, <1>9, <2>1, ShiftsMasses
  <1> QED BY <1>1, <1>2, <1>8, <1>9, <1>10, <1>11, <1>12, TurnKeeps

-----------------------------------------------------------------------------
(* New ships *)

\* A ship as its design gives it, before it is put anywhere.
Fresh(i) ==
  /\ i \in Craft /\ i.type \in Type /\ i.make = Nil /\ i.dest = Nil /\ ~i.on
  /\ i.cost = Cost(i) /\ i.size = CalculatedSize(i) /\ i.mass = BaseMass(i)
  /\ i.res = 0 /\ i.hanger = 0 /\ i.waste = 0

\* What getship and getfactship give: a hull h, a hold and a bay, at a price.
Bare(t, h, b, z, n, m) ==
  [Gone EXCEPT !.type = t, !.hold = h, !.bay = b, !.size = z, !.cost = n, !.mass = m]

LEMMA BareIsFresh ==
  ASSUME NEW t \in Type, NEW h \in Nat, NEW b \in Nat, NEW z, NEW n, NEW m,
         z = 1 + h + b, n = Template[t].hull + h + b, m = 1 + b
  PROVE  Fresh(Bare(t, h, b, z, n, m)) /\ Bare(t, h, b, z, n, m).cost = n
         /\ Bare(t, h, b, z, n, m).type = t
  <1> DEFINE y == Bare(t, h, b, z, n, m)
  <1>1. z \in Nat /\ n \in Nat /\ m \in Int
    BY FleetNumbers
  <1>2. /\ y \in Craft /\ y.type = t /\ y.make = Nil /\ y.dest = Nil /\ ~y.on /\ y.hold = h
        /\ y.bay = b /\ y.size = z /\ y.cost = n /\ y.mass = m
        /\ y.res = 0 /\ y.hanger = 0 /\ y.waste = 0
    <2> DEFINE o == Gone
               k == [o EXCEPT !.type = t]
               j == [k EXCEPT !.hold = h, !.bay = b]
    <2>a. /\ o \in Craft /\ o.make = Nil /\ o.dest = Nil /\ ~o.on
          /\ o.res = 0 /\ o.hanger = 0 /\ o.waste = 0
      BY DEF Gone, Craft, Dock
    <2>b. /\ k \in Craft /\ k.type = t /\ k.make = Nil /\ k.dest = Nil /\ ~k.on
          /\ k.res = 0 /\ k.hanger = 0 /\ k.waste = 0
      <3> HIDE DEF o
      <3> QED BY <2>a DEF Craft
    <2>1. /\ j \in Craft /\ j.type = t /\ j.make = Nil /\ j.dest = Nil /\ ~j.on /\ j.hold = h
          /\ j.bay = b /\ j.res = 0 /\ j.hanger = 0 /\ j.waste = 0
      <3> HIDE DEF k
      <3> QED BY <2>b DEF Craft
    <2>2. y = [j EXCEPT !.size = z, !.cost = n, !.mass = m]
      BY DEF Bare, Gone
    <2> HIDE DEF j, y
    <2> QED BY <1>1, <2>1, <2>2 DEF Craft
  <1> HIDE DEF y
  <1>3. BuildType(y) = t
    BY <1>2 DEF BuildType
  <1>4. Cost(y) = n /\ CalculatedSize(y) = z /\ BaseMass(y) = m
    BY <1>2, <1>3 DEF Cost, CalculatedSize, BaseMass
  <1>5. Fresh(y)
    BY <1>2, <1>4 DEF Fresh
  <1> QED BY <1>2, <1>5 DEF y

LEMMA FreshShips ==
  /\ \A t \in Type : Fresh(GetShip(t)) /\ GetShip(t).type = t
  /\ \A b : Whole(b) /\ HasDesign(b) => Fresh(GetFactShip(b)) /\ GetFactShip(b).cost = b.cost
  <1> DEFINE Hull(t, h, b) == [Gone EXCEPT !.type = t, !.hold = h, !.bay = b]
  <1>1. ASSUME NEW t \in Type, NEW h \in Nat, NEW b \in Nat
        PROVE  Built(Hull(t, h, b)) = Bare(t, h, b, 1 + h + b, Template[t].hull + h + b, 1 + b)
    <2> DEFINE i == Hull(t, h, b)
               n == Template[t].hull + h + b
               z == 1 + h + b
               j == [i EXCEPT !.size = z, !.cost = n]
    <2>1. i.type = t /\ i.make = Nil /\ i.hold = h /\ i.bay = b /\ i.res = 0
      BY DEF Gone
    <2>2. CalculatedSize(i) = z /\ Cost(i) = n
      <3> HIDE DEF i
      <3> QED BY <2>1 DEF CalculatedSize, Cost, BuildType
    <2>3. LocalMass(j) = 1 + b
      <3>1. j.bay = b /\ j.res = 0
        BY DEF Gone
      <3> HIDE DEF j
      <3> QED BY <3>1 DEF LocalMass, BaseMass
    <2>4. Built(i) = [j EXCEPT !.mass = LocalMass(j)]
      BY <2>2, Zenon DEF Built
    <2>5. Built(i) = [j EXCEPT !.mass = 1 + b]
      BY <2>3, <2>4, Zenon
    <2> HIDE DEF n, z
    <2>6. [j EXCEPT !.mass = 1 + b] = Bare(t, h, b, z, n, 1 + b)
      BY DEF Bare, Gone
    <2> QED BY <2>5, <2>6, Zenon DEF n, z
  <1>2. ASSUME NEW t \in Type PROVE Fresh(GetShip(t)) /\ GetShip(t).type = t
    <2> DEFINE h == Template[t].hold
               b == Template[t].bay
    <2>1. h \in Nat /\ b \in Nat
      BY FleetNumbers
    <2>2. GetShip(t) = Bare(t, h, b, 1 + h + b, Template[t].hull + h + b, 1 + b)
      BY <1>1, <2>1, Zenon DEF GetShip
    <2> HIDE DEF h, b
    <2>3. LET y == Bare(t, h, b, 1 + h + b, Template[t].hull + h + b, 1 + b)
          IN  Fresh(y) /\ y.type = t
      BY <2>1, BareIsFresh
    <2> QED BY <2>2, <2>3, Zenon
  <1>3. ASSUME NEW f, Whole(f), HasDesign(f)
        PROVE  Fresh(GetFactShip(f)) /\ GetFactShip(f).cost = f.cost
    <2> DEFINE t == f.make
               h == f.hold
               b == f.bay
               n == Template[t].hull + h + b
    <2>1. t \in Type /\ h \in Nat /\ b \in Nat
      BY <1>3, CraftFields DEF Whole, HasDesign
    <2>2. f.cost = n
      BY <1>3 DEF Whole, HasDesign, Cost, BuildType
    <2>3. Built(Hull(t, h, b)) = Bare(t, h, b, 1 + h + b, n, 1 + b)
      BY <1>1, <2>1, Zenon
    <2>4. GetFactShip(f) = [Bare(t, h, b, 1 + h + b, n, 1 + b) EXCEPT !.cost = n]
      BY <2>2, <2>3, Zenon DEF GetFactShip
    <2> DEFINE y == Bare(t, h, b, 1 + h + b, n, 1 + b)
    <2>5. [y EXCEPT !.cost = n] = y
      <3> HIDE DEF n, h, b, t
      <3> QED BY DEF Bare, Gone
    <2>6. GetFactShip(f) = y
      BY <2>4, <2>5, Zenon
    <2>7. Fresh(y) /\ y.cost = n
      <3> HIDE DEF h, b, t
      <3> QED BY <2>1, BareIsFresh
    <2> HIDE DEF y, n
    <2> QED BY <2>2, <2>6, <2>7
  <1> QED BY <1>2, <1>3

(* It is not worth more than it costs. *)
LEMMA FreshAt ==
  ASSUME NEW i, Fresh(i), NEW d, NEW t, Mooring(d, t)
  PROVE  LET y == At(i, d, t)
         IN  /\ Whole(y) /\ y.dock = d /\ y.dest = t /\ y.type = i.type /\ y.size = i.size
             /\ y.hanger = 0 /\ y.res = 0 /\ y.mass = i.mass /\ y.bay = i.bay /\ y.waste = 0
             /\ i.cost \in Nat /\ ScrapValue(y) \in Nat /\ ScrapValue(y) <= i.cost
             /\ LocalMass(y) = i.mass
  <1> DEFINE y == At(i, d, t)
  <1>1. i \in Craft /\ i.type \in Type /\ i.cost = Cost(i)
    BY DEF Fresh
  <1>2. /\ y \in Craft /\ y.dock = d /\ y.dest = t /\ y.type = i.type /\ y.make = Nil
        /\ y.hold = i.hold /\ y.bay = i.bay /\ y.cost = i.cost /\ ~y.on
        /\ y.size = i.size /\ y.hanger = 0 /\ y.res = 0 /\ y.mass = i.mass /\ y.waste = 0
    <2>1. i.make = Nil /\ ~i.on /\ i.hanger = 0 /\ i.res = 0 /\ i.waste = 0
      BY DEF Fresh
    <2> QED BY <1>1, <2>1 DEF Craft, Mooring, At
  <1> HIDE DEF y
  <1>3. Cost(y) = Cost(i)
    BY <1>2 DEF Cost, BuildType, Fresh
  <1>4. Whole(y)
    BY <1>1, <1>2, <1>3 DEF Whole, Mooring
  <1>5. ScrapValue(y) \in Nat /\ i.cost \in Nat
    BY <1>1, <1>4, HullNumbers, CraftFields
  <1>6. EffectiveCost(y) <= i.cost /\ EffectiveCost(y) \in Nat
    <2>1. CASE y.type = "factory"
      <3>1. EffectiveCost(y) = Template["factory"].hull
        BY <1>2, <2>1, FleetNumbers DEF EffectiveCost
      <3>2. i.cost = Template["factory"].hull + i.hold + i.bay
        BY <1>1, <1>2, <2>1 DEF Cost, BuildType, Fresh
      <3> QED BY <1>1, <3>1, <3>2, FleetNumbers, CraftFields
    <2>2. CASE y.type # "factory"
      BY <1>2, <1>5, <2>2 DEF EffectiveCost
    <2> QED BY <2>1, <2>2
  <1>7. ScrapValue(y) <= i.cost
    BY <1>2, <1>5, <1>6 DEF ScrapValue
  <1>8. LocalMass(y) = i.mass
    <2>1. i.mass = 1 + i.bay /\ i.bay \in Nat
      BY <1>1, CraftFields DEF Fresh, BaseMass
    <2> QED BY <1>2, <2>1 DEF LocalMass, BaseMass
  <1> QED BY <1>2, <1>4, <1>5, <1>7, <1>8 DEF y

\* Where a new ship i may be in f.
Quay(f, i) ==
  \/ i.dock \in {"landed", "spaceborne"}
  \/ /\ i.dock = "berthed" /\ i.dest \in Ship /\ Alive(f, i.dest)
     /\ f[i.dest].type # "factory" /\ ~Berthed(f, i.dest)

LEMMA NewShip ==
  ASSUME NEW f, FleetSound(f), NEW s \in Ship, ~Alive(f, s), NEW g, Changes(f, g, s), Whole(g[s]),
         Quay(f, g[s])
  PROVE  /\ FleetSound(g)
         /\ \A x \in Ship : Alive(g, x) <=> Alive(f, x) \/ x = s
         /\ InCarrier(f, s) = {} /\ \A c \in Ship : s \notin InCarrier(f, c)
         /\ \A c \in Ship :
              InCarrier(g, c) = IF g[s].dock = "berthed" /\ g[s].dest = c
                                THEN InCarrier(f, c) \cup {s} ELSE InCarrier(f, c)
  <1>1. g \in [Ship -> Craft] /\ \A x \in Ship \ {s} : g[x] = f[x]
    BY DEF Changes
  <1>2. f[s].dock = "gone" /\ g[s].dock # "gone" /\ g[s].dock # "moored"
    BY DEF Alive, Whole, Quay
  <1>3. \A x \in Ship : Alive(g, x) <=> Alive(f, x) \/ x = s
    BY <1>1, <1>2 DEF Alive
  <1>4. \A x \in Ship : IF Alive(g, x) THEN Whole(g[x]) ELSE g[x] = Gone
    BY <1>1, <1>3 DEF FleetSound, Alive
  <1>5. \A x \in Ship \ {s} : Berthed(g, x) => /\ g[x].dest \in Ship /\ Alive(g, g[x].dest)
                                             /\ g[g[x].dest].type # "factory"
    BY <1>1, <1>2 DEF FleetSound, Docks, Berthed, Alive
  <1>6. Berthed(g, s) => /\ g[s].dest \in Ship /\ Alive(g, g[s].dest)
                         /\ g[g[s].dest].type # "factory"
    BY <1>1, <1>2 DEF Quay, Berthed, Alive
  <1>7. ASSUME NEW x \in Ship, g[x].dock = "moored"
        PROVE  /\ g[x].dest \in Ship /\ g[x].dest # x
               /\ g[g[x].dest].dock = "moored" /\ g[g[x].dest].dest = x
    <2>1. x # s /\ g[x] = f[x]
      BY <1>1, <1>2, <1>7
    <2>2. /\ f[x].dest \in Ship /\ f[x].dest # x
          /\ f[f[x].dest].dock = "moored" /\ f[f[x].dest].dest = x
      BY <1>7, <2>1 DEF FleetSound, Docks
    <2>3. f[x].dest # s
      BY <1>2, <2>2
    <2> QED BY <1>1, <2>1, <2>2, <2>3
  <1>8. Docks(g)
    BY <1>5, <1>6, <1>7 DEF Docks
  <1>9. Ranked(g)
    <2>1. CASE g[s].dock \in {"landed", "spaceborne"}
      <3>1. \A x \in Ship : Berthed(g, x) => Berthed(f, x) /\ g[x].dest = f[x].dest
        BY <1>1, <2>1 DEF Berthed
      <3> QED BY <3>1, RanksLess DEF FleetSound
    <2>2. CASE g[s].dock = "berthed"
      <3> DEFINE c == g[s].dest
      <3>1. c \in Ship /\ s # c /\ ~Berthed(g, c)
        BY <1>1, <1>2, <2>2 DEF Quay, Alive, Berthed
      <3>2. \A x \in Ship \ {s} : Berthed(g, x) => Berthed(f, x) /\ g[x].dest = f[x].dest
        BY <1>1 DEF Berthed
      <3> QED BY <3>1, <3>2, RanksJoin DEF FleetSound
    <2> QED BY <2>1, <2>2 DEF Quay
  <1>10. FleetSound(g)
    BY <1>1, <1>4, <1>8, <1>9 DEF FleetSound
  <1>11. InCarrier(f, s) = {} /\ \A c \in Ship : s \notin InCarrier(f, c)
    BY <1>2 DEF InCarrier, FleetSound, Docks, Berthed, Alive
  <1>12. \A c \in Ship :
            InCarrier(g, c) = IF g[s].dock = "berthed" /\ g[s].dest = c
                              THEN InCarrier(f, c) \cup {s} ELSE InCarrier(f, c)
    BY <1>1, <1>2 DEF InCarrier, Berthed
  <1> QED BY <1>3, <1>10, <1>11, <1>12

(* The books of the hangars when a ship comes to be in one of them, or in   *)
(* none of them, with an empty hangar of its own if it is new.             *)
LEMMA HangarsJoined ==
  ASSUME NEW f, FleetSound(f), NEW gr, Hangars(f, gr), NEW g, FleetSound(g), NEW s \in Ship,
         \A x \in Ship : Alive(g, x) <=> Alive(f, x) \/ x = s,
         \A x \in Ship : s \notin InCarrier(f, x),
         \A x \in Ship : Alive(f, x) =>
            g[x].size = f[x].size /\ g[x].bay = f[x].bay,
         ~Alive(f, s) => g[s].hanger = 0 /\ InCarrier(f, s) = {} /\ InCarrier(g, s) = {},
         \A x \in Ship : Alive(f, x) =>
            \/ InCarrier(g, x) = InCarrier(f, x) /\ g[x].hanger = f[x].hanger
            \/ /\ InCarrier(g, x) = InCarrier(f, x) \cup {s}
               /\ g[x].hanger = f[x].hanger + g[s].size
               /\ gr[x] = "never" => f[x].hanger + g[s].size <= f[x].bay
  PROVE  Hangars(g, gr)
  <1> SUFFICES ASSUME NEW c \in Ship, Alive(g, c), gr[c] # "now"
               PROVE  /\ g[c].hanger = SizeInside(g, c)
                      /\ gr[c] = "never" => g[c].hanger <= g[c].bay
    BY DEF Hangars
  <1>1. f \in [Ship -> Craft] /\ g \in [Ship -> Craft]
    BY DEF FleetSound
  <1>2. CASE ~Alive(f, c)
    <2>1. c = s /\ g[c].hanger = 0 /\ InCarrier(g, c) = {}
      BY <1>2
    <2>2. SizeInside(g, c) = 0 /\ g[c].bay \in Nat
      BY <1>1, <2>1, SizeInsideCovers, CraftFields
    <2> QED BY <2>1, <2>2
  <1>3. CASE Alive(f, c)
    <2>1. f[c].hanger = SizeInside(f, c) /\ (gr[c] = "never" => f[c].hanger <= f[c].bay)
          /\ g[c].bay = f[c].bay
      BY <1>3 DEF Hangars
    <2>2. \A x \in InCarrier(f, c) : g[x].size = f[x].size
      BY DEF InCarrier, Berthed, Alive
    <2>3. CASE InCarrier(g, c) = InCarrier(f, c) /\ g[c].hanger = f[c].hanger
      <3>1. SizeInside(g, c) = SizeInside(f, c)
        BY <1>1, <2>2, <2>3, SizeInsideSame
      <3> QED BY <2>1, <2>3, <3>1
    <2>4. CASE /\ InCarrier(g, c) = InCarrier(f, c) \cup {s}
               /\ g[c].hanger = f[c].hanger + g[s].size
               /\ gr[c] = "never" => f[c].hanger + g[s].size <= f[c].bay
      <3>1. SizeInside(g, c) = SizeInside(f, c) + g[s].size
        BY <1>1, <2>2, <2>4, SizeInsideMore
      <3> QED BY <2>1, <2>4, <3>1
    <2> QED BY <1>3, <2>3, <2>4
  <1> QED BY <1>2, <1>3

(* Masses when a new ship s comes, perhaps built and taken in by b, which   *)
(* pays n for it.                                                          *)
LEMMA NewMasses ==
  ASSUME NEW f, FleetSound(f), NEW L, Masses(f, L), NEW g, FleetSound(g), NEW s \in Ship, NEW b,
         NEW n \in Int, ~Alive(f, s), \A x \in Ship : Alive(g, x) <=> Alive(f, x) \/ x = s,
         \A x \in Ship \ {b, s} : g[x] = f[x] /\ InCarrier(g, x) = InCarrier(f, x),
         InCarrier(g, s) = {}, g[s].mass = LocalMass(g[s]), \A x \in Ship : s \notin InCarrier(f, x),
         b \in Ship /\ b # s =>
           /\ ~Berthed(f, b) /\ ~Berthed(g, b)
           /\ Own(g[b]) = Own(f[b]) - n /\ LocalMass(g[b]) = LocalMass(f[b]) - n
           /\ \/ InCarrier(g, b) = InCarrier(f, b) /\ g[b].mass = f[b].mass - n
              \/ InCarrier(g, b) = InCarrier(f, b) \cup {s} /\ g[b].mass = f[b].mass - n + g[s].mass
  PROVE  Masses(g, L)
  <1>1. f \in [Ship -> Craft] /\ g \in [Ship -> Craft] /\ Alive(g, s)
    BY DEF FleetSound
  <1>2. Exact(g, s) /\ Heavy(g, s) /\ g[s].mass \in Nat
    <2>1. MassInside(g, s) = 0
      BY SumEmpty DEF MassInside
    <2>2. Own(g[s]) \in Nat /\ Own(g[s]) <= LocalMass(g[s]) /\ LocalMass(g[s]) \in Nat
      BY <1>1, MassNumbers
    <2> QED BY <2>1, <2>2 DEF Exact, Heavy
  <1>3. ASSUME NEW x \in Ship, Alive(f, x) PROVE Upheld(f, L, g, L, x)
    <2>1. x # s
      BY <1>3
    <2>2. \A y \in InCarrier(f, x) : g[y].mass = f[y].mass
      BY DEF InCarrier, Berthed
    <2>3. Ancestors(g, x) \subseteq Ancestors(f, x)
      <3> DEFINE T == Ancestors(f, x)
      <3>1. \A y \in T : y \in Ship /\ Alive(f, y)
        BY AncestorsLive
      <3>2. Upwards(f, T) /\ (Berthed(f, x) => f[x].dest \in T)
        BY Around1 DEF FleetSound
      <3>3. ASSUME NEW y \in {x} \cup T, NEW d \in Ship, y \in InCarrier(g, d) PROVE d \in T
        <4>1. y # s /\ y \in Ship /\ Berthed(g, y)
          BY <1>3, <3>1, <3>3 DEF InCarrier
        <4>2. y # b
          BY <4>1
        <4>3. g[y] = f[y]
          BY <4>1, <4>2
        <4>4. Berthed(f, y) /\ f[y].dest = d
          BY <3>3, <4>3 DEF InCarrier, Berthed
        <4> QED BY <3>2, <3>3, <4>4 DEF Upwards
      <3>4. T \in SUBSET Ship
        BY <3>1
      <3> QED BY <3>3, <3>4, AncestorsWithin
    <2>4. CASE x # b
      BY <1>3, <2>1, <2>2, <2>3, <2>4, Unmoved
    <2>5. CASE x = b
      <3>1. Written(f, L, x) => Written(g, L, x)
        BY <2>3 DEF Written
      <3>2. f[x].mass \in Int /\ Own(f[x]) \in Int /\ LocalMass(f[x]) \in Int /\ MassInside(f, x) \in Int
        BY <1>3, MassNumbers
      <3>3. Own(g[x]) = Own(f[x]) - n /\ LocalMass(g[x]) = LocalMass(f[x]) - n
        BY <2>1, <2>5
      <3>4. CASE InCarrier(g, x) = InCarrier(f, x) /\ g[x].mass = f[x].mass - n
        <4>1. MassInside(g, x) = MassInside(f, x)
          BY <1>1, <2>2, <3>4, MassInsideSame
        <4>2. (Exact(f, x) => Exact(g, x)) /\ (Heavy(f, x) => Heavy(g, x))
          BY <3>2, <3>3, <3>4, <4>1 DEF Exact, Heavy
        <4> QED BY <1>3, <3>1, <4>2 DEF Upheld
      <3>5. CASE InCarrier(g, x) = InCarrier(f, x) \cup {s} /\ g[x].mass = f[x].mass - n + g[s].mass
        <4>1. MassInside(g, x) = MassInside(f, x) + g[s].mass
          BY <1>1, <2>2, <3>5, MassInsideMore
        <4>2. (Exact(f, x) => Exact(g, x)) /\ (Heavy(f, x) => Heavy(g, x))
          BY <1>2, <3>2, <3>3, <3>5, <4>1 DEF Exact, Heavy
        <4> QED BY <1>3, <3>1, <4>2 DEF Upheld
      <3> QED BY <2>1, <2>5, <3>4, <3>5
    <2> QED BY <2>4, <2>5
  <1>4. \A x \in Ship : Alive(g, x) => Upheld(f, L, g, L, x) \/ (Exact(g, x) /\ Heavy(g, x))
    BY <1>2, <1>3
  <1> QED BY <1>4, MassesJoin, Zenon

LEMMA CreateByPlanetKeeps ==
  ASSUME FleetInv, NEW s \in Ship, NEW i, Fresh(i), CreateByPlanet(s, i)
  PROVE  Steady
  <1> DEFINE w == IF i.type = "canister" THEN Min({TOXMAX, toxic}) ELSE 0
             y == At(i, "landed", Nil)
             g == [ship EXCEPT ![s] =
                     [InitializedState([i EXCEPT !.waste = w]) EXCEPT !.dock = "landed"]]
  <1>1. /\ FleetSound(ship) /\ Hangars(ship, grown) /\ stockpile \in Nat /\ toxic \in Nat
        /\ loose \subseteq Ship /\ ship \in [Ship -> Craft]
    BY DEF FleetInv, FleetSound
  <1>2. /\ ~Alive(ship, s) /\ i.cost <= stockpile /\ stockpile' = stockpile - i.cost
        /\ toxic' = toxic - w /\ Ordered(g) /\ loose' = loose /\ grown' = grown
    BY DEF CreateByPlanet, IsNext, Quiet
  <1>3. w \in Nat /\ w <= toxic
    BY <1>1, FleetNumbers, SmallerOf
  <1>4. [InitializedState([i EXCEPT !.waste = w]) EXCEPT !.dock = "landed"] = y
    <2> HIDE DEF w
    <2> QED BY DEF InitializedState, At, Fresh, Craft
  <1> HIDE DEF w
  <1>5. g = [ship EXCEPT ![s] = y]
    BY <1>4, Zenon
  <1>6. Mooring("landed", Nil)
    BY DEF Mooring, Dock
  <1>7. /\ Whole(y) /\ y.dock = "landed" /\ y.hanger = 0
        /\ i.cost \in Nat /\ ScrapValue(y) \in Nat /\ ScrapValue(y) <= i.cost
        /\ y.mass = LocalMass(y)
    BY <1>6, FreshAt
  <1>8. Ordered(g)
    BY <1>2
  <1> HIDE DEF y
  <1>9. Changes(ship, g, s) /\ g[s] = y
    <2>1. y \in Craft
      BY <1>7 DEF Whole
    <2>2. Changes(ship, [ship EXCEPT ![s] = y], s) /\ [ship EXCEPT ![s] = y][s] = y
      BY <1>1, <2>1, PutChanges
    <2> QED BY <1>5, <2>2, Zenon
  <1> HIDE DEF g
  <1>10. /\ FleetSound(g)
         /\ \A x \in Ship : Alive(g, x) <=> Alive(ship, x) \/ x = s
         /\ InCarrier(ship, s) = {} /\ \A c \in Ship : s \notin InCarrier(ship, c)
         /\ \A c \in Ship : InCarrier(g, c) = InCarrier(ship, c)
    <2>1. Quay(ship, g[s]) /\ g[s].dock # "berthed"
      BY <1>7, <1>9 DEF Quay
    <2>2. /\ FleetSound(g)
          /\ \A x \in Ship : Alive(g, x) <=> Alive(ship, x) \/ x = s
          /\ InCarrier(ship, s) = {} /\ \A c \in Ship : s \notin InCarrier(ship, c)
          /\ \A c \in Ship :
               InCarrier(g, c) = IF g[s].dock = "berthed" /\ g[s].dest = c
                                 THEN InCarrier(ship, c) \cup {s} ELSE InCarrier(ship, c)
      BY <1>1, <1>2, <1>7, <1>9, <2>1, NewShip
    <2> QED BY <2>1, <2>2
  <1>11. Hangars(g, grown)
    <2>1. \A x \in Ship : Alive(ship, x) => g[x] = ship[x]
      BY <1>2, <1>9 DEF Changes
    <2> QED BY <1>1, <1>7, <1>9, <1>10, <2>1, HangarsJoined
  <1>12. stockpile' \in Nat /\ toxic' \in Nat
    BY <1>1, <1>2, <1>3, <1>7
  <1>13. Wealth(g, stockpile') <= Wealth(ship, stockpile)
    <2>1. \A x \in Ship : Worth(ship)[x] \in Int
      BY <1>1, WorthIs
    <2>2. \A x \in Ship \ {s} : Worth(g)[x] <= Worth(ship)[x]
      <3>1. \A x \in Ship \ {s} : Worth(g)[x] = Worth(ship)[x]
        BY <1>9 DEF Worth, Changes, Alive
      <3> QED BY <2>1, <3>1
    <2>3. Worth(ship)[s] = 0 /\ Worth(g)[s] = ScrapValue(y)
      BY <1>2, <1>9, <1>10 DEF Worth
    <2>4. stockpile' + Worth(g)[s] <= stockpile + Worth(ship)[s]
      BY <1>1, <1>2, <1>7, <2>3
    <2> QED BY <1>1, <1>10, <1>12, <2>2, <2>4, NoRicherByOne
  <1>14. Masses(g, loose')
    <2>1. Masses(ship, loose)
      BY DEF FleetInv
    <2>2. \A x \in Ship \ {s} : g[x] = ship[x] /\ InCarrier(g, x) = InCarrier(ship, x)
      BY <1>9, <1>10 DEF Changes
    <2>3. InCarrier(g, s) = {} /\ g[s].mass = LocalMass(g[s]) /\ 0 \in Int
      BY <1>7, <1>9, <1>10
    <2> QED BY <1>1, <1>2, <1>10, <2>1, <2>2, <2>3, NewMasses
  <1> QED BY <1>1, <1>2, <1>8, <1>10, <1>11, <1>12, <1>13, <1>14, OrderedKeeps

LEMMA BuildKeeps ==
  ASSUME FleetInv, NEW s \in Ship, NEW t \in Type, BuildOnPlanet(s, t)
  PROVE  Steady
  BY FreshShips, CreateByPlanetKeeps DEF BuildOnPlanet
LEMMA BuildInFactoryKeeps ==
  ASSUME FleetInv, NEW b \in Ship, NEW s \in Ship, BuildInFactory(b, s)
  PROVE  Steady
  <1>1. HasDesign(ship[b]) /\ Landed(ship, b) /\ CreateByPlanet(s, GetFactShip(ship[b]))
    BY DEF BuildInFactory, FactoryReady
  <1>2. Whole(ship[b])
    BY <1>1 DEF FleetInv, FleetSound, Landed, Alive
  <1> QED BY <1>1, <1>2, FreshShips, CreateByPlanetKeeps

(* A ship built by a ship, before its mass and size are entered in b's     *)
(* books.                                                                  *)
LEMMA ShipByShip ==
  ASSUME FleetSound(ship), NEW b \in Ship, NEW s \in Ship, NEW i, Fresh(i), Shipyard(b),
         ~Alive(ship, s), i.cost <= ship[b].res, NEW f, f = CreatedByShip(b, s, i)
  PROVE  /\ b # s /\ Alive(ship, b) /\ ship[b].type # "factory" /\ ~Berthed(ship, b)
         /\ FleetSound(f)
         /\ \A x \in Ship : Alive(f, x) <=> Alive(ship, x) \/ x = s
         /\ InCarrier(ship, s) = {} /\ \A c \in Ship : s \notin InCarrier(ship, c)
         /\ \A c \in Ship :
              InCarrier(f, c) = IF ~Outside(b) /\ c = b
                                THEN InCarrier(ship, c) \cup {s} ELSE InCarrier(ship, c)
         /\ \A x \in Ship \ {b, s} : f[x] = ship[x] /\ Worth(f)[x] = Worth(ship)[x]
         /\ f[b].size = ship[b].size /\ f[b].bay = ship[b].bay /\ f[b].hanger = ship[b].hanger
         /\ f[b].type = ship[b].type /\ ~Berthed(f, b)
         /\ f[b].mass = ship[b].mass - i.cost /\ LocalMass(f[b]) = LocalMass(ship[b]) - i.cost
         /\ f[s].size = i.size /\ f[s].hanger = 0 /\ f[s].mass = i.mass /\ LocalMass(f[s]) = i.mass
         /\ i.cost \in Nat
         /\ Worth(f)[b] = Worth(ship)[b] - i.cost
         /\ Worth(ship)[s] = 0 /\ Worth(f)[s] <= i.cost
  <1> DEFINE n == i.cost
             h == Spent(ship, b, n)
             d == IF Outside(b) THEN "spaceborne" ELSE "berthed"
             t == IF Outside(b) THEN Nil ELSE b
             y == At(i, d, t)
  <1>1. Alive(ship, b) /\ ship[b].type # "factory" /\ ~Docked(ship, b) /\ b # s
    BY DEF Shipyard
  <1>2. ~Berthed(ship, b) /\ Whole(ship[b]) /\ ship \in [Ship -> Craft]
    BY <1>1 DEF Docked, Berthed, FleetSound
  <1>3. i \in Craft /\ n \in Nat
    BY CraftFields DEF Fresh
  <1>4. Stows(ship, h, b, 0 - n)
    BY <1>1, <1>3, SpentStows
  <1>5. ship[b].res + (0 - n) >= 0 /\ 0 - n \in Int
    BY <1>2, <1>3, CraftFields
  <1>6. f = [h EXCEPT ![s] = y]
    <2>1. (IF Outside(b) THEN [i EXCEPT !.dock = "spaceborne"]
                         ELSE [i EXCEPT !.dock = "berthed", !.dest = b]) = y
      <3>1. CASE Outside(b)
        BY <1>3, <3>1 DEF Fresh, At, Craft
      <3>2. CASE ~Outside(b)
        BY <3>2, Zenon DEF At
      <3> QED BY <3>1, <3>2
    <2> QED BY <2>1, Zenon DEF CreatedByShip
  <1>7. Mooring(d, t)
    BY DEF Mooring, Dock
  <1>8. /\ Whole(y) /\ y.dock = d /\ y.dest = t /\ y.type = i.type /\ y.size = i.size
        /\ y.hanger = 0 /\ y.mass = i.mass /\ ScrapValue(y) <= i.cost /\ LocalMass(y) = i.mass
    BY <1>7, FreshAt
  <1>9. d = (IF Outside(b) THEN "spaceborne" ELSE "berthed") /\ t = (IF Outside(b) THEN Nil ELSE b)
    OBVIOUS
  <1> HIDE DEF h, y, d, t
  <1>10. /\ FleetSound(h) /\ SameBerths(ship, h) /\ SameShape(ship, h)
         /\ h[b].mass = ship[b].mass + (0 - n) /\ LocalMass(h[b]) = LocalMass(ship[b]) + (0 - n)
         /\ \A x \in Ship \ {b} : h[x] = ship[x] /\ Worth(h)[x] = Worth(ship)[x]
         /\ Worth(h)[b] = Worth(ship)[b] + (0 - n)
    BY <1>1, <1>4, <1>5, StowsKeeps
  <1>11. Changes(h, f, s) /\ f[s] = y
    <2>1. y \in Craft
      BY <1>8 DEF Whole
    <2>2. Changes(h, [h EXCEPT ![s] = y], s) /\ [h EXCEPT ![s] = y][s] = y
      BY <1>10, <2>1, PutChanges
    <2> QED BY <1>6, <2>2, Zenon
  <1>12. ~Alive(h, s) /\ Quay(h, f[s])
    <2>1. Alive(h, b) /\ h[b].type # "factory" /\ ~Berthed(h, b)
      BY <1>1, <1>2, <1>10 DEF SameBerths, SameShape
    <2> QED BY <1>8, <1>9, <1>10, <1>11, <2>1 DEF Quay, SameBerths
  <1>13. /\ FleetSound(f)
         /\ \A x \in Ship : Alive(f, x) <=> Alive(h, x) \/ x = s
         /\ InCarrier(h, s) = {} /\ \A c \in Ship : s \notin InCarrier(h, c)
         /\ \A c \in Ship :
              InCarrier(f, c) = IF f[s].dock = "berthed" /\ f[s].dest = c
                                THEN InCarrier(h, c) \cup {s} ELSE InCarrier(h, c)
    BY <1>8, <1>10, <1>11, <1>12, NewShip
  <1>14. /\ \A c \in Ship : InCarrier(h, c) = InCarrier(ship, c)
         /\ \A x \in Ship : Alive(h, x) <=> Alive(ship, x)
    BY <1>10, BerthsFollow DEF SameBerths
  <1>15. \A c \in Ship : InCarrier(f, c) = IF ~Outside(b) /\ c = b
                                THEN InCarrier(ship, c) \cup {s} ELSE InCarrier(ship, c)
    BY <1>8, <1>9, <1>11, <1>13, <1>14
  <1>16. \A x \in Ship \ {b, s} : f[x] = ship[x] /\ Worth(f)[x] = Worth(ship)[x]
    BY <1>10, <1>11 DEF Changes, Worth, Alive
  <1>17. f[b] = h[b] /\ Worth(f)[b] = Worth(h)[b]
    BY <1>1, <1>11 DEF Changes, Worth, Alive
  <1>18. Worth(ship)[b] \in Int /\ ship[b].mass \in Int /\ LocalMass(ship[b]) \in Int
    BY <1>2, WorthIs, CraftFields, HullNumbers
  <1>19. /\ Worth(f)[b] = Worth(ship)[b] - n /\ f[b].mass = ship[b].mass - n
         /\ LocalMass(f[b]) = LocalMass(ship[b]) - n
    BY <1>3, <1>10, <1>17, <1>18
  <1>20. f[b].size = ship[b].size /\ f[b].bay = ship[b].bay /\ f[b].hanger = ship[b].hanger
         /\ f[b].type = ship[b].type /\ ~Berthed(f, b)
    BY <1>2, <1>10, <1>17 DEF SameShape, Berthed
  <1>21. Worth(ship)[s] = 0 /\ Worth(f)[s] <= n
    BY <1>8, <1>11, <1>13 DEF Worth
  <1> HIDE DEF n
  <1> QED BY <1>1, <1>2, <1>3, <1>8, <1>11, <1>13, <1>14, <1>15, <1>16, <1>19, <1>20,
             <1>21 DEF n

LEMMA BuildOnShipKeeps ==
  ASSUME FleetInv, NEW b \in Ship, NEW s \in Ship, NEW t \in Type, BuildOnShip(b, s, t)
  PROVE  Steady
  <1> DEFINE i == GetShip(t)
             f == CreatedByShip(b, s, i)
             g == LoadCraft(f, b, i.size, i.mass)
  <1>1. /\ FleetSound(ship) /\ Hangars(ship, grown) /\ stockpile \in Nat /\ toxic \in Nat
        /\ loose \subseteq Ship /\ ship \in [Ship -> Craft]
    BY DEF FleetInv, FleetSound
  <1>2. /\ Shipyard(b) /\ ~Alive(ship, s) /\ i.cost <= ship[b].res
        /\ \/ Outside(b) /\ Ordered(f)
           \/ ~Outside(b) /\ ship[b].hanger + i.size <= ship[b].bay /\ Ordered(g)
        /\ stockpile' = stockpile /\ toxic' = toxic /\ loose' = loose /\ grown' = grown
    BY Zenon DEF BuildOnShip, IsNext, Quiet
  <1>3. Fresh(i) /\ i.size \in Nat /\ i.mass \in Int
    BY FreshShips, CraftFields DEF Fresh
  <1> HIDE DEF i
  <1> HIDE DEF f
  <1>4. /\ b # s /\ Alive(ship, b) /\ FleetSound(f)
        /\ \A x \in Ship : Alive(f, x) <=> Alive(ship, x) \/ x = s
        /\ InCarrier(ship, s) = {} /\ \A c \in Ship : s \notin InCarrier(ship, c)
        /\ \A c \in Ship :
              InCarrier(f, c) = IF ~Outside(b) /\ c = b
                                THEN InCarrier(ship, c) \cup {s} ELSE InCarrier(ship, c)
        /\ \A x \in Ship \ {b, s} : f[x] = ship[x] /\ Worth(f)[x] = Worth(ship)[x]
        /\ f[b].size = ship[b].size /\ f[b].bay = ship[b].bay /\ f[b].hanger = ship[b].hanger
        /\ f[s].size = i.size /\ f[s].hanger = 0
        /\ i.cost \in Nat
        /\ Worth(f)[b] = Worth(ship)[b] - i.cost
        /\ Worth(ship)[s] = 0 /\ Worth(f)[s] <= i.cost
    BY <1>1, <1>2, <1>3, ShipByShip DEF f
  <1>a. /\ ship[b].type # "factory" /\ ~Berthed(ship, b) /\ f[b].type = ship[b].type /\ ~Berthed(f, b)
        /\ f[b].mass = ship[b].mass - i.cost /\ LocalMass(f[b]) = LocalMass(ship[b]) - i.cost
        /\ f[s].mass = i.mass /\ LocalMass(f[s]) = i.mass
    BY <1>1, <1>2, <1>3, ShipByShip DEF f
  <1>b. Masses(ship, loose) /\ i.cost \in Int /\ ship[b].mass \in Int
    BY <1>1, <1>4, CraftFields DEF FleetInv
  <1>c. Own(f[b]) = Own(ship[b]) - i.cost
    <2>1. Own(ship[b]) = LocalMass(ship[b]) /\ Alive(f, b)
      BY <1>1, <1>4, <1>a, MassNumbers
    <2>2. Own(f[b]) = LocalMass(f[b])
      BY <1>4, <1>a, <2>1, MassNumbers
    <2> QED BY <1>a, <2>1, <2>2
  <1>5. \A x \in Ship : Worth(ship)[x] \in Int /\ Worth(f)[x] \in Int
    BY <1>1, <1>4, WorthIs
  <1>6. /\ stockpile + Worth(f)[b] + Worth(f)[s] <= stockpile + Worth(ship)[b] + Worth(ship)[s]
        /\ \A x \in Ship \ {b, s} : Worth(f)[x] <= Worth(ship)[x]
    BY <1>1, <1>4, <1>5
  <1>7. CASE Outside(b) /\ Ordered(f)
    <2>1. \A x \in Ship : InCarrier(f, x) = InCarrier(ship, x)
      BY <1>4, <1>7
    <2>2. \A x \in Ship : Alive(ship, x) =>
             f[x].size = ship[x].size /\ f[x].bay = ship[x].bay /\ f[x].hanger = ship[x].hanger
      BY <1>2, <1>4
    <2>3. Hangars(f, grown)
      BY <1>1, <1>4, <2>1, <2>2, HangarsJoined
    <2>4. Wealth(f, stockpile) <= Wealth(ship, stockpile)
      <3>1. b # s /\ FleetSound(f) /\ stockpile \in Int /\ FleetSound(ship)
        BY <1>1, <1>4
      <3> QED BY <1>6, <3>1, NoRicherByTwo
    <2>5. Masses(f, loose')
      <3>1. \A x \in Ship \ {b, s} : f[x] = ship[x] /\ InCarrier(f, x) = InCarrier(ship, x)
        BY <1>4, <2>1
      <3>2. InCarrier(f, s) = {} /\ f[s].mass = LocalMass(f[s])
        BY <1>4, <1>a, <2>1
      <3> QED BY <1>1, <1>2, <1>4, <1>a, <1>b, <1>c, <2>1, <3>1, <3>2, NewMasses
    <2> QED BY <1>1, <1>2, <1>4, <1>7, <2>3, <2>4, <2>5, OrderedKeeps
  <1>8. CASE ~Outside(b) /\ ship[b].hanger + i.size <= ship[b].bay /\ Ordered(g)
    <2> HIDE DEF g
    <2>1. Alive(f, b) /\ Alive(f, s)
      BY <1>4
    <2>2. /\ Rebooked(f, g) /\ Changes(f, g, b) /\ g[b].hanger = f[b].hanger + i.size
      BY <1>3, <1>4, <2>1, LoadCraftBooks DEF g
    <2>3. /\ FleetSound(g) /\ SameBerths(f, g)
          /\ \A x \in Ship : Worth(g)[x] = Worth(f)[x]
      BY <1>4, <2>2, RebookedKeeps
    <2>4. /\ \A x \in Ship : InCarrier(g, x) = InCarrier(f, x)
          /\ \A x \in Ship : Alive(g, x) <=> Alive(f, x)
      BY <2>3, BerthsFollow DEF SameBerths
    <2>5. \A x \in Ship \ {b} : g[x] = f[x]
      BY <2>2 DEF Changes
    <2>6. g[b].size = f[b].size /\ g[b].bay = f[b].bay
      BY <2>2 DEF Rebooked, SameHull
    <2>7. \A x \in Ship : Alive(ship, x) => g[x].size = ship[x].size /\ g[x].bay = ship[x].bay
      BY <1>2, <1>4, <2>5, <2>6
    <2>8. g[s].hanger = 0 /\ InCarrier(ship, s) = {} /\ InCarrier(g, s) = {} /\ g[s].size = i.size
      BY <1>4, <2>4, <2>5
    <2>9. \A x \in Ship : Alive(ship, x) =>
            \/ InCarrier(g, x) = InCarrier(ship, x) /\ g[x].hanger = ship[x].hanger
            \/ /\ InCarrier(g, x) = InCarrier(ship, x) \cup {s}
               /\ g[x].hanger = ship[x].hanger + g[s].size
               /\ ship[x].hanger + g[s].size <= ship[x].bay
      <3>1. \A x \in Ship \ {b, s} : InCarrier(g, x) = InCarrier(ship, x)
                                     /\ g[x].hanger = ship[x].hanger
        BY <1>4, <2>4, <2>5
      <3>2. /\ InCarrier(g, b) = InCarrier(ship, b) \cup {s}
            /\ g[b].hanger = ship[b].hanger + g[s].size
            /\ ship[b].hanger + g[s].size <= ship[b].bay
        BY <1>4, <1>8, <2>2, <2>4, <2>8
      <3> QED BY <1>2, <3>1, <3>2
    <2>10. Hangars(g, grown)
      <3>1. \A x \in Ship : Alive(g, x) <=> Alive(ship, x) \/ x = s
        BY <1>4, <2>4
      <3> QED BY <1>1, <1>4, <2>3, <2>7, <2>8, <2>9, <3>1, HangarsJoined
    <2>11. Wealth(g, stockpile) <= Wealth(ship, stockpile)
      <3>1. /\ stockpile + Worth(g)[b] + Worth(g)[s] <= stockpile + Worth(ship)[b] + Worth(ship)[s]
            /\ \A x \in Ship \ {b, s} : Worth(g)[x] <= Worth(ship)[x]
        BY <1>6, <2>3
      <3> QED BY <1>1, <1>4, <2>3, <3>1, NoRicherByTwo
    <2>12. Masses(g, loose')
      <3>1. \A x \in Ship \ {b, s} : g[x] = ship[x] /\ InCarrier(g, x) = InCarrier(ship, x)
        BY <1>4, <2>4, <2>5
      <3>2. /\ \A x \in Ship : BaseMass(g[x]) = BaseMass(f[x]) /\ LocalMass(g[x]) = LocalMass(f[x])
            /\ g[b].mass = f[b].mass + i.mass /\ g[b].type = f[b].type
        <4>1. \A x \in Ship : BaseMass(g[x]) = BaseMass(f[x]) /\ LocalMass(g[x]) = LocalMass(f[x])
          BY <1>4, <2>2, RebookedKeeps
        <4>2. g[b].mass = f[b].mass + i.mass
          BY <1>3, <1>4, <2>1, LoadCraftBooks DEF g
        <4>3. g[b].type = f[b].type
          BY <2>2 DEF Rebooked, SameHull
        <4> QED BY <4>1, <4>2, <4>3
      <3>3. g[s] = f[s] /\ ~Berthed(g, b)
        BY <1>4, <1>a, <2>3, <2>5 DEF SameBerths
      <3>4. InCarrier(g, s) = {} /\ g[s].mass = LocalMass(g[s]) /\ g[s].mass = i.mass
        BY <1>a, <2>8, <3>2, <3>3
      <3>5. Own(g[b]) = Own(ship[b]) - i.cost
        <4>1. Own(g[b]) = LocalMass(g[b]) /\ Own(f[b]) = LocalMass(f[b])
          BY <1>4, <1>a, <2>1, <2>3, <3>2, MassNumbers DEF SameBerths
        <4> QED BY <1>c, <3>2, <4>1
      <3>6. InCarrier(g, b) = InCarrier(ship, b) \cup {s} /\ g[b].mass = ship[b].mass - i.cost + g[s].mass
            /\ LocalMass(g[b]) = LocalMass(ship[b]) - i.cost
        BY <1>4, <1>8, <1>a, <1>b, <2>4, <3>2, <3>4
      <3>7. \A x \in Ship : Alive(g, x) <=> Alive(ship, x) \/ x = s
        BY <1>4, <2>4
      <3> QED BY <1>1, <1>2, <1>4, <1>a, <1>b, <2>3, <3>1, <3>3, <3>4, <3>5, <3>6,
                 <3>7, NewMasses
    <2> QED BY <1>1, <1>2, <1>8, <2>3, <2>10, <2>11, <2>12, OrderedKeeps
  <1> QED BY <1>2, <1>7, <1>8

-----------------------------------------------------------------------------
(* Into a hangar, and out of it *)

(* A ship that was free goes into a carrier that is in no other.           *)
LEMMA Boards ==
  ASSUME NEW f, FleetSound(f), NEW s \in Ship, NEW c \in Ship, s # c,
         f[s].dock \in {"landed", "spaceborne"},
         Alive(f, c), f[c].type # "factory", ~Berthed(f, c),
         NEW g, Changes(f, g, s), Whole(g[s]), g[s].type = f[s].type,
         g[s].dock = "berthed", g[s].dest = c
  PROVE  /\ FleetSound(g) /\ \A x \in Ship : Alive(g, x) <=> Alive(f, x)
         /\ \A x \in Ship : s \notin InCarrier(f, x)
         /\ \A x \in Ship : InCarrier(g, x) = IF x = c THEN InCarrier(f, x) \cup {s}
                                              ELSE InCarrier(f, x)
  <1>1. g \in [Ship -> Craft] /\ \A x \in Ship \ {s} : g[x] = f[x]
    BY DEF Changes
  <1>2. \A x \in Ship : Alive(g, x) <=> Alive(f, x)
    BY <1>1 DEF Alive
  <1>3. \A x \in Ship : IF Alive(g, x) THEN Whole(g[x]) ELSE g[x] = Gone
    BY <1>1, <1>2 DEF FleetSound, Alive
  <1>4. \A x \in Ship : Berthed(g, x) => /\ g[x].dest \in Ship /\ Alive(g, g[x].dest)
                                        /\ g[g[x].dest].type # "factory"
    BY <1>1, <1>2 DEF FleetSound, Docks, Berthed, Alive
  <1>5. ASSUME NEW x \in Ship, g[x].dock = "moored"
        PROVE  /\ g[x].dest \in Ship /\ g[x].dest # x
               /\ g[g[x].dest].dock = "moored" /\ g[g[x].dest].dest = x
    <2>1. x # s /\ g[x] = f[x]
      BY <1>1, <1>5
    <2>2. /\ f[x].dest \in Ship /\ f[x].dest # x
          /\ f[f[x].dest].dock = "moored" /\ f[f[x].dest].dest = x
      BY <1>5, <2>1 DEF FleetSound, Docks
    <2>3. f[x].dest # s
      BY <2>2
    <2> QED BY <1>1, <2>1, <2>2, <2>3
  <1>6. Ranked(g)
    <2>1. ~Berthed(g, c)
      BY <1>1 DEF Berthed
    <2>2. \A x \in Ship \ {s} : Berthed(g, x) => Berthed(f, x) /\ g[x].dest = f[x].dest
      BY <1>1 DEF Berthed
    <2> QED BY <2>1, <2>2, RanksJoin DEF FleetSound
  <1>7. FleetSound(g)
    BY <1>1, <1>3, <1>4, <1>5, <1>6 DEF FleetSound, Docks
  <1>8. /\ \A x \in Ship : s \notin InCarrier(f, x)
        /\ \A x \in Ship : InCarrier(g, x) = IF x = c THEN InCarrier(f, x) \cup {s}
                                             ELSE InCarrier(f, x)
    BY <1>1 DEF InCarrier, Berthed
  <1> QED BY <1>2, <1>7, <1>8

(* A ship leaves its carrier. *)
LEMMA Departs ==
  ASSUME NEW f, FleetSound(f), NEW s \in Ship, Berthed(f, s),
         NEW g, Changes(f, g, s), Whole(g[s]), g[s].type = f[s].type,
         g[s].dock \in {"landed", "spaceborne"}
  PROVE  /\ FleetSound(g) /\ \A x \in Ship : Alive(g, x) <=> Alive(f, x)
         /\ \A x \in Ship : InCarrier(g, x) = InCarrier(f, x) \ {s}
  <1>1. g \in [Ship -> Craft] /\ \A x \in Ship \ {s} : g[x] = f[x]
    BY DEF Changes
  <1>2. \A x \in Ship : Alive(g, x) <=> Alive(f, x)
    BY <1>1 DEF Alive, Berthed
  <1>3. \A x \in Ship : IF Alive(g, x) THEN Whole(g[x]) ELSE g[x] = Gone
    BY <1>1, <1>2 DEF FleetSound, Alive
  <1>4. \A x \in Ship : Berthed(g, x) => /\ g[x].dest \in Ship /\ Alive(g, g[x].dest)
                                        /\ g[g[x].dest].type # "factory"
    BY <1>1, <1>2 DEF FleetSound, Docks, Berthed, Alive
  <1>5. ASSUME NEW x \in Ship, g[x].dock = "moored"
        PROVE  /\ g[x].dest \in Ship /\ g[x].dest # x
               /\ g[g[x].dest].dock = "moored" /\ g[g[x].dest].dest = x
    <2>1. x # s /\ g[x] = f[x]
      BY <1>1, <1>5
    <2>2. /\ f[x].dest \in Ship /\ f[x].dest # x
          /\ f[f[x].dest].dock = "moored" /\ f[f[x].dest].dest = x
      BY <1>5, <2>1 DEF FleetSound, Docks
    <2>3. f[x].dest # s
      BY <2>2 DEF Berthed
    <2> QED BY <1>1, <2>1, <2>2, <2>3
  <1>6. Ranked(g)
    <2>1. \A x \in Ship : Berthed(g, x) => Berthed(f, x) /\ g[x].dest = f[x].dest
      BY <1>1 DEF Berthed
    <2> QED BY <2>1, RanksLess DEF FleetSound
  <1>7. FleetSound(g)
    BY <1>1, <1>3, <1>4, <1>5, <1>6 DEF FleetSound, Docks
  <1>8. \A x \in Ship : InCarrier(g, x) = InCarrier(f, x) \ {s}
    BY <1>1 DEF InCarrier, Berthed
  <1> QED BY <1>2, <1>7, <1>8

(* The books of the hangars when a ship is out of the one it was in, and    *)
(* others may be no more.                                                  *)
LEMMA HangarsLeft ==
  ASSUME NEW f, FleetSound(f), NEW gr, Hangars(f, gr), NEW g, FleetSound(g), NEW s \in Ship,
         \A x \in Ship : Alive(g, x) =>
            /\ Alive(f, x) /\ InCarrier(g, x) = InCarrier(f, x) \ {s}
            /\ g[x].size = f[x].size /\ g[x].bay = f[x].bay
            /\ g[x].hanger = IF s \in InCarrier(f, x)
                             THEN (IF f[x].hanger >= f[s].size THEN f[x].hanger - f[s].size ELSE 0)
                             ELSE f[x].hanger
  PROVE  Hangars(g, gr)
  <1> SUFFICES ASSUME NEW c \in Ship, Alive(g, c), gr[c] # "now"
               PROVE  /\ g[c].hanger = SizeInside(g, c)
                      /\ gr[c] = "never" => g[c].hanger <= g[c].bay
    BY DEF Hangars
  <1>1. f \in [Ship -> Craft] /\ g \in [Ship -> Craft]
    BY DEF FleetSound
  <1>2. /\ Alive(f, c) /\ InCarrier(g, c) = InCarrier(f, c) \ {s} /\ g[c].bay = f[c].bay
        /\ g[c].hanger = IF s \in InCarrier(f, c)
                         THEN (IF f[c].hanger >= f[s].size THEN f[c].hanger - f[s].size ELSE 0)
                         ELSE f[c].hanger
    OBVIOUS
  <1>3. f[c].hanger = SizeInside(f, c) /\ (gr[c] = "never" => f[c].hanger <= f[c].bay)
    BY <1>2 DEF Hangars
  <1>4. \A x \in InCarrier(f, c) \ {s} : g[x].size = f[x].size
    <2>1. \A x \in InCarrier(g, c) : x \in Ship /\ Alive(g, x)
      BY DEF InCarrier, Berthed, Alive
    <2> QED BY <1>2, <2>1
  <1>5. CASE s \in InCarrier(f, c)
    <2>1. SizeInside(g, c) = SizeInside(f, c) - f[s].size
      <3>1. InCarrier(g, c) = InCarrier(f, c) \ {s}
        BY <1>2
      <3> QED BY <1>1, <1>4, <1>5, <3>1, SizeInsideLess
    <2>2. f[s].size <= SizeInside(f, c) /\ f[s].size \in Nat /\ SizeInside(f, c) \in Nat
          /\ f[c].bay \in Nat
      BY <1>1, <1>5, SizeInsideCovers, CraftFields
    <2> QED BY <1>2, <1>3, <1>5, <2>1, <2>2
  <1>6. CASE s \notin InCarrier(f, c)
    <2>1. SizeInside(g, c) = SizeInside(f, c)
      <3>1. InCarrier(g, c) = InCarrier(f, c) /\ \A x \in InCarrier(f, c) : g[x].size = f[x].size
        BY <1>2, <1>4, <1>6
      <3> QED BY <1>1, <3>1, SizeInsideSame
    <2> QED BY <1>2, <1>3, <1>6, <2>1
  <1> QED BY <1>5, <1>6

(* What docking in a carrier leaves. *)
DockedAs(f, g, s, c) ==
  /\ FleetSound(g) /\ \A x \in Ship : Alive(g, x) <=> Alive(f, x)
  /\ \A x \in Ship : s \notin InCarrier(f, x)
  /\ \A x \in Ship : InCarrier(g, x) = IF x = c THEN InCarrier(f, x) \cup {s}
                                       ELSE InCarrier(f, x)
  /\ \A x \in Ship : /\ g[x].size = f[x].size /\ g[x].bay = f[x].bay
                     /\ Worth(g)[x] = Worth(f)[x] /\ LocalMass(g[x]) = LocalMass(f[x])
                     /\ BaseMass(g[x]) = BaseMass(f[x]) /\ g[x].type = f[x].type
  /\ \A x \in Ship \ {s, c} : g[x] = f[x]
  /\ g[s].hanger = f[s].hanger /\ g[s].mass = f[s].mass
  /\ g[c].hanger = f[c].hanger + f[s].size /\ g[c].mass = f[c].mass + f[s].mass

LEMMA DocksIn ==
  ASSUME NEW f, FleetSound(f), NEW s \in Ship, NEW c \in Ship, s # c,
         f[s].dock \in {"landed", "spaceborne"},
         Alive(f, c), f[c].type # "factory", ~Berthed(f, c),
         NEW g, g = DockedIn(f, s, c)
  PROVE  DockedAs(f, g, s, c)
  <1> DEFINE a == Placed(f, s, "berthed", c)
             y == At(f[s], "berthed", c)
             z == f[s].size
             m == f[s].mass
             b == LoadCraft(a, c, z, m)
  <1>1. Whole(f[s]) /\ Alive(f, s) /\ Mooring("berthed", c)
    BY DEF FleetSound, Alive, Mooring, Dock
  <1>2. z \in Int /\ m \in Int
    BY <1>1, CraftFields DEF Whole
  <1>3. Changes(f, a, s) /\ a[s] = y
    BY <1>1, PlacedChanges
  <1>4. /\ Whole(y) /\ y.dock = "berthed" /\ y.dest = c /\ SameHull(f[s], y) /\ y.size = f[s].size
        /\ y.hanger = f[s].hanger /\ y.mass = f[s].mass
        /\ ScrapValue(y) = ScrapValue(f[s]) /\ BaseMass(y) = BaseMass(f[s])
        /\ LocalMass(y) = LocalMass(f[s])
    BY <1>1, RedockedRecord
  <1>5. g = Propagated(b, c, m)
    BY DEF DockedIn
  <1> HIDE DEF a, y, b
  <1>6. y.type = f[s].type /\ y.bay = f[s].bay
    BY <1>4 DEF SameHull
  <1>7. /\ FleetSound(a) /\ \A x \in Ship : Alive(a, x) <=> Alive(f, x)
        /\ \A x \in Ship : s \notin InCarrier(f, x)
        /\ \A x \in Ship : InCarrier(a, x) = IF x = c THEN InCarrier(f, x) \cup {s}
                                             ELSE InCarrier(f, x)
    BY <1>3, <1>4, <1>6, Boards
  <1>8. a[c] = f[c] /\ Alive(a, c) /\ ~Berthed(a, c) /\ \A x \in Ship \ {s} : a[x] = f[x]
    BY <1>3 DEF Changes, Alive, Berthed
  <1>9. /\ Rebooked(a, b) /\ Changes(a, b, c)
        /\ b[c].hanger = a[c].hanger + z /\ b[c].mass = a[c].mass + m
    BY <1>2, <1>7, <1>8, LoadCraftBooks DEF b
  <1>10. /\ FleetSound(b) /\ SameBerths(a, b)
         /\ \A x \in Ship : /\ Worth(b)[x] = Worth(a)[x] /\ BaseMass(b[x]) = BaseMass(a[x])
                            /\ LocalMass(b[x]) = LocalMass(a[x])
    BY <1>7, <1>9, RebookedKeeps
  <1>11. g = b
    <2>1. Ancestors(b, c) = {}
      <3>1. ~Berthed(b, c) /\ Docks(b)
        BY <1>8, <1>10 DEF SameBerths, FleetSound
      <3> QED BY <3>1, Around1
    <2>2. b \in [Ship -> Craft]
      BY <1>10 DEF FleetSound
    <2>3. Propagated(b, c, m) = [x \in Ship |-> b[x]]
      BY <2>1, Zenon DEF Propagated
    <2> QED BY <1>5, <2>2, <2>3
  <1>12. /\ \A x \in Ship : InCarrier(b, x) = InCarrier(a, x)
         /\ \A x \in Ship : Alive(b, x) <=> Alive(a, x)
    BY <1>10, BerthsFollow DEF SameBerths
  <1>13. \A x \in Ship : /\ a[x].size = f[x].size /\ a[x].bay = f[x].bay /\ a[x].type = f[x].type
                         /\ LocalMass(a[x]) = LocalMass(f[x]) /\ BaseMass(a[x]) = BaseMass(f[x])
                         /\ Worth(a)[x] = Worth(f)[x]
    BY <1>1, <1>3, <1>4, <1>6, <1>7, <1>8 DEF Worth
  <1>14. \A x \in Ship : b[x].size = a[x].size /\ b[x].bay = a[x].bay /\ b[x].type = a[x].type
    BY <1>9 DEF Rebooked, SameHull
  <1>15. \A x \in Ship \ {c} : b[x] = a[x]
    BY <1>9 DEF Changes
  <1>16. /\ \A x \in Ship \ {s, c} : b[x] = f[x]
         /\ b[s].hanger = f[s].hanger /\ b[s].mass = f[s].mass
         /\ b[c].hanger = f[c].hanger + f[s].size /\ b[c].mass = f[c].mass + f[s].mass
    BY <1>3, <1>4, <1>8, <1>9, <1>15
  <1>17. DockedAs(f, b, s, c)
    BY <1>7, <1>10, <1>12, <1>13, <1>14, <1>16 DEF DockedAs
  <1> QED BY <1>11, <1>17

(* A carrier takes in what the ship weighs; of a ship that is written off,  *)
(* it takes in the doubt.                                                  *)
LEMMA DockedMasses ==
  ASSUME NEW f, FleetSound(f), NEW L, Masses(f, L), NEW s \in Ship, NEW c \in Ship, s # c,
         Alive(f, s), Alive(f, c), ~Berthed(f, c), NEW g, DockedAs(f, g, s, c),
         NEW M, L \subseteq M, s \in L => c \in M
  PROVE  Masses(g, M)
  <1>1. /\ FleetSound(g) /\ \A x \in Ship : Alive(g, x) <=> Alive(f, x)
        /\ \A x \in Ship : s \notin InCarrier(f, x)
        /\ \A x \in Ship : InCarrier(g, x) = IF x = c THEN InCarrier(f, x) \cup {s}
                                             ELSE InCarrier(f, x)
        /\ \A x \in Ship : /\ LocalMass(g[x]) = LocalMass(f[x])
                           /\ BaseMass(g[x]) = BaseMass(f[x]) /\ g[x].type = f[x].type
        /\ \A x \in Ship \ {c} : g[x].mass = f[x].mass
        /\ g[c].mass = f[c].mass + f[s].mass
    BY DEF DockedAs
  <1>2. f \in [Ship -> Craft] /\ g \in [Ship -> Craft]
    BY <1>1 DEF FleetSound
  <1>3. \A x \in Ship : Alive(f, x) => Own(g[x]) = Own(f[x])
    BY <1>1, OwnSame
  <1>4. ASSUME NEW x \in Ship, Alive(f, x), Written(f, L, x) PROVE Written(g, M, x)
    <2> DEFINE T == Ancestors(f, x)
               U == IF s \in {x} \cup T THEN T \cup {c} ELSE T
    <2>1. T \subseteq Ship /\ Upwards(f, T) /\ (Berthed(f, x) => f[x].dest \in T)
      BY Around1 DEF FleetSound
    <2>2. ASSUME NEW y \in {x} \cup U, NEW d \in Ship, y \in InCarrier(g, d) PROVE d \in U
      <3>1. CASE y \in {x} \cup T
        <4>1. CASE y \in InCarrier(f, d)
          <5>1. Berthed(f, y) /\ f[y].dest = d
            BY <4>1 DEF InCarrier
          <5>2. d \in T
            BY <2>1, <3>1, <5>1 DEF Upwards
          <5> QED BY <5>2
        <4>2. CASE y \notin InCarrier(f, d)
          <5>1. y = s /\ d = c
            BY <1>1, <2>2, <4>2
          <5> QED BY <3>1, <5>1
        <4> QED BY <4>1, <4>2
      <3>2. CASE y = c
        <4>1. c \notin InCarrier(f, d)
          BY DEF InCarrier
        <4> QED BY <1>1, <2>2, <3>2, <4>1
      <3> QED BY <2>2, <3>1, <3>2
    <2>3. U \in SUBSET Ship
      BY <2>1
    <2>4. Ancestors(g, x) \subseteq U
      <3> HIDE DEF U
      <3> QED BY <1>1, <2>2, <2>3, AncestorsWithin
    <2>5. {x} \cup U \subseteq M
      BY <1>4 DEF Written
    <2> QED BY <2>4, <2>5 DEF Written
  <1>5. ASSUME NEW x \in Ship, Alive(f, x) PROVE Upheld(f, L, g, M, x)
    <2>1. f[x].mass \in Int /\ Own(f[x]) \in Int /\ LocalMass(f[x]) \in Int /\ MassInside(f, x) \in Int
      BY <1>5, MassNumbers
    <2>2. \A y \in InCarrier(f, x) : g[y].mass = f[y].mass
      BY <1>1 DEF InCarrier
    <2>3. CASE x # c
      <3>1. MassInside(g, x) = MassInside(f, x)
        BY <1>1, <1>2, <2>2, <2>3, MassInsideSame
      <3>2. (Exact(f, x) => Exact(g, x)) /\ (Heavy(f, x) => Heavy(g, x))
        BY <1>1, <1>3, <1>5, <2>3, <3>1 DEF Exact, Heavy
      <3> QED BY <1>4, <1>5, <3>2 DEF Upheld
    <2>4. CASE x = c
      <3>1. g[s].mass = f[s].mass /\ f[s].mass \in Int
        BY <1>1, <1>2, CraftFields
      <3>2. MassInside(g, x) = MassInside(f, x) + g[s].mass
        <4>1. InCarrier(g, x) = InCarrier(f, x) \cup {s} /\ s \notin InCarrier(f, x)
          BY <1>1, <2>4
        <4> QED BY <1>2, <2>2, <4>1, MassInsideMore
      <3>3. Exact(f, x) => Exact(g, x)
        BY <1>1, <2>1, <2>4, <3>1, <3>2 DEF Exact
      <3>4. CASE Heavy(f, s)
        <4>1. f[s].mass >= 0
          <5>1. Own(f[s]) \in Nat
            BY MassNumbers
          <5> QED BY <3>1, <3>4, <5>1 DEF Heavy
        <4>2. Heavy(f, x) => Heavy(g, x)
          BY <1>1, <1>3, <1>5, <2>1, <2>4, <3>1, <3>2, <4>1 DEF Heavy
        <4> QED BY <1>4, <1>5, <2>4, <3>3, <4>2 DEF Upheld
      <3>5. CASE ~Heavy(f, s)
        <4>1. c \in M
          BY <3>5 DEF Masses, Written
        <4>2. Ancestors(g, c) = {}
          <5>1. ASSUME Berthed(g, c) PROVE FALSE
            <6>1. g[c].dest \in Ship /\ c \in InCarrier(g, g[c].dest)
              BY <1>1, <5>1 DEF FleetSound, Docks, InCarrier
            <6>2. c \in InCarrier(f, g[c].dest)
              BY <1>1, <6>1
            <6> QED BY <6>2 DEF InCarrier
          <5> QED BY <1>1, <5>1, Around1 DEF FleetSound
        <4>3. Written(g, M, x)
          BY <2>4, <4>1, <4>2 DEF Written
        <4> QED BY <1>5, <2>4, <4>1, <4>3 DEF Upheld
      <3> QED BY <3>4, <3>5
    <2> QED BY <2>3, <2>4
  <1>6. \A x \in Ship : Alive(g, x) => Upheld(f, L, g, M, x)
    BY <1>1, <1>5
  <1> QED BY <1>6, MassesFollow, Zenon

LEMMA BerthKeeps ==
  ASSUME FleetInv, NEW s \in Ship, NEW c \in Ship, Berth(s, c)
  PROVE  Steady
  <1> DEFINE g == DockedIn(ship, s, c)
  <1>1. /\ FleetSound(ship) /\ Hangars(ship, grown) /\ stockpile \in Nat /\ toxic \in Nat
        /\ loose \subseteq Ship /\ ship \in [Ship -> Craft]
    BY DEF FleetInv, FleetSound
  <1>2. /\ s # c /\ Alive(ship, c) /\ ship[c].type # "factory"
        /\ ship[s].size <= HangerSpace(ship[c]) /\ Ordered(g)
        /\ loose' \subseteq Ship /\ stockpile' = stockpile /\ toxic' = toxic /\ grown' = grown
    BY <1>1 DEF Berth, Loosened
  <1>3. ship[s].dock \in {"landed", "spaceborne"} /\ ~Berthed(ship, c)
    BY DEF Berth, FromGround, FromSpace, Landed, Spaceborne, Berthed
  <1>4. g = DockedIn(ship, s, c)
    OBVIOUS
  <1> HIDE DEF g
  <1>5. DockedAs(ship, g, s, c)
    BY <1>1, <1>2, <1>3, <1>4, DocksIn
  <1>6. FleetSound(g)
    BY <1>5 DEF DockedAs
  <1>7. grown[c] = "never" => ship[c].hanger + ship[s].size <= ship[c].bay
    <2> SUFFICES ASSUME grown[c] = "never" PROVE ship[c].hanger + ship[s].size <= ship[c].bay
      OBVIOUS
    <2>1. ship[c].hanger <= ship[c].bay
      BY <1>1, <1>2 DEF Hangars
    <2>2. ship[c].bay - ship[c].hanger \in Int /\ 0 \in Int /\ ship[c].bay \in Int
          /\ ship[c].hanger \in Int /\ ship[s].size \in Int
      BY <1>1, CraftFields
    <2>3. HangerSpace(ship[c]) = IF 0 >= ship[c].bay - ship[c].hanger THEN 0
                                 ELSE ship[c].bay - ship[c].hanger
      BY <2>2, GreaterOf DEF HangerSpace
    <2> QED BY <1>2, <2>1, <2>2, <2>3
  <1>8. Hangars(g, grown)
    <2>1. /\ \A x \in Ship : Alive(g, x) <=> Alive(ship, x) \/ x = s
          /\ Alive(ship, s)
      BY <1>3, <1>5 DEF DockedAs, Alive
    <2>2. /\ \A x \in Ship : s \notin InCarrier(ship, x)
          /\ \A x \in Ship : g[x].size = ship[x].size /\ g[x].bay = ship[x].bay
      BY <1>5 DEF DockedAs
    <2>3. ASSUME NEW x \in Ship
          PROVE  \/ InCarrier(g, x) = InCarrier(ship, x) /\ g[x].hanger = ship[x].hanger
                 \/ /\ InCarrier(g, x) = InCarrier(ship, x) \cup {s}
                    /\ g[x].hanger = ship[x].hanger + g[s].size
                    /\ grown[x] = "never" => ship[x].hanger + g[s].size <= ship[x].bay
      <3>1. CASE x = c
        BY <1>5, <1>7, <2>2, <3>1 DEF DockedAs
      <3>2. CASE x # c
        BY <1>5, <3>2 DEF DockedAs
      <3> QED BY <3>1, <3>2
    <2>4. \A x \in Ship : Alive(ship, x) =>
                 \/ InCarrier(g, x) = InCarrier(ship, x) /\ g[x].hanger = ship[x].hanger
                 \/ /\ InCarrier(g, x) = InCarrier(ship, x) \cup {s}
                    /\ g[x].hanger = ship[x].hanger + g[s].size
                    /\ grown[x] = "never" => ship[x].hanger + g[s].size <= ship[x].bay
      BY <2>3
    <2> QED BY <1>1, <1>6, <2>1, <2>2, <2>4, HangarsJoined
  <1>9. Wealth(g, stockpile') <= Wealth(ship, stockpile)
    <2>1. \A x \in Ship : Worth(g)[x] <= Worth(ship)[x]
      BY <1>1, <1>5, WorthIs DEF DockedAs
    <2> QED BY <1>1, <1>2, <1>6, <2>1, NoRicher
  <1>10. Masses(g, loose')
    <2>1. Masses(ship, loose) /\ Alive(ship, s)
      BY <1>3 DEF FleetInv, Alive
    <2>2. loose \subseteq loose' /\ (s \in loose => c \in loose')
      BY DEF Berth, Loosened
    <2> QED BY <1>1, <1>2, <1>3, <1>5, <2>1, <2>2, DockedMasses
  <1> QED BY <1>1, <1>2, <1>6, <1>8, <1>9, <1>10, OrderedKeeps

\* What leaving the carrier c leaves.
LaunchedAs(f, g, s, c) ==
  /\ FleetSound(g) /\ \A x \in Ship : Alive(g, x) <=> Alive(f, x)
  /\ \A x \in Ship : InCarrier(g, x) = InCarrier(f, x) \ {s}
  /\ \A x \in Ship : /\ g[x].size = f[x].size /\ g[x].bay = f[x].bay
                     /\ Worth(g)[x] = Worth(f)[x] /\ LocalMass(g[x]) = LocalMass(f[x])
                     /\ BaseMass(g[x]) = BaseMass(f[x]) /\ g[x].type = f[x].type
  /\ \A x \in Ship \ {s, c} : g[x] = f[x]
  /\ g[s].hanger = f[s].hanger /\ g[s].mass = f[s].mass
  /\ g[c].hanger = IF f[c].hanger >= f[s].size THEN f[c].hanger - f[s].size ELSE 0
  /\ g[c].mass = IF f[c].mass - f[s].mass >= BaseMass(f[c]) THEN f[c].mass - f[s].mass
                 ELSE BaseMass(f[c])

LEMMA LaunchesFrom ==
  ASSUME NEW f, FleetSound(f), NEW s \in Ship, Berthed(f, s), NEW c \in Ship, c = f[s].dest,
         NEW d \in {"landed", "spaceborne"},
         NEW g, g = UnloadCraft(Placed(f, s, d, Nil), c, f[s].size, f[s].mass)
  PROVE  LaunchedAs(f, g, s, c)
  <1> DEFINE a == Placed(f, s, d, Nil)
             y == At(f[s], d, Nil)
             z == f[s].size
             m == f[s].mass
  <1>1. Whole(f[s]) /\ Alive(f, s) /\ Mooring(d, Nil)
    BY DEF FleetSound, Alive, Mooring, Dock, Berthed
  <1>2. z \in Int /\ m \in Int
    BY <1>1, CraftFields DEF Whole
  <1>3. Changes(f, a, s) /\ a[s] = y
    BY <1>1, PlacedChanges
  <1>4. /\ Whole(y) /\ y.dock = d /\ SameHull(f[s], y) /\ y.size = f[s].size
        /\ y.hanger = f[s].hanger /\ y.mass = f[s].mass
        /\ ScrapValue(y) = ScrapValue(f[s]) /\ BaseMass(y) = BaseMass(f[s])
        /\ LocalMass(y) = LocalMass(f[s])
    BY <1>1, RedockedRecord
  <1>5. g = UnloadCraft(a, c, z, m)
    OBVIOUS
  <1> HIDE DEF a, y
  <1>6. y.type = f[s].type /\ y.bay = f[s].bay
    BY <1>4 DEF SameHull
  <1>7. /\ FleetSound(a) /\ \A x \in Ship : Alive(a, x) <=> Alive(f, x)
        /\ \A x \in Ship : InCarrier(a, x) = InCarrier(f, x) \ {s}
    BY <1>3, <1>4, <1>6, Departs
  <1>8. c # s /\ Alive(f, c)
    BY PartnerIsOther DEF Docked, Berthed
  <1>9. a[c] = f[c] /\ Alive(a, c) /\ \A x \in Ship \ {s} : a[x] = f[x]
    BY <1>3, <1>8 DEF Changes, Alive
  <1> HIDE DEF z, m
  <1>10. /\ Rebooked(a, g) /\ Changes(a, g, c)
         /\ g[c].hanger = (IF a[c].hanger >= z THEN a[c].hanger - z ELSE 0)
         /\ g[c].mass = (IF a[c].mass - m >= BaseMass(a[c]) THEN a[c].mass - m ELSE BaseMass(a[c]))
    BY <1>2, <1>5, <1>7, <1>9, UnloadCraftBooks
  <1>11. /\ FleetSound(g) /\ SameBerths(a, g)
         /\ \A x \in Ship : /\ Worth(g)[x] = Worth(a)[x] /\ BaseMass(g[x]) = BaseMass(a[x])
                            /\ LocalMass(g[x]) = LocalMass(a[x])
    BY <1>7, <1>10, RebookedKeeps
  <1>12. /\ \A x \in Ship : InCarrier(g, x) = InCarrier(a, x)
         /\ \A x \in Ship : Alive(g, x) <=> Alive(a, x)
    BY <1>11, BerthsFollow DEF SameBerths
  <1>13. \A x \in Ship : /\ a[x].size = f[x].size /\ a[x].bay = f[x].bay /\ a[x].type = f[x].type
                         /\ LocalMass(a[x]) = LocalMass(f[x]) /\ BaseMass(a[x]) = BaseMass(f[x])
                         /\ Worth(a)[x] = Worth(f)[x]
    BY <1>1, <1>3, <1>4, <1>6, <1>7, <1>9 DEF Worth
  <1>14. \A x \in Ship : g[x].size = a[x].size /\ g[x].bay = a[x].bay /\ g[x].type = a[x].type
    BY <1>10 DEF Rebooked, SameHull
  <1>15. \A x \in Ship \ {c} : g[x] = a[x]
    BY <1>10 DEF Changes
  <1>16. /\ \A x \in Ship \ {s, c} : g[x] = f[x]
         /\ g[s].hanger = f[s].hanger /\ g[s].mass = f[s].mass
    BY <1>3, <1>4, <1>8, <1>9, <1>15
  <1>17. /\ g[c].hanger = (IF f[c].hanger >= f[s].size THEN f[c].hanger - f[s].size ELSE 0)
         /\ g[c].mass = (IF f[c].mass - f[s].mass >= BaseMass(f[c]) THEN f[c].mass - f[s].mass
                         ELSE BaseMass(f[c]))
    BY <1>9, <1>10 DEF z, m
  <1>18. \A x \in Ship : /\ g[x].size = f[x].size /\ g[x].bay = f[x].bay
                         /\ Worth(g)[x] = Worth(f)[x] /\ LocalMass(g[x]) = LocalMass(f[x])
                         /\ BaseMass(g[x]) = BaseMass(f[x]) /\ g[x].type = f[x].type
    BY <1>11, <1>13, <1>14
  <1>19. /\ FleetSound(g) /\ \A x \in Ship : Alive(g, x) <=> Alive(f, x)
         /\ \A x \in Ship : InCarrier(g, x) = InCarrier(f, x) \ {s}
    BY <1>7, <1>11, <1>12
  <1> QED BY <1>16, <1>17, <1>18, <1>19, Zenon DEF LaunchedAs

(* A carrier lets go of what it took in, unless it is written off.         *)
LEMMA LaunchedMasses ==
  ASSUME NEW f, FleetSound(f), NEW L, Masses(f, L), NEW s \in Ship, Berthed(f, s),
         NEW c \in Ship, c = f[s].dest, ~Berthed(f, c), NEW g, LaunchedAs(f, g, s, c)
  PROVE  Masses(g, L)
  <1>1. /\ FleetSound(g) /\ \A x \in Ship : Alive(g, x) <=> Alive(f, x)
        /\ \A x \in Ship : InCarrier(g, x) = InCarrier(f, x) \ {s}
        /\ \A x \in Ship : /\ LocalMass(g[x]) = LocalMass(f[x])
                           /\ BaseMass(g[x]) = BaseMass(f[x]) /\ g[x].type = f[x].type
        /\ \A x \in Ship \ {c} : g[x].mass = f[x].mass
        /\ g[c].mass = IF f[c].mass - f[s].mass >= BaseMass(f[c]) THEN f[c].mass - f[s].mass
                       ELSE BaseMass(f[c])
    BY DEF LaunchedAs
  <1>2. f \in [Ship -> Craft] /\ g \in [Ship -> Craft]
    BY <1>1 DEF FleetSound
  <1>3. \A x \in Ship : Alive(f, x) => Own(g[x]) = Own(f[x])
    BY <1>1, OwnSame
  <1>4. ASSUME NEW x \in Ship PROVE Ancestors(g, x) \subseteq Ancestors(f, x)
    <2> DEFINE T == Ancestors(f, x)
    <2>1. T \in SUBSET Ship /\ Upwards(f, T) /\ (Berthed(f, x) => f[x].dest \in T)
      BY Around1 DEF FleetSound
    <2>2. ASSUME NEW y \in {x} \cup T, NEW d \in Ship, y \in InCarrier(g, d) PROVE d \in T
      <3>1. Berthed(f, y) /\ f[y].dest = d
        BY <1>1, <2>2 DEF InCarrier
      <3> QED BY <2>1, <2>2, <3>1 DEF Upwards
    <2> QED BY <1>1, <2>1, <2>2, AncestorsWithin
  <1>5. ASSUME NEW x \in Ship, Alive(f, x) PROVE Upheld(f, L, g, L, x)
    <2>1. \A y \in InCarrier(f, x) : g[y].mass = f[y].mass
      BY <1>1 DEF InCarrier
    <2>2. CASE x # c
      <3>1. InCarrier(g, x) = InCarrier(f, x)
        <4>1. s \notin InCarrier(f, x)
          BY <2>2 DEF InCarrier
        <4> QED BY <1>1, <4>1
      <3> QED BY <1>1, <1>3, <1>4, <1>5, <2>1, <2>2, <3>1, Unmoved
    <2>3. CASE x = c
      <3>1. Written(f, L, x) => Written(g, L, x)
        BY <1>4 DEF Written
      <3>2. CASE Written(f, L, x)
        BY <1>5, <3>1, <3>2 DEF Upheld, Written
      <3>3. CASE ~Written(f, L, x)
        <4>1. /\ s \in InCarrier(f, c) /\ Heavy(f, c) /\ f[c].type # "factory"
              /\ f[c].mass - f[s].mass >= BaseMass(f[c]) + f[c].res
          BY <2>3, <3>3, RestIsHeavy DEF FleetSound, Docks
        <4>2. /\ f[c].mass \in Int /\ f[c].res \in Nat /\ BaseMass(f[c]) \in Nat
              /\ MassInside(f, c) \in Int /\ LocalMass(f[c]) = BaseMass(f[c]) + f[c].res
              /\ Own(f[c]) = LocalMass(f[c]) /\ f[s].mass \in Int
          BY <1>2, <1>5, <2>3, <4>1, MassNumbers, CraftFields
        <4>3. g[c].mass = f[c].mass - f[s].mass
          BY <1>1, <4>1, <4>2
        <4>4. MassInside(g, c) = MassInside(f, c) - f[s].mass
          BY <1>1, <1>2, <2>1, <2>3, <4>1, MassInsideLess
        <4>5. (Exact(f, c) => Exact(g, c)) /\ Heavy(g, c)
          BY <1>1, <1>3, <1>5, <2>3, <4>1, <4>2, <4>3, <4>4 DEF Exact, Heavy
        <4> QED BY <1>5, <2>3, <3>1, <4>5 DEF Upheld
      <3> QED BY <3>2, <3>3
    <2> QED BY <2>2, <2>3
  <1>6. \A x \in Ship : Alive(g, x) => Upheld(f, L, g, L, x)
    BY <1>1, <1>5
  <1> QED BY <1>6, MassesFollow, Zenon

LEMMA LaunchFromCarrierKeeps ==
  ASSUME FleetInv, NEW s \in Ship, LaunchFromCarrier(s)
  PROVE  Steady
  <1> DEFINE c == ship[s].dest
             d == IF Landed(ship, c) THEN "landed" ELSE "spaceborne"
             g == UnloadCraft(Placed(ship, s, d, Nil), c, ship[s].size, ship[s].mass)
  <1>1. /\ FleetSound(ship) /\ Hangars(ship, grown) /\ stockpile \in Nat /\ toxic \in Nat
        /\ loose \subseteq Ship /\ ship \in [Ship -> Craft]
    BY DEF FleetInv, FleetSound
  <1>2. /\ Berthed(ship, s) /\ Ordered(g) /\ stockpile' = stockpile /\ toxic' = toxic
        /\ loose' = loose /\ grown' = grown
    BY Zenon DEF LaunchFromCarrier, Moves, Quiet
  <1>3. c \in Ship /\ d \in {"landed", "spaceborne"} /\ c = ship[s].dest
    BY <1>1, <1>2 DEF FleetSound, Docks
  <1>4. g = UnloadCraft(Placed(ship, s, d, Nil), c, ship[s].size, ship[s].mass)
    OBVIOUS
  <1> HIDE DEF g, c, d
  <1>5. LaunchedAs(ship, g, s, c)
    BY <1>1, <1>2, <1>3, <1>4, LaunchesFrom
  <1>6. FleetSound(g)
    BY <1>5 DEF LaunchedAs
  <1>7. Hangars(g, grown)
    <2>1. ASSUME NEW x \in Ship, Alive(g, x)
          PROVE  /\ Alive(ship, x) /\ InCarrier(g, x) = InCarrier(ship, x) \ {s}
                 /\ g[x].size = ship[x].size /\ g[x].bay = ship[x].bay
                 /\ g[x].hanger = IF s \in InCarrier(ship, x)
                      THEN (IF ship[x].hanger >= ship[s].size THEN ship[x].hanger - ship[s].size ELSE 0)
                      ELSE ship[x].hanger
      <3>1. s \in InCarrier(ship, x) <=> x = c
        BY <1>2, <1>3 DEF InCarrier
      <3> QED BY <1>5, <2>1, <3>1 DEF LaunchedAs
    <2>2. \A x \in Ship : Alive(g, x) =>
                 /\ Alive(ship, x) /\ InCarrier(g, x) = InCarrier(ship, x) \ {s}
                 /\ g[x].size = ship[x].size /\ g[x].bay = ship[x].bay
                 /\ g[x].hanger = IF s \in InCarrier(ship, x)
                      THEN (IF ship[x].hanger >= ship[s].size THEN ship[x].hanger - ship[s].size ELSE 0)
                      ELSE ship[x].hanger
      BY <2>1
    <2> QED BY <1>1, <1>6, <2>2, HangarsLeft
  <1>8. Wealth(g, stockpile') <= Wealth(ship, stockpile)
    <2>1. \A x \in Ship : Worth(g)[x] <= Worth(ship)[x]
      BY <1>1, <1>5, WorthIs DEF LaunchedAs
    <2> QED BY <1>1, <1>2, <1>6, <2>1, NoRicher
  <1>9. Masses(g, loose')
    <2>1. Masses(ship, loose) /\ ~Berthed(ship, c)
      BY DEF FleetInv, LaunchFromCarrier, c
    <2> QED BY <1>1, <1>2, <1>3, <1>5, <2>1, LaunchedMasses
  <1> QED BY <1>1, <1>2, <1>6, <1>7, <1>8, <1>9, OrderedKeeps

-----------------------------------------------------------------------------
(* Deaths *)

(* Who is in the nest of s: s, and whoever is berthed in one of it.        *)
LEMMA NestIs ==
  ASSUME NEW f, FleetSound(f), NEW s \in Ship
  PROVE  /\ s \in Nest(f, s) /\ Nest(f, s) \subseteq Ship
         /\ \A x \in Ship : x # s => (x \in Nest(f, s) <=> Berthed(f, x) /\ f[x].dest \in Nest(f, s))
         /\ Alive(f, s) => \A x \in Nest(f, s) : Alive(f, x)
         /\ \A a \in Ancestors(f, s) : a \notin Nest(f, s)
         /\ \A x \in Nest(f, s) : Ancestors(f, s) \subseteq Ancestors(f, x)
  <1>1. Docks(f)
    BY DEF FleetSound
  <1>2. s \in Nest(f, s) /\ Nest(f, s) \subseteq Ship
    BY DEF Nest
  <1>3. ASSUME NEW x \in Ship, x # s
        PROVE  x \in Nest(f, s) <=> Berthed(f, x) /\ f[x].dest \in Nest(f, s)
    <2>1. x \in Nest(f, s) <=> s \in Ancestors(f, x)
      BY <1>3 DEF Nest
    <2>2. CASE ~Berthed(f, x)
      BY <1>1, <2>1, <2>2, Around1
    <2>3. CASE Berthed(f, x)
      <3>1. f[x].dest \in Ship /\ Ancestors(f, x) = {f[x].dest} \cup Ancestors(f, f[x].dest)
        BY <1>1, <2>3, Around1 DEF Docks
      <3> QED BY <2>1, <2>3, <3>1 DEF Nest
    <2> QED BY <2>2, <2>3
  <1>4. Alive(f, s) => \A x \in Nest(f, s) : Alive(f, x)
    BY <1>2, <1>3 DEF Berthed, Alive
  <1>5. \A a \in Ancestors(f, s) : a \notin Nest(f, s)
    <2>1. \A a \in Ancestors(f, s) : a \in Ship /\ a # s /\ s \notin Ancestors(f, a)
      BY AncestorsLive
    <2> QED BY <2>1 DEF Nest
  <1>6. ASSUME NEW x \in Nest(f, s) PROVE Ancestors(f, s) \subseteq Ancestors(f, x)
    <2>1. CASE x = s
      BY <2>1
    <2>2. CASE x # s
      <3>1. x \in Ship /\ s \in Ancestors(f, x)
        BY <2>2 DEF Nest
      <3>2. Upwards(f, Ancestors(f, x)) /\ Ancestors(f, x) \subseteq Ship
        BY <1>1, <3>1, Around1
      <3>3. Berthed(f, s) => f[s].dest \in Ancestors(f, x)
        BY <3>1, <3>2 DEF Upwards
      <3> QED BY <3>2, <3>3, Around2
    <2> QED BY <2>1, <2>2
  <1> QED BY <1>2, <1>3, <1>4, <1>5, <1>6

LEMMA PropagatedBooks ==
  ASSUME NEW f, FleetSound(f), NEW c \in Ship, NEW m \in Int, NEW g, g = Propagated(f, c, m)
  PROVE  /\ Rebooked(f, g) /\ \A x \in Ship : g[x].hanger = f[x].hanger
         /\ \A x \in Ship \ Ancestors(f, c) : g[x] = f[x]
         /\ \A x \in Ancestors(f, c) :
              g[x].mass = IF f[x].mass + m >= BaseMass(f[x]) THEN f[x].mass + m
                          ELSE BaseMass(f[x])
  <1> DEFINE A == Ancestors(f, c)
             M(x) == IF f[x].mass + m >= BaseMass(f[x]) THEN f[x].mass + m ELSE BaseMass(f[x])
  <1>1. f \in [Ship -> Craft] /\ \A x \in A : x \in Ship /\ Alive(f, x)
    BY AncestorsLive DEF FleetSound
  <1>2. \A x \in Ship : g[x] = IF x \in A
                               THEN [f[x] EXCEPT !.mass = Max({BaseMass(f[x]), f[x].mass + m})]
                               ELSE f[x]
    BY DEF Propagated
  <1>3. DOMAIN g = Ship /\ g = [x \in Ship |-> g[x]]
    BY DEF Propagated
  <1> HIDE DEF A
  <1>4. ASSUME NEW x \in A
        PROVE  /\ g[x] = Booked(f[x], f[x].hanger, M(x)) /\ M(x) \in Int
    <2>1. f[x] \in Craft /\ Whole(f[x])
      BY <1>1 DEF FleetSound
    <2>2. f[x].mass + m \in Int /\ BaseMass(f[x]) \in Int
      BY <2>1, CraftFields, HullNumbers
    <2>3. Max({BaseMass(f[x]), f[x].mass + m}) = M(x) /\ M(x) \in Int
      <3> DEFINE p == BaseMass(f[x])
                 q == f[x].mass + m
      <3>1. p \in Int /\ q \in Int
        BY <2>2
      <3> HIDE DEF p, q
      <3>2. Max({p, q}) = IF p >= q THEN p ELSE q
        BY <3>1, GreaterOf
      <3> QED BY <3>1, <3>2 DEF p, q
    <2> HIDE DEF M
    <2>4. g[x] = [f[x] EXCEPT !.mass = M(x)]
      BY <1>1, <1>2, <2>3, Zenon
    <2>5. [f[x] EXCEPT !.mass = M(x)] = Booked(f[x], f[x].hanger, M(x))
      BY <2>1 DEF Booked, Craft
    <2> QED BY <2>3, <2>4, <2>5
  <1>5. ASSUME NEW x \in A
        PROVE  /\ g[x] \in Craft /\ SameHull(f[x], g[x]) /\ g[x].dock = f[x].dock
               /\ g[x].dest = f[x].dest /\ g[x].size = f[x].size /\ g[x].res = f[x].res
               /\ g[x].waste = f[x].waste /\ g[x].hanger = f[x].hanger /\ g[x].mass = M(x)
    <2> DEFINE h == f[x].hanger
               k == M(x)
               y == Booked(f[x], h, k)
    <2>1. f[x] \in Craft /\ h \in Int /\ k \in Int /\ g[x] = y
      BY <1>1, <1>4, CraftFields
    <2> HIDE DEF k
    <2>2. /\ y \in Craft /\ SameHull(f[x], y) /\ y.dock = f[x].dock /\ y.dest = f[x].dest
          /\ y.size = f[x].size /\ y.res = f[x].res /\ y.waste = f[x].waste
          /\ y.hanger = h /\ y.mass = k
      BY <2>1, BookedRecord
    <2> HIDE DEF y
    <2> QED BY <2>1, <2>2 DEF k
  <1>6. \A x \in Ship : x \notin A => g[x] = f[x] /\ g[x] \in Craft /\ SameHull(f[x], g[x])
    BY <1>1, <1>2 DEF SameHull
  <1>7. g \in [Ship -> Craft]
    BY <1>3, <1>5, <1>6
  <1>8. Rebooked(f, g)
    BY <1>1, <1>5, <1>6, <1>7 DEF Rebooked
  <1> QED BY <1>1, <1>5, <1>6, <1>8 DEF A

(* A ship's books out of its carriers', before it dies.                    *)
LeftAs(f, s, g) ==
  /\ Rebooked(f, g)
  /\ ~Berthed(f, s) => g = f
  /\ \A x \in Ship \ Ancestors(f, s) : g[x] = f[x]
  /\ Berthed(f, s) =>
       LET c == f[s].dest
           m == NestMass(f, s)
       IN  /\ \A x \in Ship \ {c} : g[x].hanger = f[x].hanger
           /\ g[c].hanger = IF f[c].hanger >= f[s].size THEN f[c].hanger - f[s].size ELSE 0
           /\ \A x \in Ancestors(f, s) :
                g[x].mass = IF f[x].mass - m >= BaseMass(f[x]) THEN f[x].mass - m
                            ELSE BaseMass(f[x])

LEMMA NestMassIs ==
  ASSUME NEW f, FleetSound(f), NEW s \in Ship
  PROVE  NestMass(f, s) \in Int
  <1>1. f \in [Ship -> Craft] /\ Nest(f, s) \subseteq Ship /\ IsFiniteSet(Nest(f, s))
    BY FleetNumbers, FS_Subset DEF FleetSound, Nest
  <1>2. \A x \in Nest(f, s) : [y \in Ship |-> f[y].mass][x] \in Int
    BY <1>1, SizesAndMasses
  <1> QED BY <1>1, <1>2, SumIsInt DEF NestMass

LEMMA LeftBooks ==
  ASSUME NEW f, FleetSound(f), NEW s \in Ship
  PROVE  LeftAs(f, s, Left(f, s))
  <1> DEFINE c == f[s].dest
             m == NestMass(f, s)
             u == UnloadCraft(f, c, f[s].size, m)
             g == Left(f, s)
  <1>1. m \in Int /\ f \in [Ship -> Craft] /\ Docks(f)
    BY NestMassIs DEF FleetSound
  <1>2. CASE ~Berthed(f, s)
    <2>1. g = f
      BY <1>2 DEF Left
    <2>2. Rebooked(f, f)
      BY <1>1 DEF Rebooked, SameHull
    <2> QED BY <1>2, <2>1, <2>2 DEF LeftAs
  <1>3. CASE Berthed(f, s)
    <2>1. c \in Ship /\ c # s /\ Alive(f, c)
      BY <1>3, PartnerIsOther DEF Docked, Berthed
    <2>2. g = Propagated(u, c, 0 - m)
      BY <1>3, Zenon DEF Left
    <2>3. f[s].size \in Int /\ 0 - m \in Int
      BY <1>1, CraftFields
    <2> HIDE DEF u, m, g
    <2>4. /\ Rebooked(f, u) /\ Changes(f, u, c)
          /\ u[c].hanger = (IF f[c].hanger >= f[s].size THEN f[c].hanger - f[s].size ELSE 0)
          /\ u[c].mass = (IF f[c].mass - m >= BaseMass(f[c]) THEN f[c].mass - m
                          ELSE BaseMass(f[c]))
      BY <1>1, <2>1, <2>3, UnloadCraftBooks DEF u
    <2>5. /\ FleetSound(u) /\ SameBerths(f, u) /\ \A x \in Ship : BaseMass(u[x]) = BaseMass(f[x])
      BY <2>4, RebookedKeeps
    <2>6. /\ Rebooked(u, g) /\ \A x \in Ship : g[x].hanger = u[x].hanger
          /\ \A x \in Ship \ Ancestors(u, c) : g[x] = u[x]
          /\ \A x \in Ancestors(u, c) :
               g[x].mass = IF u[x].mass + (0 - m) >= BaseMass(u[x]) THEN u[x].mass + (0 - m)
                           ELSE BaseMass(u[x])
      BY <2>1, <2>2, <2>3, <2>5, PropagatedBooks
    <2>7. Ancestors(u, c) = Ancestors(f, c)
      BY <2>1, <2>5, BerthsFollow
    <2>8. Ancestors(f, s) = {c} \cup Ancestors(f, c) /\ c \notin Ancestors(f, c)
          /\ Ancestors(f, c) \subseteq Ship
      BY <1>1, <1>3, <2>1, Around1, AncestorsLive
    <2>9. Rebooked(f, g)
      BY <2>4, <2>5, <2>6 DEF Rebooked, SameHull, SameBerths
    <2>10. \A x \in Ship \ {c} : u[x] = f[x]
      BY <2>4 DEF Changes
    <2>11. \A x \in Ship \ Ancestors(f, s) : g[x] = f[x]
      BY <2>6, <2>7, <2>8, <2>10
    <2>12. \A x \in Ship \ {c} : g[x].hanger = f[x].hanger
      BY <2>6, <2>10
    <2>13. g[c].hanger = IF f[c].hanger >= f[s].size THEN f[c].hanger - f[s].size ELSE 0
      BY <2>1, <2>4, <2>6
    <2>14. g[c].mass = IF f[c].mass - m >= BaseMass(f[c]) THEN f[c].mass - m ELSE BaseMass(f[c])
      BY <2>1, <2>4, <2>6, <2>7, <2>8
    <2>15. \A x \in Ancestors(f, c) :
              g[x].mass = IF f[x].mass - m >= BaseMass(f[x]) THEN f[x].mass - m
                          ELSE BaseMass(f[x])
      <3>1. \A x \in Ancestors(f, c) : /\ u[x] = f[x] /\ f[x].mass \in Int
                                       /\ f[x].mass + (0 - m) = f[x].mass - m
        BY <1>1, <2>3, <2>8, <2>10, NestMassIs, CraftFields DEF m
      <3> QED BY <2>6, <2>7, <3>1
    <2>16. \A x \in Ancestors(f, s) :
              g[x].mass = IF f[x].mass - m >= BaseMass(f[x]) THEN f[x].mass - m
                          ELSE BaseMass(f[x])
      BY <2>8, <2>14, <2>15
    <2> QED BY <1>3, <2>9, <2>11, <2>12, <2>13, <2>16, Zenon DEF LeftAs, m, g
  <1> QED BY <1>2, <1>3

\* What the death of s leaves.
KilledAs(f, s, g) ==
  /\ FleetSound(g)
  /\ \A x \in Ship : Alive(g, x) <=> Alive(f, x) /\ x \notin Nest(f, s)
  /\ \A x \in Ship : Alive(g, x) =>
       /\ InCarrier(g, x) = InCarrier(f, x) \ {s}
       /\ g[x].size = f[x].size /\ g[x].bay = f[x].bay /\ g[x].type = f[x].type
       /\ g[x].hanger = Left(f, s)[x].hanger /\ g[x].mass = Left(f, s)[x].mass
       /\ Worth(g)[x] = Worth(f)[x] /\ BaseMass(g[x]) = BaseMass(f[x])
       /\ LocalMass(g[x]) = LocalMass(f[x])
       /\ Berthed(g, x) <=> Berthed(f, x)
       /\ Berthed(f, x) => g[x].dest = f[x].dest
  /\ \A x \in Ship : ~Alive(g, x) => Worth(g)[x] = 0

LEMMA Kills ==
  ASSUME NEW f, FleetSound(f), NEW s \in Ship, Alive(f, s), NEW g, g = Killed(f, s)
  PROVE  KilledAs(f, s, g)
  <1> DEFINE N == Nest(f, s)
             l == Left(f, s)
             k == Sunk(f, s)
             Adrift(x) == f[x].dock = "moored" /\ ~Alive(k, f[x].dest)
             z(x) == At(l[x], "spaceborne", Nil)
  <1>1. Rebooked(f, l)
    BY LeftBooks DEF LeftAs
  <1>2. /\ Alike(f, l) /\ FleetSound(l) /\ SameBerths(f, l) /\ l \in [Ship -> Craft]
        /\ \A x \in Ship : /\ Worth(l)[x] = Worth(f)[x] /\ BaseMass(l[x]) = BaseMass(f[x])
                           /\ LocalMass(l[x]) = LocalMass(f[x])
    BY <1>1, RebookedKeeps DEF FleetSound
  <1>3. s \in N /\ N \subseteq Ship
        /\ \A x \in Ship : x # s => (x \in N <=> Berthed(f, x) /\ f[x].dest \in N)
    BY NestIs
  <1>4. \A x \in Ship : k[x] = IF x \in N THEN Gone ELSE l[x]
    BY DEF Sunk
  <1>5. \A x \in Ship : Alive(k, x) <=> Alive(f, x) /\ x \notin N
    BY <1>2, <1>4 DEF Alive, Gone, SameBerths
  <1>6. /\ DOMAIN g = Ship /\ g = [x \in Ship |-> g[x]]
        /\ \A x \in Ship : g[x] = IF Alive(k, x) /\ Adrift(x)
                                  THEN [k[x] EXCEPT !.dock = "spaceborne", !.dest = Nil] ELSE k[x]
    BY DEF Killed
  <1> HIDE DEF N, l, k
  <1>7. ASSUME NEW x \in Ship, Alive(k, x)
        PROVE  g[x] = IF Adrift(x) THEN z(x) ELSE l[x]
    <2>1. k[x] = l[x]
      BY <1>4, <1>5, <1>7
    <2> HIDE DEF Adrift
    <2> QED BY <1>6, <1>7, <2>1, Zenon DEF At
  <1>8. \A x \in Ship : ~Alive(k, x) => g[x] = Gone
    <2>1. \A x \in Ship : ~Alive(l, x) => l[x] = Gone
      BY <1>2 DEF FleetSound
    <2>2. \A x \in Ship : ~Alive(k, x) => k[x] = Gone
      BY <1>4, <2>1 DEF Alive
    <2> QED BY <1>6, <2>2
  <1>9. ASSUME NEW x \in Ship, Alive(k, x)
        PROVE  /\ Whole(g[x]) /\ SameHull(l[x], g[x]) /\ g[x].size = l[x].size
               /\ g[x].hanger = l[x].hanger /\ g[x].mass = l[x].mass /\ g[x].bay = l[x].bay
               /\ g[x].type = l[x].type
               /\ ScrapValue(g[x]) = ScrapValue(l[x]) /\ BaseMass(g[x]) = BaseMass(l[x])
               /\ LocalMass(g[x]) = LocalMass(l[x])
               /\ IF Adrift(x) THEN g[x].dock = "spaceborne"
                               ELSE g[x].dock = l[x].dock /\ g[x].dest = l[x].dest
    <2>1. Whole(l[x]) /\ Alive(l, x)
      BY <1>2, <1>5, <1>9 DEF FleetSound, SameBerths
    <2>2. CASE Adrift(x)
      <3>1. Mooring("spaceborne", Nil)
        BY DEF Mooring, Dock
      <3> DEFINE y == z(x)
      <3>2. g[x] = y
        BY <1>7, <1>9, <2>2
      <3>3. /\ Whole(y) /\ y.dock = "spaceborne" /\ SameHull(l[x], y) /\ y.size = l[x].size
            /\ y.hanger = l[x].hanger /\ y.mass = l[x].mass
            /\ ScrapValue(y) = ScrapValue(l[x]) /\ BaseMass(y) = BaseMass(l[x])
            /\ LocalMass(y) = LocalMass(l[x])
        BY <2>1, <3>1, RedockedRecord
      <3> HIDE DEF y, Adrift
      <3>4. y.bay = l[x].bay /\ y.type = l[x].type
        BY <3>3 DEF SameHull
      <3> QED BY <2>2, <3>2, <3>3, <3>4
    <2>3. CASE ~Adrift(x)
      <3>1. g[x] = l[x]
        BY <1>7, <1>9, <2>3
      <3> HIDE DEF Adrift
      <3> QED BY <2>1, <2>3, <3>1 DEF SameHull
    <2> QED BY <2>2, <2>3
  <1>10. \A x \in Ship : /\ Alive(g, x) <=> Alive(k, x)
                         /\ Berthed(g, x) <=> Alive(k, x) /\ Berthed(f, x)
                         /\ Berthed(g, x) => g[x].dest = f[x].dest
    <2> SUFFICES ASSUME NEW x \in Ship
                 PROVE  /\ Alive(g, x) <=> Alive(k, x)
                        /\ Berthed(g, x) <=> Alive(k, x) /\ Berthed(f, x)
                        /\ Berthed(g, x) => g[x].dest = f[x].dest
      OBVIOUS
    <2>1. CASE ~Alive(k, x)
      BY <1>8, <2>1 DEF Alive, Berthed, Gone
    <2>2. CASE Alive(k, x)
      <3>1. Alive(g, x) /\ (Berthed(l, x) <=> Berthed(f, x)) /\ (Berthed(f, x) => l[x].dest = f[x].dest)
        BY <1>2, <1>9, <2>2 DEF Whole, Alive, SameBerths
      <3>2. CASE Adrift(x)
        BY <1>9, <2>2, <3>1, <3>2 DEF Berthed
      <3>3. CASE ~Adrift(x)
        <4>1. g[x].dock = l[x].dock /\ g[x].dest = l[x].dest
          BY <1>9, <2>2, <3>3
        <4> QED BY <2>2, <3>1, <4>1 DEF Berthed
      <3> QED BY <3>2, <3>3
    <2> QED BY <2>1, <2>2
  <1>11. g \in [Ship -> Craft]
    <2>1. Gone \in Craft
      BY DEF Gone, Craft, Dock
    <2>2. \A x \in Ship : g[x] \in Craft
      BY <1>8, <1>9, <2>1 DEF Whole
    <2> QED BY <1>6, <2>2
  <1>12. \A x \in Ship : IF Alive(g, x) THEN Whole(g[x]) ELSE g[x] = Gone
    BY <1>8, <1>9, <1>10
  <1>13. ASSUME NEW x \in Ship, Berthed(g, x)
         PROVE  /\ g[x].dest \in Ship /\ Alive(g, g[x].dest) /\ g[g[x].dest].type # "factory"
    <2> DEFINE d == f[x].dest
    <2>1. Alive(k, x) /\ Berthed(f, x) /\ g[x].dest = d
      BY <1>10, <1>13
    <2>2. d \in Ship /\ Alive(f, d) /\ f[d].type # "factory"
      BY <2>1 DEF FleetSound, Docks
    <2>3. d \notin N
      BY <1>3, <1>5, <2>1
    <2>4. Alive(k, d)
      BY <1>5, <2>2, <2>3
    <2>5. g[d].type = f[d].type
      <3>1. l[d].type = f[d].type
        BY <1>1, <2>2 DEF Rebooked, SameHull
      <3> QED BY <1>9, <2>2, <2>4, <3>1
    <2> QED BY <1>10, <2>1, <2>2, <2>4, <2>5
  <1>14. ASSUME NEW x \in Ship, g[x].dock = "moored"
         PROVE  /\ g[x].dest \in Ship /\ g[x].dest # x
                /\ g[g[x].dest].dock = "moored" /\ g[g[x].dest].dest = x
    <2> DEFINE d == f[x].dest
    <2>1. Alive(k, x)
      BY <1>8, <1>14 DEF Gone
    <2>2. ~Adrift(x) /\ g[x].dock = l[x].dock /\ g[x].dest = l[x].dest
      BY <1>9, <1>14, <2>1
    <2>3. f[x].dock = "moored" /\ g[x].dest = d
      BY <1>1, <1>14, <2>2 DEF Rebooked
    <2>4. d \in Ship /\ d # x /\ f[d].dock = "moored" /\ f[d].dest = x
      BY <2>3 DEF FleetSound, Docks
    <2>5. Alive(k, d)
      BY <2>2, <2>3
    <2>6. ~Adrift(d)
      BY <2>1, <2>4
    <2>7. g[d].dock = l[d].dock /\ g[d].dest = l[d].dest
      BY <1>9, <2>4, <2>5, <2>6
    <2>8. l[d].dock = "moored" /\ l[d].dest = x
      BY <1>1, <2>4 DEF Rebooked
    <2> QED BY <2>3, <2>4, <2>7, <2>8
  <1>15. Ranked(g)
    <2>1. \A x \in Ship : Berthed(g, x) => Berthed(f, x) /\ g[x].dest = f[x].dest
      BY <1>10
    <2> QED BY <2>1, RanksLess DEF FleetSound
  <1>16. FleetSound(g)
    BY <1>11, <1>12, <1>13, <1>14, <1>15 DEF FleetSound, Docks
  <1>17. ASSUME NEW x \in Ship, Alive(k, x) PROVE InCarrier(g, x) = InCarrier(f, x) \ {s}
    <2>1. x \notin N
      BY <1>5, <1>17
    <2>2. ASSUME NEW y \in Ship PROVE y \in InCarrier(g, x) <=> y \in InCarrier(f, x) /\ y # s
      <3>1. y \in InCarrier(g, x) <=> Alive(k, y) /\ Berthed(f, y) /\ f[y].dest = x
        BY <1>10 DEF InCarrier
      <3>2. Berthed(f, y) => Alive(f, y)
        BY DEF Berthed, Alive
      <3>3. Berthed(f, y) /\ f[y].dest = x => (y \in N <=> y = s)
        BY <1>3, <2>1
      <3> QED BY <1>5, <3>1, <3>2, <3>3 DEF InCarrier
    <2>3. InCarrier(g, x) \subseteq Ship /\ InCarrier(f, x) \subseteq Ship
      BY FewInside
    <2> QED BY <2>2, <2>3
  <1>18. ASSUME NEW x \in Ship, Alive(k, x)
         PROVE  /\ g[x].size = f[x].size /\ g[x].bay = f[x].bay /\ g[x].type = f[x].type
                /\ g[x].hanger = l[x].hanger /\ g[x].mass = l[x].mass
                /\ Worth(g)[x] = Worth(f)[x] /\ BaseMass(g[x]) = BaseMass(f[x])
                /\ LocalMass(g[x]) = LocalMass(f[x])
    <2>1. l[x].size = f[x].size /\ l[x].bay = f[x].bay /\ l[x].type = f[x].type
      BY <1>1 DEF Rebooked, SameHull
    <2>2. Alive(g, x) /\ Alive(l, x)
      BY <1>2, <1>5, <1>10, <1>18 DEF SameBerths
    <2>3. Worth(g)[x] = Worth(l)[x]
      BY <1>9, <1>18, <2>2 DEF Worth
    <2> QED BY <1>2, <1>9, <1>18, <2>1, <2>3
  <1>19. \A x \in Ship : ~Alive(g, x) => Worth(g)[x] = 0
    BY DEF Worth
  <1>20. \A x \in Ship : Alive(g, x) <=> Alive(f, x) /\ x \notin N
    BY <1>5, <1>10
  <1> QED BY <1>10, <1>16, <1>17, <1>18, <1>19, <1>20, Zenon DEF KilledAs, N, l

(* The books of the hangars around the dead. *)
LEMMA KilledHangars ==
  ASSUME NEW f, FleetSound(f), NEW s \in Ship, Alive(f, s), NEW g, KilledAs(f, s, g),
         NEW gr, Hangars(f, gr)
  PROVE  Hangars(g, gr)
  <1>1. FleetSound(g) /\ LeftAs(f, s, Left(f, s))
    BY LeftBooks DEF KilledAs
  <1> DEFINE l == Left(f, s)
             After(x) == IF s \in InCarrier(f, x)
                         THEN (IF f[x].hanger >= f[s].size THEN f[x].hanger - f[s].size ELSE 0)
                         ELSE f[x].hanger
  <1>2. \A x \in Ship : l[x].hanger = After(x)
    <2>1. CASE ~Berthed(f, s)
      <3>1. l = f
        BY <1>1, <2>1 DEF LeftAs
      <3>2. \A x \in Ship : s \notin InCarrier(f, x)
        BY <2>1 DEF InCarrier
      <3> QED BY <3>1, <3>2
    <2>2. CASE Berthed(f, s)
      <3>1. \A x \in Ship : s \in InCarrier(f, x) <=> x = f[s].dest
        BY <2>2 DEF InCarrier
      <3> DEFINE c == f[s].dest
      <3>2. /\ \A x \in Ship \ {c} : l[x].hanger = f[x].hanger
            /\ l[c].hanger = IF f[c].hanger >= f[s].size THEN f[c].hanger - f[s].size ELSE 0
        BY <1>1, <2>2 DEF LeftAs
      <3> HIDE DEF l, c
      <3>3. c = f[s].dest
        BY DEF c
      <3> QED BY <3>1, <3>2, <3>3
    <2> QED BY <2>1, <2>2
  <1> HIDE DEF l
  <1>3. \A x \in Ship : Alive(g, x) =>
            /\ Alive(f, x) /\ InCarrier(g, x) = InCarrier(f, x) \ {s}
            /\ g[x].size = f[x].size /\ g[x].bay = f[x].bay
            /\ g[x].hanger = After(x)
    <2>1. \A x \in Ship : Alive(g, x) =>
            /\ Alive(f, x) /\ InCarrier(g, x) = InCarrier(f, x) \ {s}
            /\ g[x].size = f[x].size /\ g[x].bay = f[x].bay /\ g[x].hanger = l[x].hanger
      BY DEF KilledAs, l
    <2> HIDE DEF After
    <2> QED BY <1>2, <2>1
  <1> QED BY <1>1, <1>3, HangarsLeft

LEMMA KilledWorth ==
  ASSUME NEW f, FleetSound(f), NEW s \in Ship, Alive(f, s), NEW g, KilledAs(f, s, g)
  PROVE  Worth(g)[s] = 0 /\ \A x \in Ship : Worth(g)[x] <= Worth(f)[x]
  <1>1. \A x \in Ship : Worth(f)[x] \in Nat
    BY WorthIs
  <1>2. ~Alive(g, s)
    BY DEF KilledAs, Nest
  <1>3. \A x \in Ship : IF Alive(g, x) THEN Worth(g)[x] = Worth(f)[x] ELSE Worth(g)[x] = 0
    BY DEF KilledAs
  <1> QED BY <1>1, <1>2, <1>3

(* Of the ships that s is in, on whatever deck, each holds s or exactly one *)
(* of the others itself.                                                   *)
LEMMA ChainOfDecks ==
  ASSUME NEW f, FleetSound(f), NEW s \in Ship, NEW x \in Ancestors(f, s)
  PROVE  \E y \in InCarrier(f, x) : InCarrier(f, x) \cap ({s} \cup Ancestors(f, s)) = {y}
  <1> DEFINE A == Ancestors(f, s)
             C == {s} \cup A
             Linear(z) == \A y \in C : y = z \/ y \in Ancestors(f, z) \/ z \in Ancestors(f, y)
             Child(z) == \E y \in C : y \in InCarrier(f, z)
             S == {z \in A : Linear(z) /\ Child(z)}
  <1>1. Docks(f) /\ A \subseteq Ship /\ Upwards(f, A) /\ C \subseteq Ship
    BY Around1 DEF FleetSound
  <1>2. \A z \in Ship : Berthed(f, z) =>
          /\ f[z].dest \in Ship /\ Ancestors(f, z) = {f[z].dest} \cup Ancestors(f, f[z].dest)
          /\ z \in InCarrier(f, f[z].dest)
    BY <1>1, Around1 DEF Docks, InCarrier
  <1>3. Linear(s)
    OBVIOUS
  <1>4. ASSUME NEW z \in C, Linear(z), Berthed(f, z) PROVE f[z].dest \in S
    <2> DEFINE d == f[z].dest
    <2>1. z \in Ship /\ d \in Ship /\ Ancestors(f, z) = {d} \cup Ancestors(f, d) /\ z \in InCarrier(f, d)
      BY <1>1, <1>2, <1>4
    <2>2. d \in A
      <3>1. z = s \/ z \in A
        OBVIOUS
      <3>2. CASE z = s
        BY <2>1, <3>2
      <3>3. CASE z \in A
        BY <1>1, <1>4, <3>3 DEF Upwards
      <3> QED BY <3>1, <3>2, <3>3
    <2>3. ASSUME NEW y \in C PROVE y = d \/ y \in Ancestors(f, d) \/ d \in Ancestors(f, y)
      <3>1. CASE z \in Ancestors(f, y)
        <4>1. y \in Ship /\ Upwards(f, Ancestors(f, y))
          BY <1>1, Around1
        <4> QED BY <1>4, <3>1, <4>1 DEF Upwards
      <3> QED BY <1>4, <2>1, <3>1
    <2> HIDE DEF A, C, d
    <2> QED BY <2>1, <2>2, <2>3 DEF d
  <1> HIDE DEF Linear, Child
  <1>5. A \subseteq S
    <2>1. Berthed(f, s) => f[s].dest \in S
      BY <1>3, <1>4
    <2>2. Upwards(f, S)
      BY <1>4 DEF Upwards
    <2>3. S \subseteq Ship
      BY <1>1
    <2> QED BY <2>1, <2>2, <2>3, Around2
  <1>6. PICK y \in C : y \in InCarrier(f, x)
    BY <1>5 DEF Child
  <1>7. ASSUME NEW z \in C, z \in InCarrier(f, x) PROVE z = y
    <2>1. z \in Ship /\ y \in Ship /\ Berthed(f, z) /\ f[z].dest = x /\ Berthed(f, y) /\ f[y].dest = x
      BY <1>6, <1>7 DEF InCarrier
    <2>2. /\ Ancestors(f, z) = {x} \cup Ancestors(f, x) /\ Ancestors(f, y) = {x} \cup Ancestors(f, x)
          /\ x \in Ship
      BY <1>2, <2>1
    <2>3. /\ y \notin Ancestors(f, y) /\ z \notin Ancestors(f, z)
      BY <2>1, AncestorsLive
    <2>4. Linear(y)
      <3>1. y = s \/ y \in S
        BY <1>5
      <3> QED BY <1>3, <3>1
    <2>5. z = y \/ z \in Ancestors(f, y) \/ y \in Ancestors(f, z)
      BY <2>4 DEF Linear
    <2> QED BY <2>2, <2>3, <2>5
  <1> QED BY <1>6, <1>7

(* Every ship that s is in weighs at least s more than its own, unless it   *)
(* is written off.                                                         *)
LEMMA ChainOfWeights ==
  ASSUME NEW f, FleetSound(f), NEW L, Masses(f, L), NEW s \in Ship, NEW x \in Ancestors(f, s)
  PROVE  Written(f, L, x) \/ f[x].mass - f[s].mass >= BaseMass(f[x]) + f[x].res
  <1> DEFINE Bears(z) == Written(f, L, z) \/ f[z].mass - f[s].mass >= BaseMass(f[z]) + f[z].res
             S == {z \in Ship : Alive(f, z) /\ Bears(z)}
  <1>1. ASSUME NEW z \in Ship, Berthed(f, z), ~Written(f, L, f[z].dest)
        PROVE  /\ f[z].dest \in Ship /\ Alive(f, f[z].dest) /\ f[z].mass \in Int
               /\ f[f[z].dest].mass - f[z].mass >= BaseMass(f[f[z].dest]) + f[f[z].dest].res
               /\ f[f[z].dest].mass \in Int /\ BaseMass(f[f[z].dest]) \in Nat /\ f[f[z].dest].res \in Nat
    <2>1. /\ f[z].dest \in Ship /\ Alive(f, f[z].dest)
          /\ f[f[z].dest].mass - f[z].mass >= BaseMass(f[f[z].dest]) + f[f[z].dest].res
      BY <1>1, RestIsHeavy
    <2>2. Alive(f, z)
      BY <1>1 DEF Berthed, Alive
    <2> QED BY <2>1, <2>2, MassNumbers
  <1>2. ASSUME Berthed(f, s) PROVE f[s].dest \in S
    <2>1. f[s].dest \in Ship /\ Alive(f, f[s].dest)
      BY <1>2 DEF FleetSound, Docks
    <2> QED BY <1>1, <1>2, <2>1
  <1>3. ASSUME NEW z \in S, Berthed(f, z) PROVE f[z].dest \in S
    <2> DEFINE d == f[z].dest
    <2>1. d \in Ship /\ Alive(f, d) /\ z \in Ship
      BY <1>3 DEF FleetSound, Docks
    <2>2. CASE Written(f, L, d)
      BY <2>1, <2>2
    <2>3. CASE ~Written(f, L, d)
      <3>1. ~Written(f, L, z)
        BY <1>3, <2>1, <2>3, WrittenUpwards
      <3>2. f[z].mass - f[s].mass >= BaseMass(f[z]) + f[z].res
        BY <3>1
      <3>3. /\ f[z].mass \in Int /\ BaseMass(f[z]) \in Nat /\ f[z].res \in Nat
        BY <2>1, MassNumbers
      <3>4. f[s].mass \in Int
        BY CraftFields DEF FleetSound
      <3>5. /\ f[d].mass - f[z].mass >= BaseMass(f[d]) + f[d].res
            /\ f[d].mass \in Int /\ BaseMass(f[d]) \in Nat /\ f[d].res \in Nat
        BY <1>1, <1>3, <2>1, <2>3
      <3>6. f[d].mass - f[s].mass >= BaseMass(f[d]) + f[d].res
        BY <3>2, <3>3, <3>4, <3>5
      <3> QED BY <2>1, <3>6
    <2> QED BY <2>2, <2>3
  <1> HIDE DEF Bears
  <1>4. Ancestors(f, s) \subseteq S
    BY <1>2, <1>3, Around2 DEF Upwards
  <1>5. Alive(f, x) /\ Bears(x) /\ x \in Ship
    BY <1>4
  <1> QED BY <1>5 DEF Bears

(* A ship's death takes its nest off the carriers around; who held a nest   *)
(* of several decks is written off.                                        *)
LEMMA KilledMasses ==
  ASSUME NEW f, FleetSound(f), NEW L, Masses(f, L), NEW s \in Ship, Alive(f, s),
         NEW g, KilledAs(f, s, g), NEW M, L \subseteq M, Released(f, s) \subseteq M
  PROVE  Masses(g, M)
  <1> DEFINE A == Ancestors(f, s)
             m == NestMass(f, s)
  <1>1. /\ FleetSound(g) /\ f \in [Ship -> Craft] /\ g \in [Ship -> Craft] /\ m \in Int
        /\ Docks(f) /\ A \subseteq Ship /\ Upwards(f, A)
    BY NestMassIs, Around1 DEF FleetSound, KilledAs
  <1>2. \A x \in Ship : Alive(g, x) =>
          /\ Alive(f, x) /\ x \notin Nest(f, s) /\ InCarrier(g, x) = InCarrier(f, x) \ {s}
          /\ g[x].mass = Left(f, s)[x].mass /\ g[x].type = f[x].type
          /\ BaseMass(g[x]) = BaseMass(f[x]) /\ LocalMass(g[x]) = LocalMass(f[x])
    BY DEF KilledAs
  <1>3. LeftAs(f, s, Left(f, s))
    BY LeftBooks
  <1>4. \A x \in Ship : Alive(g, x) /\ x \notin A => g[x].mass = f[x].mass
    BY <1>2, <1>3 DEF LeftAs
  <1>5. \A x \in A : Berthed(f, s)
    BY <1>1, Around1
  <1>6. \A x \in Ship : Alive(g, x) /\ x \in A =>
          g[x].mass = IF f[x].mass - m >= BaseMass(f[x]) THEN f[x].mass - m ELSE BaseMass(f[x])
    BY <1>2, <1>3, <1>5 DEF LeftAs
  <1>7. \A x \in Ship : Alive(g, x) => \A y \in InCarrier(g, x) : y \in Ship /\ Alive(g, y)
    BY DEF InCarrier, Berthed, Alive
  <1> HIDE DEF m
  <1>8. ASSUME NEW x \in Ship, Alive(g, x) PROVE Upheld(f, L, g, M, x)
    <2>1. Alive(f, x) /\ Own(g[x]) = Own(f[x])
      <3>1. Alive(f, x)
        BY <1>2, <1>8
      <3> QED BY <1>1, <1>2, <1>8, <3>1, OwnSame
    <2>2. Ancestors(g, x) \subseteq Ancestors(f, x)
      <3>1. Ancestors(f, x) \subseteq Ship /\ Upwards(f, Ancestors(f, x))
            /\ (Berthed(f, x) => f[x].dest \in Ancestors(f, x))
        BY <1>1, Around1
      <3>2. \A y \in {x} \cup Ancestors(f, x), d \in Ship : y \in InCarrier(f, d) => d \in Ancestors(f, x)
        BY <3>1 DEF Upwards, InCarrier
      <3>3. \A d \in Ship : \A y \in InCarrier(g, d) : y \in InCarrier(f, d)
        <4> SUFFICES ASSUME NEW d \in Ship, NEW y \in InCarrier(g, d) PROVE y \in InCarrier(f, d)
          OBVIOUS
        <4>1. y \in Ship /\ Berthed(g, y) /\ g[y].dest = d
          BY DEF InCarrier
        <4>2. Alive(g, d)
          BY <1>1, <4>1 DEF FleetSound, Docks
        <4> QED BY <1>2, <4>2
      <3>4. \A y \in {x} \cup Ancestors(f, x), d \in Ship : y \in InCarrier(g, d) => d \in Ancestors(f, x)
        BY <3>2, <3>3
      <3> DEFINE T == Ancestors(f, x)
      <3>5. FleetSound(g) /\ T \in SUBSET Ship
        BY <1>1, <3>1
      <3>6. \A y \in {x} \cup T, d \in Ship : y \in InCarrier(g, d) => d \in T
        BY <3>4
      <3> HIDE DEF T
      <3>7. Ancestors(g, x) \subseteq T
        BY <3>5, <3>6, AncestorsWithin
      <3> QED BY <3>7 DEF T
    <2>3. Written(f, M, x) => Written(g, M, x)
      BY <2>2 DEF Written
    <2>4. Written(f, L, x) => Written(f, M, x)
      BY DEF Written
    <2>5. CASE x \notin A
      <3>1. s \notin InCarrier(f, x)
        BY <1>1, <2>5, Around1 DEF InCarrier
      <3>2. InCarrier(g, x) = InCarrier(f, x)
        BY <1>2, <1>8, <3>1
      <3>3. \A y \in InCarrier(f, x) : y \notin A
        BY <1>1, <2>5 DEF Upwards, InCarrier
      <3>4. \A y \in InCarrier(f, x) : g[y].mass = f[y].mass
        BY <1>4, <1>7, <1>8, <3>2, <3>3
      <3>5. g[x].mass = f[x].mass /\ LocalMass(g[x]) = LocalMass(f[x])
        BY <1>2, <1>4, <1>8, <2>5
      <3> QED BY <1>1, <2>1, <2>2, <3>2, <3>4, <3>5, Unmoved
    <2>6. CASE x \in A /\ Written(f, M, x)
      BY <2>1, <2>3, <2>6 DEF Upheld, Written
    <2>7. CASE x \in A /\ ~Written(f, M, x)
      <3>1. InCarrier(f, s) = {}
        <4>1. Ancestors(f, x) \subseteq A
          <5>1. Berthed(f, x) => f[x].dest \in A
            BY <1>1, <2>7 DEF Upwards
          <5> QED BY <1>1, <5>1, Around2
        <4>2. ~(A \subseteq M)
          BY <2>7, <4>1 DEF Written
        <4> QED BY <4>2 DEF Released
      <3>2. m = f[s].mass /\ f[s].mass \in Int
        <4>1. Nest(f, s) = {s}
          <5> SUFFICES ASSUME NEW z \in Nest(f, s), z # s PROVE FALSE
            BY NestIs
          <5>1. z \in Ship /\ s \in Ancestors(f, z)
            BY DEF Nest
          <5>2. \E y \in InCarrier(f, s) : TRUE
            BY <5>1, ChainOfDecks
          <5> QED BY <3>1, <5>2
        <4> DEFINE F == [y \in Ship |-> f[y].mass]
        <4>2. F[s] = f[s].mass /\ F[s] \in Int
          BY <1>1, CraftFields
        <4>3. m = SumOf(F, {s})
          BY <4>1 DEF m, NestMass
        <4> HIDE DEF F
        <4>4. SumOf(F, {} \cup {s}) = F[s] + SumOf(F, {})
          <5>1. IsFiniteSet({})
            BY FS_EmptySet
          <5> QED BY <4>2, <5>1, SumGrow
        <4>5. SumOf(F, {}) = 0 /\ {} \cup {s} = {s}
          BY SumEmpty
        <4> QED BY <4>2, <4>3, <4>4, <4>5
      <3>3. \A z \in A : ~Written(f, L, z) => /\ f[z].mass - m >= BaseMass(f[z]) + f[z].res
                                              /\ f[z].mass - m >= BaseMass(f[z])
        <4> SUFFICES ASSUME NEW z \in A, ~Written(f, L, z)
                     PROVE  /\ f[z].mass - m >= BaseMass(f[z]) + f[z].res
                            /\ f[z].mass - m >= BaseMass(f[z])
          OBVIOUS
        <4>1. f[z].mass - m >= BaseMass(f[z]) + f[z].res
          BY <3>2, ChainOfWeights
        <4>2. f[z].mass \in Int /\ BaseMass(f[z]) \in Int /\ f[z].res \in Nat
          BY AncestorsLive, MassNumbers
        <4> QED BY <1>1, <4>1, <4>2
      <3>4. PICK y \in InCarrier(f, x) : InCarrier(f, x) \cap ({s} \cup A) = {y}
        BY <2>7, ChainOfDecks
      <3>5. y \in Ship /\ y \in {s} \cup A /\ f[y].mass \in Int /\ Berthed(f, y) /\ f[y].dest = x
        BY <1>1, <3>4, CraftFields DEF InCarrier
      <3>6. ~Written(f, L, x) /\ ~Written(f, L, y)
        <4>1. ~Written(f, L, x)
          BY <2>4, <2>7
        <4> QED BY <3>5, <4>1, WrittenUpwards
      <3>7. g[x].mass = f[x].mass - m
        BY <1>6, <1>8, <2>7, <3>3, <3>6
      <3>8. \A z \in InCarrier(g, x) \ {y} : g[z].mass = f[z].mass
        <4>1. \A z \in InCarrier(g, x) : z \in InCarrier(f, x) /\ z \in Ship /\ Alive(g, z)
          BY <1>2, <1>7, <1>8
        <4> QED BY <1>4, <3>4, <4>1
      <3>9. MassInside(g, x) = MassInside(f, x) - m
        <4>1. CASE y = s
          <5>1. InCarrier(g, x) = InCarrier(f, x) \ {s}
            BY <1>2, <1>8
          <5>2. \A z \in InCarrier(f, x) \ {s} : g[z].mass = f[z].mass
            BY <3>8, <4>1, <5>1
          <5>3. s \in InCarrier(f, x)
            BY <4>1
          <5> QED BY <1>1, <3>2, <5>1, <5>2, <5>3, MassInsideLess
        <4>2. CASE y # s
          <5>1. InCarrier(g, x) = InCarrier(f, x)
            BY <1>2, <1>8, <3>4, <4>2
          <5>2. MassInside(g, x) = MassInside(f, x) - f[y].mass + g[y].mass
            BY <1>1, <3>8, <5>1, MassInsideChanged
          <5>3. g[y].mass = f[y].mass - m
            <6>1. Alive(g, y) /\ y \in A
              BY <1>7, <1>8, <3>5, <4>2, <5>1
            <6> QED BY <1>6, <3>3, <3>5, <3>6, <6>1
          <5>4. MassInside(f, x) \in Int
            BY <1>1, MassInsideIs
          <5> QED BY <1>1, <3>5, <5>2, <5>3, <5>4
        <4> QED BY <4>1, <4>2
      <3>10. /\ f[x].mass \in Int /\ MassInside(f, x) \in Int /\ LocalMass(f[x]) \in Int
             /\ Own(f[x]) \in Int /\ BaseMass(f[x]) \in Int /\ f[x].res \in Int
        BY <2>1, MassNumbers
      <3>11. LocalMass(g[x]) = LocalMass(f[x])
        BY <1>2, <1>8
      <3>12. Exact(f, x) => Exact(g, x)
        BY <1>1, <3>7, <3>9, <3>10, <3>11 DEF Exact
      <3>13. Heavy(f, x) => Heavy(g, x)
        <4>1. f[x].mass - m >= BaseMass(f[x]) + f[x].res /\ Own(f[x]) <= BaseMass(f[x]) + f[x].res
          BY <2>1, <2>7, <3>3, <3>6, MassNumbers
        <4>2. f[x].mass - m >= Own(f[x])
          BY <1>1, <3>10, <4>1
        <4>3. Own(g[x]) = Own(f[x])
          BY <2>1
        <4> QED BY <1>1, <3>7, <3>9, <3>10, <4>2, <4>3 DEF Heavy
      <3> QED BY <2>1, <2>3, <2>4, <2>7, <3>6, <3>12, <3>13 DEF Upheld, Written
    <2> QED BY <2>5, <2>6, <2>7
  <1>9. \A x \in Ship : Alive(g, x) => Upheld(f, L, g, M, x)
    BY <1>8
  <1> QED BY <1>9, MassesFollow, Zenon

LEMMA WasteNumber ==
  ASSUME FleetSound(ship), NEW s \in Ship
  PROVE  Waste(ship, s) \in Nat
  BY CraftFields DEF Waste, FleetSound
LEMMA ReleasedShips ==
  ASSUME NEW f, NEW s
  PROVE  Released(f, s) \subseteq Ship
  BY DEF Released, Ancestors

LEMMA PerishKeeps ==
  ASSUME FleetInv, NEW s \in Ship, Perish(s)
  PROVE  Steady
  <1> DEFINE g == Killed(ship, s)
  <1>1. /\ FleetSound(ship) /\ Hangars(ship, grown) /\ stockpile \in Nat /\ toxic \in Nat
        /\ loose \subseteq Ship
    BY DEF FleetInv
  <1>2. /\ Alive(ship, s) /\ Ordered(g) /\ stockpile' = stockpile /\ grown' = grown
        /\ toxic' = toxic + Waste(ship, s) /\ loose' = loose \cup Released(ship, s)
    BY DEF Perish, Loosened
  <1>3. KilledAs(ship, s, g)
    BY <1>1, <1>2, Kills
  <1> HIDE DEF g
  <1>4. FleetSound(g)
    BY <1>3 DEF KilledAs
  <1>5. Hangars(g, grown)
    BY <1>1, <1>2, <1>3, KilledHangars
  <1>6. Wealth(g, stockpile') <= Wealth(ship, stockpile)
    <2>1. \A x \in Ship : Worth(g)[x] <= Worth(ship)[x]
      BY <1>1, <1>2, <1>3, KilledWorth
    <2> QED BY <1>1, <1>2, <1>4, <2>1, NoRicher
  <1>7. toxic' \in Nat /\ loose' \subseteq Ship
    BY <1>1, <1>2, WasteNumber, ReleasedShips
  <1>8. Masses(g, loose')
    <2>1. Masses(ship, loose) /\ loose \subseteq loose' /\ Released(ship, s) \subseteq loose'
      BY <1>2 DEF FleetInv
    <2> QED BY <1>1, <1>2, <1>3, <2>1, KilledMasses
  <1> QED BY <1>1, <1>2, <1>4, <1>5, <1>6, <1>7, <1>8, OrderedKeeps

LEMMA LostInTurnKeeps ==
  ASSUME FleetInv, NEW s \in Ship, LostInTurn(s)
  PROVE  Steady
  <1> DEFINE g == Killed(ship, s)
  <1>1. /\ FleetSound(ship) /\ Hangars(ship, grown) /\ stockpile \in Nat /\ toxic \in Nat
        /\ loose \subseteq Ship /\ waiting \subseteq Fleet
        /\ grown \in [Ship -> {"never", "once", "now"}]
    BY DEF FleetInv
  <1>2. /\ TurnStep(s, g) /\ stockpile' = stockpile /\ grown' = grown
        /\ toxic' = toxic + Waste(ship, s) /\ loose' = loose \cup Released(ship, s)
    BY DEF LostInTurn, Loosened
  <1>3. Alive(ship, s)
    BY <1>1, <1>2 DEF TurnStep, Fleet
  <1>4. KilledAs(ship, s, g)
    BY <1>1, <1>3, Kills
  <1> HIDE DEF g
  <1>5. FleetSound(g)
    BY <1>4 DEF KilledAs
  <1>6. Hangars(g, grown')
    BY <1>1, <1>2, <1>3, <1>4, KilledHangars
  <1>7. Wealth(g, stockpile') <= Wealth(ship, stockpile)
    <2>1. \A x \in Ship : Worth(g)[x] <= Worth(ship)[x]
      BY <1>1, <1>3, <1>4, KilledWorth
    <2> QED BY <1>1, <1>2, <1>5, <2>1, NoRicher
  <1>8. toxic' \in Nat /\ loose' \subseteq Ship
    BY <1>1, <1>2, WasteNumber, ReleasedShips
  <1>9. Masses(g, loose')
    <2>1. Masses(ship, loose) /\ loose \subseteq loose' /\ Released(ship, s) \subseteq loose'
      BY <1>2 DEF FleetInv
    <2> QED BY <1>1, <1>3, <1>4, <2>1, KilledMasses
  <1> QED BY <1>1, <1>2, <1>5, <1>6, <1>7, <1>8, <1>9, TurnKeeps

(* A scrapped ship is worth to its partner, or to the planet, no more than  *)
(* it was.                                                                 *)
LEMMA ScrapKeeps ==
  ASSUME FleetInv, NEW s \in Ship, Scrap(s)
  PROVE  Steady
  <1> DEFINE i == ship[s]
             v == ScrapValue(i)
             f == IF Docked(ship, s) THEN Loaded(ship, i.dest, v) ELSE ship
             g == Killed(f, s)
             n == IF Landed(ship, s) THEN v ELSE 0
  <1>1. /\ FleetSound(ship) /\ Hangars(ship, grown) /\ stockpile \in Nat /\ toxic \in Nat
        /\ loose \subseteq Ship
    BY DEF FleetInv
  <1>2. /\ Alive(ship, s) /\ Ordered(g) /\ stockpile' = stockpile + n
        /\ toxic' = toxic + Waste(ship, s) /\ grown' = grown
        /\ loose' = loose \cup (Released(ship, s) \cup Beyond(s))
    BY DEF Scrap, Loosened
  <1>3. v \in Nat /\ Worth(ship)[s] = v /\ \A x \in Ship : Worth(ship)[x] \in Int
    BY <1>1, <1>2, HullNumbers, WorthIs DEF FleetSound, Worth
  <1>4. toxic' \in Nat /\ loose' \subseteq Ship /\ n \in Nat /\ n <= v /\ stockpile' \in Nat
    BY <1>1, <1>2, <1>3, WasteNumber, ReleasedShips DEF Beyond, Ancestors
  <1>5. g = Killed(f, s) /\ Ordered(g)
    BY <1>2
  <1>6. CASE ~Docked(ship, s)
    <2>1. f = ship
      BY <1>6
    <2> HIDE DEF f, g
    <2>2. KilledAs(ship, s, g)
      BY <1>1, <1>2, <1>5, <2>1, Kills
    <2>3. FleetSound(g)
      BY <2>2 DEF KilledAs
    <2>4. Hangars(g, grown)
      BY <1>1, <1>2, <2>2, KilledHangars
    <2>5. Worth(g)[s] = 0 /\ \A x \in Ship : Worth(g)[x] <= Worth(ship)[x]
      BY <1>1, <1>2, <2>2, KilledWorth
    <2> HIDE DEF v, n
    <2>6. stockpile' + Worth(g)[s] <= stockpile + Worth(ship)[s]
      BY <1>1, <1>2, <1>3, <1>4, <2>5
    <2>7. Wealth(g, stockpile') <= Wealth(ship, stockpile)
      BY <1>1, <1>4, <2>3, <2>5, <2>6, NoRicherByOne
    <2>8. Masses(g, loose')
      <3>1. Masses(ship, loose) /\ loose \subseteq loose' /\ Released(ship, s) \subseteq loose'
        BY <1>2 DEF FleetInv
      <3> QED BY <1>1, <1>2, <2>2, <3>1, KilledMasses
    <2> QED BY <1>2, <1>4, <1>5, <2>3, <2>4, <2>7, <2>8, OrderedKeeps
  <1>7. CASE Docked(ship, s)
    <2> DEFINE d == i.dest
    <2>1. d \in Ship /\ d # s /\ Alive(ship, d)
      BY <1>1, <1>7, PartnerIsOther
    <2>2. f = Loaded(ship, d, v) /\ n = 0
      BY <1>7 DEF Docked, Landed
    <2> HIDE DEF f, g, v, n, d
    <2>3. PICK m : Takes(ship, d, v, m) /\ Stows(ship, f, d, m)
      BY <1>1, <1>3, <2>1, <2>2, LoadedStows, Zenon
    <2>4. m \in Nat /\ m <= v /\ Stows(ship, f, d, m)
      BY <2>3 DEF Takes
    <2>5. ship[d].res + m >= 0 /\ m \in Int
      BY <1>1, <2>1, <2>4, CraftFields DEF FleetSound
    <2>6. /\ FleetSound(f) /\ SameBerths(ship, f)
          /\ \A x \in Ship \ {d} : Worth(f)[x] = Worth(ship)[x]
          /\ Worth(f)[d] = Worth(ship)[d] + m
      BY <1>1, <2>1, <2>4, <2>5, StowsKeeps
    <2>7. Hangars(f, grown) /\ Alive(f, s)
      <3>1. Hangars(f, grown)
        BY <1>1, <2>1, <2>4, <2>5, StowsHangars
      <3> QED BY <1>2, <2>6, <3>1 DEF SameBerths
    <2>8. KilledAs(f, s, g)
      BY <1>5, <2>6, <2>7, Kills
    <2>9. FleetSound(g)
      BY <2>8 DEF KilledAs
    <2>10. Hangars(g, grown)
      BY <2>6, <2>7, <2>8, KilledHangars
    <2>11. Worth(g)[s] = 0 /\ \A x \in Ship : Worth(g)[x] <= Worth(f)[x]
      BY <2>6, <2>7, <2>8, KilledWorth
    <2>12. \A x \in Ship : Worth(g)[x] \in Int /\ Worth(f)[x] \in Int
      BY <2>6, <2>9, WorthIs
    <2>13. \A x \in Ship \ {s, d} : Worth(g)[x] <= Worth(ship)[x]
      BY <2>6, <2>11
    <2>14. stockpile' + Worth(g)[s] + Worth(g)[d] <= stockpile + Worth(ship)[s] + Worth(ship)[d]
      <3>1. Worth(g)[d] <= Worth(ship)[d] + m /\ stockpile' = stockpile
        BY <1>1, <1>2, <2>1, <2>2, <2>6, <2>11
      <3> QED BY <1>1, <1>3, <2>1, <2>4, <2>11, <2>12, <3>1
    <2>15. Wealth(g, stockpile') <= Wealth(ship, stockpile)
      BY <1>1, <1>4, <2>1, <2>9, <2>13, <2>14, NoRicherByTwo
    <2>16. Masses(f, loose')
      <3>1. Masses(ship, loose) /\ loose \subseteq loose' /\ Beyond(s) \subseteq loose'
        BY <1>2 DEF FleetInv
      <3>2. ASSUME Berthed(ship, d) PROVE ship[d].dest \in loose' /\ Written(ship, loose', ship[d].dest)
        <4>1. Berthed(ship, s) /\ Docks(ship)
          <5>1. ship[s].dock # "moored"
            BY <1>1, <3>2 DEF FleetSound, Docks, Berthed, d
          <5> QED BY <1>1, <1>7, <5>1 DEF FleetSound, Docked, Berthed
        <4>2. Beyond(s) = Ancestors(ship, d)
          BY <4>1 DEF Beyond, d
        <4>3. Ancestors(ship, d) = {ship[d].dest} \cup Ancestors(ship, ship[d].dest)
          BY <2>1, <3>2, <4>1, Around1
        <4> QED BY <3>1, <4>2, <4>3 DEF Written
      <3> QED BY <1>1, <2>1, <2>4, <2>5, <3>1, <3>2, StowsMasses
    <2>17. Masses(g, loose')
      <3>1. Released(f, s) = Released(ship, s)
        BY <2>6, BerthsFollow DEF Released
      <3>2. Released(f, s) \subseteq loose' /\ loose' \subseteq loose'
        BY <1>2, <3>1
      <3> QED BY <2>6, <2>7, <2>8, <2>16, <3>2, KilledMasses
    <2> QED BY <1>2, <1>4, <1>5, <2>9, <2>10, <2>15, <2>17, OrderedKeeps
  <1> QED BY <1>6, <1>7

-----------------------------------------------------------------------------
(* The count at the start of a turn *)

LEMMA Counts ==
  ASSUME NEW f, FleetSound(f), NEW g, g = Recounted(f)
  PROVE  /\ Rebooked(f, g)
         /\ \A s \in Ship : Alive(f, s) => g[s].hanger = SizeInside(f, s) /\ g[s].mass = Weighed(f, s)
  <1>1. f \in [Ship -> Craft]
    BY DEF FleetSound
  <1>2. g = [s \in Ship |-> g[s]] /\ \A s \in Ship : ~Alive(f, s) => g[s] = f[s]
    BY Zenon DEF Recounted
  <1>3. ASSUME NEW s \in Ship, Alive(f, s)
        PROVE  /\ g[s] = Booked(f[s], SizeInside(f, s), Weighed(f, s))
               /\ SizeInside(f, s) \in Int /\ Weighed(f, s) \in Int
    <2>1. g[s] = [f[s] EXCEPT !.mass = Weighed(f, s), !.hanger = SizeInside(f, s)]
      BY <1>3, Zenon DEF Recounted
    <2>2. SizeInside(f, s) \in Int
      BY <1>1, SizeInsideIs
    <2>3. Weighed(f, s) \in Int
      <3>1. Nest(f, s) \subseteq Ship /\ IsFiniteSet(Nest(f, s)) /\ \A x \in Nest(f, s) : Alive(f, x)
        BY <1>3, NestIs, FleetNumbers, FS_Subset
      <3>2. \A x \in Nest(f, s) : [y \in Ship |-> LocalMass(f[y])][x] \in Int
        BY <3>1, HullNumbers DEF FleetSound
      <3> QED BY <3>1, <3>2, SumIsInt DEF Weighed
    <2> DEFINE h == SizeInside(f, s)
               m == Weighed(f, s)
    <2>4. g[s] = [f[s] EXCEPT !.mass = m, !.hanger = h] /\ f[s] \in Craft
      BY <1>1, <2>1
    <2> HIDE DEF h, m
    <2>5. g[s] = Booked(f[s], h, m)
      BY <2>4 DEF Booked, Craft
    <2> QED BY <2>2, <2>3, <2>5 DEF h, m
  <1>4. ASSUME NEW s \in Ship, Alive(f, s)
        PROVE  /\ g[s] \in Craft /\ SameHull(f[s], g[s]) /\ g[s].dock = f[s].dock
               /\ g[s].dest = f[s].dest /\ g[s].size = f[s].size /\ g[s].res = f[s].res
               /\ g[s].waste = f[s].waste
               /\ g[s].hanger = SizeInside(f, s) /\ g[s].mass = Weighed(f, s)
    <2> DEFINE h == SizeInside(f, s)
               m == Weighed(f, s)
               y == Booked(f[s], h, m)
    <2>1. f[s] \in Craft /\ h \in Int /\ m \in Int /\ g[s] = y
      BY <1>1, <1>3, <1>4
    <2> HIDE DEF h, m
    <2>2. /\ y \in Craft /\ SameHull(f[s], y) /\ y.dock = f[s].dock
          /\ y.dest = f[s].dest /\ y.size = f[s].size /\ y.res = f[s].res
          /\ y.waste = f[s].waste /\ y.hanger = h /\ y.mass = m
      BY <2>1, BookedRecord
    <2> HIDE DEF y
    <2> QED BY <2>1, <2>2 DEF h, m
  <1>5. g \in [Ship -> Craft]
    BY <1>1, <1>2, <1>4
  <1>6. \A s \in Ship : SameHull(f[s], f[s])
    BY DEF SameHull
  <1>7. Rebooked(f, g)
    BY <1>2, <1>4, <1>5, <1>6 DEF Rebooked
  <1> QED BY <1>4, <1>7

(* A nest is its ship and, apart from one another, the nests berthed in it. *)
LEMMA NestsInside ==
  ASSUME NEW f, FleetSound(f), NEW c \in Ship
  PROVE  /\ Nest(f, c) = {c} \cup UNION {Nest(f, x) : x \in InCarrier(f, c)}
         /\ c \notin UNION {Nest(f, x) : x \in InCarrier(f, c)}
         /\ \A x, y \in InCarrier(f, c) : x # y => Nest(f, x) \cap Nest(f, y) = {}
  <1>1. ASSUME NEW x \in InCarrier(f, c), NEW z \in Nest(f, x)
        PROVE  z \in Ship /\ z # c /\ c \in Ancestors(f, z) /\ x \in {z} \cup Ancestors(f, z)
    <2>1. x \in Ship /\ Berthed(f, x) /\ f[x].dest = c
      BY DEF InCarrier
    <2>2. z \in Ship /\ x \in {z} \cup Ancestors(f, z)
      BY DEF Nest
    <2>3. c \in Ancestors(f, z)
      <3>1. Docks(f) /\ Upwards(f, Ancestors(f, z)) /\ (Berthed(f, z) => f[z].dest \in Ancestors(f, z))
        BY <2>2, Around1 DEF FleetSound
      <3> QED BY <2>1, <2>2, <3>1 DEF Upwards
    <2>4. z \notin Ancestors(f, z)
      BY <2>2, AncestorsLive
    <2> QED BY <2>2, <2>3, <2>4
  <1>2. ASSUME NEW z \in Nest(f, c), z # c PROVE \E x \in InCarrier(f, c) : z \in Nest(f, x)
    <2>1. z \in Ship /\ c \in Ancestors(f, z)
      BY <1>2 DEF Nest
    <2>2. PICK x \in InCarrier(f, c) : InCarrier(f, c) \cap ({z} \cup Ancestors(f, z)) = {x}
      BY <2>1, ChainOfDecks
    <2> QED BY <2>1, <2>2 DEF Nest
  <1>3. ASSUME NEW x \in InCarrier(f, c), NEW y \in InCarrier(f, c), x # y,
               NEW z \in Nest(f, x), z \in Nest(f, y)
        PROVE  FALSE
    <2>1. z \in Ship /\ c \in Ancestors(f, z) /\ {x, y} \subseteq {z} \cup Ancestors(f, z)
      BY <1>1, <1>3
    <2>2. PICK v \in InCarrier(f, c) : InCarrier(f, c) \cap ({z} \cup Ancestors(f, z)) = {v}
      BY <2>1, ChainOfDecks
    <2> QED BY <1>3, <2>1, <2>2
  <1>4. c \in Nest(f, c)
    BY NestIs
  <1>5. \A x \in InCarrier(f, c) : \A z \in Nest(f, x) : z \in Nest(f, c) /\ z # c
    BY <1>1 DEF Nest
  <1> QED BY <1>2, <1>3, <1>4, <1>5

(* So what is weighed in a ship is the ship and what is weighed in each of  *)
(* those berthed in it.                                                    *)
LEMMA WeighedIs ==
  ASSUME NEW f, FleetSound(f), NEW c \in Ship, Alive(f, c)
  PROVE  /\ Weighed(f, c) \in Nat
         /\ Weighed(f, c) = LocalMass(f[c]) + SumOf([x \in Ship |-> Weighed(f, x)], InCarrier(f, c))
  <1> DEFINE F == [x \in Ship |-> LocalMass(f[x])]
             W == [x \in Ship |-> Weighed(f, x)]
             N == [x \in Ship |-> Nest(f, x)]
             S == InCarrier(f, c)
             U == UNION {N[x] : x \in S}
  <1>1. \A x \in Ship : Alive(f, x) => F[x] \in Nat /\ F[x] = LocalMass(f[x])
    BY HullNumbers DEF FleetSound
  <1>2. \A x \in Ship : Nest(f, x) \subseteq Ship /\ IsFiniteSet(Nest(f, x))
                        /\ (Alive(f, x) => \A y \in Nest(f, x) : Alive(f, y))
    BY NestIs, FleetNumbers, FS_Subset
  <1>3. S \subseteq Ship /\ IsFiniteSet(S) /\ \A x \in S : Alive(f, x)
    BY FewInside DEF InCarrier, Berthed, Alive
  <1>4. U = UNION {Nest(f, x) : x \in S}
    BY <1>3
  <1>5. Nest(f, c) = {c} \cup U /\ c \notin U
    <2> HIDE DEF U
    <2> QED BY <1>4, NestsInside
  <1>6. \A x, y \in S : x # y => N[x] \cap N[y] = {}
    BY <1>3, NestsInside
  <1>7. \A x \in S : /\ IsFiniteSet(N[x]) /\ W[x] = SumOf(F, N[x])
                     /\ \A y \in N[x] : F[y] \in Int
    BY <1>1, <1>2, <1>3 DEF Weighed
  <1>8. Weighed(f, c) = SumOf(F, Nest(f, c)) /\ \A x \in Nest(f, c) : F[x] \in Nat
    BY <1>1, <1>2 DEF Weighed
  <1>9. IsFiniteSet(Nest(f, c)) /\ IsFiniteSet(U)
    BY <1>2, <1>5, FS_Subset
  <1>10. F[c] = LocalMass(f[c]) /\ F[c] \in Int
    BY <1>1
  <1> HIDE DEF F, W, N, S
  <1>11. SumOf(F, U) = SumOf(W, S)
    BY <1>3, <1>6, <1>7, SumFamily
  <1> HIDE DEF U
  <1>12. SumOf(F, U \cup {c}) = F[c] + SumOf(F, U)
    BY <1>5, <1>8, <1>9, <1>10, SumGrow
  <1>13. U \cup {c} = Nest(f, c)
    BY <1>5
  <1>14. SumOf(F, Nest(f, c)) \in Nat
    BY <1>8, <1>9, SumIsNat
  <1>15. SumOf(F, Nest(f, c)) = F[c] + SumOf(W, S)
    BY <1>11, <1>12, <1>13
  <1> QED BY <1>8, <1>10, <1>14, <1>15 DEF W, S

(* The count leaves no ship too light and none off. *)
LEMMA CountedMasses ==
  ASSUME NEW f, FleetSound(f), NEW g, FleetSound(g), Rebooked(f, g), SameBerths(f, g),
         \A s \in Ship : Alive(f, s) => g[s].mass = Weighed(f, s) /\ LocalMass(g[s]) = LocalMass(f[s]),
         NEW M
  PROVE  Masses(g, M)
  <1> SUFFICES ASSUME NEW c \in Ship, Alive(g, c) PROVE Exact(g, c) /\ Heavy(g, c)
    BY DEF Masses
  <1> DEFINE W == [x \in Ship |-> Weighed(f, x)]
             G == [x \in Ship |-> g[x].mass]
             S == InCarrier(f, c)
  <1>1. Alive(f, c) /\ InCarrier(g, c) = S
    BY BerthsFollow DEF SameBerths
  <1>2. S \subseteq Ship /\ IsFiniteSet(S) /\ \A x \in S : Alive(f, x)
    <2>1. \A x \in S : Alive(f, x)
      BY DEF InCarrier, Berthed, Alive
    <2> QED BY <2>1, FewInside
  <1>3. \A x \in S : W[x] \in Nat /\ G[x] = W[x]
    BY <1>2, WeighedIs
  <1>4. MassInside(g, c) = SumOf(G, S)
    BY <1>1 DEF MassInside
  <1>5. Weighed(f, c) = LocalMass(f[c]) + SumOf(W, S)
    BY <1>1, WeighedIs
  <1> HIDE DEF W, G, S
  <1>6. SumOf(G, S) = SumOf(W, S) /\ SumOf(W, S) \in Nat
    BY <1>2, <1>3, SumCongruence, SumIsNat
  <1>7. g[c].mass = LocalMass(g[c]) + MassInside(g, c) /\ MassInside(g, c) \in Nat
    BY <1>1, <1>4, <1>5, <1>6
  <1>8. Own(g[c]) \in Nat /\ LocalMass(g[c]) \in Int /\ Own(g[c]) <= LocalMass(g[c])
    BY MassNumbers
  <1> QED BY <1>7, <1>8 DEF Exact, Heavy

LEMMA BeginTurnKeeps ==
  ASSUME FleetInv, BeginTurn
  PROVE  Steady
  <1> DEFINE g == Recounted(ship)
  <1>1. /\ FleetSound(ship) /\ Hangars(ship, grown) /\ stockpile \in Nat /\ toxic \in Nat
        /\ loose \subseteq Ship /\ grown \in [Ship -> {"never", "once", "now"}]
    BY DEF FleetInv
  <1>2. /\ ship' = g /\ waiting' = Fleet /\ loose' = {} /\ stockpile' = stockpile /\ toxic' = toxic
        /\ grown' = [s \in Ship |-> IF grown[s] = "never" THEN "never" ELSE "once"]
    BY DEF BeginTurn
  <1>3. /\ Rebooked(ship, g)
        /\ \A s \in Ship : Alive(ship, s) => g[s].hanger = SizeInside(ship, s) /\ g[s].mass = Weighed(ship, s)
    BY <1>1, Counts
  <1> HIDE DEF g
  <1>4. /\ FleetSound(g) /\ SameBerths(ship, g) /\ \A x \in Ship : Worth(g)[x] = Worth(ship)[x]
    BY <1>1, <1>3, RebookedKeeps
  <1>5. Hangars(g, grown')
    <2> SUFFICES ASSUME NEW c \in Ship, Alive(g, c)
                 PROVE  /\ g[c].hanger = SizeInside(g, c)
                        /\ grown'[c] = "never" => g[c].hanger <= g[c].bay
      BY DEF Hangars
    <2>1. Alive(ship, c) /\ g[c].bay = ship[c].bay
      BY <1>3, <1>4 DEF SameBerths, Rebooked, SameHull
    <2>2. SizeInside(g, c) = SizeInside(ship, c)
      <3>1. InCarrier(g, c) = InCarrier(ship, c) /\ \A x \in InCarrier(ship, c) : g[x].size = ship[x].size
        BY <1>3, <1>4, BerthsFollow DEF Rebooked, InCarrier
      <3> QED BY <1>1, <1>4, <3>1, SizeInsideSame DEF FleetSound
    <2>3. grown'[c] = "never" => grown[c] = "never"
      BY <1>2
    <2>4. grown[c] = "never" => SizeInside(ship, c) <= ship[c].bay
      BY <1>1, <2>1 DEF Hangars
    <2> QED BY <1>3, <2>1, <2>2, <2>3, <2>4
  <1>6. Wealth(g, stockpile') <= Wealth(ship, stockpile)
    <2>1. \A x \in Ship : Worth(g)[x] <= Worth(ship)[x]
      BY <1>1, <1>4, WorthIs
    <2> QED BY <1>1, <1>2, <1>4, <2>1, NoRicher
  <1>7. waiting' \subseteq Fleet'
    BY <1>2, <1>4 DEF Fleet, SameBerths, Alive
  <1>8. grown' \in [Ship -> {"never", "once", "now"}]
    BY <1>2
  <1>m. Masses(g, {})
    <2>1. \A x \in Ship : LocalMass(g[x]) = LocalMass(ship[x])
      BY <1>1, <1>3, RebookedKeeps
    <2> QED BY <1>1, <1>3, <1>4, <2>1, CountedMasses
  <1>9. FleetSound(ship') /\ Hangars(ship', grown') /\ Masses(ship', loose')
    BY <1>2, <1>4, <1>5, <1>m
  <1>10. FleetInv'
    BY <1>1, <1>2, <1>7, <1>8, <1>9 DEF FleetInv
  <1> QED BY <1>2, <1>6, <1>10 DEF Steady

-----------------------------------------------------------------------------
(* The fleet *)

LEMMA FleetStarts ==
  ASSUME CarriersInit
  PROVE  FleetInv
  <1>1. PICK q \in Start : ship = [s \in Ship |-> IF q[s] = Nil THEN Gone ELSE Started(q[s])]
    BY DEF CarriersInit
  <1>2. q \in [Ship -> Type \cup {Nil}]
    BY <1>1, CarriersAssumption
  <1>3. ASSUME NEW t \in Type
        PROVE  Whole(Started(t)) /\ Started(t).dock \in {"landed", "spaceborne"}
               /\ Started(t).hanger = 0 /\ Started(t).mass = LocalMass(Started(t))
    <2> DEFINE d == IF Template[t].lands THEN "landed" ELSE "spaceborne"
               n == Template[t].hold
               i == GetShip(t)
               y == At(i, d, Nil)
    <2>1. Fresh(i) /\ n \in Nat /\ Mooring(d, Nil)
      BY FreshShips, FleetNumbers DEF Mooring, Dock
    <2>2. Whole(y) /\ y.dock = d /\ y.hanger = 0 /\ y.res = 0 /\ LocalMass(y) = y.mass
      BY <2>1, FreshAt
    <2>3. Started(t) = Stowed(y, n)
      <3>1. i \in Craft /\ i.dest = Nil
        BY <2>1 DEF Fresh
      <3> HIDE DEF i, n
      <3>2. [i EXCEPT !.dock = d, !.res = @ + n, !.mass = @ + n] = Stowed(y, n)
        BY <3>1 DEF Craft, Stowed, At
      <3> QED BY <3>2, Zenon DEF Started, i, n
    <2> HIDE DEF y, n, d
    <2>4. /\ Whole(Stowed(y, n)) /\ Stowed(y, n).dock = d /\ Stowed(y, n).hanger = 0
          /\ Stowed(y, n).mass = y.mass + n /\ LocalMass(Stowed(y, n)) = LocalMass(y) + n
      BY <2>1, <2>2, StowedRecord, StowedWorth
    <2>5. Stowed(y, n).mass = LocalMass(Stowed(y, n))
      BY <2>2, <2>4
    <2>6. d \in {"landed", "spaceborne"}
      BY DEF d
    <2> DEFINE z == Stowed(y, n)
    <2>7. Whole(z) /\ z.dock \in {"landed", "spaceborne"} /\ z.hanger = 0 /\ z.mass = LocalMass(z)
      BY <2>2, <2>4, <2>5, <2>6
    <2> HIDE DEF z
    <2> QED BY <2>3, <2>7, Zenon DEF z
  <1>4. Gone \in Craft /\ Gone.dock = "gone"
    BY DEF Gone, Craft, Dock
  <1>5. \A s \in Ship : /\ ship[s] \in Craft
                        /\ IF Alive(ship, s) THEN Whole(ship[s]) ELSE ship[s] = Gone
                        /\ ship[s].dock \in {"gone", "landed", "spaceborne"}
                        /\ Alive(ship, s) => /\ ship[s].hanger = 0
                                             /\ ship[s].mass = LocalMass(ship[s])
    <2> SUFFICES ASSUME NEW s \in Ship
                 PROVE  /\ ship[s] \in Craft
                        /\ IF Alive(ship, s) THEN Whole(ship[s]) ELSE ship[s] = Gone
                        /\ ship[s].dock \in {"gone", "landed", "spaceborne"}
                        /\ Alive(ship, s) => /\ ship[s].hanger = 0
                                             /\ ship[s].mass = LocalMass(ship[s])
      OBVIOUS
    <2>1. CASE q[s] = Nil
      <3>1. ship[s] = Gone
        BY <1>1, <2>1, Zenon
      <3> QED BY <1>4, <3>1 DEF Alive
    <2>2. CASE q[s] # Nil
      <3> DEFINE y == Started(q[s])
      <3>1. ship[s] = y
        BY <1>1, <2>2, Zenon
      <3>2. Whole(y) /\ y.dock \in {"landed", "spaceborne"} /\ y.hanger = 0
           /\ y.mass = LocalMass(y)
        BY <1>2, <1>3, <2>2
      <3> HIDE DEF y
      <3>3. y \in Craft
        BY <3>2 DEF Whole
      <3> QED BY <3>1, <3>2, <3>3 DEF Alive
    <2> QED BY <2>1, <2>2
  <1>6. ship \in [Ship -> Craft]
    BY <1>1, <1>5
  <1>7. \A s \in Ship : ~Berthed(ship, s) /\ ship[s].dock # "moored"
    BY <1>5 DEF Berthed
  <1>8. Docks(ship)
    BY <1>7 DEF Docks
  <1>9. Ranked(ship)
    <2>1. [s \in Ship |-> 0] \in [Ship -> Nat]
      OBVIOUS
    <2> QED BY <1>7, <2>1 DEF Ranked
  <1>10. FleetSound(ship)
    BY <1>5, <1>6, <1>8, <1>9 DEF FleetSound
  <1>11. Hangars(ship, grown)
    <2>1. \A c \in Ship : InCarrier(ship, c) = {}
      BY <1>7 DEF InCarrier
    <2>2. \A c \in Ship : SizeInside(ship, c) = 0 /\ ship[c].bay \in Nat
      BY <1>6, <2>1, SizeInsideCovers, CraftFields
    <2> QED BY <1>5, <2>2 DEF Hangars
  <1>12. Masses(ship, loose)
    <2>1. \A c \in Ship : InCarrier(ship, c) = {}
      BY <1>7 DEF InCarrier
    <2>2. \A c \in Ship : MassInside(ship, c) = 0
      BY <2>1, SumEmpty DEF MassInside
    <2> SUFFICES ASSUME NEW c \in Ship, Alive(ship, c) PROVE Exact(ship, c) /\ Heavy(ship, c)
      BY DEF Masses
    <2>3. ship[c].mass = LocalMass(ship[c])
      BY <1>5
    <2>4. Own(ship[c]) \in Nat /\ LocalMass(ship[c]) \in Int /\ Own(ship[c]) <= LocalMass(ship[c])
      BY <1>10, MassNumbers
    <2> QED BY <2>2, <2>3, <2>4 DEF Exact, Heavy
  <1> QED BY <1>10, <1>11, <1>12, FleetNumbers DEF CarriersInit, FleetInv

LEMMA FleetSteps ==
  ASSUME FleetInv, CarriersNext
  PROVE  Steady
  <1>1. ASSUME NEW s \in Ship, NEW t \in Type, BuildOnPlanet(s, t) \/ Make(s, t) PROVE Steady
    BY <1>1, BuildKeeps, MakeKeeps
  <1>2. ASSUME NEW s \in Ship, NEW n \in Amount,
               LoadFromPlanet(s, n) \/ UnloadToPlanet(s, n) \/ Trade(s, n) \/ Jettison(s, n)
        PROVE  Steady
    BY <1>2, LoadKeeps, UnloadKeeps, TradeKeeps, JettisonKeeps
  <1>3. ASSUME NEW s \in Ship, NEW a \in {"hold", "bay"}, NEW v \in Setting,
               Modify(s, a, v) \/ Upgrade(s, a, v)
        PROVE  Steady
    BY <1>3, ModifyKeeps, UpgradeKeeps
  <1>4. ASSUME NEW s \in Ship,
               \/ Activate(s) \/ Undock(s) \/ Land(s) \/ LaunchFromPlanet(s)
               \/ LaunchFromCarrier(s) \/ Scrap(s) \/ Perish(s)
               \/ DoShip(s) \/ LostInTurn(s)
        PROVE  Steady
    BY <1>4, ActivateKeeps, UndockKeeps, LandKeeps, LaunchKeeps, LaunchFromCarrierKeeps,
       ScrapKeeps, PerishKeeps, DoShipKeeps, LostInTurnKeeps
  <1>5. ASSUME NEW s \in Ship, NEW load \in BOOLEAN, NEW unload \in BOOLEAN,
               MerchantStop(s, load, unload)
        PROVE  Steady
    BY <1>5, MerchantStopKeeps
  <1>6. ASSUME NEW b \in Ship, NEW s \in Ship, BuildInFactory(b, s) \/ Moor(b, s) \/ Berth(b, s)
        PROVE  Steady
    BY <1>6, BuildInFactoryKeeps, MoorKeeps, BerthKeeps
  <1>7. ASSUME NEW b \in Ship, NEW s \in Ship, NEW t \in Type, BuildOnShip(b, s, t)
        PROVE  Steady
    BY <1>7, BuildOnShipKeeps
  <1>8. ASSUME BeginTurn PROVE Steady
    BY <1>8, BeginTurnKeeps
  <1> QED BY <1>1, <1>2, <1>3, <1>4, <1>5, <1>6, <1>7, <1>8, Zenon DEF CarriersNext

LEMMA FleetRests ==
  ASSUME FleetInv, UNCHANGED carriers_vars
  PROVE  Steady
  <1>1. FleetInv'
    BY DEF FleetInv, carriers_vars, Fleet, Alive
  <1>2. \A x \in Ship : Worth(ship)[x] \in Int
    BY WorthIs DEF FleetInv
  <1>3. SumOf(Worth(ship), Ship) \in Int
    BY <1>2, FleetNumbers, SumIsInt
  <1>4. Wealth(ship, stockpile) \in Int
    BY <1>3, WealthIs DEF FleetInv
  <1>5. Wealth(ship', stockpile') = Wealth(ship, stockpile)
    BY DEF carriers_vars
  <1> QED BY <1>1, <1>4, <1>5 DEF Steady

LEMMA FleetHolds == CarriersSpec => []FleetInv
  <1>1. FleetInv /\ [CarriersNext]_carriers_vars => FleetInv'
    BY FleetSteps, FleetRests DEF Steady
  <1> QED BY <1>1, FleetStarts, PTL DEF CarriersSpec

(* HangarsSound: in every state of the fleet a carrier's hangar in use is    *)
(* what is berthed in it, within bounds, but for factories grown inside:   *)
(* the kill, the launch, the upgrade and the habitat all keep the books.   *)
THEOREM HangarsAreSound == CarriersSpec => []HangarsSound
  <1>1. FleetInv => HangarsSound
    <2> SUFFICES ASSUME FleetInv PROVE HangarsSound
      OBVIOUS
    <2>1. FleetSound(ship) /\ Hangars(ship, grown)
      BY DEF FleetInv
    <2>2. \A s \in Ship :
            /\ ship[s].dock \in {"gone", "landed", "spaceborne", "moored", "berthed"}
            /\ {ship[s].res, ship[s].size, ship[s].waste} \subseteq Nat /\ ship[s].hanger \in Int
      BY <2>1, CraftFields DEF FleetSound, Dock
    <2>3. \A s \in Ship : Docked(ship, s) => Alive(ship, ship[s].dest)
      BY <2>1, PartnerIsOther
    <2>4. FleetTypeOK
      BY <2>2, <2>3 DEF FleetTypeOK, FleetInv
    <2>5. HangarBooks /\ HangarFits
      BY <2>1 DEF HangarBooks, HangarFits, Hangars, Fleet
    <2> QED BY <2>4, <2>5 DEF HangarsSound
  <1> QED BY <1>1, FleetHolds, PTL

(* MassBooks: a ship that nothing has unbooked since the last count weighs   *)
(* itself and what is in it.  What a step unbooks is in loose; that is     *)
(* enough only because the clamp at the base mass bites no carrier but     *)
(* those written off with all that are around them.                        *)
THEOREM MassesAreBooked == CarriersSpec => []MassBooks
  <1>1. FleetInv => MassBooks
    BY DEF FleetInv, Masses, Exact, MassBooks, Fleet
  <1> QED BY <1>1, FleetHolds, PTL

(* NothingFromNothing: no step of the fleet makes the race richer.          *)
THEOREM NothingComesFromNothing == CarriersSpec => NothingFromNothing
  <1>1. FleetInv /\ [CarriersNext]_carriers_vars =>
          [Wealth(ship', stockpile') <= Wealth(ship, stockpile)]_carriers_vars
    BY FleetSteps DEF Steady
  <1> QED BY <1>1, FleetHolds, PTL DEF CarriersSpec, NothingFromNothing
=============================================================================
