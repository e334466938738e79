--------------------------- MODULE ShipLinksProofs ---------------------------
(***************************************************************************)
(* For any number of ships and any nesting of hangars: whoever is alive    *)
(* names only the living, mooring is mutual, the rows answer which craft a *)
(* carrier holds even in the middle of a turn, and a carrier takes its     *)
(* craft with it.                                                          *)
(*                                                                         *)
(* The invariant says of a table of ships that it is Sound, of the cached  *)
(* table and of the rows, and that the two agree on who is berthed where.  *)
(* The heart is KilledSound: what kill_ship does to a sound table.         *)
(***************************************************************************)
EXTENDS ShipLinks, TLAPS

Shape(f) ==
  \A s \in Ship :
    /\ f[s].dock \in {"moored", "berthed"} => f[s].dest # None
    /\ f[s].dock = "landed" => f[s].dest = None

Live(f) == \A s \in Ship : Alive(f, s) => \A t \in Names(f[s]) : Alive(f, t)

Pairs(f) ==
  \A s \in Ship :
    f[s].dock = "moored" =>
      /\ f[s].dest # s
      /\ f[f[s].dest].dock = "moored"
      /\ f[f[s].dest].dest = s

Sound(f) == f \in [Ship -> Image] /\ Shape(f) /\ Live(f) /\ Pairs(f)

BerthedIn(f, x, c) == f[x].dock = "berthed" /\ f[x].dest = c

Agree(f, rows) ==
  \A x \in Ship, c \in Ship :
    Alive(f, x) => (BerthedIn(f, x, c) <=> BerthedIn(rows, x, c))

SameLives(f, g) == \A x \in Ship : Alive(g, x) <=> Alive(f, x)

\* From f to g no ship outlives the carrier it was berthed in.
Follows(f, g) == \A x, c \in Ship : Alive(g, x) /\ BerthedIn(f, x, c) => Alive(g, c)

\* ... nor comes back to life, nor leaves it.
Carries(f, g) ==
  /\ \A x \in Ship : ~Alive(f, x) => ~Alive(g, x)
  /\ \A x, c \in Ship :
       Alive(g, x) /\ BerthedIn(f, x, c) => BerthedIn(g, x, c) /\ Alive(g, c)

IInv ==
  /\ Sound(ship) /\ Sound(row) /\ Agree(ship, row)
  /\ turn \in BOOLEAN /\ (~turn => ship = row)
  /\ earlier \subseteq Ship \X Ship
  /\ refused \in {"no", "order", "kill", "turn"}

-----------------------------------------------------------------------------
(* Tables *)

LEMMA GoneIsImage == Gone \in Image /\ New \in Image
BY DEF Gone, New, Image

LEMMA PlacedFields ==
  ASSUME NEW i \in Image, NEW d \in {"spaceborne", "landed", "moored", "berthed", "gone"},
         NEW t \in Ship \cup {None}
  PROVE  /\ Placed(i, d, t) \in Image /\ Placed(i, d, t).dock = d
         /\ Placed(i, d, t).dest = t /\ Placed(i, d, t).guard = i.guard
         /\ Names(Placed(i, d, t)) \subseteq Names(i) \cup ({t} \ {None})
BY DEF Placed, Image, Names

LEMMA UndockedFields ==
  ASSUME NEW i \in Image
  PROVE  /\ Undocked(i) \in Image /\ Undocked(i).dock = "spaceborne"
         /\ Undocked(i).dest = None /\ Undocked(i).guard = i.guard
BY PlacedFields DEF Undocked

LEMMA NamesShips ==
  ASSUME NEW i \in Image
  PROVE  Names(i) \subseteq Ship
BY DEF Names, Image

LEMMA FewerNames ==
  ASSUME NEW i \in Image, NEW j \in Image, NEW D,
         j.dest \in {i.dest, None} \cup D, j.guard = i.guard
  PROVE  Names(j) \subseteq Names(i) \cup D
BY DEF Names

\* Nobody is moored to a ship that is not moored.
LEMMA SpaceborneAlone ==
  ASSUME NEW f, Sound(f), NEW s \in Ship, f[s].dock # "moored", NEW x \in Ship
  PROVE  f[x].dock = "moored" => f[x].dest # s /\ f[x].dest \in Ship
BY ShipAssumption DEF Sound, Pairs, Shape, Image

\* A ship that is not moored and does not become so may change its own links.
LEMMA ChangedSound ==
  ASSUME NEW f, Sound(f), NEW s \in Ship, NEW i \in Image,
         f[s].dock \notin {"moored", "gone"}, i.dock \notin {"moored", "gone"},
         i.dock = "berthed" => i.dest # None,
         i.dock = "landed" => i.dest = None,
         \A t \in Names(i) : Alive(f, t)
  PROVE  Sound([f EXCEPT ![s] = i]) /\ SameLives(f, [f EXCEPT ![s] = i])
<1> DEFINE g == [f EXCEPT ![s] = i]
<1>1. f \in [Ship -> Image] /\ g \in [Ship -> Image]
  BY DEF Sound
<1>2. g[s] = i /\ \A x \in Ship : x # s => g[x] = f[x]
  BY <1>1
<1>3. \A x \in Ship : Alive(g, x) <=> Alive(f, x)
  BY <1>2 DEF Alive
<1>4. \A x \in Ship : Names(f[x]) \subseteq Ship /\ Names(g[x]) \subseteq Ship
  BY <1>1 DEF Names, Image
<1>5. Live(g)
  <2> SUFFICES ASSUME NEW x \in Ship, Alive(g, x), NEW t \in Names(g[x]) PROVE Alive(g, t)
    BY DEF Live
  <2>1. t \in Ship
    BY <1>4
  <2>2. Alive(f, t)
    BY <1>2, <1>3 DEF Sound, Live
  <2> QED
    BY <1>3, <2>1, <2>2
<1>6. Shape(g)
  BY <1>2 DEF Sound, Shape
<1>7. Pairs(g)
  <2> SUFFICES ASSUME NEW x \in Ship, g[x].dock = "moored"
               PROVE  g[x].dest # x /\ g[g[x].dest].dock = "moored" /\ g[g[x].dest].dest = x
    BY DEF Pairs
  <2>1. x # s /\ g[x] = f[x]
    BY <1>2
  <2>2. f[x].dest # s /\ f[x].dest \in Ship
    BY <2>1, SpaceborneAlone
  <2> QED
    BY <1>2, <2>1, <2>2 DEF Sound, Pairs
<1> QED
  BY <1>1, <1>3, <1>5, <1>6, <1>7 DEF Sound, SameLives

\* Any living ship may change whom it guards.
LEMMA GuardSound ==
  ASSUME NEW f, Sound(f), NEW s \in Ship, NEW t \in Ship \cup {None},
         t # None => Alive(f, t)
  PROVE  Sound([f EXCEPT ![s].guard = t]) /\ SameLives(f, [f EXCEPT ![s].guard = t])
<1> DEFINE g == [f EXCEPT ![s].guard = t]
<1>1. f \in [Ship -> Image] /\ g \in [Ship -> Image]
  BY DEF Sound, Image
<1>2. \A x \in Ship : /\ g[x].dock = f[x].dock /\ g[x].dest = f[x].dest
                      /\ g[x].guard \in {f[x].guard, t}
  BY <1>1 DEF Image
<1>3. \A x \in Ship : Alive(g, x) <=> Alive(f, x)
  BY <1>2 DEF Alive
<1>4. \A x \in Ship : Names(g[x]) \subseteq Names(f[x]) \cup ({t} \ {None})
  BY <1>2 DEF Names
<1>5. \A x \in Ship : Names(f[x]) \subseteq Ship
  BY <1>1 DEF Names, Image
<1>6. Live(g)
  <2> SUFFICES ASSUME NEW x \in Ship, Alive(g, x), NEW y \in Names(g[x]) PROVE Alive(g, y)
    BY DEF Live
  <2>1. CASE y \in Names(f[x])
    BY <1>3, <1>5, <2>1 DEF Sound, Live
  <2>2. CASE y = t /\ t # None
    BY <1>3, <2>2
  <2> QED
    BY <1>4, <2>1, <2>2
<1>7. Shape(g)
  BY <1>2 DEF Sound, Shape
<1>8. Pairs(g)
  <2> SUFFICES ASSUME NEW x \in Ship, g[x].dock = "moored"
               PROVE  g[x].dest # x /\ g[g[x].dest].dock = "moored" /\ g[g[x].dest].dest = x
    BY DEF Pairs
  <2>1. f[x].dock = "moored" /\ g[x].dest = f[x].dest
    BY <1>2
  <2>2. f[x].dest \in Ship
    BY <1>1, <2>1 DEF Sound, Shape, Image
  <2> QED
    BY <1>2, <2>1, <2>2 DEF Sound, Pairs
<1> QED
  BY <1>1, <1>3, <1>6, <1>7, <1>8 DEF Sound, SameLives

LEMMA MooredSound ==
  ASSUME NEW f, Sound(f), NEW s \in Ship, NEW t \in Ship, s # t,
         f[s].dock = "spaceborne", f[t].dock = "spaceborne"
  PROVE  Sound(MooredTogether(f, s, t)) /\ SameLives(f, MooredTogether(f, s, t))
<1> DEFINE g == MooredTogether(f, s, t)
           Row(x, y) == Placed(f[x], "moored", y)
<1>a. f \in [Ship -> Image] /\ f[s] \in Image /\ f[t] \in Image
  BY DEF Sound
<1>b. /\ Row(s, t) \in Image /\ Row(s, t).dock = "moored" /\ Row(s, t).dest = t
      /\ Row(s, t).guard = f[s].guard
      /\ Row(t, s) \in Image /\ Row(t, s).dock = "moored" /\ Row(t, s).dest = s
      /\ Row(t, s).guard = f[t].guard
  BY <1>a, PlacedFields
<1>c. g = [f EXCEPT ![s] = Row(s, t), ![t] = Row(t, s)]
  BY <1>a DEF MooredTogether
<1> HIDE DEF g, Row
<1>1. f \in [Ship -> Image] /\ g \in [Ship -> Image]
  BY <1>a, <1>b, <1>c
<1>2. /\ g[s].dock = "moored" /\ g[s].dest = t /\ g[s].guard = f[s].guard
      /\ g[t].dock = "moored" /\ g[t].dest = s /\ g[t].guard = f[t].guard
      /\ \A x \in Ship : x \notin {s, t} => g[x] = f[x]
  BY <1>a, <1>b, <1>c
<1>3. \A x \in Ship : Alive(g, x) <=> Alive(f, x)
  BY <1>2 DEF Alive
<1>4. \A x \in Ship : Names(f[x]) \subseteq Ship /\ Names(g[x]) \subseteq Names(f[x]) \cup {s, t}
  <2>1. \A x \in Ship : /\ f[x] \in Image /\ g[x] \in Image
                        /\ g[x].dest \in {f[x].dest, None} \cup {s, t}
                        /\ g[x].guard = f[x].guard
    BY <1>1, <1>2
  <2> QED
    BY <2>1, NamesShips, FewerNames
<1>5. Live(g)
  BY <1>3, <1>4 DEF Sound, Live, Alive
<1>6. Shape(g)
  BY <1>2, ShipAssumption DEF Sound, Shape
<1>7. Pairs(g)
  <2> SUFFICES ASSUME NEW x \in Ship, g[x].dock = "moored"
               PROVE  g[x].dest # x /\ g[g[x].dest].dock = "moored" /\ g[g[x].dest].dest = x
    BY DEF Pairs
  <2>1. CASE x \in {s, t}
    BY <1>2, <2>1
  <2>2. CASE x \notin {s, t}
    <3>1. g[x] = f[x]
      BY <1>2, <2>2
    <3>2. f[x].dest \notin {s, t} /\ f[x].dest \in Ship
      BY <3>1, SpaceborneAlone
    <3> QED
      BY <1>2, <3>1, <3>2 DEF Sound, Pairs
  <2> QED
    BY <2>1, <2>2
<1> QED
  BY <1>1, <1>3, <1>5, <1>6, <1>7 DEF Sound, SameLives, g

LEMMA UnmooredSound ==
  ASSUME NEW f, Sound(f), NEW s \in Ship, f[s].dock = "moored"
  PROVE  /\ Sound(Unmoored(f, s)) /\ Unmoored(f, s)[s].dock = "spaceborne"
         /\ SameLives(f, Unmoored(f, s))
         /\ \A x \in Ship : f[x].dock # "moored" => Unmoored(f, s)[x] = f[x]
<1> DEFINE g == Unmoored(f, s)
           p == f[s].dest
<1>1. f \in [Ship -> Image] /\ p \in Ship /\ f[p].dock = "moored" /\ f[p].dest = s /\ p # s
  BY DEF Sound, Shape, Pairs, Image
<1>2. \A x \in Ship : Undocked(f[x]) \in Image
  BY <1>1, UndockedFields
<1>3. /\ g \in [Ship -> Image]
      /\ g[s] = Undocked(f[s]) /\ g[p] = Undocked(f[p])
      /\ \A x \in Ship : x \notin {s, p} => g[x] = f[x]
  BY <1>1, <1>2 DEF Unmoored
<1>4. \A x \in Ship : /\ Undocked(f[x]).dock = "spaceborne" /\ Undocked(f[x]).dest = None
                      /\ Undocked(f[x]).guard = f[x].guard
  BY <1>1, UndockedFields
<1>5. \A x \in Ship : Alive(g, x) <=> Alive(f, x)
  BY <1>1, <1>3, <1>4 DEF Alive
<1>6. \A x \in Ship : Names(f[x]) \subseteq Ship /\ Names(g[x]) \subseteq Names(f[x])
  <2>1. \A x \in Ship : /\ f[x] \in Image /\ g[x] \in Image
                        /\ g[x].dest \in {f[x].dest, None} /\ g[x].guard = f[x].guard
    BY <1>1, <1>3, <1>4
  <2>2. \A x \in Ship : Names(g[x]) \subseteq Names(f[x]) \cup {}
    BY <2>1, FewerNames
  <2> QED
    BY <2>1, <2>2, NamesShips
<1>7. Live(g)
  BY <1>5, <1>6 DEF Sound, Live
<1>8. Shape(g)
  BY <1>1, <1>3, <1>4 DEF Sound, Shape
<1>9. Pairs(g)
  <2> SUFFICES ASSUME NEW x \in Ship, g[x].dock = "moored"
               PROVE  g[x].dest # x /\ g[g[x].dest].dock = "moored" /\ g[g[x].dest].dest = x
    BY DEF Pairs
  <2>1. x \notin {s, p} /\ g[x] = f[x]
    BY <1>1, <1>3, <1>4
  <2>2. f[x].dest \in Ship /\ f[x].dest \notin {s, p}
    BY <1>1, <2>1 DEF Sound, Shape, Pairs, Image
  <2> QED
    BY <1>3, <2>1, <2>2 DEF Sound, Pairs
<1> QED
  BY <1>1, <1>3, <1>4, <1>5, <1>7, <1>8, <1>9 DEF Sound, SameLives

-----------------------------------------------------------------------------
(* kill_ship *)

\* A ship's hold has the ship, and with each carrier all that is in it.
LEMMA HoldClosed ==
  ASSUME NEW rows, NEW f, NEW r \in Ship
  PROVE  /\ r \in Hold(rows, f, r) /\ Hold(rows, f, r) \subseteq Ship
         /\ \A y \in Ship : Inside(rows, f, y, Hold(rows, f, r)) => y \in Hold(rows, f, r)
<1> DEFINE H == Hold(rows, f, r)
           Closed(S) == r \in S /\ \A y \in Ship : Inside(rows, f, y, S) => y \in S
<1>1. H = {x \in Ship : \A S \in SUBSET Ship : Closed(S) => x \in S}
  BY DEF Hold
<1>2. r \in H /\ H \subseteq Ship
  BY <1>1
<1>3. ASSUME NEW y \in Ship, Inside(rows, f, y, H)
      PROVE  y \in H
  <2> SUFFICES ASSUME NEW S \in SUBSET Ship, Closed(S) PROVE y \in S
    BY <1>1
  <2>1. H \subseteq S
    BY <1>1
  <2>2. Inside(rows, f, y, S)
    BY <1>3, <2>1 DEF Inside
  <2> QED
    BY <2>2
<1> QED
  BY <1>2, <1>3

\* No living ship outside the hold is berthed in a ship of it: the rows, which
\* kill_ship asks, agree with the table it changes.
LEMMA HoldComplete ==
  ASSUME NEW rows, NEW f, NEW r \in Ship, Agree(f, rows),
         NEW x \in Ship, NEW c \in Hold(rows, f, r), Alive(f, x), BerthedIn(f, x, c)
  PROVE  x \in Hold(rows, f, r)
<1>1. c \in Ship
  BY HoldClosed
<1>2. BerthedIn(rows, x, c)
  BY <1>1 DEF Agree
<1>3. Inside(rows, f, x, Hold(rows, f, r))
  BY <1>2 DEF Inside, BerthedIn
<1> QED
  BY <1>3, HoldClosed

LEMMA ClearedFields ==
  ASSUME NEW i \in Image, NEW D
  PROVE  /\ Cleared(i, D) \in Image
         /\ Cleared(i, D).dest = IF i.dest \in D THEN None ELSE i.dest
         /\ Cleared(i, D).dock = IF i.dest \in D /\ i.dock \in {"moored", "berthed"}
                                 THEN "spaceborne" ELSE i.dock
         /\ Cleared(i, D).guard = IF i.guard \in D THEN None ELSE i.guard
         /\ D \subseteq Ship => Names(Cleared(i, D)) \subseteq Names(i) \ D
<1>1. /\ i.dock \in {"spaceborne", "landed", "moored", "berthed", "gone"}
      /\ i.dest \in Ship \cup {None} /\ i.guard \in Ship \cup {None}
  BY DEF Image
<1>2. /\ Cleared(i, D).dest = IF i.dest \in D THEN None ELSE i.dest
      /\ Cleared(i, D).dock = IF i.dest \in D /\ i.dock \in {"moored", "berthed"}
                              THEN "spaceborne" ELSE i.dock
      /\ Cleared(i, D).guard = IF i.guard \in D THEN None ELSE i.guard
  BY DEF Cleared
<1>3. Cleared(i, D) \in Image
  BY <1>1 DEF Cleared, Image
<1>4. D \subseteq Ship => Names(Cleared(i, D)) \subseteq Names(i) \ D
  BY <1>2, ShipAssumption DEF Names
<1> QED
  BY <1>2, <1>3, <1>4

\* What a kill leaves of a sound table: it is sound, it still agrees with the
\* rows, the dead stay dead, and nobody is left berthed in a ship that died.
LEMMA KilledSound ==
  ASSUME NEW rows, NEW f, NEW r \in Ship, Sound(f), Agree(f, rows)
  PROVE  LET g == Killed(rows, f, r)
         IN  /\ Sound(g) /\ Agree(g, rows)
             /\ Carries(f, g)
<1> DEFINE D == Hold(rows, f, r)
           g == Killed(rows, f, r)
<1>1. D \subseteq Ship /\ f \in [Ship -> Image]
  BY HoldClosed DEF Sound
<1>2. /\ \A x \in Ship : g[x] = IF x \in D THEN Gone ELSE Cleared(f[x], D)
      /\ g = [x \in Ship |-> g[x]]
  BY Zenon DEF Killed
<1> HIDE DEF D, g
<1>3. \A x \in Ship : Cleared(f[x], D) \in Image
  BY <1>1, ClearedFields
<1>4. g \in [Ship -> Image]
  BY <1>2, <1>3, GoneIsImage
<1>5. \A x \in Ship :
        x \in D => /\ g[x].dock = "gone" /\ g[x].dest = None /\ g[x].guard = None
                   /\ Names(g[x]) = {}
  BY <1>2 DEF Gone, Names
<1>6. \A x \in Ship :
        x \notin D =>
          /\ g[x].dest = IF f[x].dest \in D THEN None ELSE f[x].dest
          /\ g[x].dock = IF f[x].dest \in D /\ f[x].dock \in {"moored", "berthed"}
                         THEN "spaceborne" ELSE f[x].dock
          /\ Names(g[x]) \subseteq Names(f[x]) \ D
  BY <1>1, <1>2, ClearedFields
<1>7. \A x \in Ship : Alive(g, x) <=> x \notin D /\ Alive(f, x)
  BY <1>5, <1>6 DEF Alive
<1>8. \A x \in Ship, c \in D : Alive(f, x) /\ BerthedIn(f, x, c) => x \in D
  BY HoldComplete DEF D
<1>9. Live(g)
  <2> SUFFICES ASSUME NEW x \in Ship, Alive(g, x), NEW t \in Names(g[x]) PROVE Alive(g, t)
    BY DEF Live
  <2>1. x \notin D /\ Alive(f, x) /\ t \in Names(f[x]) /\ t \notin D
    BY <1>6, <1>7
  <2>2. t \in Ship
    BY <1>1, <2>1, NamesShips
  <2>3. Alive(f, t)
    BY <2>1 DEF Sound, Live
  <2> QED
    BY <1>7, <2>1, <2>2, <2>3
<1>10. Shape(g)
  <2> SUFFICES ASSUME NEW x \in Ship
               PROVE  /\ g[x].dock \in {"moored", "berthed"} => g[x].dest # None
                      /\ g[x].dock = "landed" => g[x].dest = None
    BY DEF Shape
  <2>1. CASE x \in D
    BY <1>5, <2>1
  <2>2. CASE x \notin D
    BY <1>6, <2>2 DEF Sound, Shape
  <2> QED
    BY <2>1, <2>2
<1>11. Pairs(g)
  <2> SUFFICES ASSUME NEW x \in Ship, g[x].dock = "moored"
               PROVE  g[x].dest # x /\ g[g[x].dest].dock = "moored" /\ g[g[x].dest].dest = x
    BY DEF Pairs
  <2>1. x \notin D
    BY <1>5
  <2>2. f[x].dock = "moored" /\ f[x].dest \notin D /\ g[x].dest = f[x].dest
    BY <1>6, <2>1
  <2>3. f[x].dest \in Ship /\ f[f[x].dest].dock = "moored" /\ f[f[x].dest].dest = x /\ f[x].dest # x
    BY <2>2 DEF Sound, Pairs, Shape, Image
  <2> QED
    BY <1>6, <2>1, <2>2, <2>3
<1>12. ASSUME NEW x \in Ship, NEW c \in Ship, Alive(g, x)
       PROVE  /\ BerthedIn(g, x, c) <=> BerthedIn(f, x, c)
              /\ BerthedIn(f, x, c) => c \notin D
  <2>1. x \notin D /\ Alive(f, x)
    BY <1>7, <1>12
  <2>2. BerthedIn(f, x, c) => c \notin D
    BY <1>8, <2>1
  <2>3. None \notin Ship
    BY ShipAssumption
  <2> QED
    BY <1>6, <2>1, <2>2, <2>3 DEF BerthedIn
<1>13. Agree(g, rows)
  BY <1>7, <1>12 DEF Agree
<1>14. \A x \in Ship, c \in Ship :
         Alive(g, x) /\ BerthedIn(f, x, c) => BerthedIn(g, x, c) /\ Alive(g, c)
  <2> SUFFICES ASSUME NEW x \in Ship, NEW c \in Ship, Alive(g, x), BerthedIn(f, x, c)
               PROVE  BerthedIn(g, x, c) /\ Alive(g, c)
    OBVIOUS
  <2>1. BerthedIn(g, x, c) /\ c \notin D /\ Alive(f, x)
    BY <1>7, <1>12
  <2>2. c \in Names(f[x])
    BY ShipAssumption DEF BerthedIn, Names
  <2>3. Alive(f, c)
    BY <2>1, <2>2 DEF Sound, Live
  <2> QED
    BY <1>7, <2>1, <2>3
<1> QED
  BY <1>4, <1>7, <1>9, <1>10, <1>11, <1>13, <1>14 DEF Sound, Carries, g

LEMMA AgreeSelf == ASSUME NEW f PROVE Agree(f, f)
BY DEF Agree

\* A command's kill: the rows are the table.
LEMMA KilledByCommand ==
  ASSUME NEW f, Sound(f), NEW r \in Ship
  PROVE  Sound(Killed(f, f, r)) /\ Carries(f, Killed(f, f, r))
BY KilledSound, AgreeSelf

-----------------------------------------------------------------------------
(* Steps *)

\* While nobody dies, no carrier does.
LEMMA LivesFollow ==
  ASSUME NEW f, NEW g, Sound(f), SameLives(f, g)
  PROVE  Follows(f, g)
<1> SUFFICES ASSUME NEW x \in Ship, NEW c \in Ship, Alive(g, x), BerthedIn(f, x, c)
             PROVE  Alive(g, c)
  BY DEF Follows
<1>1. c \in Names(f[x]) /\ Alive(f, x)
  BY ShipAssumption DEF BerthedIn, Names, SameLives
<1> QED
  BY <1>1 DEF Sound, Live, SameLives

LEMMA CarriesFollow == ASSUME NEW f, NEW g, Carries(f, g) PROVE Follows(f, g)
BY DEF Carries, Follows

LEMMA CarriesTransitive ==
  ASSUME NEW f, NEW g, NEW h, Carries(f, g), Carries(g, h)
  PROVE  Carries(f, h)
BY DEF Carries

LEMMA UnmooredCarries ==
  ASSUME NEW f, Sound(f), NEW s \in Ship, f[s].dock = "moored"
  PROVE  Carries(f, Unmoored(f, s))
<1>1. /\ SameLives(f, Unmoored(f, s))
      /\ \A x \in Ship : f[x].dock # "moored" => Unmoored(f, s)[x] = f[x]
  BY UnmooredSound
<1>2. Follows(f, Unmoored(f, s))
  BY <1>1, LivesFollow
<1> QED
  BY <1>1, <1>2 DEF Carries, Follows, SameLives, BerthedIn

\* The three ways the tables change
LEMMA CommandStep ==
  ASSUME IInv, ~turn, NEW g, Sound(g), Follows(ship, g), Command(g)
  PROVE  IInv' /\ Follows(ship, ship')
BY AgreeSelf DEF IInv, Command, Sound, Shape, Live, Pairs, Agree, Names, Alive, BerthedIn

LEMMA TurnStep ==
  ASSUME IInv, NEW g, Sound(g), Agree(g, row), Follows(ship, g), InTurn(g),
         earlier' \subseteq Ship \X Ship
  PROVE  IInv' /\ Follows(ship, ship')
BY DEF IInv, InTurn, Sound, Shape, Live, Pairs, Agree, Names, Alive, BerthedIn

\* A process that died starts again on the rows.
LEMMA RefuseStep ==
  ASSUME IInv, NEW what \in {"order", "kill", "turn"}, Refuse(what)
  PROVE  IInv' /\ Follows(ship, ship')
<1>1. Sound(row) /\ Agree(ship, row)
  BY DEF IInv
<1>2. Follows(ship, row)
  <2> SUFFICES ASSUME NEW x \in Ship, NEW c \in Ship, Alive(row, x), BerthedIn(ship, x, c)
               PROVE  Alive(row, c)
    BY DEF Follows
  <2>1. BerthedIn(row, x, c)
    BY <1>1 DEF Agree, BerthedIn, Alive
  <2>2. c \in Names(row[x])
    BY <2>1, ShipAssumption DEF BerthedIn, Names
  <2> QED
    BY <1>1, <2>2 DEF Sound, Live
<1>3. ship' = row /\ row' = row /\ turn' = FALSE /\ earlier' = {} /\ refused' = what
  BY DEF Refuse
<1>4. Sound(ship)' /\ Sound(row)'
  BY <1>1, <1>3 DEF Sound, Shape, Live, Pairs, Names, Alive
<1>5. Agree(ship, row)'
  BY <1>3 DEF Agree, BerthedIn, Alive
<1>6. Follows(ship, ship')
  BY <1>2, <1>3
<1> QED
  BY <1>3, <1>4, <1>5, <1>6 DEF IInv

LEMMA CommandChange ==
  ASSUME IInv, ~turn, NEW g, Sound(g), SameLives(ship, g), Command(g)
  PROVE  IInv' /\ Follows(ship, ship')
<1>1. Follows(ship, g)
  BY LivesFollow DEF IInv
<1> QED
  BY <1>1, CommandStep

LEMMA CommandKill ==
  ASSUME IInv, ~turn, NEW f, Sound(f), Carries(ship, f), NEW r \in Ship,
         Command(Killed(f, f, r))
  PROVE  IInv' /\ Follows(ship, ship')
<1>1. Sound(Killed(f, f, r)) /\ Carries(f, Killed(f, f, r))
  BY KilledByCommand
<1>2. Follows(ship, Killed(f, f, r))
  BY <1>1, CarriesTransitive, CarriesFollow
<1> QED
  BY <1>1, <1>2, CommandStep

\* In a turn a spaceborne ship may be sent elsewhere.
LEMMA TurnChange ==
  ASSUME IInv, NEW s \in Ship, ship[s].dock = "spaceborne",
         NEW t \in Ship \cup {None}, t # None => Alive(ship, t),
         InTurn([ship EXCEPT ![s] = Placed(ship[s], "spaceborne", t)]), UNCHANGED earlier
  PROVE  IInv' /\ Follows(ship, ship')
<1> DEFINE i == Placed(ship[s], "spaceborne", t)
           g == [ship EXCEPT ![s] = i]
<1>1. ship \in [Ship -> Image] /\ Sound(ship) /\ Agree(ship, row)
  BY DEF IInv, Sound
<1>2. i \in Image /\ i.dock = "spaceborne" /\ Names(i) \subseteq Names(ship[s]) \cup ({t} \ {None})
  <2>1. ship[s] \in Image
    BY <1>1
  <2>2. \A j \in Image : /\ Placed(j, "spaceborne", t) \in Image
                         /\ Placed(j, "spaceborne", t).dock = "spaceborne"
                         /\ Names(Placed(j, "spaceborne", t)) \subseteq Names(j) \cup ({t} \ {None})
    BY DEF Placed, Image, Names
  <2> QED
    BY <2>1, <2>2
<1>3. \A u \in Names(i) : Alive(ship, u)
  <2>1. \A u \in Names(ship[s]) : Alive(ship, u)
    BY <1>1 DEF Sound, Live, Alive
  <2> QED
    BY <1>2, <2>1
<1> HIDE DEF i
<1>4. Sound(g) /\ SameLives(ship, g)
  BY <1>1, <1>2, <1>3, ChangedSound
<1>5. Agree(g, row)
  <2>1. g[s] = i /\ \A x \in Ship : x # s => g[x] = ship[x]
    BY <1>1
  <2>2. Alive(ship, s)
    BY DEF Alive
  <2> QED
    BY <1>1, <1>2, <1>4, <2>1, <2>2 DEF Agree, BerthedIn, SameLives
<1>6. Follows(ship, g) /\ earlier' \subseteq Ship \X Ship
  BY <1>1, <1>4, LivesFollow DEF IInv
<1>7. InTurn(g)
  BY DEF i
<1> HIDE DEF g
<1> QED
  BY <1>4, <1>5, <1>6, <1>7, TurnStep

LEMMA QueuedType ==
  ASSUME NEW f, NEW r \in Ship, NEW before \in SUBSET Ship
  PROVE  Queued(f, r, before) \subseteq Ship \X Ship
<1>1. Hold(row, f, r) \subseteq Ship
  BY HoldClosed
<1> QED
  BY <1>1 DEF Queued

LEMMA PerishStep ==
  ASSUME IInv, NEW r \in Ship, Perish(r)
  PROVE  IInv' /\ Follows(ship, ship')
<1>1. Sound(Killed(row, ship, r)) /\ Agree(Killed(row, ship, r), row) /\ Carries(ship, Killed(row, ship, r))
  BY KilledSound DEF IInv
<1>2. Queued(ship, r, Dead) \subseteq Ship \X Ship
  BY QueuedType DEF Dead
<1>3. InTurn(Killed(row, ship, r)) /\ earlier' \subseteq Ship \X Ship
  BY <1>2 DEF Perish, IInv
<1> QED
  BY <1>1, <1>3, CarriesFollow, TurnStep

LEMMA StrikeStep ==
  ASSUME IInv, NEW m \in Ship, Strike(m)
  PROVE  IInv' /\ Follows(ship, ship')
<1> DEFINE t == ship[m].dest
           f == Killed(row, ship, t)
           g == Killed(row, f, m)
<1>1. t \in Ship
  BY DEF Strike, IInv, Sound, Image
<1>2. Sound(f) /\ Agree(f, row) /\ Carries(ship, f)
  BY <1>1, KilledSound DEF IInv
<1>3. Sound(g) /\ Agree(g, row) /\ Carries(f, g)
  BY <1>2, KilledSound
<1>4. Follows(ship, g)
  BY <1>2, <1>3, CarriesTransitive, CarriesFollow
<1>5. Dead \subseteq Ship /\ Hold(row, ship, t) \subseteq Ship
  BY <1>1, HoldClosed DEF Dead
<1>6. /\ Queued(ship, t, Dead) \subseteq Ship \X Ship
      /\ Queued(f, m, Dead \cup Hold(row, ship, t)) \subseteq Ship \X Ship
  BY <1>1, <1>5, QueuedType
<1>7. InTurn(g) /\ earlier' = earlier \cup Queued(ship, t, Dead)
                                \cup Queued(f, m, Dead \cup Hold(row, ship, t))
  BY DEF Strike
<1>8. earlier' \subseteq Ship \X Ship
  BY <1>6, <1>7 DEF IInv
<1> HIDE DEF f, g
<1> QED
  BY <1>3, <1>4, <1>7, <1>8, TurnStep

\* A command puts a ship that is not moored somewhere else.
LEMMA CommandPlace ==
  ASSUME IInv, ~turn, NEW s \in Ship, ship[s].dock \notin {"moored", "gone"},
         NEW d \in {"spaceborne", "landed", "berthed"}, NEW t \in Ship \cup {None},
         d = "berthed" => t # None, d = "landed" => t = None,
         t # None => Alive(ship, t),
         Command([ship EXCEPT ![s] = Placed(ship[s], d, t)])
  PROVE  IInv' /\ Follows(ship, ship')
<1> DEFINE i == Placed(ship[s], d, t)
           g == [ship EXCEPT ![s] = i]
<1>1. ship[s] \in Image /\ Sound(ship)
  BY DEF IInv, Sound
<1>2. /\ i \in Image /\ i.dock = d /\ i.dest = t
      /\ Names(i) \subseteq Names(ship[s]) \cup ({t} \ {None})
  <2>1. \A j \in Image : /\ Placed(j, d, t) \in Image /\ Placed(j, d, t).dock = d
                         /\ Placed(j, d, t).dest = t
                         /\ Names(Placed(j, d, t)) \subseteq Names(j) \cup ({t} \ {None})
    BY DEF Placed, Image, Names
  <2> QED
    BY <1>1, <2>1
<1>3. \A u \in Names(i) : Alive(ship, u)
  <2>1. \A u \in Names(ship[s]) : Alive(ship, u)
    BY <1>1 DEF Sound, Live, Alive
  <2> QED
    BY <1>2, <2>1
<1>4. Command(g)
  OBVIOUS
<1> HIDE DEF i
<1>5. Sound(g) /\ SameLives(ship, g)
  BY <1>1, <1>2, <1>3, ChangedSound
<1> HIDE DEF g
<1> QED
  BY <1>4, <1>5, CommandChange

\* A boarding: whatever comes of it, the target is let go first.
LEMMA AssaultStep ==
  ASSUME IInv, NEW s \in Ship, NEW t \in Ship, Assault(s, t)
  PROVE  IInv' /\ Follows(ship, ship')
<1> DEFINE f == IF ship[t].dock = "moored" THEN Unmoored(ship, t) ELSE ship
           g == Killed(f, f, s)
<1>1. ~turn /\ s # t /\ ship[s].dock = "spaceborne" /\ ship[t].dock \in {"spaceborne", "moored"}
  BY DEF Assault, Spaceborne
<1>2. Sound(ship)
  BY DEF IInv
<1>3. /\ Sound(f) /\ SameLives(ship, f) /\ Carries(ship, f)
      /\ f[s].dock = "spaceborne" /\ f[t].dock = "spaceborne"
  <2>1. CASE ship[t].dock = "moored"
    <3>1. f = Unmoored(ship, t)
      BY <2>1
    <3>2. /\ Sound(Unmoored(ship, t)) /\ Unmoored(ship, t)[t].dock = "spaceborne"
          /\ SameLives(ship, Unmoored(ship, t))
          /\ \A x \in Ship : ship[x].dock # "moored" => Unmoored(ship, t)[x] = ship[x]
      BY <1>2, <2>1, UnmooredSound
    <3>3. Carries(ship, Unmoored(ship, t))
      BY <1>2, <2>1, UnmooredCarries
    <3>4. Unmoored(ship, t)[s].dock = "spaceborne"
      BY <1>1, <3>2
    <3> HIDE DEF f
    <3> QED
      BY <3>1, <3>2, <3>3, <3>4
  <2>2. CASE ship[t].dock = "spaceborne"
    <3>1. f = ship
      BY <2>2
    <3>2. SameLives(ship, ship) /\ Follows(ship, ship)
      BY <1>2, LivesFollow DEF SameLives
    <3>3. Carries(ship, ship)
      BY <3>2 DEF Carries, Follows
    <3> HIDE DEF f
    <3> QED
      BY <1>1, <1>2, <2>2, <3>1, <3>2, <3>3
  <2> QED
    BY <1>1, <2>1, <2>2
<1>4. \/ Command(f) \/ Command(MooredTogether(f, s, t))
      \/ Refuse("kill")
      \/ Command(Killed(f, f, s)) \/ Command(Killed(f, f, t))
      \/ Command(Killed(g, g, t))
  BY DEF Assault
<1>5. Sound(g) /\ Carries(ship, g)
  BY <1>3, KilledByCommand, CarriesTransitive
<1> HIDE DEF f, g
<1>6. CASE Command(f)
  BY <1>1, <1>3, <1>6, CommandChange
<1>7. CASE Command(MooredTogether(f, s, t))
  <2>1. Sound(MooredTogether(f, s, t)) /\ SameLives(f, MooredTogether(f, s, t))
    BY <1>1, <1>3, MooredSound
  <2>2. SameLives(ship, MooredTogether(f, s, t))
    BY <1>3, <2>1 DEF SameLives
  <2> QED
    BY <1>1, <1>7, <2>1, <2>2, CommandChange
<1>8. CASE Refuse("kill")
  BY <1>8, RefuseStep
<1>9. CASE Command(Killed(f, f, s)) \/ Command(Killed(f, f, t))
  BY <1>1, <1>3, <1>9, CommandKill
<1>10. CASE Command(Killed(g, g, t))
  BY <1>1, <1>5, <1>10, CommandKill
<1> QED
  BY <1>4, <1>6, <1>7, <1>8, <1>9, <1>10

LEMMA OneShipStep ==
  ASSUME IInv, NEW s \in Ship,
         \/ Undock(s) \/ Land(s) \/ LaunchFromPlanet(s) \/ LaunchFromCarrier(s)
         \/ Steer(s) \/ Destroy(s) \/ Perish(s) \/ Strike(s) \/ LoseSight(s)
  PROVE  IInv' /\ Follows(ship, ship')
<1>1. Sound(ship) /\ None \in Ship \cup {None}
  BY DEF IInv
<1>2. CASE Undock(s)
  <2>1. ~turn /\ ship[s].dock = "moored" /\ Command(Unmoored(ship, s))
    BY <1>2 DEF Undock
  <2>2. Sound(Unmoored(ship, s)) /\ SameLives(ship, Unmoored(ship, s))
    BY <1>1, <2>1, UnmooredSound
  <2> QED
    BY <2>1, <2>2, CommandChange
<1>3. CASE Land(s)
  <2>1. ~turn /\ ship[s].dock = "spaceborne" /\ Command([ship EXCEPT ![s] = Placed(ship[s], "landed", None)])
    BY <1>3 DEF Land, Spaceborne
  <2> QED
    BY <1>1, <2>1, CommandPlace
<1>4. CASE LaunchFromPlanet(s)
  <2>1. ~turn /\ ship[s].dock = "landed" /\ Command([ship EXCEPT ![s] = Placed(ship[s], "spaceborne", None)])
    BY <1>4 DEF LaunchFromPlanet, Landed, Undocked
  <2> QED
    BY <1>1, <2>1, CommandPlace
<1>5. CASE LaunchFromCarrier(s)
  <2>1. /\ ~turn /\ ship[s].dock = "berthed"
        /\ \/ Command([ship EXCEPT ![s] = Placed(ship[s], "spaceborne", None)])
           \/ Command([ship EXCEPT ![s] = Placed(ship[s], "landed", None)])
    BY <1>5 DEF LaunchFromCarrier
  <2> QED
    BY <1>1, <2>1, CommandPlace
<1>6. CASE Steer(s)
  <2>1. ~turn /\ ship[s].dock = "spaceborne" /\ Command([ship EXCEPT ![s] = Placed(ship[s], "spaceborne", None)])
    BY <1>6 DEF Steer, Spaceborne
  <2> QED
    BY <1>1, <2>1, CommandPlace
<1>7. CASE Destroy(s)
  <2>1. ~turn /\ (Refuse("kill") \/ Command(Killed(ship, ship, s)))
    BY <1>7 DEF Destroy
  <2>2. SameLives(ship, ship)
    BY DEF SameLives
  <2>3. Carries(ship, ship)
    BY <1>1, <2>2, LivesFollow DEF Carries, Follows
  <2> QED
    BY <1>1, <2>1, <2>3, RefuseStep, CommandKill
<1>8. CASE Perish(s)
  BY <1>8, PerishStep
<1>9. CASE Strike(s)
  BY <1>9, StrikeStep
<1>10. CASE LoseSight(s)
  <2>1. /\ ship[s].dock = "spaceborne" /\ UNCHANGED earlier
        /\ InTurn([ship EXCEPT ![s] = Placed(ship[s], "spaceborne", None)])
    BY <1>10 DEF LoseSight, Spaceborne
  <2> QED
    BY <1>1, <2>1, TurnChange
<1> QED
  BY <1>2, <1>3, <1>4, <1>5, <1>6, <1>7, <1>8, <1>9, <1>10

LEMMA ProtectStep ==
  ASSUME IInv, NEW s \in Ship, NEW t \in Ship \cup {None}, Protect(s, t)
  PROVE  IInv' /\ Follows(ship, ship')
<1>1. CASE t # None /\ ~Alive(ship, t)
  BY <1>1, RefuseStep DEF Protect
<1>2. CASE ~(t # None /\ ~Alive(ship, t))
  <2> DEFINE g == [ship EXCEPT ![s].guard = t]
  <2>1. ~turn /\ Command(g)
    BY <1>2 DEF Protect
  <2>2. Sound(g) /\ SameLives(ship, g)
    BY <1>2, GuardSound DEF IInv
  <2> HIDE DEF g
  <2> QED
    BY <2>1, <2>2, CommandChange
<1> QED
  BY <1>1, <1>2

LEMMA TwoShipStep ==
  ASSUME IInv, NEW s \in Ship, NEW t \in Ship,
         Dock(s, t) \/ Berth(s, t) \/ Follow(s, t) \/ Retarget(s, t)
  PROVE  IInv' /\ Follows(ship, ship')
<1>1. Sound(ship) /\ t # None /\ t \in Ship \cup {None}
  BY ShipAssumption DEF IInv
<1>2. CASE Dock(s, t)
  <2>1. /\ ~turn /\ s # t /\ ship[s].dock = "spaceborne" /\ ship[t].dock = "spaceborne"
        /\ Command(MooredTogether(ship, s, t))
    BY <1>2 DEF Dock, Spaceborne
  <2>2. Sound(MooredTogether(ship, s, t)) /\ SameLives(ship, MooredTogether(ship, s, t))
    BY <1>1, <2>1, MooredSound
  <2> QED
    BY <2>1, <2>2, CommandChange
<1>3. CASE Berth(s, t)
  <2>1. /\ ~turn /\ ship[s].dock \in {"spaceborne", "landed"} /\ Alive(ship, t)
        /\ Command([ship EXCEPT ![s] = Placed(ship[s], "berthed", t)])
    BY <1>3 DEF Berth, MayBerth, Spaceborne, Landed, Alive
  <2> QED
    BY <1>1, <2>1, CommandPlace
<1>4. CASE Follow(s, t)
  <2>1. /\ ~turn /\ ship[s].dock = "spaceborne" /\ Alive(ship, t)
        /\ Command([ship EXCEPT ![s] = Placed(ship[s], "spaceborne", t)])
    BY <1>4 DEF Follow, Spaceborne
  <2> QED
    BY <1>1, <2>1, CommandPlace
<1>5. CASE Retarget(s, t)
  <2>1. /\ ship[s].dock = "spaceborne" /\ Alive(ship, t) /\ UNCHANGED earlier
        /\ InTurn([ship EXCEPT ![s] = Placed(ship[s], "spaceborne", t)])
    BY <1>5 DEF Retarget, Spaceborne, Alive
  <2> QED
    BY <1>1, <2>1, TurnChange
<1> QED
  BY <1>2, <1>3, <1>4, <1>5

LEMMA Standstill ==
  ASSUME IInv, UNCHANGED ship
  PROVE  Follows(ship, ship')
BY LivesFollow DEF IInv, SameLives, Alive

LEMMA TurnEnds ==
  ASSUME IInv, BeginTurn \/ CommitTurn \/ UNCHANGED vars
  PROVE  IInv' /\ Follows(ship, ship')
<1>1. CASE Refuse("turn")
  BY <1>1, RefuseStep
<1>2. CASE BeginTurn \/ UNCHANGED vars
  <2>1. ship' = ship /\ row' = row /\ earlier' = earlier
    BY <1>2 DEF BeginTurn, vars
  <2>2. Sound(ship)' /\ Sound(row)' /\ Agree(ship, row)'
    BY <2>1 DEF IInv, Sound, Shape, Live, Pairs, Names, Alive, Agree, BerthedIn
  <2>3. turn' \in BOOLEAN /\ (~turn' => ship' = row') /\ refused' \in {"no", "order", "kill", "turn"}
    BY <1>2 DEF BeginTurn, vars, IInv
  <2> QED
    BY <2>1, <2>2, <2>3, Standstill DEF IInv
<1>3. CASE ship' = ship /\ row' = ship /\ turn' = FALSE /\ earlier' = {} /\ refused' = refused
  <2>1. Sound(ship)' /\ Sound(row)'
    BY <1>3 DEF IInv, Sound, Shape, Live, Pairs, Names, Alive
  <2>2. Agree(ship, row)'
    BY <1>3 DEF Agree, BerthedIn, Alive
  <2> QED
    BY <1>3, <2>1, <2>2, Standstill DEF IInv
<1> QED
  BY <1>1, <1>2, <1>3 DEF CommitTurn

LEMMA InvStep ==
  ASSUME IInv, [Next]_vars
  PROVE  IInv' /\ Follows(ship, ship')
<1>1. CASE \E s \in Ship :
             \/ Undock(s) \/ Land(s) \/ LaunchFromPlanet(s) \/ LaunchFromCarrier(s)
             \/ Steer(s) \/ Destroy(s) \/ Perish(s) \/ Strike(s) \/ LoseSight(s)
  BY <1>1, OneShipStep
<1>2. CASE \E s, t \in Ship : Dock(s, t) \/ Berth(s, t) \/ Follow(s, t) \/ Retarget(s, t)
  BY <1>2, TwoShipStep
<1>3. CASE \E s \in Ship, t \in Ship \cup {None} : Protect(s, t)
  BY <1>3, ProtectStep
<1>4. CASE \E s, t \in Ship : Assault(s, t)
  BY <1>4, AssaultStep
<1>5. CASE BeginTurn \/ CommitTurn \/ UNCHANGED vars
  BY <1>5, TurnEnds
<1> QED
  BY <1>1, <1>2, <1>3, <1>4, <1>5 DEF Next

LEMMA InitInv == Init => IInv
<1> SUFFICES ASSUME Init PROVE IInv
  OBVIOUS
<1>1. ship = [s \in Ship |-> New] /\ row = ship
  BY DEF Init
<1>2. \A s \in Ship : ship[s].dock = "spaceborne" /\ Names(ship[s]) = {}
  BY <1>1 DEF New, Names
<1>3. Sound(ship)
  BY <1>1, <1>2, GoneIsImage DEF Sound, Shape, Live, Pairs
<1>4. Sound(row) /\ Agree(ship, row)
  BY <1>1, <1>3, AgreeSelf
<1> QED
  BY <1>1, <1>3, <1>4 DEF Init, IInv

-----------------------------------------------------------------------------
(* Theorems *)

\* The variables keep their types, and a ship's dock and destination fit.
THEOREM TypeCorrect == Spec => []TypeOK
<1>1. IInv => TypeOK
  BY DEF IInv, Sound, Shape, TypeOK
<1>2. IInv /\ [Next]_vars => IInv'
  BY InvStep
<1> QED
  BY InitInv, <1>1, <1>2, PTL DEF Spec

\* Whoever is alive names only living ships: kill_ship clears every reference,
\* in a command and in the middle of a turn.
THEOREM LinksStayLive == Spec => []LinksAreLive
<1>1. IInv => LinksAreLive
  BY DEF IInv, Sound, Live, LinksAreLive
<1>2. IInv /\ [Next]_vars => IInv'
  BY InvStep
<1> QED
  BY InitInv, <1>1, <1>2, PTL DEF Spec

\* Mooring is mutual.
THEOREM MooringIsMutual == Spec => []MooredInPairs
<1>1. IInv => MooredInPairs
  BY DEF IInv, Sound, Pairs, MooredInPairs
<1>2. IInv /\ [Next]_vars => IInv'
  BY InvStep
<1> QED
  BY InitInv, <1>1, <1>2, PTL DEF Spec

\* The query of the rows for a carrier's craft is right at any moment.
THEOREM HangarQueriesAreExact == Spec => []HangarQueryIsExact
<1>1. IInv => HangarQueryIsExact
  BY DEF IInv, Agree, BerthedIn, HangarQueryIsExact
<1>2. IInv /\ [Next]_vars => IInv'
  BY InvStep
<1> QED
  BY InitInv, <1>1, <1>2, PTL DEF Spec

\* A carrier takes its craft with it, at every depth.
THEOREM CarriersTakeTheirCraft == Spec => DestructionCascade
<1> DEFINE Cascade ==
      \A x \in Ship :
        Alive(ship, x) /\ ship[x].dock = "berthed" /\ ~Alive(ship', ship[x].dest)
          => ~Alive(ship', x)
<1>1. ASSUME IInv, [Next]_vars
      PROVE  [Cascade]_vars
  <2>1. Follows(ship, ship')
    BY <1>1, InvStep
  <2> SUFFICES ASSUME NEW x \in Ship, ship[x].dock = "berthed", ~Alive(ship', ship[x].dest)
               PROVE  ~Alive(ship', x)
    OBVIOUS
  <2>2. ship[x].dest \in Ship
    BY <1>1 DEF IInv, Sound, Shape, Image
  <2> QED
    BY <2>1, <2>2 DEF Follows, BerthedIn
<1>2. IInv /\ [Next]_vars => IInv'
  BY InvStep
<1>3. IInv /\ [Next]_vars => [Cascade]_vars
  BY <1>1
<1> QED
  BY InitInv, <1>2, <1>3, PTL DEF Spec, DestructionCascade
=============================================================================
