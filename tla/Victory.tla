------------------------------- MODULE Victory -------------------------------
(***************************************************************************)
(* The victory clock.  Every turn, a movement segment as well as an        *)
(* update, adds to a race's count the planets of which it owns more than   *)
(* half the sectors.  An update starts the count anew, compares it with a  *)
(* share of the galaxy's planets, and advances or resets the race's clock; *)
(* half that share makes its language known to all.  When a clock reaches  *)
(* VICTORY_UPDATES the race is proclaimed the winner, if the game is built *)
(* with VICTORY.                                                           *)
(***************************************************************************)
EXTENDS Sums

CONSTANTS
  Contender,
  Planets,     \* how many planets are no asteroids; none comes or goes
  Percent,     \* VICTORY_PERCENT
  Updates,     \* VICTORY_UPDATES
  Enabled,     \* VICTORY
  MaxCount,    \* bound: no segment takes a count past it
  MaxClock     \* bound: no update follows one that takes a clock there

ASSUME VictoryAssumption ==
  /\ Planets \in Nat \ {0} /\ Percent \in 1..100 /\ Updates \in Nat \ {0}
  /\ Enabled \in BOOLEAN
  /\ MaxCount \in Nat /\ MaxCount >= Planets /\ MaxClock \in Nat

VARIABLES
  held,        \* planets each race holds the majority of
  controlled,  \* controlled_planets, its count as stored
  clock,       \* victory_turns
  known,       \* races whose language everybody understands
  winners,     \* who was proclaimed last
  streak,      \* history: the updates in a row at which it held the share
  ascended     \* history: who held half the share at an update

victory_vars == <<held, controlled, clock, known, winners, streak, ascended>>

AtLeastOne(n) == IF n < 1 THEN 1 ELSE n
Threshold == AtLeastOne((Planets * Percent) \div 100)
TranslationThreshold == AtLeastOne((Planets * Percent) \div 200)

VictoryInit ==
  /\ held = [r \in Contender |-> 0]
  /\ controlled = [r \in Contender |-> 0]
  /\ clock = [r \in Contender |-> 0]
  /\ known = {} /\ winners = {}
  /\ streak = [r \in Contender |-> 0]
  /\ ascended = {}

-----------------------------------------------------------------------------
\* Sectors change hands, by command or in the turn itself: a planet has at
\* most one majority.
Shift(r) ==
  /\ \E n \in 0..Planets :
       /\ n # held[r]
       /\ n + SumOf(held, Contender \ {r}) <= Planets
       /\ held' = [held EXCEPT ![r] = n]
  /\ UNCHANGED <<controlled, clock, known, winners, streak, ascended>>

\* process_abms_and_missiles counts in every turn ...
Counted(base) == [r \in Contender |-> base[r] + held[r]]

\* ... and reset_turn_accounting is called only in an update.
Fresh == [r \in Contender |-> 0]

\* handle_victory, after every update
Proclaimed(c) == IF Enabled THEN {r \in Contender : c[r] >= Updates} ELSE {}

VictorySegment ==
  /\ controlled' = Counted(controlled)
  /\ \A r \in Contender : controlled'[r] <= MaxCount
  /\ UNCHANGED <<held, clock, known, winners, streak, ascended>>

\* MUTANT: the clock is not reset
Tally(c) == [r \in Contender |-> IF c[r] >= Threshold THEN clock[r] + 1 ELSE clock[r]]
\* update_victory_progress
Progress(c) == [r \in Contender |-> IF c[r] >= Threshold THEN clock[r] + 1 ELSE 0]

\* check_language_translation_unlock
Unlocked(c) == {r \in Contender : c[r] > 0 /\ c[r] >= TranslationThreshold}

VictoryUpdate ==
  /\ \A r \in Contender : clock[r] < MaxClock
  /\ controlled' = Counted(Fresh)
  /\ clock' = Progress(controlled')
  /\ known' = known \cup Unlocked(controlled')
  /\ winners' = Proclaimed(clock')
  /\ streak' = [r \in Contender |-> IF held[r] >= Threshold THEN streak[r] + 1 ELSE 0]
  /\ ascended' = ascended \cup {r \in Contender : held[r] >= TranslationThreshold}
  /\ UNCHANGED held

\* An update with a nogo file present: no turn, but the victory check
NogoUpdate ==
  /\ winners' = Proclaimed(clock)
  /\ UNCHANGED <<held, controlled, clock, known, streak, ascended>>

VictoryNext == (\E r \in Contender : Shift(r)) \/ VictorySegment \/ VictoryUpdate \/ NogoUpdate

VictorySpec == VictoryInit /\ [][VictoryNext]_victory_vars

-----------------------------------------------------------------------------
(* Properties *)

\* The variables keep their types.
VictoryTypeOK ==
  /\ held \in [Contender -> 0..Planets]
  /\ controlled \in [Contender -> 0..MaxCount]
  /\ clock \in [Contender -> 0..MaxClock]
  /\ known \subseteq Contender /\ winners \subseteq Contender

\* The clock counts consecutive updates at which the race held the share:
\* neither segments nor updates suppressed by nogo run it.
ClockIsStreak == clock = streak

\* A language becomes known through planets held at one update, not through
\* those of several turns together (docs/turn_cycle.md:156).
KnownIsEarned == known = ascended

\* What counts towards victory is what was held at updates, one after the other.
VictoryCounts == VictoryTypeOK /\ ClockIsStreak /\ KnownIsEarned

\* -- Stated in the repository, refuted by the model (README, disagreements) --

\* docs/turn_cycle.md:157 "at least $10\%$ of all non-asteroid planets": the clock
\* only advances for who holds that share.
DocumentedShare ==
  [][\A r \in Contender : clock'[r] > clock[r] => 100 * held[r] >= Percent * Planets]_victory_vars

\* docs/turn_cycle.md:157 "for $5$ consecutive full turn updates achieves
\* **Big Winner** supremacy and concludes the game"
VictoryIsProclaimed == \A r \in Contender : clock[r] >= Updates => r \in winners
=============================================================================
