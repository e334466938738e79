---------------------------- MODULE ServerProofs ----------------------------
(***************************************************************************)
(* The server.  Its clock: whatever the interval, the number of segments,  *)
(* the crashes and the deity's commands, every update the server counts is *)
(* simulated at most once, the timetable never drifts, and the timer never *)
(* starts an update before the segments that belong in front of it.  Its   *)
(* sessions: whoever connects, logs in, emulates, is revoked, dropped or   *)
(* reaped, in any order, two open sessions act for one governor only where *)
(* one of them emulates him, and the deity's rights go with his name.      *)
(***************************************************************************)
EXTENDS TurnSchedule, Sessions, TLAPS

-----------------------------------------------------------------------------
(* The schedule *)

\* Dividing an integer by a positive number, C++ style, gives an integer.
LEMMA QuotInt ==
  ASSUME NEW a \in Int, NEW b \in Nat, b >= 1
  PROVE  Quot(a, b) \in Int
BY DEF Quot

\* A saved schedule is again a schedule row.
LEMMA UpdateScheduleType ==
  ASSUME now \in Nat, NEW row \in ServerStates,
         NEW force \in BOOLEAN, NEW counted \in BOOLEAN
  PROVE  UpdateSchedule(row, force, counted) \in ServerStates
<1>1. AtLeastOne(row.segments) \in Nat /\ AtLeastOne(row.segments) >= 1
  BY DEF AtLeastOne, ServerStates
<1>2. Interval \in Int /\ Far \in Int
  BY ScheduleAssumption
<1>3. Quot(Interval, AtLeastOne(row.segments)) \in Int
  BY <1>1, <1>2, QuotInt
<1>4. QED
  BY <1>1, <1>2, <1>3 DEF UpdateSchedule, UpdateBase, SegmentsAfterUpdate,
                          ServerStates

LEMMA SegmentScheduleType ==
  ASSUME now \in Nat, NEW row \in ServerStates,
         NEW override \in BOOLEAN, NEW target \in Nat
  PROVE  SegmentSchedule(row, override, target) \in ServerStates
<1>1. AtLeastOne(row.segments) \in Nat /\ AtLeastOne(row.segments) >= 1
  BY DEF AtLeastOne, ServerStates
<1>2. Interval \in Int
  BY ScheduleAssumption
<1>3. Quot(Interval, AtLeastOne(row.segments)) \in Int
  BY <1>1, <1>2, QuotInt
<1>4. Interval * (AtLeastOne(row.segments) - target + 1) \in Int
  BY <1>1, <1>2
<1>5. Quot(Interval * (AtLeastOne(row.segments) - target + 1),
           AtLeastOne(row.segments)) \in Int
  BY <1>1, <1>4, QuotInt
<1>6. QED
  BY <1>1, <1>3, <1>5 DEF SegmentSchedule, ServerStates

LEMMA InitialScheduleType ==
  ASSUME now \in Nat, NEW row \in ServerStates, NEW n \in Nat
  PROVE  InitialSchedule(row, n) \in ServerStates
<1>1. Interval \in Int /\ Far \in Int
  BY ScheduleAssumption
<1>2. n > 1 => Quot(Interval, n) \in Int
  BY <1>1, QuotInt
<1>3. QED
  BY <1>1, <1>2 DEF InitialSchedule, ServerStates

-----------------------------------------------------------------------------
LEMMA InitType == Init => TypeOK
<1> SUFFICES ASSUME Init PROVE TypeOK
  OBVIOUS
<1>1. state \in ServerStates
  BY DEF Init, ServerStates
<1>2. CountersOK
  BY ScheduleAssumption DEF Init, CountersOK
<1>3. FlagsOK
  BY DEF Init, FlagsOK, Phases
<1>4. QED
  BY <1>1, <1>2, <1>3 DEF TypeOK

\* What do_update and do_segment write
LEMMA BeginUpdateType ==
  ASSUME TypeOK, NEW force \in BOOLEAN, BeginUpdate(force)
  PROVE  /\ state' \in ServerStates /\ phase' \in Phases
         /\ moves' \in Nat /\ clean' \in BOOLEAN /\ base' \in Int
<1>1. now \in Nat /\ moves \in Nat /\ base \in Int /\ state \in ServerStates
  BY DEF TypeOK, CountersOK
<1>2. state' \in ServerStates
  BY <1>1, UpdateScheduleType DEF BeginUpdate, Suppressed, CountsUpdate
<1>3. state'.nextUpdate \in Int
  BY <1>2 DEF ServerStates
<1>4. base' \in Int
  BY <1>1, <1>3 DEF BeginUpdate
<1>5. moves' \in Nat
  BY <1>1 DEF BeginUpdate
<1>6. phase' \in Phases /\ clean' \in BOOLEAN
  BY DEF BeginUpdate, Suppressed, Phases
<1>7. QED
  BY <1>2, <1>4, <1>5, <1>6

LEMMA BeginSegmentType ==
  ASSUME TypeOK, NEW override \in BOOLEAN, NEW n \in Nat,
         BeginSegment(override, n)
  PROVE  /\ state' \in ServerStates /\ phase' \in Phases
         /\ moves' \in Nat /\ clean' \in BOOLEAN /\ base' \in Int
<1>1. now \in Nat /\ moves \in Nat /\ base \in Int /\ state \in ServerStates
  BY DEF TypeOK, CountersOK
<1>2. state' \in ServerStates
  BY <1>1, SegmentScheduleType DEF BeginSegment
<1>3. state'.nextUpdate \in Int
  BY <1>2 DEF ServerStates
<1>4. base' \in Int
  BY <1>1, <1>3 DEF BeginSegment
<1>5. moves' \in Nat
  BY <1>1 DEF BeginSegment
<1>6. phase' \in Phases /\ clean' \in BOOLEAN
  BY DEF BeginSegment, Suppressed, Phases
<1>7. QED
  BY <1>2, <1>4, <1>5, <1>6

LEMMA NextThingType ==
  ASSUME TypeOK, NextThing
  PROVE  /\ state' \in ServerStates /\ phase' \in Phases
         /\ moves' \in Nat /\ clean' \in BOOLEAN /\ base' \in Int
<1>1. CASE SegmentRefused
  BY <1>1 DEF SegmentRefused, TypeOK, CountersOK, FlagsOK
<1>2. CASE BeginSegment(FALSE, 1)
  BY <1>2, BeginSegmentType
<1>3. CASE BeginUpdate(FALSE)
  BY <1>3, BeginUpdateType
<1>4. QED
  BY <1>1, <1>2, <1>3 DEF NextThing

LEMMA StepType == TypeOK /\ [Next]_vars => TypeOK'
<1> SUFFICES ASSUME TypeOK, [Next]_vars
             PROVE  TypeOK'
  OBVIOUS
<1>0. state \in ServerStates /\ CountersOK /\ FlagsOK
  BY DEF TypeOK
<1>1. ASSUME NEW n \in SegmentChoices, Start(n)
      PROVE  TypeOK'
  <2>1. n \in Nat /\ now \in Nat
    BY <1>0, ScheduleAssumption DEF CountersOK
  <2>2. state' \in ServerStates
    BY <1>0, <1>1, <2>1, InitialScheduleType DEF Start
  <2>3. state'.nextUpdate \in Int
    BY <2>2 DEF ServerStates
  <2>4. CountersOK'
    BY <1>0, <1>1, <2>3 DEF Start, UnsetGoTime, CountersOK
  <2>5. FlagsOK'
    BY <1>0, <1>1 DEF Start, FlagsOK, Phases
  <2>6. QED
    BY <2>2, <2>4, <2>5 DEF TypeOK
<1>2. ASSUME NEW go \in GoTimes
      PROVE  go \in Nat
  BY <1>0, ScheduleAssumption DEF GoTimes, CountersOK
<1>3. CASE TickWaits
  <2>1. CountersOK'
    BY <1>0, <1>2, <1>3 DEF TickWaits, CountersOK
  <2>2. FlagsOK'
    BY <1>0, <1>3 DEF TickWaits, FlagsOK
  <2>3. QED
    BY <1>0, <1>3, <2>1, <2>2 DEF TypeOK, TickWaits
<1>4. CASE TickRuns
  <2>1. NextThing
    BY <1>4 DEF TickRuns
  <2>2. /\ state' \in ServerStates /\ phase' \in Phases
        /\ moves' \in Nat /\ clean' \in BOOLEAN /\ base' \in Int
    BY <2>1, NextThingType
  <2>3. goTime' \in Nat
    BY <1>2, <1>4 DEF TickRuns, RequestServed
  <2>4. pendingTurn' \in BOOLEAN /\ byTimer' \in BOOLEAN
    BY <1>0, <1>4 DEF TickRuns, RequestServed, FlagsOK
  <2>5. CountersOK'
    BY <1>0, <1>4, <2>2, <2>3 DEF TickRuns, CountersOK
  <2>6. FlagsOK'
    BY <1>0, <1>4, <2>2, <2>4 DEF TickRuns, FlagsOK
  <2>7. QED
    BY <2>2, <2>5, <2>6 DEF TypeOK
<1>5. CASE ForceUpdate
  <2>1. /\ state' \in ServerStates /\ phase' \in Phases
        /\ moves' \in Nat /\ clean' \in BOOLEAN /\ base' \in Int
    BY <1>5, BeginUpdateType DEF ForceUpdate
  <2>2. CountersOK'
    BY <1>0, <1>5, <2>1 DEF ForceUpdate, CountersOK
  <2>3. FlagsOK'
    BY <1>0, <1>5, <2>1 DEF ForceUpdate, FlagsOK
  <2>4. QED
    BY <2>1, <2>2, <2>3 DEF TypeOK
<1>6. ASSUME NEW n \in ForcedSegments, ForceSegment(n)
      PROVE  TypeOK'
  <2>1. n \in Nat
    BY ScheduleAssumption
  <2>2. /\ state' \in ServerStates /\ phase' \in Phases
        /\ moves' \in Nat /\ clean' \in BOOLEAN /\ base' \in Int
    BY <1>6, <2>1, BeginSegmentType DEF ForceSegment
  <2>3. CountersOK'
    BY <1>0, <1>6, <2>2 DEF ForceSegment, CountersOK
  <2>4. FlagsOK'
    BY <1>0, <1>6, <2>2 DEF ForceSegment, FlagsOK
  <2>5. QED
    BY <2>2, <2>3, <2>4 DEF TypeOK
<1>7. ASSUME NEW r \in Races, VoteGo(r) \/ VoteWait(r)
      PROVE  TypeOK'
  <2>1. CountersOK'
    BY <1>0, <1>7 DEF VoteGo, VoteWait, CountersOK
  <2>2. pendingTurn' \in BOOLEAN /\ clean' \in BOOLEAN /\ votes' \subseteq Races
    BY <1>0, <1>7 DEF VoteGo, VoteWait, FlagsOK
  <2>3. FlagsOK'
    BY <1>0, <1>7, <2>2 DEF VoteGo, VoteWait, FlagsOK
  <2>4. state' \in ServerStates
    BY <1>0, <1>7 DEF VoteGo, VoteWait
  <2>5. QED
    BY <2>1, <2>3, <2>4 DEF TypeOK
<1>8. CASE FinishTurn
  <2>1. CountersOK'
    BY <1>0, <1>8 DEF FinishTurn, RequestServed, CountersOK
  <2>2. pendingTurn' \in BOOLEAN /\ votes' \subseteq Races
    BY <1>0, <1>8 DEF FinishTurn, RequestServed, FlagsOK
  <2>3. FlagsOK'
    BY <1>0, <1>8, <2>2 DEF FinishTurn, FlagsOK, Phases
  <2>4. QED
    BY <1>0, <1>8, <2>1, <2>3 DEF TypeOK, FinishTurn
<1>9. CASE Crash
  <2>1. CountersOK'
    BY <1>0, <1>9 DEF Crash, CountersOK
  <2>2. FlagsOK'
    BY <1>0, <1>9 DEF Crash, FlagsOK, Phases
  <2>3. QED
    BY <1>0, <1>9, <2>1, <2>2 DEF TypeOK, Crash
<1>10. CASE TimePasses
  <2>1. CountersOK'
    BY <1>0, <1>10 DEF TimePasses, CountersOK
  <2>2. FlagsOK'
    BY <1>0, <1>10 DEF TimePasses, FlagsOK
  <2>3. QED
    BY <1>0, <1>10, <2>1, <2>2 DEF TypeOK, TimePasses
<1>11. CASE ToggleNogo
  <2>1. CountersOK'
    BY <1>0, <1>11 DEF ToggleNogo, CountersOK
  <2>2. FlagsOK'
    BY <1>0, <1>11 DEF ToggleNogo, FlagsOK
  <2>3. QED
    BY <1>0, <1>11, <2>1, <2>2 DEF TypeOK, ToggleNogo
<1>12. CASE UNCHANGED vars
  BY <1>0, <1>12 DEF vars, TypeOK, CountersOK, FlagsOK
<1>13. QED
  BY <1>1, <1>3, <1>4, <1>5, <1>6, <1>7, <1>8, <1>9, <1>10, <1>11, <1>12
  DEF Next

\* The schedule row, the flags and the histories keep their types.
THEOREM TypeCorrect == Spec => []TypeOK
BY InitType, StepType, PTL DEF Spec

-----------------------------------------------------------------------------
\* Beginning a segment or a suppressed turn counts nothing; beginning an update
\* counts one and has one in flight.
LEMMA BeginUpdateCounts ==
  ASSUME TypeOK, NEW force \in BOOLEAN, BeginUpdate(force)
  PROVE  \/ phase' = "update" /\ state'.updatesDone = state.updatesDone + 1
         \/ phase' = "idle" /\ state'.updatesDone = state.updatesDone
BY DEF BeginUpdate, Suppressed, CountsUpdate, UpdateSchedule, TypeOK,
       ServerStates

LEMMA BeginSegmentCounts ==
  ASSUME TypeOK, NEW override \in BOOLEAN, NEW n \in Nat,
         BeginSegment(override, n)
  PROVE  phase' \in {"idle", "segment"}
         /\ state'.updatesDone = state.updatesDone
BY DEF BeginSegment, SegmentSchedule, TypeOK, ServerStates

LEMMA StepAccounted ==
  TypeOK /\ UpdatesAccounted /\ [Next]_vars => UpdatesAccounted'
<1> SUFFICES ASSUME TypeOK, UpdatesAccounted, [Next]_vars
             PROVE  UpdatesAccounted'
  OBVIOUS
<1>0. /\ state \in ServerStates /\ turns \in Nat /\ crashes \in Nat
      /\ state.updatesDone \in Nat
  BY DEF TypeOK, CountersOK, ServerStates
<1> USE DEF UpdatesAccounted, InFlight
\* What an idle server may begin
<1>1. ASSUME phase = "idle", turns' = turns, crashes' = crashes,
             \/ phase' = "update" /\ state'.updatesDone = state.updatesDone + 1
             \/ /\ phase' \in {"idle", "segment"}
                /\ state'.updatesDone = state.updatesDone
      PROVE  UpdatesAccounted'
  BY <1>0, <1>1
<1>2. ASSUME NEW n \in SegmentChoices, Start(n)
      PROVE  UpdatesAccounted'
  BY <1>0, <1>2 DEF Start, InitialSchedule
<1>3. CASE TickWaits
  BY <1>0, <1>3 DEF TickWaits
<1>4. CASE TickRuns
  <2>1. phase = "idle" /\ turns' = turns /\ crashes' = crashes /\ NextThing
    BY <1>4 DEF TickRuns
  <2>2. CASE SegmentRefused
    BY <1>1, <2>1, <2>2 DEF SegmentRefused
  <2>3. CASE BeginSegment(FALSE, 1)
    BY <1>1, <2>1, <2>3, BeginSegmentCounts
  <2>4. CASE BeginUpdate(FALSE)
    BY <1>1, <2>1, <2>4, BeginUpdateCounts
  <2>5. QED
    BY <2>1, <2>2, <2>3, <2>4 DEF NextThing
<1>5. CASE ForceUpdate
  BY <1>1, <1>5, BeginUpdateCounts DEF ForceUpdate
<1>6. ASSUME NEW n \in ForcedSegments, ForceSegment(n)
      PROVE  UpdatesAccounted'
  BY <1>1, <1>6, BeginSegmentCounts, ScheduleAssumption DEF ForceSegment
<1>7. ASSUME NEW r \in Races, VoteGo(r) \/ VoteWait(r)
      PROVE  UpdatesAccounted'
  BY <1>0, <1>7 DEF VoteGo, VoteWait
<1>8. CASE FinishTurn
  BY <1>0, <1>8 DEF FinishTurn
<1>9. CASE Crash
  BY <1>0, <1>9 DEF Crash
<1>10. CASE TimePasses
  BY <1>0, <1>10 DEF TimePasses
<1>11. CASE ToggleNogo
  BY <1>0, <1>11 DEF ToggleNogo
<1>12. CASE UNCHANGED vars
  BY <1>0, <1>12 DEF vars
<1>13. QED
  BY <1>2, <1>3, <1>4, <1>5, <1>6, <1>7, <1>8, <1>9, <1>10, <1>11, <1>12
  DEF Next

\* do_update saves the schedule and the count before do_turn and nothing else
\* moves either: a counted update ran once, is running, or was lost in one of
\* the crashes; no update is ever simulated twice.
THEOREM UpdatesAtMostOnce == Spec => []UpdatesAccounted
<1>1. Init => UpdatesAccounted
  BY DEF Init, UpdatesAccounted, InFlight
<1>2. QED
  BY <1>1, StepAccounted, TypeCorrect, PTL DEF Spec

-----------------------------------------------------------------------------
\* A multiple stays one when the divisor is added.
LEMMA NextMultiple ==
  ASSUME NEW a \in Int, NEW n \in Nat \ {0}, a % n = 0
  PROVE  (a + n) % n = 0
<1> DEFINE q == a \div n
<1>1. q \in Int /\ a = (n * q) + (a % n)
  OBVIOUS
<1>2. a + n = n * (q + 1)
  BY <1>1
<1>3. \A k \in Int : (n * k) % n = 0
  OBVIOUS
<1> HIDE DEF q
<1>4. q + 1 \in Int
  BY <1>1
<1> QED
  BY <1>2, <1>3, <1>4

\* No difference is a multiple of everything.
LEMMA ZeroMultiple ==
  ASSUME NEW n \in Nat \ {0}
  PROVE  0 % n = 0
OBVIOUS

\* The base moves with the update time, or the update time by one interval, or
\* neither moves.
LEMMA DriftStep ==
  ASSUME TypeOK, NoDrift, base' \in Int, state'.nextUpdate \in Int,
         \/ base' = state'.nextUpdate
         \/ base' = base /\ state'.nextUpdate = state.nextUpdate
         \/ base' = base /\ state'.nextUpdate = state.nextUpdate + Interval
  PROVE  NoDrift'
<1>0. /\ base \in Int /\ state.nextUpdate \in Int
      /\ state.nextUpdate - base \in Int /\ Interval \in Nat \ {0}
  BY ScheduleAssumption DEF TypeOK, CountersOK, ServerStates
<1>1. CASE base' = state'.nextUpdate
  <2>1. state'.nextUpdate - base' = 0
    BY <1>1
  <2> QED
    BY <1>0, <1>1, <2>1, ZeroMultiple DEF NoDrift
<1>2. CASE base' = base /\ state'.nextUpdate = state.nextUpdate
  BY <1>2 DEF NoDrift
<1>3. CASE base' = base /\ state'.nextUpdate = state.nextUpdate + Interval
  <2>1. state'.nextUpdate - base' = (state.nextUpdate - base) + Interval
    BY <1>0, <1>3
  <2>2. (state'.nextUpdate - base') % Interval = 0
    BY <1>0, <2>1, NextMultiple DEF NoDrift
  <2>3. base' # 0 => state'.nextUpdate >= base'
    BY <1>0, <1>3 DEF NoDrift
  <2> QED
    BY <2>2, <2>3 DEF NoDrift
<1> QED
  BY <1>1, <1>2, <1>3

LEMMA UpdateBases ==
  ASSUME TypeOK, NEW force \in BOOLEAN, BeginUpdate(force)
  PROVE  \/ base' = state'.nextUpdate
         \/ base' = base /\ state'.nextUpdate = state.nextUpdate + Interval
BY DEF BeginUpdate, UpdateSchedule, UpdateBase

LEMMA SegmentBases ==
  ASSUME NEW override \in BOOLEAN, NEW n \in Nat, BeginSegment(override, n)
  PROVE  \/ base' = state'.nextUpdate
         \/ base' = base /\ state'.nextUpdate = state.nextUpdate
BY DEF BeginSegment, SegmentSchedule

LEMMA StepNoDrift == TypeOK /\ NoDrift /\ [Next]_vars => NoDrift'
<1> SUFFICES ASSUME TypeOK, NoDrift, [Next]_vars
             PROVE  NoDrift'
  OBVIOUS
<1>0. base' \in Int /\ state'.nextUpdate \in Int
  <2>1. TypeOK'
    BY StepType
  <2> QED
    BY <2>1 DEF TypeOK, CountersOK, ServerStates
<1>1. ASSUME NEW n \in SegmentChoices, Start(n) PROVE NoDrift'
  BY <1>0, <1>1, DriftStep DEF Start, InitialSchedule
<1>2. CASE TickRuns
  <2>1. NextThing
    BY <1>2 DEF TickRuns
  <2>2. CASE SegmentRefused
    BY <1>0, <2>2, DriftStep DEF SegmentRefused
  <2>3. CASE BeginSegment(FALSE, 1)
    BY <1>0, <2>3, SegmentBases, DriftStep
  <2>4. CASE BeginUpdate(FALSE)
    BY <1>0, <2>4, UpdateBases, DriftStep
  <2> QED
    BY <2>1, <2>2, <2>3, <2>4 DEF NextThing
<1>3. CASE ForceUpdate
  BY <1>0, <1>3, UpdateBases, DriftStep DEF ForceUpdate
<1>4. ASSUME NEW n \in ForcedSegments, ForceSegment(n) PROVE NoDrift'
  BY <1>0, <1>4, SegmentBases, DriftStep, ScheduleAssumption DEF ForceSegment
<1>5. ASSUME UNCHANGED <<state, base>> PROVE NoDrift'
  BY <1>0, <1>5, DriftStep
<1>6. CASE \/ TickWaits \/ \E r \in Races : VoteGo(r) \/ VoteWait(r)
           \/ FinishTurn \/ Crash \/ TimePasses \/ ToggleNogo \/ UNCHANGED vars
  BY <1>5, <1>6 DEF TickWaits, VoteGo, VoteWait, FinishTurn, Crash, TimePasses,
                    ToggleNogo, vars
<1> QED
  BY <1>1, <1>2, <1>3, <1>4, <1>6 DEF Next

\* Late ticks, long turns, votes, the nogo file, crashes and restarts never move
\* the timetable off its grid: the next update is a whole number of intervals
\* after the time a first start or a deity set (compute_update_schedule).
THEOREM TimetableNeverDrifts == Spec => []NoDrift
<1>1. Init => NoDrift
  BY ZeroMultiple, ScheduleAssumption DEF Init, NoDrift
<1>2. QED
  BY <1>1, StepNoDrift, TypeCorrect, PTL DEF Spec

-----------------------------------------------------------------------------
\* While only the timer runs turns, the row's segment count is the number of
\* movements the running game has had: the update's own, those committed and
\* the one in flight.  An idle server has no turn started by the timer.
Cadence ==
  /\ phase = "idle" => ~byTimer
  /\ clean => /\ phase # "down"
              /\ state.segsDone >= 1
              /\ state.segsDone <= AtLeastOne(state.segments)
              /\ state.segsDone = moves + (IF phase = "segment" THEN 2 ELSE 1)

LEMMA CadenceSame ==
  ASSUME Cadence, UNCHANGED <<state, phase, moves, byTimer>>, clean' => clean
  PROVE  Cadence'
BY DEF Cadence

\* What the timer may begin
LEMMA CadenceTick ==
  ASSUME TypeOK, Cadence, TickRuns
  PROVE  Cadence'
<1>0. /\ state.segments \in Nat /\ state.segsDone \in Nat /\ moves \in Nat
      /\ phase = "idle" /\ NextThing
  BY DEF TypeOK, CountersOK, ServerStates, TickRuns
<1>1. phase' = "idle" => ~byTimer'
  BY DEF TickRuns
<1>2. CASE SegmentRefused
  BY <1>0, <1>1, <1>2 DEF SegmentRefused, Cadence
<1>3. CASE state.segsDone < state.segments /\ BeginSegment(FALSE, 1)
  <2>1. /\ state'.segments = state.segments /\ state'.segsDone = state.segsDone + 1
        /\ moves' = moves
        /\ clean' => clean /\ phase' = "segment"
    BY <1>3 DEF BeginSegment, SegmentSchedule
  <2>2. ASSUME clean'
        PROVE  /\ phase' # "down" /\ state'.segsDone >= 1
               /\ state'.segsDone <= AtLeastOne(state'.segments)
               /\ state'.segsDone = moves' + (IF phase' = "segment" THEN 2 ELSE 1)
    <3>1. clean /\ phase' = "segment"
      BY <2>1, <2>2
    <3>2. state.segsDone = moves + 1
      BY <1>0, <3>1 DEF Cadence
    <3>3. state.segsDone + 1 <= AtLeastOne(state.segments)
      BY <1>0, <1>3 DEF AtLeastOne
    <3> QED
      BY <1>0, <2>1, <3>1, <3>2, <3>3
  <2> QED
    BY <1>1, <2>2 DEF Cadence
<1>4. CASE BeginUpdate(FALSE)
  <2>1. /\ state'.segments = state.segments /\ state'.segsDone = 1
        /\ clean' => phase' = "update" /\ moves' = 0
    BY <1>4 DEF BeginUpdate, UpdateSchedule, SegmentsAfterUpdate
  <2>2. AtLeastOne(state.segments) >= 1
    BY <1>0 DEF AtLeastOne
  <2> QED
    BY <1>0, <1>1, <2>1, <2>2 DEF Cadence
<1> QED
  BY <1>0, <1>2, <1>3, <1>4 DEF NextThing

LEMMA StepCadence == TypeOK /\ Cadence /\ [Next]_vars => Cadence'
<1> SUFFICES ASSUME TypeOK, Cadence, [Next]_vars
             PROVE  Cadence'
  OBVIOUS
<1>0. moves \in Nat /\ clean \in BOOLEAN
  BY DEF TypeOK, CountersOK, FlagsOK
<1>1. ASSUME NEW n \in SegmentChoices, Start(n) PROVE Cadence'
  BY <1>1 DEF Start, Cadence
<1>2. CASE TickRuns
  BY <1>2, CadenceTick
<1>3. CASE ForceUpdate
  BY <1>3 DEF ForceUpdate, BeginUpdate, Cadence
<1>4. ASSUME NEW n \in ForcedSegments, ForceSegment(n) PROVE Cadence'
  BY <1>4 DEF ForceSegment, BeginSegment, Cadence
<1>5. ASSUME NEW r \in Races, VoteGo(r) \/ VoteWait(r) PROVE Cadence'
  BY <1>0, <1>5, CadenceSame DEF VoteGo, VoteWait
<1>6. CASE FinishTurn
  BY <1>0, <1>6 DEF FinishTurn, Cadence
<1>7. CASE Crash
  BY <1>7 DEF Crash, Cadence
<1>8. CASE TickWaits \/ TimePasses \/ ToggleNogo \/ UNCHANGED vars
  BY <1>8, CadenceSame DEF TickWaits, TimePasses, ToggleNogo, vars
<1> QED
  BY <1>1, <1>2, <1>3, <1>4, <1>5, <1>6, <1>7, <1>8 DEF Next

LEMMA CadenceInvariant == Spec => []Cadence
<1>1. Init => Cadence
  BY DEF Init, Cadence
<1>2. QED
  BY <1>1, StepCadence, TypeCorrect, PTL DEF Spec

\* When the timer starts an update and only the timer has run turns since the
\* one before, exactly the segments that belong between two updates were
\* simulated (do_next_thing, compute_segment_schedule).
THEOREM TimerKeepsCadence == Spec => CadenceKept
<1> DEFINE Kept == (phase = "idle" /\ phase' = "update" /\ byTimer' /\ clean)
                      => moves = AtLeastOne(state.segments) - 1
<1>1. ASSUME TypeOK, Cadence, Next PROVE Kept
  <2> SUFFICES ASSUME phase = "idle", phase' = "update", byTimer', clean
               PROVE  moves = AtLeastOne(state.segments) - 1
    OBVIOUS
  <2>1. TickRuns
    <3>1. ~ForceUpdate
      BY <1>1 DEF ForceUpdate, Cadence
    <3>2. ASSUME NEW n, \/ Start(n) \/ ForceSegment(n) \/ VoteGo(n) \/ VoteWait(n)
          PROVE  FALSE
      BY <3>2 DEF Start, ForceSegment, BeginSegment, VoteGo, VoteWait
    <3>3. ~(TickWaits \/ FinishTurn \/ Crash \/ TimePasses \/ ToggleNogo)
      BY DEF TickWaits, FinishTurn, Crash, TimePasses, ToggleNogo
    <3> QED
      BY <1>1, <3>1, <3>2, <3>3 DEF Next
  <2>2. state.segsDone >= state.segments
    BY <2>1 DEF TickRuns, NextThing, SegmentRefused, BeginSegment
  <2>3. /\ state.segments \in Nat /\ state.segsDone \in Nat /\ moves \in Nat
    BY <1>1 DEF TypeOK, CountersOK, ServerStates
  <2> QED
    BY <1>1, <2>2, <2>3 DEF Cadence, AtLeastOne
<1>2. TypeOK /\ Cadence /\ [Next]_vars => [Kept]_vars
  BY <1>1
<1> HIDE DEF Kept
<1>3. Spec => [][Kept]_vars
  BY <1>2, TypeCorrect, CadenceInvariant, PTL DEF Spec
<1> QED
  BY <1>3 DEF CadenceKept, Kept


-----------------------------------------------------------------------------
(* Sessions *)

\* Between passes no session is left to visit.
SessionsInv == LoginsSound /\ (~pass => todo = {})

\* What a step may do to a session without anybody acting under another name.
SameName(x, y) ==
  /\ y \in Session /\ y.user = x.user /\ y.god = x.god
  /\ y.emulates = x.emulates /\ (x.dead => y.dead)

\* A table of sessions in which nobody changed his name.
Tamed(t) ==
  /\ t \in [Conn -> Session]
  /\ \A c \in Conn : SameName(s[c], t[c])

LEMMA FreshSession ==
  Fresh \in Session /\ Fresh.user = NoOne /\ Fresh.god = FALSE
BY SessionsAssumption DEF Fresh, Session

LEMMA SameNameTypes ==
  ASSUME NEW x \in Session
  PROVE  /\ SameName(x, x)
         /\ SameName(x, Dropped(x)) /\ SameName(x, Notified(x)) /\ SameName(x, FlushedOne(x))
         /\ SameName(x, [x EXCEPT !.dead = TRUE])
         /\ SameName(x, [x EXCEPT !.out = TRUE])
         /\ x.lines < MaxInput => SameName(x, [x EXCEPT !.lines = x.lines + 1])
         /\ x.unsent > 0 => SameName(x, [x EXCEPT !.unsent = x.unsent - 1])
         /\ SameName(x, [x EXCEPT !.quota = Refill(x.quota)])
         /\ x.lines > 0 /\ x.quota > 0 =>
              /\ SameName(x, [x EXCEPT !.lines = x.lines - 1, !.quota = x.quota - 1, !.out = TRUE])
              /\ SameName(x, [x EXCEPT !.lines = x.lines - 1, !.quota = x.quota - 1])
<1>1. MaxInput \in Nat /\ Burst \in Nat /\ MaxWrite \in Nat
  BY SessionsAssumption
<1>2. SameName(x, x)
  BY DEF SameName
<1>3. SameName(x, Dropped(x))
  BY DEF SameName, Dropped, Session
<1>4. SameName(x, Notified(x))
  BY DEF SameName, Notified, Session
<1>5. SameName(x, FlushedOne(x))
  <2>1. CASE x.dead \/ ~x.out
    BY <2>1, <1>2 DEF FlushedOne
  <2>2. CASE ~x.dead /\ x.out /\ x.unsent > MaxWrite
    <3>1. FlushedOne(x) = Dropped(x)
      BY <2>2 DEF FlushedOne, Dropped, Session
    <3> QED  BY <3>1, <1>3
  <2>3. CASE ~x.dead /\ x.out /\ ~(x.unsent > MaxWrite)
    <3>1. FlushedOne(x) = [x EXCEPT !.out = FALSE, !.unsent = x.unsent + 1]
      BY <2>3 DEF FlushedOne
    <3>2. x.unsent + 1 \in 0..MaxWrite + 1
      BY <1>1, <2>3 DEF Session
    <3> QED  BY <3>1, <3>2 DEF SameName, Session
  <2> QED  BY <2>1, <2>2, <2>3 DEF Session
<1>6. /\ SameName(x, [x EXCEPT !.dead = TRUE])
      /\ SameName(x, [x EXCEPT !.out = TRUE])
  BY DEF SameName, Session
<1>7. /\ x.lines < MaxInput => SameName(x, [x EXCEPT !.lines = x.lines + 1])
      /\ x.unsent > 0 => SameName(x, [x EXCEPT !.unsent = x.unsent - 1])
  BY <1>1 DEF SameName, Session
<1>8. SameName(x, [x EXCEPT !.quota = Refill(x.quota)])
  BY <1>1 DEF SameName, Session, Refill
<1>9. x.lines > 0 /\ x.quota > 0 =>
        /\ SameName(x, [x EXCEPT !.lines = x.lines - 1, !.quota = x.quota - 1, !.out = TRUE])
        /\ SameName(x, [x EXCEPT !.lines = x.lines - 1, !.quota = x.quota - 1])
  <2> SUFFICES ASSUME x.lines > 0, x.quota > 0
      PROVE  /\ SameName(x, [x EXCEPT !.lines = x.lines - 1, !.quota = x.quota - 1, !.out = TRUE])
             /\ SameName(x, [x EXCEPT !.lines = x.lines - 1, !.quota = x.quota - 1])
    OBVIOUS
  <2>1. x.lines - 1 \in 0..MaxInput /\ x.quota - 1 \in 0..Burst
    BY <1>1 DEF Session
  <2>2. SameName(x, [x EXCEPT !.lines = x.lines - 1, !.quota = x.quota - 1, !.out = TRUE])
    BY <2>1 DEF SameName, Session
  <2>3. SameName(x, [x EXCEPT !.lines = x.lines - 1, !.quota = x.quota - 1])
    BY <2>1 DEF SameName, Session
  <2> QED  BY <2>2, <2>3
<1> QED  BY <1>2, <1>3, <1>4, <1>5, <1>6, <1>7, <1>8, <1>9

LEMMA SameNameTransitive ==
  ASSUME NEW x, NEW y, NEW z, SameName(x, y), SameName(y, z)
  PROVE  SameName(x, z)
BY DEF SameName

\* One session changes, the others stay.
LEMMA OneTamed ==
  ASSUME s \in [Conn -> Session], NEW c \in Conn, NEW y, SameName(s[c], y)
  PROVE  Tamed([s EXCEPT ![c] = y])
<1>1. y \in Session
  BY DEF SameName
<1>2. \A d \in Conn : SameName(s[d], s[d])
  BY SameNameTypes
<1>3. \A d \in Conn : [s EXCEPT ![c] = y][d] = IF d = c THEN y ELSE s[d]
  OBVIOUS
<1> QED  BY <1>1, <1>2, <1>3 DEF Tamed

\* Every session changes alike.
LEMMA FlushedTamed == ASSUME NEW t, Tamed(t) PROVE Tamed(Flushed(t))
<1>1. \A c \in Conn : /\ Flushed(t)[c] = IF c \in sessions THEN FlushedOne(t[c]) ELSE t[c]
                      /\ t[c] \in Session /\ SameName(s[c], t[c])
  BY DEF Flushed, Each, Tamed
<1>2. \A c \in Conn : SameName(s[c], Flushed(t)[c])
  BY <1>1, SameNameTypes, SameNameTransitive
<1> QED  BY <1>2 DEF Tamed, SameName, Flushed, Each

LEMMA NotifiedTamed == ASSUME NEW t, Tamed(t) PROVE Tamed(Each(t, Notified))
<1>1. \A c \in Conn : /\ Each(t, Notified)[c] = IF c \in sessions THEN Notified(t[c]) ELSE t[c]
                      /\ t[c] \in Session /\ SameName(s[c], t[c])
  BY DEF Each, Tamed
<1>2. \A c \in Conn : SameName(s[c], Each(t, Notified)[c])
  BY <1>1, SameNameTypes, SameNameTransitive
<1> QED  BY <1>2 DEF Tamed, SameName, Each

LEMMA DroppedTamed ==
  ASSUME s \in [Conn -> Session]
  PROVE  Tamed(s) /\ Tamed(Each(s, Dropped))
         /\ Tamed(Each(s, LAMBDA x : [x EXCEPT !.quota = Refill(@)]))
<1>1. \A c \in Conn : s[c] \in Session
  OBVIOUS
<1>2. Tamed(s)
  BY <1>1, SameNameTypes DEF Tamed
<1>3. Tamed(Each(s, Dropped))
  <2>1. \A c \in Conn : Each(s, Dropped)[c] = IF c \in sessions THEN Dropped(s[c]) ELSE s[c]
    BY DEF Each
  <2>2. \A c \in Conn : SameName(s[c], Each(s, Dropped)[c])
    BY <1>1, <2>1, SameNameTypes
  <2> QED  BY <2>2 DEF Tamed, SameName, Each
<1>4. Tamed(Each(s, LAMBDA x : [x EXCEPT !.quota = Refill(@)]))
  <2> DEFINE t == Each(s, LAMBDA x : [x EXCEPT !.quota = Refill(@)])
  <2>1. t = [c \in Conn |-> IF c \in sessions THEN [s[c] EXCEPT !.quota = Refill(s[c].quota)]
                            ELSE s[c]]
    BY DEF Each
  <2> HIDE DEF t
  <2>2. \A c \in Conn : SameName(s[c], t[c])
    BY <1>1, <2>1, SameNameTypes
  <2>3. t \in [Conn -> Session]
    BY <2>1, <2>2 DEF SameName
  <2> QED  BY <2>2, <2>3 DEF Tamed, t
<1> QED  BY <1>2, <1>3, <1>4

\* Nobody has a name or rights that are not his.
Names(t, known) ==
  /\ \A c, d \in known :
       c # d /\ ~t[c].dead /\ ~t[d].dead /\ t[c].user # NoOne /\ t[c].user = t[d].user
         => t[c].emulates \/ t[d].emulates
  /\ \A c \in known : t[c].god => t[c].user = Deity

LEMMA NamesAreLogins ==
  ASSUME sessions \subseteq Conn
  PROVE  Names(s, sessions) <=> OneLogin /\ GodOnlyAsDeity
BY DEF Names, OneLogin, GodOnlyAsDeity, Live, Connected

LEMMA TamedNames ==
  ASSUME NEW t, Tamed(t), sessions \subseteq Conn, Names(s, sessions), s \in [Conn -> Session],
         NEW known \in SUBSET sessions
  PROVE  Names(t, known)
<1>1. \A c \in known : /\ t[c].user = s[c].user /\ t[c].god = s[c].god
                       /\ t[c].emulates = s[c].emulates
                       /\ t[c].dead \in BOOLEAN /\ s[c].dead \in BOOLEAN
                       /\ (s[c].dead => t[c].dead)
  BY DEF Tamed, SameName, Session
<1> QED  BY <1>1 DEF Names

\* A shout gives some of them something to read.
LEMMA ShoutedSame ==
  ASSUME NEW t \in [Conn -> Session]
  PROVE  /\ Shouted(t) \in [Conn -> Session]
         /\ \A c \in Conn : SameName(t[c], Shouted(t)[c])
<1>1. \A c \in Conn : Shouted(t)[c] =
        [t[c] EXCEPT !.out = @ \/ (~t[c].dead /\ t[c].user \in appointed \ {Deity})]
  BY DEF Shouted
<1>2. \A x \in Session, b \in BOOLEAN : SameName(x, [x EXCEPT !.out = b])
  BY DEF SameName, Session
<1>3. \A c \in Conn : SameName(t[c], Shouted(t)[c])
  BY <1>1, <1>2 DEF Session
<1> QED  BY <1>3 DEF SameName, Shouted

\* Reaping takes the dropped sessions away and shouts to the others.
LEMMA ReapEffect ==
  ASSUME SessionsInv, NEW t, Tamed(t), Reap(t)
  PROVE  /\ s' \in [Conn -> Session] /\ sessions' \subseteq sessions
         /\ sessions' = sessions \ Reapable(t)
         /\ shouted' \subseteq Conn \ sessions'
         /\ Names(s', sessions')
<1> DEFINE kept == [c \in Conn |-> IF c \in Reapable(t) THEN Fresh ELSE t[c]]
<1>1. /\ s \in [Conn -> Session] /\ sessions \subseteq Conn /\ t \in [Conn -> Session]
      /\ Names(s, sessions)
  BY NamesAreLogins DEF SessionsInv, LoginsSound, SessionsTypeOK, Tamed
<1>2. /\ sessions' = sessions \ Reapable(t) /\ shouted' = Announced(t)
      /\ s' = IF Announced(t) = {} THEN kept ELSE Shouted(kept)
  BY DEF Reap
<1>3. kept \in [Conn -> Session] /\ \A c \in sessions' : kept[c] = t[c]
  BY <1>1, <1>2, FreshSession
<1>4. /\ Shouted(kept) \in [Conn -> Session]
      /\ \A c \in Conn : SameName(kept[c], Shouted(kept)[c])
  BY <1>3, ShoutedSame
<1> HIDE DEF kept
<1>5. s' \in [Conn -> Session]
  BY <1>2, <1>3, <1>4
<1>6. \A c \in sessions' : /\ s'[c].user = t[c].user /\ s'[c].god = t[c].god
                           /\ s'[c].emulates = t[c].emulates
                           /\ t[c].dead \in BOOLEAN /\ s'[c].dead \in BOOLEAN
                           /\ (t[c].dead => s'[c].dead)
  <2> TAKE c \in sessions'
  <2>1. c \in Conn /\ kept[c] = t[c]
    BY <1>1, <1>2, <1>3
  <2>2. s'[c] = kept[c] \/ s'[c] = Shouted(kept)[c]
    BY <1>2
  <2>3. SameName(kept[c], s'[c])
    BY <1>3, <1>4, <2>1, <2>2, SameNameTypes
  <2> QED  BY <1>1, <1>5, <2>1, <2>3 DEF SameName, Session
<1>7. Names(t, sessions')
  BY <1>1, <1>2, TamedNames
<1>8. Names(s', sessions')
  BY <1>6, <1>7 DEF Names
<1>9. shouted' \subseteq Conn \ sessions'
  BY <1>1, <1>2 DEF Announced, Reapable
<1> QED  BY <1>2, <1>5, <1>8, <1>9

\* The invariant from its parts: the table, the names, the bookkeeping.
LEMMA Assembled ==
  ASSUME appointed' \subseteq Governor,
         sessions' \subseteq Conn, s' \in [Conn -> Session], Names(s', sessions'),
         backlog' \subseteq Conn \ sessions', shouted' \subseteq Conn \ sessions',
         pass' \in BOOLEAN, todo' \subseteq sessions', ~pass' => todo' = {},
         cursor' \in Conn \cup {NoOne}, stopping' \in BOOLEAN, listening' \in BOOLEAN,
         process' \in {"running", "exited", "threw", "undefined"}
  PROVE  SessionsInv'
<1>1. SessionsTypeOK'
  BY DEF SessionsTypeOK
<1>2. OneLogin' /\ GodOnlyAsDeity'
  BY DEF Names, OneLogin, GodOnlyAsDeity, Live, Connected
<1> QED  BY <1>1, <1>2 DEF SessionsInv, LoginsSound

\* What the invariant says, in those parts.
LEMMA TheParts ==
  ASSUME SessionsInv
  PROVE  /\ appointed \subseteq Governor
         /\ sessions \subseteq Conn /\ s \in [Conn -> Session] /\ Names(s, sessions)
         /\ backlog \subseteq Conn \ sessions /\ shouted \subseteq Conn \ sessions
         /\ pass \in BOOLEAN /\ todo \subseteq sessions /\ (~pass => todo = {})
         /\ cursor \in Conn \cup {NoOne} /\ stopping \in BOOLEAN /\ listening \in BOOLEAN
         /\ process \in {"running", "exited", "threw", "undefined"}
BY NamesAreLogins DEF SessionsInv, LoginsSound, SessionsTypeOK

\* A step that keeps the sessions and names of everybody.
LEMMA TamedStep ==
  ASSUME SessionsInv, Tamed(s'), sessions' = sessions
  PROVE  s' \in [Conn -> Session] /\ Names(s', sessions')
BY TheParts, TamedNames DEF Tamed

LEMMA NetworkSound ==
  ASSUME SessionsInv, NEW c \in Conn,
         Accept(c) \/ Welcome(c) \/ ReadLine(c) \/ HangUp(c) \/ Drain(c)
  PROVE  SessionsInv'
<1> USE TheParts
<1>1. s[c] \in Session
  OBVIOUS
<1>2. CASE Accept(c)
  <2>1. Tamed(s)
    BY DroppedTamed
  <2>2. s' = s /\ sessions' = sessions /\ backlog' = {c} /\ shouted' = {} /\ c \notin sessions
    BY <1>2 DEF Accept
  <2>3. s' \in [Conn -> Session] /\ Names(s', sessions')
    BY <2>2
  <2> QED  BY <1>2, <2>2, <2>3, Assembled DEF Accept, BetweenPasses
<1>3. CASE Welcome(c)
  <2>1. /\ s' = [s EXCEPT ![c] = Fresh] /\ sessions' = sessions \cup {c}
        /\ backlog' = {} /\ shouted' = {} /\ todo' = todo
    BY <1>3 DEF Welcome, BetweenPasses
  <2>2. s' \in [Conn -> Session]
    BY <2>1, FreshSession
  <2>3. \A d \in sessions' : s'[d] = IF d = c THEN Fresh ELSE s[d]
    BY <2>1
  <2>4. \A d \in sessions' : d # c => d \in sessions
    BY <2>1
  <2>5. Names(s', sessions')
    BY <2>3, <2>4, FreshSession DEF Names
  <2> QED  BY <1>3, <2>1, <2>2, <2>5, Assembled DEF Welcome, BetweenPasses
<1>4. CASE ReadLine(c) \/ HangUp(c) \/ Drain(c)
  <2>1. \E y : SameName(s[c], y) /\ s' = [s EXCEPT ![c] = y]
    <3>1. CASE ReadLine(c)
      <4>1. s' = [s EXCEPT ![c] = Enqueued(s[c])]
        BY <3>1 DEF ReadLine
      <4>2. s[c].lines >= MaxInput \/ s[c].lines < MaxInput
        BY <1>1, SessionsAssumption DEF Session
      <4>3. SameName(s[c], Enqueued(s[c]))
        BY <1>1, <4>2, SameNameTypes DEF Enqueued
      <4> QED  BY <4>1, <4>3
    <3>2. CASE HangUp(c)
      <4>1. s' = [s EXCEPT ![c] = [s[c] EXCEPT !.dead = TRUE]]
        BY <3>2 DEF HangUp
      <4> QED  BY <1>1, <4>1, SameNameTypes
    <3>3. CASE Drain(c)
      <4>1. s' = [s EXCEPT ![c] = [s[c] EXCEPT !.unsent = s[c].unsent - 1]] /\ s[c].unsent > 0
        BY <3>3 DEF Drain
      <4> QED  BY <1>1, <4>1, SameNameTypes
    <3> QED  BY <1>4, <3>1, <3>2, <3>3
  <2>2. Tamed(s')
    <3>1. PICK y : SameName(s[c], y) /\ s' = [s EXCEPT ![c] = y]
      BY <2>1
    <3>2. Tamed([s EXCEPT ![c] = y])
      BY <3>1, OneTamed
    <3> QED  BY <3>1, <3>2
  <2>3. sessions' = sessions /\ backlog' = backlog /\ shouted' = {}
    BY <1>4 DEF ReadLine, HangUp, Drain
  <2>4. s' \in [Conn -> Session] /\ Names(s', sessions')
    BY <2>2, <2>3, TamedStep
  <2>5. BetweenPasses
    BY <1>4 DEF ReadLine, HangUp, Drain
  <2> QED  BY <2>3, <2>4, <2>5, Assembled DEF BetweenPasses
<1> QED  BY <1>2, <1>3, <1>4

LEMMA PassSound ==
  ASSUME SessionsInv,
         \/ \E slice \in BOOLEAN : Tick(slice)
         \/ EndPass \/ Signal
  PROVE  SessionsInv'
<1> USE TheParts
<1>1. CASE \E slice \in BOOLEAN : Tick(slice)
  <2>1. PICK slice \in BOOLEAN : Tick(slice)
    BY <1>1
  <2>2. PICK t : Tamed(t) /\ Reap(t)
    BY <2>1, DroppedTamed DEF Tick
  <2>3. /\ s' \in [Conn -> Session] /\ sessions' \subseteq sessions
        /\ shouted' \subseteq Conn \ sessions' /\ Names(s', sessions')
    BY <2>2, ReapEffect
  <2> QED  BY <2>1, <2>3, Assembled DEF Tick
<1>2. CASE Signal
  <2>1. Tamed(Each(s, Dropped)) /\ Reap(Each(s, Dropped)) /\ listening' = FALSE
    BY <1>2, DroppedTamed DEF Signal, Close
  <2>2. /\ s' \in [Conn -> Session] /\ sessions' \subseteq sessions
        /\ shouted' \subseteq Conn \ sessions' /\ Names(s', sessions')
    BY <2>1, ReapEffect
  <2>3. todo = {}
    BY <1>2 DEF Signal, Quiet
  <2> QED  BY <1>2, <2>1, <2>2, <2>3, Assembled DEF Signal
<1>3. CASE EndPass
  <2>1. \E t : Tamed(t) /\ Reap(t)
    <3>1. CASE stopping
      BY <1>3, <3>1, DroppedTamed DEF EndPass, Close
    <3>2. CASE ~stopping
      <4>1. PICK idle \in SUBSET sessions :
              Reap([c \in Conn |-> IF c \in idle THEN Dropped(Flushed(s)[c]) ELSE Flushed(s)[c]])
        BY <1>3, <3>2 DEF EndPass
      <4>2. Tamed(Flushed(s))
        BY DroppedTamed, FlushedTamed
      <4> DEFINE t == [c \in Conn |-> IF c \in idle THEN Dropped(Flushed(s)[c]) ELSE Flushed(s)[c]]
      <4>3. \A c \in Conn : SameName(s[c], t[c])
        BY <4>2, SameNameTypes, SameNameTransitive DEF Tamed
      <4>4. t \in [Conn -> Session]
        BY <4>3 DEF SameName
      <4>5. Tamed(t)
        BY <4>3, <4>4 DEF Tamed
      <4> QED  BY <4>1, <4>5
    <3> QED  BY <3>1, <3>2
  <2>2. PICK t : Tamed(t) /\ Reap(t)
    BY <2>1
  <2>3. /\ s' \in [Conn -> Session] /\ sessions' \subseteq sessions
        /\ shouted' \subseteq Conn \ sessions' /\ Names(s', sessions')
    BY <2>2, ReapEffect
  <2>4. listening' \in BOOLEAN /\ stopping' = stopping
    BY <1>3 DEF EndPass, Close
  <2> QED  BY <1>3, <2>3, <2>4, Assembled DEF EndPass
<1> QED  BY <1>1, <1>2, <1>3

\* Steps that touch no session: the pass moves on, the process ends.
LEMMA StillSound ==
  ASSUME SessionsInv, (\E c \in Conn : Visit(c)) \/ Leave \/ Exit
  PROVE  SessionsInv'
<1> USE TheParts
<1>1. UNCHANGED <<appointed, sessions, s, backlog, pass, stopping, listening>> /\ shouted' = {}
  BY DEF Visit, Leave, Exit
<1>2. s' \in [Conn -> Session] /\ Names(s', sessions')
  BY <1>1
<1>3. todo' \subseteq sessions' /\ cursor' \in Conn \cup {NoOne} /\ (~pass' => todo' = {})
      /\ process' \in {"running", "exited", "threw", "undefined"}
  BY <1>1 DEF Visit, Leave, Exit
<1> QED  BY <1>1, <1>2, <1>3, Assembled

\* The session whose turn it is, once its line is popped and paid for.
LEMMA TakenTamed ==
  ASSUME SessionsInv, NEW c \in Conn, HasTurn(c)
  PROVE  /\ SameName(s[c], Taken(c))
         /\ Tamed([s EXCEPT ![c] = Taken(c)])
         /\ Tamed([s EXCEPT ![c] = Dropped(Taken(c))])
<1> USE TheParts
<1>1. s[c] \in Session /\ s[c].lines > 0 /\ s[c].quota > 0
  BY DEF HasTurn
<1>2. SameName(s[c], Taken(c))
  BY <1>1, SameNameTypes DEF Taken
<1>3. SameName(s[c], Dropped(Taken(c)))
  BY <1>2, SameNameTypes, SameNameTransitive DEF SameName
<1> QED  BY <1>2, <1>3, OneTamed

\* Commands under the session's own name.
LEMMA OwnNameSound ==
  ASSUME SessionsInv, NEW c \in Conn,
         \/ UseGovernor(c) \/ Quit(c) \/ Shutdown(c)
         \/ \E d \in Conn : Tell(c, d)
         \/ \E g \in Governor : Appoint(c, g) \/ Revoke(c, g)
  PROVE  SessionsInv'
<1> USE TheParts
<1>1. HasTurn(c) /\ pass /\ shouted' = {} /\ InPass
  BY DEF UseGovernor, Quit, Shutdown, Tell, Appoint, Revoke, Turn
<1>2. Tamed(s')
  <2>1. CASE \E d \in Conn : Tell(c, d)
    <3>1. PICK d \in Conn : Tell(c, d)
      BY <2>1
    <3>2. s' = [s EXCEPT ![c] = Taken(c), ![d].out = TRUE] /\ c # d
      BY <3>1 DEF Tell
    <3>3. \A e \in Conn : s'[e] = IF e = d THEN [s[d] EXCEPT !.out = TRUE]
                                  ELSE IF e = c THEN Taken(c) ELSE s[e]
      BY <3>2
    <3>4. SameName(s[c], Taken(c))
      BY <1>1, TakenTamed
    <3>5. \A e \in Conn : SameName(s[e], s[e]) /\ SameName(s[e], [s[e] EXCEPT !.out = TRUE])
      BY SameNameTypes
    <3>6. \A e \in Conn : SameName(s[e], s'[e])
      BY <3>3, <3>4, <3>5
    <3>7. s' \in [Conn -> Session]
      BY <3>2, <3>6 DEF SameName
    <3> QED  BY <3>6, <3>7 DEF Tamed
  <2>2. CASE Quit(c)
    BY <1>1, <2>2, TakenTamed DEF Quit
  <2>3. CASE \/ UseGovernor(c) \/ Shutdown(c)
             \/ \E g \in Governor : Appoint(c, g) \/ Revoke(c, g)
    BY <1>1, <2>3, TakenTamed DEF UseGovernor, Shutdown, Appoint, Revoke
  <2> QED  BY <2>1, <2>2, <2>3
<1>3. s' \in [Conn -> Session] /\ Names(s', sessions')
  BY <1>1, <1>2, TamedStep DEF InPass
<1>4. appointed' \subseteq Governor /\ stopping' \in BOOLEAN
      /\ process' \in {"running", "exited", "threw", "undefined"}
  BY DEF UseGovernor, Quit, Shutdown, Tell, Appoint, Revoke
<1> QED  BY <1>1, <1>3, <1>4, Assembled DEF InPass

\* Two sessions' names may meet only where one of them emulates.
LEMMA LoginSound ==
  ASSUME SessionsInv, NEW c \in Conn, Login(c)
  PROVE  SessionsInv'
<1> USE TheParts
<1>1. /\ HasTurn(c) /\ pass /\ shouted' = {} /\ InPass
      /\ UNCHANGED <<appointed, stopping, process>>
  BY DEF Login, Turn
<1>2. s' \in [Conn -> Session] /\ Names(s', sessions')
  <2>1. CASE s' = [s EXCEPT ![c] = Dropped(Taken(c))]
    BY <1>1, <2>1, TakenTamed, TamedStep DEF InPass
  <2>2. CASE s' # [s EXCEPT ![c] = Dropped(Taken(c))]
    <3> DEFINE new(g) == [Taken(c) EXCEPT !.user = g, !.god = g = Deity, !.deity = g = Deity]
               entered(g) == [s EXCEPT ![c] = new(g)]
    <3>1. PICK g \in appointed :
            /\ ~IsConnected(g)
            /\ s' = IF g = Deity THEN Shouted(entered(g)) ELSE entered(g)
      BY <2>2 DEF Login
    <3>2. Taken(c) \in Session
      BY <1>1, TakenTamed DEF SameName
    <3>3. g \in Governor /\ g # NoOne
      BY SessionsAssumption
    <3>4. /\ new(g) \in Session /\ new(g).user = g
          /\ new(g).god = (g = Deity) /\ new(g).dead = Taken(c).dead
      BY <3>2, <3>3 DEF Session
    <3> DEFINE e == entered(g)
    <3>5. e \in [Conn -> Session] /\ \A d \in Conn : e[d] = IF d = c THEN new(g) ELSE s[d]
      BY <3>4
    <3> HIDE DEF new
    <3>6. /\ s' \in [Conn -> Session]
          /\ \A d \in Conn : SameName(e[d], s'[d])
      BY <3>1, <3>5, ShoutedSame, SameNameTypes
    <3>7. \A d \in sessions : d # c /\ ~s[d].dead => s[d].user # g
      BY <3>1 DEF IsConnected
    <3>8. Names(e, sessions)
      BY <3>3, <3>4, <3>5, <3>7 DEF Names
    <3> HIDE DEF e
    <3>9. \A d \in sessions : /\ s'[d].user = e[d].user /\ s'[d].god = e[d].god
                              /\ s'[d].emulates = e[d].emulates
                              /\ e[d].dead \in BOOLEAN /\ s'[d].dead \in BOOLEAN
                              /\ (e[d].dead => s'[d].dead)
      BY <3>5, <3>6 DEF SameName, Session
    <3>10. Names(s', sessions)
      BY <3>8, <3>9 DEF Names
    <3> QED  BY <1>1, <3>6, <3>10 DEF InPass
  <2> QED  BY <2>1, <2>2
<1> QED  BY <1>1, <1>2, Assembled DEF InPass

LEMMA EmulateSound ==
  ASSUME SessionsInv, NEW c \in Conn, NEW g \in Governor, Emulate(c, g)
  PROVE  SessionsInv'
<1> USE TheParts
<1>1. /\ HasTurn(c) /\ pass /\ shouted' = {} /\ InPass
      /\ UNCHANGED <<appointed, stopping, process>>
      /\ s' = [s EXCEPT ![c] = Emulating(Taken(c), g)]
  BY DEF Emulate, Turn
<1>2. Taken(c) \in Session
  BY <1>1, TakenTamed DEF SameName
<1>3. /\ Emulating(Taken(c), g) \in Session /\ Emulating(Taken(c), g).emulates = TRUE
      /\ Emulating(Taken(c), g).god = FALSE
  BY <1>2 DEF Emulating, Session
<1>4. s' \in [Conn -> Session]
      /\ \A d \in Conn : s'[d] = IF d = c THEN Emulating(Taken(c), g) ELSE s[d]
  BY <1>1, <1>3
<1>5. Names(s', sessions')
  BY <1>1, <1>3, <1>4 DEF Names, InPass
<1> QED  BY <1>1, <1>4, <1>5, Assembled DEF InPass

\* The forced turn flushes twice and reaps.
LEMMA TurnByDeitySound ==
  ASSUME SessionsInv, NEW c \in Conn, TurnByDeity(c)
  PROVE  SessionsInv'
<1> USE TheParts
<1> DEFINE popped == [s EXCEPT ![c].lines = @ - 1, ![c].quota = @ - 1]
           t == Flushed(Each(Flushed(popped), Notified))
           after == Each(t, Notified)
<1>1. /\ HasTurn(c) /\ pass /\ Reap(after) /\ todo' = todo \ Reapable(after)
      /\ process' = (IF t[c].dead THEN "undefined" ELSE process)
      /\ UNCHANGED <<appointed, backlog, pass, cursor, stopping, listening>>
  BY DEF TurnByDeity
<1>2. Tamed(popped)
  <2> DEFINE y == [s[c] EXCEPT !.lines = s[c].lines - 1, !.quota = s[c].quota - 1]
  <2>1. s[c] \in Session /\ s[c].lines > 0 /\ s[c].quota > 0
    BY <1>1 DEF HasTurn
  <2>2. SameName(s[c], y)
    BY <2>1, SameNameTypes
  <2>3. popped = [s EXCEPT ![c] = y]
    OBVIOUS
  <2> QED  BY <2>2, <2>3, OneTamed
<1> HIDE DEF popped
<1>3. Tamed(t)
  BY <1>2, FlushedTamed, NotifiedTamed
<1> HIDE DEF t
<1>4. Tamed(after)
  BY <1>3, NotifiedTamed
<1> HIDE DEF after
<1>5. /\ s' \in [Conn -> Session] /\ sessions' \subseteq sessions
      /\ sessions' = sessions \ Reapable(after)
      /\ shouted' \subseteq Conn \ sessions' /\ Names(s', sessions')
  BY <1>1, <1>4, ReapEffect
<1>6. todo' \subseteq sessions'
  BY <1>1, <1>5
<1> QED  BY <1>1, <1>5, <1>6, Assembled

-----------------------------------------------------------------------------
(* Nobody acts with a name or with rights that are not his: check_connect  *)
(* looks for a live session of the same governor, @@emulate gives up the   *)
(* deity's rights with the name, and no reaping, flushing, revocation or   *)
(* shutdown in between moves a name to another session.                    *)
THEOREM LoginsAreSound == SessionsSpec => []LoginsSound
<1>1. SessionsInit => SessionsInv
  <2> SUFFICES ASSUME SessionsInit PROVE SessionsInv
    OBVIOUS
  <2>1. SessionsTypeOK
    BY FreshSession DEF SessionsInit, SessionsTypeOK
  <2>2. OneLogin /\ GodOnlyAsDeity
    BY DEF SessionsInit, OneLogin, GodOnlyAsDeity
  <2> QED  BY <2>1, <2>2 DEF SessionsInv, LoginsSound, SessionsInit
<1>2. SessionsInv /\ [SessionsNext]_session_vars => SessionsInv'
  <2> SUFFICES ASSUME SessionsInv, [SessionsNext]_session_vars PROVE SessionsInv'
    OBVIOUS
  <2>1. CASE UNCHANGED session_vars
    BY <2>1 DEF SessionsInv, LoginsSound, SessionsTypeOK, OneLogin, GodOnlyAsDeity, Live,
       Connected, session_vars
  <2>2. CASE \E c \in Conn : Accept(c) \/ Welcome(c) \/ ReadLine(c) \/ HangUp(c) \/ Drain(c)
    BY <2>2, NetworkSound
  <2>3. CASE (\E slice \in BOOLEAN : Tick(slice)) \/ EndPass \/ Signal
    BY <2>3, PassSound
  <2>4. CASE (\E c \in Conn : Visit(c)) \/ Leave \/ Exit
    BY <2>4, StillSound
  <2>5. CASE \E c \in Conn : Command(c)
    BY <2>5, OwnNameSound, LoginSound, EmulateSound, TurnByDeitySound DEF Command
  <2> QED  BY <2>1, <2>2, <2>3, <2>4, <2>5 DEF SessionsNext
<1>3. SessionsInv => LoginsSound
  BY DEF SessionsInv
<1> QED  BY <1>1, <1>2, <1>3, PTL DEF SessionsSpec

=============================================================================
