---------------------------- MODULE TurnSchedule ----------------------------
(***************************************************************************)
(* When the server runs a turn: the ServerState row, the timer tick that   *)
(* looks at it (server/server.cc), the schedule arithmetic and the order   *)
(* "save the schedule, then simulate the turn" (turn/doturncmd.cc), the    *)
(* deity's @@update and @@segment, a unanimous vote, the nogo file, and    *)
(* crashes and restarts (server/server_config.cc).                         *)
(*                                                                         *)
(* What a turn computes is left out; what is kept is whether it ran.       *)
(***************************************************************************)
EXTENDS Integers

CONSTANTS
  Races,           \* the mortal, non-guest races: those whose vote counts
  Interval,        \* update_time_minutes * 60, in model time units
  SegmentChoices,  \* the values of `segments` the server may be started with
  ForcedSegments,  \* the arguments a deity may give @@segment
  Delays,          \* uniform_rand(0, DEFAULT_RANDOM_*_RANGE): {0} as built
  Far,             \* 144 * 3600: "no segment" in a single-segment game
  StartTime,       \* when the server is first started (0 is "never set")
  MaxTime,         \* bound: the clock stops there
  MaxTurns,        \* bound: acts of deities, voters and the operator
  MaxCrashes       \* bound: crashes of the server process

ASSUME ScheduleAssumption ==
  /\ Interval \in Nat \ {0}
  /\ SegmentChoices \subseteq Nat
  /\ ForcedSegments \subseteq Nat
  /\ Delays \subseteq Nat
  /\ Far \in Nat \ {0}
  /\ StartTime \in Nat \ {0}
  /\ MaxTime \in Nat /\ MaxTurns \in Nat /\ MaxCrashes \in Nat

VARIABLES
  now,         \* std::time(nullptr)
  state,       \* the ServerState row, saved before each turn
  phase,       \* "down", "idle", or the turn being simulated
  byTimer,     \* that turn was started by check_turn_events
  goTime,      \* Server::go_time_, 0 when unset
  pendingTurn, \* Server::pending_turn_
  votes,       \* the races whose row says "go" (Race::votes)
  nogo,        \* the operator's PKGSTATEDIR/nogo file exists
  turns,       \* history: update turns whose writes were committed
  crashes,     \* history: crashes so far
  asked,       \* history: acts of deities, voters and the operator
  moves,       \* history: segment turns committed since the last update
  clean,       \* history: only the timer has run turns since the last update
  base         \* history: the update time last set by a first start or a deity

vars == <<now, state, phase, byTimer, goTime, pendingTurn, votes, nogo,
          turns, crashes, asked, moves, clean, base>>

Phases == {"down", "idle", "update", "segment"}

ServerStates == [segments : Nat, nextUpdate : Int, nextSegment : Int,
                 segsDone : Nat, updatesDone : Nat]

-----------------------------------------------------------------------------
(* Schedule arithmetic *)

AtLeastOne(n) == IF n < 1 THEN 1 ELSE n

\* Integer division of C++: towards zero.
Quot(a, b) == IF a >= 0 THEN a \div b ELSE -((-a) \div b)

\* MUTANT: the next update counted from the moment this one ran
UpdateBaseDrifts(s, force) == now

\* What the next times of an update are counted from
UpdateBase(s, force) == IF force THEN now ELSE s.nextUpdate

\* MUTANT: the update is not the movement of the first segment
SegmentsAfterUpdateNone == 0

\* The update is the movement of the first segment
SegmentsAfterUpdate == 1

\* compute_update_schedule and record_update_completed
UpdateSchedule(s, force, counted) ==
  LET segs == AtLeastOne(s.segments)
      from == UpdateBase(s, force)
  IN  [segments    |-> s.segments,
       nextUpdate  |-> from + Interval,
       nextSegment |-> IF segs = 1 THEN now + Far
                       ELSE from + Quot(Interval, segs),
       segsDone    |-> SegmentsAfterUpdate,
       updatesDone |-> IF counted THEN s.updatesDone + 1 ELSE s.updatesDone]

\* compute_segment_schedule, as do_segment saves it
SegmentSchedule(s, override, target) ==
  LET segs == AtLeastOne(s.segments)
      from == IF override THEN now ELSE s.nextSegment
      set  == override /\ target > 0
  IN  [segments    |-> s.segments,
       nextUpdate  |-> IF set
                       THEN now + Quot(Interval * (segs - target + 1), segs)
                       ELSE s.nextUpdate,
       nextSegment |-> from + Quot(Interval, segs),
       segsDone    |-> IF set THEN target ELSE s.segsDone + 1,
       updatesDone |-> s.updatesDone]

\* initialize_schedule_state: 0 is a time that was never set
InitialSchedule(s, segments) ==
  LET upd  == IF s.nextUpdate = 0 THEN now + Interval ELSE s.nextUpdate
      seg  == IF s.nextSegment = 0 THEN now + Quot(Interval, segments)
              ELSE s.nextSegment
      late == segments > 1 /\ seg < now
  IN  [segments    |-> segments,
       nextUpdate  |-> upd,
       nextSegment |-> IF segments <= 1 THEN now + Far
                       ELSE IF late THEN upd ELSE seg,
       segsDone    |-> IF late THEN segments ELSE s.segsDone,
       updatesDone |-> s.updatesDone]

-----------------------------------------------------------------------------
Init ==
  /\ now = StartTime
  /\ state = [segments |-> 1, nextUpdate |-> 0, nextSegment |-> 0,
              segsDone |-> 0, updatesDone |-> 0]
  /\ phase = "down" /\ byTimer = FALSE
  /\ goTime = 0 /\ pendingTurn = FALSE /\ votes = {} /\ nogo = FALSE
  /\ turns = 0 /\ crashes = 0 /\ asked = 0 /\ moves = 0 /\ clean = FALSE
  /\ base = 0

\* go_time_ of a new Server
UnsetGoTime == 0

\* main: the schedule of the row is repaired and saved, then the server runs.
Start(segments) ==
  /\ phase = "down"
  /\ phase' = "idle"
  /\ state' = InitialSchedule(state, segments)
  /\ goTime' = UnsetGoTime /\ pendingTurn' = FALSE /\ byTimer' = FALSE
  /\ clean' = FALSE
  /\ base' = IF state.nextUpdate = 0 THEN state'.nextUpdate ELSE base
  /\ UNCHANGED <<now, votes, nogo, turns, crashes, asked, moves>>

\* is_turn_suppressed
Suppressed(forced) == ~forced /\ nogo

\* MUTANT: a suppressed update is counted too
CountsUpdateAlways(fakeit) == TRUE

\* record_update_completed counts the updates that are simulated
CountsUpdate(fakeit) == ~fakeit

\* do_update: the new schedule is saved; the turn itself runs in FinishTurn.
\* With the nogo file, an update nobody forced only moves the schedule on.
BeginUpdate(force) ==
  LET fakeit == Suppressed(force)
  IN  /\ state' = UpdateSchedule(state, force, CountsUpdate(fakeit))
      /\ phase' = IF fakeit THEN "idle" ELSE "update"
      /\ moves' = IF fakeit THEN moves ELSE 0
      /\ clean' = (~force /\ ~fakeit)
      /\ base' = IF force THEN state'.nextUpdate ELSE base

\* do_segment, past its early return
BeginSegment(override, target) ==
  LET fakeit == Suppressed(override)
  IN  /\ state' = SegmentSchedule(state, override, target)
      /\ phase' = IF fakeit THEN "idle" ELSE "segment"
      /\ clean' = (clean /\ ~override /\ ~fakeit)
      /\ base' = IF override /\ target > 0 THEN state'.nextUpdate ELSE base
      /\ UNCHANGED moves

\* MUTANT: the comparison is off by one
NoSegmentsOffByOne == state.segments <= 2

\* do_segment returns at once in a single-segment game.
NoSegments == state.segments <= 1

SegmentRefused ==
  /\ NoSegments
  /\ UNCHANGED <<state, phase, moves, clean, base>>

\* do_next_thing
NextThing ==
  \/ /\ state.segsDone < state.segments
     /\ SegmentRefused
  \/ /\ state.segsDone < state.segments
     /\ ~NoSegments
     /\ BeginSegment(FALSE, 1)
  \/ /\ state.segsDone >= state.segments
     /\ BeginUpdate(FALSE)

UpdateDue == now >= state.nextUpdate

SegmentDue == now >= state.nextSegment /\ state.segsDone < state.segments

\* The first half of check_turn_events: what go_time_ becomes on this tick.
GoTimes ==
  IF goTime = 0 /\ (UpdateDue \/ SegmentDue)
  THEN {now + d : d \in Delays}
  ELSE {goTime}

TurnStarts(go) == pendingTurn \/ (go > 0 /\ now >= go)

\* check_turn_events on a tick that only looks, or only draws a delay
TickWaits ==
  /\ phase = "idle"
  /\ \E go \in GoTimes : ~TurnStarts(go) /\ goTime' = go
  /\ UNCHANGED <<now, state, phase, byTimer, pendingTurn, votes, nogo,
                 turns, crashes, asked, moves, clean, base>>

\* After do_next_thing, check_turn_events forgets why it was called.
RequestServed == goTime' = 0 /\ pendingTurn' = FALSE

\* check_turn_events on a tick that calls do_next_thing. go_time_ and
\* pending_turn_ are reset when it returns: here, when no turn is simulated,
\* in FinishTurn otherwise.
TickRuns ==
  /\ phase = "idle"
  /\ \E go \in GoTimes :
       /\ TurnStarts(go)
       /\ NextThing
       /\ IF phase' = "idle"
          THEN RequestServed /\ byTimer' = FALSE
          ELSE goTime' = go /\ UNCHANGED pendingTurn /\ byTimer' = TRUE
  /\ UNCHANGED <<now, votes, nogo, turns, crashes, asked>>

\* @@update (commands/update.cc)
ForceUpdate ==
  /\ phase = "idle" /\ asked < MaxTurns
  /\ BeginUpdate(TRUE)
  /\ asked' = asked + 1
  /\ UNCHANGED <<now, byTimer, goTime, pendingTurn, votes, nogo, turns, crashes>>

\* @@segment (commands/segment.cc)
ForceSegment(target) ==
  /\ phase = "idle" /\ asked < MaxTurns
  /\ BeginSegment(TRUE, target)
  /\ asked' = asked + 1
  /\ UNCHANGED <<now, byTimer, goTime, pendingTurn, votes, nogo, turns, crashes>>

\* vote update go: the request is made when nobody is left to wait for.
VoteGo(r) ==
  /\ phase = "idle" /\ asked < MaxTurns
  /\ votes' = votes \union {r}
  /\ pendingTurn' = (pendingTurn \/ votes' = Races)
  /\ clean' = (clean /\ votes' # Races)
  /\ asked' = asked + 1
  /\ UNCHANGED <<now, state, phase, byTimer, goTime, nogo,
                 turns, crashes, moves, base>>

\* vote update wait: a request already made stands.
VoteWait(r) ==
  /\ phase = "idle" /\ asked < MaxTurns
  /\ votes' = votes \ {r}
  /\ asked' = asked + 1
  /\ UNCHANGED <<now, state, phase, byTimer, goTime, pendingTurn, nogo,
                 turns, crashes, moves, clean, base>>

\* do_turn commits its writes, among them the reset of every vote by an
\* update, and returns; the timer then drops the request it served.
FinishTurn ==
  /\ phase \in {"update", "segment"}
  /\ phase' = "idle"
  /\ turns' = IF phase = "update" THEN turns + 1 ELSE turns
  /\ moves' = IF phase = "segment" THEN moves + 1 ELSE moves
  /\ votes' = IF phase = "update" THEN {} ELSE votes
  /\ IF byTimer THEN RequestServed
                ELSE UNCHANGED <<goTime, pendingTurn>>
  /\ byTimer' = FALSE
  /\ UNCHANGED <<now, state, nogo, crashes, asked, clean, base>>

\* The process dies, in a turn or between turns: the row is what was saved.
Crash ==
  /\ phase # "down" /\ crashes < MaxCrashes
  /\ phase' = "down"
  /\ crashes' = crashes + 1
  /\ clean' = FALSE
  /\ UNCHANGED <<now, state, byTimer, goTime, pendingTurn, votes, nogo,
                 turns, asked, moves, base>>

TimePasses ==
  /\ now < MaxTime
  /\ now' = now + 1
  /\ UNCHANGED <<state, phase, byTimer, goTime, pendingTurn, votes, nogo,
                 turns, crashes, asked, moves, clean, base>>

ToggleNogo ==
  /\ asked < MaxTurns
  /\ nogo' = ~nogo
  /\ asked' = asked + 1
  /\ UNCHANGED <<now, state, phase, byTimer, goTime, pendingTurn, votes,
                 turns, crashes, moves, clean, base>>

Next ==
  \/ \E n \in SegmentChoices : Start(n)
  \/ TickWaits \/ TickRuns
  \/ ForceUpdate
  \/ \E n \in ForcedSegments : ForceSegment(n)
  \/ \E r \in Races : VoteGo(r) \/ VoteWait(r)
  \/ FinishTurn
  \/ Crash
  \/ TimePasses
  \/ ToggleNogo

Spec == Init /\ [][Next]_vars

\* The timer of a running server keeps firing, a turn that has begun ends, and
\* an operator restarts a server that went down.
FairSpec ==
  /\ Spec
  /\ WF_vars(TickWaits \/ TickRuns)
  /\ WF_vars(FinishTurn)
  /\ WF_vars(\E n \in SegmentChoices : Start(n))
  /\ WF_vars(TimePasses)

-----------------------------------------------------------------------------
(* Properties *)

CountersOK ==
  /\ now \in Nat /\ goTime \in Nat
  /\ turns \in Nat /\ crashes \in Nat /\ asked \in Nat /\ moves \in Nat
  /\ base \in Int

FlagsOK ==
  /\ phase \in Phases
  /\ byTimer \in BOOLEAN /\ pendingTurn \in BOOLEAN
  /\ nogo \in BOOLEAN /\ clean \in BOOLEAN
  /\ votes \subseteq Races

\* The variables range over the values the program gives them.
TypeOK == state \in ServerStates /\ CountersOK /\ FlagsOK

InFlight == IF phase = "update" THEN 1 ELSE 0

\* An update that nupdates_done counts has been simulated and committed, is
\* being simulated now, or was lost in a crash, and no update is simulated
\* twice: do_update saves the schedule and the count before do_turn, so that
\* a restart never repeats a turn (at most one is lost for each crash).
UpdatesAccounted ==
  /\ turns + InFlight <= state.updatesDone
  /\ state.updatesDone <= turns + InFlight + crashes

\* do_next_thing and the two schedule computations keep the cadence: when the
\* timer starts an update and only the timer has run turns since the update
\* before, the segments simulated in between are one fewer than `segments`
\* (the update itself is the movement of the first one).
CadenceKept ==
  [][(phase = "idle" /\ phase' = "update" /\ byTimer' /\ clean)
        => moves = AtLeastOne(state.segments) - 1]_vars

\* Late ticks, long turns, votes, the nogo file, crashes and restarts never make
\* the timetable drift: until a deity forces a turn, every next_update_time is
\* a whole number of intervals after the first one.
NoDrift ==
  /\ base # 0 => state.nextUpdate >= base
  /\ (state.nextUpdate - base) % Interval = 0

\* An update that is due is made up for: the schedule moves past the clock,
\* however many intervals the server was down for.
DueUpdateHappens == (phase = "idle" /\ UpdateDue) ~> (now < state.nextUpdate)

\* -- Stated in the repository, refuted by the model (README, disagreements) --

\* entities/tweakables.cppm: with one segment "there will be no movement
\* segments between updates; the move is counted as part of the update".
SingleSegmentUpdates ==
  (phase = "idle" /\ state.segments = 1 /\ UpdateDue) ~> (phase = "update")

\* help/vote.md: with voting "the update interval length chosen by the Deity
\* then becomes a maximum length".
IntervalIsMaximum == phase # "down" => state.nextUpdate <= now + Interval

\* help/vote.md: a player who voted go and thinks of something else to do
\* "before an update" can vote wait; so a turn that is not due yet starts only
\* while everyone still votes go.
EarlyTurnIsUnanimous ==
  [][(phase = "idle" /\ phase' \in {"update", "segment"} /\ byTimer'
        /\ ~UpdateDue /\ ~SegmentDue)
        => votes = Races]_vars
=============================================================================
