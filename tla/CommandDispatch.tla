--------------------------- MODULE CommandDispatch ---------------------------
(***************************************************************************)
(* One command from the session's line to its prompt: dispatch_command     *)
(* (commands/dispatch.cc) opens a SQL transaction and the outbox of live   *)
(* notifications, runs the handler, charges the fixed action-point cost,   *)
(* commits and delivers, or takes everything back.  A handler of a command *)
(* without a fixed cost spends points itself, as often as it acts          *)
(* (GameObj::deduct_ap), and may still fail afterwards.                    *)
(* The notices handlers send (services/notification.cc,                    *)
(* session_registry.cppm) reach a session, the leader's session, or the    *)
(* telegram table.                                                         *)
(*                                                                         *)
(* The server runs one command or turn at a time on one thread, so         *)
(* connections come and go only while it is idle.                          *)
(***************************************************************************)
EXTENDS Sequences, Integers

CONSTANTS
  People,      \* the governors of all races
  Leader,      \* Leader[p]: the leader of p's race
  NoOne,
  Costs,       \* fixed action-point costs (APCost) of the commands; 0: none
  Fees,        \* what a handler asks deduct_ap for at a time
  StartAP,     \* action points of each race at its star
  MaxNotices,  \* bound: notices sent in a run
  MaxCrashes   \* bound: crashes of the process

ASSUME DispatchAssumption ==
  /\ NoOne \notin People
  /\ Leader \in [People -> People]
  /\ \A p \in People : Leader[Leader[p]] = Leader[p]
  /\ Costs \subseteq Nat /\ Fees \subseteq Nat \ {0} /\ StartAP \in Nat
  /\ MaxNotices \in Nat /\ MaxCrashes \in Nat

Races == {Leader[p] : p \in People}   \* a race, named by its leader
Ids == 1..MaxNotices

VARIABLES
  phase,      \* "idle", "handler", "flushing", "prompt" or "turn"
  actor,      \* whose command runs; NoOne when idle or in a timer's turn
  txn,        \* the command is transactional
  cost,       \* its fixed cost
  spent,      \* what its handler has spent itself so far
  inTurn,     \* update_in_progress()
  race,       \* GameObj::race: "null", "live" or "dangling"
  online,     \* governors with a connected session
  ap, savedAp,      \* action points: as the transaction sees them; committed
  tele, savedTele,  \* <<governor, notice>> in tbl_telegram, likewise
  outboxOn, outbox, \* SessionRegistry::outbox_active_, outbox_
  buffer,     \* <<governor, notice>> in a session's output buffer
  notices,    \* history: [to, kind, fate] of every notice sent
  seen,       \* history: <<governor, notice>> written to a socket
  dropped,    \* history: <<governor, notice>> lost with a session
  paid,       \* history: action points charged to commands that succeeded
  crashes     \* history: crashes so far

memory == <<phase, actor, txn, cost, spent, inTurn, race>>
output == <<outboxOn, outbox, buffer, seen, dropped>>
tables == <<ap, savedAp, tele, savedTele>>
history == <<notices, paid, crashes>>
dispatch_vars == <<memory, output, tables, history, online>>

DispatchInit ==
  /\ phase = "idle" /\ actor = NoOne /\ txn = FALSE /\ cost = 0 /\ spent = 0
  /\ inTurn = FALSE /\ race = "null"
  /\ online = {}
  /\ ap = [r \in Races |-> StartAP] /\ savedAp = ap
  /\ tele = {} /\ savedTele = {}
  /\ outboxOn = FALSE /\ outbox = <<>> /\ buffer = {}
  /\ notices = <<>> /\ seen = {} /\ dropped = {}
  /\ paid = [r \in Races |-> 0] /\ crashes = 0

-----------------------------------------------------------------------------
(* Notices *)

NextId == Len(notices) + 1

\* What becomes of the open notices of a command or a turn that ends.
Settle(fate) ==
  [i \in DOMAIN notices |->
     IF notices[i].fate = "open" THEN [notices[i] EXCEPT !.fate = fate]
     ELSE notices[i]]

Notifiable(p) == ~inTurn /\ p \in online

\* notify_player: staged while the outbox is open, else put in the buffer.
Send(p, id) ==
  IF outboxOn
  THEN outbox' = Append(outbox, <<p, id>>) /\ UNCHANGED buffer
  ELSE buffer' = buffer \cup {<<p, id>>} /\ UNCHANGED outbox

\* push_telegram: SQLite commits it at once when no transaction is open.
PushTelegrams(new) ==
  /\ tele' = tele \cup new
  /\ savedTele' = IF txn THEN savedTele ELSE tele'

\* MUTANT: the leader is told, there or not
ReceiverOrLeader(to) == IF Notifiable(to) THEN to ELSE Leader[to]
\* warn_player: the governor, else the leader of the race, else a telegram.
Receiver(to) ==
  CASE Notifiable(to) -> to
    [] ~Notifiable(to) /\ Leader[to] # to /\ Notifiable(Leader[to]) -> Leader[to]
    [] OTHER -> NoOne

Warn(to) ==
  /\ phase = "handler" /\ txn
  /\ NextId \in Ids
  /\ notices' = Append(notices, [to |-> to, kind |-> "alert", fate |-> "open"])
  /\ LET r == Receiver(to) IN
       IF r = NoOne
       THEN PushTelegrams({<<to, NextId>>}) /\ UNCHANGED <<outbox, buffer>>
       ELSE Send(r, NextId) /\ UNCHANGED <<tele, savedTele>>
  /\ UNCHANGED <<memory, online, ap, savedAp, outboxOn, seen, dropped, paid,
                 crashes>>

\* d_announce, d_broadcast, d_think, d_shout: whoever is not there misses it.
\* The server itself shouts, outside any command, when a deity comes or goes.
Talk(to) ==
  /\ (phase = "handler" /\ txn) \/ phase = "idle"
  /\ NextId \in Ids /\ Notifiable(to)
  /\ notices' = Append(notices, [to |-> to, kind |-> "talk",
                                 fate |-> IF txn THEN "open" ELSE "committed"])
  /\ Send(to, NextId)
  /\ UNCHANGED <<memory, online, tables, outboxOn, seen, dropped, paid, crashes>>

-----------------------------------------------------------------------------
(* Commands *)

\* process_command looks the race up, dispatch_command checks the cost.
CannotPay(p, c) == ap[Leader[p]] < c

Refuse(p, c) ==
  /\ phase = "idle" /\ p \in online
  /\ CannotPay(p, c)
  /\ phase' = "prompt" /\ actor' = p /\ race' = "live"
  /\ UNCHANGED <<txn, cost, spent, inTurn, online, tables, output, history>>

Start(p, c) ==
  /\ phase = "idle" /\ p \in online
  /\ ~CannotPay(p, c)
  /\ phase' = "handler" /\ actor' = p /\ race' = "live"
  /\ txn' = TRUE /\ cost' = c
  /\ outboxOn' = TRUE /\ outbox' = <<>>
  /\ UNCHANGED <<spent, inTurn, online, tables, buffer, seen, dropped, history>>

\* GameObj::deduct_ap: points not there are not taken, and the handler goes on
\* or gives up.  Only the commands that have no fixed cost call it.
Deduct(n) ==
  /\ phase = "handler" /\ txn /\ cost = 0
  /\ n <= ap[Leader[actor]]
  /\ ap' = [ap EXCEPT ![Leader[actor]] = @ - n]
  /\ spent' = spent + n
  /\ UNCHANGED <<phase, actor, txn, cost, inTurn, race, online, savedAp, tele,
                 savedTele, output, history>>

\* The handler returned true: charge, COMMIT.
Succeed ==
  /\ phase = "handler" /\ txn
  /\ ap' = [ap EXCEPT ![Leader[actor]] = @ - cost]
  /\ paid' = [paid EXCEPT ![Leader[actor]] = @ + spent + cost]
  /\ savedAp' = ap' /\ savedTele' = tele
  /\ txn' = FALSE /\ spent' = 0
  /\ phase' = "flushing"
  /\ notices' = Settle("committed")
  /\ UNCHANGED <<actor, cost, inTurn, race, online, tele, output, crashes>>

\* commit_outbox closes the outbox before it delivers what was staged, and
\* hands back what could not be delivered, for push_telegram.
StagedFor(here) ==
  {outbox[i] : i \in {j \in DOMAIN outbox : Notifiable(outbox[j][1]) = here}}

Deliver ==
  /\ phase = "flushing"
  /\ outboxOn' = FALSE /\ outbox' = <<>>
  /\ buffer' = buffer \cup StagedFor(TRUE)
  /\ PushTelegrams(StagedFor(FALSE))
  /\ phase' = "prompt"
  /\ UNCHANGED <<actor, txn, cost, spent, inTurn, race, online, ap, savedAp, seen,
                 dropped, history>>

\* MUTANT: what the handler spent is not taken back
KeptAP == ap
\* The handler returned false: roll the outbox and the transaction back,
\* which also empties the entity cache the race pointer points into.
RestoredAP == savedAp
RestoredTelegrams == savedTele

Fail ==
  /\ phase = "handler" /\ txn
  /\ outboxOn' = FALSE /\ outbox' = <<>>
  /\ ap' = RestoredAP /\ savedAp' = ap'
  /\ tele' = RestoredTelegrams /\ savedTele' = tele'
  /\ race' = "dangling"
  /\ txn' = FALSE /\ spent' = 0
  /\ phase' = "prompt"
  /\ notices' = Settle("discarded")
  /\ UNCHANGED <<actor, cost, inTurn, online, buffer, seen, dropped, paid, crashes>>

\* do_prompt reads the race (in JSON mode), then the pointer is cleared.
Prompt ==
  /\ phase = "prompt"
  /\ phase' = "idle" /\ actor' = NoOne /\ race' = "null" /\ cost' = 0
  /\ UNCHANGED <<txn, spent, inTurn, online, tables, output, history>>

-----------------------------------------------------------------------------
(* Turns: from the timer, or as the one handler that has no transaction *)

StartTurn ==
  /\ phase = "idle"
  /\ phase' = "turn" /\ inTurn' = TRUE
  /\ \/ actor' = NoOne /\ UNCHANGED race
     \/ actor' \in online /\ race' = "live"     \* @@update, @@segment
  /\ UNCHANGED <<txn, cost, spent, online, tables, output, history>>

\* Whatever a turn has to say it says by telegram.
TurnTelegram(to) ==
  /\ phase = "turn"
  /\ NextId \in Ids
  /\ notices' = Append(notices, [to |-> to, kind |-> "turn", fate |-> "open"])
  /\ PushTelegrams({<<to, NextId>>})
  /\ UNCHANGED <<memory, online, ap, savedAp, output, paid, crashes>>

\* do_turn ends with clear_cache.
EndTurn ==
  /\ phase = "turn"
  /\ inTurn' = FALSE
  /\ phase' = IF actor = NoOne THEN "idle" ELSE "prompt"
  /\ race' = IF actor = NoOne THEN race ELSE "dangling"
  /\ notices' = Settle("committed")
  /\ UNCHANGED <<actor, txn, cost, spent, online, tables, output, paid, crashes>>

-----------------------------------------------------------------------------
(* Connections, and the end of the process *)

Mine(p) == {m \in buffer : m[1] = p}

Connect(p) ==
  /\ phase = "idle" /\ p \notin online
  /\ online' = online \cup {p}
  /\ UNCHANGED <<memory, output, tables, history>>

\* Server::flush_all and the asynchronous writes that follow.
Write(p) ==
  /\ phase = "idle" /\ Mine(p) # {}
  /\ seen' = seen \cup Mine(p)
  /\ buffer' = buffer \ Mine(p)
  /\ UNCHANGED <<memory, online, tables, outboxOn, outbox, dropped, history>>

\* quit, idle timeout, overflow or a network error, then reaped: what was not
\* written yet is written as far as the socket lets it.
Disconnect(p) ==
  /\ phase = "idle" /\ p \in online
  /\ online' = online \ {p}
  /\ buffer' = buffer \ Mine(p)
  /\ \/ seen' = seen \cup Mine(p) /\ UNCHANGED dropped
     \/ dropped' = dropped \cup Mine(p) /\ UNCHANGED seen
  /\ UNCHANGED <<memory, tables, outboxOn, outbox, history>>

\* Also an exception out of a handler: dispatch_command rolls back and
\* rethrows it, and nothing up to main catches it.
Crash ==
  /\ crashes < MaxCrashes
  /\ crashes' = crashes + 1
  /\ dropped' = dropped \cup buffer
                  \cup (IF phase = "flushing"
                        THEN {outbox[i] : i \in DOMAIN outbox} ELSE {})
  /\ phase' = "idle" /\ actor' = NoOne /\ txn' = FALSE /\ cost' = 0 /\ spent' = 0
  /\ inTurn' = FALSE /\ race' = "null" /\ online' = {}
  /\ ap' = savedAp /\ tele' = savedTele
  /\ outboxOn' = FALSE /\ outbox' = <<>> /\ buffer' = {}
  /\ notices' = Settle("discarded")
  /\ UNCHANGED <<savedAp, savedTele, seen, paid>>

-----------------------------------------------------------------------------
DispatchNext ==
  \/ \E p \in People :
       \/ Warn(p) \/ Talk(p) \/ TurnTelegram(p)
       \/ Connect(p) \/ Disconnect(p) \/ Write(p)
       \/ \E c \in Costs : Start(p, c) \/ Refuse(p, c)
  \/ \E n \in Fees : Deduct(n)
  \/ Succeed \/ Deliver \/ Fail \/ Prompt
  \/ StartTurn \/ EndTurn \/ Crash

DispatchSpec == DispatchInit /\ [][DispatchNext]_dispatch_vars

-----------------------------------------------------------------------------
(* Properties *)

Fates == {"open", "committed", "discarded"}
Messages == People \X Ids

\* Types; action points are an unsigned count and never go below zero.
DispatchTypeOK ==
  /\ phase \in {"idle", "handler", "flushing", "prompt", "turn"}
  /\ actor \in People \cup {NoOne}
  /\ {txn, inTurn, outboxOn} \subseteq BOOLEAN
  /\ cost \in Costs \cup {0} /\ spent \in 0..StartAP
  /\ race \in {"null", "live", "dangling"}
  /\ online \subseteq People
  /\ {ap, savedAp, paid} \subseteq [Races -> 0..StartAP]
  /\ UNION {tele, savedTele, buffer, seen, dropped} \subseteq Messages
  /\ \A i \in DOMAIN outbox : outbox[i] \in Messages
  /\ \A i \in DOMAIN notices :
       notices[i] \in [to : People, kind : {"alert", "talk", "turn"}, fate : Fates]
  /\ crashes \in 0..MaxCrashes

\* Nobody is told, on screen or by telegram, of something a command did
\* that was then taken back.
NoPhantomNotice ==
  \A m \in buffer \cup seen \cup dropped \cup savedTele :
    notices[m[2]].kind # "turn" => notices[m[2]].fate = "committed"

\* The alert of a command that went through is somewhere: on its way to the
\* governor it was for or to the leader of the race, or in the telegrams.
AlertAccounted ==
  \A i \in DOMAIN notices :
    notices[i].kind = "alert" /\ notices[i].fate = "committed" =>
      \/ <<notices[i].to, i>> \in savedTele
      \/ \E p \in {notices[i].to, Leader[notices[i].to]} :
           \/ <<p, i>> \in buffer \cup seen \cup dropped
           \/ phase = "flushing" /\ \E j \in DOMAIN outbox : outbox[j] = <<p, i>>

\* What is told is true, and what happened is told: the two sides of the outbox,
\* through retries, turns and crashes.
NoticesAccounted == DispatchTypeOK /\ NoPhantomNotice /\ AlertAccounted

\* What the handler that runs has taken from race r so far.
Running(r) == IF phase = "handler" /\ r = Leader[actor] THEN spent ELSE 0

\* Points that are gone paid for commands that succeeded, through failures,
\* turns and crashes: what a handler spent before its command failed, or the
\* process died, is there again, and nothing but a running handler's spending
\* is between the points a race sees and the committed ones.
APAccounted ==
  \A r \in Races : /\ savedAp[r] + paid[r] = StartAP
                   /\ savedAp[r] = ap[r] + Running(r)

\* -- Stated in the repository, refuted by the model (README, disagreements) --

\* gameobj.cppm: GameObj::race is "valid during command execution"; the
\* prompt that ends the execution reads it.
PromptReadsLiveRace == phase = "prompt" => race = "live"

\* ARCHITECTURE.md: alerts "are never dropped".
AlertsNeverDropped ==
  \A m \in dropped :
    notices[m[2]].kind = "alert" => <<notices[m[2]].to, m[2]>> \in savedTele
=============================================================================
