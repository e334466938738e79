------------------------------ MODULE Sessions ------------------------------
(***************************************************************************)
(* The server's sessions: connections that are accepted, log in, send      *)
(* lines, and are dropped; the pass of the timer that runs their commands  *)
(* and reaps the dropped ones (server.cc, session.cc, auth.cc); and the    *)
(* commands that act on sessions: emulate, revoke, @@update, @@shutdown,   *)
(* quit.  Everything runs on one thread: callbacks of the network come     *)
(* between passes, never inside one.                                       *)
(*                                                                         *)
(* A governor is one (player, governor) pair.  A line is counted, not      *)
(* read: the command it holds is chosen when it runs.  Output is whether   *)
(* there is any, and how many blocks wait for a slow client.               *)
(***************************************************************************)
EXTENDS Integers, FiniteSets

CONSTANTS
  Conn,       \* connections
  Governor, NoOne,
  Leader,     \* each governor's race leader, who may revoke the others
  Deity,      \* the deity's leader
  MaxInput,   \* MAX_INPUT_QUEUE_SIZE
  Burst,      \* COMMAND_BURST_SIZE
  MaxWrite    \* MAX_WRITE_QUEUE_SIZE, in blocks

ASSUME SessionsAssumption ==
  /\ NoOne \notin Governor /\ Deity \in Governor
  /\ Leader \in [Governor -> Governor] /\ Leader[Deity] = Deity
  /\ MaxInput \in Nat \ {0} /\ Burst \in Nat \ {0} /\ MaxWrite \in Nat

VARIABLES
  appointed,  \* governors their race has
  sessions,   \* sessions_: the connections the server knows
  s,          \* connection -> its Session
  backlog,    \* accepted connections whose handler is still queued
  pass,       \* process_commands is running
  todo,       \* sessions this pass has not reached
  cursor,     \* the session whose commands it is running
  stopping,   \* shutdown_flag_
  listening,  \* acceptor and timer are armed
  process,    \* "running", "exited", "threw" or "undefined"
  shouted     \* the connections whose departure the last step announced

session_vars == <<appointed, sessions, s, backlog, pass, todo, cursor, stopping, listening,
          process, shouted>>

Session == [dead : BOOLEAN, user : Governor \cup {NoOne}, god : BOOLEAN,
            deity : BOOLEAN,      \* history: logged in as the deity
            emulates : BOOLEAN,   \* history
            lines : 0..MaxInput, quota : 0..Burst, out : BOOLEAN, unsent : 0..MaxWrite + 1]

Fresh == [dead |-> FALSE, user |-> NoOne, god |-> FALSE, deity |-> FALSE, emulates |-> FALSE,
          lines |-> 0, quota |-> Burst, out |-> FALSE, unsent |-> 0]

Running == process = "running"
Quiet == Running /\ ~pass
Live(c) == c \in sessions /\ ~s[c].dead
Connected(c) == s[c].user # NoOne

SessionsInit ==
  /\ appointed = Governor
  /\ sessions = {}
  /\ s = [c \in Conn |-> Fresh]
  /\ backlog = {}
  /\ pass = FALSE /\ todo = {} /\ cursor = NoOne
  /\ stopping = FALSE /\ listening = TRUE
  /\ process = "running"
  /\ shouted = {}

-----------------------------------------------------------------------------
(* Network callbacks *)

BetweenPasses == UNCHANGED <<appointed, pass, todo, cursor, stopping, listening, process>>

(* do_accept tries at once, so the next connection may be accepted while   *)
(* the handler that will insert it waits its turn.                         *)
Accept(c) ==
  /\ Quiet /\ listening /\ backlog = {}
  /\ c \notin sessions
  /\ backlog' = {c} /\ shouted' = {}
  /\ BetweenPasses /\ UNCHANGED <<sessions, s>>

(* the handler inserts the session, whether or not the server is stopping *)
Welcome(c) ==
  /\ Quiet /\ c \in backlog
  /\ backlog' = {} /\ shouted' = {}
  /\ sessions' = sessions \cup {c}
  /\ s' = [s EXCEPT ![c] = Fresh]
  /\ BetweenPasses

(* enqueue_complete_lines: a line too many drops the client *)
Enqueued(x) == IF x.lines >= MaxInput THEN [x EXCEPT !.dead = TRUE]
               ELSE [x EXCEPT !.lines = @ + 1]

ReadLine(c) ==
  /\ Quiet /\ Live(c)
  /\ s' = [s EXCEPT ![c] = Enqueued(@)] /\ shouted' = {}
  /\ BetweenPasses /\ UNCHANGED <<sessions, backlog>>

(* the read or the write fails: the client is gone *)
HangUp(c) ==
  /\ Quiet /\ Live(c)
  /\ s' = [s EXCEPT ![c].dead = TRUE]
  /\ shouted' = {}
  /\ BetweenPasses /\ UNCHANGED <<sessions, backlog>>

(* a write completes *)
Drain(c) ==
  /\ Quiet /\ Live(c) /\ s[c].unsent > 0
  /\ s' = [s EXCEPT ![c].unsent = @ - 1]
  /\ shouted' = {}
  /\ BetweenPasses /\ UNCHANGED <<sessions, backlog>>

-----------------------------------------------------------------------------
(* Reaping and flushing, of a table t of sessions *)

\* MUTANT: only sessions that never logged in are erased
NeverConnected(t) == {c \in sessions : t[c].dead /\ t[c].user = NoOne}
Reapable(t) == {c \in sessions : t[c].dead}
Announced(t) == IF stopping' THEN {} ELSE {c \in Reapable(t) : t[c].god}

(* d_shout reaches everyone appointed but the deity who enters or departs *)
Shouted(t) ==
  [c \in Conn |-> [t[c] EXCEPT !.out = @ \/ (~t[c].dead /\ t[c].user \in appointed \ {Deity})]]

(* reap_disconnected_sessions *)
Reap(t) ==
  LET kept == [c \in Conn |-> IF c \in Reapable(t) THEN Fresh ELSE t[c]]
  IN  /\ sessions' = sessions \ Reapable(t)
      /\ shouted' = Announced(t)
      /\ s' = IF Announced(t) = {} THEN kept ELSE Shouted(kept)

(* flush_to_network *)
FlushedOne(x) ==
  IF x.dead \/ ~x.out THEN x
  ELSE IF x.unsent > MaxWrite THEN [x EXCEPT !.dead = TRUE, !.out = FALSE]
  ELSE [x EXCEPT !.out = FALSE, !.unsent = @ + 1]

(* what each session of the table becomes *)
Each(t, F(_)) == [c \in Conn |-> IF c \in sessions THEN F(t[c]) ELSE t[c]]
Flushed(t) == Each(t, FlushedOne)
Dropped(x) == [x EXCEPT !.dead = TRUE, !.out = FALSE]
Notified(x) == [x EXCEPT !.out = @ \/ (~x.dead /\ x.user # NoOne)]

-----------------------------------------------------------------------------
(* The pass: on_timer = update_quotas, process_commands, check_idle_sessions *)

Refill(q) == IF q < Burst THEN q + 1 ELSE q

(* slice: a time slice has ended since the last refill *)
Tick(slice) ==
  /\ Quiet /\ listening /\ UNCHANGED stopping
  /\ Reap(IF slice THEN Each(s, LAMBDA x : [x EXCEPT !.quota = Refill(@)]) ELSE s)
  /\ pass' = TRUE /\ todo' = sessions' /\ cursor' = NoOne
  /\ UNCHANGED <<appointed, backlog, listening, process>>

Visit(c) ==
  /\ Running /\ pass /\ cursor = NoOne /\ c \in todo
  /\ cursor' = c /\ todo' = todo \ {c} /\ shouted' = {}
  /\ UNCHANGED <<appointed, sessions, s, backlog, pass, stopping, listening, process>>

HasTurn(c) == ~s[c].dead /\ s[c].quota > 0 /\ s[c].lines > 0

Leave ==
  /\ Running /\ pass /\ cursor # NoOne /\ ~HasTurn(cursor)
  /\ cursor' = NoOne /\ shouted' = {}
  /\ UNCHANGED <<appointed, sessions, s, backlog, pass, todo, stopping, listening, process>>

(* shutdown(): stop accepting and ticking, drop everyone *)
Close == Reap(Each(s, Dropped)) /\ listening' = FALSE

(* SIGINT or SIGTERM *)
Signal ==
  /\ Quiet /\ listening
  /\ stopping' = TRUE
  /\ Close
  /\ UNCHANGED <<appointed, backlog, pass, todo, cursor, process>>

(* Flush everyone and drop the idle; or, after a shutdown command, close. *)
EndPass ==
  /\ Running /\ pass /\ cursor = NoOne /\ todo = {}
  /\ pass' = FALSE /\ UNCHANGED stopping
  /\ IF stopping
     THEN Close
     ELSE /\ \E idle \in SUBSET {c \in sessions : Connected(c) /\ s[c].lines = 0} :
               Reap([c \in Conn |-> IF c \in idle THEN Dropped(Flushed(s)[c])
                                    ELSE Flushed(s)[c]])
          /\ UNCHANGED listening
  /\ UNCHANGED <<appointed, backlog, todo, cursor, process>>

-----------------------------------------------------------------------------
(* One command.  Taken(c) is the session once its line is popped and paid  *)
(* for; every command answers something.                                   *)
Taken(c) == [s[c] EXCEPT !.lines = @ - 1, !.quota = @ - 1, !.out = TRUE]
Turn(c) == Running /\ pass /\ cursor = c /\ HasTurn(c) /\ shouted' = {}
InPass == UNCHANGED <<sessions, backlog, pass, todo, cursor, listening>>

\* MUTANT: the second login is not looked for
NobodyConnected(g) == FALSE
IsConnected(g) == \E c \in sessions : ~s[c].dead /\ s[c].user = g

(* check_connect; a refused client is dropped after its Goodbye *)
Login(c) ==
  /\ Turn(c) /\ ~Connected(c)
  /\ \/ \E g \in appointed :
          /\ ~IsConnected(g)
          /\ LET entered == [s EXCEPT ![c] = [Taken(c) EXCEPT !.user = g, !.god = g = Deity,
                                                              !.deity = g = Deity]]
             IN  s' = IF g = Deity THEN Shouted(entered) ELSE entered
     \/ s' = [s EXCEPT ![c] = Dropped(Taken(c))]
  /\ InPass /\ UNCHANGED <<appointed, stopping, process>>

(* a command that reads current_governor(): the exception of one who is    *)
(* not appointed leaves the event loop                                     *)
UseGovernor(c) ==
  /\ Turn(c) /\ Connected(c)
  /\ s' = [s EXCEPT ![c] = Taken(c)]
  /\ process' = IF s[c].user \in appointed THEN process ELSE "threw"
  /\ InPass /\ UNCHANGED <<appointed, stopping>>

(* a notice to another session *)
Tell(c, d) ==
  /\ Turn(c) /\ Connected(c) /\ c # d
  /\ Live(d) /\ Connected(d)
  /\ s' = [s EXCEPT ![c] = Taken(c), ![d].out = TRUE]
  /\ InPass /\ UNCHANGED <<appointed, stopping, process>>

Quit(c) ==
  /\ Turn(c) /\ Connected(c)
  /\ s' = [s EXCEPT ![c] = Dropped(Taken(c))]
  /\ InPass /\ UNCHANGED <<appointed, stopping, process>>

Emulating(x, g) == [x EXCEPT !.user = g, !.god = FALSE, !.emulates = TRUE]

Emulate(c, g) ==
  /\ Turn(c) /\ s[c].god /\ g \in appointed
  /\ s' = [s EXCEPT ![c] = Emulating(Taken(c), g)]
  /\ InPass /\ UNCHANGED <<appointed, stopping, process>>

(* the leader appoints a governor, or revokes one; the sessions of the     *)
(* governor revoked are left alone                                         *)
Commands(c, g) == Connected(c) /\ Leader[g] = s[c].user /\ g # s[c].user

Appoint(c, g) ==
  /\ Turn(c) /\ Commands(c, g)
  /\ appointed' = appointed \cup {g}
  /\ s' = [s EXCEPT ![c] = Taken(c)]
  /\ InPass /\ UNCHANGED <<stopping, process>>

Revoke(c, g) ==
  /\ Turn(c) /\ Commands(c, g) /\ g \in appointed
  /\ appointed' = appointed \ {g}
  /\ s' = [s EXCEPT ![c] = Taken(c)]
  /\ InPass /\ UNCHANGED <<stopping, process>>

(* only the flag: the pass goes on with the other sessions *)
Shutdown(c) ==
  /\ Turn(c) /\ s[c].god
  /\ stopping' = TRUE
  /\ s' = [s EXCEPT ![c] = Taken(c)]
  /\ InPass /\ UNCHANGED <<appointed, process>>

(* @@update flushes everyone, announces the update to all, flushes them    *)
(* again, runs the turn and announces its end.  Both flushes reap: if the  *)
(* deity's own client is too slow its session is erased while              *)
(* process_commands iterates over it.                                      *)
TurnByDeity(c) ==
  LET popped == [s EXCEPT ![c].lines = @ - 1, ![c].quota = @ - 1]
      t == Flushed(Each(Flushed(popped), Notified))
      after == Each(t, Notified)
  IN  /\ Running /\ pass /\ cursor = c /\ HasTurn(c) /\ s[c].god
      /\ UNCHANGED stopping /\ Reap(after)
      /\ todo' = todo \ Reapable(after)
      /\ process' = IF t[c].dead THEN "undefined" ELSE process
      /\ UNCHANGED <<appointed, backlog, pass, cursor, listening>>

Command(c) ==
  \/ Login(c) \/ UseGovernor(c) \/ Quit(c) \/ Shutdown(c) \/ TurnByDeity(c)
  \/ \E d \in Conn : Tell(c, d)
  \/ \E g \in Governor : Emulate(c, g) \/ Appoint(c, g) \/ Revoke(c, g)

-----------------------------------------------------------------------------
(* io_context::run returns when nothing is pending *)
Exit ==
  /\ Quiet /\ ~listening /\ backlog = {} /\ sessions = {}
  /\ process' = "exited" /\ shouted' = {}
  /\ UNCHANGED <<appointed, sessions, s, backlog, pass, todo, cursor, stopping, listening>>

SessionsNext ==
  \/ \E c \in Conn : Accept(c) \/ Welcome(c) \/ ReadLine(c) \/ HangUp(c) \/ Drain(c)
  \/ \E slice \in BOOLEAN : Tick(slice)
  \/ \E c \in Conn : Visit(c) \/ Command(c)
  \/ Leave \/ EndPass \/ Signal \/ Exit

(* A pass is one call that runs to its end; the timer keeps firing and, in *)
(* time, slices end.  Clients owe nothing.                                 *)
Fairness ==
  /\ SF_session_vars(Tick(TRUE))
  /\ WF_session_vars(\E c \in Conn : Visit(c) \/ Command(c))
  /\ WF_session_vars(Leave) /\ WF_session_vars(EndPass) /\ WF_session_vars(Exit)

SessionsSpec == SessionsInit /\ [][SessionsNext]_session_vars
SessionsFairSpec == SessionsSpec /\ Fairness

-----------------------------------------------------------------------------
SessionsTypeOK ==
  /\ appointed \subseteq Governor
  /\ sessions \subseteq Conn /\ s \in [Conn -> Session]
  /\ backlog \subseteq Conn \ sessions
  /\ pass \in BOOLEAN /\ todo \subseteq sessions /\ cursor \in Conn \cup {NoOne}
  /\ stopping \in BOOLEAN /\ listening \in BOOLEAN
  /\ process \in {"running", "exited", "threw", "undefined"}
  /\ shouted \subseteq Conn \ sessions

(* Two open sessions act for the same governor only if a deity emulates    *)
(* him: check_connect refuses the second login, and a session that was     *)
(* dropped but not reaped does not count.                                  *)
OneLogin ==
  \A c, d \in sessions :
    c # d /\ Live(c) /\ Live(d) /\ Connected(c) /\ s[c].user = s[d].user
      => s[c].emulates \/ s[d].emulates

(* A session with the deity's rights acts for the deity: emulate gives     *)
(* them up for good with the name.                                         *)
GodOnlyAsDeity == \A c \in sessions : s[c].god => s[c].user = Deity

(* Nobody acts with a name or with rights that are not his, through logins *)
(* side by side, emulation, revocations and dropped connections.           *)
LoginsSound == SessionsTypeOK /\ OneLogin /\ GodOnlyAsDeity

(* A full queue of lines is worked off: quotas are refilled and every      *)
(* session is visited, whatever the other sessions send, as long as the    *)
(* server listens.                                                         *)
BacklogDrains ==
  \A c \in Conn :
    (Live(c) /\ s[c].lines = MaxInput)
      ~> (~Live(c) \/ s[c].lines < MaxInput \/ ~Running \/ ~listening)

(* A dropped client's session is reaped, logged in or not. *)
ReapedEventually ==
  \A c \in Conn : (c \in sessions /\ s[c].dead) ~> (c \notin sessions \/ ~Running \/ ~listening)

(* Nobody waits for ever: neither a client for his lines nor the server for *)
(* a client that is gone.                                                    *)
SessionsProgress == BacklogDrains /\ ReapedEventually

(* Stated in the repository, refuted by the model (README, disagreements) *)

(* Sessions are flushed after the commands (session.cppm:61), so the       *)
(* session whose commands are run is still one of the server's.            *)
CursorIsKept == cursor # NoOne => cursor \in sessions

(* current_governor returns "the active governor's entry"                  *)
(* (gameobj.cppm:127): no command finds there is none.                     *)
GovernorIsActive == process # "threw"

(* "When the Deity connects to or disconnects from the server, a           *)
(* galaxy-wide announcement is broadcast" (docs/diplomacy.md:238).         *)
DeityDepartureAnnounced ==
  [][\A c \in sessions \ sessions' : s[c].deity /\ ~stopping' => c \in shouted']_session_vars

(* "Handle signals for graceful shutdown" (server.cc:32): once a shutdown  *)
(* is asked for, the event loop returns and the process ends.              *)
ShutdownCompletes == stopping ~> ~Running

=============================================================================
