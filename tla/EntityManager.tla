---------------------------- MODULE EntityManager ----------------------------
(***************************************************************************)
(* The unit-of-work of the game: services/entity_manager.{cppm,cc} over    *)
(* one SQLite connection.  Entities are cached by id, handed out as        *)
(* reference-counted handles that save on release, written at once inside  *)
(* a command's SQL transaction or kept back until the end of a turn, and   *)
(* deleted only when nobody holds them any more.                           *)
(*                                                                         *)
(* Two kinds of table are kept apart because their code differs: ships,    *)
(* deleted by kill_ship when their last handle goes, and commodity lots,   *)
(* deleted behind a DeletionBarrier.  Lots also stand for the tables that  *)
(* are never deleted from (races, stars, planets, ...).                    *)
(***************************************************************************)
CONSTANTS
  Ships, Commods,  \* ids of the two tables
  Values,          \* contents of a live entity
  NoRow,           \* no row and id never issued; in the cache: not cached
  Deleted,         \* no row, but the id was issued (sqlite_sequence)
  Dead,            \* a ship with alive = 0
  Slots, NoKey     \* handles that can exist at once; an empty slot

Keys == Ships \cup Commods

ASSUME StoreAssumption ==
  /\ Ships \cap Commods = {}
  /\ NoKey \notin Keys
  /\ {NoRow, Deleted, Dead} \cap Values = {}
  /\ NoRow # Deleted /\ NoRow # Dead /\ Deleted # Dead

VARIABLES
  saved,    \* the database file: what a crash or a ROLLBACK goes back to
  db,       \* the database as this connection sees it
  cache,    \* ship_cache and commod_cache
  pending,  \* pending_ship_deletions_ and pending_commod_deletions_
  held,     \* the entity each handle refers to (its count is ship_refcount)
  dirty,    \* EntityHandle::dirty
  scope,    \* "none", "command" (Transaction) or "turn" (DeferredWriteScope)
  barrier,  \* deletion_barrier_active_
  outcome   \* "running", "unwinding" (an exception) or "failed" (caught)

vars == <<saved, db, cache, pending, held, dirty, scope, barrier, outcome>>

Rows == Values \cup {NoRow, Deleted}

NoHandles == \A s \in Slots : held[s] = NoKey
LastHandle(s) == \A t \in Slots \ {s} : held[t] # held[s]
Cached(k) == cache[k] # NoRow
EmptyCache == [k \in Keys |-> NoRow]

\* What find_ship / find_by_id yields on a cache miss.
Stored(k) == IF k \in pending THEN Deleted ELSE db[k]

\* The entities as the code inside the scope sees them.
View == [k \in Keys |->
           IF k \in pending THEN Deleted
           ELSE IF Cached(k) THEN cache[k] ELSE db[k]]

Init ==
  /\ saved \in [Keys -> Values \cup {NoRow}]
  /\ db = saved
  /\ cache = EmptyCache
  /\ pending = {}
  /\ held = [s \in Slots |-> NoKey]
  /\ dirty = [s \in Slots |-> FALSE]
  /\ scope = "none"
  /\ barrier = FALSE
  /\ outcome = "running"

-----------------------------------------------------------------------------
(* Writing *)

\* Without a SQL transaction SQLite commits every statement by itself.
Write(rows) ==
  /\ db' = rows
  /\ saved' = IF scope = "command" THEN saved ELSE rows

\* The save lambda of a handle, run by ~EntityHandle.
Saves(s) ==
  /\ dirty[s] /\ outcome # "unwinding"
  /\ scope # "turn"
  /\ held[s] \notin pending

\* MUTANT: the first release frees the object the second handle still refers to
DropsWhileHeld(s) == held[s] \in pending \cap Ships /\ ~barrier
\* release_ship: the last handle of a killed ship takes the ship with it.
Drops(s) ==
  /\ held[s] \in pending \cap Ships
  /\ LastHandle(s) /\ ~barrier

-----------------------------------------------------------------------------
(* Handles *)

\* get_race and get_commod test the handle with the non-const get(), which
\* marks it dirty; get_ship does not.
Get(s, k) ==
  /\ outcome # "unwinding"
  /\ held[s] = NoKey
  /\ Cached(k) \/ Stored(k) \in Values
  /\ cache' = [cache EXCEPT ![k] = IF Cached(k) THEN @ ELSE Stored(k)]
  /\ held' = [held EXCEPT ![s] = k]
  /\ dirty' = [dirty EXCEPT ![s] = k \in Commods]
  /\ UNCHANGED <<saved, db, pending, scope, barrier, outcome>>

Peek(k) ==
  /\ outcome # "unwinding"
  /\ ~Cached(k) /\ Stored(k) \in Values
  /\ cache' = [cache EXCEPT ![k] = Stored(k)]
  /\ UNCHANGED <<saved, db, pending, held, dirty, scope, barrier, outcome>>

\* A mutation through the handle's operator* or operator->.
Change(s, v) ==
  /\ outcome # "unwinding"
  /\ held[s] # NoKey /\ cache[held[s]] # Dead
  /\ cache' = [cache EXCEPT ![held[s]] = v]
  /\ dirty' = [dirty EXCEPT ![s] = TRUE]
  /\ UNCHANGED <<saved, db, pending, held, scope, barrier, outcome>>

\* kill_ship: what it does to other entities is Change, for each of them.
Kill(s) ==
  /\ outcome # "unwinding" /\ scope # "none"
  /\ held[s] \in Ships
  /\ cache' = [cache EXCEPT ![held[s]] = Dead]
  /\ pending' = pending \cup {held[s]}
  /\ dirty' = [dirty EXCEPT ![s] = TRUE]
  /\ UNCHANGED <<saved, db, held, scope, barrier, outcome>>

\* create_ship, create_commod: the row is inserted at once, whatever the
\* scope; that is what makes its id taken.  A turn creates ships only.
Insert(k, v) == Write([db EXCEPT ![k] = v])

Create(s, k, v) ==
  /\ outcome # "unwinding" /\ scope # "none"
  /\ held[s] = NoKey
  /\ db[k] = NoRow
  /\ k \in Ships \/ scope = "command"
  /\ Insert(k, v)
  /\ pending' = pending \ {k}
  /\ cache' = [cache EXCEPT ![k] = v]
  /\ held' = [held EXCEPT ![s] = k]
  /\ dirty' = [dirty EXCEPT ![s] = k \in Commods]
  /\ UNCHANGED <<scope, barrier, outcome>>

\* ~EntityHandle: save when dirty, then give the reference back.
Release(s) ==
  /\ held[s] # NoKey
  /\ IF Saves(s) THEN Write([db EXCEPT ![held[s]] = cache[held[s]]])
     ELSE IF Drops(s) /\ scope # "turn"
          THEN Write([db EXCEPT ![held[s]] = Deleted])
          ELSE UNCHANGED <<saved, db>>
  /\ cache' = IF Drops(s) THEN [cache EXCEPT ![held[s]] = NoRow] ELSE cache
  /\ pending' = IF Drops(s) /\ scope # "turn"
                THEN pending \ {held[s]} ELSE pending
  /\ held' = [held EXCEPT ![s] = NoKey]
  /\ dirty' = [dirty EXCEPT ![s] = FALSE]
  /\ UNCHANGED <<scope, barrier, outcome>>

-----------------------------------------------------------------------------
(* Commands: Transaction *)

BeginCommand ==
  /\ scope = "none" /\ outcome = "running" /\ NoHandles
  /\ scope' = "command"
  /\ UNCHANGED <<saved, db, cache, pending, held, dirty, barrier, outcome>>

CommitCommand ==
  /\ scope = "command" /\ outcome = "running" /\ NoHandles
  /\ saved' = db
  /\ scope' = "none"
  /\ UNCHANGED <<db, cache, pending, held, dirty, barrier, outcome>>

\* MUTANT: the rows go back, the cache does not
CacheKeptAfterRollback == cache
\* The handler returned false, or an exception reached dispatch_command,
\* which rolls back and rethrows it out of the program.
CacheAfterRollback == EmptyCache

RollbackCommand ==
  /\ scope = "command" /\ NoHandles
  /\ db' = saved
  /\ cache' = CacheAfterRollback
  /\ scope' = "none"
  /\ outcome' = IF outcome = "failed" THEN "running" ELSE outcome
  /\ UNCHANGED <<saved, pending, held, dirty, barrier>>

Throw ==
  /\ scope # "none" /\ outcome = "running"
  /\ outcome' = "unwinding"
  /\ UNCHANGED <<saved, db, cache, pending, held, dirty, scope, barrier>>

\* A handler that catches an exception of a service goes on to return false.
Catch ==
  /\ scope = "command" /\ outcome = "unwinding"
  /\ outcome' = "failed"
  /\ UNCHANGED <<saved, db, cache, pending, held, dirty, scope, barrier>>

-----------------------------------------------------------------------------
(* Turns: DeferredWriteScope, and the DeletionBarrier of the market step *)

BeginTurn ==
  /\ scope = "none" /\ outcome = "running" /\ NoHandles
  /\ scope' = "turn"
  /\ UNCHANGED <<saved, db, cache, pending, held, dirty, barrier, outcome>>

OpenBarrier ==
  /\ scope = "turn" /\ outcome = "running" /\ NoHandles /\ ~barrier
  /\ barrier' = TRUE
  /\ UNCHANGED <<saved, db, cache, pending, held, dirty, scope, outcome>>

DeleteCommod(s) ==
  /\ barrier /\ outcome = "running"
  /\ held[s] \in Commods
  /\ pending' = pending \cup {held[s]}
  /\ UNCHANGED <<saved, db, cache, held, dirty, scope, barrier, outcome>>

\* MUTANT: a drain inside a turn forgets the rows it did not delete
DrainedForgets == {}
\* drain_pending_deletions inside a turn: the rows go later, with the flush.
Drained == pending

CloseBarrier ==
  /\ barrier /\ NoHandles
  /\ barrier' = FALSE
  /\ IF outcome = "unwinding"
     THEN pending' = {} /\ UNCHANGED cache
     ELSE /\ pending' = Drained
          /\ cache' = [k \in Keys |-> IF k \in pending THEN NoRow ELSE cache[k]]
  /\ UNCHANGED <<saved, db, held, dirty, scope, outcome>>

\* flush_all inside one SQL transaction, then do_turn's clear_cache.
FlushedRows == View

CommitTurn ==
  /\ scope = "turn" /\ outcome = "running" /\ NoHandles /\ ~barrier
  /\ db' = FlushedRows /\ saved' = FlushedRows
  /\ pending' = {}
  /\ cache' = EmptyCache
  /\ scope' = "none"
  /\ UNCHANGED <<held, dirty, barrier, outcome>>

\* A statement of the flush fails: ROLLBACK, forget everything, rethrow.
FlushFails ==
  /\ scope = "turn" /\ outcome = "running" /\ NoHandles /\ ~barrier
  /\ pending' = {}
  /\ cache' = EmptyCache
  /\ scope' = "none"
  /\ outcome' = "unwinding"
  /\ UNCHANGED <<saved, db, held, dirty, barrier>>

RollbackTurn ==
  /\ scope = "turn" /\ outcome = "unwinding" /\ NoHandles /\ ~barrier
  /\ pending' = {}
  /\ cache' = EmptyCache
  /\ scope' = "none"
  /\ UNCHANGED <<saved, db, held, dirty, barrier, outcome>>

\* The process ends, by a crash or by an exception nobody catches (main and
\* the asio loop have no handler), and is started again on the same file.
Crash ==
  /\ db' = saved
  /\ UNCHANGED saved
  /\ cache' = EmptyCache
  /\ pending' = {}
  /\ held' = [s \in Slots |-> NoKey]
  /\ dirty' = [s \in Slots |-> FALSE]
  /\ scope' = "none"
  /\ barrier' = FALSE
  /\ outcome' = "running"

-----------------------------------------------------------------------------
Next ==
  \/ \E s \in Slots :
       \/ \E k \in Keys : Get(s, k)
       \/ \E k \in Keys, v \in Values : Create(s, k, v)
       \/ \E v \in Values : Change(s, v)
       \/ Kill(s) \/ DeleteCommod(s) \/ Release(s)
  \/ \E k \in Keys : Peek(k)
  \/ BeginCommand \/ CommitCommand \/ RollbackCommand \/ Throw \/ Catch
  \/ BeginTurn \/ OpenBarrier \/ CloseBarrier
  \/ CommitTurn \/ FlushFails \/ RollbackTurn
  \/ Crash

Spec == Init /\ [][Next]_vars

-----------------------------------------------------------------------------
(* Properties *)

\* Every variable stays in its type; no row of the database, committed or
\* not, holds a dead ship (its table CHECKs alive = 1, so a save would throw).
TypeOK ==
  /\ saved \in [Keys -> Rows]
  /\ db \in [Keys -> Rows]
  /\ cache \in [Keys -> Values \cup {NoRow, Dead}]
  /\ pending \subseteq Keys
  /\ held \in [Slots -> Keys \cup {NoKey}]
  /\ dirty \in [Slots -> BOOLEAN]
  /\ scope \in {"none", "command", "turn"}
  /\ barrier \in BOOLEAN
  /\ outcome \in {"running", "unwinding", "failed"}

\* A handle never points at an entity that release_ship, a rollback, the
\* drain or clear_cache has freed.
NoDangling == \A s \in Slots : held[s] # NoKey => Cached(held[s])

\* Whatever is cached has its row: an id given out by create_ship is taken,
\* so no second create can replace a cached ship somebody is using.
CachedHasRow == \A k \in Keys : Cached(k) => db[k] \in Values

\* Between two scopes nothing is left over: no deletion waits for a later
\* command to trip over it, memory agrees with the file.
AtRest ==
  scope = "none" /\ NoHandles =>
    /\ pending = {}
    /\ db = saved
    /\ \A k \in Keys : Cached(k) => cache[k] = db[k]

\* The store behaves as AtomicStore: a command or a turn takes effect as a
\* whole or not at all, the rows it created during a turn excepted; a killed
\* ship or a sold lot does not come back; no id is used twice.
Open == scope # "none" /\ outcome = "running"
Draft == IF Open THEN View ELSE saved
Store == INSTANCE AtomicStore WITH world <- saved, draft <- Draft, open <- Open
StoreIsAtomic == Store!Spec

\* -- Stated in the repository, refuted by the model (README, disagreements) --

\* The claim of .github/skills/entity-manager-access/SKILL.md: during a turn
\* nothing reaches the file before the scope's own transaction.
TurnIsAtomic ==
  [][scope = "turn" /\ scope' = "turn" => saved' = saved]_vars
=============================================================================
