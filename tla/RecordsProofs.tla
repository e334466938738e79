---------------------------- MODULE RecordsProofs ----------------------------
(***************************************************************************)
(* What reaches the database.  EntityManager, for any set of ids, contents *)
(* and handles: the safety invariants of its run, and that the store is    *)
(* atomic.  Enrolment, for any galaxy, any presets and any number of       *)
(* enrolments: the rows of the two tools come in the order in which they   *)
(* need one another, and every race obeys the rules and the budget.        *)
(***************************************************************************)
EXTENDS EntityManager, Enrolment, SumTheorems, TLAPS


\* Only a command's transaction holds writes back from the file.
WritesReachFile == scope # "command" => db = saved

\* Outside a turn a cached entity differs from its row only while somebody
\* will still save it, delete it, or roll everything back.
Coherent ==
  \A k \in Keys :
    Cached(k) /\ cache[k] # db[k] =>
      \/ scope = "turn"
      \/ scope = "command" /\ outcome # "running"
      \/ k \in pending
      \/ \E s \in Slots : held[s] = k /\ dirty[s]

\* Outside a turn a pending deletion belongs to a ship somebody holds.
PendingIsHeld ==
  /\ scope = "none" => pending = {}
  /\ scope = "command" =>
       \A k \in pending : k \in Ships /\ \E s \in Slots : held[s] = k

\* A dead ship is cached only while its deletion is pending.
DeadIsPending ==
  \A k \in Keys : cache[k] = Dead =>
    \/ k \in pending
    \/ scope = "turn" /\ outcome = "unwinding"

\* A deletion can only wait for a row that is still there.
PendingHasRow == \A k \in pending : db[k] \in Values

\* Which scopes, barriers and exceptions go together.
Control ==
  /\ barrier => scope = "turn"
  /\ outcome = "failed" => scope = "command"
  /\ scope = "none" /\ outcome = "unwinding" => NoHandles

IInv ==
  /\ TypeOK /\ NoDangling /\ CachedHasRow
  /\ WritesReachFile /\ Coherent /\ PendingIsHeld /\ DeadIsPending
  /\ PendingHasRow /\ Control

-----------------------------------------------------------------------------
(* The invariant *)

LEMMA GetStep ==
  ASSUME IInv, NEW s \in Slots, NEW k \in Keys, Get(s, k)
  PROVE  IInv'
<1>1. TypeOK'
  BY DEF IInv, TypeOK, Get
<1>2. NoDangling'
  BY StoreAssumption DEF IInv, TypeOK, NoDangling, Get, Cached
<1>3. CachedHasRow'
  BY DEF IInv, CachedHasRow, PendingHasRow, Get, Stored, Cached
<1>4. Coherent'
  BY StoreAssumption DEF IInv, Coherent, Get, Stored, Cached
<1>5. PendingIsHeld'
  BY StoreAssumption DEF IInv, PendingIsHeld, Get, Keys
<1>6. DeadIsPending'
  BY StoreAssumption DEF IInv, DeadIsPending, Get
<1>7. Control'
  BY DEF IInv, Control, Get
<1>8. WritesReachFile' /\ PendingHasRow'
  BY DEF IInv, WritesReachFile, PendingHasRow, Get
<1> QED BY <1>1, <1>2, <1>3, <1>4, <1>5, <1>6, <1>7, <1>8 DEF IInv

LEMMA PeekStep ==
  ASSUME IInv, NEW k \in Keys, Peek(k)
  PROVE  IInv'
<1>1. TypeOK'
  BY DEF IInv, TypeOK, Peek
<1>2. NoDangling'
  BY DEF IInv, NoDangling, Peek, Cached
<1>3. CachedHasRow'
  BY DEF IInv, CachedHasRow, PendingHasRow, Peek, Stored, Cached
<1>4. Coherent'
  BY DEF IInv, Coherent, Peek, Stored, Cached
<1>5. DeadIsPending'
  BY StoreAssumption DEF IInv, DeadIsPending, Peek
<1>6. WritesReachFile' /\ PendingIsHeld' /\ PendingHasRow' /\ Control'
  BY DEF IInv, WritesReachFile, PendingIsHeld, PendingHasRow, Control, Peek
<1> QED BY <1>1, <1>2, <1>3, <1>4, <1>5, <1>6 DEF IInv

LEMMA ChangeStep ==
  ASSUME IInv, NEW s \in Slots, NEW v \in Values, Change(s, v)
  PROVE  IInv'
<1>1. TypeOK'
  BY DEF IInv, TypeOK, Change
<1>2. NoDangling'
  BY StoreAssumption DEF IInv, NoDangling, Change, Cached
<1>3. CachedHasRow'
  BY DEF IInv, NoDangling, CachedHasRow, Change, Cached
<1>4. Coherent'
  BY DEF IInv, TypeOK, Coherent, Change, Cached
<1>5. DeadIsPending'
  BY StoreAssumption DEF IInv, DeadIsPending, Change
<1>6. WritesReachFile' /\ PendingIsHeld' /\ PendingHasRow' /\ Control'
  BY DEF IInv, WritesReachFile, PendingIsHeld, PendingHasRow, Control, Change
<1> QED BY <1>1, <1>2, <1>3, <1>4, <1>5, <1>6 DEF IInv

LEMMA KillStep ==
  ASSUME IInv, NEW s \in Slots, Kill(s)
  PROVE  IInv'
<1>1. TypeOK'
  BY DEF IInv, TypeOK, Kill, Keys
<1>2. NoDangling'
  BY StoreAssumption DEF IInv, NoDangling, Kill, Cached
<1>3. CachedHasRow'
  BY StoreAssumption DEF IInv, NoDangling, CachedHasRow, Kill, Cached
<1>4. Coherent'
  BY DEF IInv, Coherent, Kill, Cached
<1>5. PendingIsHeld'
  BY DEF IInv, PendingIsHeld, Kill
<1>6. DeadIsPending'
  BY DEF IInv, DeadIsPending, Kill
<1>7. PendingHasRow'
  BY StoreAssumption DEF IInv, NoDangling, CachedHasRow, PendingHasRow, Kill, Keys
<1>8. WritesReachFile' /\ Control'
  BY DEF IInv, WritesReachFile, Control, Kill
<1> QED BY <1>1, <1>2, <1>3, <1>4, <1>5, <1>6, <1>7, <1>8 DEF IInv

LEMMA CreateStep ==
  ASSUME IInv, NEW s \in Slots, NEW k \in Keys, NEW v \in Values, Create(s, k, v)
  PROVE  IInv'
<1>1. TypeOK'
  BY DEF IInv, TypeOK, Rows, Create, Insert, Write
<1>2. NoDangling'
  BY StoreAssumption DEF IInv, TypeOK, NoDangling, Create, Cached
<1>3. CachedHasRow'
  BY DEF IInv, TypeOK, CachedHasRow, Create, Insert, Write, Cached
<1>4. WritesReachFile'
  BY DEF WritesReachFile, Create, Insert, Write
<1>5. Coherent'
  BY StoreAssumption DEF IInv, TypeOK, Coherent, Create, Insert, Write, Cached
<1>6. PendingIsHeld'
  BY StoreAssumption DEF IInv, PendingIsHeld, Create, Keys
<1>7. DeadIsPending'
  BY StoreAssumption DEF IInv, DeadIsPending, PendingHasRow, Create
<1>8. PendingHasRow'
  BY DEF IInv, PendingHasRow, Create, Insert, Write
<1>9. Control'
  BY DEF IInv, Control, Create
<1> QED BY <1>1, <1>2, <1>3, <1>4, <1>5, <1>6, <1>7, <1>8, <1>9 DEF IInv

LEMMA ReleaseStep ==
  ASSUME IInv, NEW s \in Slots, Release(s)
  PROVE  IInv'
<1>1. TypeOK'
  BY DEF IInv, TypeOK, DeadIsPending, Rows, Release, Saves, Write
<1>2. NoDangling'
  BY DEF IInv, TypeOK, NoDangling, Release, Drops, LastHandle, Cached
<1>3. CachedHasRow'
  BY DEF IInv, TypeOK, CachedHasRow, DeadIsPending, Release, Saves, Write, Cached
<1>4. WritesReachFile'
  BY DEF IInv, WritesReachFile, Release, Write
<1>5. Coherent'
  <2> SUFFICES ASSUME NEW k \in Keys, cache'[k] # NoRow, cache'[k] # db'[k],
                      scope # "turn", ~(scope = "command" /\ outcome # "running"),
                      k \notin pending'
               PROVE  \E t \in Slots : held'[t] = k /\ dirty'[t]
    BY DEF Coherent, Release, Cached
  <2>1. cache[k] = cache'[k] /\ cache[k] # db[k] /\ k \notin pending
    BY DEF IInv, TypeOK, Release, Write
  <2>2. PICK t \in Slots : held[t] = k /\ dirty[t]
    BY <2>1 DEF IInv, Coherent, Cached
  <2>3. t # s
    BY <2>1, <2>2 DEF IInv, TypeOK, Control, Release, Saves, Write, NoHandles
  <2>4. QED BY <2>2, <2>3 DEF Release
<1>6. PendingIsHeld'
  BY DEF IInv, PendingIsHeld, Control, Release, Drops, LastHandle
<1>7. DeadIsPending'
  BY StoreAssumption DEF IInv, TypeOK, DeadIsPending, Release
<1>8. PendingHasRow'
  BY DEF IInv, TypeOK, PendingHasRow, Release, Saves, Write
<1>9. Control'
  BY DEF IInv, Control, NoHandles, Release
<1> QED BY <1>1, <1>2, <1>3, <1>4, <1>5, <1>6, <1>7, <1>8, <1>9 DEF IInv

LEMMA DeleteCommodStep ==
  ASSUME IInv, NEW s \in Slots, DeleteCommod(s)
  PROVE  IInv'
<1>1. TypeOK'
  BY DEF IInv, TypeOK, DeleteCommod, Keys
<1>2. Coherent'
  BY DEF IInv, Coherent, Control, DeleteCommod
<1>3. PendingIsHeld'
  BY DEF IInv, PendingIsHeld, Control, DeleteCommod
<1>4. DeadIsPending'
  BY DEF IInv, DeadIsPending, DeleteCommod
<1>5. PendingHasRow'
  BY StoreAssumption DEF IInv, NoDangling, CachedHasRow, PendingHasRow, DeleteCommod, Keys
<1>6. NoDangling' /\ CachedHasRow' /\ WritesReachFile' /\ Control'
  BY DEF IInv, NoDangling, CachedHasRow, WritesReachFile, Control, Cached, DeleteCommod
<1> QED BY <1>1, <1>2, <1>3, <1>4, <1>5, <1>6 DEF IInv

LEMMA BeginCommandStep ==
  ASSUME IInv, BeginCommand
  PROVE  IInv'
<1>1. TypeOK'
  BY DEF IInv, TypeOK, BeginCommand
<1>2. WritesReachFile'
  BY DEF WritesReachFile, BeginCommand
<1>3. Coherent'
  BY DEF IInv, Coherent, BeginCommand, Cached
<1>4. PendingIsHeld'
  BY DEF IInv, PendingIsHeld, BeginCommand
<1>5. DeadIsPending'
  BY DEF IInv, DeadIsPending, BeginCommand
<1>6. Control'
  BY DEF IInv, Control, BeginCommand
<1>7. NoDangling' /\ CachedHasRow' /\ PendingHasRow'
  BY DEF IInv, NoDangling, CachedHasRow, PendingHasRow, Cached, BeginCommand
<1> QED BY <1>1, <1>2, <1>3, <1>4, <1>5, <1>6, <1>7 DEF IInv

LEMMA CommitCommandStep ==
  ASSUME IInv, CommitCommand
  PROVE  IInv'
<1>1. TypeOK'
  BY DEF IInv, TypeOK, CommitCommand
<1>2. WritesReachFile'
  BY DEF WritesReachFile, CommitCommand
<1>3. Coherent'
  BY DEF IInv, Coherent, CommitCommand, Cached
<1>4. PendingIsHeld'
  BY StoreAssumption DEF IInv, TypeOK, PendingIsHeld, NoHandles, CommitCommand
<1>5. DeadIsPending'
  BY DEF IInv, DeadIsPending, CommitCommand
<1>6. Control'
  BY DEF IInv, Control, CommitCommand
<1>7. NoDangling' /\ CachedHasRow' /\ PendingHasRow'
  BY DEF IInv, NoDangling, CachedHasRow, PendingHasRow, Cached, CommitCommand
<1> QED BY <1>1, <1>2, <1>3, <1>4, <1>5, <1>6, <1>7 DEF IInv

LEMMA RollbackCommandStep ==
  ASSUME IInv, RollbackCommand
  PROVE  IInv'
<1>1. TypeOK'
  BY DEF IInv, TypeOK, RollbackCommand, CacheAfterRollback, EmptyCache
<1>2. NoDangling'
  BY DEF NoDangling, NoHandles, RollbackCommand
<1>3. CachedHasRow'
  BY DEF CachedHasRow, RollbackCommand, CacheAfterRollback, EmptyCache, Cached
<1>4. WritesReachFile'
  BY DEF WritesReachFile, RollbackCommand
<1>5. Coherent'
  BY DEF Coherent, RollbackCommand, CacheAfterRollback, EmptyCache, Cached
<1>6. PendingIsHeld'
  BY StoreAssumption DEF IInv, TypeOK, PendingIsHeld, NoHandles, RollbackCommand
<1>7. DeadIsPending'
  BY StoreAssumption DEF DeadIsPending, RollbackCommand, CacheAfterRollback, EmptyCache
<1>8. PendingHasRow'
  BY StoreAssumption DEF IInv, TypeOK, PendingIsHeld, PendingHasRow, NoHandles, RollbackCommand
<1>9. Control'
  BY DEF IInv, Control, NoHandles, RollbackCommand
<1> QED BY <1>1, <1>2, <1>3, <1>4, <1>5, <1>6, <1>7, <1>8, <1>9 DEF IInv

LEMMA ThrowStep ==
  ASSUME IInv, Throw
  PROVE  IInv'
<1>1. TypeOK'
  BY DEF IInv, TypeOK, Throw
<1>2. Coherent'
  BY DEF IInv, Coherent, Throw, Cached
<1>3. DeadIsPending'
  BY DEF IInv, DeadIsPending, Throw
<1>4. Control'
  BY DEF IInv, Control, Throw
<1>5. NoDangling' /\ CachedHasRow' /\ WritesReachFile' /\ PendingIsHeld' /\ PendingHasRow'
  BY DEF IInv, NoDangling, CachedHasRow, WritesReachFile, PendingIsHeld, PendingHasRow, Cached,
      Throw
<1> QED BY <1>1, <1>2, <1>3, <1>4, <1>5 DEF IInv

LEMMA CatchStep ==
  ASSUME IInv, Catch
  PROVE  IInv'
<1>1. TypeOK'
  BY DEF IInv, TypeOK, Catch
<1>2. Coherent'
  BY DEF Coherent, Catch
<1>3. DeadIsPending'
  BY DEF IInv, DeadIsPending, Catch
<1>4. Control'
  BY DEF IInv, Control, Catch
<1>5. NoDangling' /\ CachedHasRow' /\ WritesReachFile' /\ PendingIsHeld' /\ PendingHasRow'
  BY DEF IInv, NoDangling, CachedHasRow, WritesReachFile, PendingIsHeld, PendingHasRow, Cached,
      Catch
<1> QED BY <1>1, <1>2, <1>3, <1>4, <1>5 DEF IInv

LEMMA BeginTurnStep ==
  ASSUME IInv, BeginTurn
  PROVE  IInv'
<1>1. TypeOK'
  BY DEF IInv, TypeOK, BeginTurn
<1>2. WritesReachFile'
  BY DEF IInv, WritesReachFile, BeginTurn
<1>3. Coherent'
  BY DEF Coherent, BeginTurn
<1>4. PendingIsHeld'
  BY DEF PendingIsHeld, BeginTurn
<1>5. DeadIsPending'
  BY DEF IInv, DeadIsPending, BeginTurn
<1>6. Control'
  BY DEF Control, BeginTurn
<1>7. NoDangling' /\ CachedHasRow' /\ PendingHasRow'
  BY DEF IInv, NoDangling, CachedHasRow, PendingHasRow, Cached, BeginTurn
<1> QED BY <1>1, <1>2, <1>3, <1>4, <1>5, <1>6, <1>7 DEF IInv

LEMMA OpenBarrierStep ==
  ASSUME IInv, OpenBarrier
  PROVE  IInv'
<1>1. TypeOK'
  BY DEF IInv, TypeOK, OpenBarrier
<1>2. Control'
  BY DEF Control, OpenBarrier
<1>3. NoDangling' /\ CachedHasRow' /\ WritesReachFile' /\ Coherent' /\ PendingIsHeld' /\
    DeadIsPending' /\ PendingHasRow'
  BY DEF IInv, NoDangling, CachedHasRow, WritesReachFile, Coherent, PendingIsHeld,
      DeadIsPending, PendingHasRow, Cached, OpenBarrier
<1> QED BY <1>1, <1>2, <1>3 DEF IInv

LEMMA CloseBarrierStep ==
  ASSUME IInv, CloseBarrier
  PROVE  IInv'
<1>1. TypeOK'
  <2>1. CASE outcome = "unwinding"
    BY <2>1 DEF IInv, TypeOK, CloseBarrier
  <2>2. CASE outcome # "unwinding"
    <3>1. cache' = [i \in Keys |-> IF i \in pending THEN NoRow ELSE cache[i]]
      BY <2>2 DEF CloseBarrier
    <3>2. cache' \in [Keys -> Values \cup {NoRow, Dead}]
      BY <3>1 DEF IInv, TypeOK
    <3>3. QED BY <2>2, <3>2 DEF IInv, TypeOK, CloseBarrier, Drained
  <2>3. QED BY <2>1, <2>2
<1>2. NoDangling'
  BY DEF NoDangling, NoHandles, CloseBarrier
<1>3. CachedHasRow'
  BY DEF IInv, CachedHasRow, CloseBarrier, Cached
<1>4. Coherent'
  BY DEF IInv, Coherent, Control, CloseBarrier
<1>5. PendingIsHeld'
  BY DEF IInv, PendingIsHeld, CloseBarrier, Drained
<1>6. DeadIsPending'
  BY DEF IInv, DeadIsPending, Control, CloseBarrier, Drained
<1>7. PendingHasRow'
  BY DEF IInv, PendingHasRow, CloseBarrier, Drained
<1>8. Control'
  BY DEF IInv, Control, CloseBarrier
<1>9. WritesReachFile'
  BY DEF IInv, WritesReachFile, CloseBarrier
<1> QED BY <1>1, <1>2, <1>3, <1>4, <1>5, <1>6, <1>7, <1>8, <1>9 DEF IInv

LEMMA CommitTurnStep ==
  ASSUME IInv, CommitTurn
  PROVE  IInv'
<1>1. TypeOK'
  BY DEF IInv, TypeOK, DeadIsPending, Rows, CommitTurn, FlushedRows, View, EmptyCache
<1>2. NoDangling'
  BY DEF NoDangling, NoHandles, CommitTurn
<1>3. CachedHasRow'
  BY DEF CachedHasRow, CommitTurn, EmptyCache, Cached
<1>4. WritesReachFile'
  BY DEF WritesReachFile, CommitTurn
<1>5. Coherent'
  BY DEF Coherent, CommitTurn, EmptyCache, Cached
<1>6. PendingIsHeld'
  BY DEF PendingIsHeld, CommitTurn
<1>7. DeadIsPending'
  BY StoreAssumption DEF DeadIsPending, CommitTurn, EmptyCache
<1>8. PendingHasRow'
  BY DEF PendingHasRow, CommitTurn
<1>9. Control'
  BY DEF Control, CommitTurn
<1> QED BY <1>1, <1>2, <1>3, <1>4, <1>5, <1>6, <1>7, <1>8, <1>9 DEF IInv

LEMMA FlushFailsStep ==
  ASSUME IInv, FlushFails
  PROVE  IInv'
<1>1. TypeOK'
  BY DEF IInv, TypeOK, FlushFails, EmptyCache
<1>2. NoDangling'
  BY DEF NoDangling, NoHandles, FlushFails
<1>3. CachedHasRow'
  BY DEF CachedHasRow, FlushFails, EmptyCache, Cached
<1>4. WritesReachFile'
  BY DEF IInv, WritesReachFile, FlushFails
<1>5. Coherent'
  BY DEF Coherent, FlushFails, EmptyCache, Cached
<1>6. PendingIsHeld'
  BY DEF PendingIsHeld, FlushFails
<1>7. DeadIsPending'
  BY StoreAssumption DEF DeadIsPending, FlushFails, EmptyCache
<1>8. PendingHasRow'
  BY DEF PendingHasRow, FlushFails
<1>9. Control'
  BY DEF Control, NoHandles, FlushFails
<1> QED BY <1>1, <1>2, <1>3, <1>4, <1>5, <1>6, <1>7, <1>8, <1>9 DEF IInv

LEMMA RollbackTurnStep ==
  ASSUME IInv, RollbackTurn
  PROVE  IInv'
<1>1. TypeOK'
  BY DEF IInv, TypeOK, RollbackTurn, EmptyCache
<1>2. NoDangling'
  BY DEF NoDangling, NoHandles, RollbackTurn
<1>3. CachedHasRow'
  BY DEF CachedHasRow, RollbackTurn, EmptyCache, Cached
<1>4. WritesReachFile'
  BY DEF IInv, WritesReachFile, RollbackTurn
<1>5. Coherent'
  BY DEF Coherent, RollbackTurn, EmptyCache, Cached
<1>6. PendingIsHeld'
  BY DEF PendingIsHeld, RollbackTurn
<1>7. DeadIsPending'
  BY StoreAssumption DEF DeadIsPending, RollbackTurn, EmptyCache
<1>8. PendingHasRow'
  BY DEF PendingHasRow, RollbackTurn
<1>9. Control'
  BY DEF Control, NoHandles, RollbackTurn
<1> QED BY <1>1, <1>2, <1>3, <1>4, <1>5, <1>6, <1>7, <1>8, <1>9 DEF IInv

LEMMA CrashStep ==
  ASSUME IInv, Crash
  PROVE  IInv'
<1>1. TypeOK'
  BY DEF IInv, TypeOK, Crash, EmptyCache
<1>2. NoDangling'
  BY DEF NoDangling, Crash
<1>3. CachedHasRow'
  BY DEF CachedHasRow, Crash, EmptyCache, Cached
<1>4. WritesReachFile'
  BY DEF WritesReachFile, Crash
<1>5. Coherent'
  BY DEF Coherent, Crash, EmptyCache, Cached
<1>6. PendingIsHeld'
  BY DEF PendingIsHeld, Crash
<1>7. DeadIsPending'
  BY StoreAssumption DEF DeadIsPending, Crash, EmptyCache
<1>8. PendingHasRow'
  BY DEF PendingHasRow, Crash
<1>9. Control'
  BY DEF Control, Crash
<1> QED BY <1>1, <1>2, <1>3, <1>4, <1>5, <1>6, <1>7, <1>8, <1>9 DEF IInv

LEMMA InitEstablishes == Init => IInv
BY StoreAssumption DEF Init, EmptyCache, IInv, TypeOK, NoDangling, CachedHasRow,
    WritesReachFile, Coherent, PendingIsHeld, DeadIsPending, PendingHasRow, Control, Rows,
    Cached

LEMMA NextPreserves == IInv /\ [Next]_vars => IInv'
<1> SUFFICES ASSUME IInv, [Next]_vars PROVE IInv'
  OBVIOUS
<1>1. ASSUME NEW s \in Slots, NEW k \in Keys, Get(s, k) PROVE IInv'
  BY <1>1, GetStep
<1>2. ASSUME NEW k \in Keys, Peek(k) PROVE IInv'
  BY <1>2, PeekStep
<1>3. ASSUME NEW s \in Slots, NEW v \in Values, Change(s, v) PROVE IInv'
  BY <1>3, ChangeStep
<1>4. ASSUME NEW s \in Slots, Kill(s) PROVE IInv'
  BY <1>4, KillStep
<1>5. ASSUME NEW s \in Slots, NEW k \in Keys, NEW v \in Values, Create(s, k, v) PROVE IInv'
  BY <1>5, CreateStep
<1>6. ASSUME NEW s \in Slots, Release(s) PROVE IInv'
  BY <1>6, ReleaseStep
<1>7. ASSUME NEW s \in Slots, DeleteCommod(s) PROVE IInv'
  BY <1>7, DeleteCommodStep
<1>8. CASE BeginCommand
  BY <1>8, BeginCommandStep
<1>9. CASE CommitCommand
  BY <1>9, CommitCommandStep
<1>10. CASE RollbackCommand
  BY <1>10, RollbackCommandStep
<1>11. CASE Throw
  BY <1>11, ThrowStep
<1>12. CASE Catch
  BY <1>12, CatchStep
<1>13. CASE BeginTurn
  BY <1>13, BeginTurnStep
<1>14. CASE OpenBarrier
  BY <1>14, OpenBarrierStep
<1>15. CASE CloseBarrier
  BY <1>15, CloseBarrierStep
<1>16. CASE CommitTurn
  BY <1>16, CommitTurnStep
<1>17. CASE FlushFails
  BY <1>17, FlushFailsStep
<1>18. CASE RollbackTurn
  BY <1>18, RollbackTurnStep
<1>19. CASE Crash
  BY <1>19, CrashStep
<1>20. CASE UNCHANGED vars
  BY <1>20 DEF vars, IInv, TypeOK, NoDangling, CachedHasRow, WritesReachFile, Coherent,
      PendingIsHeld, DeadIsPending, PendingHasRow, Control, NoHandles, Cached
<1> QED BY <1>1, <1>2, <1>3, <1>4, <1>5, <1>6, <1>7, <1>8, <1>9, <1>10, <1>11, <1>12, <1>13,
    <1>14, <1>15, <1>16, <1>17, <1>18, <1>19, <1>20 DEF Next

THEOREM Invariant == Spec => []IInv
BY InitEstablishes, NextPreserves, PTL DEF Spec

\* Every variable keeps its type; in particular no ship with alive = 0 is
\* ever written, whatever commands, turns and failures come in what order.
THEOREM TypeCorrect == Spec => []TypeOK
BY Invariant, PTL DEF IInv

\* No handle outlives its entity.
THEOREM HandlesAreValid == Spec => []NoDangling
BY Invariant, PTL DEF IInv

\* A cached entity has its row, so create_ship never replaces one in use.
THEOREM NoIdTwice == Spec => []CachedHasRow
BY Invariant, PTL DEF IInv

\* Between two scopes no deletion is pending and memory agrees with the file.
THEOREM QuietAtRest == Spec => []AtRest
<1>1. IInv => AtRest
  BY StoreAssumption DEF AtRest, IInv, WritesReachFile, Coherent, PendingIsHeld, NoHandles
<1>2. QED BY <1>1, Invariant, PTL

-----------------------------------------------------------------------------
(* The store is atomic: how each action maps to a step of AtomicStore *)

LEMMA GetMaps ==
  ASSUME IInv, NEW s \in Slots, NEW k \in Keys, Get(s, k)
  PROVE  UNCHANGED <<saved, Draft, Open>>
BY DEF Cached, View, Open, Draft, Get, Stored

LEMMA PeekMaps ==
  ASSUME IInv, NEW k \in Keys, Peek(k)
  PROVE  UNCHANGED <<saved, Draft, Open>>
BY DEF Cached, View, Open, Draft, Peek, Stored

LEMMA ChangeMaps ==
  ASSUME IInv, NEW s \in Slots, NEW v \in Values, Change(s, v)
  PROVE  Store!Change(held[s], v) \/ UNCHANGED <<saved, Draft, Open>>
<1>1. CASE Open /\ held[s] \notin pending
  <2>1. View[held[s]] \in Values
    BY <1>1 DEF IInv, TypeOK, NoDangling, Cached, View, Change
  <2>2. View' = [View EXCEPT ![held[s]] = v]
    <3>1. held[s] \in Keys /\ v # NoRow
      BY StoreAssumption DEF Change, IInv, TypeOK
    <3>2. cache' = [cache EXCEPT ![held[s]] = v] /\ UNCHANGED <<pending, db>>
      BY DEF Change
    <3>3. cache'[held[s]] = v /\ \A i \in Keys \ {held[s]} : cache'[i] = cache[i]
      BY <3>1, <3>2 DEF IInv, TypeOK
    <3>4. QED BY <1>1, <3>1, <3>2, <3>3 DEF View, Cached
  <2>3. QED BY <1>1, <2>1, <2>2 DEF Store!Change, Draft, Open, Change
<1>2. CASE ~(Open /\ held[s] \notin pending)
  BY <1>2 DEF Cached, View, Open, Draft, Change
<1>3. QED BY <1>1, <1>2

LEMMA KillMaps ==
  ASSUME IInv, NEW s \in Slots, Kill(s)
  PROVE  Store!Change(held[s], Deleted) \/ UNCHANGED <<saved, Draft, Open>>
<1>1. CASE Open /\ held[s] \notin pending
  <2>1. View[held[s]] \in Values
    BY <1>1, StoreAssumption DEF IInv, TypeOK, NoDangling, DeadIsPending, Cached, Keys, View,
        Kill
  <2>2. View' = [View EXCEPT ![held[s]] = Deleted]
    BY <1>1 DEF IInv, TypeOK, Cached, View, Kill
  <2>3. QED BY <1>1, <2>1, <2>2 DEF Store!Change, Draft, Open, Kill
<1>2. CASE ~(Open /\ held[s] \notin pending)
  BY <1>2 DEF Cached, View, Open, Draft, Kill
<1>3. QED BY <1>1, <1>2

LEMMA CreateMaps ==
  ASSUME IInv, NEW s \in Slots, NEW k \in Keys, NEW v \in Values, Create(s, k, v)
  PROVE  Store!Create(k, v) \/ Store!Publish(k, v) \/ UNCHANGED <<saved, Draft, Open>>
<1>1. k \notin pending /\ cache[k] = NoRow
  BY StoreAssumption DEF IInv, CachedHasRow, PendingHasRow, Cached, Create
<1>2. View[k] = NoRow /\ View' = [View EXCEPT ![k] = v]
  BY <1>1 DEF IInv, TypeOK, Cached, View, Create, Insert, Write
<1>3. CASE Open /\ scope = "command"
  BY <1>2, <1>3 DEF Store!Create, Draft, Open, Create, Insert, Write
<1>4. CASE Open /\ scope = "turn"
  BY <1>2, <1>4 DEF Store!Publish, Draft, Open, Create, Insert, Write, IInv, WritesReachFile
<1>5. CASE ~Open
  BY <1>5 DEF Draft, Open, Create, Insert, Write, IInv, Control, TypeOK
<1>6. QED BY <1>3, <1>4, <1>5 DEF Open, IInv, TypeOK

LEMMA ReleaseMaps ==
  ASSUME IInv, NEW s \in Slots, Release(s)
  PROVE  (cache[held[s]] \in Values /\ Store!SaveOne(held[s], cache[held[s]])) \/ UNCHANGED
      <<saved, Draft, Open>>
<1>1. CASE Open
  <2>1. View' = View
    BY <1>1 DEF IInv, TypeOK, NoDangling, Cached, View, Release, Saves, Drops, Write
  <2>2. saved' = saved
    BY <1>1 DEF IInv, TypeOK, Open, Release, Saves, Write
  <2>3. QED BY <1>1, <2>1, <2>2 DEF Draft, Open, Release
<1>2. CASE ~Open /\ scope = "none"
  <2>1. pending = {} /\ db = saved
    BY <1>2 DEF IInv, PendingIsHeld, WritesReachFile
  <2>2. CASE Saves(s)
    <3>1. saved' = [saved EXCEPT ![held[s]] = cache[held[s]]]
      BY <1>2, <2>1, <2>2 DEF Release, Write
    <3>2. saved[held[s]] \in Values
      BY <2>1 DEF IInv, TypeOK, NoDangling, CachedHasRow, Release
    <3>3. cache[held[s]] \in Values
      BY <1>2, <2>1, <2>2 DEF IInv, TypeOK, NoDangling, Cached, DeadIsPending, Release
    <3>4. QED BY <1>2, <3>1, <3>2, <3>3 DEF Store!SaveOne, Draft, Open, Release
  <2>3. CASE ~Saves(s)
    BY <1>2, <2>1, <2>3 DEF Release, Drops, Draft, Open
  <2>4. QED BY <2>2, <2>3
<1>3. CASE ~Open /\ scope # "none"
  BY <1>3 DEF IInv, TypeOK, Open, Draft, Release, Saves, Write
<1>4. QED BY <1>1, <1>2, <1>3

LEMMA DeleteCommodMaps ==
  ASSUME IInv, NEW s \in Slots, DeleteCommod(s)
  PROVE  Store!Change(held[s], Deleted) \/ UNCHANGED <<saved, Draft, Open>>
<1>1. CASE held[s] \notin pending
  <2>1. Open /\ View[held[s]] \in Values
    BY <1>1, StoreAssumption DEF IInv, TypeOK, NoDangling, DeadIsPending, Control, Cached, Keys,
        View, Open, DeleteCommod
  <2>2. View' = [View EXCEPT ![held[s]] = Deleted]
    BY <1>1 DEF Cached, View, DeleteCommod
  <2>3. QED BY <2>1, <2>2 DEF Store!Change, Draft, Open, DeleteCommod
<1>2. CASE held[s] \in pending
  BY <1>2 DEF Cached, View, Open, Draft, DeleteCommod
<1>3. QED BY <1>1, <1>2

LEMMA BeginCommandMaps ==
  ASSUME IInv, BeginCommand
  PROVE  Store!Begin
<1>1. View' = saved
  BY StoreAssumption DEF IInv, TypeOK, WritesReachFile, Coherent, PendingIsHeld, NoHandles,
      Cached, View, BeginCommand
<1>2. QED BY <1>1 DEF Store!Begin, Draft, Open, BeginCommand

LEMMA BeginTurnMaps ==
  ASSUME IInv, BeginTurn
  PROVE  Store!Begin
<1>1. View' = saved
  BY StoreAssumption DEF IInv, TypeOK, WritesReachFile, Coherent, PendingIsHeld, NoHandles,
      Cached, View, BeginTurn
<1>2. QED BY <1>1 DEF Store!Begin, Draft, Open, BeginTurn

LEMMA CommitCommandMaps ==
  ASSUME IInv, CommitCommand
  PROVE  Store!Commit
<1>1. pending = {} /\ View = db
  BY StoreAssumption DEF IInv, TypeOK, Coherent, PendingIsHeld, NoHandles, View, CommitCommand
<1>2. QED BY <1>1 DEF Store!Commit, Draft, Open, CommitCommand

LEMMA RollbackCommandMaps ==
  ASSUME IInv, RollbackCommand
  PROVE  Store!Abort \/ UNCHANGED <<saved, Draft, Open>>
BY DEF Store!Abort, Draft, Open, RollbackCommand

LEMMA ThrowMaps ==
  ASSUME IInv, Throw
  PROVE  Store!Abort
BY DEF Store!Abort, Draft, Open, Throw

LEMMA CatchMaps ==
  ASSUME IInv, Catch
  PROVE  UNCHANGED <<saved, Draft, Open>>
BY DEF Draft, Open, Catch

LEMMA OpenBarrierMaps ==
  ASSUME IInv, OpenBarrier
  PROVE  UNCHANGED <<saved, Draft, Open>>
BY DEF Draft, Open, View, Cached, OpenBarrier

LEMMA CloseBarrierMaps ==
  ASSUME IInv, CloseBarrier
  PROVE  UNCHANGED <<saved, Draft, Open>>
<1>1. CASE Open
  <2>1. View' = View
    BY <1>1 DEF Cached, View, Open, CloseBarrier, Drained
  <2>2. QED BY <1>1, <2>1 DEF Draft, Open, CloseBarrier
<1>2. CASE ~Open
  BY <1>2 DEF Draft, Open, CloseBarrier
<1>3. QED BY <1>1, <1>2

LEMMA CommitTurnMaps ==
  ASSUME IInv, CommitTurn
  PROVE  Store!Commit
BY DEF Store!Commit, Draft, Open, FlushedRows, CommitTurn

LEMMA FlushFailsMaps ==
  ASSUME IInv, FlushFails
  PROVE  Store!Abort
BY DEF Store!Abort, Draft, Open, FlushFails

LEMMA RollbackTurnMaps ==
  ASSUME IInv, RollbackTurn
  PROVE  UNCHANGED <<saved, Draft, Open>>
BY DEF Draft, Open, RollbackTurn

LEMMA CrashMaps ==
  ASSUME IInv, Crash
  PROVE  Store!Abort \/ UNCHANGED <<saved, Draft, Open>>
BY DEF Store!Abort, Draft, Open, Crash

LEMMA NextMaps ==
  IInv /\ [Next]_vars => [Store!Next]_(Store!storeVars)
<1> SUFFICES ASSUME IInv, [Next]_vars
             PROVE  Store!Next \/ UNCHANGED <<saved, Draft, Open>>
  BY DEF Store!storeVars
<1> Deleted \in Values \cup {Deleted}
  OBVIOUS
<1>1. ASSUME NEW s \in Slots, NEW k \in Keys, Get(s, k)
      PROVE  Store!Next \/ UNCHANGED <<saved, Draft, Open>>
  BY <1>1, GetMaps
<1>2. ASSUME NEW k \in Keys, Peek(k)
      PROVE  Store!Next \/ UNCHANGED <<saved, Draft, Open>>
  BY <1>2, PeekMaps
<1>3. ASSUME NEW s \in Slots, NEW v \in Values, Change(s, v)
      PROVE  Store!Next \/ UNCHANGED <<saved, Draft, Open>>
  BY <1>3, ChangeMaps DEF Store!Next, Change, IInv, TypeOK
<1>4. ASSUME NEW s \in Slots, Kill(s)
      PROVE  Store!Next \/ UNCHANGED <<saved, Draft, Open>>
  BY <1>4, KillMaps DEF Store!Next, Kill, Keys
<1>5. ASSUME NEW s \in Slots, NEW k \in Keys, NEW v \in Values, Create(s, k, v)
      PROVE  Store!Next \/ UNCHANGED <<saved, Draft, Open>>
  BY <1>5, CreateMaps DEF Store!Next
<1>6. ASSUME NEW s \in Slots, Release(s)
      PROVE  Store!Next \/ UNCHANGED <<saved, Draft, Open>>
  <2>1. held[s] \in Keys
    BY <1>6 DEF Release, IInv, TypeOK
  <2>2. QED BY <1>6, <2>1, ReleaseMaps DEF Store!Next
<1>7. ASSUME NEW s \in Slots, DeleteCommod(s)
      PROVE  Store!Next \/ UNCHANGED <<saved, Draft, Open>>
  BY <1>7, DeleteCommodMaps DEF Store!Next, DeleteCommod, Keys
<1>8. CASE BeginCommand
  BY <1>8, BeginCommandMaps DEF Store!Next
<1>9. CASE CommitCommand
  BY <1>9, CommitCommandMaps DEF Store!Next
<1>10. CASE RollbackCommand
  BY <1>10, RollbackCommandMaps DEF Store!Next
<1>11. CASE Throw
  BY <1>11, ThrowMaps DEF Store!Next
<1>12. CASE Catch
  BY <1>12, CatchMaps
<1>13. CASE BeginTurn
  BY <1>13, BeginTurnMaps DEF Store!Next
<1>14. CASE OpenBarrier
  BY <1>14, OpenBarrierMaps
<1>15. CASE CloseBarrier
  BY <1>15, CloseBarrierMaps
<1>16. CASE CommitTurn
  BY <1>16, CommitTurnMaps DEF Store!Next
<1>17. CASE FlushFails
  BY <1>17, FlushFailsMaps DEF Store!Next
<1>18. CASE RollbackTurn
  BY <1>18, RollbackTurnMaps
<1>19. CASE Crash
  BY <1>19, CrashMaps DEF Store!Next
<1>20. CASE UNCHANGED vars
  BY <1>20 DEF vars, View, Cached, Draft, Open
<1> QED BY <1>1, <1>2, <1>3, <1>4, <1>5, <1>6, <1>7, <1>8, <1>9, <1>10, <1>11, <1>12, <1>13,
    <1>14, <1>15, <1>16, <1>17, <1>18, <1>19, <1>20 DEF Next

\* The EntityManager implements AtomicStore: a command or a turn is seen as a
\* whole or not at all, except for the ids create_ship publishes.
THEOREM Refinement == Spec => StoreIsAtomic
<1>1. Init => Store!Init
  BY DEF Init, Store!Init, Draft, Open
<1>2. QED BY <1>1, Invariant, NextMaps, PTL DEF Spec, Store!Spec, StoreIsAtomic

-----------------------------------------------------------------------------
(* Enrolment.  A row that another names is written before it, and what a tool *)
(* has read is still so as long as it has been alone.                        *)


Writing == {"enrolling", "race", "ship", "linked", "planet", "sector"}
Stage == {"off", "design", "asked", "rolling"} \cup Writing

\* The design of the session, its price and its file.
DesignInv ==
  /\ design \in Design /\ file \in Design \cup {None}
  /\ CostIsCurrent /\ DesignIsValid
  /\ file = None \/ Valid(file) \/ file \in Handmade

RaceRow == [gov : Nat, traits : Design, unset : BOOLEAN]

\* The row of a race that build_race made of a design.
RowOf(gov, s) == [gov |-> gov, traits |-> Built(s), unset |-> s.compat = Blank]

\* The rows, and that the ones they name are there.
RowsInv ==
  /\ IsFiniteSet(DOMAIN races) /\ DOMAIN races \subseteq Nat /\ 1 \in DOMAIN races
  /\ \A n \in DOMAIN races : races[n] \in RaceRow
  /\ ships \in Seq(Nat)
  /\ planets \in [Planet -> SUBSET (DOMAIN races)]
  /\ stars \in [Star -> SUBSET (DOMAIN races)]
  /\ holder \in [Planet -> [Site -> Nat]]
  /\ ParentsFirst /\ LawfulRaces

\* The job of each stage, and what it says of the rows already written.
Job == [spec : Design, num : Nat, home : Planet, site : Site, ship : Nat,
        star : SUBSET Nat, planet : SUBSET Nat, again : BOOLEAN]
Roll == [spec : {None}, arch : Archetype, type : PlanetType, home : Planet,
         star : SUBSET Nat, planet : SUBSET Nat]

HasRead(t) == job[t].star \subseteq DOMAIN races /\ job[t].planet \subseteq DOMAIN races

ToolInv(t) ==
  /\ pc[t] \in Stage
  /\ \A z \in DOMAIN mem[t].stars : mem[t].stars[z] \subseteq DOMAIN races
  /\ \A p \in DOMAIN mem[t].planets : mem[t].planets[p] \subseteq DOMAIN races
  /\ pc[t] \in {"off", "design"} => job[t] = Idle
  /\ pc[t] = "asked" => job[t] \in [spec : {None}, arch : Archetype]
  /\ pc[t] = "rolling" => job[t] \in Roll /\ HasRead(t)
  /\ pc[t] \in Writing => job[t] \in Job /\ HasRead(t) /\ Lawful(job[t].spec)
  /\ pc[t] \in Writing \ {"enrolling"} => job[t].num \in DOMAIN races
  /\ pc[t] = "ship" =>
       job[t].ship \in DOMAIN ships /\ job[t].ship # 0 /\ ships[job[t].ship] = job[t].num

ToolsInv ==
  /\ pc \in [Tool -> Stage] /\ DOMAIN job = Tool /\ DOMAIN mem = Tool
  /\ \A t \in Tool : ToolInv(t)

\* What a tool has read is still so, as long as it has been alone.
CurrentInv(t) ==
  /\ pc[t] \notin Writing =>
       /\ \A z \in DOMAIN mem[t].stars : mem[t].stars[z] = stars[z]
       /\ \A p \in DOMAIN mem[t].planets : mem[t].planets[p] = planets[p]
  /\ pc[t] \in Writing \cup {"rolling"} => job[t].star = stars[StarOf[job[t].home]]
  /\ pc[t] \in {"rolling", "enrolling", "race", "ship", "linked"} =>
       job[t].planet = planets[job[t].home]
  /\ pc[t] = "rolling" => job[t].planet = {}
  /\ pc[t] \in Writing /\ ~job[t].again => job[t].planet = {}
  /\ pc[t] \in Writing \ {"enrolling"} /\ job[t].again => job[t].num \in reused
  /\ pc[t] = "enrolling" => job[t].num \notin DOMAIN races
  /\ pc[t] \in {"linked", "planet", "sector"} => races[job[t].num].gov # 0
  /\ pc[t] \in {"planet", "sector"} => job[t].num \in planets[job[t].home]

\* At most one race whose home was searched for settles a planet.
Alone(p) == \E n \in Nat : planets[p] \ reused \subseteq {n}
Founded(z) ==
  \A n \in stars[z] : races[n].gov # 0 /\ \E p \in Planet : StarOf[p] = z /\ n \in planets[p]

AloneInv ==
  ~overlapped =>
    /\ ~(Busy("racegen") /\ Busy("enrol"))
    /\ \A t \in Tool : CurrentInv(t)
    /\ \A p \in Planet : Alone(p)
    /\ \A z \in Star : Founded(z)

GalaxyInv == RowsInv /\ ToolsInv /\ AloneInv
EnrolmentInv == DesignInv /\ GalaxyInv

-----------------------------------------------------------------------------
(* A finite set of numbers has a largest: Max, which CHOOSE defines.         *)
LEMMA MaxIsLargest ==
  ASSUME NEW S, IsFiniteSet(S), S \subseteq Nat, S # {}
  PROVE  Max(S) \in S /\ \A y \in S : y <= Max(S)
<1> DEFINE G == {T \in SUBSET S : T = {} \/ \E m \in T : \A y \in T : m >= y}
<1>1. ASSUME NEW T \in SUBSET S, \A U \in SUBSET T : U # T => U \in G
      PROVE  T \in G
  <2>1. CASE T = {}
    BY <2>1
  <2>2. CASE T # {}
    <3>1. PICK x \in T : TRUE
      BY <2>2
    <3>2. T \ {x} \in G
      BY <1>1, <3>1
    <3>3. CASE T \ {x} = {}
      <4>1. \A y \in T : y = x
        BY <3>3
      <4>2. x \in Nat
        BY <3>1
      <4> QED  BY <3>1, <4>1, <4>2
    <3>4. CASE \E m \in T \ {x} : \A y \in T \ {x} : m >= y
      <4>1. PICK m \in T \ {x} : \A y \in T \ {x} : m >= y
        BY <3>4
      <4>2. m \in Nat /\ x \in Nat /\ \A y \in T : y \in Nat
        BY <3>1, <4>1
      <4>3. CASE m >= x
        BY <4>1, <4>2, <4>3
      <4>4. CASE x > m
        <5>1. \A y \in T : x >= y
          BY <4>1, <4>2, <4>4
        <5> QED  BY <3>1, <5>1
      <4> QED  BY <4>2, <4>3, <4>4
    <3> QED  BY <3>2, <3>3, <3>4
  <2> QED  BY <2>1, <2>2
<1>2. \A T \in SUBSET S : T \in G
  <2> HIDE DEF G
  <2> QED  BY <1>1, SubsetInduction
<1>3. \E m \in S : \A y \in S : m >= y
  BY <1>2
<1>4. Max(S) \in S /\ \A y \in S : Max(S) >= y
  BY <1>3 DEF Max
<1> QED  BY <1>4

-----------------------------------------------------------------------------
(* The design *)

LEMMA DefaultSound == DefaultSpec \in Design /\ Valid(DefaultSpec)
<1> DEFINE t0 == CHOOSE t \in PlanetType : Best[t] # Gas /\ PlanetCost[t] = 75
<1>1. t0 \in PlanetType /\ t0 # Jovian
  BY CatalogueAssumption
<1> HIDE DEF t0
<1>2. DefaultSpec =
        [signed |-> FALSE, meta |-> FALSE, absorb |-> FALSE, pods |-> FALSE, collective |-> FALSE,
         iq |-> 150, limit |-> 0, sexes |-> 2, vigor |-> 1, home |-> t0,
         compat |-> [x \in SectorType |-> IF x = Plated THEN 100 ELSE 0], pref |-> Plated,
         target |-> None]
  BY DEF DefaultSpec, Blank, t0
<1>3. DefaultSpec \in Design
  BY <1>1, <1>2, CatalogueAssumption DEF Design, Compat
<1>4. Valid(DefaultSpec)
  BY <1>1, <1>2, CatalogueAssumption DEF Valid
<1> QED  BY <1>3, <1>4

LEMMA PresetSound ==
  ASSUME NEW a \in Archetype, NEW t \in PlanetType, NEW vigor \in Vigor
  PROVE  /\ Preset(a, t, vigor) \in Design
         /\ t = a.planet /\ vigor # 0 /\ vigor \in (a.vigor - 1)..(a.vigor + 1)
              => Valid(Preset(a, t, vigor))
<1> DEFINE L == Levels(a, t, vigor)
           v == Max(L)
<1>1. L \subseteq Vigor /\ L \subseteq Nat /\ 0 \in L
  <2>1. L \subseteq Vigor
    BY DEF Levels
  <2>2. 0 \in Vigor /\ 0 <= vigor /\ Vigor \subseteq Nat
    BY CatalogueAssumption
  <2>3. 0 \in L
    BY <2>2, Zenon DEF Levels
  <2> QED  BY <2>1, <2>2, <2>3
<1>2. IsFiniteSet(L)
  BY <1>1, CatalogueAssumption, FS_Subset
<1>3. v \in L /\ \A y \in L : y <= v
  <2> HIDE DEF L
  <2> QED  BY <1>1, <1>2, MaxIsLargest
<1>4. Preset(a, t, vigor) = PresetAt(a, t, v)
  BY DEF Preset
<1>5. v \in Vigor /\ v \in Nat
  BY <1>1, <1>3
<1> HIDE DEF v
<1>6. PresetAt(a, t, v) \in Design
  BY <1>5, CatalogueAssumption DEF PresetAt, Design, Compat
<1>7. ASSUME t = a.planet, vigor # 0, vigor \in (a.vigor - 1)..(a.vigor + 1)
      PROVE  Valid(PresetAt(a, t, v))
  <2>1. PICK w \in Vigor \ {0} : w <= vigor /\ Affordable(PresetAt(a, a.planet, w))
    BY <1>7, PresetAssumption
  <2>2. w \in L
    BY <1>7, <2>1 DEF Levels
  <2>3. v > 0
    BY <1>3, <1>5, <2>1, <2>2, CatalogueAssumption
  <2>4. IF t = Jovian THEN \A x \in SectorType \ {Gas} : Likes[t][x] = 0
                      ELSE Likes[t][Plated] = 100 /\ Likes[t][Gas] = 0
    BY PresetAssumption
  <2>5. t = Jovian => Settled(PresetAt(a, t, v)) \subseteq {Gas}
    BY <2>4 DEF Settled, PresetAt
  <2> DEFINE d == PresetAt(a, t, v)
  <2>6. /\ d.vigor = v /\ d.home = t /\ d.compat = Likes[t]
        /\ d.meta = a.meta /\ d.absorb = a.meta /\ d.pods = a.meta
        /\ d.iq = (IF a.meta THEN 0 ELSE 150) /\ d.limit = (IF a.meta THEN 150 ELSE 0)
        /\ d.sexes = (IF a.meta THEN 1 ELSE 2)
    BY DEF PresetAt
  <2>7. d.vigor > 0 /\ (d.iq > 0 \/ d.limit > 0)
    BY <2>3, <2>6
  <2>8. IF d.meta THEN d.sexes = 1 ELSE ~d.absorb /\ ~d.pods
    BY <2>6
  <2>9. IF d.home = Jovian THEN Settled(d) \subseteq {Gas}
                           ELSE d.compat[Plated] = 100 /\ d.compat[Gas] = 0
    BY <2>4, <2>5, <2>6
  <2> QED  BY <2>7, <2>8, <2>9 DEF Valid
<1> QED  BY <1>4, <1>6, <1>7

\* The ranges of the fields that are not sets of the model already.
Flag == BOOLEAN
Capacity == {0, 150}
Sexes == {1, 2}

\* Whatever one field is given, of its type, the design stays one.
LEMMA FieldEdits ==
  ASSUME NEW s \in Design
  PROVE  /\ \A b \in Flag : [s EXCEPT !.meta = b] \in Design
         /\ \A b \in Flag : [s EXCEPT !.absorb = b] \in Design
         /\ \A b \in Flag : [s EXCEPT !.pods = b] \in Design
         /\ \A b \in Flag : [s EXCEPT !.collective = b] \in Design
         /\ \A b \in Flag : [s EXCEPT !.signed = b] \in Design
         /\ \A n \in Capacity : [s EXCEPT !.iq = n] \in Design
         /\ \A n \in Capacity : [s EXCEPT !.limit = n] \in Design
         /\ \A n \in Sexes : [s EXCEPT !.sexes = n] \in Design
         /\ \A v \in Vigor : [s EXCEPT !.vigor = v] \in Design
         /\ \A t \in PlanetType : [s EXCEPT !.home = t] \in Design
         /\ \A x \in SectorType : [s EXCEPT !.pref = x] \in Design
         /\ \A f \in [SectorType -> Compat] : [s EXCEPT !.compat = f] \in Design
         /\ \A p \in Planet \cup {None} : [s EXCEPT !.target = p] \in Design
<1>1. \A b \in Flag : [s EXCEPT !.meta = b] \in Design
  BY DEF Design, Flag
<1>2. \A b \in Flag : [s EXCEPT !.absorb = b] \in Design
  BY DEF Design, Flag
<1>3. \A b \in Flag : [s EXCEPT !.pods = b] \in Design
  BY DEF Design, Flag
<1>4. \A b \in Flag : [s EXCEPT !.collective = b] \in Design
  BY DEF Design, Flag
<1>5. \A b \in Flag : [s EXCEPT !.signed = b] \in Design
  BY DEF Design, Flag
<1>6. \A n \in Capacity : [s EXCEPT !.iq = n] \in Design
  BY DEF Design, Capacity
<1>7. \A n \in Capacity : [s EXCEPT !.limit = n] \in Design
  BY DEF Design, Capacity
<1>8. \A n \in Sexes : [s EXCEPT !.sexes = n] \in Design
  BY DEF Design, Sexes
<1>9. \A v \in Vigor : [s EXCEPT !.vigor = v] \in Design
  BY DEF Design
<1>10. \A t \in PlanetType : [s EXCEPT !.home = t] \in Design
  BY DEF Design
<1>11. \A x \in SectorType : [s EXCEPT !.pref = x] \in Design
  BY DEF Design
<1>12. \A f \in [SectorType -> Compat] : [s EXCEPT !.compat = f] \in Design
  BY DEF Design
<1>13. \A p \in Planet \cup {None} : [s EXCEPT !.target = p] \in Design
  BY DEF Design
<1> QED  BY <1>1, <1>2, <1>3, <1>4, <1>5, <1>6, <1>7, <1>8, <1>9, <1>10, <1>11, <1>12, <1>13

\* Every edit of a design asks for a design.
LEMMA EditsAreDesigns ==
  ASSUME NEW s \in Design
  PROVE  /\ SectorEdits(s) \subseteq Design /\ PlanetEdits(s) \subseteq Design
         /\ RaceEdits(s) \subseteq Design /\ FlagEdits(s) \subseteq Design
         /\ IqEdits(s) \subseteq Design /\ AttributeEdits(s) \subseteq Design
         /\ IdentityEdits(s) \subseteq Design /\ PreferredEdits(s) \subseteq Design
<1>1. SectorEdits(s) \subseteq Design
  <2>1. \A x \in SectorType, c \in Compat : [s.compat EXCEPT ![x] = c] \in [SectorType -> Compat]
    BY DEF Design
  <2>2. \A x \in SectorType, c \in Compat :
          [s EXCEPT !.compat = [@ EXCEPT ![x] = c]] = [s EXCEPT !.compat = [s.compat EXCEPT ![x] = c]]
    BY DEF Design
  <2>3. \A x \in SectorType, c \in Compat : [s EXCEPT !.compat = [@ EXCEPT ![x] = c]] \in Design
    BY <2>1, <2>2, FieldEdits
  <2> QED  BY <2>3 DEF SectorEdits
<1>2. PlanetEdits(s) \subseteq Design
  <2>1. ASSUME NEW f \in [SectorType -> Compat], NEW t \in PlanetType, NEW x \in SectorType
        PROVE  /\ [s EXCEPT !.home = t, !.pref = x, !.compat = f] \in Design
               /\ [s EXCEPT !.home = t, !.compat = f, !.pref = x] \in Design
    <3>1. [s EXCEPT !.home = t] \in Design
      BY FieldEdits
    <3>2. [[s EXCEPT !.home = t] EXCEPT !.pref = x] \in Design
      BY <3>1, FieldEdits
    <3>3. [[[s EXCEPT !.home = t] EXCEPT !.pref = x] EXCEPT !.compat = f] \in Design
      BY <3>2, FieldEdits
    <3>4. [[s EXCEPT !.home = t] EXCEPT !.compat = f] \in Design
      BY <3>1, FieldEdits
    <3>5. [[[s EXCEPT !.home = t] EXCEPT !.compat = f] EXCEPT !.pref = x] \in Design
      BY <3>4, FieldEdits
    <3> QED  BY <3>3, <3>5
  <2>2. [x \in SectorType |-> IF x = Gas THEN 100 ELSE 0] \in [SectorType -> Compat]
    BY DEF Compat
  <2>3. [s.compat EXCEPT ![Gas] = 0, ![Plated] = 100] \in [SectorType -> Compat]
    BY DEF Design, Compat
  <2>4. Jovian \in PlanetType /\ Gas \in SectorType /\ Plated \in SectorType
    BY CatalogueAssumption
  <2>5. [s EXCEPT !.home = Jovian, !.pref = Gas,
                  !.compat = [x \in SectorType |-> IF x = Gas THEN 100 ELSE 0]] \in Design
    BY <2>1, <2>2, <2>4
  <2>6. \A t \in PlanetType :
          [s EXCEPT !.home = t, !.compat = [@ EXCEPT ![Gas] = 0, ![Plated] = 100],
                    !.pref = Plated] \in Design
    BY <2>1, <2>3, <2>4
  <2>7. \A t \in PlanetType : [s EXCEPT !.home = t] \in Design
    BY FieldEdits
  <2> QED  BY <2>5, <2>6, <2>7 DEF PlanetEdits
<1>3. RaceEdits(s) \subseteq Design
  <2>1. ASSUME NEW m \in Flag, NEW n \in Sexes, NEW l \in Capacity, NEW i \in Capacity
        PROVE  /\ [s EXCEPT !.meta = m, !.absorb = m, !.pods = m, !.collective = m, !.sexes = n,
                            !.iq = i, !.limit = l] \in Design
               /\ [s EXCEPT !.meta = m, !.absorb = m, !.pods = m, !.collective = m, !.sexes = n,
                            !.limit = l, !.iq = i] \in Design
    <3> DEFINE s4 == [[[[s EXCEPT !.meta = m] EXCEPT !.absorb = m] EXCEPT !.pods = m]
                        EXCEPT !.collective = m]
    <3>1. [s EXCEPT !.meta = m] \in Design
      BY FieldEdits
    <3>2. [[s EXCEPT !.meta = m] EXCEPT !.absorb = m] \in Design
      BY <3>1, FieldEdits
    <3>3. [[[s EXCEPT !.meta = m] EXCEPT !.absorb = m] EXCEPT !.pods = m] \in Design
      BY <3>2, FieldEdits
    <3>4. s4 \in Design
      BY <3>3, FieldEdits
    <3> HIDE DEF s4
    <3>5. [s4 EXCEPT !.sexes = n] \in Design
      BY <3>4, FieldEdits
    <3>6. [[[s4 EXCEPT !.sexes = n] EXCEPT !.iq = i] EXCEPT !.limit = l] \in Design
      <4>1. [[s4 EXCEPT !.sexes = n] EXCEPT !.iq = i] \in Design
        BY <3>5, FieldEdits
      <4> QED  BY <4>1, FieldEdits
    <3>7. [[[s4 EXCEPT !.sexes = n] EXCEPT !.limit = l] EXCEPT !.iq = i] \in Design
      <4>1. [[s4 EXCEPT !.sexes = n] EXCEPT !.limit = l] \in Design
        BY <3>5, FieldEdits
      <4> QED  BY <4>1, FieldEdits
    <3> QED  BY <3>6, <3>7 DEF s4
  <2>2. s.iq \in Capacity /\ s.limit \in Capacity /\ s.sexes \in Sexes
    BY DEF Design, Capacity, Sexes
  <2>3. 0 \in Capacity /\ TRUE \in Flag /\ FALSE \in Flag /\ 1 \in Sexes /\ 2 \in Sexes
    BY DEF Capacity, Flag, Sexes
  <2>4. [s EXCEPT !.meta = FALSE, !.absorb = FALSE, !.pods = FALSE, !.collective = FALSE,
                  !.sexes = IF s.meta THEN 2 ELSE @,
                  !.iq = IF s.iq = 0 THEN s.limit ELSE @, !.limit = IF s.iq = 0 THEN 0 ELSE @]
          \in Design
    <3>1. /\ (IF s.meta THEN 2 ELSE s.sexes) \in Sexes
          /\ (IF s.iq = 0 THEN s.limit ELSE s.iq) \in Capacity
          /\ (IF s.iq = 0 THEN 0 ELSE s.limit) \in Capacity
      BY <2>2, <2>3
    <3> QED  BY <2>1, <2>3, <3>1
  <2>5. [s EXCEPT !.meta = TRUE, !.absorb = TRUE, !.pods = TRUE, !.collective = TRUE, !.sexes = 1,
                  !.limit = IF @ = 0 THEN s.iq ELSE @, !.iq = IF s.limit = 0 THEN 0 ELSE @]
          \in Design
    <3>1. /\ (IF s.limit = 0 THEN s.iq ELSE s.limit) \in Capacity
          /\ (IF s.limit = 0 THEN 0 ELSE s.iq) \in Capacity
      BY <2>2, <2>3
    <3> QED  BY <2>1, <2>3, <3>1
  <2> QED  BY <2>4, <2>5 DEF RaceEdits
<1>4. FlagEdits(s) \subseteq Design
  BY FieldEdits DEF FlagEdits, Flag
<1>5. IqEdits(s) \subseteq Design
  <2>1. ASSUME NEW n \in Capacity
        PROVE  /\ [s EXCEPT !.limit = n] \in Design
               /\ [s EXCEPT !.limit = n, !.iq = 0] \in Design
               /\ [s EXCEPT !.iq = n, !.limit = 0] \in Design
    <3>1. 0 \in Capacity
      BY DEF Capacity
    <3>2. [s EXCEPT !.limit = n] \in Design /\ [s EXCEPT !.iq = n] \in Design
      BY FieldEdits
    <3>3. [[s EXCEPT !.limit = n] EXCEPT !.iq = 0] \in Design
      BY <3>1, <3>2, FieldEdits
    <3>4. [[s EXCEPT !.iq = n] EXCEPT !.limit = 0] \in Design
      BY <3>1, <3>2, FieldEdits
    <3> QED  BY <3>2, <3>3, <3>4
  <2> QED  BY <2>1 DEF IqEdits, Capacity
<1>6. AttributeEdits(s) \subseteq Design
  <2>1. \A n \in 1..2 : n \in Sexes
    BY DEF Sexes
  <2>2. \A n \in 1..2 : [s EXCEPT !.sexes = n] \in Design
    BY <2>1, FieldEdits
  <2> QED  BY <2>2, FieldEdits DEF AttributeEdits
<1>7. IdentityEdits(s) \subseteq Design
  BY FieldEdits DEF IdentityEdits, Flag
<1>8. PreferredEdits(s) \subseteq Design
  BY FieldEdits DEF PreferredEdits
<1> QED  BY <1>1, <1>2, <1>3, <1>4, <1>5, <1>6, <1>7, <1>8

\* The steps that touch the design alone.
Drafting ==
  \/ StartRacegen \/ ModifySector \/ ModifyPlanet \/ ModifyRace \/ ModifyFlags \/ ModifyIq
  \/ ModifyAttribute \/ ModifyIdentity \/ ModifyPreferred \/ LoadArchetype \/ Save \/ Load

LEMMA DraftingSound ==
  ASSUME DesignInv, Drafting
  PROVE  DesignInv'
<1>1. CASE StartRacegen
  <2>1. PICK s \in {DefaultSpec} \cup ({file} \ {None}) : design' = s /\ cost' = Cost(s)
    BY <1>1 DEF StartRacegen
  <2>2. file' = file
    BY <1>1 DEF StartRacegen
  <2> QED  BY <2>1, <2>2, DefaultSound DEF DesignInv, CostIsCurrent, DesignIsValid
<1>2. ASSUME NEW edits, Edit(edits), edits \subseteq Design
      PROVE  DesignInv'
  <2>1. PICK s \in edits : Valid(s) /\ design' = s /\ cost' = Cost(s)
    BY <1>2 DEF Edit, Accepted
  <2>2. file' = file
    BY <1>2 DEF Edit
  <2> QED  BY <1>2, <2>1, <2>2 DEF DesignInv, CostIsCurrent, DesignIsValid
<1>3. CASE \/ ModifySector \/ ModifyPlanet \/ ModifyRace \/ ModifyFlags \/ ModifyIq
           \/ ModifyAttribute \/ ModifyIdentity \/ ModifyPreferred
  <2>1. design \in Design
    BY DEF DesignInv
  <2> QED  BY <1>2, <1>3, <2>1, EditsAreDesigns DEF ModifySector, ModifyPlanet, ModifyRace,
           ModifyFlags, ModifyIq, ModifyAttribute, ModifyIdentity, ModifyPreferred
<1>4. CASE LoadArchetype
  <2>1. PICK a \in Archetype, random \in {-1, 0, 1} :
          /\ a.vigor + random \in Vigor \ {0}
          /\ design' = [Preset(a, a.planet, a.vigor + random) EXCEPT !.signed = design.signed]
          /\ cost' = PresetCost(design')
    BY <1>4 DEF LoadArchetype
  <2> DEFINE d == Preset(a, a.planet, a.vigor + random)
  <2>2. a.planet \in PlanetType /\ a.vigor \in Nat
    BY CatalogueAssumption
  <2>3. a.vigor + random \in (a.vigor - 1)..(a.vigor + 1)
    BY <2>2
  <2>4. d \in Design /\ Valid(d)
    BY <2>1, <2>2, <2>3, PresetSound
  <2> HIDE DEF d
  <2>5. design.signed \in BOOLEAN
    BY DEF DesignInv, Design
  <2>6. [d EXCEPT !.signed = design.signed] \in Design
    BY <2>4, <2>5 DEF Design
  <2>7. Valid([d EXCEPT !.signed = design.signed])
    BY <2>4 DEF Valid, Settled, Design
  <2>8. file' = file
    BY <1>4 DEF LoadArchetype
  <2> QED  BY <2>1, <2>6, <2>7, <2>8 DEF DesignInv, CostIsCurrent, DesignIsValid, PresetCost, d
<1>5. CASE Save
  BY <1>5 DEF Save, DesignInv, CostIsCurrent, DesignIsValid
<1>6. CASE Load
  BY <1>6, HandmadeAssumption DEF Load, DesignInv, CostIsCurrent, DesignIsValid
<1> QED  BY <1>1, <1>3, <1>4, <1>5, <1>6 DEF Drafting

\* A tool that ends leaves the default design.
LEMMA GoneSound ==
  ASSUME DesignInv, NEW t \in Tool, Gone(t), file' = file
  PROVE  DesignInv'
BY DefaultSound DEF Gone, DesignInv, CostIsCurrent, DesignIsValid

-----------------------------------------------------------------------------
(* The galaxy *)

\* A step of one tool, which only adds rows.
OthersStay(t) ==
  /\ pc' \in [Tool -> Stage] /\ DOMAIN job' = Tool /\ DOMAIN mem' = Tool
  /\ \A u \in Tool \ {t} : pc'[u] = pc[u] /\ job'[u] = job[u] /\ mem'[u] = mem[u]
Growing ==
  /\ DOMAIN races \subseteq DOMAIN races'
  /\ \A i \in DOMAIN ships : i \in DOMAIN ships' /\ ships'[i] = ships[i]

\* What a tool knows stays known while the rows grow.
LEMMA OtherTool ==
  ASSUME NEW t, OthersStay(t), NEW u \in Tool \ {t}, ToolInv(u), Growing
  PROVE  ToolInv(u)'
<1>1. pc'[u] = pc[u] /\ job'[u] = job[u] /\ mem'[u] = mem[u]
  BY DEF OthersStay, Stage, Writing
<1>2. /\ \A z \in DOMAIN mem[u].stars : mem[u].stars[z] \subseteq DOMAIN races'
      /\ \A p \in DOMAIN mem[u].planets : mem[u].planets[p] \subseteq DOMAIN races'
  BY DEF ToolInv, Growing
<1>3. HasRead(u) => HasRead(u)'
  BY <1>1 DEF HasRead, Growing
<1>4. pc[u] \in Writing \ {"enrolling"} => job[u].num \in DOMAIN races'
  BY DEF ToolInv, Growing
<1>5. pc[u] = "ship" =>
        job[u].ship \in DOMAIN ships' /\ job[u].ship # 0 /\ ships'[job[u].ship] = job[u].num
  BY DEF ToolInv, Growing
<1> QED  BY <1>1, <1>2, <1>3, <1>4, <1>5, Zenon DEF ToolInv

\* A tool that may go on unobserved is current however the rows change.
LEMMA IdleIsCurrent ==
  ASSUME NEW u \in Tool, ~Busy(u), pc'[u] = pc[u], mem'[u] = mem[u]
  PROVE  CurrentInv(u)'
<1>1. pc'[u] \in {"off", "design"} /\ mem'[u] = Forgotten
  BY DEF Busy
<1>2. mem'[u].stars = <<>> /\ mem'[u].planets = <<>>
  BY <1>1 DEF Forgotten
<1>3. DOMAIN mem'[u].stars = {} /\ DOMAIN mem'[u].planets = {}
  BY <1>2
<1> QED  BY <1>1, <1>3 DEF CurrentInv, Writing

\* A step of tool t that uses the database.
LEMMA GalaxyStep ==
  ASSUME GalaxyInv, NEW t \in Tool, OthersStay(t), Growing, Overlap(t),
         RowsInv', ToolInv(t)',
         ~overlapped' =>
            CurrentInv(t)' /\ (\A p \in Planet : Alone(p)') /\ (\A z \in Star : Founded(z)')
  PROVE  GalaxyInv'
<1>1. ToolsInv'
  <2>1. \A u \in Tool : ToolInv(u)'
    BY OtherTool DEF GalaxyInv, ToolsInv
  <2> QED  BY <2>1 DEF ToolsInv, OthersStay
<1>2. AloneInv'
  <2>1. SUFFICES ASSUME ~overlapped'
                 PROVE  /\ ~(Busy("racegen")' /\ Busy("enrol")')
                        /\ \A u \in Tool : CurrentInv(u)'
    BY DEF AloneInv
  <2>2. \A u \in Tool \ {t} : ~Busy(u)
    BY <2>1 DEF Overlap
  <2>3. \A u \in Tool \ {t} : pc'[u] = pc[u] /\ mem'[u] = mem[u]
    BY DEF OthersStay, Stage, Writing
  <2>4. \A u \in Tool \ {t} : ~Busy(u)'
    BY <2>2, <2>3 DEF Busy
  <2>5. \A u \in Tool \ {t} : CurrentInv(u)'
    BY <2>2, <2>3, IdleIsCurrent
  <2>6. ~(Busy("racegen")' /\ Busy("enrol")')
    BY <2>4 DEF Tool
  <2>7. CurrentInv(t)'
    BY <2>1
  <2> QED  BY <2>5, <2>6, <2>7
<1> QED  BY <1>1, <1>2 DEF GalaxyInv

\* A step that leaves the database alone: a design is drafted, or a tool ends.
LEMMA QuietStep ==
  ASSUME GalaxyInv, NEW t \in Tool, OthersStay(t),
         UNCHANGED <<galaxy, overlapped, reused>>,
         pc'[t] \in {"off", "design"}, job'[t] = Idle,
         mem'[t] = Forgotten \/ (mem'[t] = mem[t] /\ pc[t] \in {"off", "design"})
  PROVE  GalaxyInv'
<1>1. /\ races' = races /\ ships' = ships /\ planets' = planets /\ stars' = stars
      /\ holder' = holder /\ overlapped' = overlapped /\ reused' = reused
  BY DEF galaxy
<1>2. RowsInv'
  BY <1>1 DEF GalaxyInv, RowsInv, ParentsFirst, LawfulRaces
<1>3. Growing
  BY <1>1 DEF Growing
<1>4. /\ mem'[t] = Forgotten => DOMAIN mem'[t].stars = {} /\ DOMAIN mem'[t].planets = {}
      /\ pc'[t] \in Stage /\ pc'[t] \notin {"asked", "rolling"} \cup Writing
  BY DEF Forgotten, Stage, Writing
<1>5. ToolInv(t)
  BY DEF GalaxyInv, ToolsInv
<1>6. ToolInv(t)'
  <2>1. /\ \A z \in DOMAIN mem'[t].stars : mem'[t].stars[z] \subseteq DOMAIN races
        /\ \A p \in DOMAIN mem'[t].planets : mem'[t].planets[p] \subseteq DOMAIN races
    BY <1>4, <1>5 DEF ToolInv
  <2> QED  BY <1>1, <1>4, <2>1 DEF ToolInv
<1>7. ToolsInv'
  <2>1. \A u \in Tool : ToolInv(u)'
    BY <1>3, <1>6, OtherTool DEF GalaxyInv, ToolsInv
  <2> QED  BY <2>1 DEF ToolsInv, OthersStay
<1>8. AloneInv'
  <2>1. SUFFICES ASSUME ~overlapped
                 PROVE  /\ ~(Busy("racegen")' /\ Busy("enrol")')
                        /\ \A u \in Tool : CurrentInv(u)'
                        /\ \A p \in Planet : Alone(p)'
                        /\ \A z \in Star : Founded(z)'
    BY <1>1 DEF AloneInv
  <2>2. /\ ~(Busy("racegen") /\ Busy("enrol")) /\ \A u \in Tool : CurrentInv(u)
        /\ \A p \in Planet : Alone(p)
        /\ \A z \in Star : Founded(z)
    BY <2>1 DEF GalaxyInv, AloneInv
  <2>3. \A u \in Tool : Busy(u)' => Busy(u)
    <3>1. \A u \in Tool \ {t} : Busy(u)' => Busy(u)
      BY DEF OthersStay, Stage, Writing, Busy
    <3>2. Busy(t)' => Busy(t)
      BY DEF Busy
    <3> QED  BY <3>1, <3>2
  <2>4. ~(Busy("racegen")' /\ Busy("enrol")')
    BY <2>2, <2>3 DEF Tool
  <2>5. \A u \in Tool \ {t} : CurrentInv(u)'
    <3> TAKE u \in Tool \ {t}
    <3>1. pc'[u] = pc[u] /\ job'[u] = job[u] /\ mem'[u] = mem[u] /\ CurrentInv(u)
      BY <2>2 DEF OthersStay, Stage, Writing
    <3> QED  BY <1>1, <3>1 DEF CurrentInv
  <2>6. CurrentInv(t)'
    <3>1. /\ \A z \in DOMAIN mem'[t].stars : mem'[t].stars[z] = stars[z]
          /\ \A p \in DOMAIN mem'[t].planets : mem'[t].planets[p] = planets[p]
      BY <1>4, <2>2 DEF CurrentInv, Writing
    <3> QED  BY <1>1, <1>4, <3>1 DEF CurrentInv, Writing
  <2>7. \A p \in Planet : Alone(p)'
    BY <1>1, <2>2 DEF Alone
  <2>8. \A z \in Star : Founded(z)'
    BY <1>1, <2>2 DEF Founded
  <2> QED  BY <2>4, <2>5, <2>6, <2>7, <2>8
<1> QED  BY <1>2, <1>7, <1>8 DEF GalaxyInv

LEMMA DraftingQuiet ==
  ASSUME GalaxyInv, Drafting
  PROVE  GalaxyInv'
<1> DEFINE t == "racegen"
<1>1. t \in Tool /\ pc \in [Tool -> Stage] /\ DOMAIN job = Tool /\ DOMAIN mem = Tool /\ ToolInv(t)
  BY DEF Tool, GalaxyInv, ToolsInv
<1>2. UNCHANGED <<job, mem, galaxy, overlapped, reused>>
  BY DEF Drafting, StartRacegen, Edit, ModifySector, ModifyPlanet, ModifyRace, ModifyFlags,
         ModifyIq, ModifyAttribute, ModifyIdentity, ModifyPreferred, LoadArchetype, Save, Load
<1>3. /\ pc[t] \in {"off", "design"} /\ pc'[t] = "design"
      /\ pc' \in [Tool -> Stage] /\ \A u \in Tool \ {t} : pc'[u] = pc[u]
  <2>1. CASE StartRacegen
    BY <1>1, <2>1 DEF StartRacegen, Stage
  <2>2. CASE ~StartRacegen
    <3>1. pc[t] = "design" /\ pc' = pc
      BY <2>2 DEF Drafting, Edit, ModifySector, ModifyPlanet, ModifyRace, ModifyFlags, ModifyIq,
         ModifyAttribute, ModifyIdentity, ModifyPreferred, LoadArchetype, Save, Load
    <3> QED  BY <1>1, <3>1
  <2> QED  BY <2>1, <2>2
<1>4. OthersStay(t)
  BY <1>1, <1>2, <1>3 DEF OthersStay, Stage, Writing
<1>5. job'[t] = Idle /\ mem'[t] = mem[t] /\ pc'[t] = "design"
  BY <1>1, <1>2, <1>3 DEF ToolInv
<1> QED  BY <1>1, <1>2, <1>3, <1>4, <1>5, QuietStep

LEMMA LeavingQuiet ==
  ASSUME GalaxyInv, NEW t \in Tool, Leave(t)
  PROVE  GalaxyInv'
<1>1. pc \in [Tool -> Stage] /\ DOMAIN job = Tool /\ DOMAIN mem = Tool
  BY DEF GalaxyInv, ToolsInv
<1>2. /\ pc' = [pc EXCEPT ![t] = "off"] /\ job' = [job EXCEPT ![t] = Idle]
      /\ mem' = [mem EXCEPT ![t] = Forgotten]
      /\ UNCHANGED <<galaxy, overlapped, reused>>
  BY DEF Leave, Gone
<1>3. OthersStay(t)
  BY <1>1, <1>2 DEF OthersStay, Stage, Writing
<1>4. /\ pc'[t] \in {"off", "design"} /\ job'[t] = Idle
      /\ mem'[t] = Forgotten \/ (mem'[t] = mem[t] /\ pc[t] \in {"off", "design"})
  BY <1>1, <1>2
<1> QED  BY <1>2, <1>3, <1>4, QuietStep

-----------------------------------------------------------------------------
(* Searching for a home, and enrolling *)

\* The rows a tool sees name races, and are the stored ones while it is alone.
LEMMA RowsRead ==
  ASSUME GalaxyInv, NEW t \in Tool, NEW z \in Star, NEW p \in Planet
  PROVE  /\ StarRow(t, z) \subseteq DOMAIN races /\ PlanetRow(t, p) \subseteq DOMAIN races
         /\ ~overlapped /\ pc[t] \notin Writing =>
              StarRow(t, z) = stars[z] /\ PlanetRow(t, p) = planets[p]
<1>1. stars[z] \subseteq DOMAIN races /\ planets[p] \subseteq DOMAIN races
  BY DEF GalaxyInv, RowsInv
<1>2. ToolInv(t)
  BY DEF GalaxyInv, ToolsInv
<1>3. ~overlapped => CurrentInv(t)
  BY DEF GalaxyInv, AloneInv
<1> QED  BY <1>1, <1>2, <1>3 DEF StarRow, PlanetRow, ToolInv, CurrentInv

\* The rows of a step that writes none.
LEMMA RowsKept ==
  ASSUME GalaxyInv, UNCHANGED <<galaxy, reused>>
  PROVE  /\ RowsInv' /\ Growing
         /\ ~overlapped => (\A p \in Planet : Alone(p)') /\ (\A z \in Star : Founded(z)')
<1>1. /\ races' = races /\ ships' = ships /\ planets' = planets /\ stars' = stars
      /\ holder' = holder /\ reused' = reused
  BY DEF galaxy
<1>2. RowsInv'
  BY <1>1 DEF GalaxyInv, RowsInv, ParentsFirst, LawfulRaces
<1>3. ~overlapped => (\A p \in Planet : Alone(p)) /\ (\A z \in Star : Founded(z))
  BY DEF GalaxyInv, AloneInv
<1>4. ~overlapped => (\A p \in Planet : Alone(p)') /\ (\A z \in Star : Founded(z)')
  BY <1>1, <1>3 DEF Alone, Founded
<1> QED  BY <1>1, <1>2, <1>4 DEF Growing

\* A search in vain leaves a tool with every row it has read.
LEMMA SearchedSound ==
  ASSUME GalaxyInv, NEW t \in Tool, pc[t] \notin Writing,
         OthersStay(t), Overlap(t), UNCHANGED <<galaxy, reused>>, mem'[t] = Searched(t),
         \/ pc'[t] \in {"off", "design"} /\ job'[t] = Idle
         \/ pc'[t] = "asked" /\ job'[t] \in [spec : {None}, arch : Archetype]
  PROVE  GalaxyInv'
<1>1. /\ RowsInv' /\ Growing
      /\ ~overlapped => (\A p \in Planet : Alone(p)') /\ (\A z \in Star : Founded(z)')
  BY RowsKept
<1>2. races' = races /\ stars' = stars /\ planets' = planets
  BY DEF galaxy
<1> DEFINE P == {q \in Planet : Uninhabited(t, StarOf[q])} \cup DOMAIN mem[t].planets
<1>3. /\ DOMAIN mem'[t].stars = Star /\ \A z \in Star : mem'[t].stars[z] = StarRow(t, z)
      /\ DOMAIN mem'[t].planets = P /\ \A p \in P : mem'[t].planets[p] = PlanetRow(t, p)
  <2>1. /\ mem'[t].stars = [z \in Star |-> StarRow(t, z)]
        /\ mem'[t].planets = [p \in P |-> PlanetRow(t, p)]
    BY DEF Searched
  <2> QED  BY <2>1
<1>4. \A p \in P : /\ PlanetRow(t, p) \subseteq DOMAIN races
                   /\ ~overlapped => PlanetRow(t, p) = planets[p]
  <2> TAKE p \in P
  <2>1. CASE p \in Planet
    <3>1. \E z : z \in Star
      BY <2>1, CatalogueAssumption
    <3> QED  BY <2>1, <3>1, RowsRead
  <2>2. CASE p \in DOMAIN mem[t].planets
    <3>1. ToolInv(t) /\ (~overlapped => CurrentInv(t))
      BY DEF GalaxyInv, ToolsInv, AloneInv
    <3> QED  BY <2>2, <3>1 DEF PlanetRow, ToolInv, CurrentInv
  <2> QED  BY <2>1, <2>2
<1>5. \A z \in Star : /\ StarRow(t, z) \subseteq DOMAIN races
                      /\ ~overlapped => StarRow(t, z) = stars[z]
  BY DEF StarRow, GalaxyInv, RowsInv, ToolsInv, AloneInv, ToolInv, CurrentInv
<1> HIDE DEF P
<1>6. pc'[t] \in {"off", "design", "asked"} /\ pc'[t] \in Stage
  BY DEF Stage
<1>7. ToolInv(t)'
  BY <1>2, <1>3, <1>4, <1>5, <1>6 DEF ToolInv, Writing
<1>8. ~overlapped => CurrentInv(t)'
  BY <1>2, <1>3, <1>4, <1>5, <1>6 DEF CurrentInv, Writing
<1>9. ~overlapped' => ~overlapped
  BY DEF Overlap
<1> QED  BY <1>1, <1>7, <1>8, <1>9, GalaxyStep

LEMMA SearchingSound ==
  ASSUME GalaxyInv, EnrollInVain \/ WizardInVain
  PROVE  GalaxyInv'
<1>1. pc \in [Tool -> Stage] /\ DOMAIN job = Tool /\ DOMAIN mem = Tool
  BY DEF GalaxyInv, ToolsInv
<1>2. CASE EnrollInVain
  <2> DEFINE t == "racegen"
  <2>1. /\ t \in Tool /\ pc[t] = "design" /\ pc' = pc /\ job' = job
        /\ mem' = [mem EXCEPT ![t] = Searched(t)] /\ Overlap(t) /\ UNCHANGED <<galaxy, reused>>
    BY <1>2 DEF EnrollInVain, Tool
  <2>2. job[t] = Idle
    BY <2>1 DEF GalaxyInv, ToolsInv, ToolInv
  <2>3. OthersStay(t) /\ mem'[t] = Searched(t)
    BY <1>1, <2>1 DEF OthersStay, Stage, Writing
  <2>4. pc[t] \notin Writing /\ pc'[t] \in {"off", "design"} /\ job'[t] = Idle
    BY <2>1, <2>2 DEF Writing
  <2> QED  BY <2>1, <2>3, <2>4, SearchedSound
<1>3. CASE WizardInVain
  <2> DEFINE t == "enrol"
  <2>1. PICK a \in Archetype :
          /\ t \in Tool /\ pc[t] = "off" /\ pc' = [pc EXCEPT ![t] = "asked"]
          /\ job' = [job EXCEPT ![t] = [spec |-> None, arch |-> a]]
          /\ mem' = [mem EXCEPT ![t] = Searched(t)] /\ Overlap(t) /\ UNCHANGED <<galaxy, reused>>
    BY <1>3 DEF WizardInVain, Tool
  <2>2. OthersStay(t) /\ mem'[t] = Searched(t)
    BY <1>1, <2>1 DEF OthersStay, Stage, Writing
  <2>3. pc[t] \notin Writing /\ pc'[t] = "asked" /\ job'[t] \in [spec : {None}, arch : Archetype]
    BY <1>1, <2>1 DEF Writing
  <2> QED  BY <2>1, <2>2, <2>3, SearchedSound
<1> QED  BY <1>2, <1>3

LEMMA RollingSound ==
  ASSUME GalaxyInv, WizardSearch
  PROVE  GalaxyInv'
<1> DEFINE t == "enrol"
<1>1. /\ pc \in [Tool -> Stage] /\ DOMAIN job = Tool /\ DOMAIN mem = Tool
      /\ t \in Tool /\ ToolInv(t) /\ (~overlapped => CurrentInv(t))
  BY DEF Tool, GalaxyInv, ToolsInv, AloneInv
<1>2. /\ pc[t] \in {"off", "asked"} /\ mem' = mem /\ Overlap(t) /\ UNCHANGED <<galaxy, reused>>
  BY DEF WizardSearch
<1>3. PICK a \in Archetype, type \in PlanetType :
        \E p \in Suitable(t, type) :
          /\ pc' = [pc EXCEPT ![t] = "rolling"]
          /\ job' = [job EXCEPT ![t] =
                       [spec |-> None, arch |-> a, type |-> type, home |-> p,
                        star |-> StarRow(t, StarOf[p]), planet |-> PlanetRow(t, p)]]
  BY Zenon DEF WizardSearch
<1>4. PICK p \in Suitable(t, type) :
        /\ pc' = [pc EXCEPT ![t] = "rolling"]
        /\ job' = [job EXCEPT ![t] =
                     [spec |-> None, arch |-> a, type |-> type, home |-> p,
                      star |-> StarRow(t, StarOf[p]), planet |-> PlanetRow(t, p)]]
  BY <1>3
<1>5. p \in Planet /\ PlanetRow(t, p) = {}
  BY DEF Suitable, Vacant
<1>6. StarOf[p] \in Star
  BY <1>5, CatalogueAssumption
<1>7. /\ StarRow(t, StarOf[p]) \subseteq DOMAIN races
      /\ ~overlapped => StarRow(t, StarOf[p]) = stars[StarOf[p]] /\ PlanetRow(t, p) = planets[p]
  BY <1>1, <1>2, <1>5, <1>6, RowsRead DEF Writing
<1>8. OthersStay(t)
  BY <1>1, <1>2, <1>4 DEF OthersStay, Stage, Writing
<1>9. /\ RowsInv' /\ Growing
      /\ ~overlapped => (\A q \in Planet : Alone(q)') /\ (\A z \in Star : Founded(z)')
  BY <1>2, RowsKept
<1>10. pc'[t] = "rolling" /\ mem'[t] = mem[t] /\ races' = races /\ stars' = stars
      /\ planets' = planets
  BY <1>1, <1>2, <1>4 DEF galaxy
<1>11. /\ job'[t].home = p /\ job'[t].star = StarRow(t, StarOf[p])
      /\ job'[t].planet = PlanetRow(t, p)
  BY <1>1, <1>4
<1>12. job'[t] \in Roll
  <2>1. DOMAIN races \subseteq Nat
    BY DEF GalaxyInv, RowsInv
  <2>2. job'[t] = [spec |-> None, arch |-> a, type |-> type, home |-> p,
                   star |-> StarRow(t, StarOf[p]), planet |-> PlanetRow(t, p)]
    BY <1>1, <1>4
  <2>3. StarRow(t, StarOf[p]) \in SUBSET Nat /\ PlanetRow(t, p) \in SUBSET Nat
    BY <1>7, <1>5, <2>1
  <2> QED  BY <1>5, <2>2, <2>3 DEF Roll
<1>13. ToolInv(t)'
  <2>1. HasRead(t)'
    BY <1>5, <1>7, <1>10, <1>11 DEF HasRead
  <2> QED  BY <1>1, <1>10, <1>12, <2>1 DEF ToolInv, Stage, Writing
<1>14. ~overlapped => CurrentInv(t)'
  BY <1>1, <1>2, <1>5, <1>7, <1>10, <1>11 DEF CurrentInv, Writing
<1>15. ~overlapped' => ~overlapped
  BY <1>2 DEF Overlap
<1> QED  BY <1>1, <1>2, <1>8, <1>9, <1>13, <1>14, <1>15, GalaxyStep

\* An enrolment begins, with a design that holds to the rules and rows that are
\* current if the tool is alone.
LEMMA EnrollingSound ==
  ASSUME GalaxyInv, NEW t \in Tool, NEW s \in Design, NEW p \in Planet, NEW star, NEW planet,
         NEW again \in BOOLEAN, EnrollPlayer(t, s, p, star, planet, again),
         star \subseteq DOMAIN races, planet \subseteq DOMAIN races,
         ~overlapped =>
            star = stars[StarOf[p]] /\ planet = planets[p] /\ (~again => planet = {}),
         UNCHANGED <<mem, galaxy, reused>>
  PROVE  GalaxyInv'
<1>1. /\ pc \in [Tool -> Stage] /\ DOMAIN job = Tool /\ DOMAIN mem = Tool /\ ToolInv(t)
  BY DEF GalaxyInv, ToolsInv
<1> DEFINE num == Max(DOMAIN races) + 1
<1>2. PICK x \in CapitalSites(p, s.pref) :
        job' = [job EXCEPT ![t] =
                 [spec |-> s, num |-> num, home |-> p, site |-> x, ship |-> 0,
                  star |-> star, planet |-> planet, again |-> again]]
  BY DEF EnrollPlayer
<1>3. pc' = [pc EXCEPT ![t] = "enrolling"] /\ Lawful(s) /\ Overlap(t)
  BY DEF EnrollPlayer, Enrollable
<1>4. x \in Site
  BY DEF CapitalSites
<1>5. num \in Nat /\ num \notin DOMAIN races /\ DOMAIN races \subseteq Nat
  <2>1. IsFiniteSet(DOMAIN races) /\ DOMAIN races \subseteq Nat /\ DOMAIN races # {}
    BY DEF GalaxyInv, RowsInv
  <2>2. Max(DOMAIN races) \in DOMAIN races /\ \A y \in DOMAIN races : y <= Max(DOMAIN races)
    BY <2>1, MaxIsLargest
  <2> QED  BY <2>1, <2>2
<1> HIDE DEF num
<1>6. OthersStay(t)
  BY <1>1, <1>2, <1>3 DEF OthersStay, Stage, Writing
<1>7. /\ RowsInv' /\ Growing
      /\ ~overlapped => (\A q \in Planet : Alone(q)') /\ (\A z \in Star : Founded(z)')
  BY RowsKept
<1>8. /\ pc'[t] = "enrolling" /\ mem'[t] = mem[t] /\ races' = races /\ stars' = stars
      /\ planets' = planets
  BY <1>1, <1>3 DEF galaxy
<1>9. job'[t] = [spec |-> s, num |-> num, home |-> p, site |-> x, ship |-> 0,
                 star |-> star, planet |-> planet, again |-> again]
  BY <1>1, <1>2
<1>10. job'[t] \in Job
  BY <1>4, <1>5, <1>9 DEF Job
<1>11. /\ job'[t].spec = s /\ job'[t].num = num /\ job'[t].home = p /\ job'[t].star = star
       /\ job'[t].planet = planet /\ job'[t].again = again
  BY <1>9
<1>12. ToolInv(t)'
  <2>1. HasRead(t)' /\ Lawful(job'[t].spec)
    BY <1>3, <1>8, <1>11 DEF HasRead
  <2> QED  BY <1>1, <1>8, <1>10, <2>1 DEF ToolInv, Stage, Writing
<1>13. ~overlapped => CurrentInv(t)'
  BY <1>5, <1>8, <1>11 DEF CurrentInv, Writing
<1>14. ~overlapped' => ~overlapped
  BY <1>3 DEF Overlap
<1> QED  BY <1>3, <1>6, <1>7, <1>12, <1>13, <1>14, GalaxyStep

\* ... on a planet the design remembers, or one it finds.
LEMMA SomewhereSound ==
  ASSUME GalaxyInv, NEW t \in Tool, NEW s \in Design, pc[t] \notin Writing,
         EnrollSomewhere(t, s), UNCHANGED <<mem, galaxy, reused>>
  PROVE  GalaxyInv'
<1>1. PICK p \in IF s.target # None THEN {s.target} ELSE Suitable(t, s.home) :
        EnrollPlayer(t, s, p, StarRow(t, StarOf[p]), PlanetRow(t, p), s.target # None)
  BY DEF EnrollSomewhere
<1>2. p \in Planet
  BY <1>1 DEF Suitable, Design
<1>3. s.target = None => PlanetRow(t, p) = {}
  BY <1>1 DEF Suitable, Vacant
<1>4. /\ StarRow(t, StarOf[p]) \subseteq DOMAIN races /\ PlanetRow(t, p) \subseteq DOMAIN races
      /\ ~overlapped => StarRow(t, StarOf[p]) = stars[StarOf[p]] /\ PlanetRow(t, p) = planets[p]
  BY <1>2, RowsRead, CatalogueAssumption
<1> DEFINE again == s.target # None
<1>5. again \in BOOLEAN /\ (~again => PlanetRow(t, p) = {})
  BY <1>3
<1>6. EnrollPlayer(t, s, p, StarRow(t, StarOf[p]), PlanetRow(t, p), again)
  BY <1>1
<1> HIDE DEF again
<1> QED  BY <1>2, <1>4, <1>5, <1>6, EnrollingSound

LEMMA EnrolmentStarts ==
  ASSUME EnrolmentInv, Enroll \/ EnrolFile \/ WizardAccept
  PROVE  EnrolmentInv'
<1>1. DesignInv /\ GalaxyInv
  BY DEF EnrolmentInv
<1>2. CASE Enroll
  <2>1. /\ "racegen" \in Tool /\ pc["racegen"] \notin Writing /\ design \in Design
        /\ EnrollSomewhere("racegen", design) /\ UNCHANGED <<mem, galaxy, reused>>
    BY <1>1, <1>2 DEF Enroll, Tool, Writing, DesignInv
  <2>2. GalaxyInv'
    BY <1>1, <2>1, SomewhereSound
  <2>3. DesignInv'
    BY <1>1, <1>2 DEF Enroll, design_vars, DesignInv, CostIsCurrent, DesignIsValid
  <2> QED  BY <2>2, <2>3 DEF EnrolmentInv
<1>3. CASE EnrolFile
  <2>1. /\ "enrol" \in Tool /\ pc["enrol"] \notin Writing /\ file \in Design
        /\ EnrollSomewhere("enrol", file) /\ UNCHANGED <<mem, galaxy, reused>>
    BY <1>1, <1>3 DEF EnrolFile, Tool, Writing, DesignInv
  <2>2. GalaxyInv'
    BY <1>1, <2>1, SomewhereSound
  <2>3. DesignInv'
    BY <1>1, <1>3 DEF EnrolFile, design_vars, DesignInv, CostIsCurrent, DesignIsValid
  <2> QED  BY <2>2, <2>3 DEF EnrolmentInv
<1>4. CASE WizardAccept
  <2> DEFINE t == "enrol"
             j == job[t]
  <2>1. t \in Tool /\ pc[t] = "rolling" /\ j \in Roll /\ HasRead(t) /\ (~overlapped => CurrentInv(t))
    BY <1>1, <1>4 DEF WizardAccept, Tool, GalaxyInv, ToolsInv, ToolInv, AloneInv
  <2>2. PICK random \in {-1, 0, 1}, signed \in BOOLEAN :
          /\ j.arch.vigor + random \in Vigor \ {0}
          /\ file' = [Preset(j.arch, j.type, j.arch.vigor + random) EXCEPT
                         !.signed = signed, !.target = j.home]
          /\ EnrollPlayer(t, file', j.home, j.star, j.planet, FALSE)
    BY <1>4 DEF WizardAccept
  <2>3. /\ j.arch \in Archetype /\ j.type \in PlanetType /\ j.home \in Planet
        /\ j.star \subseteq DOMAIN races /\ j.planet \subseteq DOMAIN races
    BY <2>1 DEF Roll, HasRead
  <2>4. file' \in Design
    <3> DEFINE d == Preset(j.arch, j.type, j.arch.vigor + random)
    <3>1. d \in Design
      BY <2>2, <2>3, PresetSound
    <3>2. signed \in Flag /\ j.home \in Planet \cup {None}
      BY <2>3 DEF Flag
    <3> HIDE DEF d
    <3>3. [d EXCEPT !.signed = signed] \in Design
      BY <3>1, <3>2, FieldEdits
    <3>4. [[d EXCEPT !.signed = signed] EXCEPT !.target = j.home] \in Design
      BY <3>2, <3>3, FieldEdits
    <3> QED  BY <2>2, <3>4 DEF d
  <2>5. Valid(file')
    BY <2>2 DEF EnrollPlayer, Enrollable, Lawful
  <2>6. /\ UNCHANGED <<design, cost, mem, galaxy, reused>>
    BY <1>4 DEF WizardAccept
  <2>7. ~overlapped => j.star = stars[StarOf[j.home]] /\ j.planet = planets[j.home] /\ j.planet = {}
    BY <2>1 DEF CurrentInv
  <2>8. GalaxyInv'
    <3> DEFINE s == file'
    <3>1. /\ s \in Design /\ EnrollPlayer(t, s, j.home, j.star, j.planet, FALSE)
      BY <2>2, <2>4
    <3> HIDE DEF s
    <3> QED  BY <1>1, <2>1, <2>3, <2>6, <2>7, <3>1, EnrollingSound
  <2>9. DesignInv'
    BY <1>1, <2>4, <2>5, <2>6 DEF DesignInv, CostIsCurrent, DesignIsValid
  <2> QED  BY <2>8, <2>9 DEF EnrolmentInv
<1> QED  BY <1>2, <1>3, <1>4

-----------------------------------------------------------------------------
(* The writes of an enrolment *)

\* A race that is made of a lawful design obeys the rules, with the compatibilities
\* of its planet as with its own, and what the design asked for is paid.
LEMMA RowSound ==
  ASSUME NEW s \in Design, Lawful(s), NEW gov \in Nat
  PROVE  /\ RowOf(gov, s) \in RaceRow /\ RowOf(gov, s).gov = gov
         /\ Valid(RowOf(gov, s).traits) /\ Affordable(Paid(RowOf(gov, s)))
<1> DEFINE b == Built(s)
<1>1. CASE s.compat # Blank
  <2>1. RowOf(gov, s) = [gov |-> gov, traits |-> s, unset |-> FALSE]
    BY <1>1 DEF RowOf, Built
  <2>2. RowOf(gov, s) \in RaceRow /\ Paid(RowOf(gov, s)) = s
    BY <2>1 DEF RaceRow, Paid
  <2> QED  BY <2>1, <2>2 DEF Lawful
<1>2. CASE s.compat = Blank
  <2>1. b = [s EXCEPT !.compat = Likes[s.home]] /\ s.home \in PlanetType
    BY <1>2 DEF Built, Design
  <2>2. /\ RowOf(gov, s) = [gov |-> gov, traits |-> b, unset |-> TRUE]
        /\ Likes[s.home] \in [SectorType -> Compat]
    BY <1>2, <2>1, CatalogueAssumption DEF RowOf, Compat
  <2>3. b \in Design
    BY <2>1, <2>2, FieldEdits
  <2>4. [b EXCEPT !.compat = Blank] = s
    BY <1>2, <2>1 DEF Design
  <2>5. s.home # Jovian
    <3> SUFFICES ASSUME s.home = Jovian
                 PROVE  FALSE
      OBVIOUS
    <3>1. Plated \in Settled(s) /\ Plated # Gas
      BY <1>2, CatalogueAssumption DEF Settled, Blank
    <3> QED  BY <3>1 DEF Lawful, Valid
  <2>6. /\ b.vigor = s.vigor /\ b.iq = s.iq /\ b.limit = s.limit /\ b.meta = s.meta
        /\ b.sexes = s.sexes /\ b.absorb = s.absorb /\ b.pods = s.pods /\ b.home = s.home
        /\ b.compat = Likes[s.home]
    BY <2>1 DEF Design
  <2>7. Likes[s.home][Plated] = 100 /\ Likes[s.home][Gas] = 0
    BY <2>1, <2>5, PresetAssumption
  <2>8. Valid(s)
    BY DEF Lawful
  <2>9. Valid(b)
    <3> HIDE DEF b
    <3> QED  BY <2>5, <2>6, <2>7, <2>8 DEF Valid
  <2>10. Paid(RowOf(gov, s)) = s
    BY <2>2, <2>4 DEF Paid
  <2>11. RowOf(gov, s) \in RaceRow
    <3> HIDE DEF b
    <3> QED  BY <2>2, <2>3 DEF RaceRow
  <2> QED  BY <2>2, <2>9, <2>10, <2>11 DEF Lawful
<1> QED  BY <1>1, <1>2

\* A tool in the midst of its writes.
LEMMA WriterFacts ==
  ASSUME GalaxyInv, NEW t \in Tool, pc[t] \in Writing
  PROVE  /\ pc \in [Tool -> Stage] /\ DOMAIN job = Tool /\ DOMAIN mem = Tool /\ ToolInv(t)
         /\ job[t] \in Job /\ HasRead(t) /\ Lawful(job[t].spec)
         /\ job[t].num \in Nat /\ job[t].home \in Planet /\ job[t].site \in Site
         /\ StarOf[job[t].home] \in Star
         /\ ~overlapped => CurrentInv(t)
         /\ ~overlapped => (\A p \in Planet : Alone(p)) /\ (\A z \in Star : Founded(z))
<1>1. ToolInv(t) /\ job[t] \in Job /\ HasRead(t) /\ Lawful(job[t].spec)
  BY DEF GalaxyInv, ToolsInv, ToolInv
<1>2. job[t].num \in Nat /\ job[t].home \in Planet /\ job[t].site \in Site
  BY <1>1 DEF Job
<1>3. StarOf[job[t].home] \in Star
  BY <1>2, CatalogueAssumption
<1> QED  BY <1>1, <1>2, <1>3 DEF GalaxyInv, ToolsInv, AloneInv

LEMMA CreatingSound ==
  ASSUME GalaxyInv, NEW t \in Tool, CreateRace(t)
  PROVE  GalaxyInv'
<1> DEFINE n == job[t].num
<1>1. /\ pc[t] = "enrolling" /\ pc' = [pc EXCEPT ![t] = "race"] /\ RaceSaved(n, 0, job[t].spec)
      /\ reused' = (IF job[t].again THEN reused \cup {n} ELSE reused)
      /\ Overlap(t) /\ job' = job /\ mem' = mem /\ ships' = ships /\ planets' = planets
      /\ stars' = stars /\ holder' = holder
  BY DEF CreateRace, Step
<1>2. /\ pc \in [Tool -> Stage] /\ DOMAIN job = Tool /\ DOMAIN mem = Tool /\ ToolInv(t)
      /\ job[t] \in Job /\ HasRead(t) /\ Lawful(job[t].spec) /\ n \in Nat
      /\ ~overlapped => CurrentInv(t)
      /\ ~overlapped => (\A p \in Planet : Alone(p)) /\ (\A z \in Star : Founded(z))
  BY <1>1, WriterFacts DEF Writing
<1>3. /\ DOMAIN races' = DOMAIN races \cup {n} /\ races'[n] = RowOf(0, job[t].spec)
      /\ \A m \in DOMAIN races \ {n} : races'[m] = races[m]
  BY <1>1, <1>2 DEF RaceSaved, RowOf
<1> HIDE DEF n
<1>4. RowsInv'
  <2>1. RowsInv
    BY DEF GalaxyInv
  <2>2. IsFiniteSet(DOMAIN races')
    <3>1. IsFiniteSet(DOMAIN races)
      BY <2>1 DEF RowsInv
    <3> QED  BY <1>3, <3>1, FS_AddElement
  <2>3. /\ DOMAIN races' \subseteq Nat /\ 1 \in DOMAIN races'
        /\ \A m \in DOMAIN races' : races'[m] \in RaceRow
    <3>1. races'[n] \in RaceRow
      BY <1>2, <1>3, RowSound DEF Job
    <3>2. \A m \in DOMAIN races \ {n} : races'[m] \in RaceRow
      BY <1>3, <2>1 DEF RowsInv
    <3>3. DOMAIN races \subseteq Nat /\ 1 \in DOMAIN races
      BY <2>1 DEF RowsInv
    <3> QED  BY <1>2, <1>3, <3>1, <3>2, <3>3
  <2>4. /\ ships' \in Seq(Nat) /\ planets' \in [Planet -> SUBSET (DOMAIN races')]
        /\ stars' \in [Star -> SUBSET (DOMAIN races')] /\ holder' \in [Planet -> [Site -> Nat]]
    BY <1>1, <1>3, <2>1 DEF RowsInv
  <2>5. ParentsFirst'
    <3>1. races'[n].gov = 0
      BY <1>3 DEF RowOf
    <3> QED  BY <1>1, <1>3, <2>1, <3>1 DEF RowsInv, ParentsFirst
  <2>6. LawfulRaces'
    <3>1. Valid(races'[n].traits) /\ Affordable(Paid(races'[n]))
      BY <1>2, <1>3, RowSound DEF Job
    <3> QED  BY <1>3, <2>1, <3>1 DEF RowsInv, LawfulRaces
  <2> QED  BY <2>2, <2>3, <2>4, <2>5, <2>6 DEF RowsInv
<1>5. OthersStay(t) /\ Growing /\ pc'[t] = "race"
  BY <1>1, <1>2, <1>3 DEF OthersStay, Stage, Writing, Growing
<1>6. ToolInv(t)'
  <2>1. HasRead(t)'
    BY <1>1, <1>2, <1>3 DEF HasRead
  <2> QED  BY <1>1, <1>2, <1>3, <1>5, <2>1 DEF ToolInv, Stage, Writing, n
<1>7. ASSUME ~overlapped
      PROVE  CurrentInv(t)' /\ (\A p \in Planet : Alone(p)') /\ (\A z \in Star : Founded(z)')
  <2>1. n \notin DOMAIN races
    BY <1>1, <1>2, <1>7 DEF CurrentInv, n
  <2>2. CurrentInv(t)'
    BY <1>1, <1>2, <1>5, <1>7 DEF CurrentInv, Writing, n
  <2>3. \A p \in Planet : Alone(p)'
    <3>1. reused \subseteq reused'
      BY <1>1
    <3> QED  BY <1>1, <1>2, <1>7, <3>1 DEF Alone
  <2>4. \A z \in Star : Founded(z)'
    <3>1. \A z \in Star : stars[z] \subseteq DOMAIN races
      BY DEF GalaxyInv, RowsInv
    <3>2. \A z \in Star : \A m \in stars[z] : races'[m] = races[m]
      BY <1>3, <2>1, <3>1
    <3> QED  BY <1>1, <1>2, <1>7, <3>2 DEF Founded
  <2> QED  BY <2>2, <2>3, <2>4
<1>8. ~overlapped' => ~overlapped
  BY <1>1 DEF Overlap
<1> QED  BY <1>1, <1>4, <1>5, <1>6, <1>7, <1>8, GalaxyStep

LEMMA CommissioningSound ==
  ASSUME GalaxyInv, NEW t \in Tool, CommissionShip(t)
  PROVE  GalaxyInv'
<1> DEFINE n == job[t].num
           i == Len(ships')
<1>1. /\ pc[t] = "race" /\ pc' = [pc EXCEPT ![t] = "ship"] /\ ships' = Append(ships, n)
      /\ job' = [job EXCEPT ![t] = [job[t] EXCEPT !.ship = i]]
      /\ Overlap(t) /\ mem' = mem /\ races' = races /\ planets' = planets
      /\ stars' = stars /\ holder' = holder /\ reused' = reused
  BY DEF CommissionShip, Step
<1>2. /\ pc \in [Tool -> Stage] /\ DOMAIN job = Tool /\ DOMAIN mem = Tool /\ ToolInv(t)
      /\ job[t] \in Job /\ HasRead(t) /\ Lawful(job[t].spec) /\ n \in Nat
      /\ ~overlapped => CurrentInv(t)
      /\ ~overlapped => (\A p \in Planet : Alone(p)) /\ (\A z \in Star : Founded(z))
  BY <1>1, WriterFacts DEF Writing
<1>3. n \in DOMAIN races
  BY <1>1, <1>2 DEF ToolInv, Writing
<1>4. RowsInv /\ ships \in Seq(Nat)
  BY DEF GalaxyInv, RowsInv
<1>5. /\ i \in Nat /\ i # 0 /\ i \in DOMAIN ships' /\ ships'[i] = n /\ ships' \in Seq(Nat)
      /\ DOMAIN ships' = DOMAIN ships \cup {i} /\ \A k \in DOMAIN ships : ships'[k] = ships[k]
  BY <1>1, <1>2, <1>4
<1> HIDE DEF n, i
<1>6. RowsInv'
  <2>1. ParentsFirst'
    BY <1>1, <1>3, <1>4, <1>5 DEF RowsInv, ParentsFirst
  <2> QED  BY <1>1, <1>4, <1>5, <2>1 DEF RowsInv, LawfulRaces
<1>7. OthersStay(t) /\ Growing /\ pc'[t] = "ship" /\ job'[t] = [job[t] EXCEPT !.ship = i]
  BY <1>1, <1>2, <1>5 DEF OthersStay, Stage, Writing, Growing
<1>8. /\ job'[t] \in Job /\ job'[t].ship = i /\ job'[t].num = n /\ job'[t].spec = job[t].spec
      /\ job'[t].home = job[t].home /\ job'[t].star = job[t].star
      /\ job'[t].planet = job[t].planet /\ job'[t].again = job[t].again
  BY <1>2, <1>5, <1>7 DEF Job, n
<1>9. ToolInv(t)'
  <2>1. HasRead(t)'
    BY <1>1, <1>2, <1>8 DEF HasRead
  <2> QED  BY <1>1, <1>2, <1>3, <1>5, <1>7, <1>8, <2>1 DEF ToolInv, Stage, Writing
<1>10. ASSUME ~overlapped
       PROVE  CurrentInv(t)' /\ (\A p \in Planet : Alone(p)') /\ (\A z \in Star : Founded(z)')
  <2>1. CurrentInv(t)'
    BY <1>1, <1>2, <1>7, <1>8, <1>10 DEF CurrentInv, Writing, n
  <2> QED  BY <1>1, <1>2, <1>10, <2>1 DEF Alone, Founded
<1>11. ~overlapped' => ~overlapped
  BY <1>1 DEF Overlap
<1> QED  BY <1>1, <1>6, <1>7, <1>9, <1>10, <1>11, GalaxyStep

LEMMA LinkingSound ==
  ASSUME GalaxyInv, NEW t \in Tool, LinkShip(t)
  PROVE  GalaxyInv'
<1> DEFINE n == job[t].num
           i == job[t].ship
<1>1. /\ pc[t] = "ship" /\ pc' = [pc EXCEPT ![t] = "linked"] /\ RaceSaved(n, i, job[t].spec)
      /\ Overlap(t) /\ job' = job /\ mem' = mem /\ ships' = ships /\ planets' = planets
      /\ stars' = stars /\ holder' = holder /\ reused' = reused
  BY DEF LinkShip, Step
<1>2. /\ pc \in [Tool -> Stage] /\ DOMAIN job = Tool /\ DOMAIN mem = Tool /\ ToolInv(t)
      /\ job[t] \in Job /\ HasRead(t) /\ Lawful(job[t].spec) /\ n \in Nat
      /\ ~overlapped => CurrentInv(t)
      /\ ~overlapped => (\A p \in Planet : Alone(p)) /\ (\A z \in Star : Founded(z))
  BY <1>1, WriterFacts DEF Writing
<1>3. n \in DOMAIN races /\ i \in DOMAIN ships /\ i # 0 /\ ships[i] = n
  BY <1>1, <1>2 DEF ToolInv, Writing
<1>4. /\ DOMAIN races' = DOMAIN races /\ races'[n] = RowOf(i, job[t].spec)
      /\ \A m \in DOMAIN races \ {n} : races'[m] = races[m]
  BY <1>1, <1>2, <1>3 DEF RaceSaved, RowOf
<1>5. i \in Nat
  BY <1>2 DEF Job
<1> HIDE DEF n, i
<1>6. RowsInv'
  <2>1. RowsInv
    BY DEF GalaxyInv
  <2>2. ParentsFirst'
    <3>1. ParentsFirst
      BY <2>1 DEF RowsInv
    <3>2. races'[n].gov = i
      BY <1>4 DEF RowOf
    <3>3. \A m \in DOMAIN races : races'[m].gov # 0 =>
            races'[m].gov \in DOMAIN ships /\ ships[races'[m].gov] = m
      BY <1>3, <1>4, <3>1, <3>2 DEF ParentsFirst
    <3>4. /\ \A k \in DOMAIN ships : ships[k] \in DOMAIN races
          /\ \A p \in Planet, x \in Site : holder[p][x] # 0 => holder[p][x] \in DOMAIN races
      BY <3>1 DEF ParentsFirst
    <3> QED  BY <1>1, <1>4, <3>3, <3>4 DEF ParentsFirst
  <2>3. LawfulRaces'
    <3>1. Valid(races'[n].traits) /\ Affordable(Paid(races'[n]))
      BY <1>2, <1>4, <1>5, RowSound DEF Job
    <3> QED  BY <1>4, <2>1, <3>1 DEF RowsInv, LawfulRaces
  <2>4. \A m \in DOMAIN races' : races'[m] \in RaceRow
    <3>1. races'[n] \in RaceRow
      BY <1>2, <1>4, <1>5, RowSound DEF Job
    <3>2. \A m \in DOMAIN races \ {n} : races'[m] \in RaceRow
      BY <1>4, <2>1 DEF RowsInv
    <3> QED  BY <1>4, <3>1, <3>2
  <2> QED  BY <1>1, <1>4, <2>1, <2>2, <2>3, <2>4 DEF RowsInv
<1>7. OthersStay(t) /\ Growing /\ pc'[t] = "linked"
  BY <1>1, <1>2, <1>4 DEF OthersStay, Stage, Writing, Growing
<1>8. ToolInv(t)'
  <2>1. HasRead(t)'
    BY <1>1, <1>2, <1>4 DEF HasRead
  <2> QED  BY <1>1, <1>2, <1>3, <1>4, <1>7, <2>1 DEF ToolInv, Stage, Writing, n
<1>9. \A m \in DOMAIN races : races[m].gov # 0 => races'[m].gov # 0
  BY <1>3, <1>4 DEF RowOf
<1>10. ASSUME ~overlapped
       PROVE  CurrentInv(t)' /\ (\A p \in Planet : Alone(p)') /\ (\A z \in Star : Founded(z)')
  <2>1. races'[n].gov # 0
    BY <1>3, <1>4 DEF RowOf
  <2>2. CurrentInv(t)'
    BY <1>1, <1>2, <1>7, <1>10, <2>1 DEF CurrentInv, Writing, n
  <2>3. \A p \in Planet : Alone(p)'
    BY <1>1, <1>2, <1>10 DEF Alone
  <2>4. \A z \in Star : Founded(z)'
    <3>1. \A z \in Star : stars[z] \subseteq DOMAIN races
      BY DEF GalaxyInv, RowsInv
    <3> QED  BY <1>1, <1>2, <1>9, <1>10, <3>1 DEF Founded
  <2> QED  BY <2>2, <2>3, <2>4
<1>11. ~overlapped' => ~overlapped
  BY <1>1 DEF Overlap
<1> QED  BY <1>1, <1>6, <1>7, <1>8, <1>10, <1>11, GalaxyStep

LEMMA SettlingSound ==
  ASSUME GalaxyInv, NEW t \in Tool, SettlePlanet(t)
  PROVE  GalaxyInv'
<1> DEFINE n == job[t].num
           h == job[t].home
           new == job[t].planet \cup {n}
<1>1. /\ pc[t] = "linked" /\ pc' = [pc EXCEPT ![t] = "planet"]
      /\ planets' = [planets EXCEPT ![h] = new]
      /\ Overlap(t) /\ job' = job /\ mem' = mem /\ races' = races /\ ships' = ships
      /\ stars' = stars /\ holder' = holder /\ reused' = reused
  BY DEF SettlePlanet, Step
<1>2. /\ pc \in [Tool -> Stage] /\ DOMAIN job = Tool /\ DOMAIN mem = Tool /\ ToolInv(t)
      /\ job[t] \in Job /\ HasRead(t) /\ Lawful(job[t].spec) /\ n \in Nat /\ h \in Planet
      /\ ~overlapped => CurrentInv(t)
      /\ ~overlapped => (\A p \in Planet : Alone(p)) /\ (\A z \in Star : Founded(z))
  BY <1>1, WriterFacts DEF Writing
<1>3. n \in DOMAIN races /\ new \subseteq DOMAIN races
  BY <1>1, <1>2 DEF ToolInv, Writing, HasRead
<1>4. RowsInv /\ planets \in [Planet -> SUBSET (DOMAIN races)]
  BY DEF GalaxyInv, RowsInv
<1> HIDE DEF new
<1>5. /\ planets'[h] = new /\ \A p \in Planet \ {h} : planets'[p] = planets[p]
      /\ planets' \in [Planet -> SUBSET (DOMAIN races)]
  BY <1>1, <1>2, <1>3, <1>4
<1>6. RowsInv'
  BY <1>1, <1>4, <1>5 DEF RowsInv, ParentsFirst, LawfulRaces
<1>7. OthersStay(t) /\ Growing /\ pc'[t] = "planet"
  BY <1>1, <1>2 DEF OthersStay, Stage, Writing, Growing
<1>8. ToolInv(t)'
  <2>1. HasRead(t)'
    BY <1>1, <1>2 DEF HasRead
  <2> QED  BY <1>1, <1>2, <1>3, <1>7, <2>1 DEF ToolInv, Stage, Writing
<1>9. ASSUME ~overlapped
      PROVE  CurrentInv(t)' /\ (\A p \in Planet : Alone(p)') /\ (\A z \in Star : Founded(z)')
  <2>1. n \in planets'[h]
    BY <1>5 DEF new
  <2>2. job[t].planet = planets[h] /\ new = planets[h] \cup {n}
    BY <1>1, <1>2, <1>9 DEF CurrentInv, new
  <2>3. CurrentInv(t)'
    BY <1>1, <1>2, <1>7, <1>9, <2>1 DEF CurrentInv, Writing
  <2>4. \A p \in Planet : p = h => Alone(p)'
    <3>1. CASE job[t].again
      <4>1. n \in reused
        BY <1>1, <1>2, <1>9, <3>1 DEF CurrentInv, Writing
      <4>2. new \ reused = planets[h] \ reused
        BY <2>2, <4>1
      <4> QED  BY <1>1, <1>2, <1>5, <1>9, <4>2 DEF Alone
    <3>2. CASE ~job[t].again
      <4>1. new = {n}
        BY <1>1, <1>2, <1>9, <2>2, <3>2 DEF CurrentInv, Writing
      <4> QED  BY <1>1, <1>2, <1>5, <4>1 DEF Alone
    <3> QED  BY <3>1, <3>2
  <2>5. \A p \in Planet \ {h} : Alone(p)'
    BY <1>1, <1>2, <1>5, <1>9 DEF Alone
  <2>6. \A p \in Planet : Alone(p)'
    BY <2>4, <2>5
  <2>7. \A p \in Planet : planets[p] \subseteq planets'[p]
    BY <1>5, <2>2
  <2>8. \A z \in Star : Founded(z)'
    BY <1>1, <1>2, <1>9, <2>7 DEF Founded
  <2> QED  BY <2>3, <2>6, <2>8
<1>10. ~overlapped' => ~overlapped
  BY <1>1 DEF Overlap
<1> QED  BY <1>1, <1>6, <1>7, <1>8, <1>9, <1>10, GalaxyStep

LEMMA SectorSound ==
  ASSUME GalaxyInv, NEW t \in Tool, SettleSector(t)
  PROVE  GalaxyInv'
<1> DEFINE n == job[t].num
           h == job[t].home
           x == job[t].site
<1>1. /\ pc[t] = "planet" /\ pc' = [pc EXCEPT ![t] = "sector"]
      /\ holder' = [holder EXCEPT ![h] = [holder[h] EXCEPT ![x] = n]]
      /\ Overlap(t) /\ job' = job /\ mem' = mem /\ races' = races /\ ships' = ships
      /\ stars' = stars /\ planets' = planets /\ reused' = reused
  BY DEF SettleSector, Step
<1>2. /\ pc \in [Tool -> Stage] /\ DOMAIN job = Tool /\ DOMAIN mem = Tool /\ ToolInv(t)
      /\ job[t] \in Job /\ HasRead(t) /\ Lawful(job[t].spec)
      /\ n \in Nat /\ h \in Planet /\ x \in Site
      /\ ~overlapped => CurrentInv(t)
      /\ ~overlapped => (\A p \in Planet : Alone(p)) /\ (\A z \in Star : Founded(z))
  BY <1>1, WriterFacts DEF Writing
<1>3. n \in DOMAIN races
  BY <1>1, <1>2 DEF ToolInv, Writing
<1>4. RowsInv /\ holder \in [Planet -> [Site -> Nat]] /\ ParentsFirst
  BY DEF GalaxyInv, RowsInv
<1> HIDE DEF n, h, x
<1>5. holder' \in [Planet -> [Site -> Nat]]
  <2>1. [holder[h] EXCEPT ![x] = n] \in [Site -> Nat]
    BY <1>2, <1>4
  <2> QED  BY <1>1, <1>2, <1>4, <2>1
<1>6. \A p \in Planet, y \in Site : holder'[p][y] = n \/ holder'[p][y] = holder[p][y]
  BY <1>1, <1>2, <1>4
<1>7. ParentsFirst'
  BY <1>1, <1>3, <1>4, <1>6 DEF ParentsFirst
<1>8. RowsInv'
  BY <1>1, <1>4, <1>5, <1>7 DEF RowsInv, LawfulRaces
<1>9. OthersStay(t) /\ Growing /\ pc'[t] = "sector"
  BY <1>1, <1>2 DEF OthersStay, Stage, Writing, Growing
<1>10. ToolInv(t)'
  <2>1. HasRead(t)'
    BY <1>1, <1>2 DEF HasRead
  <2> QED  BY <1>1, <1>2, <1>3, <1>9, <2>1 DEF ToolInv, Stage, Writing, n
<1>11. ASSUME ~overlapped
       PROVE  CurrentInv(t)' /\ (\A p \in Planet : Alone(p)') /\ (\A z \in Star : Founded(z)')
  <2>1. CurrentInv(t)'
    BY <1>1, <1>2, <1>9, <1>11 DEF CurrentInv, Writing
  <2> QED  BY <1>1, <1>2, <1>11, <2>1 DEF Alone, Founded
<1>12. ~overlapped' => ~overlapped
  BY <1>1 DEF Overlap
<1> QED  BY <1>1, <1>8, <1>9, <1>10, <1>11, <1>12, GalaxyStep

LEMMA MarkingSound ==
  ASSUME GalaxyInv, NEW t \in Tool, MarkStar(t)
  PROVE  GalaxyInv'
<1> DEFINE n == job[t].num
           h == job[t].home
           z0 == StarOf[h]
           new == job[t].star \cup {n}
<1>1. /\ pc[t] = "sector" /\ pc' = [pc EXCEPT ![t] = "off"]
      /\ stars' = [stars EXCEPT ![z0] = new]
      /\ job' = [job EXCEPT ![t] = Idle] /\ mem' = [mem EXCEPT ![t] = Forgotten]
      /\ Overlap(t) /\ races' = races /\ ships' = ships /\ holder' = holder
      /\ planets' = planets /\ reused' = reused
  BY DEF MarkStar, Step, Gone
<1>2. /\ pc \in [Tool -> Stage] /\ DOMAIN job = Tool /\ DOMAIN mem = Tool /\ ToolInv(t)
      /\ HasRead(t) /\ n \in Nat /\ h \in Planet /\ z0 \in Star
      /\ ~overlapped => CurrentInv(t)
      /\ ~overlapped => (\A p \in Planet : Alone(p)) /\ (\A z \in Star : Founded(z))
  BY <1>1, WriterFacts DEF Writing
<1>3. n \in DOMAIN races /\ new \subseteq DOMAIN races
  BY <1>1, <1>2 DEF ToolInv, Writing, HasRead
<1>4. RowsInv /\ stars \in [Star -> SUBSET (DOMAIN races)]
  BY DEF GalaxyInv, RowsInv
<1> HIDE DEF new
<1>5. /\ stars'[z0] = new /\ \A z \in Star \ {z0} : stars'[z] = stars[z]
      /\ stars' \in [Star -> SUBSET (DOMAIN races)]
  BY <1>1, <1>2, <1>3, <1>4
<1>6. RowsInv'
  BY <1>1, <1>4, <1>5 DEF RowsInv, ParentsFirst, LawfulRaces
<1>7. OthersStay(t) /\ Growing
  BY <1>1, <1>2 DEF OthersStay, Stage, Writing, Growing
<1>8. /\ pc'[t] = "off" /\ job'[t] = Idle
      /\ DOMAIN mem'[t].stars = {} /\ DOMAIN mem'[t].planets = {}
  BY <1>1, <1>2 DEF Forgotten
<1>9. ToolInv(t)'
  BY <1>8 DEF ToolInv, Stage, Writing
<1>10. ASSUME ~overlapped
       PROVE  CurrentInv(t)' /\ (\A p \in Planet : Alone(p)') /\ (\A z \in Star : Founded(z)')
  <2>1. CurrentInv(t)'
    BY <1>8 DEF CurrentInv, Writing
  <2>2. /\ job[t].star = stars[z0] /\ races[n].gov # 0 /\ n \in planets[h]
    BY <1>1, <1>2, <1>10 DEF CurrentInv, Writing
  <2>3. \A z \in Star : z = z0 => Founded(z)'
    <3>1. Founded(z0)
      BY <1>2, <1>10
    <3>2. \A m \in new :
            races[m].gov # 0 /\ \E p \in Planet : StarOf[p] = z0 /\ m \in planets[p]
      BY <1>2, <2>2, <3>1 DEF Founded, new
    <3> QED  BY <1>1, <1>5, <3>2 DEF Founded
  <2>4. \A z \in Star \ {z0} : Founded(z)'
    BY <1>1, <1>2, <1>5, <1>10 DEF Founded
  <2>5. \A p \in Planet : Alone(p)'
    BY <1>1, <1>2, <1>10 DEF Alone
  <2> QED  BY <2>1, <2>3, <2>4, <2>5
<1>11. ~overlapped' => ~overlapped
  BY <1>1 DEF Overlap
<1> QED  BY <1>1, <1>6, <1>7, <1>9, <1>10, <1>11, GalaxyStep

-----------------------------------------------------------------------------
(* The theorems *)

LEMMA EnrolmentStartsEmpty ==
  ASSUME EnrolmentInit
  PROVE  EnrolmentInv
<1>1. DesignInv
  BY DefaultSound, HandmadeAssumption DEF EnrolmentInit, DesignInv, CostIsCurrent, DesignIsValid
<1>2. /\ DOMAIN races = {1} /\ races[1] = [gov |-> 0, traits |-> DefaultSpec, unset |-> TRUE]
      /\ ships = <<>> /\ planets = [p \in Planet |-> {}] /\ stars = [z \in Star |-> {}]
      /\ holder = [p \in Planet |-> [x \in Site |-> 0]] /\ overlapped = FALSE
  BY DEF EnrolmentInit
<1>3. RowsInv
  <2>1. IsFiniteSet(DOMAIN races)
    BY <1>2, FS_Singleton
  <2>2. races[1] \in RaceRow /\ races[1].gov = 0
    BY <1>2, DefaultSound DEF RaceRow
  <2>3. ships \in Seq(Nat) /\ DOMAIN ships = {}
    BY <1>2
  <2>4. ParentsFirst
    BY <1>2, <2>2, <2>3 DEF ParentsFirst
  <2>5. LawfulRaces
    BY <1>2 DEF LawfulRaces
  <2>6. /\ planets \in [Planet -> SUBSET (DOMAIN races)] /\ stars \in [Star -> SUBSET (DOMAIN races)]
        /\ holder \in [Planet -> [Site -> Nat]]
    BY <1>2
  <2>7. /\ DOMAIN races \subseteq Nat /\ 1 \in DOMAIN races
    BY <1>2
  <2>8. \A n \in DOMAIN races : races[n] \in RaceRow
    <3>1. \A n \in DOMAIN races : n = 1
      BY <1>2
    <3> QED  BY <2>2, <3>1
  <2> QED  BY <2>1, <2>3, <2>4, <2>5, <2>6, <2>7, <2>8 DEF RowsInv
<1>4. /\ pc = [t \in Tool |-> "off"] /\ job = [t \in Tool |-> Idle]
      /\ mem = [t \in Tool |-> Forgotten]
  BY DEF EnrolmentInit
<1>5. \A t \in Tool : /\ pc[t] = "off" /\ job[t] = Idle
                      /\ DOMAIN mem[t].stars = {} /\ DOMAIN mem[t].planets = {}
  BY <1>4 DEF Forgotten
<1>6. ToolsInv
  <2>1. \A t \in Tool : ToolInv(t)
    BY <1>5 DEF ToolInv, Stage, Writing
  <2>2. pc \in [Tool -> Stage]
    BY <1>4 DEF Stage
  <2> QED  BY <1>4, <2>1, <2>2 DEF ToolsInv
<1>7. AloneInv
  <2>1. \A t \in Tool : ~Busy(t) /\ CurrentInv(t)
    BY <1>4, <1>5 DEF Busy, CurrentInv, Writing
  <2>2. ~(Busy("racegen") /\ Busy("enrol"))
    BY <2>1 DEF Tool
  <2>3. \A p \in Planet : Alone(p)
    BY <1>2 DEF Alone
  <2>4. \A z \in Star : Founded(z)
    BY <1>2 DEF Founded
  <2> QED  BY <2>1, <2>2, <2>3, <2>4 DEF AloneInv
<1> QED  BY <1>1, <1>3, <1>6, <1>7 DEF EnrolmentInv, GalaxyInv

LEMMA EnrolmentStep ==
  ASSUME EnrolmentInv, EnrolmentNext
  PROVE  EnrolmentInv'
<1>1. DesignInv /\ GalaxyInv
  BY DEF EnrolmentInv
<1>2. CASE Drafting
  BY <1>1, <1>2, DraftingSound, DraftingQuiet DEF EnrolmentInv
<1>3. CASE Enroll \/ EnrolFile \/ WizardAccept
  BY <1>3, EnrolmentStarts
<1>4. CASE EnrollInVain \/ WizardInVain
  <2>1. DesignInv'
    BY <1>1, <1>4 DEF EnrollInVain, WizardInVain, design_vars, DesignInv, CostIsCurrent,
                      DesignIsValid
  <2> QED  BY <1>1, <1>4, <2>1, SearchingSound DEF EnrolmentInv
<1>5. CASE WizardSearch
  <2>1. DesignInv'
    BY <1>1, <1>5 DEF WizardSearch, design_vars, DesignInv, CostIsCurrent, DesignIsValid
  <2> QED  BY <1>1, <1>5, <2>1, RollingSound DEF EnrolmentInv
<1>6. ASSUME NEW t \in Tool, Founding(t)
      PROVE  EnrolmentInv'
  <2>1. DesignInv'
    <3>1. CASE MarkStar(t) \/ Leave(t)
      BY <1>1, <3>1, GoneSound DEF MarkStar, Leave
    <3>2. CASE CreateRace(t) \/ CommissionShip(t) \/ LinkShip(t) \/ SettlePlanet(t) \/ SettleSector(t)
      BY <1>1, <3>2 DEF CreateRace, CommissionShip, LinkShip, SettlePlanet, SettleSector,
                        design_vars, DesignInv, CostIsCurrent, DesignIsValid
    <3> QED  BY <1>6, <3>1, <3>2 DEF Founding
  <2>2. GalaxyInv'
    BY <1>1, <1>6, CreatingSound, CommissioningSound, LinkingSound, SettlingSound, SectorSound,
       MarkingSound, LeavingQuiet DEF Founding
  <2> QED  BY <2>1, <2>2 DEF EnrolmentInv
<1> QED  BY <1>2, <1>3, <1>4, <1>5, <1>6 DEF EnrolmentNext, Session, Drafting

THEOREM EnrolmentHolds == EnrolmentSpec => []EnrolmentInv
<1>1. EnrolmentInv /\ UNCHANGED enrolment_vars => EnrolmentInv'
  <2> SUFFICES ASSUME EnrolmentInv, UNCHANGED enrolment_vars
               PROVE  EnrolmentInv'
    OBVIOUS
  <2>1. UNCHANGED <<design, cost, file, pc, job, mem, races, ships, planets, stars, holder, left,
                    overlapped, reused>>
    BY DEF enrolment_vars
  <2>2. DesignInv'
    BY <2>1 DEF EnrolmentInv, DesignInv, CostIsCurrent, DesignIsValid
  <2>3. RowsInv'
    BY <2>1 DEF EnrolmentInv, GalaxyInv, RowsInv, ParentsFirst, LawfulRaces
  <2>4. ToolsInv'
    BY <2>1 DEF EnrolmentInv, GalaxyInv, ToolsInv, ToolInv, HasRead
  <2>5. AloneInv'
    BY <2>1 DEF EnrolmentInv, GalaxyInv, AloneInv, Busy, CurrentInv, Alone, Founded
  <2> QED  BY <2>2, <2>3, <2>4, <2>5 DEF EnrolmentInv, GalaxyInv
<1>2. EnrolmentInv /\ [EnrolmentNext]_enrolment_vars => EnrolmentInv'
  BY <1>1, EnrolmentStep
<1> QED  BY <1>2, EnrolmentStartsEmpty, PTL DEF EnrolmentSpec

\* The rows of an enrolment come in the order in which they need one another, and no
\* planet is given away twice, in every galaxy and with any number of enrolments,
\* whatever tool dies where: Enrolment's FoundedInOrder.
THEOREM RowsComeInOrder == EnrolmentSpec => []FoundedInOrder
<1>1. EnrolmentInv => FoundedInOrder
  <2> SUFFICES ASSUME EnrolmentInv
               PROVE  FoundedInOrder
    OBVIOUS
  <2>1. RowsInv /\ ToolsInv /\ AloneInv
    BY DEF EnrolmentInv, GalaxyInv
  <2>2. EnrolmentTypeOK
    <3>1. pc \in [Tool -> {"off", "design", "asked", "rolling", "enrolling", "race", "ship",
                           "linked", "planet", "sector"}]
      BY <2>1 DEF ToolsInv, ToolInv, Stage, Writing
    <3>2. \A t \in Tool : job[t].spec # None => job[t].spec.target \in Planet \cup {None}
      <4> TAKE t \in Tool
      <4>1. ToolInv(t) /\ pc[t] \in Stage
        BY <2>1 DEF ToolsInv, ToolInv
      <4>2. CASE pc[t] \in Writing
        <5>1. job[t].spec \in Design
          BY <4>1, <4>2 DEF ToolInv, Job
        <5> QED  BY <5>1 DEF Design
      <4>3. CASE pc[t] \notin Writing
        <5>1. job[t].spec = None
          BY <4>1, <4>3 DEF ToolInv, Stage, Roll, Idle
        <5> QED  BY <5>1
      <4> QED  BY <4>2, <4>3
    <3> QED  BY <2>1, <3>1, <3>2 DEF EnrolmentTypeOK, RowsInv, RaceRow
  <2>3. OneSettler
    <3> SUFFICES ASSUME ~overlapped, NEW p \in Planet
                 PROVE  Cardinality(planets[p] \ reused) <= 1
      BY DEF OneSettler
    <3>1. PICK n \in Nat : planets[p] \ reused \subseteq {n}
      BY <2>1 DEF AloneInv, Alone
    <3>2. Cardinality({n}) = 1 /\ IsFiniteSet({n})
      BY FS_Singleton
    <3> DEFINE S == planets[p] \ reused
    <3>3. Cardinality(S) <= Cardinality({n})
      <4> HIDE DEF S
      <4> QED  BY <3>1, <3>2, FS_Subset DEF S
    <3> QED  BY <3>2, <3>3
  <2>4. MarkedIsFounded
    BY <2>1 DEF MarkedIsFounded, AloneInv, Founded
  <2> QED  BY <2>1, <2>2, <2>3, <2>4 DEF FoundedInOrder, RowsInv
<1> QED  BY <1>1, EnrolmentHolds, PTL

\* Whatever was edited, preset, saved, loaded or written into the file by hand, the races
\* of the players obey the rules as build_race made them, and all they have is within the
\* budget but the compatibilities that a race gets whose design set none; the price shown
\* is the design's, and only the file brings a design that breaks a rule: Enrolment's
\* LawfulGalaxy.
THEOREM EveryRaceIsLawful == EnrolmentSpec => []LawfulGalaxy
<1>1. EnrolmentInv => LawfulGalaxy
  BY DEF EnrolmentInv, DesignInv, GalaxyInv, RowsInv, LawfulGalaxy
<1> QED  BY <1>1, EnrolmentHolds, PTL

=============================================================================
