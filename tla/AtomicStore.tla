----------------------------- MODULE AtomicStore -----------------------------
(***************************************************************************)
(* What the rest of the game expects of the EntityManager: a store of      *)
(* entities that commands and turns change through a draft.  The draft     *)
(* becomes the world all at once or not at all, a removed entity does not  *)
(* come back, and an id is used once.  The one liberty the code takes is   *)
(* explicit: an entity created in a scope may be published before its end. *)
(***************************************************************************)
CONSTANTS Keys, Values, NoRow, Deleted

VARIABLES
  world,  \* what survives a crash
  draft,  \* what the open scope sees
  open    \* a command or a turn is changing the draft

storeVars == <<world, draft, open>>

Init ==
  /\ world \in [Keys -> Values \cup {NoRow}]
  /\ draft = world
  /\ open = FALSE

Begin ==
  /\ ~open /\ open' = TRUE
  /\ UNCHANGED <<world, draft>>

Change(k, v) ==
  /\ open
  /\ draft[k] \in Values /\ v \in Values \cup {Deleted}
  /\ draft' = [draft EXCEPT ![k] = v]
  /\ UNCHANGED <<world, open>>

Create(k, v) ==
  /\ open
  /\ draft[k] = NoRow
  /\ draft' = [draft EXCEPT ![k] = v]
  /\ UNCHANGED <<world, open>>

Publish(k, v) ==
  /\ open
  /\ draft[k] = NoRow /\ world[k] = NoRow
  /\ draft' = [draft EXCEPT ![k] = v]
  /\ world' = [world EXCEPT ![k] = v]
  /\ UNCHANGED open

Commit ==
  /\ open /\ open' = FALSE
  /\ world' = draft
  /\ UNCHANGED draft

Abort ==
  /\ open /\ open' = FALSE
  /\ draft' = world
  /\ UNCHANGED world

\* Outside any scope a single entity is saved on its own.
SaveOne(k, v) ==
  /\ ~open
  /\ world[k] \in Values
  /\ world' = [world EXCEPT ![k] = v]
  /\ draft' = world'
  /\ UNCHANGED open

Next ==
  \/ Begin \/ Commit \/ Abort
  \/ \E k \in Keys :
       \/ \E v \in Values : Create(k, v) \/ Publish(k, v) \/ SaveOne(k, v)
       \/ \E v \in Values \cup {Deleted} : Change(k, v)

Spec == Init /\ [][Next]_storeVars
=============================================================================
