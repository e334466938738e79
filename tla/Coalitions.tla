------------------------------ MODULE Coalitions ------------------------------
(***************************************************************************)
(* Power blocks.  Every race leads one; others belong to it when its       *)
(* leader has invited them and they have pledged, in either order.  A      *)
(* block keeps sums over its members' power rows, computed anew by each of *)
(* the four commands, by every update and when the server starts, and the  *)
(* number of star systems that only members inhabit, counted in updates.   *)
(* The start of the server also makes every founder a member of his block. *)
(***************************************************************************)
EXTENDS Sums

CONSTANTS
  Party,       \* the races
  System       \* stars with one planet each

ASSUME CoalitionAssumption == IsFiniteSet(Party) /\ IsFiniteSet(System)

VARIABLES
  enrolled,    \* races with rows in the database
  up,          \* the server runs
  invited, pledged,
  settled,     \* who owns sectors in each system, as the planets' rows say
  power,       \* the power row of each race: the systems it lives in
  block,       \* members, popn, systems_owned and VPs of each block
  roster,      \* history: the members at the last update
  peopled      \* history: how many systems were inhabited then

coalition_vars ==
  <<enrolled, up, invited, pledged, settled, power, block, roster, peopled>>

Rows == [members : 0..Cardinality(Party), popn : Nat,
         systems : 0..Cardinality(System), vps : Nat]

CoalitionInit ==
  /\ enrolled = {} /\ up = FALSE
  /\ invited = [r \in Party |-> {}] /\ pledged = [r \in Party |-> {}]
  /\ settled = [s \in System |-> {}]
  /\ power = [r \in Party |-> 0]
  /\ block = [r \in Party |-> [members |-> 0, popn |-> 0, systems |-> 0, vps |-> 0]]
  /\ roster = [r \in Party |-> {}] /\ peopled = 0

-----------------------------------------------------------------------------
\* is_member
Members(i, p, r) == i[r] \cap p[r]

Joined(row, who, rows) ==
  [members |-> Cardinality(who), popn |-> SumOf(rows, who),
   systems |-> row.systems, vps |-> row.vps]

\* compute_power_blocks: of enrolled races only
Summed(b, i, p, rows) ==
  [r \in Party |-> IF r \notin enrolled THEN b[r]
                  ELSE Joined(b[r], Members(i, p, r) \cap enrolled, rows)]

\* create_race seeds an empty block and an empty power row. (MODEL: races are
\* enrolled while the server is down.)
EnrolParty(r) ==
  /\ ~up /\ r \notin enrolled
  /\ enrolled' = enrolled \cup {r}
  /\ \E s \in System : settled' = [settled EXCEPT ![s] = @ \cup {r}]
  /\ UNCHANGED <<up, invited, pledged, power, block, roster, peopled>>

\* initialize_block_data, then compute_power_blocks
Founded(f) == [r \in Party |-> IF r \in enrolled THEN f[r] \cup {r} ELSE f[r]]
StartServer ==
  /\ ~up /\ up' = TRUE
  /\ invited' = Founded(invited) /\ pledged' = Founded(pledged)
  /\ block' = Summed(block, invited', pledged', power)
  /\ UNCHANGED <<enrolled, settled, power, roster, peopled>>

StopServer ==
  /\ up /\ up' = FALSE
  /\ UNCHANGED <<enrolled, invited, pledged, settled, power, block, roster, peopled>>

\* The leader r says it of another race q.
Addresses(r, q) == up /\ {r, q} \subseteq enrolled /\ r # q
Recomputed == block' = Summed(block, invited', pledged', power)
Quiet == UNCHANGED <<enrolled, up, settled, power, roster, peopled>>

Invite(r, q) ==
  /\ Addresses(r, q)
  /\ invited' = [invited EXCEPT ![r] = @ \cup {q}] /\ UNCHANGED pledged
  /\ Recomputed /\ Quiet
Uninvite(r, q) ==
  /\ Addresses(r, q)
  /\ invited' = [invited EXCEPT ![r] = @ \ {q}] /\ UNCHANGED pledged
  /\ Recomputed /\ Quiet
Pledge(r, q) ==
  /\ Addresses(r, q)
  /\ pledged' = [pledged EXCEPT ![q] = @ \cup {r}] /\ UNCHANGED invited
  /\ Recomputed /\ Quiet
Unpledge(r, q) ==
  /\ Addresses(r, q)
  /\ pledged' = [pledged EXCEPT ![q] = @ \ {r}] /\ UNCHANGED invited
  /\ Recomputed /\ Quiet

\* A colony is founded or lost, by command or in a segment.
Spread(r, s) ==
  /\ up /\ r \in enrolled
  /\ settled' = [settled EXCEPT ![s] = IF r \in @ THEN @ \ {r} ELSE @ \cup {r}]
  /\ UNCHANGED <<enrolled, up, invited, pledged, power, block, roster, peopled>>

-----------------------------------------------------------------------------
(* The update *)

\* Whoever owns sectors before a planet's turn inhabits its star; a block owns
\* a system all of whose inhabitants are members.
Inhabited == {s \in System : settled[s] # {}}
OwnedSystems(r) == {s \in Inhabited : settled[s] \subseteq Members(invited, pledged, r)}

Scored(row, n) ==
  [members |-> row.members, popn |-> row.popn, systems |-> n, vps |-> 10 * n]

\* MUTANT: the count starts from what is stored.
Accumulated(b) ==
  [r \in Party |-> IF r \notin enrolled THEN b[r]
                  ELSE Scored(b[r], b[r].systems + Cardinality(OwnedSystems(r)))]

\* process_races sets systems_owned to 0, the count of every star adds to it,
\* update_alliance_block_vps makes it points.
Recounted(b) ==
  [r \in Party |-> IF r \notin enrolled THEN b[r]
                  ELSE Scored(b[r], Cardinality(OwnedSystems(r)))]

\* sync_power_ratings: the rows follow the census at the end of the turn
PowerOf(where) == [r \in Party |->
  IF r \in enrolled THEN Cardinality({s \in System : r \in where[s]}) ELSE power[r]]

UpdateBlocks ==
  /\ up
  /\ settled' \in {w \in [System -> SUBSET Party] : \A s \in System : w[s] \subseteq settled[s]}
  /\ power' = PowerOf(settled')
  /\ block' = Summed(Recounted(block), invited, pledged, power')
  /\ roster' = [r \in Party |-> Members(invited, pledged, r)]
  /\ peopled' = Cardinality(Inhabited)
  /\ UNCHANGED <<enrolled, up, invited, pledged>>

CoalitionNext ==
  \/ \E r, q \in Party : Invite(r, q) \/ Uninvite(r, q) \/ Pledge(r, q) \/ Unpledge(r, q)
  \/ \E r \in Party, s \in System : Spread(r, s)
  \/ \E r \in Party : EnrolParty(r)
  \/ StartServer \/ StopServer \/ UpdateBlocks

CoalitionSpec == CoalitionInit /\ [][CoalitionNext]_coalition_vars

-----------------------------------------------------------------------------
(* Properties *)

\* The variables keep their types.
CoalitionTypeOK ==
  /\ enrolled \subseteq Party /\ up \in BOOLEAN
  /\ invited \in [Party -> SUBSET Party] /\ pledged \in [Party -> SUBSET Party]
  /\ settled \in [System -> SUBSET Party]
  /\ power \in [Party -> Nat] /\ block \in [Party -> Rows]

\* What is stored of a block is always the sum over those who are members now.
BlockBooks ==
  up => \A r \in enrolled :
    LET who == Members(invited, pledged, r)
    IN /\ block[r].members = Cardinality(who)
       /\ block[r].popn = SumOf(power, who)

\* docs/diplomacy.md:159 "The founder is permanently considered a member of
\* their own block", though a race is enrolled without that.
FounderIsMember == up => \A r \in enrolled : r \in Members(invited, pledged, r)

\* Two blocks without a common member never count the same system, nor one
\* they counted in an earlier update.
SystemsCountOnce ==
  \A r, q \in Party :
    roster[r] \cap roster[q] = {} => block[r].systems + block[q].systems <= peopled

\* Blocks are sums over their members and count what these hold alone.
BlocksCoherent == CoalitionTypeOK /\ BlockBooks /\ FounderIsMember /\ SystemsCountOnce
=============================================================================
