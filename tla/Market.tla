------------------------------- MODULE Market -------------------------------
(***************************************************************************)
(* The commodity market: sell.cc lists a lot, bid.cc bids on it, and the   *)
(* update's process_market_transactions (doturncmd.cc) settles it.  A bid  *)
(* reserves nothing, so everything that moves money or governors between a *)
(* bid and its settlement is modelled too: pay.cc, grant.cc, revoke.cc,    *)
(* appoint.cc.  Commands run one at a time and never inside an update.     *)
(*                                                                         *)
(* One commodity stands for the four, which never mix.  A star has one     *)
(* planet.  A session outlives the revocation of its governor (revoke.cc   *)
(* closes none), so the commands below are guarded by what the code        *)
(* checks, not by the governor being active.                               *)
(***************************************************************************)
EXTENDS Integers, FiniteSets, FiniteSetsExt, Functions, Sums

CONSTANTS
  Race, Planet,
  Governor,     \* <<race, id>>; id 1 is the race's leader
  Port,         \* <<race, planet>>: an undamaged starport and a stockpile
  Fee(_, _, _), \* shipping_cost(to, from, bid), the exponential left abstract
  Goods,        \* units of the commodity each port starts with
  Money,        \* money that exists: in treasuries and outside them
  MaxAP,        \* action points a race has at a port after an update
  MaxLots,      \* bound: lot numbers, which are never used twice
  None          \* no bidder, no destination

Leader == 1

ASSUME ConstantsAssumption ==
  /\ Governor \subseteq Race \X (Nat \ {0})
  /\ \A r \in Race : <<r, Leader>> \in Governor
  /\ Port \subseteq Race \X Planet
  /\ IsFiniteSet(Governor) /\ IsFiniteSet(Port)
  /\ None \notin Governor /\ None \notin Planet
  /\ Goods \in Nat /\ Money \in Nat /\ MaxAP \in Nat /\ MaxLots \in Nat
  /\ \A p, q \in Planet, b \in 0..Money : Fee(p, q, b) \in Nat

VARIABLES
  active,    \* the governors each race has appointed
  treasury,  \* governor -> money
  outside,   \* money in no treasury: spent, or not earned yet
  stock,     \* port -> units in the race's stockpile there
  ap,        \* port -> the race's action points at that star
  starGov,   \* port -> the governor the race put over that star
  lots,      \* lot number -> lot, for the lots on the market
  nextLot,   \* the next lot number
  queue,     \* lots the running update has not reached
  visited    \* history: the lots that an update has visited

market_vars == <<active, treasury, outside, stock, ap, starGov, lots, nextLot, queue, visited>>

LotId == 1..MaxLots
Lot == [seller : Governor, amount : Nat \ {0}, deliver : BOOLEAN, bid : 0..Money,
        bidder : Governor \cup {None}, from : Planet, to : Planet \cup {None}]

HasBid(c) == c.bidder # None
RaceOf(g) == g[1]
LeaderOf(r) == <<r, Leader>>
Idle == queue = {}

(* Star::control *)
Controls(g, p) == g[2] = Leader \/ starGov[<<RaceOf(g), p>>] = g[2]

MarketInit ==
  /\ active = {LeaderOf(r) : r \in Race}
  /\ treasury = [g \in Governor |-> 0]
  /\ outside = Money
  /\ stock = [p \in Port |-> Goods]
  /\ ap = [p \in Port |-> MaxAP]
  /\ starGov = [p \in Port |-> Leader]
  /\ lots = << >>
  /\ nextLot = 1
  /\ queue = {}
  /\ visited = {}

-----------------------------------------------------------------------------
(* Sell: no more than the stockpile holds, at an action point a unit up to  *)
(* twenty; the goods leave the planet at once.                              *)
ListingCost(amount) == IF amount < 20 THEN amount ELSE 20

NewLot(g, p, amount) ==
  [seller |-> g, amount |-> amount, deliver |-> FALSE, bid |-> 0,
   bidder |-> None, from |-> p, to |-> None]

Sell(g, p, asked) ==
  LET port == <<RaceOf(g), p>>
      amount == IF asked < stock[port] THEN asked ELSE stock[port]
  IN  /\ Idle /\ nextLot \in LotId
      /\ Controls(g, p)
      /\ stock[port] > 0 /\ ap[port] >= ListingCost(amount)
      /\ ap' = [ap EXCEPT ![port] = @ - ListingCost(amount)]
      /\ stock' = [stock EXCEPT ![port] = @ - amount]
      /\ lots' = [l \in DOMAIN lots \cup {nextLot} |->
                    IF l = nextLot THEN NewLot(g, p, amount) ELSE lots[l]]
      /\ nextLot' = nextLot + 1
      /\ UNCHANGED <<active, treasury, outside, starGov, queue, visited>>

(* Commod::min_next_bid: ten per cent up, truncated to whole money *)
MinNextBid(bid) == (bid * 11) \div 10

(* Bid: goods go to the planet the bid was made from. *)
Bid(g, p, l, amount) ==
  LET c == lots[l] IN
  /\ Idle
  /\ <<RaceOf(g), p>> \in Port /\ Controls(g, p)
  /\ RaceOf(c.seller) = RaceOf(g) => p = c.from
  /\ amount > 0 /\ amount >= MinNextBid(c.bid)
  /\ g \in active /\ amount <= treasury[g]
  /\ lots' = [lots EXCEPT ![l].bid = amount, ![l].bidder = g, ![l].to = p]
  /\ UNCHANGED <<active, treasury, outside, stock, ap, starGov, nextLot, queue, visited>>

-----------------------------------------------------------------------------
(* The rest of the treasury's life.  Spend stands for insurgency, enlist   *)
(* and maintenance; Earn for taxes and a deity's bless.                    *)
Spend(g, amount) ==
  /\ Idle /\ g \in active /\ amount <= treasury[g]
  /\ treasury' = [treasury EXCEPT ![g] = @ - amount]
  /\ outside' = outside + amount
  /\ UNCHANGED <<active, stock, ap, starGov, lots, nextLot, queue, visited>>

Earn(g, amount) ==
  /\ Idle /\ g \in active /\ amount <= outside
  /\ treasury' = [treasury EXCEPT ![g] = @ + amount]
  /\ outside' = outside - amount
  /\ UNCHANGED <<active, stock, ap, starGov, lots, nextLot, queue, visited>>

\* MUTANT: both sums are taken from the treasury before the payment
MovedByCopy(from, to, amount) ==
  [treasury EXCEPT ![from] = @ - amount, ![to] = treasury[to] + amount]
(* money moved from one governor to another, who may be the same *)
Moved(from, to, amount) ==
  [[treasury EXCEPT ![from] = @ - amount] EXCEPT ![to] = @ + amount]

(* a leader pays another race's leader, or takes or gives inside the race *)
Pay(r, s, amount) ==
  /\ Idle /\ amount > 0 /\ amount <= treasury[LeaderOf(r)]
  /\ treasury' = Moved(LeaderOf(r), LeaderOf(s), amount)
  /\ UNCHANGED <<active, outside, stock, ap, starGov, lots, nextLot, queue, visited>>

Grant(from, to, amount) ==
  /\ Idle /\ {from, to} \subseteq active
  /\ RaceOf(from) = RaceOf(to) /\ Leader \in {from[2], to[2]}
  /\ amount <= treasury[from]
  /\ treasury' = Moved(from, to, amount)
  /\ UNCHANGED <<active, outside, stock, ap, starGov, lots, nextLot, queue, visited>>

GrantStar(g, p) ==
  /\ Idle /\ g \in active
  /\ starGov' = [starGov EXCEPT ![<<RaceOf(g), p>>] = g[2]]
  /\ UNCHANGED <<active, treasury, outside, stock, ap, lots, nextLot, queue, visited>>

Appoint(g) ==
  /\ Idle /\ g \in Governor \ active
  /\ active' = active \cup {g}
  /\ treasury' = [treasury EXCEPT ![g] = 0]
  /\ UNCHANGED <<outside, stock, ap, starGov, lots, nextLot, queue, visited>>

\* MUTANT: the lots a revoked governor sells follow, those he bids on do not
SellerOnly(c, src, tgt) == [c EXCEPT !.seller = IF @ = src THEN tgt ELSE @]
(* Commod::transfer_governor *)
TransferGovernor(c, src, tgt) ==
  [c EXCEPT !.seller = IF @ = src THEN tgt ELSE @,
            !.bidder = IF @ = src THEN tgt ELSE @]

(* do_revoke: stars, lots and treasury pass to the target governor *)
Revoke(src, tgt) ==
  /\ Idle /\ {src, tgt} \subseteq active
  /\ src[2] # Leader /\ src # tgt /\ RaceOf(src) = RaceOf(tgt)
  /\ starGov' = [p \in Port |-> IF p[1] = RaceOf(src) /\ starGov[p] = src[2]
                                THEN tgt[2] ELSE starGov[p]]
  /\ lots' = [l \in DOMAIN lots |-> TransferGovernor(lots[l], src, tgt)]
  /\ treasury' = Moved(src, tgt, treasury[src])
  /\ active' = active \ {src}
  /\ UNCHANGED <<outside, stock, ap, nextLot, queue, visited>>

-----------------------------------------------------------------------------
(* The update: process_market_transactions over the lots in number order.  *)
BeginUpdate ==
  /\ Idle
  /\ queue' = DOMAIN lots
  /\ ap' = [p \in Port |-> MaxAP]
  /\ UNCHANGED <<active, treasury, outside, stock, starGov, lots, nextLot, visited>>

Visit(l) ==
  /\ l = Min(queue)
  /\ queue' = queue \ {l}
  /\ visited' = visited \cup {l}
  /\ UNCHANGED <<active, ap, starGov, nextLot>>

CanSettle(c) == c.deliver
MarkReady(l) ==
  /\ Visit(l) /\ ~CanSettle(lots[l])
  /\ lots' = [lots EXCEPT ![l].deliver = TRUE]
  /\ UNCHANGED <<treasury, outside, stock>>

(* Solvent looks at the bid alone; deduct_maintenance takes what is left   *)
(* of the freight fee (and morale, not modelled, for the rest).            *)
Solvent(c) == treasury[c.bidder] >= c.bid

FreightPaid(c) ==
  LET left == treasury[c.bidder] - c.bid
      fee == Fee(c.to, c.from, c.bid)
  IN  IF left < fee THEN left ELSE fee

WithoutLot(l) == Restrict(lots, DOMAIN lots \ {l})

Settle(l) ==
  LET c == lots[l]
      port == <<RaceOf(c.bidder), c.to>>
  IN  /\ Visit(l) /\ CanSettle(c) /\ HasBid(c) /\ Solvent(c)
      /\ treasury' = [[treasury EXCEPT ![c.bidder] = @ - c.bid - FreightPaid(c)]
                        EXCEPT ![c.seller] = @ + c.bid]
      /\ outside' = outside + FreightPaid(c)
      /\ stock' = [stock EXCEPT ![port] = @ + c.amount]
      /\ lots' = WithoutLot(l)

\* MUTANT: a bid that cannot be paid stays
Untouched(c) == c
(* no bid, or one its bidder cannot pay: the lot waits for another update *)
Cleared(c) == [c EXCEPT !.bid = 0, !.bidder = None, !.to = None]
ClearBid(l) ==
  LET c == lots[l] IN
  /\ Visit(l) /\ CanSettle(c) /\ ~(HasBid(c) /\ Solvent(c))
  /\ lots' = [lots EXCEPT ![l] = Cleared(c)]
  /\ UNCHANGED <<treasury, outside, stock>>

UpdateStep == \E l \in queue : MarkReady(l) \/ Settle(l) \/ ClearBid(l)

MarketNext ==
  \/ \E g \in Governor, pt \in Port, n \in 1..Goods : pt[1] = g[1] /\ Sell(g, pt[2], n)
  \/ \E g \in Governor, p \in Planet, l \in DOMAIN lots, n \in 0..Money : Bid(g, p, l, n)
  \/ \E g \in Governor, n \in 1..Money : Spend(g, n) \/ Earn(g, n)
  \/ \E r, s \in Race, n \in 1..Money : Pay(r, s, n)
  \/ \E g, h \in Governor, n \in 1..Money : Grant(g, h, n)
  \/ \E g \in Governor, pt \in Port : pt[1] = g[1] /\ GrantStar(g, pt[2])
  \/ \E g \in Governor : Appoint(g)
  \/ \E g, h \in Governor : Revoke(g, h)
  \/ BeginUpdate
  \/ UpdateStep

MarketSpec == MarketInit /\ [][MarketNext]_market_vars

(* The schedule runs an update in the end, and an update visits every lot. *)
Fairness == WF_market_vars(BeginUpdate) /\ WF_market_vars(UpdateStep)
FairSpec == MarketSpec /\ Fairness

-----------------------------------------------------------------------------
(* Every variable has its type: above all, no treasury, stockpile or count *)
(* of action points is ever negative, though bids reserve no money and one *)
(* update may settle several bids of one governor.                         *)
MarketTypeOK ==
  /\ active \subseteq Governor
  /\ treasury \in [Governor -> Nat] /\ outside \in Nat
  /\ stock \in [Port -> Nat] /\ ap \in [Port -> 0..MaxAP]
  /\ starGov \in [Port -> Nat]
  /\ DOMAIN lots \subseteq LotId /\ \A l \in DOMAIN lots : lots[l] \in Lot
  /\ nextLot \in 1..MaxLots + 1
  /\ queue \subseteq DOMAIN lots
  /\ visited \subseteq LotId

(* Goods are on a planet or on the market: listing, selling and a failed   *)
(* sale neither lose nor duplicate a unit (sell.cc:110, deposit_commodity, *)
(* delete_commod).                                                         *)
OnMarket == [l \in DOMAIN lots |-> lots[l].amount]
GoodsConserved ==
  SumOf(stock, Port) + SumOf(OnMarket, DOMAIN lots) = Goods * Cardinality(Port)

(* Money only changes hands: what a buyer pays the seller gets, when the   *)
(* two are one race, or one governor, as well, and freight is charged up   *)
(* to what is left (doturncmd.cc:201-209, deduct_maintenance).             *)
MoneyConserved == SumOf(treasury, Governor) + outside = Money

(* The books of the market balance, in goods and in money, through        *)
(* listings, bids, deliveries, failed sales, taxes and upkeep.             *)
BooksBalance == GoodsConserved /\ MoneyConserved

(* Whoever a lot or a star names is appointed, whatever was revoked since: *)
(* Race::governor throws for anyone else, and would end the update, and    *)
(* every update after it (doturncmd.cc:197, 207).                          *)
HoldersActive ==
  /\ \A r \in Race : LeaderOf(r) \in active
  /\ \A p \in Port : <<p[1], starGov[p]>> \in active
  /\ \A l \in DOMAIN lots : /\ lots[l].seller \in active
                            /\ HasBid(lots[l]) => lots[l].bidder \in active

(* "Commodities placed on the exchange require one update to register      *)
(* before bids are eligible" (docs/turn_cycle.md): a lot is never sold by  *)
(* the first update that visits it.                                        *)
DeliveryDelay == [][\A l \in DOMAIN lots \ DOMAIN lots' : l \in visited]_market_vars

(* Outside an update a standing bid gives way only to one at least as high *)
(* and is never withdrawn, by a revocation of its governor either.         *)
BidsOnlyRise ==
  [][Idle => \A l \in DOMAIN lots : l \in DOMAIN lots' /\ lots'[l].bid >= lots[l].bid]_market_vars

(* No bid blocks its lot for ever: updates settle it or, when its bidder   *)
(* cannot pay, clear it.                                                   *)
Standing(l) == l \in DOMAIN lots /\ HasBid(lots[l])
BidsAreResolved == \A l \in LotId : Standing(l) ~> ~Standing(l)

(* Stated in the repository, refuted by the model (README, disagreements) *)

(* help/bid.md: "you must bid 10% higher than the previous bid on a lot    *)
(* for your offer to be accepted".                                         *)
OutbidIsHigher ==
  [][\A l \in DOMAIN lots : l \in DOMAIN lots' /\ Idle
       /\ HasBid(lots[l]) /\ RaceOf(lots'[l].bidder) # RaceOf(lots[l].bidder)
       => 10 * lots'[l].bid >= 11 * lots[l].bid]_market_vars

(* docs/economy.md: "Placing a bid (... costing 1 Star AP ...)".           *)
BidCostsAP ==
  [][\A l \in DOMAIN lots : Idle /\ l \in DOMAIN lots' /\ lots'[l].bid > lots[l].bid
       => \E p \in Port : ap'[p] < ap[p]]_market_vars
=============================================================================
