------------------------------ MODULE Exchange ------------------------------
(***************************************************************************)
(* One market of the exchange: commands travel the ring buffer (Pipeline)  *)
(* through the journaling handler, the R1 risk handlers that reserve       *)
(* funds, the matching engine with its book (OrderBook), the R2 risk       *)
(* handlers that settle, and the events handler.                           *)
(*                                                                         *)
(* Each handler is a thread.  R1 works on later commands while matching    *)
(* and R2 are still busy with earlier ones; R1 and R2 of a shard meet at   *)
(* the mutex of its balance store, which the code takes for one balance    *)
(* operation or one settlement at a time.  The steps below are those       *)
(* critical sections.  R1 reads the price cache before it takes the mutex, *)
(* which is a step of its own.                                             *)
(*                                                                         *)
(* A command the full ring drops changes nothing here (see Pipeline), so   *)
(* that step is left out.                                                  *)
(***************************************************************************)
EXTENDS Integers, Sequences, FiniteSetsExt, Functions

CONSTANTS
  Users, Prices, Sizes, L2SIZE, U64MAX,                   \* as in OrderBook
  RiskShards, BUFFER_SIZE, MaxSeq,                        \* as in Pipeline
  ShardOf,            \* user_id & shard_mask
  Inputs,             \* commands gateways may send
  Opening,            \* balances once the opening deposits are processed
  QUOTE_NATIVE_SCALE, BASE_NATIVE_SCALE, QUOTE_SCALE_K,   \* market spec
  TAKER_FEE, MAKER_FEE, SLIPPAGE                          \* basis points

Assets == {"base", "quote"}

ASSUME MarketAssumption ==
  /\ Prices \subseteq Nat \ {0} /\ Sizes \subseteq Nat \ {0}
  /\ L2SIZE \in Nat \ {0} /\ U64MAX \in Nat
  /\ \A p \in Prices : p < U64MAX
ASSUME RingAssumption ==
  RiskShards # {} /\ BUFFER_SIZE \in Nat \ {0} /\ MaxSeq \in Nat
ASSUME ShardAssumption ==
  IsFiniteSet(Users) /\ ShardOf \in [Users -> RiskShards]
ASSUME SpecAssumption ==
  /\ {QUOTE_NATIVE_SCALE, BASE_NATIVE_SCALE, QUOTE_SCALE_K} \subseteq Nat \ {0}
  /\ {TAKER_FEE, MAKER_FEE} \subseteq 0 .. 10000
  /\ SLIPPAGE \in Nat

VARIABLES
  published, cursor,                      \* Pipeline
  book, volume, orders, cmd, pc, taken, remaining, level, idx, events, l2,
  cache, last_id,                         \* OrderBook
  ring,      \* the command in each published slot
  trades,    \* the trade events attached to it by the matching engine
  balances,  \* [user][asset] -> UserBalance, the stores of all shards
  settled,   \* per shard, place of the last settlement R2 has done for its
             \* current command
  failed,    \* history: an R2 balance operation returned an error
  net_deposits, \* history: per asset, deposits minus withdrawals
  fees,      \* history: per asset, what settlement kept back as fees
  inexact    \* history: per user, purchases whose cost was rounded

bookVars == <<book, volume, orders, cmd, pc, taken, remaining, level, idx,
              events, l2, cache, last_id>>
riskVars == <<balances, settled, failed, net_deposits, fees, inexact>>
vars == <<published, cursor, bookVars, ring, trades, riskVars>>

(* u64 additions that are not checked wrap.                                *)
wrap(n) == n % (U64MAX + 1)

(* bid_amount's price for a market buy: the best ask plus slippage.        *)
conservative_price(ask) == ask + wrap((ask * SLIPPAGE) \div 10000)

(* The prices market orders reach the book with.                           *)
MarketPrices == {0} \cup {conservative_price(p) : p \in Prices}

Pipe == INSTANCE Pipeline WITH Routers <- {0}, dropped <- FALSE
Book == INSTANCE OrderBook WITH MaxOrders <- MaxSeq

(* The slot a handler is to work on next.                                  *)
slot(h) == cursor[h] + 1

(* A slot the events handler has finished with.                            *)
Free == [command |-> "None"]

(* Commands as place_order requires them of the gateways: an order at a    *)
(* limit price, a market sell (price 0) or a market buy (price U64MAX),    *)
(* neither of the two with GTC; a cancel; a deposit or a withdrawal.       *)
Placements ==
  {c \in [command: {"PlaceOrder"}, order_id: {0}, user_id: Users,
          side: Book!Sides, price: Prices \cup {0, U64MAX}, size: Sizes,
          original_size: {0}, time_in_force: Book!TIFs,
          status: {"Processing"}] :
     /\ c.price = 0 => c.side = "Ask"
     /\ c.price = U64MAX => c.side = "Bid"
     /\ c.price \notin Prices => c.time_in_force # "Gtc"}

Transfers ==
  [command: {"DepositFunds", "WithdrawFunds"}, order_id: {0}, user_id: Users,
   asset: Assets, size: 0 .. U64MAX, status: {"Processing"}]

ASSUME InputsAssumption ==
  Inputs \subseteq Placements \cup Book!Cancels \cup Transfers

Balance == [available: 0 .. U64MAX, locked: 0 .. U64MAX]

ASSUME OpeningAssumption ==
  Opening \in [Users -> [Assets -> [available: 0 .. U64MAX, locked: {0}]]]

-----------------------------------------------------------------------------
(* UserBalance and BalanceStore: each operation returns the new balance    *)
(* and whether it succeeded.                                               *)

Ok(b)   == [ok |-> TRUE, bal |-> b]
Err(b)  == [ok |-> FALSE, bal |-> b]

(* Mutant: the check also counts what is already locked.                   *)
lock_funds_total(b, amount) ==
  IF b.available + b.locked >= amount
  THEN Ok([available |-> b.available - amount,
           locked |-> wrap(b.locked + amount)])
  ELSE Err(b)

lock_funds(b, amount) ==
  IF b.available >= amount
  THEN Ok([available |-> b.available - amount,
           locked |-> wrap(b.locked + amount)])
  ELSE Err(b)

unlock_funds(b, amount) ==
  IF b.locked >= amount
  THEN Ok([available |-> wrap(b.available + amount),
           locked |-> b.locked - amount])
  ELSE Err(b)

add_funds(b, amount) ==
  IF b.available + amount <= U64MAX
  THEN Ok([b EXCEPT !.available = @ + amount])
  ELSE Err(b)

subtract_funds(b, amount) ==
  IF b.available >= amount
  THEN Ok([b EXCEPT !.available = @ - amount])
  ELSE Err(b)

(* Mutant: funds paid away go back to the payer.                           *)
subtract_locked_funds_kept(b, amount) == unlock_funds(b, amount)

subtract_locked_funds(b, amount) ==
  IF b.locked >= amount
  THEN Ok([b EXCEPT !.locked = @ - amount])
  ELSE Err(b)

(* CoreMarketSpecification::calculate_quote_cost: rounds down, then        *)
(* truncates to 64 bits.                                                   *)
exact_cost(price, size) ==
  (price * size * QUOTE_NATIVE_SCALE) \div (BASE_NATIVE_SCALE * QUOTE_SCALE_K)

calculate_quote_cost(price, size) == wrap(exact_cost(price, size))

-----------------------------------------------------------------------------
(* Ingress and journaling.                                                 *)

(* Mutant: the ring is not checked for space.                              *)
publish_unchecked(c) ==
  /\ published < MaxSeq
  /\ published' = published + 1
  /\ ring' = Append(ring, c)
  /\ trades' = Append(trades, <<>>)
  /\ UNCHANGED <<cursor, bookVars, riskVars>>

(* A decoded fragment is copied into the next slot.                        *)
publish(c) ==
  /\ Pipe!publish
  /\ ring' = Append(ring, c)
  /\ trades' = Append(trades, <<>>)
  /\ UNCHANGED <<bookVars, riskVars>>

(* Mutant: ids that decrease.                                              *)
journal_backwards ==
  LET n == slot(Pipe!Journaling)
  IN /\ Pipe!handle(Pipe!Journaling)
     /\ ring' = IF ring[n].command = "CancelOrder" THEN ring
                ELSE [ring EXCEPT ![n].order_id = MaxSeq + 1 - n]
     /\ UNCHANGED <<bookVars, trades, riskVars>>

(* journal_command: everything but a cancel gets the next id.              *)
journal_command ==
  LET n == slot(Pipe!Journaling)
  IN /\ Pipe!handle(Pipe!Journaling)
     /\ ring' = IF ring[n].command = "CancelOrder" THEN ring
                ELSE [ring EXCEPT ![n].order_id = n]
     /\ UNCHANGED <<bookVars, trades, riskVars>>

-----------------------------------------------------------------------------
(* R1: pre_process_command of the shard that owns the user.                *)

MarketBuy(c) ==
  c.command = "PlaceOrder" /\ c.side = "Bid" /\ c.price = U64MAX

Owns(s, c) == c.command # "CancelOrder" /\ ShardOf[c.user_id] = s

(* Not this shard's user, or a cancel: nothing to reserve.                 *)
r1_skip(s) ==
  /\ Pipe!handle(Pipe!R1(s))
  /\ ~Owns(s, ring[slot(Pipe!R1(s))])
  /\ UNCHANGED <<bookVars, ring, trades, riskVars>>

(* bid_amount reads the best ask for a market buy.  With no ask, or one    *)
(* whose slippage overflows, the order is rejected; otherwise its price    *)
(* becomes the best ask plus slippage.                                     *)
r1_price_market_buy(s) ==
  LET n == slot(Pipe!R1(s))
      price == conservative_price(cache["Ask"])
  IN /\ Pipe!available(Pipe!R1(s))
     /\ Owns(s, ring[n]) /\ MarketBuy(ring[n])
     /\ \/ /\ cache["Ask"] = U64MAX \/ price > U64MAX
           /\ ring' = [ring EXCEPT ![n].status = "Rejected"]
           /\ Pipe!handle(Pipe!R1(s))
        \/ /\ cache["Ask"] # U64MAX /\ price <= U64MAX
           /\ ring' = [ring EXCEPT ![n].price = price]
           /\ UNCHANGED <<published, cursor>>
     /\ UNCHANGED <<bookVars, trades, riskVars>>

(* The asset and the amount an order needs.                                *)
reserved_asset(side) == IF side = "Bid" THEN "quote" ELSE "base"

reserved_amount(side, price, size) ==
  IF side = "Bid" THEN calculate_quote_cost(price, size) ELSE size

(* reserve_funds_for_order.                                                *)
r1_reserve(s) ==
  LET n == slot(Pipe!R1(s))
      c == ring[n]
      a == reserved_asset(c.side)
      r == lock_funds(balances[c.user_id][a],
                      reserved_amount(c.side, c.price, c.size))
  IN /\ Pipe!handle(Pipe!R1(s))
     /\ Owns(s, c) /\ c.command = "PlaceOrder" /\ ~MarketBuy(c)
     /\ balances' = [balances EXCEPT ![c.user_id][a] = r.bal]
     /\ ring' = IF r.ok THEN ring ELSE [ring EXCEPT ![n].status = "Rejected"]
     /\ UNCHANGED <<bookVars, trades, settled, failed, net_deposits, fees,
                    inexact>>

(* handle_deposit and handle_withdrawal.                                   *)
r1_transfer(s) ==
  LET n == slot(Pipe!R1(s))
      c == ring[n]
      b == balances[c.user_id][c.asset]
      r == IF c.command = "DepositFunds" THEN add_funds(b, c.size)
                                         ELSE subtract_funds(b, c.size)
  IN /\ Pipe!handle(Pipe!R1(s))
     /\ Owns(s, c) /\ c.command \in {"DepositFunds", "WithdrawFunds"}
     /\ balances' = [balances EXCEPT ![c.user_id][c.asset] = r.bal]
     /\ ring' = [ring EXCEPT ![n].status = IF r.ok THEN "Processed"
                                                   ELSE "Rejected"]
     /\ net_deposits' = [net_deposits EXCEPT ![c.asset] =
                           @ + r.bal.available - b.available]
     /\ UNCHANGED <<bookVars, trades, settled, failed, fees, inexact>>

-----------------------------------------------------------------------------
(* The matching engine of the market.                                      *)

MatchSlot == slot(Pipe!Matching(0))

(* Transfers and rejected commands pass the matching engine by.            *)
match_skip ==
  /\ pc = "idle"
  /\ Pipe!handle(Pipe!Matching(0))
  /\ \/ ring[MatchSlot].command \in {"DepositFunds", "WithdrawFunds"}
     \/ ring[MatchSlot].status = "Rejected"
  /\ UNCHANGED <<bookVars, ring, trades, riskVars>>

(* process_order hands the command to the book ...                         *)
process_order ==
  LET c == ring[MatchSlot]
  IN /\ Pipe!available(Pipe!Matching(0))
     /\ c.status # "Rejected"
     /\ \/ c.command = "PlaceOrder" /\ Book!place_order(c)
        \/ c.command = "CancelOrder" /\ Book!cancel_order(c)
     /\ UNCHANGED <<published, cursor, ring, trades, riskVars>>

match_step ==
  /\ \/ \E p \in Prices : Book!open_level(p)
     \/ Book!skip_own_order
     \/ Book!fill_maker
     \/ Book!finish_place
  /\ UNCHANGED <<published, cursor, ring, trades, riskVars>>

(* ... and leaves it in the slot with its events attached.                 *)
match_done ==
  /\ Book!deliver
  /\ Pipe!handle(Pipe!Matching(0))
  /\ ring' = [ring EXCEPT ![MatchSlot] = cmd]
  /\ trades' = [trades EXCEPT ![MatchSlot] = events]
  /\ UNCHANGED riskVars

-----------------------------------------------------------------------------
(* R2: create_risk_r2_handler.                                             *)

R2Slot(s) == slot(Pipe!R2(s))

(* A trade event makes two settlements, the maker's and then the taker's;  *)
(* their place is their number along the chain of events.                  *)
Roles == {"maker", "taker"}

Place(x) == IF x.role = "maker" THEN 2 * x.event - 1 ELSE 2 * x.event

Party(n, x) ==
  IF x.role = "maker" THEN trades[n][x.event].maker_user_id
                      ELSE ring[n].user_id

(* The settlements of the command in slot n that shard s has still to do.  *)
Due(n, s) ==
  {x \in [event: 1 .. Len(trades[n]), role: Roles] :
     ShardOf[Party(n, x)] = s /\ Place(x) > settled[s]}

(* Mutants: the refund of a price improvement is forgotten, or computed    *)
(* from the limit alone.                                                   *)
refund_none(is_maker, side, limit, e) == 0

refund_limit(is_maker, side, limit, e) ==
  IF ~is_maker /\ side = "Bid" /\ e.price < limit
  THEN calculate_quote_cost(limit, e.size)
  ELSE 0

(* The price improvement a buying taker gets back.                         *)
refund(is_maker, side, limit, e) ==
  IF ~is_maker /\ side = "Bid" /\ e.price < limit
  THEN calculate_quote_cost(limit - e.price, e.size)
  ELSE 0

trade_fee(is_maker, gross) ==
  wrap(gross * (IF is_maker THEN MAKER_FEE ELSE TAKER_FEE)) \div 10000

(* settle_trade on the balances b of one party: refund, pay from the       *)
(* locked funds, receive net of the fee.  An error keeps what was done.    *)
settle_trade(b, is_maker, side, limit, e) ==
  LET out   == reserved_asset(side)
      in    == IF side = "Bid" THEN "base" ELSE "quote"
      cost  == calculate_quote_cost(e.price, e.size)
      paid  == IF side = "Bid" THEN cost ELSE e.size
      gross == IF side = "Bid" THEN e.size ELSE cost
      fee   == trade_fee(is_maker, gross)
      back  == unlock_funds(b["quote"], refund(is_maker, side, limit, e))
      b1    == [b EXCEPT !["quote"] = back.bal]
      sub   == subtract_locked_funds(b1[out], paid)
      b2    == [b1 EXCEPT ![out] = sub.bal]
      add   == add_funds(b2[in], gross - fee)
      b3    == [b2 EXCEPT ![in] = add.bal]
  IN CASE ~back.ok -> [ok |-> FALSE, bal |-> b,  asset |-> in, fee |-> 0]
       [] back.ok /\ ~sub.ok
                   -> [ok |-> FALSE, bal |-> b1, asset |-> in, fee |-> 0]
       [] back.ok /\ sub.ok /\ ~add.ok
                   -> [ok |-> FALSE, bal |-> b2, asset |-> in, fee |-> 0]
       [] OTHER    -> [ok |-> TRUE,  bal |-> b3, asset |-> in, fee |-> fee]

(* A purchase of size at this price, out of what a limit reserved, is no   *)
(* whole number of quote units.                                            *)
Rounded(price, limit, size) ==
  \E p \in {price, limit} :
    (p * size * QUOTE_NATIVE_SCALE) % (BASE_NATIVE_SCALE * QUOTE_SCALE_K) # 0

(* handle_trade_event for the next settlement of this shard.               *)
settle(s, n, x) ==
  LET u == Party(n, x)
      c == ring[n]
      e == trades[n][x.event]
      maker == x.role = "maker"
      side == IF maker THEN Book!op_side(c.side) ELSE c.side
      limit == IF maker THEN e.price ELSE c.price
      r == settle_trade(balances[u], maker, side, limit, e)
  IN /\ balances' = [balances EXCEPT ![u] = r.bal]
     /\ fees' = [fees EXCEPT ![r.asset] = @ + r.fee]
     /\ failed' = (failed \/ ~r.ok)
     /\ settled' = [settled EXCEPT ![s] = Place(x)]
     /\ inexact' = IF side = "Bid" /\ Rounded(e.price, limit, e.size)
                   THEN [inexact EXCEPT ![u] = @ + 1] ELSE inexact

r2_settle(s) ==
  LET n == R2Slot(s)
  IN /\ Pipe!available(Pipe!R2(s))
     /\ \E x \in Due(n, s) :
          /\ \A y \in Due(n, s) : Place(x) <= Place(y)
          /\ settle(s, n, x)
     /\ UNCHANGED <<published, cursor, bookVars, ring, trades, net_deposits>>

should_handle_cancellation(c) ==
  \/ c.status = "PartiallyFilled" /\ c.time_in_force \in {"Ioc", "Fok"}
  \/ c.status = "Cancelled"

(* After the events, the taker's shard releases what an order that is over *)
(* still has reserved (handle_cancellation).                               *)
r2_finish(s) ==
  LET n == R2Slot(s)
      c == ring[n]
      a == reserved_asset(c.side)
      r == unlock_funds(balances[c.user_id][a],
                        reserved_amount(c.side, c.price, c.size))
  IN /\ Pipe!handle(Pipe!R2(s))
     /\ c.status \notin {"Rejected", "Processed"}
     /\ Due(n, s) = {}
     /\ settled' = [settled EXCEPT ![s] = 0]
     /\ IF ShardOf[c.user_id] = s /\ should_handle_cancellation(c)
        THEN /\ balances' = [balances EXCEPT ![c.user_id][a] = r.bal]
             /\ failed' = (failed \/ ~r.ok)
        ELSE UNCHANGED <<balances, failed>>
     /\ UNCHANGED <<bookVars, ring, trades, net_deposits, fees, inexact>>

r2_skip(s) ==
  /\ Pipe!handle(Pipe!R2(s))
  /\ ring[R2Slot(s)].status \in {"Rejected", "Processed"}
  /\ UNCHANGED <<bookVars, ring, trades, riskVars>>

(* The events handler publishes the command and frees its slot.            *)
handle_processed_command ==
  LET n == slot(Pipe!Events)
  IN /\ Pipe!handle(Pipe!Events)
     /\ ring' = [ring EXCEPT ![n] = Free]
     /\ trades' = [trades EXCEPT ![n] = <<>>]
     /\ UNCHANGED <<bookVars, riskVars>>

-----------------------------------------------------------------------------
Init ==
  /\ Book!Init
  /\ Pipe!Init
  /\ ring = <<>>
  /\ trades = <<>>
  /\ balances = Opening
  /\ settled = [s \in RiskShards |-> 0]
  /\ failed = FALSE
  /\ net_deposits = [a \in Assets |->
       SumFunction([u \in Users |-> Opening[u][a].available])]
  /\ fees = [a \in Assets |-> 0]
  /\ inexact = [u \in Users |-> 0]

R1Step(s) ==
  r1_skip(s) \/ r1_price_market_buy(s) \/ r1_reserve(s) \/ r1_transfer(s)
MatchStep == match_skip \/ process_order \/ match_step \/ match_done
R2Step(s) == r2_settle(s) \/ r2_finish(s) \/ r2_skip(s)

Handle ==
  \/ journal_command
  \/ \E s \in RiskShards : R1Step(s) \/ R2Step(s)
  \/ MatchStep
  \/ handle_processed_command

(* The bound is reached and every command is through all handlers.  Any    *)
(* other state without a step is a deadlock: a matching or settlement loop *)
(* that does not end, or handlers that wait for each other.                *)
Quiet == \A h \in Pipe!Handlers : cursor[h] = published

Drained == published = MaxSeq /\ Quiet /\ UNCHANGED vars

Next == (\E c \in Inputs : publish(c)) \/ Handle \/ Drained

Spec == Init /\ [][Next]_vars

-----------------------------------------------------------------------------
TypeOK ==
  /\ balances \in [Users -> [Assets -> Balance]]
  /\ Len(ring) = published /\ Len(trades) = published
  /\ settled \in [RiskShards -> Nat]
  /\ failed \in BOOLEAN
  /\ net_deposits \in [Assets -> Nat] /\ fees \in [Assets -> Nat]
  /\ inexact \in [Users -> Nat]

(* What a user's resting orders still need.                                *)
Resting(u, s) ==
  UNION {{[price |-> p, order |-> book[s][p][i]] :
            i \in {k \in 1 .. Len(book[s][p]) : book[s][p][k].user_id = u}} :
         p \in Prices}

Needed(u, s) ==
  SumFunction([x \in Resting(u, s) |->
                 reserved_amount(s, x.price, x.order.size)])

(* No balance operation of R2 ever fails: what R1 locked, at a price read  *)
(* from a cache that may be stale by then, always covers what matching     *)
(* executes later, partial fills, price improvement, rounding and          *)
(* cancellation included, whatever R1 does for later commands meanwhile.   *)
SettlementNeverFails == ~failed

(* Once the pipeline is drained, the funds locked for a user are what his  *)
(* resting orders need: no order that is over keeps funds locked, none     *)
(* that rests is uncovered.  calculate_quote_cost rounds down the cost     *)
(* paid, the improvement refunded and the rest still needed, so that each  *)
(* purchase with a fraction strands up to two units, and never takes one.  *)
EscrowMatchesBook ==
  Quiet => \A u \in Users :
    /\ balances[u]["base"].locked = Needed(u, "Ask")
    /\ balances[u]["quote"].locked - Needed(u, "Bid") \in 0 .. 2 * inexact[u]

(* Once the pipeline is drained, what users own of an asset and the fees   *)
(* kept back add up to what was deposited: settlement in two shards, each  *)
(* on its own, neither creates nor destroys funds.                         *)
Total(a) == SumFunction([u \in Users |-> balances[u][a].available
                                          + balances[u][a].locked])

FundsConserved ==
  Quiet => \A a \in Assets : Total(a) + fees[a] = net_deposits[a]

(* No amount leaves 64 bits: the cost of any order at any price it may     *)
(* have, what has been deposited of an asset, and what one user has of it, *)
(* available and locked.  Beyond, calculate_quote_cost truncates and       *)
(* lock_funds and unlock_funds wrap; the proofs about funds assume it.     *)
Fits(price, size) == exact_cost(price, size) <= U64MAX

AmountsFit ==
  /\ \A p \in Prices \cup {q \in MarketPrices : q <= U64MAX}, z \in Sizes :
       Fits(p, z)
  /\ \A a \in Assets : net_deposits[a] <= U64MAX
  /\ \A u \in Users, a \in Assets :
       balances[u][a].available + balances[u][a].locked <= U64MAX

(* The matching engine uses the book the way OrderBook assumes: ids in     *)
(* increasing order, market prices never with GTC, one command at a time.  *)
BookProtocol == Book!Spec

(* The handlers keep to the barriers of Pipeline.                          *)
PipelineProtocol == Pipe!Safety
=============================================================================
