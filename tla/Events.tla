------------------------------- MODULE Events -------------------------------
(***************************************************************************)
(* What the exchange tells the outside: the events handler                 *)
(* (processors/src/events.rs) turns each processed command into messages   *)
(* on the topics orders, balances, trades, cancels, orderbook, deposits    *)
(* and withdrawals, and into the response to the gateway.                  *)
(*                                                                         *)
(* publish_proto hands a message to a task of its own and returns, so the  *)
(* messages of a topic may arrive in any order.  All that tells a reader   *)
(* which message of a key is the newest is its timestamp, the one the      *)
(* journaling handler gave to the command: messages of later commands have *)
(* later ones (the wall clock in nanoseconds, taken to advance between two *)
(* commands), messages of one command have the same.  The feeds below keep *)
(* for each key the messages with the newest timestamp.  A message whose   *)
(* encoding or delivery fails is only logged; the feeds hold what was      *)
(* handed over.                                                            *)
(*                                                                         *)
(* The balances in the messages are copies taken on the way: of a deposit  *)
(* or a withdrawal by R1, of a maker by the settlement of the trade, of    *)
(* the user of any other command when R2 is done with it.  All are taken   *)
(* here together with the change they follow; in the code all but the      *)
(* maker's lock the store again, and may include what R1 or R2 of another  *)
(* command of the user did between.                                        *)
(***************************************************************************)
EXTENDS Exchange

VARIABLES
  copies,        \* per slot, the balance copies taken so far
  l2_data,       \* per slot, the L2 snapshot the book attached
  order_feed,    \* topic orders: order id -> newest messages
  balance_feed,  \* topic balances: user -> asset -> newest messages
  trade_feed,    \* topic trades: all messages
  cancel_feed,   \* topic cancels: ids
  book_feed,     \* topic orderbook: the newest snapshot
  transfer_feed, \* topics deposits and withdrawals: slots
  response       \* the last command sent back to its gateway

feedVars == <<order_feed, balance_feed, trade_feed, cancel_feed, book_feed,
              transfer_feed, response>>
eventVars == <<copies, l2_data, feedVars>>
allVars == <<vars, eventVars>>

(* The taker's copy; a maker's copy is kept under the number of its event. *)
Taker == 0

-----------------------------------------------------------------------------
(* The copies and the snapshot a command carries when it reaches the       *)
(* events handler.                                                         *)

(* A decoded command comes without them.                                   *)
ingress(c) ==
  /\ publish(c)
  /\ copies' = Append(copies, <<>>)
  /\ l2_data' = Append(l2_data, [s \in Book!Sides |-> {}])
  /\ UNCHANGED feedVars

(* The copy [x -> b] joins those of slot n.                                *)
copy(n, x, b) ==
  copies' = [copies EXCEPT ![n] =
    [y \in DOMAIN @ \cup {x} |-> IF y = x THEN b ELSE @[y]]]

(* R1 copies the balance a deposit or a withdrawal has changed.            *)
transfer_copied(s) ==
  LET n == slot(Pipe!R1(s))
  IN /\ r1_transfer(s)
     /\ IF ring'[n].status = "Processed"
        THEN copy(n, Taker, balances'[ring[n].user_id])
        ELSE UNCHANGED copies
     /\ UNCHANGED <<l2_data, feedVars>>

match_attached ==
  /\ match_done
  /\ l2_data' = [l2_data EXCEPT ![MatchSlot] = l2]
  /\ UNCHANGED <<copies, feedVars>>

(* settle_trade leaves the maker's balances in the event; after an error   *)
(* (there is none: SettlementNeverFails) it would not.                     *)
settle_copied(s) ==
  LET n == R2Slot(s)
  IN /\ r2_settle(s)
     /\ \E x \in Due(n, s) :
          /\ Place(x) = settled'[s]
          /\ IF x.role = "maker" /\ ~failed'
             THEN copy(n, x.event, balances'[Party(n, x)])
             ELSE UNCHANGED copies
     /\ UNCHANGED <<l2_data, feedVars>>

(* The taker's shard copies his balances after the release.                *)
finish_copied(s) ==
  LET n == R2Slot(s)
  IN /\ r2_finish(s)
     /\ IF ShardOf[ring[n].user_id] = s
        THEN copy(n, Taker, balances'[ring[n].user_id])
        ELSE UNCHANGED copies
     /\ UNCHANGED <<l2_data, feedVars>>

-----------------------------------------------------------------------------
(* The messages of a command c with its trade events evs.                  *)

(* Mutant: what was filled before the cancel is left out.                  *)
publish_order_event_whole(c, evs) ==
  LET filled == Book!TotalSize(evs)
  IN [order_id |-> c.order_id, user_id |-> c.user_id, price |-> c.price,
      size |-> filled + c.size, filled_size |-> filled, side |-> c.side,
      time_in_force |-> c.time_in_force, status |-> c.status]

(* publish_order_event with the sizes its callers pass: a cancelled order  *)
(* reports the size it was placed with, any other command what it traded   *)
(* and what is left.                                                       *)
publish_order_event(c, evs) ==
  LET filled == IF c.command = "CancelOrder" THEN c.original_size - c.size
                                             ELSE Book!TotalSize(evs)
  IN [order_id |-> c.order_id, user_id |-> c.user_id, price |-> c.price,
      size |-> filled + c.size, filled_size |-> filled, side |-> c.side,
      time_in_force |-> c.time_in_force, status |-> c.status]

(* Mutant: the traded size of this event alone.                            *)
publish_maker_order_event_last(c, e) ==
  [order_id |-> e.matched_order_id, user_id |-> e.maker_user_id,
   price |-> e.price, size |-> e.maker_original_size,
   filled_size |-> e.size,
   side |-> Book!op_side(c.side), time_in_force |-> "Gtc",
   status |-> IF e.matched_order_completed THEN "Filled"
                                           ELSE "PartiallyFilled"]

publish_maker_order_event(c, e) ==
  [order_id |-> e.matched_order_id, user_id |-> e.maker_user_id,
   price |-> e.price, size |-> e.maker_original_size,
   filled_size |-> e.maker_original_size - e.maker_remaining_size,
   side |-> Book!op_side(c.side), time_in_force |-> "Gtc",
   status |-> IF e.matched_order_completed THEN "Filled"
                                           ELSE "PartiallyFilled"]

publish_trade_event(c, e) ==
  [maker_user_id |-> e.maker_user_id, taker_user_id |-> c.user_id,
   price |-> e.price, size |-> e.size,
   maker_order_id |-> e.matched_order_id,
   taker_order_id |-> c.order_id, taker_side |-> c.side]

IsTransfer(c) == c.command \in {"DepositFunds", "WithdrawFunds"}

(* The messages on orders: one for the command's own order and one for     *)
(* each maker.                                                             *)
MakerMessages(c, evs) ==
  {publish_maker_order_event(c, evs[k]) : k \in 1 .. Len(evs)}

OrderMessages(c, evs) ==
  {publish_order_event(c, evs)} \cup MakerMessages(c, evs)

TradeMessages(c, evs) ==
  {publish_trade_event(c, evs[k]) : k \in 1 .. Len(evs)}

(* publish_balance_event for the makers and the taker, or                  *)
(* publish_deposit_withdrawal_event, which has one asset.                  *)
BalanceMessages(n, u, a) ==
  {copies[n][x][a] : x \in
     {y \in DOMAIN copies[n] :
        /\ u = IF y = Taker THEN ring[n].user_id
                            ELSE trades[n][y].maker_user_id
        /\ IsTransfer(ring[n]) => a = ring[n].asset}}

(* The newest messages of a key: those of this command, if it has any.     *)
Newest(new, old) == IF new = {} THEN old ELSE new

-----------------------------------------------------------------------------
(* handle_processed_command.  An order command that was rejected only gets *)
(* its response.                                                           *)

(* Mutant: no orderbook message for a cancelled order.                     *)
publish_orders_no_book(n) ==
  /\ order_feed' = [id \in DOMAIN order_feed |->
       Newest({m \in OrderMessages(ring[n], trades[n]) : m.order_id = id},
              order_feed[id])]
  /\ trade_feed' = trade_feed \cup TradeMessages(ring[n], trades[n])
  /\ cancel_feed' = IF ring[n].status = "Cancelled"
                    THEN cancel_feed \cup {ring[n].order_id} ELSE cancel_feed
  /\ book_feed' = IF ring[n].status = "Cancelled" THEN book_feed ELSE l2_data[n]
  /\ UNCHANGED transfer_feed

publish_orders(n) ==
  /\ order_feed' = [id \in DOMAIN order_feed |->
       Newest({m \in OrderMessages(ring[n], trades[n]) : m.order_id = id},
              order_feed[id])]
  /\ trade_feed' = trade_feed \cup TradeMessages(ring[n], trades[n])
  /\ cancel_feed' = IF ring[n].status = "Cancelled"
                    THEN cancel_feed \cup {ring[n].order_id} ELSE cancel_feed
  /\ book_feed' = l2_data[n]
  /\ UNCHANGED transfer_feed

publish_transfer(n) ==
  /\ transfer_feed' = transfer_feed \cup {n}
  /\ UNCHANGED <<order_feed, trade_feed, cancel_feed, book_feed>>

events_handler ==
  LET n == slot(Pipe!Events)
  IN /\ handle_processed_command
     /\ response' = ring[n]
     /\ \/ /\ ring[n].status = "Rejected"
           /\ UNCHANGED <<order_feed, balance_feed, trade_feed, cancel_feed,
                          book_feed, transfer_feed>>
        \/ /\ ring[n].status # "Rejected"
           /\ balance_feed' = [u \in Users |-> [a \in Assets |->
                Newest(BalanceMessages(n, u, a), balance_feed[u][a])]]
           /\ IF IsTransfer(ring[n]) THEN publish_transfer(n)
                                     ELSE publish_orders(n)
     /\ copies' = [copies EXCEPT ![n] = <<>>]
     /\ l2_data' = [l2_data EXCEPT ![n] = [s \in Book!Sides |-> {}]]

-----------------------------------------------------------------------------
EventsInit ==
  /\ Init
  /\ copies = <<>>
  /\ l2_data = <<>>
  /\ order_feed = [id \in 1 .. MaxSeq |-> {}]
  /\ balance_feed = [u \in Users |-> [a \in Assets |-> {}]]
  /\ trade_feed = {}
  /\ cancel_feed = {}
  /\ book_feed = [s \in Book!Sides |-> {}]
  /\ transfer_feed = {}
  /\ response = Free

(* The steps that neither copy nor publish.                                *)
Silent ==
  /\ \/ journal_command
     \/ \E s \in RiskShards :
          r1_skip(s) \/ r1_price_market_buy(s) \/ r1_reserve(s) \/ r2_skip(s)
     \/ match_skip
     \/ process_order
     \/ match_step
  /\ UNCHANGED eventVars

EventsHandle ==
  \/ Silent
  \/ \E s \in RiskShards :
       transfer_copied(s) \/ settle_copied(s) \/ finish_copied(s)
  \/ match_attached
  \/ events_handler

EventsNext ==
  \/ \E c \in Inputs : ingress(c)
  \/ EventsHandle
  \/ Drained /\ UNCHANGED eventVars

EventsSpec == EventsInit /\ [][EventsNext]_allVars

-----------------------------------------------------------------------------
(* An order that a message shows as waiting in the book.                   *)
Open(m) == m.time_in_force = "Gtc" /\ m.status \in {"Placed", "PartiallyFilled"}

(* Once the pipeline is drained, a reader of the topic orders that keeps   *)
(* the newest message of each id knows the book: never two messages with   *)
(* the same timestamp, and the orders shown as open are the resting ones,  *)
(* with the owner, price, side and remaining size they have there.  This   *)
(* is about handle_processed_command deriving the sizes of a taker, a      *)
(* maker and a cancelled order in three different ways.                    *)
OrderFeedMatchesBook ==
  Quiet =>
    /\ \A id \in DOMAIN order_feed : Cardinality(order_feed[id]) <= 1
    /\ {[order_id |-> m.order_id, user_id |-> m.user_id, price |-> m.price,
         side |-> m.side, size |-> m.size - m.filled_size] :
          m \in {x \in UNION {order_feed[id] : id \in DOMAIN order_feed} :
                   Open(x)}}
       = UNION {{[order_id |-> o.order_id, user_id |-> o.user_id,
                  price |-> p, side |-> s, size |-> o.size] :
                   o \in {book[s][p][i] : i \in 1 .. Len(book[s][p])}} :
                  s \in Book!Sides, p \in Prices}

(* What the messages T of the topic trades say an order has traded, as     *)
(* maker or taker.                                                         *)
TradesWith(T, id) ==
  {t \in T : id \in {t.maker_order_id, t.taker_order_id}}

Traded(T, id) == SumFunction([t \in TradesWith(T, id) |-> t.size])

(* The filled size in the newest message of an order is the sum of its     *)
(* trades on the topic trades: over several takers, after a partial fill   *)
(* on arrival, and when the rest is cancelled.  (Trades are keyed by taker *)
(* and maker order: a pair trades at most once, or one would be lost.)     *)
FilledIsSumOfTrades ==
  Quiet => \A id \in DOMAIN order_feed : \A m \in order_feed[id] :
             m.filled_size = Traded(trade_feed, id)

(* The newest orderbook message shows the best levels of the book as it is *)
(* once the pipeline is drained: every command that changed the book, a    *)
(* cancel and a killed order included, has attached its own snapshot.      *)
BookFeedCurrent ==
  Quiet => \A s \in Book!Sides :
    book_feed[s] = {<<p, volume[s][p]>> : p \in
      {q \in Book!Levels(book, s) :
         Cardinality({r \in Book!Levels(book, s) :
                        Book!Better(Book!op_side(s), r, q)}) < L2SIZE}}

(* "R2 updates balance fields in OrderCommand for ALL order types [...] to *)
(* provide current state in gateway response" (ARCHITECTURE.md:988), and   *)
(* the published state is eventually consistent (TEST_SUITE_README.md:16): *)
(* once the pipeline is drained, the newest balance message of a user and  *)
(* an asset, if there is one, is what the store holds.                     *)
BalanceFeedSettles ==
  Quiet => \A u \in Users, a \in Assets :
    balance_feed[u][a] \subseteq {balances[u][a]}
=============================================================================
