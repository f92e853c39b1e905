----------------------------- MODULE OrderBook -----------------------------
(***************************************************************************)
(* The limit order book of one market (orderbook/src/lib.rs, tree.rs).     *)
(*                                                                         *)
(* place_order and cancel_order run on one matching thread, so commands    *)
(* are served one after another; what the model splits into steps is the   *)
(* matching loop, one step per price level opened, own order skipped or    *)
(* maker filled, so that its invariants can be stated between iterations.  *)
(*                                                                         *)
(* A price level exists in the code exactly when its queue is not empty    *)
(* (every caller of get_or_create_level pushes an order, every removal is  *)
(* followed by remove_level_if_empty); here a missing level is an empty    *)
(* queue.  A filled maker leaves its queue at once; the code drops it when *)
(* it leaves the level and meanwhile never looks at it again.              *)
(***************************************************************************)
EXTENDS Integers, Sequences, FiniteSets, Functions

CONSTANTS
  Users,        \* user_id
  Prices,       \* limit prices
  MarketPrices, \* prices market orders reach the book with: 0 for a sell,
                \* best ask plus slippage (set by the risk engine) for a buy
  Sizes,        \* order sizes ("Size must be > 0, guaranteed by gateway")
  MaxOrders,    \* bound: ids given to commands in one behaviour
  L2SIZE,       \* depth of the L2 snapshot
  U64MAX        \* u64::MAX, above every limit price

ASSUME PricesAssumption == Prices \subseteq Nat \ {0}
ASSUME MarketPricesAssumption == MarketPrices \subseteq Nat
ASSUME SizesAssumption  == Sizes \subseteq Nat \ {0}
ASSUME BoundAssumption  == MaxOrders \in Nat /\ L2SIZE \in Nat \ {0}
ASSUME MaxAssumption    == U64MAX \in Nat /\ \A p \in Prices : p < U64MAX

Sides    == {"Bid", "Ask"}
TIFs     == {"Gtc", "Ioc", "Fok"}
OrderIds == 1 .. MaxOrders
NoPrice  == 0      \* no price: an id the index does not hold, no level open

Order == [order_id: OrderIds, user_id: Users, side: Sides,
          size: Nat \ {0}, original_size: Nat \ {0}]

Status == {"Processing", "Placed", "PartiallyFilled", "Filled",
           "Cancelled", "Rejected"}

(* The fields of OrderCommand the book reads or writes.                    *)
Command == [command: {"PlaceOrder", "CancelOrder"}, order_id: OrderIds,
            user_id: Users, side: Sides, price: Nat, size: Nat,
            original_size: Nat, time_in_force: TIFs, status: Status]

Idle == [command |-> "None"]     \* no command is being served

(* MatcherTradeEvent; maker_balance is filled in later by the risk engine. *)
Event == [price: Prices, size: Nat, matched_order_id: OrderIds,
          maker_user_id: Users, matched_order_completed: BOOLEAN,
          active_order_completed: BOOLEAN, maker_remaining_size: Nat,
          maker_original_size: Nat]

VARIABLES
  book,      \* [side][price] -> queue of resting orders, oldest first
  volume,    \* [side][price] -> PriceLevel.total_volume
  orders,    \* the id -> price index used by cancel_order
  cmd,       \* the command being served, and its result once "done"
  pc,        \* "idle", "matching" or "done"
  taken,     \* size the command came with
  remaining, \* match_order's remaining_size
  level,     \* price of the level being scanned, or NoPrice
  idx,       \* position in that level's queue
  events,    \* trade events attached to the command, in order
  l2,        \* L2 snapshot attached to the command
  cache,     \* PriceCache entry of this market: best price per side
  last_id    \* id of the last order placed

vars == <<book, volume, orders, cmd, pc, taken, remaining, level, idx, events,
          l2, cache, last_id>>

-----------------------------------------------------------------------------
(* Order of prices.                                                        *)

op_side(s) == IF s = "Bid" THEN "Ask" ELSE "Bid"

(* Price p is better than q for a taker on side s.                         *)
Better(s, p, q) == IF s = "Bid" THEN p < q ELSE p > q

(* Mutant: a strict comparison, equal prices do not trade.                 *)
price_check_strict(s, taker_price, maker_price) ==
  IF s = "Bid" THEN taker_price > maker_price ELSE taker_price < maker_price

(* match_order's price_check.                                              *)
price_check(s, taker_price, maker_price) ==
  IF s = "Bid" THEN taker_price >= maker_price ELSE taker_price <= maker_price

Levels(b, s) == {p \in Prices : b[s][p] # <<>>}

(* BookSide::best_price, with its sentinels for an empty side.             *)
best_price(b, s) ==
  IF Levels(b, s) = {}
  THEN IF s = "Ask" THEN U64MAX ELSE 0
  ELSE CHOOSE p \in Levels(b, s) :
         \A q \in Levels(b, s) \ {p} : Better(op_side(s), p, q)

(* Mutant: the cache is refreshed from the book before the change.         *)
update_price_cache_early(b) == cache' = [s \in Sides |-> best_price(book, s)]

(* update_price_cache after the book has become b.                         *)
update_price_cache(b) == cache' = [s \in Sides |-> best_price(b, s)]

(* The L2SIZE best levels of each side with their volume.                  *)
l2_snapshot(b, v) ==
  [s \in Sides |->
     {<<p, v[s][p]>> : p \in
        {q \in Levels(b, s) :
           Cardinality({r \in Levels(b, s) : Better(op_side(s), r, q)})
             < L2SIZE}}]

record_snapshot(b, v) == l2' = l2_snapshot(b, v)

NoSnapshot == l2' = [s \in Sides |-> {}]

-----------------------------------------------------------------------------
(* Queues.                                                                 *)

RemoveAt(q, i) ==
  [k \in 1 .. Len(q) - 1 |-> IF k < i THEN q[k] ELSE q[k + 1]]

Resting(b, s) == UNION {{b[s][p][i] : i \in 1 .. Len(b[s][p])} : p \in Prices}

(* HashMap::remove on the index.                                           *)
drop_from_index_missing(id) == orders      \* mutant: the entry stays

drop_from_index(id) == [orders EXCEPT ![id] = NoPrice]

(* Mutant: push_front instead of push_back.                                *)
add_to_book_front(size) ==
  LET o == [order_id |-> cmd.order_id, user_id |-> cmd.user_id,
            side |-> cmd.side, size |-> size, original_size |-> cmd.size]
  IN /\ book' = [book EXCEPT ![cmd.side][cmd.price] = <<o>> \o @]
     /\ volume' = [volume EXCEPT ![cmd.side][cmd.price] = @ + size]
     /\ orders' = [orders EXCEPT ![cmd.order_id] = cmd.price]

(* PriceLevel::add_order and the index insertion of add_to_book.           *)
add_to_book(size) ==
  LET o == [order_id |-> cmd.order_id, user_id |-> cmd.user_id,
            side |-> cmd.side, size |-> size, original_size |-> cmd.size]
  IN /\ book' = [book EXCEPT ![cmd.side][cmd.price] = Append(@, o)]
     /\ volume' = [volume EXCEPT ![cmd.side][cmd.price] = @ + size]
     /\ orders' = [orders EXCEPT ![cmd.order_id] = cmd.price]

-----------------------------------------------------------------------------
(* place_order.                                                            *)

(* The orders on the other side at prices the taker accepts.               *)
acceptable_makers(c) ==
  LET s == op_side(c.side)
  IN UNION {{book[s][p][i] : i \in 1 .. Len(book[s][p])} :
              p \in {q \in Prices : price_check(c.side, c.price, q)}}

available_volume(makers) == SumFunction([o \in makers |-> o.size])

(* Mutant: the taker's own orders count as available volume.               *)
can_fill_with_own(c) == available_volume(acceptable_makers(c)) >= c.size

(* can_fill_completely: the volume of other users at acceptable prices     *)
(* covers the order.  The code adds it up level by level and stops early.  *)
can_fill_completely(c) ==
  available_volume({o \in acceptable_makers(c) : o.user_id # c.user_id})
    >= c.size

Serve(c) ==
  /\ taken' = c.size
  /\ remaining' = c.size
  /\ level' = NoPrice
  /\ idx' = 1
  /\ events' = <<>>

place_order(c) ==
  /\ pc = "idle"
  /\ Serve(c)
  /\ last_id' = c.order_id
  /\ UNCHANGED <<book, volume, orders>>
  /\ \/ /\ c.time_in_force = "Fok" /\ ~can_fill_completely(c)
        /\ cmd' = [c EXCEPT !.status = "Cancelled"]
        /\ pc' = "done"
        /\ record_snapshot(book, volume)
        /\ update_price_cache(book)
     \/ /\ c.time_in_force = "Fok" => can_fill_completely(c)
        /\ cmd' = c
        /\ pc' = "matching"
        /\ UNCHANGED <<l2, cache>>

(* The queue match_order iterates over and the cursor's place in it.       *)
Queue     == book[op_side(cmd.side)][level]
InQueue   == level # NoPrice /\ idx <= Len(Queue)
Maker     == Queue[idx]

(* Levels the loop has not reached and will not break at.                  *)
Ahead(p) ==
  /\ book[op_side(cmd.side)][p] # <<>>
  /\ price_check(cmd.side, cmd.price, p)
  /\ level # NoPrice => Better(cmd.side, level, p)

(* Mutant: levels in no particular order, as from a HashMap.               *)
open_any_level(p) ==
  /\ pc = "matching" /\ remaining > 0 /\ ~InQueue
  /\ Ahead(p)
  /\ level' = p
  /\ idx' = 1
  /\ UNCHANGED <<book, volume, orders, cmd, pc, taken, remaining, events, l2,
                 cache, last_id>>

open_level(p) ==
  /\ pc = "matching" /\ remaining > 0 /\ ~InQueue
  /\ Ahead(p)
  /\ \A q \in Prices : Ahead(q) => ~Better(cmd.side, q, p)
  /\ level' = p
  /\ idx' = 1
  /\ UNCHANGED <<book, volume, orders, cmd, pc, taken, remaining, events, l2,
                 cache, last_id>>

(* Self-trade prevention: the taker's own orders are passed over.          *)
skip_own_order ==
  /\ pc = "matching" /\ remaining > 0 /\ InQueue
  /\ Maker.user_id = cmd.user_id
  /\ idx' = idx + 1
  /\ UNCHANGED <<book, volume, orders, cmd, pc, taken, remaining, level,
                 events, l2, cache, last_id>>

trade_size_whole(left, maker) == maker    \* mutant: min forgotten

trade_size(left, maker) == IF left < maker THEN left ELSE maker

(* Mutant: the maker's remaining size is read before the update.           *)
trade_event_early(maker, trade) ==
  [price |-> level, size |-> trade, matched_order_id |-> maker.order_id,
   maker_user_id |-> maker.user_id,
   matched_order_completed |-> maker.size = trade,
   active_order_completed |-> remaining = trade,
   maker_remaining_size |-> maker.size,
   maker_original_size |-> maker.original_size]

trade_event(maker, trade) ==
  [price |-> level, size |-> trade, matched_order_id |-> maker.order_id,
   maker_user_id |-> maker.user_id,
   matched_order_completed |-> maker.size = trade,
   active_order_completed |-> remaining = trade,
   maker_remaining_size |-> maker.size - trade,
   maker_original_size |-> maker.original_size]

fill_maker ==
  /\ pc = "matching" /\ remaining > 0 /\ InQueue
  /\ Maker.user_id # cmd.user_id
  /\ LET s     == op_side(cmd.side)
         trade == trade_size(remaining, Maker.size)
         left  == Maker.size - trade
     IN /\ remaining' = remaining - trade
        /\ volume' = [volume EXCEPT ![s][level] = @ - trade]
        /\ events' = Append(events, trade_event(Maker, trade))
        /\ \/ /\ left = 0
              /\ book' = [book EXCEPT ![s][level] = RemoveAt(@, idx)]
              /\ orders' = drop_from_index(Maker.order_id)
              /\ idx' = idx
           \/ /\ left # 0
              /\ book' = [book EXCEPT ![s][level][idx].size = left]
              /\ idx' = idx + 1
              /\ UNCHANGED orders
  /\ UNCHANGED <<cmd, pc, taken, level, l2, cache, last_id>>

(* The status place_order sets from what match_order left over.            *)
final_status(tif, left, size) ==
  CASE left = 0                        -> "Filled"
    [] tif = "Fok" /\ left # 0         -> "Cancelled"
    [] tif = "Ioc" /\ left = size      -> "Cancelled"
    [] tif = "Gtc" /\ left = size      -> "Placed"
    [] OTHER                           -> "PartiallyFilled"

(* After match_order: rest what a GTC order has left, set status and size, *)
(* give a market sell its first execution price, snapshot, price cache.    *)
finish_place ==
  /\ pc = "matching"
  /\ remaining = 0 \/ (~InQueue /\ \A p \in Prices : ~Ahead(p))
  /\ pc' = "done"
  /\ IF cmd.time_in_force = "Gtc" /\ remaining > 0
     THEN add_to_book(remaining)
     ELSE UNCHANGED <<book, volume, orders>>
  /\ cmd' = [cmd EXCEPT
       !.status = final_status(cmd.time_in_force, remaining, cmd.size),
       !.size   = remaining,
       !.price  = IF cmd.price = 0 /\ cmd.side = "Ask" /\ events # <<>>
                  THEN events[1].price ELSE cmd.price]
  /\ record_snapshot(book', volume')
  /\ update_price_cache(book')
  /\ UNCHANGED <<taken, remaining, level, idx, events, last_id>>

-----------------------------------------------------------------------------
(* cancel_order.                                                           *)

(* The side whose level at price p is searched: bids before asks.          *)
cancel_side_asks_first(p) ==                \* mutant
  IF book["Ask"][p] # <<>> THEN "Ask" ELSE "Bid"

cancel_side(p) == IF book["Bid"][p] # <<>> THEN "Bid" ELSE "Ask"

(* Mutants: total_volume is not adjusted; the oldest order is popped.      *)
remove_order_keep_volume(c, s, p, i) ==
  LET o == book[s][p][i]
  IN /\ book' = [book EXCEPT ![s][p] = RemoveAt(@, i)]
     /\ cmd' = [c EXCEPT !.price = p, !.size = o.size, !.user_id = o.user_id,
                         !.side = o.side, !.status = "Cancelled",
                         !.original_size = o.original_size]
     /\ UNCHANGED volume

remove_order_front(c, s, p, i) ==
  LET o == book[s][p][i]
  IN /\ book' = [book EXCEPT ![s][p] = Tail(@)]
     /\ volume' = [volume EXCEPT ![s][p] = @ - o.size]
     /\ cmd' = [c EXCEPT !.price = p, !.size = o.size, !.user_id = o.user_id,
                         !.side = o.side, !.status = "Cancelled",
                         !.original_size = o.original_size]

(* remove_order found the order at position i of its level.  The binary    *)
(* search by id finds it whenever it is there: queues are sorted by id     *)
(* (QueuesSortedById).                                                     *)
remove_order(c, s, p, i) ==
  LET o == book[s][p][i]
  IN /\ book' = [book EXCEPT ![s][p] = RemoveAt(@, i)]
     /\ volume' = [volume EXCEPT ![s][p] = @ - o.size]
     /\ cmd' = [c EXCEPT !.price = p, !.size = o.size, !.user_id = o.user_id,
                         !.side = o.side, !.status = "Cancelled",
                         !.original_size = o.original_size]

cancel_order(c) ==
  /\ pc = "idle"
  /\ Serve(c)
  /\ pc' = "done"
  /\ orders' = drop_from_index(c.order_id)
  /\ LET p == orders[c.order_id]
         s == cancel_side(p)
     IN \/ /\ p # NoPrice
           /\ \E i \in 1 .. Len(book[s][p]) :
                /\ book[s][p][i].order_id = c.order_id
                /\ remove_order(c, s, p, i)
           /\ record_snapshot(book', volume')
        \/ /\ p # NoPrice
           /\ \A i \in 1 .. Len(book[s][p]) :
                book[s][p][i].order_id # c.order_id
           /\ cmd' = [c EXCEPT !.status = "Rejected"]
           /\ UNCHANGED <<book, volume>>
           /\ IF book[s][p] # <<>> THEN record_snapshot(book, volume)
                                   ELSE NoSnapshot
        \/ /\ p = NoPrice
           /\ cmd' = [c EXCEPT !.status = "Rejected"]
           /\ NoSnapshot
           /\ UNCHANGED <<book, volume>>
  /\ update_price_cache(book')
  /\ UNCHANGED last_id

(* The handler returns and the command moves on to the next stage.         *)
deliver ==
  /\ pc = "done"
  /\ pc' = "idle"
  /\ cmd' = Idle
  /\ events' = <<>>
  /\ NoSnapshot
  /\ taken' = 0 /\ remaining' = 0 /\ level' = NoPrice /\ idx' = 1
  /\ UNCHANGED <<book, volume, orders, cache, last_id>>

-----------------------------------------------------------------------------
Init ==
  /\ book = [s \in Sides |-> [p \in Prices |-> <<>>]]
  /\ volume = [s \in Sides |-> [p \in Prices |-> 0]]
  /\ orders = [i \in OrderIds |-> NoPrice]
  /\ cmd = Idle
  /\ pc = "idle"
  /\ taken = 0 /\ remaining = 0 /\ level = NoPrice /\ idx = 1
  /\ events = <<>>
  /\ l2 = [s \in Sides |-> {}]
  /\ cache = [s \in Sides |-> IF s = "Ask" THEN U64MAX ELSE 0]
  /\ last_id = 0

(* Commands as the pipeline hands them over: ids increase, with gaps left  *)
(* by commands that never reach this book; a market price comes only with  *)
(* IOC or FOK.  A cancel may name any id.                                  *)
NewOrders ==
  {c \in [command: {"PlaceOrder"}, order_id: last_id + 1 .. MaxOrders,
          user_id: Users, side: Sides, price: Prices \cup MarketPrices,
          size: Sizes, original_size: {0}, time_in_force: TIFs,
          status: {"Processing"}] :
     /\ c.price = 0 => c.side = "Ask"
     /\ c.price \notin Prices => c.time_in_force # "Gtc"}

Cancels ==
  [command: {"CancelOrder"}, order_id: OrderIds, user_id: Users,
   side: {"Bid"}, price: {0}, size: {0}, original_size: {0},
   time_in_force: {"Gtc"}, status: {"Processing"}]

Next ==
  \/ \E c \in NewOrders : place_order(c)
  \/ \E p \in Prices : open_level(p)
  \/ skip_own_order
  \/ fill_maker
  \/ finish_place
  \/ \E c \in Cancels : cancel_order(c)
  \/ deliver

Spec == Init /\ [][Next]_vars

-----------------------------------------------------------------------------
(* Type invariant.  cache and l2 are views of the book; ViewsAgree says    *)
(* what they hold.                                                         *)
TypeOK ==
  /\ book \in [Sides -> [Prices -> Seq(Order)]]
  /\ volume \in [Sides -> [Prices -> Int]]
  /\ orders \in [OrderIds -> Prices \cup {NoPrice}]
  /\ pc \in {"idle", "matching", "done"}
  /\ cmd \in Command \cup {Idle}
  /\ pc = "idle" <=> cmd = Idle
  /\ taken \in Nat /\ remaining \in Nat /\ last_id \in 0 .. MaxOrders
  /\ level \in Prices \cup {NoPrice}
  /\ idx \in Nat \ {0}
  /\ events \in Seq(Event)

(* Two resting orders of different users never cross: matching always      *)
(* trades until only the taker's own orders are left at prices it accepts  *)
(* (the no-crossed-book check of the verifiers, up to self-trade           *)
(* prevention).                                                            *)
NoCrossBetweenUsers ==
  \A p, q \in Prices :
    \A i \in 1 .. Len(book["Bid"][p]), j \in 1 .. Len(book["Ask"][q]) :
      book["Bid"][p][i].user_id # book["Ask"][q][j].user_id => p < q

(* Price-time priority: after any number of trades of a command, no order  *)
(* of another user that was ahead of a maker already filled (better price, *)
(* or same price and an older id) still waits in the book.                 *)
PriceTimePriority ==
  \A k \in 1 .. Len(events) : \A p \in Prices :
    LET q == book[op_side(cmd.side)][p]
    IN \A i \in 1 .. Len(q) :
         q[i].user_id # cmd.user_id =>
           /\ ~Better(cmd.side, p, events[k].price)
           /\ p = events[k].price =>
                q[i].order_id >= events[k].matched_order_id

(* Every queue is strictly increasing in order id, which is what makes     *)
(* the binary search of remove_order find every order that is there and    *)
(* the queue a time priority.                                              *)
QueuesSortedById ==
  \A s \in Sides, p \in Prices :
    \A i, j \in 1 .. Len(book[s][p]) :
      i < j => book[s][p][i].order_id < book[s][p][j].order_id

(* The index never points at an order that is gone: an id it holds rests   *)
(* at the price it gives, so the branches of cancel_order commented        *)
(* "must ideally be unreachable" stay unreachable.                         *)
IndexSound ==
  \A n \in OrderIds : orders[n] # NoPrice =>
    \E s \in Sides : \E i \in 1 .. Len(book[s][orders[n]]) :
      book[s][orders[n]][i].order_id = n

(* A resting bid can always be cancelled: its id is in the index and       *)
(* cancel_order looks at the bid side first.  (Asks do not have this       *)
(* property, see RestingOrderCanBeCancelled.)                              *)
RestingBidsIndexed ==
  \A p \in Prices : \A i \in 1 .. Len(book["Bid"][p]) :
    orders[book["Bid"][p][i].order_id] = p

(* "GTC: Order rests on book until filled or explicitly cancelled"         *)
(* (ARCHITECTURE.md:400): cancelling an order that rests does cancel it,   *)
(* so a rejected cancel names an order that is not in the book.            *)
RestingOrderCanBeCancelled ==
  pc = "done" /\ cmd.command = "CancelOrder" /\ cmd.status = "Rejected" =>
    \A s \in Sides : \A o \in Resting(book, s) : o.order_id # cmd.order_id

(* The sizes of a queue of orders, or of a list of events, added up.       *)
TotalSize(q) == SumFunction([i \in 1 .. Len(q) |-> q[i].size])

(* total_volume of a level is the sum of what rests there, and nothing of  *)
(* size zero rests: the sizes updated one by one in the loop, in a cancel  *)
(* and in add_order never drift from the running total.                    *)
VolumeIsSum ==
  \A s \in Sides, p \in Prices :
    /\ volume[s][p] = TotalSize(book[s][p])
    /\ \A i \in 1 .. Len(book[s][p]) : book[s][p][i].size > 0

(* A fill-or-kill order fills completely or trades not at all: what        *)
(* can_fill_completely adds up is exactly what match_order can take,       *)
(* self-trade prevention included.                                         *)
FokAllOrNothing ==
  pc = "done" /\ cmd.command = "PlaceOrder" /\ cmd.time_in_force = "Fok" =>
    \/ cmd.status = "Filled" /\ cmd.size = 0
    \/ cmd.status = "Cancelled" /\ events = <<>> /\ cmd.size = taken

(* The events tell downstream stages the truth: no trade is with the       *)
(* taker's own user or at a price the taker did not accept (a market sell  *)
(* is given its first price afterwards, so prices are compared while it is *)
(* matched); executed sizes and what is left add up to the order; and each *)
(* maker is in the book, of the user and with the size its last event      *)
(* reports, or gone from book and index when completed.                    *)
EventsMatchBook ==
  /\ pc # "idle" =>
       \A k \in 1 .. Len(events) : events[k].maker_user_id # cmd.user_id
  /\ pc = "matching" =>
       \A k \in 1 .. Len(events) :
         price_check(cmd.side, cmd.price, events[k].price)
  /\ pc = "done" /\ cmd.command = "PlaceOrder" =>
       /\ TotalSize(events) + cmd.size = taken
       /\ \A k \in 1 .. Len(events) :
            LET e == events[k]
                q == book[op_side(cmd.side)][e.price]
            IN IF e.matched_order_completed
               THEN /\ orders[e.matched_order_id] = NoPrice
                    /\ \A i \in 1 .. Len(q) : q[i].order_id # e.matched_order_id
               ELSE \E i \in 1 .. Len(q) :
                      /\ q[i].order_id = e.matched_order_id
                      /\ q[i].user_id = e.maker_user_id
                      /\ q[i].size = e.maker_remaining_size
                      /\ q[i].size + e.size <= q[i].original_size

(* Between commands the shared price cache, from which the risk engine     *)
(* prices market buys, is the top of the book, and so is the snapshot that *)
(* a placed order publishes, with volumes that are really there.           *)
ViewsAgree ==
  /\ pc = "idle" => cache = [s \in Sides |-> best_price(book, s)]
  /\ pc = "done" /\ cmd.command = "PlaceOrder" =>
       \A s \in Sides :
         /\ l2[s] = {} <=> cache[s] \notin Prices
         /\ cache[s] \in Prices => \E lv \in l2[s] : lv[1] = cache[s]
         /\ \A lv \in l2[s] : lv[2] = TotalSize(book[s][lv[1]])

(* Serving a cancel never touches another order: it removes exactly the    *)
(* order it reports Cancelled, with its remaining size, or nothing.        *)
CancelOnlyRemovesTarget ==
  [][pc = "idle" /\ pc' = "done" /\ cmd'.command = "CancelOrder" => \A s \in Sides :
       Resting(book, s) \ Resting(book', s) =
         IF cmd'.status = "Cancelled" /\ s = cmd'.side
         THEN {o \in Resting(book, s) : o.order_id = cmd'.order_id
                                         /\ o.size = cmd'.size}
         ELSE {}]_vars
=============================================================================
