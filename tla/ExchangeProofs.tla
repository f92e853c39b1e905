--------------------------- MODULE ExchangeProofs ---------------------------
(***************************************************************************)
(* TLAPS proofs about Exchange and Events.  First, the handlers keep to    *)
(* the barriers of Pipeline, the matching engine uses the book the way     *)
(* OrderBook assumes, and so what is proved of these two components holds  *)
(* in the exchange.  Second, what the events handler publishes: the feeds  *)
(* of Events agree with the book and with each other.  Third, the          *)
(* arithmetic of the funds, for any balances and any claims on them, which *)
(* FundsProofs applies to the steps of Exchange.                           *)
(***************************************************************************)
EXTENDS Events, Sums

PP == INSTANCE PipelineProofs WITH Routers <- {0}, dropped <- FALSE
BP == INSTANCE OrderBookProofs WITH MaxOrders <- MaxSeq

(* How far journaling and matching have come.                              *)
J == cursor[Pipe!Journaling]
M == cursor[Pipe!Matching(0)]

(* An order on its way to the matching engine.                             *)
Waiting ==
  {c \in [command: {"PlaceOrder"}, order_id: 0 .. MaxSeq, user_id: Users,
          side: Book!Sides, price: Prices \cup MarketPrices \cup {U64MAX},
          size: Sizes, original_size: {0}, time_in_force: Book!TIFs,
          status: {"Processing", "Rejected"}] :
     /\ c.price = 0 => c.side = "Ask"
     /\ c.price = U64MAX => c.side = "Bid"
     /\ c.price \notin Prices => c.time_in_force # "Gtc"
     /\ c.price <= U64MAX}

Moving ==
  [command: {"DepositFunds", "WithdrawFunds"}, order_id: 0 .. MaxSeq,
   user_id: Users, asset: Assets, size: 0 .. U64MAX,
   status: {"Processing", "Processed", "Rejected"}]

(* What a slot may hold.                                                   *)
Slot == Waiting \cup Book!Cancels \cup Moving \cup BP!Command \cup {Free}

(* Every slot the matching engine has not finished with holds a command as *)
(* it came, but for the id journaling gave it and for the price and the    *)
(* status R1 did.  The shard of its user lets no market buy pass unpriced. *)
Sound(c, n, cu) ==
  /\ c \in Waiting \cup Book!Cancels \cup Moving
  /\ c.command = "PlaceOrder" =>
       /\ c.order_id = IF n <= cu[Pipe!Journaling] THEN n ELSE 0
       /\ n <= cu[Pipe!R1(ShardOf[c.user_id])] =>
            c.status = "Rejected" \/ ~MarketBuy(c)

RingSound ==
  /\ ring \in Seq(Slot) /\ trades \in Seq(Seq(BP!Event))
  /\ Len(ring) = published /\ Len(trades) = published
  /\ \A n \in M + 1 .. published : Sound(ring[n], n, cursor)

(* The matching engine serves one command after another: the last id the   *)
(* book has seen is that of a slot it is through or busy with.             *)
IdsAhead ==
  /\ last_id <= IF pc = "idle" THEN M ELSE M + 1
  /\ pc # "idle" => M < published

(* R1 may read the price cache at any time: it finds a limit price, or the *)
(* sentinel of an empty side.                                              *)
CacheSound == cache["Ask"] \in Prices \cup {U64MAX}

XInv == PP!PInv /\ BP!Totals /\ RingSound /\ IdsAhead /\ CacheSound

-----------------------------------------------------------------------------
(* The modules of proofs speak of the same components.                     *)

(* The assumptions of Pipeline and of OrderBook follow from those made     *)
(* here.                                                                   *)
LEMMA MarketPricesNat == MarketPrices \subseteq Nat
<1> SUFFICES ASSUME NEW p \in Prices PROVE conservative_price(p) \in Nat
  BY DEF MarketPrices
<1>1. p \in Nat /\ U64MAX + 1 \in Nat /\ U64MAX + 1 > 0 /\ SLIPPAGE \in Nat
  BY MarketAssumption, SpecAssumption
<1> DEFINE k == (p * SLIPPAGE) \div 10000
<1>2. k \in Nat
  <2>1. p * SLIPPAGE \in Nat
    BY <1>1
  <2> QED
    BY <2>1
<1> HIDE DEF k
<1>3. wrap(k) \in Nat
  BY <1>1, <1>2 DEF wrap
<1>4. conservative_price(p) = p + wrap(k)
  BY DEF conservative_price, k
<1> QED
  BY <1>1, <1>3, <1>4

(* Pipeline.                                                               *)
LEMMA SamePipeline ==
  /\ PP!Handlers = Pipe!Handlers /\ PP!Events = Pipe!Events
  /\ PP!publish = Pipe!publish
  /\ \A h : PP!handle(h) = Pipe!handle(h) /\ PP!available(h) = Pipe!available(h)
  /\ PP!Init = Pipe!Init /\ PP!Next = Pipe!Next
  /\ PP!pipeVars = Pipe!pipeVars
  BY DEF PP!Handlers, PP!Journaling, PP!Events, PP!R1, PP!R2, PP!Matching,
         Pipe!Handlers, Pipe!Journaling, Pipe!Events, Pipe!R1, Pipe!R2,
         Pipe!Matching, PP!publish, Pipe!publish, PP!drop, Pipe!drop,
         PP!has_slot, Pipe!has_slot, PP!handle, Pipe!handle, PP!available,
         Pipe!available, PP!Stage, Pipe!Stage, PP!Init, Pipe!Init,
         PP!Next, Pipe!Next, PP!pipeVars, Pipe!pipeVars

(* The data of OrderBook.                                                  *)
LEMMA SameBookData ==
  /\ BP!Sides = Book!Sides /\ BP!TIFs = Book!TIFs
  /\ BP!OrderIds = Book!OrderIds /\ BP!NoPrice = Book!NoPrice
  /\ BP!Idle = Book!Idle
  /\ BP!NewOrders = Book!NewOrders /\ BP!Cancels = Book!Cancels
  /\ BP!vars = Book!vars /\ BP!Init = Book!Init
  BY DEF BP!Sides, Book!Sides, BP!TIFs, Book!TIFs, BP!OrderIds, Book!OrderIds,
         BP!NoPrice, Book!NoPrice, BP!Idle, Book!Idle, BP!NewOrders,
         Book!NewOrders, BP!Cancels, Book!Cancels, BP!vars, Book!vars,
         BP!Init, Book!Init

(* The library operators OrderBook uses.                                   *)
LEMMA SameCount == ASSUME NEW S PROVE BP!Cardinality(S) = Book!Cardinality(S)
  BY DEF BP!Cardinality, Book!Cardinality

LEMMA SameSum == ASSUME NEW f PROVE BP!SumFunction(f) = Book!SumFunction(f)
<1>1. BP!SumFunction(f) = (CHOOSE g : Adds(g, f, DOMAIN f))[DOMAIN f]
  BY DEF BP!SumFunction, BP!SumFunctionOnSet, BP!FoldFunctionOnSet,
         BP!MapThenFoldSet, Adds, Pick
<1>2. Book!SumFunction(f) = (CHOOSE g : Adds(g, f, DOMAIN f))[DOMAIN f]
  BY DEF Book!SumFunction, Book!SumFunctionOnSet, Book!FoldFunctionOnSet,
         Book!MapThenFoldSet, Adds, Pick
<1> QED
  BY <1>1, <1>2

(* The steps of OrderBook.                                                 *)
LEMMA SameBookSteps ==
  /\ \A c : BP!place_order(c) = Book!place_order(c)
  /\ \A p : BP!open_level(p) = Book!open_level(p)
  /\ BP!skip_own_order = Book!skip_own_order
  /\ BP!fill_maker = Book!fill_maker
  /\ BP!finish_place = Book!finish_place
  /\ \A c : BP!cancel_order(c) = Book!cancel_order(c)
  /\ BP!deliver = Book!deliver
<1> USE DEF BP!Sides, Book!Sides, BP!NoPrice, Book!NoPrice, BP!Idle,
            Book!Idle, BP!op_side, Book!op_side, BP!Better, Book!Better,
            BP!price_check, Book!price_check
<1>1. \A b, s : BP!Levels(b, s) = Book!Levels(b, s)
  BY DEF BP!Levels, Book!Levels
<1>2. \A b, s : BP!best_price(b, s) = Book!best_price(b, s)
  BY DEF BP!best_price, Book!best_price, BP!Levels, Book!Levels
<1>3. \A b : BP!update_price_cache(b) = Book!update_price_cache(b)
  BY DEF BP!best_price, Book!best_price, BP!Levels, Book!Levels,
         BP!update_price_cache, Book!update_price_cache
<1>0. \A S : BP!Cardinality(S) = Book!Cardinality(S)
  BY SameCount
<1>16. \A f : BP!SumFunction(f) = Book!SumFunction(f)
  BY SameSum
<1>17. \A b, v : BP!l2_snapshot(b, v) = Book!l2_snapshot(b, v)
  BY <1>0 DEF BP!l2_snapshot, Book!l2_snapshot, BP!Levels, Book!Levels
<1>4. \A b, v : BP!record_snapshot(b, v) = Book!record_snapshot(b, v)
  BY <1>17 DEF BP!record_snapshot, Book!record_snapshot
<1>5. \A c : BP!can_fill_completely(c) = Book!can_fill_completely(c)
  BY <1>16 DEF BP!can_fill_completely, Book!can_fill_completely,
         BP!acceptable_makers, Book!acceptable_makers,
         BP!available_volume, Book!available_volume
<1>6. BP!Queue = Book!Queue /\ BP!InQueue = Book!InQueue /\ BP!Maker = Book!Maker
  BY DEF BP!Queue, Book!Queue, BP!InQueue, Book!InQueue, BP!Maker, Book!Maker
<1>7. \A p : BP!Ahead(p) = Book!Ahead(p)
  BY DEF BP!Ahead, Book!Ahead
<1>8. BP!NoSnapshot = Book!NoSnapshot /\ \A c : BP!Serve(c) = Book!Serve(c)
  BY DEF BP!NoSnapshot, Book!NoSnapshot, BP!Serve, Book!Serve
<1>9. \A c : BP!place_order(c) = Book!place_order(c)
  BY <1>3, <1>4, <1>5, <1>8 DEF BP!place_order, Book!place_order
<1>10. \A p : BP!open_level(p) = Book!open_level(p)
  BY <1>6, <1>7 DEF BP!open_level, Book!open_level
<1>11. BP!skip_own_order = Book!skip_own_order
  BY <1>6 DEF BP!skip_own_order, Book!skip_own_order
<1>12. BP!fill_maker = Book!fill_maker
  BY DEF BP!fill_maker, Book!fill_maker, BP!trade_size, Book!trade_size,
         BP!trade_event, Book!trade_event, BP!RemoveAt, Book!RemoveAt,
         BP!drop_from_index, Book!drop_from_index, BP!Queue, Book!Queue,
         BP!InQueue, Book!InQueue, BP!Maker, Book!Maker
<1>13. BP!finish_place = Book!finish_place
  BY <1>2, <1>17 DEF BP!finish_place, Book!finish_place, BP!add_to_book,
         Book!add_to_book, BP!final_status, Book!final_status,
         BP!Queue, Book!Queue, BP!InQueue, Book!InQueue, BP!Ahead, Book!Ahead,
         BP!record_snapshot, Book!record_snapshot,
         BP!update_price_cache, Book!update_price_cache
<1>18. \A c, x, p, i : BP!remove_order(c, x, p, i) = Book!remove_order(c, x, p, i)
  BY DEF BP!remove_order, Book!remove_order, BP!RemoveAt, Book!RemoveAt
<1>19. \A p : BP!cancel_side(p) = Book!cancel_side(p)
  BY DEF BP!cancel_side, Book!cancel_side
<1>20. \A n : BP!drop_from_index(n) = Book!drop_from_index(n)
  BY DEF BP!drop_from_index, Book!drop_from_index
<1>14. \A c : BP!cancel_order(c) = Book!cancel_order(c)
  BY <1>2, <1>8, <1>17, <1>18, <1>19, <1>20
     DEF BP!cancel_order, Book!cancel_order,
         BP!record_snapshot, Book!record_snapshot,
         BP!update_price_cache, Book!update_price_cache
<1>15. BP!deliver = Book!deliver
  BY <1>8 DEF BP!deliver, Book!deliver
<1> QED
  BY <1>9, <1>10, <1>11, <1>12, <1>13, <1>14, <1>15

(* A step of the book, as the proofs about it name it.                     *)
LEMMA SameBook == BP!Next = Book!Next
  BY SameBookSteps, SameBookData DEF BP!Next, Book!Next

-----------------------------------------------------------------------------
(* The cursors.                                                            *)

LEMMA HandlersAre ==
  /\ Pipe!Journaling \in Pipe!Handlers /\ Pipe!Events \in Pipe!Handlers
  /\ Pipe!Matching(0) \in Pipe!Handlers
  /\ \A s \in RiskShards : Pipe!R1(s) \in Pipe!Handlers /\ Pipe!R2(s) \in Pipe!Handlers
  /\ Pipe!Matching(0) # Pipe!Journaling /\ Pipe!Matching(0) # Pipe!Events
  /\ Pipe!Journaling # Pipe!Events
  /\ \A s : /\ Pipe!R1(s) # Pipe!Matching(0) /\ Pipe!R1(s) # Pipe!Journaling
            /\ Pipe!R1(s) # Pipe!Events /\ Pipe!R2(s) # Pipe!Matching(0)
            /\ Pipe!R2(s) # Pipe!Journaling /\ Pipe!R2(s) # Pipe!Events
  /\ \A s, t : /\ Pipe!R1(s) # Pipe!R2(t)
               /\ Pipe!R1(s) = Pipe!R1(t) => s = t
               /\ Pipe!R2(s) = Pipe!R2(t) => s = t
  BY DEF Pipe!Handlers, Pipe!Journaling, Pipe!Events, Pipe!R1, Pipe!R2,
         Pipe!Matching

(* The barriers order the cursors.                                         *)
LEMMA Cursors ==
  ASSUME PP!PInv
  PROVE  /\ published \in Nat /\ MaxSeq \in Nat /\ published <= MaxSeq
         /\ \A h \in Pipe!Handlers : cursor[h] \in Nat /\ cursor[h] <= published
         /\ M \in Nat /\ J \in Nat /\ M <= J
         /\ cursor[Pipe!Events] <= M
         /\ \A s \in RiskShards : /\ M <= cursor[Pipe!R1(s)]
                                  /\ cursor[Pipe!R2(s)] <= M
                                  /\ cursor[Pipe!Events] <= cursor[Pipe!R2(s)]
<1>1. /\ published \in Nat /\ MaxSeq \in Nat /\ published <= MaxSeq
      /\ \A h \in Pipe!Handlers : cursor[h] \in Nat /\ cursor[h] <= published
  BY RingAssumption, SamePipeline DEF PP!PInv, PP!TypeOK, PP!BarrierOrder
<1>2. \A g, h \in Pipe!Handlers :
        PP!Stage(g) < PP!Stage(h) => cursor[h] <= cursor[g]
  BY SamePipeline DEF PP!PInv, PP!BarrierOrder
<1>3. /\ PP!Stage(Pipe!Journaling) = 1 /\ PP!Stage(Pipe!Matching(0)) = 2
      /\ PP!Stage(Pipe!Events) = 4
      /\ \A s : PP!Stage(Pipe!R1(s)) = 1 /\ PP!Stage(Pipe!R2(s)) = 3
  BY DEF PP!Stage, Pipe!Journaling, Pipe!Matching, Pipe!Events, Pipe!R1,
         Pipe!R2
<1>4. M <= J /\ cursor[Pipe!Events] <= M
  BY <1>2, <1>3, HandlersAre DEF M, J
<1>5. ASSUME NEW s \in RiskShards
      PROVE  /\ M <= cursor[Pipe!R1(s)] /\ cursor[Pipe!R2(s)] <= M
             /\ cursor[Pipe!Events] <= cursor[Pipe!R2(s)]
  BY <1>2, <1>3, HandlersAre DEF M
<1>6. M \in Nat /\ J \in Nat
  BY <1>1, HandlersAre DEF M, J
<1> QED
  BY <1>1, <1>4, <1>5, <1>6

(* A handler may work on a slot once the stage before is through with it.  *)
LEMMA Barred ==
  ASSUME PP!PInv
  PROVE  /\ Pipe!available(Pipe!Matching(0)) =>
              /\ M < published /\ M < J
              /\ \A s \in RiskShards : M < cursor[Pipe!R1(s)]
         /\ \A s \in RiskShards : Pipe!available(Pipe!R2(s)) =>
              cursor[Pipe!R2(s)] < M
         /\ Pipe!available(Pipe!Events) => cursor[Pipe!Events] < M
<1>1. \A g, h \in Pipe!Handlers :
        PP!Stage(g) < PP!Stage(h) /\ Pipe!available(h) => cursor[h] < cursor[g]
  BY PP!AvailableMeansDone, SamePipeline, RingAssumption
<1>2. /\ PP!Stage(Pipe!Journaling) = 1 /\ PP!Stage(Pipe!Matching(0)) = 2
      /\ PP!Stage(Pipe!Events) = 4
      /\ \A s : PP!Stage(Pipe!R1(s)) = 1 /\ PP!Stage(Pipe!R2(s)) = 3
  BY DEF PP!Stage, Pipe!Journaling, Pipe!Matching, Pipe!Events, Pipe!R1,
         Pipe!R2
<1>3. Pipe!available(Pipe!Matching(0)) => M < published
  BY DEF Pipe!available, M
<1> QED
  BY <1>1, <1>2, <1>3, HandlersAre DEF M, J

(* What a handler's step does to the cursors.                              *)
LEMMA HandleFacts ==
  ASSUME PP!PInv, NEW h \in Pipe!Handlers, Pipe!handle(h)
  PROVE  /\ Pipe!available(h)
         /\ published' = published
         /\ cursor[h] \in Nat /\ cursor[h] < published
         /\ cursor'[h] = cursor[h] + 1
         /\ \A g \in Pipe!Handlers \ {h} : cursor'[g] = cursor[g]
<1>1. cursor \in [Pipe!Handlers -> 0 .. MaxSeq]
  BY SamePipeline DEF PP!PInv, PP!TypeOK
<1> QED
  BY <1>1, RingAssumption DEF Pipe!handle, Pipe!available

-----------------------------------------------------------------------------
(* Steps of the two components keep their invariants.                      *)

LEMMA PipeKept ==
  ASSUME PP!PInv, [Pipe!Next]_Pipe!pipeVars
  PROVE  PP!PInv'
<1>1. [PP!Next]_PP!pipeVars
  BY SamePipeline DEF PP!pipeVars, Pipe!pipeVars
<1> QED
  BY <1>1, PP!PNext, RingAssumption

LEMMA BookKept ==
  ASSUME BP!Totals, [Book!Next]_Book!vars
  PROVE  BP!Totals'
<1>1. [BP!Next]_BP!vars
  BY SameBook DEF BP!vars, Book!vars
<1> QED
  BY <1>1, BP!NextTotals, MarketAssumption, RingAssumption, MarketPricesNat

-----------------------------------------------------------------------------
(* The slots.                                                              *)

(* Fields of the commands that wait in the ring.                           *)
LEMMA WaitingFacts ==
  ASSUME NEW c \in Waiting \cup Book!Cancels \cup Moving
  PROVE  /\ c \in Slot
         /\ c.command \in {"PlaceOrder", "CancelOrder", "DepositFunds",
                           "WithdrawFunds"}
         /\ c.user_id \in Users /\ ShardOf[c.user_id] \in RiskShards
         /\ c \in Waiting <=> c.command = "PlaceOrder"
         /\ c \in Book!Cancels <=> c.command = "CancelOrder"
         /\ c \in Moving <=> c.command \in {"DepositFunds", "WithdrawFunds"}
<1>1. CASE c \in Waiting
  BY <1>1, ShardAssumption DEF Waiting, Slot, Book!Cancels, Moving
<1>2. CASE c \in Book!Cancels
  BY <1>2, ShardAssumption DEF Waiting, Slot, Book!Cancels, Moving
<1>3. CASE c \in Moving
  BY <1>3, ShardAssumption DEF Waiting, Slot, Book!Cancels, Moving
<1> QED
  BY <1>1, <1>2, <1>3

(* A slot stays sound while neither journaling nor its user's R1 passes.   *)
LEMMA SlotSame ==
  ASSUME NEW c, NEW n, NEW cu, NEW cv, Sound(c, n, cu),
         n <= cu[Pipe!Journaling] <=> n <= cv[Pipe!Journaling],
         c.command = "PlaceOrder" =>
           (n <= cv[Pipe!R1(ShardOf[c.user_id])] =>
              n <= cu[Pipe!R1(ShardOf[c.user_id])])
  PROVE  Sound(c, n, cv)
  BY DEF Sound

(* What the ring holds where matching has not been.                        *)
LEMMA AtSlot ==
  ASSUME XInv, NEW n \in Nat, M < n, n <= published
  PROVE  /\ Sound(ring[n], n, cursor)
         /\ ring[n] \in Waiting \cup Book!Cancels \cup Moving
         /\ n \in 1 .. Len(ring) /\ n \in DOMAIN ring
<1>1. /\ M \in Nat /\ published \in Nat
  BY Cursors DEF XInv
<1>2. n \in M + 1 .. published /\ n \in 1 .. published
  BY <1>1
<1>3. ring \in Seq(Slot) /\ Len(ring) = published
  BY DEF XInv, RingSound
<1>4. Sound(ring[n], n, cursor)
  BY <1>2 DEF XInv, RingSound
<1> QED
  BY <1>2, <1>3, <1>4 DEF Sound

(* A step of a handler of the ring outside matching: only slot n of its    *)
(* ring may change, and stays sound.                                       *)
LEMMA RingStep ==
  ASSUME XInv, NEW h \in Pipe!Handlers \ {Pipe!Matching(0)}, Pipe!handle(h),
         NEW n, n = cursor[h] + 1, NEW c,
         ring' = [ring EXCEPT ![n] = c] \/ (ring' = ring /\ c = ring[n]),
         c \in Slot,
         \/ trades' = trades
         \/ trades' \in Seq(Seq(BP!Event)) /\ Len(trades') = Len(trades),
         M < n => Sound(c, n, cursor')
  PROVE  RingSound'
<1>1. /\ published' = published /\ cursor[h] \in Nat /\ cursor[h] < published
      /\ cursor'[h] = cursor[h] + 1
      /\ \A g \in Pipe!Handlers \ {h} : cursor'[g] = cursor[g]
  BY HandleFacts DEF XInv
<1>2. ring \in Seq(Slot) /\ Len(ring) = published
  BY DEF XInv, RingSound
<1>3. n \in 1 .. Len(ring) /\ published \in Nat /\ M \in Nat
  BY <1>1, <1>2, Cursors DEF XInv
<1>4. /\ ring' \in Seq(Slot) /\ Len(ring') = published /\ ring'[n] = c
      /\ \A k \in 1 .. published : k # n => ring'[k] = ring[k]
  BY <1>2, <1>3
<1>5. M' = M
  BY <1>1, HandlersAre DEF M
<1>6. ASSUME NEW k \in M + 1 .. published
      PROVE  Sound(ring'[k], k, cursor')
  <2>1. CASE k = n
    BY <1>3, <1>4, <1>6, <2>1
  <2>2. CASE k # n
    <3>1. k \in Nat /\ M < k /\ k <= published /\ k \in 1 .. published
      BY <1>3, <1>6
    <3>2. /\ Sound(ring[k], k, cursor)
          /\ ring[k] \in Waiting \cup Book!Cancels \cup Moving
      BY <3>1, AtSlot
    <3>3. Pipe!R1(ShardOf[ring[k].user_id]) \in Pipe!Handlers
      BY <3>2, WaitingFacts, HandlersAre
    <3>4. ASSUME NEW g \in Pipe!Handlers
          PROVE  k <= cursor[g] <=> k <= cursor'[g]
      BY <1>1, <2>2, <3>1
    <3>5. Sound(ring[k], k, cursor')
      BY <3>2, <3>3, <3>4, HandlersAre, SlotSame
    <3> QED
      BY <1>4, <2>2, <3>1, <3>5
  <2> QED
    BY <2>1, <2>2
<1>7. trades' \in Seq(Seq(BP!Event)) /\ Len(trades') = published'
  BY <1>1 DEF XInv, RingSound
<1> QED
  BY <1>1, <1>4, <1>5, <1>6, <1>7 DEF RingSound

(* Steps that leave the book and its matching engine alone.                *)
BookStands == UNCHANGED bookVars

LEMMA StandStill ==
  ASSUME XInv, BookStands, M' = M, published' \in Nat, published <= published'
  PROVE  IdsAhead' /\ CacheSound' /\ UNCHANGED Book!vars
<1>1. UNCHANGED Book!vars
  BY DEF BookStands, bookVars, Book!vars
<1>2. published \in Nat /\ M \in Nat
  BY Cursors DEF XInv
<1>3. last_id' = last_id /\ pc' = pc /\ cache' = cache
  BY DEF BookStands, bookVars
<1> QED
  BY <1>1, <1>2, <1>3 DEF XInv, IdsAhead, CacheSound

(* A handler's step is a step of the pipeline.                             *)
LEMMA HandleIsNext ==
  ASSUME NEW h \in Pipe!Handlers, Pipe!handle(h)
  PROVE  [Pipe!Next]_Pipe!pipeVars
  BY DEF Pipe!Next

(* Both components take a step of their own or none, and nothing that the  *)
(* proof relies on is lost.                                                *)
GoodStep ==
  /\ XInv'
  /\ [Book!Next]_Book!vars
  /\ [Pipe!Next]_Pipe!pipeVars

LEMMA GoodHandle ==
  ASSUME XInv, NEW h \in Pipe!Handlers \ {Pipe!Matching(0)}, Pipe!handle(h),
         BookStands, RingSound'
  PROVE  GoodStep
<1>1. M' = M /\ published' = published /\ published \in Nat
  BY HandleFacts, HandlersAre, Cursors DEF XInv, M
<1>2. IdsAhead' /\ CacheSound' /\ UNCHANGED Book!vars
  BY <1>1, StandStill
<1>3. [Book!Next]_Book!vars /\ [Pipe!Next]_Pipe!pipeVars
  BY <1>2, HandleIsNext
<1>4. PP!PInv' /\ BP!Totals'
  BY <1>3, PipeKept, BookKept DEF XInv
<1> QED
  BY <1>2, <1>3, <1>4 DEF XInv, GoodStep

-----------------------------------------------------------------------------
(* The handlers one by one.                                                *)

LEMMA InputsWait ==
  ASSUME NEW c \in Inputs
  PROVE  /\ c \in Waiting \cup Book!Cancels \cup Moving
         /\ c.command = "PlaceOrder" => c.order_id = 0
<1>0. /\ MaxSeq \in Nat /\ 0 \in MarketPrices
      /\ \A p \in Prices \cup {0, U64MAX} : p <= U64MAX
  BY RingAssumption, MarketAssumption DEF MarketPrices
<1>1. CASE c \in Placements
  <2>1. c \in Waiting /\ c.order_id = 0
    BY <1>0, <1>1 DEF Placements, Waiting
  <2> QED
    BY <2>1
<1>2. CASE c \in Book!Cancels
  BY <1>2 DEF Book!Cancels
<1>3. CASE c \in Transfers
  BY <1>0, <1>3 DEF Transfers, Moving
<1> QED
  BY <1>1, <1>2, <1>3, InputsAssumption

LEMMA XPublish ==
  ASSUME XInv, NEW c \in Inputs, publish(c)
  PROVE  GoodStep
<1>1. /\ Pipe!publish /\ ring' = Append(ring, c) /\ trades' = Append(trades, <<>>)
      /\ BookStands
  BY DEF publish, BookStands
<1>2. published' = published + 1 /\ cursor' = cursor
  BY <1>1 DEF Pipe!publish
<1>3. /\ published \in Nat /\ M \in Nat
      /\ \A h \in Pipe!Handlers : cursor[h] \in Nat /\ cursor[h] <= published
  BY Cursors DEF XInv
<1>4. M' = M
  BY <1>2 DEF M
<1>5. IdsAhead' /\ CacheSound' /\ UNCHANGED Book!vars
  BY <1>1, <1>2, <1>3, <1>4, StandStill
<1>6. [Book!Next]_Book!vars /\ [Pipe!Next]_Pipe!pipeVars
  BY <1>1, <1>5 DEF Pipe!Next
<1>7. PP!PInv' /\ BP!Totals'
  BY <1>6, PipeKept, BookKept DEF XInv
<1>8. RingSound'
  <2>1. /\ ring \in Seq(Slot) /\ Len(ring) = published
        /\ trades \in Seq(Seq(BP!Event)) /\ Len(trades) = published
    BY DEF XInv, RingSound
  <2>2. /\ c \in Waiting \cup Book!Cancels \cup Moving
        /\ c.command = "PlaceOrder" => c.order_id = 0
    BY InputsWait
  <2>3. c \in Slot
    BY <2>2, WaitingFacts
  <2>4. /\ ring' \in Seq(Slot) /\ Len(ring') = published + 1
        /\ ring'[published + 1] = c
        /\ \A n \in 1 .. published : ring'[n] = ring[n]
    BY <1>1, <2>1, <2>3
  <2>5. trades' \in Seq(Seq(BP!Event)) /\ Len(trades') = published + 1
    <3>1. <<>> \in Seq(BP!Event)
      OBVIOUS
    <3> QED
      BY <1>1, <2>1, <3>1
  <2>6. ASSUME NEW n \in M + 1 .. published + 1
        PROVE  Sound(ring'[n], n, cursor)
    <3>1. CASE n = published + 1
      <4>1. Pipe!R1(ShardOf[c.user_id]) \in Pipe!Handlers
        BY <2>2, WaitingFacts, HandlersAre
      <4>2. /\ ~(n <= cursor[Pipe!Journaling])
            /\ ~(n <= cursor[Pipe!R1(ShardOf[c.user_id])])
        BY <1>3, <3>1, <4>1, HandlersAre
      <4> QED
        BY <2>2, <2>4, <3>1, <4>2 DEF Sound
    <3>2. CASE n # published + 1
      <4>1. n \in Nat /\ M < n /\ n <= published /\ n \in 1 .. published
        BY <1>3, <2>6, <3>2
      <4> QED
        BY <2>4, <4>1, AtSlot
    <3> QED
      BY <3>1, <3>2
  <2> QED
    BY <1>2, <1>4, <2>4, <2>5, <2>6 DEF RingSound
<1> QED
  BY <1>5, <1>6, <1>7, <1>8 DEF XInv, GoodStep

LEMMA XJournal ==
  ASSUME XInv, journal_command
  PROVE  GoodStep
<1>1. PICK n : n = J + 1
  OBVIOUS
<1>2. /\ Pipe!handle(Pipe!Journaling)
      /\ ring' = IF ring[n].command = "CancelOrder" THEN ring
                 ELSE [ring EXCEPT ![n].order_id = n]
      /\ trades' = trades /\ BookStands
  BY <1>1 DEF journal_command, slot, BookStands, J
<1>3. /\ M \in Nat /\ J \in Nat /\ M <= J /\ MaxSeq \in Nat
      /\ J < published /\ published <= MaxSeq /\ published \in Nat
      /\ cursor'[Pipe!Journaling] = J + 1
      /\ \A g \in Pipe!Handlers \ {Pipe!Journaling} : cursor'[g] = cursor[g]
  BY <1>2, HandleFacts, HandlersAre, Cursors DEF XInv, J
<1>4. n \in Nat /\ M < n /\ n <= published /\ n \in 0 .. MaxSeq
  BY <1>1, <1>3
<1>5. PICK c : c = ring[n]
  OBVIOUS
<1>6. /\ Sound(c, n, cursor) /\ n \in DOMAIN ring
      /\ c \in Waiting \cup Book!Cancels \cup Moving
  BY <1>4, <1>5, AtSlot
<1>7. PICK d : d = IF c.command = "CancelOrder" THEN c
                   ELSE [c EXCEPT !.order_id = n]
  OBVIOUS
<1>8. ring' = [ring EXCEPT ![n] = d] \/ (ring' = ring /\ d = ring[n])
  BY <1>2, <1>5, <1>6, <1>7
<1>9. CASE c.command = "CancelOrder"
  <2>1. d \in Slot /\ Sound(d, n, cursor')
    BY <1>6, <1>7, <1>9, WaitingFacts DEF Sound
  <2>2. RingSound'
    BY <1>1, <1>2, <1>8, <2>1, HandlersAre, RingStep DEF J
  <2> QED
    BY <1>2, <2>2, HandlersAre, GoodHandle
<1>10. CASE c.command = "PlaceOrder"
  <2>1. d = [c EXCEPT !.order_id = n] /\ c \in Waiting
    BY <1>6, <1>7, <1>10, WaitingFacts
  <2>2. /\ d \in Waiting /\ d.order_id = n /\ d.user_id = c.user_id
        /\ d.status = c.status /\ MarketBuy(d) = MarketBuy(c)
    BY <1>4, <2>1 DEF Waiting, MarketBuy
  <2>3. Pipe!R1(ShardOf[c.user_id]) \in Pipe!Handlers
    BY <1>6, WaitingFacts, HandlersAre
  <2>4. cursor'[Pipe!R1(ShardOf[c.user_id])] = cursor[Pipe!R1(ShardOf[c.user_id])]
    BY <1>3, <2>3, HandlersAre
  <2>5. Sound(d, n, cursor')
    BY <1>1, <1>3, <1>4, <1>6, <1>10, <2>2, <2>4 DEF Sound
  <2>6. d \in Slot
    BY <2>2, WaitingFacts
  <2>7. RingSound'
    BY <1>1, <1>2, <1>8, <2>5, <2>6, HandlersAre, RingStep DEF J
  <2> QED
    BY <1>2, <2>7, HandlersAre, GoodHandle
<1>11. CASE c.command \in {"DepositFunds", "WithdrawFunds"}
  <2>1. d = [c EXCEPT !.order_id = n] /\ c \in Moving
    BY <1>6, <1>7, <1>11, WaitingFacts
  <2>2. d \in Moving
    BY <1>4, <2>1 DEF Moving
  <2>3. d \in Slot /\ Sound(d, n, cursor')
    BY <2>2, WaitingFacts DEF Sound
  <2>4. RingSound'
    BY <1>1, <1>2, <1>8, <2>3, HandlersAre, RingStep DEF J
  <2> QED
    BY <1>2, <2>4, HandlersAre, GoodHandle
<1> QED
  BY <1>6, <1>9, <1>10, <1>11, WaitingFacts

(* What R1 of a shard finds in its next slot, and how far it has come      *)
(* after a step that finishes with it.                                     *)
LEMMA R1Facts ==
  ASSUME XInv, NEW s \in RiskShards, Pipe!available(Pipe!R1(s)),
         NEW n, n = slot(Pipe!R1(s))
  PROVE  /\ n \in Nat /\ M < n /\ n <= published
         /\ n = cursor[Pipe!R1(s)] + 1 /\ n \in DOMAIN ring
         /\ Sound(ring[n], n, cursor)
         /\ ring[n] \in Waiting \cup Book!Cancels \cup Moving
         /\ Pipe!R1(s) \in Pipe!Handlers \ {Pipe!Matching(0)}
<1>1. /\ M \in Nat /\ published \in Nat
      /\ M <= cursor[Pipe!R1(s)] /\ cursor[Pipe!R1(s)] \in Nat
      /\ cursor[Pipe!R1(s)] < published
  BY Cursors, HandlersAre DEF XInv, Pipe!available
<1>2. n = cursor[Pipe!R1(s)] + 1 /\ n \in Nat /\ M < n /\ n <= published
  BY <1>1 DEF slot
<1> QED
  BY <1>2, AtSlot, HandlersAre

(* R1 of shard s is through with slot n, which now holds d.                *)
LEMMA R1Passes ==
  ASSUME XInv, NEW s \in RiskShards, Pipe!handle(Pipe!R1(s)),
         NEW n, n = slot(Pipe!R1(s)), NEW d,
         ring' = [ring EXCEPT ![n] = d] \/ (ring' = ring /\ d = ring[n]),
         trades' = trades, BookStands,
         d \in Waiting \cup Book!Cancels \cup Moving,
         d.command = "PlaceOrder" =>
           /\ ring[n].command = "PlaceOrder"
           /\ d.user_id = ring[n].user_id /\ d.order_id = ring[n].order_id
           /\ Owns(s, d) => d.status = "Rejected" \/ ~MarketBuy(d)
           /\ ~Owns(s, d) => d = ring[n]
  PROVE  GoodStep
<1>1. Pipe!available(Pipe!R1(s))
  BY DEF Pipe!handle
<1>2. /\ n \in Nat /\ M < n /\ n <= published
      /\ n = cursor[Pipe!R1(s)] + 1
      /\ Sound(ring[n], n, cursor)
      /\ ring[n] \in Waiting \cup Book!Cancels \cup Moving
      /\ Pipe!R1(s) \in Pipe!Handlers \ {Pipe!Matching(0)}
  BY <1>1, R1Facts
<1>3. \A g \in Pipe!Handlers \ {Pipe!R1(s)} : cursor'[g] = cursor[g]
  BY <1>2, HandleFacts DEF XInv
<1>4. /\ cursor'[Pipe!Journaling] = cursor[Pipe!Journaling]
      /\ \A t \in RiskShards : t # s => cursor'[Pipe!R1(t)] = cursor[Pipe!R1(t)]
  BY <1>3, HandlersAre
<1>5. Sound(d, n, cursor')
  <2>1. CASE d.command # "PlaceOrder"
    BY <2>1 DEF Sound
  <2>2. CASE d.command = "PlaceOrder" /\ Owns(s, d)
    BY <1>2, <1>4, <2>2 DEF Sound
  <2>3. CASE d.command = "PlaceOrder" /\ ~Owns(s, d)
    <3>1. ShardOf[d.user_id] # s /\ ShardOf[d.user_id] \in RiskShards
      BY <2>3, WaitingFacts DEF Owns
    <3> QED
      BY <1>2, <1>4, <2>3, <3>1 DEF Sound
  <2> QED
    BY <2>1, <2>2, <2>3
<1>6. d \in Slot
  BY WaitingFacts
<1>7. RingSound'
  BY <1>2, <1>5, <1>6, RingStep
<1> QED
  BY <1>2, <1>7, GoodHandle

LEMMA XSkip1 ==
  ASSUME XInv, NEW s \in RiskShards, r1_skip(s)
  PROVE  GoodStep
<1>1. PICK n : n = slot(Pipe!R1(s))
  OBVIOUS
<1>2. /\ Pipe!handle(Pipe!R1(s)) /\ ~Owns(s, ring[n])
      /\ ring' = ring /\ trades' = trades /\ BookStands
  BY <1>1 DEF r1_skip, BookStands
<1>3. ring[n] \in Waiting \cup Book!Cancels \cup Moving
  BY <1>1, <1>2, R1Facts DEF Pipe!handle
<1> QED
  BY <1>1, <1>2, <1>3, R1Passes

(* A rejected order is the order with another status.                      *)
LEMMA RejectedWaits ==
  ASSUME NEW c \in Waiting
  PROVE  LET d == [c EXCEPT !.status = "Rejected"]
         IN /\ d \in Waiting /\ d.status = "Rejected"
            /\ d.command = "PlaceOrder" /\ d.user_id = c.user_id
            /\ d.order_id = c.order_id
  BY DEF Waiting

LEMMA XPrice ==
  ASSUME XInv, NEW s \in RiskShards, r1_price_market_buy(s)
  PROVE  GoodStep
<1>1. PICK n : n = slot(Pipe!R1(s))
  OBVIOUS
<1>2. PICK c : c = ring[n]
  OBVIOUS
<1>3. PICK price : price = conservative_price(cache["Ask"])
  OBVIOUS
<1>4. /\ Pipe!available(Pipe!R1(s)) /\ Owns(s, c) /\ MarketBuy(c)
      /\ trades' = trades /\ BookStands
      /\ \/ /\ ring' = [ring EXCEPT ![n].status = "Rejected"]
            /\ Pipe!handle(Pipe!R1(s))
         \/ /\ cache["Ask"] # U64MAX /\ price <= U64MAX
            /\ ring' = [ring EXCEPT ![n].price = price]
            /\ UNCHANGED <<published, cursor>>
  BY <1>1, <1>2, <1>3 DEF r1_price_market_buy, BookStands
<1>5. /\ n \in Nat /\ M < n /\ n <= published /\ n \in DOMAIN ring
      /\ Sound(c, n, cursor) /\ n = cursor[Pipe!R1(s)] + 1
      /\ c \in Waiting \cup Book!Cancels \cup Moving
  BY <1>1, <1>2, <1>4, R1Facts
<1>6. c \in Waiting /\ c.command = "PlaceOrder"
  BY <1>4, <1>5, WaitingFacts DEF MarketBuy
<1>7. CASE /\ ring' = [ring EXCEPT ![n].status = "Rejected"]
           /\ Pipe!handle(Pipe!R1(s))
  <2>1. PICK d : d = [c EXCEPT !.status = "Rejected"]
    OBVIOUS
  <2>2. /\ d \in Waiting /\ d.status = "Rejected" /\ d.command = "PlaceOrder"
        /\ d.user_id = c.user_id /\ d.order_id = c.order_id
    BY <1>6, <2>1, RejectedWaits
  <2>3. ring' = [ring EXCEPT ![n] = d]
    BY <1>2, <1>7, <2>1
  <2>4. Owns(s, d)
    BY <1>4, <2>2 DEF Owns
  <2> QED
    BY <1>1, <1>2, <1>4, <1>6, <1>7, <2>2, <2>3, <2>4, R1Passes
<1>8. CASE /\ cache["Ask"] # U64MAX /\ price <= U64MAX
           /\ ring' = [ring EXCEPT ![n].price = price]
           /\ UNCHANGED <<published, cursor>>
  <2>1. PICK d : d = [c EXCEPT !.price = price]
    OBVIOUS
  <2>2. price \in MarketPrices /\ price # 0 /\ price \in Nat
    <3>1. PICK p \in Prices : p = cache["Ask"]
      BY <1>8 DEF XInv, CacheSound
    <3>2. price = p + wrap((p * SLIPPAGE) \div 10000) /\ price \in MarketPrices
      BY <1>3, <3>1 DEF conservative_price, MarketPrices
    <3>3. p \in Nat /\ p > 0 /\ U64MAX + 1 \in Nat /\ U64MAX + 1 > 0
          /\ SLIPPAGE \in Nat
      BY <3>1, MarketAssumption, SpecAssumption
    <3>4. PICK k : k = (p * SLIPPAGE) \div 10000
      OBVIOUS
    <3>5. k \in Nat
      <4>1. p * SLIPPAGE \in Nat
        BY <3>3
      <4> QED
        BY <3>4, <4>1
    <3>6. wrap(k) \in Nat
      BY <3>3, <3>5 DEF wrap
    <3> QED
      BY <3>2, <3>3, <3>4, <3>6
  <2>3. c.price = U64MAX /\ c.side = "Bid" /\ U64MAX \notin Prices
    BY <1>4, MarketAssumption DEF MarketBuy
  <2>4. /\ d \in Waiting /\ d.command = "PlaceOrder"
        /\ d.user_id = c.user_id /\ d.order_id = c.order_id
    BY <1>6, <1>8, <2>1, <2>2, <2>3 DEF Waiting
  <2>5. ring' = [ring EXCEPT ![n] = d]
    BY <1>2, <1>8, <2>1
  <2>6. d \in Slot
    BY <2>4, WaitingFacts
  <2>7. ShardOf[c.user_id] = s
    BY <1>4 DEF Owns
  <2>8. Sound(d, n, cursor)
    <3>1. ~(n <= cursor[Pipe!R1(s)])
      BY <1>5, HandlersAre, Cursors DEF XInv
    <3> QED
      BY <1>5, <1>6, <2>4, <2>7, <3>1 DEF Sound
  <2>9. /\ ring \in Seq(Slot) /\ Len(ring) = published
        /\ trades \in Seq(Seq(BP!Event)) /\ Len(trades) = published
        /\ \A k \in M + 1 .. published : Sound(ring[k], k, cursor)
        /\ M \in Nat /\ published \in Nat
    BY Cursors DEF XInv, RingSound
  <2>10. /\ ring' \in Seq(Slot) /\ Len(ring') = published /\ ring'[n] = d
         /\ \A k \in 1 .. published : k # n => ring'[k] = ring[k]
    BY <1>5, <2>5, <2>6, <2>9
  <2>11. M' = M /\ published' = published /\ cursor' = cursor
    BY <1>8 DEF M
  <2>12. \A k \in M + 1 .. published : Sound(ring'[k], k, cursor)
    BY <2>8, <2>9, <2>10
  <2>13. RingSound'
    BY <1>4, <2>9, <2>10, <2>11, <2>12 DEF RingSound
  <2>14. IdsAhead' /\ CacheSound' /\ UNCHANGED Book!vars
    BY <1>4, <2>9, <2>11, StandStill
  <2>15. [Book!Next]_Book!vars /\ [Pipe!Next]_Pipe!pipeVars
    BY <2>11, <2>14 DEF Pipe!pipeVars
  <2>16. PP!PInv' /\ BP!Totals'
    BY <2>15, PipeKept, BookKept DEF XInv
  <2> QED
    BY <2>13, <2>14, <2>15, <2>16 DEF XInv, GoodStep
<1> QED
  BY <1>4, <1>7, <1>8

LEMMA XReserve ==
  ASSUME XInv, NEW s \in RiskShards, r1_reserve(s)
  PROVE  GoodStep
<1>1. PICK n : n = slot(Pipe!R1(s))
  OBVIOUS
<1>2. PICK c : c = ring[n]
  OBVIOUS
<1>3. /\ Pipe!handle(Pipe!R1(s)) /\ Owns(s, c)
      /\ c.command = "PlaceOrder" /\ ~MarketBuy(c)
      /\ trades' = trades /\ BookStands
      /\ ring' = ring \/ ring' = [ring EXCEPT ![n].status = "Rejected"]
  BY <1>1, <1>2 DEF r1_reserve, BookStands
<1>4. c \in Waiting
  BY <1>1, <1>2, <1>3, R1Facts, WaitingFacts DEF Pipe!handle
<1>5. CASE ring' = ring
  BY <1>1, <1>2, <1>3, <1>4, <1>5, R1Passes
<1>6. CASE ring' = [ring EXCEPT ![n].status = "Rejected"]
  <2>1. PICK d : d = [c EXCEPT !.status = "Rejected"]
    OBVIOUS
  <2>2. /\ d \in Waiting /\ d.status = "Rejected" /\ d.command = "PlaceOrder"
        /\ d.user_id = c.user_id /\ d.order_id = c.order_id
    BY <1>4, <2>1, RejectedWaits
  <2>3. ring' = [ring EXCEPT ![n] = d]
    BY <1>2, <1>6, <2>1
  <2>4. Owns(s, d)
    BY <1>3, <2>2 DEF Owns
  <2> QED
    BY <1>1, <1>2, <1>3, <2>2, <2>3, <2>4, R1Passes
<1> QED
  BY <1>3, <1>5, <1>6

LEMMA XTransfer ==
  ASSUME XInv, NEW s \in RiskShards, r1_transfer(s)
  PROVE  GoodStep
<1>1. PICK n : n = slot(Pipe!R1(s))
  OBVIOUS
<1>2. PICK c : c = ring[n]
  OBVIOUS
<1>3. /\ Pipe!handle(Pipe!R1(s))
      /\ c.command \in {"DepositFunds", "WithdrawFunds"}
      /\ trades' = trades /\ BookStands
      /\ \E x \in {"Processed", "Rejected"} :
           ring' = [ring EXCEPT ![n].status = x]
  BY <1>1, <1>2 DEF r1_transfer, BookStands
<1>4. c \in Moving
  BY <1>1, <1>2, <1>3, R1Facts, WaitingFacts DEF Pipe!handle
<1>5. PICK x \in {"Processed", "Rejected"} :
        ring' = [ring EXCEPT ![n].status = x]
  BY <1>3
<1>6. PICK d : d = [c EXCEPT !.status = x]
  OBVIOUS
<1>7. d \in Moving /\ d.command # "PlaceOrder"
  BY <1>4, <1>6 DEF Moving
<1>8. ring' = [ring EXCEPT ![n] = d]
  BY <1>2, <1>5, <1>6
<1> QED
  BY <1>1, <1>3, <1>7, <1>8, R1Passes

(* R2 and the events handler work behind the matching engine.              *)
LEMMA XBehind ==
  ASSUME XInv, NEW h \in Pipe!Handlers \ {Pipe!Matching(0)}, Pipe!handle(h),
         cursor[h] < M, BookStands, ring' = ring, trades' = trades
  PROVE  GoodStep
<1>1. PICK n : n = cursor[h] + 1
  OBVIOUS
<1>2. cursor[h] \in Nat /\ M \in Nat /\ cursor[h] < published
  BY HandleFacts, Cursors DEF XInv
<1>3. ring \in Seq(Slot) /\ Len(ring) = published
  BY DEF XInv, RingSound
<1>4. n \in 1 .. Len(ring) /\ ~(M < n)
  BY <1>1, <1>2, <1>3, Cursors DEF XInv
<1>5. ring[n] \in Slot
  BY <1>3, <1>4
<1>6. RingSound'
  BY <1>1, <1>4, <1>5, RingStep
<1> QED
  BY <1>6, GoodHandle

LEMMA XFinish2 ==
  ASSUME XInv, NEW s \in RiskShards, r2_finish(s) \/ r2_skip(s)
  PROVE  GoodStep
<1>1. /\ Pipe!handle(Pipe!R2(s)) /\ BookStands
      /\ ring' = ring /\ trades' = trades
  BY DEF r2_finish, r2_skip, BookStands
<1>2. cursor[Pipe!R2(s)] < M
  BY <1>1, Barred DEF XInv, Pipe!handle
<1> QED
  BY <1>1, <1>2, HandlersAre, XBehind

(* A step that moves nobody and touches neither book nor ring.             *)
LEMMA XStill ==
  ASSUME XInv, BookStands, UNCHANGED <<published, cursor, ring, trades>>
  PROVE  GoodStep
<1>1. M' = M /\ published' = published /\ published \in Nat
  BY Cursors DEF XInv, M
<1>2. IdsAhead' /\ CacheSound' /\ UNCHANGED Book!vars
  BY <1>1, StandStill
<1>3. [Book!Next]_Book!vars /\ [Pipe!Next]_Pipe!pipeVars
  BY <1>2 DEF Pipe!pipeVars
<1>4. PP!PInv' /\ BP!Totals'
  BY <1>3, PipeKept, BookKept DEF XInv
<1>5. RingSound'
  BY <1>1 DEF XInv, RingSound
<1> QED
  BY <1>2, <1>3, <1>4, <1>5 DEF XInv, GoodStep

LEMMA XSettle ==
  ASSUME XInv, NEW s \in RiskShards, r2_settle(s)
  PROVE  GoodStep
<1>1. BookStands /\ UNCHANGED <<published, cursor, ring, trades>>
  BY DEF r2_settle, BookStands
<1> QED
  BY <1>1, XStill

(* The events of a slot are replaced.                                      *)
LEMMA TradesPut ==
  ASSUME NEW q \in Seq(Seq(BP!Event)), NEW n, NEW x \in Seq(BP!Event),
         NEW r, r = [q EXCEPT ![n] = x]
  PROVE  r \in Seq(Seq(BP!Event)) /\ Len(r) = Len(q)
<1>1. PICK T : T = Seq(BP!Event)
  OBVIOUS
<1>2. q \in Seq(T) /\ x \in T
  BY <1>1
<1>3. q \in [1 .. Len(q) -> T] /\ Len(q) \in Nat
  BY ONLY <1>2
<1>4. r \in [1 .. Len(q) -> T]
  BY <1>2, <1>3
<1>5. r \in Seq(T) /\ Len(r) = Len(q)
  <2>1. PICK k \in Nat : k = Len(q)
    BY <1>3
  <2>2. r \in [1 .. k -> T]
    BY <1>4, <2>1
  <2>3. r \in Seq(T) /\ Len(r) = k
    BY ONLY <2>2, k \in Nat
  <2> QED
    BY <2>1, <2>3
<1> QED
  BY <1>1, <1>5

LEMMA XEvents ==
  ASSUME XInv, handle_processed_command
  PROVE  GoodStep
<1>1. PICK n : n = cursor[Pipe!Events] + 1
  OBVIOUS
<1>2. /\ Pipe!handle(Pipe!Events) /\ BookStands
      /\ ring' = [ring EXCEPT ![n] = Free]
      /\ trades' = [trades EXCEPT ![n] = <<>>]
  BY <1>1 DEF handle_processed_command, BookStands, slot
<1>3. cursor[Pipe!Events] < M /\ M \in Nat /\ cursor[Pipe!Events] \in Nat
  BY <1>2, Barred, Cursors, HandlersAre DEF XInv, Pipe!handle
<1>4. ~(M < n) /\ Free \in Slot /\ <<>> \in Seq(BP!Event)
  BY <1>1, <1>3 DEF Slot
<1>5. trades' \in Seq(Seq(BP!Event)) /\ Len(trades') = Len(trades)
  <2>1. trades \in Seq(Seq(BP!Event))
    BY DEF XInv, RingSound
  <2> QED
    BY <1>2, <1>4, <2>1, TradesPut
<1>6. RingSound'
  BY <1>1, <1>2, <1>4, <1>5, HandlersAre, RingStep
<1> QED
  BY <1>2, <1>6, HandlersAre, GoodHandle

-----------------------------------------------------------------------------
(* The matching engine.                                                    *)

(* The matching engine moves on: the slots ahead of it stay as they are.   *)
LEMMA RingMatched ==
  ASSUME XInv, Pipe!handle(Pipe!Matching(0)),
         NEW c, ring' = [ring EXCEPT ![M + 1] = c] \/ ring' = ring, c \in Slot,
         \/ trades' = trades
         \/ trades' \in Seq(Seq(BP!Event)) /\ Len(trades') = Len(trades)
  PROVE  RingSound' /\ M' = M + 1
<1>1. /\ published' = published /\ M \in Nat /\ M < published
      /\ M' = M + 1 /\ published \in Nat
      /\ \A g \in Pipe!Handlers \ {Pipe!Matching(0)} : cursor'[g] = cursor[g]
  BY HandleFacts, HandlersAre, Cursors DEF XInv, M
<1>2. ring \in Seq(Slot) /\ Len(ring) = published
  BY DEF XInv, RingSound
<1>3. /\ ring' \in Seq(Slot) /\ Len(ring') = published
      /\ \A k \in M + 2 .. published : ring'[k] = ring[k]
  BY <1>1, <1>2
<1>4. ASSUME NEW k \in M + 2 .. published
      PROVE  Sound(ring[k], k, cursor')
  <2>1. k \in Nat /\ M < k /\ k <= published
    BY <1>1
  <2>2. /\ Sound(ring[k], k, cursor)
        /\ ring[k] \in Waiting \cup Book!Cancels \cup Moving
    BY <2>1, AtSlot
  <2>3. /\ Pipe!R1(ShardOf[ring[k].user_id]) \in Pipe!Handlers \ {Pipe!Matching(0)}
        /\ Pipe!Journaling \in Pipe!Handlers \ {Pipe!Matching(0)}
    BY <2>2, WaitingFacts, HandlersAre
  <2> QED
    BY <1>1, <2>2, <2>3, SlotSame
<1>5. \A k \in M' + 1 .. published : Sound(ring'[k], k, cursor')
  BY <1>1, <1>3, <1>4
<1>6. trades' \in Seq(Seq(BP!Event)) /\ Len(trades') = published'
  BY <1>1 DEF XInv, RingSound
<1> QED
  BY <1>1, <1>3, <1>5, <1>6 DEF RingSound

LEMMA XMatchSkip ==
  ASSUME XInv, match_skip
  PROVE  GoodStep
<1>1. /\ pc = "idle" /\ Pipe!handle(Pipe!Matching(0))
      /\ ring' = ring /\ trades' = trades /\ BookStands
  BY DEF match_skip, BookStands
<1>2. RingSound' /\ M' = M + 1
  <2>1. Free \in Slot
    BY DEF Slot
  <2> QED
    BY <1>1, <2>1, RingMatched
<1>3. /\ UNCHANGED Book!vars /\ last_id' = last_id /\ pc' = pc
      /\ cache' = cache
  BY <1>1 DEF BookStands, bookVars, Book!vars
<1>4. last_id \in Nat /\ M \in Nat
  BY Cursors, RingAssumption DEF XInv, BP!Totals, BP!IInv, BP!TypeOK
<1>5. IdsAhead' /\ CacheSound'
  BY <1>1, <1>2, <1>3, <1>4 DEF XInv, IdsAhead, CacheSound
<1>6. [Book!Next]_Book!vars /\ [Pipe!Next]_Pipe!pipeVars
  BY <1>1, <1>3, HandlersAre, HandleIsNext
<1>7. PP!PInv' /\ BP!Totals'
  BY <1>6, PipeKept, BookKept DEF XInv
<1> QED
  BY <1>2, <1>5, <1>6, <1>7 DEF XInv, GoodStep

(* The cache holds a price of the book it was taken from.                  *)
LEMMA CacheTaken ==
  ASSUME XInv, BP!Totals',
         cache' = cache \/ cache' = [s \in Book!Sides |-> Book!best_price(book', s)]
  PROVE  CacheSound'
<1>1. CASE cache' = cache
  BY <1>1 DEF XInv, CacheSound
<1>2. CASE cache' = [s \in Book!Sides |-> Book!best_price(book', s)]
  <2>1. cache'["Ask"] = BP!best_price(book', "Ask")
    BY <1>2 DEF Book!Sides, Book!best_price, BP!best_price, Book!Levels,
                BP!Levels, Book!Better, BP!Better, Book!op_side, BP!op_side
  <2>2. CASE BP!Levels(book', "Ask") = {}
    BY <2>1, <2>2 DEF BP!best_price, CacheSound
  <2>3. CASE BP!Levels(book', "Ask") # {}
    <3>1. BP!best_price(book', "Ask") \in BP!Levels(book', "Ask")
      BY <2>3, BP!BestIsLevel, MarketAssumption, RingAssumption,
         MarketPricesNat DEF BP!Sides
    <3> QED
      BY <2>1, <3>1 DEF BP!Levels, CacheSound
  <2> QED
    BY <2>2, <2>3
<1> QED
  BY <1>1, <1>2

(* A step of the book while the slot stays with the matching engine.       *)
LEMMA XServe ==
  ASSUME XInv, UNCHANGED <<published, cursor, ring, trades>>,
         [Book!Next]_Book!vars, pc' # "idle", M < published,
         last_id' = last_id \/ last_id' = M + 1,
         cache' = cache \/ cache' = [s \in Book!Sides |-> Book!best_price(book', s)]
  PROVE  GoodStep
<1>1. M' = M /\ published' = published
  BY DEF M
<1>2. BP!Totals'
  BY BookKept DEF XInv
<1>3. last_id \in Nat /\ M \in Nat
  BY Cursors, RingAssumption DEF XInv, BP!Totals, BP!IInv, BP!TypeOK
<1>4. IdsAhead'
  BY <1>1, <1>3 DEF XInv, IdsAhead
<1>5. CacheSound'
  BY <1>2, CacheTaken
<1>6. [Pipe!Next]_Pipe!pipeVars
  BY DEF Pipe!pipeVars
<1>7. PP!PInv'
  BY <1>6, PipeKept DEF XInv
<1>8. RingSound'
  BY <1>1 DEF XInv, RingSound
<1> QED
  BY <1>2, <1>4, <1>5, <1>6, <1>7, <1>8 DEF XInv, GoodStep

LEMMA XProcess ==
  ASSUME XInv, process_order
  PROVE  GoodStep
<1>1. PICK n : n = M + 1
  OBVIOUS
<1>2. PICK c : c = ring[n]
  OBVIOUS
<1>3. /\ Pipe!available(Pipe!Matching(0)) /\ c.status # "Rejected"
      /\ \/ c.command = "PlaceOrder" /\ Book!place_order(c)
         \/ c.command = "CancelOrder" /\ Book!cancel_order(c)
      /\ UNCHANGED <<published, cursor, ring, trades>>
  BY <1>1, <1>2 DEF process_order, MatchSlot, slot, M
<1>4. /\ M \in Nat /\ published \in Nat /\ MaxSeq \in Nat
      /\ M < published /\ M < J /\ J \in Nat /\ published <= MaxSeq
      /\ \A s \in RiskShards : M < cursor[Pipe!R1(s)] /\ cursor[Pipe!R1(s)] \in Nat
  BY <1>3, Barred, Cursors, HandlersAre DEF XInv
<1>5. /\ Sound(c, n, cursor) /\ c \in Waiting \cup Book!Cancels \cup Moving
  BY <1>1, <1>2, <1>4, AtSlot
<1>6. CASE c.command = "PlaceOrder" /\ Book!place_order(c)
  <2>1. c \in Waiting /\ ShardOf[c.user_id] \in RiskShards
    BY <1>5, <1>6, WaitingFacts
  <2>2. n <= cursor[Pipe!Journaling] /\ n <= cursor[Pipe!R1(ShardOf[c.user_id])]
    BY <1>1, <1>4, <2>1 DEF J
  <2>3. c.order_id = n /\ ~MarketBuy(c)
    BY <1>3, <1>5, <1>6, <2>2 DEF Sound
  <2>4. pc = "idle" /\ last_id' = c.order_id
    BY <1>6 DEF Book!place_order
  <2>5. n \in last_id + 1 .. MaxSeq
    <3>1. last_id \in Nat
      BY RingAssumption DEF XInv, BP!Totals, BP!IInv, BP!TypeOK
    <3>2. last_id <= M
      BY <2>4 DEF XInv, IdsAhead
    <3> QED
      BY <1>1, <1>4, <3>1, <3>2
  <2>6. c.price # U64MAX
    BY <2>1, <2>3 DEF MarketBuy, Waiting
  <2>7. c \in Book!NewOrders
    BY <1>3, <2>1, <2>3, <2>5, <2>6 DEF Waiting, Book!NewOrders
  <2>8. [Book!Next]_Book!vars
    BY <1>6, <2>7 DEF Book!Next
  <2>9. pc' # "idle" /\ book' = book
    BY <1>6 DEF Book!place_order
  <2>10. cache' = cache \/ cache' = [s \in Book!Sides |-> Book!best_price(book', s)]
    BY <1>6, <2>9 DEF Book!place_order, Book!update_price_cache
  <2> QED
    BY <1>1, <1>3, <1>4, <2>3, <2>4, <2>8, <2>9, <2>10, XServe
<1>7. CASE c.command = "CancelOrder" /\ Book!cancel_order(c)
  <2>1. c \in Book!Cancels
    BY <1>5, <1>7, WaitingFacts
  <2>2. [Book!Next]_Book!vars
    BY <1>7, <2>1 DEF Book!Next
  <2>3. /\ pc' # "idle" /\ last_id' = last_id
        /\ cache' = [s \in Book!Sides |-> Book!best_price(book', s)]
    BY <1>7 DEF Book!cancel_order, Book!update_price_cache
  <2> QED
    BY <1>3, <1>4, <2>2, <2>3, XServe
<1> QED
  BY <1>3, <1>6, <1>7

LEMMA XMatchStep ==
  ASSUME XInv, match_step
  PROVE  GoodStep
<1>1. UNCHANGED <<published, cursor, ring, trades>>
  BY DEF match_step
<1>2. [Book!Next]_Book!vars
  BY DEF match_step, Book!Next
<1>3. /\ pc = "matching" /\ pc' # "idle" /\ last_id' = last_id
      /\ cache' = cache \/ cache' = [s \in Book!Sides |-> Book!best_price(book', s)]
  <2>1. CASE \E p \in Prices : Book!open_level(p)
    BY <2>1 DEF Book!open_level
  <2>2. CASE Book!skip_own_order
    BY <2>2 DEF Book!skip_own_order
  <2>3. CASE Book!fill_maker
    BY <2>3 DEF Book!fill_maker
  <2>4. CASE Book!finish_place
    BY <2>4 DEF Book!finish_place, Book!update_price_cache
  <2> QED
    BY <2>1, <2>2, <2>3, <2>4 DEF match_step
<1>4. M < published
  BY <1>3 DEF XInv, IdsAhead
<1> QED
  BY <1>1, <1>2, <1>3, <1>4, XServe

LEMMA XMatchDone ==
  ASSUME XInv, match_done
  PROVE  GoodStep
<1>1. /\ Book!deliver /\ Pipe!handle(Pipe!Matching(0))
      /\ ring' = [ring EXCEPT ![M + 1] = cmd]
      /\ trades' = [trades EXCEPT ![M + 1] = events]
  BY DEF match_done, MatchSlot, slot, M
<1>2. /\ pc = "done" /\ pc' = "idle" /\ last_id' = last_id /\ cache' = cache
  BY <1>1 DEF Book!deliver
<1>3. cmd \in Slot /\ events \in Seq(BP!Event) /\ last_id \in Nat
  <2>1. /\ cmd \in BP!Command \cup {BP!Idle}
        /\ pc = "idle" <=> cmd = BP!Idle
        /\ events \in Seq(BP!Event) /\ last_id \in 0 .. MaxSeq
    BY DEF XInv, BP!Totals, BP!IInv, BP!TypeOK
  <2> QED
    BY <1>2, <2>1, RingAssumption DEF Slot
<1>4. trades' \in Seq(Seq(BP!Event)) /\ Len(trades') = Len(trades)
  <2>1. /\ trades \in Seq(Seq(BP!Event)) /\ events \in Seq(BP!Event)
        /\ trades' = [trades EXCEPT ![M + 1] = events]
    BY <1>1, <1>3 DEF XInv, RingSound
  <2>2. PICK q, x, n, r : q = trades /\ x = events /\ n = M + 1 /\ r = trades'
    OBVIOUS
  <2>3. /\ q \in Seq(Seq(BP!Event)) /\ x \in Seq(BP!Event)
        /\ r = [q EXCEPT ![n] = x]
    BY <2>1, <2>2
  <2>4. r \in Seq(Seq(BP!Event)) /\ Len(r) = Len(q)
    BY ONLY <2>3, TradesPut
  <2> QED
    BY <2>2, <2>4
<1>5. RingSound' /\ M' = M + 1
  BY <1>1, <1>3, <1>4, RingMatched
<1>6. IdsAhead' /\ CacheSound'
  BY <1>2, <1>5 DEF XInv, IdsAhead, CacheSound
<1>7. [Book!Next]_Book!vars /\ [Pipe!Next]_Pipe!pipeVars
  BY <1>1, HandlersAre, HandleIsNext DEF Book!Next
<1>8. PP!PInv' /\ BP!Totals'
  BY <1>7, PipeKept, BookKept DEF XInv
<1> QED
  BY <1>5, <1>6, <1>7, <1>8 DEF XInv, GoodStep

-----------------------------------------------------------------------------
(* The composition.                                                        *)

LEMMA XInit == Init => XInv
<1> SUFFICES ASSUME Init PROVE XInv
  OBVIOUS
<1>1. Pipe!Init /\ Book!Init /\ ring = <<>> /\ trades = <<>>
  BY DEF Init
<1>2. PP!PInv
  BY <1>1, SamePipeline, PP!PInit, RingAssumption
<1>3. BP!Totals
  BY <1>1, SameBookData, BP!InitTotals, MarketAssumption, RingAssumption,
     MarketPricesNat
<1>4. published = 0 /\ M = 0
  BY <1>1, HandlersAre DEF Pipe!Init, M
<1>5. RingSound
  BY <1>1, <1>4 DEF RingSound
<1>6. IdsAhead /\ CacheSound
  BY <1>1, <1>4 DEF IdsAhead, CacheSound, Book!Init, Book!Sides
<1> QED
  BY <1>2, <1>3, <1>5, <1>6 DEF XInv

LEMMA XNext == XInv /\ [Next]_vars => GoodStep
<1> SUFFICES ASSUME XInv, [Next]_vars PROVE GoodStep
  OBVIOUS
<1>1. CASE \E c \in Inputs : publish(c)
  BY <1>1, XPublish
<1>2. CASE journal_command
  BY <1>2, XJournal
<1>3. ASSUME NEW s \in RiskShards, R1Step(s)
      PROVE  GoodStep
  BY <1>3, XSkip1, XPrice, XReserve, XTransfer DEF R1Step
<1>4. ASSUME NEW s \in RiskShards, R2Step(s)
      PROVE  GoodStep
  BY <1>4, XSettle, XFinish2 DEF R2Step
<1>5. CASE MatchStep
  BY <1>5, XMatchSkip, XProcess, XMatchStep, XMatchDone DEF MatchStep
<1>6. CASE handle_processed_command
  BY <1>6, XEvents
<1>7. CASE Drained \/ UNCHANGED vars
  <2>1. BookStands /\ UNCHANGED <<published, cursor, ring, trades>>
    BY <1>7 DEF Drained, vars, BookStands
  <2> QED
    BY <2>1, XStill
<1> QED
  BY <1>1, <1>2, <1>3, <1>4, <1>5, <1>6, <1>7 DEF Next, Handle

(* XInv is an invariant of the exchange.                                   *)
THEOREM ExchangeInvariant == Spec => []XInv
<1>1. Init => XInv
  BY XInit
<1>2. XInv /\ [Next]_vars => XInv'
  BY XNext DEF GoodStep
<1> QED
  BY <1>1, <1>2, PTL DEF Spec

(* The matching engine uses the book the way OrderBook assumes.            *)
THEOREM BookRefined == Spec => BookProtocol
<1>1. Init => Book!Init
  BY DEF Init
<1>2. XInv /\ [Next]_vars => [Book!Next]_Book!vars
  BY XNext DEF GoodStep
<1> QED
  BY <1>1, <1>2, ExchangeInvariant, PTL DEF Spec, BookProtocol, Book!Spec

(* The handlers keep to the barriers of Pipeline.                          *)
THEOREM PipelineRefined == Spec => PipelineProtocol
<1>1. Init => Pipe!Init
  BY DEF Init
<1>2. XInv /\ [Next]_vars => [Pipe!Next]_Pipe!pipeVars
  BY XNext DEF GoodStep
<1> QED
  BY <1>1, <1>2, ExchangeInvariant, PTL DEF Spec, PipelineProtocol, Pipe!Safety

(* What OrderBookProofs establishes of the book for any commands it may be *)
(* given holds of the book in the exchange, whatever the handlers around   *)
(* it do meanwhile: no crossing between users, price-time priority,        *)
(* fill-or-kill all or nothing, volumes and events that are true.          *)
THEOREM BookSafeInExchange ==
  Spec => [](/\ Book!NoCrossBetweenUsers /\ Book!PriceTimePriority
             /\ Book!VolumeIsSum /\ Book!FokAllOrNothing
             /\ Book!EventsMatchBook)
<1>1. XInv => /\ Book!NoCrossBetweenUsers /\ Book!PriceTimePriority
              /\ Book!FokAllOrNothing
  BY DEF XInv, BP!Totals, BP!IInv, BP!NoCrossBetweenUsers,
         Book!NoCrossBetweenUsers, BP!PriceTimePriority,
         Book!PriceTimePriority, BP!FokCovered, BP!FokAllOrNothing,
         Book!FokAllOrNothing, BP!op_side, Book!op_side, BP!Better, Book!Better
<1>2. \A q : BP!TotalSize(q) = Book!TotalSize(q)
  BY SameSum DEF BP!TotalSize, Book!TotalSize
<1>3. XInv => Book!VolumeIsSum
  BY <1>2 DEF XInv, BP!Totals, BP!VolumeIsSum, Book!VolumeIsSum, BP!Sides,
              Book!Sides
<1>4. XInv => BP!EventsMatchBook
  BY MarketAssumption, RingAssumption, MarketPricesNat
     DEF XInv, BP!Totals, BP!Accounts, BP!EventsTrue, BP!EventsFair,
         BP!EventsMatchBook
<1>5. BP!EventsMatchBook => Book!EventsMatchBook
  BY <1>2 DEF BP!EventsMatchBook, Book!EventsMatchBook, BP!op_side,
              Book!op_side, BP!NoPrice, Book!NoPrice, BP!price_check,
              Book!price_check
<1> QED
  BY <1>1, <1>3, <1>4, <1>5, ExchangeInvariant, PTL

(* The assumptions of OrderBook, as its instance here states them.         *)
LEMMA BookAssumes ==
  /\ Prices \subseteq Nat \ {0} /\ MarketPrices \subseteq Nat
  /\ Sizes \subseteq Nat \ {0} /\ (MaxSeq \in Nat /\ L2SIZE \in Nat \ {0})
  /\ (U64MAX \in Nat /\ \A p \in Prices : p < U64MAX)
  BY MarketAssumption, RingAssumption, MarketPricesNat

-----------------------------------------------------------------------------
(* The feeds.  A reader of the topic orders has heard, once everything     *)
(* under way has been published, the newest word about each order: from    *)
(* the command the matching engine is busy with, else from the last of the *)
(* commands between it and the events handler that has one, else from the  *)
(* feed.  No history variable is needed to say that this word is true of   *)
(* the book at every moment, in the middle of a match as well.             *)

(* The words about an order among the messages X.                          *)
About(X, id) == {m \in X : m.order_id = id}

(* W is the newest word about order id, from what is being said now, what  *)
(* each slot on its way to the events handler says, and the feed.          *)
Heard(now, said, feed, id, W) ==
  \/ About(now, id) # {} /\ W = About(now, id)
  \/ /\ About(now, id) = {}
     /\ \E n \in DOMAIN said :
          /\ About(said[n], id) # {} /\ W = About(said[n], id)
          /\ \A k \in DOMAIN said : n < k => About(said[k], id) = {}
  \/ /\ About(now, id) = {}
     /\ \A k \in DOMAIN said : About(said[k], id) = {}
     /\ W = feed[id]

(* Order o waits in book b.                                                *)
InBook(b, s, p, o) ==
  s \in BP!Sides /\ p \in Prices /\ \E i \in 1 .. Len(b[s][p]) : b[s][p][i] = o

(* Message m shows it as it is.                                            *)
Describes(m, s, p, o) ==
  /\ m.order_id = o.order_id /\ m.user_id = o.user_id
  /\ m.price = p /\ m.side = s /\ m.size - m.filled_size = o.size

(* The word W about order id is true of book b: one message at most, shown *)
(* as open only if the order waits, and as it waits there.                 *)
Truthful(b, id, W) ==
  /\ \A m \in W : m.order_id = id
  /\ \A m, k \in W : m = k
  /\ \A m \in W : Open(m) =>
       \E s, p, o : InBook(b, s, p, o) /\ Describes(m, s, p, o)
  /\ \A s, p, o : InBook(b, s, p, o) /\ o.order_id = id =>
       \E m \in W : Open(m) /\ Describes(m, s, p, o)

(* Every word is true, with the size the trades T add up to, and none is   *)
(* about an order newer than lim.                                          *)
WordsTrue(now, said, feed, b, T, lim) ==
  \A id \in 1 .. MaxSeq : \A W : Heard(now, said, feed, id, W) =>
    /\ Truthful(b, id, W)
    /\ \A m \in W : m.filled_size = Traded(T, id)
    /\ W # {} => id <= lim

(* The two books differ in order id0 at most.                              *)
SameBut(b, b2, id0) ==
  \A s, p, o : o.order_id # id0 => (InBook(b, s, p, o) <=> InBook(b2, s, p, o))

-----------------------------------------------------------------------------
(* What happens to the newest words.                                       *)

(* A command leaves the matching engine: its words are the last of those   *)
(* on their way.                                                           *)
LEMMA HeardFiled ==
  ASSUME NEW now, NEW said, NEW said2, NEW feed, NEW id, NEW W,
         NEW n \in Nat, \A k \in DOMAIN said : k \in Nat /\ k < n,
         DOMAIN said2 = DOMAIN said \cup {n}, said2[n] = now,
         \A k \in DOMAIN said : said2[k] = said[k],
         Heard({}, said2, feed, id, W)
  PROVE  Heard(now, said, feed, id, W)
<1>1. About({}, id) = {}
  BY DEF About
<1>2. n \notin DOMAIN said /\ n \in DOMAIN said2
  OBVIOUS
<1>3. CASE About(now, id) # {}
  <2>1. \E k \in DOMAIN said2 :
          /\ About(said2[k], id) # {} /\ W = About(said2[k], id)
          /\ \A j \in DOMAIN said2 : k < j => About(said2[j], id) = {}
    BY <1>1, <1>2, <1>3 DEF Heard
  <2>2. PICK k \in DOMAIN said2 :
          /\ About(said2[k], id) # {} /\ W = About(said2[k], id)
          /\ \A j \in DOMAIN said2 : k < j => About(said2[j], id) = {}
    BY <2>1
  <2>3. k = n
    BY <1>2, <1>3, <2>2
  <2> QED
    BY <1>3, <2>2, <2>3 DEF Heard
<1>4. CASE About(now, id) = {}
  <2>1. CASE \E k \in DOMAIN said2 :
          /\ About(said2[k], id) # {} /\ W = About(said2[k], id)
          /\ \A j \in DOMAIN said2 : k < j => About(said2[j], id) = {}
    <3>1. PICK k \in DOMAIN said2 :
          /\ About(said2[k], id) # {} /\ W = About(said2[k], id)
          /\ \A j \in DOMAIN said2 : k < j => About(said2[j], id) = {}
      BY <2>1
    <3>2. k \in DOMAIN said
      BY <1>4, <3>1
    <3>3. /\ About(said[k], id) # {} /\ W = About(said[k], id)
          /\ \A j \in DOMAIN said : k < j => About(said[j], id) = {}
      BY <3>1, <3>2
    <3> QED
      BY <1>4, <3>2, <3>3 DEF Heard
  <2>2. CASE /\ \A k \in DOMAIN said2 : About(said2[k], id) = {}
             /\ W = feed[id]
    BY <1>4, <2>2 DEF Heard
  <2> QED
    BY <1>1, <2>1, <2>2 DEF Heard
<1> QED
  BY <1>3, <1>4

(* The oldest of the commands on their way is published.                   *)
LEMMA HeardPublished ==
  ASSUME NEW now, NEW said, NEW said2, NEW feed, NEW feed2, NEW id, NEW W,
         NEW n \in DOMAIN said, \A k \in DOMAIN said : k \in Nat /\ n <= k,
         DOMAIN said2 = DOMAIN said \ {n},
         \A k \in DOMAIN said2 : said2[k] = said[k],
         feed2[id] = Newest(About(said[n], id), feed[id]),
         Heard(now, said2, feed2, id, W)
  PROVE  Heard(now, said, feed, id, W)
<1>1. CASE About(now, id) # {}
  BY <1>1 DEF Heard
<1>2. CASE /\ About(now, id) = {}
           /\ \E k \in DOMAIN said2 :
                /\ About(said2[k], id) # {} /\ W = About(said2[k], id)
                /\ \A j \in DOMAIN said2 : k < j => About(said2[j], id) = {}
  <2>1. PICK k \in DOMAIN said2 :
          /\ About(said2[k], id) # {} /\ W = About(said2[k], id)
          /\ \A j \in DOMAIN said2 : k < j => About(said2[j], id) = {}
    BY <1>2
  <2>2. k \in DOMAIN said /\ said2[k] = said[k] /\ k \in Nat /\ n <= k
    OBVIOUS
  <2>3. \A j \in DOMAIN said : k < j => About(said[j], id) = {}
    BY <2>1, <2>2
  <2> QED
    BY <1>2, <2>1, <2>2, <2>3 DEF Heard
<1>3. CASE /\ About(now, id) = {}
           /\ \A k \in DOMAIN said2 : About(said2[k], id) = {}
           /\ W = feed2[id]
  <2>1. \A k \in DOMAIN said : k # n => About(said[k], id) = {}
    BY <1>3
  <2>2. CASE About(said[n], id) = {}
    BY <1>3, <2>1, <2>2 DEF Heard, Newest
  <2>3. CASE About(said[n], id) # {}
    <3>1. \A k \in DOMAIN said : n < k => About(said[k], id) = {}
      BY <2>1
    <3>2. W = About(said[n], id)
      BY <1>3, <2>3 DEF Newest
    <3> QED
      BY <1>3, <2>3, <3>1, <3>2 DEF Heard
  <2> QED
    BY <2>2, <2>3
<1> QED
  BY <1>1, <1>2, <1>3 DEF Heard

(* With every word heard before, all words stay true.                      *)
LEMMA WordsKept ==
  ASSUME NEW now, NEW now2, NEW said, NEW said2, NEW feed, NEW feed2,
         NEW b, NEW T, NEW lim, WordsTrue(now, said, feed, b, T, lim),
         \A id \in 1 .. MaxSeq : \A W :
           Heard(now2, said2, feed2, id, W) => Heard(now, said, feed, id, W)
  PROVE  WordsTrue(now2, said2, feed2, b, T, lim)
  BY DEF WordsTrue

(* The same, when time passes with no command served.                      *)
LEMMA LimitGrows ==
  ASSUME NEW now, NEW said, NEW feed, NEW b, NEW T, NEW lim \in Int,
         WordsTrue(now, said, feed, b, T, lim), NEW lim2 \in Int, lim <= lim2
  PROVE  WordsTrue(now, said, feed, b, T, lim2)
  BY DEF WordsTrue

(* A word about one order that changes, or stops waiting, or comes to      *)
(* wait, leaves those about all others true.                               *)
LEMMA OthersTrue ==
  ASSUME NEW b, NEW b2, NEW id0, NEW id, id # id0, NEW W,
         SameBut(b, b2, id0), Truthful(b, id, W)
  PROVE  Truthful(b2, id, W)
<1>1. /\ \A m \in W : m.order_id = id
      /\ \A m, k \in W : m = k
  BY DEF Truthful
<1>2. ASSUME NEW m \in W, Open(m)
      PROVE  \E s, p, o : InBook(b2, s, p, o) /\ Describes(m, s, p, o)
  <2>1. PICK s, p, o : InBook(b, s, p, o) /\ Describes(m, s, p, o)
    BY <1>2 DEF Truthful
  <2>2. o.order_id # id0
    BY <1>1, <2>1 DEF Describes
  <2>3. InBook(b2, s, p, o)
    BY <2>1, <2>2 DEF SameBut
  <2> QED
    BY <2>1, <2>3
<1>3. ASSUME NEW s, NEW p, NEW o, InBook(b2, s, p, o), o.order_id = id
      PROVE  \E m \in W : Open(m) /\ Describes(m, s, p, o)
  <2>1. InBook(b, s, p, o)
    BY <1>3 DEF SameBut
  <2> QED
    BY <1>3, <2>1 DEF Truthful
<1> QED
  BY <1>1, <1>2, <1>3 DEF Truthful

LEMMA WordsSpoken ==
  ASSUME NEW now, NEW now2, NEW said, NEW feed, NEW b, NEW b2, NEW T, NEW T2,
         NEW lim \in Int, NEW lim2 \in Int, lim <= lim2,
         WordsTrue(now, said, feed, b, T, lim),
         NEW id0, id0 <= lim2, NEW m0,
         About(now2, id0) = {m0},
         \A id : id # id0 => About(now2, id) = About(now, id),
         SameBut(b, b2, id0), Truthful(b2, id0, {m0}),
         m0.filled_size = Traded(T2, id0),
         \A id \in 1 .. MaxSeq : id # id0 /\ id <= lim =>
           Traded(T2, id) = Traded(T, id)
  PROVE  WordsTrue(now2, said, feed, b2, T2, lim2)
<1> SUFFICES ASSUME NEW id \in 1 .. MaxSeq, NEW W,
                    Heard(now2, said, feed, id, W)
             PROVE  /\ Truthful(b2, id, W)
                    /\ \A m \in W : m.filled_size = Traded(T2, id)
                    /\ W # {} => id <= lim2
  BY DEF WordsTrue
<1>1. CASE id = id0
  <2>1. W = {m0}
    BY <1>1 DEF Heard
  <2> QED
    BY <1>1, <2>1
<1>2. CASE id # id0
  <2>1. Heard(now, said, feed, id, W)
    BY <1>2 DEF Heard
  <2>2. /\ Truthful(b, id, W)
        /\ \A m \in W : m.filled_size = Traded(T, id)
        /\ W # {} => id <= lim
    BY <2>1 DEF WordsTrue
  <2>3. Truthful(b2, id, W)
    BY <1>2, <2>2, OthersTrue
  <2>4. \A m \in W : m.filled_size = Traded(T2, id)
    BY <1>2, <2>2
  <2> QED
    BY <2>2, <2>3, <2>4
<1> QED
  BY <1>1, <1>2

-----------------------------------------------------------------------------
(* What the steps of the book do to it, order by order.                    *)

(* An id names one place of book b.                                        *)
OnePlaceEach(b) ==
  \A s, t \in BP!Sides, p, q \in Prices :
    \A i \in 1 .. Len(b[s][p]), j \in 1 .. Len(b[t][q]) :
      b[s][p][i].order_id = b[t][q][j].order_id => s = t /\ p = q /\ i = j

LEMMA PlacesUnique == ASSUME BP!IInv PROVE OnePlaceEach(book)
<1> SUFFICES ASSUME NEW s \in BP!Sides, NEW t \in BP!Sides,
                    NEW p \in Prices, NEW q \in Prices,
                    NEW i \in 1 .. Len(book[s][p]), NEW j \in 1 .. Len(book[t][q]),
                    book[s][p][i].order_id = book[t][q][j].order_id
             PROVE  s = t /\ p = q /\ i = j
  BY DEF OnePlaceEach
<1>1. BP!IInv
  OBVIOUS
<1>2. book[s][p][i].order_id = book[t][q][j].order_id
  OBVIOUS
<1> QED
  BY ONLY <1>1, <1>2, BP!OnePlace, BookAssumes

(* An order leaves the book.                                               *)
LEMMA OneGone ==
  ASSUME NEW b, NEW b2, NEW s0 \in BP!Sides, NEW p0 \in Prices,
         NEW i0 \in 1 .. Len(b[s0][p0]), OnePlaceEach(b),
         BP!Thinner(b, b2, s0, p0, i0),
         NEW id0, id0 = b[s0][p0][i0].order_id
  PROVE  /\ SameBut(b, b2, id0)
         /\ \A s, p, o : InBook(b2, s, p, o) => InBook(b, s, p, o) /\ o.order_id # id0
<1>1. /\ \A s \in BP!Sides, p \in Prices : s # s0 \/ p # p0 => b2[s][p] = b[s][p]
      /\ \A i \in 1 .. Len(b2[s0][p0]) : \E j \in 1 .. Len(b[s0][p0]) :
           b2[s0][p0][i] = b[s0][p0][j] /\ j # i0
      /\ \A j \in 1 .. Len(b[s0][p0]) : j # i0 =>
           \E i \in 1 .. Len(b2[s0][p0]) : b2[s0][p0][i] = b[s0][p0][j]
  BY DEF BP!Thinner
<1>2. ASSUME NEW s, NEW p, NEW o, InBook(b2, s, p, o)
      PROVE  InBook(b, s, p, o) /\ o.order_id # id0
  <2>1. s \in BP!Sides /\ p \in Prices
    BY <1>2 DEF InBook
  <2>2. PICK i \in 1 .. Len(b2[s][p]) : b2[s][p][i] = o
    BY <1>2 DEF InBook
  <2>3. PICK j \in 1 .. Len(b[s][p]) : b[s][p][j] = o /\ ~(s = s0 /\ p = p0 /\ j = i0)
    <3>1. CASE s = s0 /\ p = p0
      BY <1>1, <2>2, <3>1
    <3>2. CASE s # s0 \/ p # p0
      <4>1. b2[s][p] = b[s][p]
        BY <1>1, <2>1, <3>2
      <4> QED
        BY <2>2, <3>2, <4>1
    <3> QED
      BY <3>1, <3>2
  <2>4. o.order_id # id0
    BY <2>1, <2>3 DEF OnePlaceEach
  <2> QED
    BY <2>1, <2>3, <2>4 DEF InBook
<1>3. ASSUME NEW s, NEW p, NEW o, InBook(b, s, p, o), o.order_id # id0
      PROVE  InBook(b2, s, p, o)
  <2>1. s \in BP!Sides /\ p \in Prices
    BY <1>3 DEF InBook
  <2>2. PICK j \in 1 .. Len(b[s][p]) : b[s][p][j] = o
    BY <1>3 DEF InBook
  <2>3. \E i \in 1 .. Len(b2[s][p]) : b2[s][p][i] = o
    <3>1. CASE s = s0 /\ p = p0
      <4>1. j # i0
        BY <1>3, <2>2, <3>1
      <4> QED
        BY <1>1, <2>2, <3>1, <4>1
    <3>2. CASE s # s0 \/ p # p0
      <4>1. b2[s][p] = b[s][p]
        BY <1>1, <2>1, <3>2
      <4> QED
        BY <2>2, <4>1
    <3> QED
      BY <3>1, <3>2
  <2> QED
    BY <2>1, <2>3 DEF InBook
<1> QED
  BY <1>2, <1>3 DEF SameBut

(* An order is left with another size.                                     *)
LEMMA OneChanged ==
  ASSUME NEW b, NEW b2, NEW s0 \in BP!Sides, NEW p0 \in Prices,
         NEW i0 \in 1 .. Len(b[s0][p0]), OnePlaceEach(b),
         NEW o0, BP!Changed(b, b2, s0, p0, i0, o0),
         o0.order_id = b[s0][p0][i0].order_id
  PROVE  /\ SameBut(b, b2, o0.order_id) /\ InBook(b2, s0, p0, o0)
         /\ \A s, p, o : InBook(b2, s, p, o) =>
              \/ s = s0 /\ p = p0 /\ o = o0
              \/ InBook(b, s, p, o) /\ o.order_id # o0.order_id
<1>1. /\ \A s \in BP!Sides, p \in Prices : s # s0 \/ p # p0 => b2[s][p] = b[s][p]
      /\ Len(b2[s0][p0]) = Len(b[s0][p0])
      /\ \A i \in 1 .. Len(b[s0][p0]) : i # i0 => b2[s0][p0][i] = b[s0][p0][i]
      /\ b2[s0][p0][i0] = o0
  BY DEF BP!Changed
<1>2. ASSUME NEW s, NEW p, NEW o, InBook(b2, s, p, o)
      PROVE  \/ s = s0 /\ p = p0 /\ o = o0
             \/ InBook(b, s, p, o) /\ o.order_id # o0.order_id
  <2>1. s \in BP!Sides /\ p \in Prices
    BY <1>2 DEF InBook
  <2>2. PICK i \in 1 .. Len(b2[s][p]) : b2[s][p][i] = o
    BY <1>2 DEF InBook
  <2>3. CASE s = s0 /\ p = p0 /\ i = i0
    BY <1>1, <2>2, <2>3
  <2>4. CASE ~(s = s0 /\ p = p0 /\ i = i0)
    <3>1. i \in 1 .. Len(b[s][p]) /\ b[s][p][i] = o
      <4>1. CASE s = s0 /\ p = p0
        BY <1>1, <2>2, <2>4, <4>1
      <4>2. CASE s # s0 \/ p # p0
        <5>1. b2[s][p] = b[s][p]
          BY <1>1, <2>1, <4>2
        <5> QED
          BY <2>2, <5>1
      <4> QED
        BY <4>1, <4>2
    <3>2. o.order_id # o0.order_id
      BY <2>1, <2>4, <3>1 DEF OnePlaceEach
    <3> QED
      BY <2>1, <3>1, <3>2 DEF InBook
  <2> QED
    BY <2>3, <2>4
<1>3. ASSUME NEW s, NEW p, NEW o, InBook(b, s, p, o), o.order_id # o0.order_id
      PROVE  InBook(b2, s, p, o)
  <2>1. s \in BP!Sides /\ p \in Prices
    BY <1>3 DEF InBook
  <2>2. PICK i \in 1 .. Len(b[s][p]) : b[s][p][i] = o
    BY <1>3 DEF InBook
  <2>3. i \in 1 .. Len(b2[s][p]) /\ b2[s][p][i] = o
    <3>1. CASE s = s0 /\ p = p0
      <4>1. i # i0
        BY <1>3, <2>2, <3>1
      <4> QED
        BY <1>1, <2>2, <3>1, <4>1
    <3>2. CASE s # s0 \/ p # p0
      <4>1. b2[s][p] = b[s][p]
        BY <1>1, <2>1, <3>2
      <4> QED
        BY <2>2, <4>1
    <3> QED
      BY <3>1, <3>2
  <2> QED
    BY <2>1, <2>3 DEF InBook
<1>4. InBook(b2, s0, p0, o0)
  BY <1>1 DEF InBook
<1> QED
  BY <1>2, <1>3, <1>4 DEF SameBut

(* An order comes to rest.                                                 *)
LEMMA OneMore ==
  ASSUME NEW b \in [BP!Sides -> [Prices -> Seq(BP!Order)]], NEW b2,
         NEW s0, NEW p0, NEW o0, BP!Longer(b, b2, s0, p0, o0)
  PROVE  /\ SameBut(b, b2, o0.order_id) /\ InBook(b2, s0, p0, o0)
         /\ \A s, p, o : InBook(b2, s, p, o) =>
              (s = s0 /\ p = p0 /\ o = o0) \/ InBook(b, s, p, o)
<1>1. /\ s0 \in BP!Sides /\ p0 \in Prices /\ o0 \in BP!Order
      /\ \A s \in BP!Sides, p \in Prices : s # s0 \/ p # p0 => b2[s][p] = b[s][p]
      /\ b2[s0][p0] = Append(b[s0][p0], o0)
  BY DEF BP!Longer
<1>2. /\ b[s0][p0] \in Seq(BP!Order) /\ Len(b[s0][p0]) \in Nat
      /\ Len(b2[s0][p0]) = Len(b[s0][p0]) + 1
      /\ \A i \in 1 .. Len(b[s0][p0]) : b2[s0][p0][i] = b[s0][p0][i]
      /\ b2[s0][p0][Len(b[s0][p0]) + 1] = o0
  <2>1. b[s0][p0] \in Seq(BP!Order)
    BY <1>1
  <2>2. PICK q : q = b[s0][p0]
    OBVIOUS
  <2>3. /\ q \in Seq(BP!Order) /\ o0 \in BP!Order
    BY <1>1, <2>1, <2>2
  <2>4. /\ Len(q) \in Nat /\ Len(Append(q, o0)) = Len(q) + 1
        /\ \A i \in 1 .. Len(q) : Append(q, o0)[i] = q[i]
        /\ Append(q, o0)[Len(q) + 1] = o0
    BY ONLY <2>3
  <2> QED
    BY <1>1, <2>1, <2>2, <2>4
<1>3. ASSUME NEW s, NEW p, NEW o, InBook(b2, s, p, o)
      PROVE  (s = s0 /\ p = p0 /\ o = o0) \/ InBook(b, s, p, o)
  <2>1. s \in BP!Sides /\ p \in Prices
    BY <1>3 DEF InBook
  <2>2. PICK i \in 1 .. Len(b2[s][p]) : b2[s][p][i] = o
    BY <1>3 DEF InBook
  <2>3. CASE s = s0 /\ p = p0
    <3>1. i \in 1 .. Len(b[s0][p0]) \/ i = Len(b[s0][p0]) + 1
      BY <1>2, <2>2, <2>3
    <3> QED
      BY <1>2, <2>1, <2>2, <2>3, <3>1 DEF InBook
  <2>4. CASE s # s0 \/ p # p0
    BY <1>1, <2>1, <2>2, <2>4 DEF InBook
  <2> QED
    BY <2>3, <2>4
<1>4. ASSUME NEW s, NEW p, NEW o, InBook(b, s, p, o)
      PROVE  InBook(b2, s, p, o)
  <2>1. s \in BP!Sides /\ p \in Prices
    BY <1>4 DEF InBook
  <2>2. PICK i \in 1 .. Len(b[s][p]) : b[s][p][i] = o
    BY <1>4 DEF InBook
  <2>3. CASE s = s0 /\ p = p0
    <3>1. i \in 1 .. Len(b2[s][p]) /\ b2[s][p][i] = o
      BY <1>2, <2>2, <2>3
    <3> QED
      BY <2>1, <3>1 DEF InBook
  <2>4. CASE s # s0 \/ p # p0
    BY <1>1, <2>1, <2>2, <2>4 DEF InBook
  <2> QED
    BY <2>3, <2>4
<1>5. InBook(b2, s0, p0, o0)
  <2>1. Len(b[s0][p0]) + 1 \in 1 .. Len(b2[s0][p0])
    BY <1>2
  <2> QED
    BY <1>1, <1>2, <2>1 DEF InBook
<1> QED
  BY <1>3, <1>4, <1>5 DEF SameBut

-----------------------------------------------------------------------------
(* What orders have traded.                                                *)

LEMMA TradedOnSet ==
  ASSUME NEW T, NEW id
  PROVE  Traded(T, id) = SumFunctionOnSet([t \in TradesWith(T, id) |-> t.size],
                                          TradesWith(T, id))
  BY DEF Traded, SumFunction

LEMMA TradedNone ==
  ASSUME NEW T, NEW id, TradesWith(T, id) = {}
  PROVE  Traded(T, id) = 0
  BY TradedOnSet, SumEmpty

(* One trade more counts for its two orders.                               *)
LEMMA TradedMore ==
  ASSUME NEW T, IsFiniteSet(T), \A x \in T : x.size \in Nat,
         NEW t, t \notin T, t.size \in Nat, NEW id
  PROVE  /\ id \in {t.maker_order_id, t.taker_order_id} =>
              Traded(T \cup {t}, id) = Traded(T, id) + t.size
         /\ id \notin {t.maker_order_id, t.taker_order_id} =>
              Traded(T \cup {t}, id) = Traded(T, id)
<1> DEFINE S == TradesWith(T, id)
           f == [x \in S |-> x.size]
           S2 == TradesWith(T \cup {t}, id)
           f2 == [x \in S2 |-> x.size]
<1>1. CASE id \in {t.maker_order_id, t.taker_order_id}
  <2>1. S2 = S \cup {t} /\ t \notin S /\ S \subseteq T
    BY <1>1 DEF TradesWith
  <2>2. IsFiniteSet(S)
    BY <2>1, FS_Subset
  <2>3. /\ \A x \in S \cup {t} : f2[x] \in Int
        /\ \A x \in S : f2[x] = f[x]
    <3>1. \A x \in S2 : f2[x] = x.size
      OBVIOUS
    <3>2. \A x \in S : f[x] = x.size
      OBVIOUS
    <3>3. \A x \in S2 : x.size \in Nat
      BY <2>1
    <3> HIDE DEF S, S2, f, f2
    <3> QED
      BY <2>1, <3>1, <3>2, <3>3
  <2>4. Traded(T \cup {t}, id) = SumFunctionOnSet(f2, S2)
    BY TradedOnSet
  <2>5. Traded(T, id) = SumFunctionOnSet(f, S)
    BY TradedOnSet
  <2>6. f2[t] = t.size
    BY <2>1
  <2> HIDE DEF S, S2, f, f2
  <2>7. SumFunctionOnSet(f2, S \cup {t}) = SumFunctionOnSet(f2, S) + f2[t]
    BY <2>1, <2>2, <2>3, SumAdd
  <2>8. SumFunctionOnSet(f2, S) = SumFunctionOnSet(f, S)
    BY <2>2, <2>3, SumAgree
  <2> QED
    BY <1>1, <2>1, <2>4, <2>5, <2>6, <2>7, <2>8
<1>2. CASE id \notin {t.maker_order_id, t.taker_order_id}
  <2>1. S2 = S
    BY <1>2 DEF TradesWith
  <2> QED
    BY <1>2, <2>1 DEF Traded
<1> QED
  BY <1>1, <1>2

-----------------------------------------------------------------------------
(* The invariant.                                                          *)

LEMMA SameTotal == ASSUME NEW q PROVE BP!TotalSize(q) = Book!TotalSize(q)
  BY SameSum DEF BP!TotalSize, Book!TotalSize

LEMMA SameView ==
  ASSUME NEW b, NEW v PROVE BP!l2_snapshot(b, v) = Book!l2_snapshot(b, v)
<1>0. \A S : BP!Cardinality(S) = Book!Cardinality(S)
  BY SameCount
<1> QED
  BY <1>0 DEF BP!l2_snapshot, Book!l2_snapshot, BP!Levels, Book!Levels,
              BP!Sides, Book!Sides, BP!op_side, Book!op_side,
              BP!Better, Book!Better

(* How far the events handler has come, and the slots between it and the   *)
(* matching engine that will be published on the topics of orders.         *)
Seen == cursor[Pipe!Events]

Pending ==
  {n \in Seen + 1 .. M : ring[n].status # "Rejected" /\ ~IsTransfer(ring[n])}

(* The command being served will be published, too.                        *)
Speaks == pc = "done" /\ cmd.status # "Rejected"

(* What it has to say so far, and what it has traded.                      *)
SaidNow ==
  IF Speaks THEN OrderMessages(cmd, events)
  ELSE IF pc = "matching" THEN MakerMessages(cmd, events) ELSE {}

TradesNow ==
  IF Speaks \/ pc = "matching" THEN TradeMessages(cmd, events) ELSE {}

(* What the pending slots say, and all trades of commands the matching     *)
(* engine is through with.                                                 *)
Said == [n \in Pending |-> OrderMessages(ring[n], trades[n])]

Past ==
  trade_feed \cup UNION {TradeMessages(ring[n], trades[n]) : n \in Pending}

(* Orders up to this one have been heard of.                               *)
Limit == IF pc = "matching" THEN last_id - 1 ELSE last_id

(* Trades have sizes, and a maker older than the taker.                    *)
TradesSound(T, lim) ==
  /\ IsFiniteSet(T)
  /\ \A t \in T : /\ t.size \in Nat
                  /\ t.maker_order_id \in Nat /\ t.taker_order_id \in Nat
                  /\ t.maker_order_id < t.taker_order_id
                  /\ t.taker_order_id <= lim

(* What an order that waits has lost of its size, it has traded.           *)
SizesTrue(b, T) ==
  \A s, p, o : InBook(b, s, p, o) =>
    o.original_size - o.size = Traded(T, o.order_id)

(* What is said and what was traded agrees with the book.                  *)
Tells(said, feed, past) ==
  /\ WordsTrue(SaidNow, said, feed, book, past \cup TradesNow, Limit)
  /\ TradesSound(past, Limit)
  /\ TradesSound(past \cup TradesNow, last_id)
  /\ SizesTrue(book, past \cup TradesNow)
  /\ pc = "matching" =>
       BP!TotalSize(events) = Traded(past \cup TradesNow, cmd.order_id)

(* The newest snapshot is that of the book: the one the command being      *)
(* served carries, that of the last pending slot, or the one published.    *)
Shows(pend, data, published_view) ==
  /\ Speaks => l2 = BP!l2_snapshot(book, volume)
  /\ pc # "matching" /\ ~Speaks =>
       /\ \A n \in pend : (\A k \in pend : k <= n) =>
            data[n] = BP!l2_snapshot(book, volume)
       /\ pend = {} => published_view = BP!l2_snapshot(book, volume)

EInv ==
  /\ XInv
  /\ DOMAIN order_feed = 1 .. MaxSeq
  /\ (\E S : l2_data \in Seq(S)) /\ Len(l2_data) = published
  /\ Tells(Said, order_feed, Past)
  /\ Shows(Pending, l2_data, book_feed)

-----------------------------------------------------------------------------
(* The book while nothing or nothing new is said.                          *)

BookSame == UNCHANGED <<book, volume, cmd, pc, events, l2, last_id>>

LEMMA TellsStill ==
  ASSUME NEW said, NEW feed, NEW past, Tells(said, feed, past), BookSame
  PROVE  Tells(said, feed, past)'
<1>1. /\ book' = book /\ cmd' = cmd /\ pc' = pc /\ events' = events
      /\ last_id' = last_id
  BY DEF BookSame
<1>2. Speaks' = Speaks
  BY <1>1 DEF Speaks
<1>3. SaidNow' = SaidNow /\ TradesNow' = TradesNow /\ Limit' = Limit
  BY <1>1, <1>2 DEF SaidNow, TradesNow, Limit
<1> QED
  BY <1>1, <1>3 DEF Tells

LEMMA ShowsStill ==
  ASSUME NEW pend, NEW data, NEW view, Shows(pend, data, view), BookSame
  PROVE  Shows(pend, data, view)'
<1>1. /\ book' = book /\ volume' = volume /\ pc' = pc /\ l2' = l2
      /\ cmd' = cmd
  BY DEF BookSame
<1>2. Speaks' = Speaks
  BY <1>1 DEF Speaks
<1> QED
  BY <1>1, <1>2 DEF Shows

(* What the invariant of the book says of orders that wait.                *)
LEMMA WaitingIds ==
  ASSUME BP!Totals
  PROVE  /\ last_id \in Nat
         /\ \A s, p, o : InBook(book, s, p, o) =>
              /\ o \in BP!Order /\ o.order_id \in 1 .. MaxSeq
              /\ o.order_id <= last_id
              /\ o.size \in Nat \ {0} /\ o.original_size \in Nat \ {0}
              /\ pc = "matching" => o.order_id < last_id
<1>1. BP!TypeOK /\ BP!IdsInUse
  BY DEF BP!Totals, BP!IInv
<1>2. last_id \in Nat
  BY <1>1, RingAssumption DEF BP!TypeOK
<1>3. ASSUME NEW s, NEW p, NEW o, InBook(book, s, p, o)
      PROVE  /\ o \in BP!Order /\ o.order_id \in 1 .. MaxSeq
             /\ o.order_id <= last_id
             /\ o.size \in Nat \ {0} /\ o.original_size \in Nat \ {0}
             /\ pc = "matching" => o.order_id < last_id
  <2>1. s \in BP!Sides /\ p \in Prices
    BY <1>3 DEF InBook
  <2>2. PICK i \in 1 .. Len(book[s][p]) : book[s][p][i] = o
    BY <1>3 DEF InBook
  <2>3. book[s][p] \in Seq(BP!Order)
    BY <1>1, <2>1 DEF BP!TypeOK
  <2>4. o \in BP!Order
    BY <2>2, <2>3
  <2>5. o.order_id <= last_id /\ (pc = "matching" => o.order_id < last_id)
    BY <1>1, <2>1, <2>2 DEF BP!IdsInUse
  <2> QED
    BY <2>4, <2>5 DEF BP!Order, BP!OrderIds
<1> QED
  BY <1>2, <1>3

(* Nothing is known of an order newer than the last.                       *)
LEMMA NewTradesNone ==
  ASSUME NEW T, NEW lim \in Int, TradesSound(T, lim), NEW id \in Int, lim < id
  PROVE  TradesWith(T, id) = {} /\ Traded(T, id) = 0
<1>1. TradesWith(T, id) = {}
  BY DEF TradesWith, TradesSound
<1> QED
  BY <1>1, TradedNone

LEMMA TradesSoundGrows ==
  ASSUME NEW T, NEW lim \in Int, TradesSound(T, lim), NEW lim2 \in Int, lim <= lim2
  PROVE  TradesSound(T, lim2)
  BY DEF TradesSound

(* A command without trades.                                               *)
LEMMA NoMakers ==
  ASSUME NEW c
  PROVE  /\ MakerMessages(c, <<>>) = {} /\ TradeMessages(c, <<>>) = {}
         /\ OrderMessages(c, <<>>) = {publish_order_event(c, <<>>)}
  BY DEF MakerMessages, TradeMessages, OrderMessages

LEMMA OrderMessageIs ==
  ASSUME NEW c, NEW evs
  PROVE  LET m == publish_order_event(c, evs)
         IN /\ m.order_id = c.order_id /\ m.user_id = c.user_id
            /\ m.price = c.price /\ m.side = c.side
            /\ m.time_in_force = c.time_in_force /\ m.status = c.status
            /\ m.size = m.filled_size + c.size
            /\ c.command = "CancelOrder" =>
                 m.filled_size = c.original_size - c.size
            /\ c.command # "CancelOrder" =>
                 m.filled_size = BP!TotalSize(evs)
  BY SameTotal DEF publish_order_event

(* An order that is over, or never was, and is not in the book.            *)
LEMMA GoneTrue ==
  ASSUME NEW b, NEW m, ~Open(m),
         \A s, p, o : InBook(b, s, p, o) => o.order_id # m.order_id
  PROVE  Truthful(b, m.order_id, {m})
  BY DEF Truthful

-----------------------------------------------------------------------------
(* place_order: the matching starts, or a fill-or-kill order is killed.    *)

LEMMA TellsPlace ==
  ASSUME NEW said, NEW feed, NEW past, Tells(said, feed, past), BP!Totals,
         NEW c \in BP!NewOrders, BP!place_order(c)
  PROVE  Tells(said, feed, past)'
<1>1. /\ pc = "idle" /\ last_id' = c.order_id /\ book' = book /\ events' = <<>>
      /\ \/ cmd' = [c EXCEPT !.status = "Cancelled"] /\ pc' = "done"
         \/ cmd' = c /\ pc' = "matching"
  BY DEF BP!place_order, BP!Serve
<1>2. /\ c.order_id \in Nat /\ last_id \in Nat /\ last_id < c.order_id
      /\ c.command = "PlaceOrder"
  BY WaitingIds, RingAssumption DEF BP!NewOrders
<1>3. SaidNow = {} /\ TradesNow = {} /\ Limit = last_id /\ past \cup TradesNow = past
  BY <1>1 DEF SaidNow, TradesNow, Limit, Speaks
<1>4. /\ WordsTrue({}, said, feed, book, past, last_id)
      /\ TradesSound(past, last_id) /\ SizesTrue(book, past)
  BY <1>3 DEF Tells
<1>5. Traded(past, c.order_id) = 0
  BY <1>2, <1>4, NewTradesNone
<1>6. CASE cmd' = c /\ pc' = "matching"
  <2>1. SaidNow' = {} /\ TradesNow' = {} /\ Limit' = c.order_id - 1
    BY <1>1, <1>6, NoMakers DEF SaidNow, TradesNow, Limit, Speaks
  <2>2. past \cup TradesNow' = past
    BY <2>1
  <2>3. WordsTrue({}, said, feed, book, past, c.order_id - 1)
    <3>1. c.order_id - 1 \in Int /\ last_id \in Int /\ last_id <= c.order_id - 1
      BY <1>2
    <3> QED
      BY <1>4, <3>1, LimitGrows
  <2>4. TradesSound(past, c.order_id - 1) /\ TradesSound(past, c.order_id)
    <3>1. /\ c.order_id - 1 \in Int /\ last_id \in Int
          /\ last_id <= c.order_id - 1
          /\ c.order_id \in Int /\ last_id <= c.order_id
      BY <1>2
    <3> QED
      BY <1>4, <3>1, TradesSoundGrows
  <2>5. BP!TotalSize(events') = Traded(past, cmd'.order_id)
    BY <1>1, <1>5, <1>6, BP!TotalEmpty, BookAssumes
  <2> QED
    BY <1>1, <1>4, <2>1, <2>2, <2>3, <2>4, <2>5 DEF Tells
<1>7. CASE cmd' = [c EXCEPT !.status = "Cancelled"] /\ pc' = "done"
  <2>1. PICK d : d = [c EXCEPT !.status = "Cancelled"]
    OBVIOUS
  <2>2. cmd' = d /\ d.status = "Cancelled" /\ d.order_id = c.order_id
        /\ d.command = "PlaceOrder"
    BY <1>2, <1>7, <2>1 DEF BP!NewOrders
  <2>3. PICK m : m = publish_order_event(d, <<>>)
    OBVIOUS
  <2>4. /\ m.order_id = c.order_id /\ m.status = "Cancelled"
        /\ m.filled_size = 0
    <3>1. BP!TotalSize(<<>>) = 0
      BY BP!TotalEmpty, BookAssumes
    <3> QED
      BY <2>2, <2>3, <3>1, OrderMessageIs
  <2>5. /\ SaidNow' = {m} /\ TradesNow' = {} /\ Limit' = c.order_id
    BY <1>1, <1>7, <2>2, <2>3, NoMakers DEF SaidNow, TradesNow, Limit, Speaks
  <2>6. past \cup TradesNow' = past
    BY <2>5
  <2>7. /\ About({m}, c.order_id) = {m}
        /\ \A id : id # c.order_id => About({m}, id) = About({}, id)
    BY <2>4 DEF About
  <2>8. SameBut(book, book, c.order_id)
    BY DEF SameBut
  <2>9. Truthful(book, c.order_id, {m})
    <3>1. ~Open(m)
      BY <2>4 DEF Open
    <3>2. \A s, p, o : InBook(book, s, p, o) => o.order_id # m.order_id
      BY <1>2, <2>4, WaitingIds
    <3> QED
      BY <2>4, <3>1, <3>2, GoneTrue
  <2>10. PICK b, l : b = book /\ l = last_id
    OBVIOUS
  <2>11. /\ WordsTrue({}, said, feed, b, past, l) /\ SameBut(b, b, c.order_id)
         /\ Truthful(b, c.order_id, {m}) /\ l \in Int /\ c.order_id \in Int
         /\ l <= c.order_id /\ c.order_id <= c.order_id
         /\ m.filled_size = Traded(past, c.order_id)
    BY <1>2, <1>4, <1>5, <2>4, <2>8, <2>9, <2>10
  <2>12. WordsTrue({m}, said, feed, b, past, c.order_id)
    BY ONLY <2>7, <2>11, WordsSpoken
  <2>13. TradesSound(past, c.order_id)
    BY <1>4, <2>10, <2>11, TradesSoundGrows
  <2>14. pc' # "matching"
    BY <1>7
  <2> QED
    BY <1>1, <1>4, <2>5, <2>6, <2>10, <2>12, <2>13, <2>14 DEF Tells
<1> QED
  BY <1>1, <1>6, <1>7

LEMMA ShowsPlace ==
  ASSUME NEW pend, NEW data, NEW view, Shows(pend, data, view),
         NEW c \in BP!NewOrders, BP!place_order(c)
  PROVE  Shows(pend, data, view)'
<1>1. CASE pc' = "matching"
  BY <1>1 DEF Shows, Speaks
<1>2. CASE pc' = "done" /\ cmd' = [c EXCEPT !.status = "Cancelled"]
           /\ l2' = BP!l2_snapshot(book, volume) /\ UNCHANGED <<book, volume>>
  <2>1. cmd'.status = "Cancelled"
    BY <1>2 DEF BP!NewOrders
  <2> QED
    BY <1>2, <2>1 DEF Shows, Speaks
<1> QED
  BY <1>1, <1>2 DEF BP!place_order, BP!record_snapshot

-----------------------------------------------------------------------------
(* cancel_order: an order leaves the book and is reported with the size it *)
(* came with, or nothing changes.                                          *)

Cancels1(c, s, p, i) ==
  /\ s \in BP!Sides /\ p \in Prices /\ i \in 1 .. Len(book[s][p])
  /\ book[s][p][i].order_id = c.order_id
  /\ BP!Removal(s, p, i)
  /\ cmd'.command = "CancelOrder" /\ cmd'.status = "Cancelled"
  /\ cmd'.order_id = c.order_id
  /\ cmd'.size = book[s][p][i].size
  /\ cmd'.original_size = book[s][p][i].original_size
  /\ l2' = BP!l2_snapshot(book', volume')

LEMMA CancelSays ==
  ASSUME BP!Totals, NEW c \in BP!Cancels, BP!cancel_order(c)
  PROVE  /\ pc = "idle" /\ pc' = "done" /\ events' = <<>> /\ last_id' = last_id
         /\ \/ \E s, p, i : Cancels1(c, s, p, i)
            \/ /\ UNCHANGED <<book, volume>> /\ cmd'.status = "Rejected"
<1> DEFINE p == orders[c.order_id]
           s == BP!cancel_side(p)
<1>1. c \in BP!Command /\ c.command = "CancelOrder" /\ c.order_id \in BP!OrderIds
  <2>1. c \in BP!Cancels
    OBVIOUS
  <2> QED
    BY ONLY <2>1 DEF BP!Cancels, BP!Command, BP!Status, BP!Sides, BP!TIFs
<1>2. p \in Prices \cup {BP!NoPrice} /\ s \in BP!Sides
  BY <1>1 DEF BP!Totals, BP!IInv, BP!TypeOK, BP!cancel_side, BP!Sides
<1>3. \/ /\ p # BP!NoPrice
         /\ \E i \in 1 .. Len(book[s][p]) :
              book[s][p][i].order_id = c.order_id /\ BP!remove_order(c, s, p, i)
         /\ l2' = BP!l2_snapshot(book', volume')
      \/ /\ cmd' = [c EXCEPT !.status = "Rejected"]
         /\ UNCHANGED <<book, volume>>
  <2>1. BP!cancel_order(c)
    OBVIOUS
  <2> QED
    BY ONLY <2>1, Zenon DEF BP!cancel_order, BP!record_snapshot
<1>4. pc = "idle" /\ pc' = "done" /\ events' = <<>> /\ last_id' = last_id
  BY DEF BP!cancel_order, BP!Serve
<1> HIDE DEF p, s
<1>5. CASE /\ p # BP!NoPrice
           /\ \E i \in 1 .. Len(book[s][p]) :
                book[s][p][i].order_id = c.order_id /\ BP!remove_order(c, s, p, i)
           /\ l2' = BP!l2_snapshot(book', volume')
  <2>1. PICK i \in 1 .. Len(book[s][p]) :
          book[s][p][i].order_id = c.order_id /\ BP!remove_order(c, s, p, i)
    BY <1>5
  <2>2. /\ BP!Removal(s, p, i)
        /\ cmd' = [c EXCEPT !.price = p, !.size = book[s][p][i].size,
                            !.user_id = book[s][p][i].user_id,
                            !.side = book[s][p][i].side,
                            !.status = "Cancelled",
                            !.original_size = book[s][p][i].original_size]
    BY <2>1 DEF BP!remove_order, BP!Removal
  <2>3. /\ cmd'.command = "CancelOrder" /\ cmd'.status = "Cancelled"
        /\ cmd'.order_id = c.order_id
        /\ cmd'.size = book[s][p][i].size
        /\ cmd'.original_size = book[s][p][i].original_size
    BY <1>1, <2>2 DEF BP!Command
  <2>4. Cancels1(c, s, p, i)
    BY <1>2, <1>5, <2>1, <2>2, <2>3 DEF Cancels1
  <2> QED
    BY <1>4, <2>4
<1>6. CASE cmd' = [c EXCEPT !.status = "Rejected"] /\ UNCHANGED <<book, volume>>
  BY <1>1, <1>4, <1>6 DEF BP!Command
<1> QED
  BY <1>3, <1>5, <1>6

LEMMA TellsCancel ==
  ASSUME NEW said, NEW feed, NEW past, Tells(said, feed, past), BP!Totals,
         NEW c \in BP!Cancels, BP!cancel_order(c)
  PROVE  Tells(said, feed, past)'
<1>1. /\ pc = "idle" /\ pc' = "done" /\ events' = <<>> /\ last_id' = last_id
      /\ \/ \E s, p, i : Cancels1(c, s, p, i)
         \/ /\ UNCHANGED <<book, volume>> /\ cmd'.status = "Rejected"
  BY CancelSays
<1>2. last_id \in Int
  BY WaitingIds
<1>3. SaidNow = {} /\ TradesNow = {} /\ Limit = last_id /\ past \cup TradesNow = past
  BY <1>1 DEF SaidNow, TradesNow, Limit, Speaks
<1>4. /\ WordsTrue({}, said, feed, book, past, last_id)
      /\ TradesSound(past, last_id) /\ SizesTrue(book, past)
  BY <1>3 DEF Tells
<1>5. TradesNow' = {} /\ Limit' = last_id /\ past \cup TradesNow' = past
  BY <1>1, NoMakers DEF TradesNow, Limit, Speaks
<1>6. CASE UNCHANGED <<book, volume>> /\ cmd'.status = "Rejected"
  <2>1. SaidNow' = {}
    BY <1>1, <1>6 DEF SaidNow, Speaks
  <2> QED
    BY <1>1, <1>4, <1>5, <1>6, <2>1 DEF Tells
<1>7. CASE \E s, p, i : Cancels1(c, s, p, i)
  <2>1. PICK s, p, i : Cancels1(c, s, p, i)
    BY <1>7
  <2>2. /\ s \in BP!Sides /\ p \in Prices /\ i \in 1 .. Len(book[s][p])
        /\ BP!Removal(s, p, i)
    BY <2>1 DEF Cancels1
  <2>3. PICK b, b2, d, l : b = book /\ b2 = book' /\ d = cmd' /\ l = last_id
    OBVIOUS
  <2>4. PICK o : o = b[s][p][i]
    OBVIOUS
  <2>5. /\ o.order_id = c.order_id /\ d.command = "CancelOrder"
        /\ d.status = "Cancelled" /\ d.order_id = c.order_id
        /\ d.size = o.size /\ d.original_size = o.original_size
    BY <2>1, <2>3, <2>4 DEF Cancels1
  <2>6. InBook(b, s, p, o)
    BY <2>2, <2>3, <2>4 DEF InBook
  <2>7. BP!Thinner(b, b2, s, p, i) /\ OnePlaceEach(b)
    <3>1. BP!IInv
      BY DEF BP!Totals
    <3>2. BP!Thinner(book, book', s, p, i)
      BY ONLY <2>2, <3>1, BP!RemovalThins, BookAssumes
    <3> QED
      BY <2>3, <3>1, <3>2, PlacesUnique
  <2>8. /\ SameBut(b, b2, c.order_id)
        /\ \A t, q, x : InBook(b2, t, q, x) =>
             InBook(b, t, q, x) /\ x.order_id # c.order_id
    <3>1. /\ i \in 1 .. Len(b[s][p]) /\ c.order_id = b[s][p][i].order_id
          /\ s \in BP!Sides /\ p \in Prices
      BY <2>2, <2>3, <2>4, <2>5
    <3> QED
      BY ONLY <2>7, <3>1, OneGone
  <2>9. PICK m : m = publish_order_event(d, <<>>)
    OBVIOUS
  <2>10. /\ m.order_id = c.order_id /\ m.status = "Cancelled"
         /\ m.filled_size = o.original_size - o.size
    BY <2>5, <2>9, OrderMessageIs
  <2>11. m.filled_size = Traded(past, c.order_id)
    BY <1>4, <2>3, <2>5, <2>6, <2>10 DEF SizesTrue
  <2>12. SaidNow' = {m}
    BY <1>1, <2>3, <2>5, <2>9, NoMakers DEF SaidNow, Speaks
  <2>13. /\ About({m}, c.order_id) = {m}
         /\ \A id : id # c.order_id => About({m}, id) = About({}, id)
    BY <2>10 DEF About
  <2>14. Truthful(b2, c.order_id, {m})
    <3>1. ~Open(m)
      BY <2>10 DEF Open
    <3> QED
      BY <2>8, <2>10, <3>1, GoneTrue
  <2>15. c.order_id <= l
    BY <2>3, <2>5, <2>6, WaitingIds
  <2>16. WordsTrue({}, said, feed, b, past, l) /\ l \in Int /\ l <= l
    BY <1>2, <1>4, <2>3
  <2>17. WordsTrue({m}, said, feed, b2, past, l)
    BY ONLY <2>8, <2>11, <2>13, <2>14, <2>15, <2>16, WordsSpoken
  <2>18. SizesTrue(b2, past)
    BY <1>4, <2>3, <2>8 DEF SizesTrue
  <2>19. pc' # "matching"
    BY <1>1
  <2> QED
    BY <1>1, <1>4, <1>5, <2>3, <2>12, <2>17, <2>18, <2>19 DEF Tells
<1> QED
  BY <1>1, <1>6, <1>7

LEMMA ShowsCancel ==
  ASSUME NEW pend, NEW data, NEW view, Shows(pend, data, view), BP!Totals,
         NEW c \in BP!Cancels, BP!cancel_order(c)
  PROVE  Shows(pend, data, view)'
<1>1. /\ pc = "idle" /\ pc' = "done"
      /\ \/ \E s, p, i : Cancels1(c, s, p, i)
         \/ /\ UNCHANGED <<book, volume>> /\ cmd'.status = "Rejected"
  BY CancelSays
<1>2. CASE UNCHANGED <<book, volume>> /\ cmd'.status = "Rejected"
  BY <1>1, <1>2 DEF Shows, Speaks
<1>3. CASE \E s, p, i : Cancels1(c, s, p, i)
  <2>1. cmd'.status = "Cancelled" /\ l2' = BP!l2_snapshot(book', volume')
    BY <1>3 DEF Cancels1
  <2> QED
    BY <1>1, <2>1 DEF Shows, Speaks
<1> QED
  BY <1>1, <1>2, <1>3

-----------------------------------------------------------------------------
(* fill_maker: one trade more, and one word more, about its maker.         *)

LEMMA MessagesAppend ==
  ASSUME NEW S, NEW evs \in Seq(S), NEW e \in S, NEW c
  PROVE  /\ MakerMessages(c, Append(evs, e))
              = MakerMessages(c, evs) \cup {publish_maker_order_event(c, e)}
         /\ TradeMessages(c, Append(evs, e))
              = TradeMessages(c, evs) \cup {publish_trade_event(c, e)}
<1>1. PICK q : q = Append(evs, e)
  OBVIOUS
<1>2. /\ Len(evs) \in Nat /\ Len(q) = Len(evs) + 1
      /\ \A i \in 1 .. Len(evs) : q[i] = evs[i]
      /\ q[Len(evs) + 1] = e
  BY <1>1
<1>3. /\ 1 .. Len(q) = (1 .. Len(evs)) \cup {Len(evs) + 1}
  BY <1>2
<1>4. MakerMessages(c, q)
        = MakerMessages(c, evs) \cup {publish_maker_order_event(c, e)}
  BY <1>2, <1>3 DEF MakerMessages
<1>5. TradeMessages(c, q)
        = TradeMessages(c, evs) \cup {publish_trade_event(c, e)}
  BY <1>2, <1>3 DEF TradeMessages
<1> QED
  BY <1>1, <1>4, <1>5

LEMMA MakerMessageIs ==
  ASSUME NEW c, NEW e
  PROVE  LET m == publish_maker_order_event(c, e)
         IN /\ m.order_id = e.matched_order_id /\ m.user_id = e.maker_user_id
            /\ m.price = e.price /\ m.side = BP!op_side(c.side)
            /\ m.time_in_force = "Gtc" /\ m.size = e.maker_original_size
            /\ m.filled_size = e.maker_original_size - e.maker_remaining_size
            /\ Open(m) <=> ~e.matched_order_completed
  BY DEF publish_maker_order_event, Open, BP!op_side, Book!op_side

LEMMA TradeMessageIs ==
  ASSUME NEW c, NEW e
  PROVE  LET t == publish_trade_event(c, e)
         IN /\ t.size = e.size /\ t.maker_order_id = e.matched_order_id
            /\ t.taker_order_id = c.order_id
  BY DEF publish_trade_event

(* A maker that waits and has not just been traded with: as long as the    *)
(* taker needs more, the makers of its earlier trades have left the book.  *)
LEMMA MakerUnsaid ==
  ASSUME NEW said, NEW feed, NEW past, Tells(said, feed, past), BP!Totals,
         pc = "matching", remaining > 0, remaining \in Nat,
         NEW s, NEW p, NEW o, InBook(book, s, p, o)
  PROVE  About(SaidNow, o.order_id) = {}
<1> SUFFICES ASSUME About(SaidNow, o.order_id) # {} PROVE FALSE
  OBVIOUS
<1>1. SaidNow = MakerMessages(cmd, events)
  BY DEF SaidNow, Speaks
<1>2. PICK W : W = About(SaidNow, o.order_id)
  OBVIOUS
<1>3. Heard(SaidNow, said, feed, o.order_id, W)
  BY <1>2 DEF Heard
<1>4. o.order_id \in 1 .. MaxSeq
  BY WaitingIds
<1>5. Truthful(book, o.order_id, W)
  BY <1>3, <1>4 DEF Tells, WordsTrue
<1>6. PICK m \in W : Open(m)
  BY <1>5 DEF Truthful
<1>7. m \in MakerMessages(cmd, events)
  BY <1>1, <1>2, <1>6 DEF About
<1>8. PICK k \in 1 .. Len(events) : m = publish_maker_order_event(cmd, events[k])
  BY <1>7 DEF MakerMessages
<1>9. ~events[k].matched_order_completed
  BY <1>6, <1>8, MakerMessageIs
<1>10. remaining = 0
  <2>1. BP!EventsTrue
    BY DEF BP!Totals
  <2> QED
    BY <1>9, <2>1 DEF BP!EventsTrue
<1> QED
  BY <1>10

(* The trade is a new one.                                                 *)
LEMMA TradeIsNew ==
  ASSUME NEW past, pc = "matching", NEW lim \in Int, TradesSound(past, lim),
         NEW c, c = cmd, c.order_id \in Int, lim < c.order_id,
         NEW e, About(SaidNow, e.matched_order_id) = {}
  PROVE  publish_trade_event(c, e) \notin past \cup TradesNow
<1>1. PICK t : t = publish_trade_event(c, e)
  OBVIOUS
<1>2. t.maker_order_id = e.matched_order_id /\ t.taker_order_id = c.order_id
  BY <1>1, TradeMessageIs
<1>3. t \notin past
  BY <1>2 DEF TradesSound
<1>4. ASSUME t \in TradesNow PROVE FALSE
  <2>1. t \in TradeMessages(cmd, events) /\ SaidNow = MakerMessages(cmd, events)
    BY <1>4 DEF TradesNow, SaidNow, Speaks
  <2>2. PICK k \in 1 .. Len(events) : t = publish_trade_event(cmd, events[k])
    BY <2>1 DEF TradeMessages
  <2>3. events[k].matched_order_id = e.matched_order_id
    BY <1>2, <2>2, TradeMessageIs
  <2>4. publish_maker_order_event(cmd, events[k]) \in SaidNow
    BY <2>1 DEF MakerMessages
  <2>5. publish_maker_order_event(cmd, events[k]).order_id = e.matched_order_id
    BY <2>3, MakerMessageIs
  <2> QED
    BY <2>4, <2>5 DEF About
<1> QED
  BY <1>1, <1>3, <1>4

(* What the trade does to the book, order by order.                        *)
MakerMoves(b, b2, s, p, m, left) ==
  /\ SameBut(b, b2, m.order_id)
  /\ \A t, q, x : InBook(b2, t, q, x) =>
       \/ InBook(b, t, q, x) /\ x.order_id # m.order_id
       \/ left # 0 /\ t = s /\ q = p /\ x = [m EXCEPT !.size = left]
  /\ left # 0 => InBook(b2, s, p, [m EXCEPT !.size = left])

LEMMA FillMoves ==
  ASSUME BP!Totals, NEW s, NEW m, NEW trade, NEW left,
         BP!FillFacts(s, m, trade, left)
  PROVE  MakerMoves(book, book', s, level, m, left)
<1>1. /\ s \in BP!Sides /\ level \in Prices /\ idx \in 1 .. Len(book[s][level])
      /\ m = book[s][level][idx] /\ m \in BP!Order /\ left \in Nat
      /\ \/ left = 0 /\ BP!Removal(s, level, idx)
         \/ left # 0 /\ BP!Resize(s, level, idx, left)
  BY DEF BP!FillFacts
<1>2. BP!IInv
  BY DEF BP!Totals
<1>3. PICK b, b2, p, i : b = book /\ b2 = book' /\ p = level /\ i = idx
  OBVIOUS
<1>4. OnePlaceEach(b)
  BY <1>2, <1>3, PlacesUnique
<1>5. /\ s \in BP!Sides /\ p \in Prices /\ i \in 1 .. Len(b[s][p])
      /\ m = b[s][p][i] /\ m.order_id = b[s][p][i].order_id
  BY <1>1, <1>3
<1>6. CASE left = 0 /\ BP!Removal(s, level, idx)
  <2>1. /\ s \in BP!Sides /\ level \in Prices /\ idx \in 1 .. Len(book[s][level])
        /\ BP!Removal(s, level, idx)
    BY <1>1, <1>6
  <2>2. BP!Thinner(book, book', s, level, idx)
    BY ONLY <1>2, <2>1, BP!RemovalThins, BookAssumes
  <2>3. BP!Thinner(b, b2, s, p, i)
    BY <1>3, <2>2
  <2>4. /\ SameBut(b, b2, m.order_id)
        /\ \A t, q, x : InBook(b2, t, q, x) =>
             InBook(b, t, q, x) /\ x.order_id # m.order_id
    <3>1. BP!Thinner(b, b2, s, p, i) /\ OnePlaceEach(b)
      BY <1>4, <2>3
    <3>2. /\ i \in 1 .. Len(b[s][p]) /\ m.order_id = b[s][p][i].order_id
          /\ s \in BP!Sides /\ p \in Prices
      BY <1>5
    <3> QED
      BY ONLY <3>1, <3>2, OneGone
  <2>5. MakerMoves(b, b2, s, p, m, left)
    BY <1>6, <2>4 DEF MakerMoves
  <2> QED
    BY <1>3, <2>5
<1>7. CASE left # 0 /\ BP!Resize(s, level, idx, left)
  <2>1. /\ s \in BP!Sides /\ level \in Prices /\ idx \in 1 .. Len(book[s][level])
        /\ left \in Nat \ {0} /\ BP!Resize(s, level, idx, left)
    BY <1>1, <1>7
  <2>2. BP!Changed(book, book', s, level, idx,
                   [book[s][level][idx] EXCEPT !.size = left])
    BY ONLY <1>2, <2>1, BP!ResizeChanges, BookAssumes
  <2>3. PICK o : o = [m EXCEPT !.size = left]
    OBVIOUS
  <2>4. BP!Changed(b, b2, s, p, i, o) /\ o.order_id = m.order_id
    BY <1>1, <1>3, <2>2, <2>3 DEF BP!Order
  <2>5. /\ SameBut(b, b2, o.order_id) /\ InBook(b2, s, p, o)
        /\ \A t, q, x : InBook(b2, t, q, x) =>
             \/ t = s /\ q = p /\ x = o
             \/ InBook(b, t, q, x) /\ x.order_id # o.order_id
    <3>1. o.order_id = b[s][p][i].order_id
      BY <1>5, <2>4
    <3> QED
      BY ONLY <1>4, <1>5, <2>4, <3>1, OneChanged
  <2>6. MakerMoves(b, b2, s, p, m, left)
    BY <1>7, <2>3, <2>4, <2>5 DEF MakerMoves
  <2> QED
    BY <1>3, <2>6
<1> QED
  BY <1>1, <1>6, <1>7

(* The word about a maker is true, those about all others stay so.         *)
FillHeard(now, said, feed, b, b2, T, lim, s, p, m, left, trade, w, t) ==
  /\ lim \in Int /\ WordsTrue(now, said, feed, b, T, lim) /\ SizesTrue(b, T)
  /\ IsFiniteSet(T) /\ \A x \in T : x.size \in Nat
  /\ \A a, q, o : InBook(b, a, q, o) => o.order_id \in Int /\ o.order_id <= lim
  /\ m \in BP!Order /\ left \in Nat /\ trade \in Nat
  /\ left = m.size - trade /\ m.original_size \in Nat /\ m.size \in Nat
  /\ InBook(b, s, p, m) /\ MakerMoves(b, b2, s, p, m, left)
  /\ w.order_id = m.order_id /\ w.user_id = m.user_id /\ w.price = p
  /\ w.side = s /\ w.size = m.original_size
  /\ w.filled_size = m.original_size - left
  /\ Open(w) <=> left # 0
  /\ About(now, m.order_id) = {}
  /\ t \notin T /\ t.size = trade /\ t.maker_order_id = m.order_id
  /\ t.taker_order_id \in Int /\ lim < t.taker_order_id

LEMMA FillTold ==
  ASSUME NEW now, NEW said, NEW feed, NEW b, NEW b2, NEW T, NEW lim, NEW s,
         NEW p, NEW m, NEW left, NEW trade, NEW w, NEW t,
         FillHeard(now, said, feed, b, b2, T, lim, s, p, m, left, trade, w, t)
  PROVE  /\ WordsTrue(now \cup {w}, said, feed, b2, T \cup {t}, lim)
         /\ SizesTrue(b2, T \cup {t})
         /\ Traded(T \cup {t}, t.taker_order_id)
              = Traded(T, t.taker_order_id) + trade
<1> /\ lim \in Int /\ WordsTrue(now, said, feed, b, T, lim) /\ SizesTrue(b, T)
    /\ IsFiniteSet(T) /\ \A x \in T : x.size \in Nat
    /\ \A a, q, o : InBook(b, a, q, o) => o.order_id \in Int /\ o.order_id <= lim
    /\ m \in BP!Order /\ left \in Nat /\ trade \in Nat
    /\ left = m.size - trade /\ m.original_size \in Nat /\ m.size \in Nat
    /\ InBook(b, s, p, m) /\ MakerMoves(b, b2, s, p, m, left)
    /\ w.order_id = m.order_id /\ w.user_id = m.user_id /\ w.price = p
    /\ w.side = s /\ w.size = m.original_size
    /\ w.filled_size = m.original_size - left
    /\ Open(w) <=> left # 0
    /\ About(now, m.order_id) = {}
    /\ t \notin T /\ t.size = trade /\ t.maker_order_id = m.order_id
    /\ t.taker_order_id \in Int /\ lim < t.taker_order_id
  BY DEF FillHeard
<1>1. m.order_id \in Int /\ m.order_id <= lim
  OBVIOUS
<1>2. /\ Traded(T \cup {t}, m.order_id) = Traded(T, m.order_id) + trade
      /\ Traded(T \cup {t}, t.taker_order_id)
           = Traded(T, t.taker_order_id) + trade
      /\ \A id \in Int : id # m.order_id /\ id <= lim =>
           Traded(T \cup {t}, id) = Traded(T, id)
  <2>1. t.size \in Nat
    OBVIOUS
  <2>2. \A id : /\ id \in {t.maker_order_id, t.taker_order_id} =>
                     Traded(T \cup {t}, id) = Traded(T, id) + t.size
                /\ id \notin {t.maker_order_id, t.taker_order_id} =>
                     Traded(T \cup {t}, id) = Traded(T, id)
    BY <2>1, TradedMore
  <2>3. \A id \in Int : id <= lim => id # t.taker_order_id
    OBVIOUS
  <2> QED
    BY <2>2, <2>3
<1>3. m.original_size - m.size = Traded(T, m.order_id)
  BY DEF SizesTrue
<1>4. w.filled_size = Traded(T \cup {t}, m.order_id)
  BY <1>2, <1>3
<1>5. /\ About(now \cup {w}, m.order_id) = {w}
      /\ \A id : id # m.order_id => About(now \cup {w}, id) = About(now, id)
  BY DEF About
<1>6. /\ SameBut(b, b2, m.order_id)
      /\ \A a, q, x : InBook(b2, a, q, x) =>
           \/ InBook(b, a, q, x) /\ x.order_id # m.order_id
           \/ left # 0 /\ a = s /\ q = p /\ x = [m EXCEPT !.size = left]
      /\ left # 0 => InBook(b2, s, p, [m EXCEPT !.size = left])
  BY DEF MakerMoves
<1>7. PICK o : o = [m EXCEPT !.size = left]
  OBVIOUS
<1>8. /\ o.order_id = m.order_id /\ o.user_id = m.user_id /\ o.size = left
      /\ o.original_size = m.original_size
  BY <1>7 DEF BP!Order
<1>9. Truthful(b2, m.order_id, {w})
  <2>1. Describes(w, s, p, o)
    BY <1>8 DEF Describes
  <2>2. \A a, q, x : InBook(b2, a, q, x) /\ x.order_id = m.order_id =>
          left # 0 /\ a = s /\ q = p /\ x = o
    BY <1>6, <1>7
  <2>3. Open(w) => InBook(b2, s, p, o)
    BY <1>6, <1>7
  <2> QED
    BY <2>1, <2>2, <2>3 DEF Truthful
<1>10. WordsTrue(now \cup {w}, said, feed, b2, T \cup {t}, lim)
  <2>1. \A id \in 1 .. MaxSeq : id # m.order_id /\ id <= lim =>
          Traded(T \cup {t}, id) = Traded(T, id)
    <3>1. \A id \in 1 .. MaxSeq : id \in Int
      BY RingAssumption
    <3> QED
      BY <1>2, <3>1
  <2>2. WordsTrue(now, said, feed, b, T, lim) /\ lim <= lim /\ lim \in Int
    OBVIOUS
  <2>3. SameBut(b, b2, m.order_id)
    BY <1>6
  <2> QED
    BY ONLY <1>1, <1>4, <1>5, <1>9, <2>1, <2>2, <2>3, WordsSpoken
<1>11. SizesTrue(b2, T \cup {t})
  <2> SUFFICES ASSUME NEW a, NEW q, NEW x, InBook(b2, a, q, x)
               PROVE  x.original_size - x.size = Traded(T \cup {t}, x.order_id)
    BY DEF SizesTrue
  <2>1. CASE InBook(b, a, q, x) /\ x.order_id # m.order_id
    <3>1. x.original_size - x.size = Traded(T, x.order_id)
      BY <2>1 DEF SizesTrue
    <3>2. x.order_id \in Int /\ x.order_id <= lim
      BY <2>1
    <3>3. Traded(T \cup {t}, x.order_id) = Traded(T, x.order_id)
      BY <1>2, <2>1, <3>2
    <3> QED
      BY <3>1, <3>3
  <2>2. CASE x = o
    BY <1>2, <1>3, <1>8, <2>2
  <2> QED
    BY <1>6, <1>7, <2>1, <2>2
<1> QED
  BY <1>2, <1>10, <1>11

LEMMA TellsFill ==
  ASSUME NEW said, NEW feed, NEW past, Tells(said, feed, past), BP!Totals,
         BP!fill_maker
  PROVE  Tells(said, feed, past)'
<1>1. PICK s, m, trade, left : BP!FillFacts(s, m, trade, left)
  BY ONLY BP!Totals, BP!fill_maker, BP!FillStep, BookAssumes
<1>2. /\ pc = "matching" /\ pc' = pc /\ cmd' = cmd
      /\ s = BP!op_side(cmd.side) /\ s \in BP!Sides /\ level \in Prices
      /\ idx \in 1 .. Len(book[s][level]) /\ m = book[s][level][idx]
      /\ m \in BP!Order /\ m.size \in Nat /\ m.original_size \in Nat
      /\ m.order_id \in Nat /\ m.order_id < cmd.order_id
      /\ trade \in Nat /\ left \in Nat /\ left = m.size - trade
      /\ remaining \in Nat /\ remaining > 0
      /\ events' = Append(events, BP!trade_event(m, trade))
      /\ events \in Seq(BP!Event) /\ BP!trade_event(m, trade) \in BP!Event
  BY <1>1 DEF BP!FillFacts
<1>3. last_id' = last_id
  BY DEF BP!fill_maker
<1>4. last_id \in Nat /\ cmd.order_id = last_id
  BY <1>2, WaitingIds DEF BP!Totals, BP!IInv, BP!IdsInUse
<1>5. InBook(book, s, level, m)
  BY <1>2 DEF InBook
<1>6. MakerMoves(book, book', s, level, m, left)
  BY <1>1, FillMoves
<1>7. About(SaidNow, m.order_id) = {}
  BY <1>2, <1>5, MakerUnsaid
<1>8. PICK e, c, l : e = BP!trade_event(m, trade) /\ c = cmd /\ l = last_id
  OBVIOUS
<1>9. /\ e.price = level /\ e.size = trade /\ e.matched_order_id = m.order_id
      /\ e.maker_user_id = m.user_id /\ e.maker_original_size = m.original_size
      /\ e.maker_remaining_size = left
      /\ e.matched_order_completed <=> left = 0
  <2>1. trade \in Nat /\ left \in Nat /\ left = m.size - trade /\ m.size \in Nat
    BY <1>2
  <2>2. m.size - trade = left /\ (m.size = trade <=> left = 0)
    BY ONLY <2>1
  <2>3. e = BP!trade_event(m, trade)
    BY <1>8
  <2> QED
    BY ONLY <2>2, <2>3 DEF BP!trade_event
<1>10. PICK w, t : w = publish_maker_order_event(c, e) /\ t = publish_trade_event(c, e)
  OBVIOUS
<1>11. /\ w.order_id = m.order_id /\ w.user_id = m.user_id /\ w.price = level
       /\ w.side = s /\ w.size = m.original_size
       /\ w.filled_size = m.original_size - left
       /\ Open(w) <=> left # 0
       /\ t.size = trade /\ t.maker_order_id = m.order_id
       /\ t.taker_order_id = c.order_id
  <2>1. s = BP!op_side(c.side)
    BY <1>2, <1>8
  <2>2. /\ w.order_id = e.matched_order_id /\ w.user_id = e.maker_user_id
        /\ w.price = e.price /\ w.size = e.maker_original_size
        /\ w.side = BP!op_side(c.side)
        /\ w.filled_size = e.maker_original_size - e.maker_remaining_size
        /\ Open(w) <=> ~e.matched_order_completed
    BY ONLY <1>10, MakerMessageIs
  <2>3. /\ t.size = e.size /\ t.maker_order_id = e.matched_order_id
        /\ t.taker_order_id = c.order_id
    BY ONLY <1>10, TradeMessageIs
  <2>4. Open(w) <=> left # 0
    BY ONLY <1>9, <2>2
  <2> QED
    BY ONLY <1>9, <2>1, <2>2, <2>3, <2>4
<1>12. Limit = l - 1 /\ Limit' = l - 1 /\ l - 1 \in Int /\ l \in Int /\ c.order_id = l
  BY <1>2, <1>3, <1>4, <1>8 DEF Limit
<1>13. /\ SaidNow = MakerMessages(c, events) /\ SaidNow' = MakerMessages(c, events')
       /\ TradesNow = TradeMessages(c, events)
       /\ TradesNow' = TradeMessages(c, events')
  BY <1>2, <1>8 DEF SaidNow, TradesNow, Speaks
<1>14. SaidNow' = SaidNow \cup {w} /\ TradesNow' = TradesNow \cup {t}
  <2>1. PICK q : q = events
    OBVIOUS
  <2>2. q \in Seq(BP!Event) /\ e \in BP!Event /\ events' = Append(q, e)
    BY <1>2, <1>8, <2>1
  <2> QED
    BY <1>10, <1>13, <2>1, <2>2, MessagesAppend
<1>15. PICK now, T, b, b2, p : now = SaidNow /\ T = past \cup TradesNow
          /\ b = book /\ b2 = book' /\ p = level
  OBVIOUS
<1>16. past \cup TradesNow' = T \cup {t}
  BY <1>14, <1>15
<1>17. /\ WordsTrue(now, said, feed, b, T, l - 1) /\ SizesTrue(b, T)
       /\ TradesSound(past, l - 1) /\ TradesSound(T, l)
       /\ BP!TotalSize(events) = Traded(T, c.order_id)
  BY <1>2, <1>8, <1>12, <1>15 DEF Tells
<1>18. t \notin T
  <2>1. /\ pc = "matching" /\ l - 1 \in Int /\ TradesSound(past, l - 1) /\ c = cmd
        /\ c.order_id \in Int /\ l - 1 < c.order_id
        /\ About(SaidNow, e.matched_order_id) = {}
    <3>1. l - 1 < l
      BY <1>12
    <3>2. e.matched_order_id = m.order_id
      BY <1>9
    <3> QED
      BY <1>2, <1>7, <1>8, <1>12, <1>17, <3>1, <3>2
  <2>2. publish_trade_event(c, e) \notin past \cup TradesNow
    BY ONLY <2>1, TradeIsNew
  <2> QED
    BY <1>10, <1>15, <2>2
<1>19. /\ WordsTrue(now \cup {w}, said, feed, b2, T \cup {t}, l - 1)
       /\ SizesTrue(b2, T \cup {t})
       /\ Traded(T \cup {t}, t.taker_order_id) = Traded(T, t.taker_order_id) + trade
  <2>1. IsFiniteSet(T) /\ \A x \in T : x.size \in Nat
    BY <1>17 DEF TradesSound
  <2>2. \A a, q, o : InBook(b, a, q, o) => o.order_id \in Int /\ o.order_id <= l - 1
    <3>1. ASSUME NEW a, NEW q, NEW o, InBook(b, a, q, o)
          PROVE  o.order_id \in Int /\ o.order_id <= l - 1
      <4>1. o.order_id \in 1 .. MaxSeq /\ o.order_id < last_id
        BY <1>2, <1>15, <3>1, WaitingIds
      <4> QED
        BY <1>4, <1>8, <4>1
    <3> QED
      BY <3>1
  <2>3. InBook(b, s, p, m) /\ MakerMoves(b, b2, s, p, m, left)
    BY <1>5, <1>6, <1>15
  <2>4. /\ m \in BP!Order /\ left \in Nat /\ trade \in Nat /\ left = m.size - trade
        /\ m.original_size \in Nat /\ m.size \in Nat
    BY <1>2
  <2>5. /\ About(now, m.order_id) = {} /\ t \notin T /\ t.size = trade
        /\ t.maker_order_id = m.order_id /\ t.taker_order_id \in Int
        /\ l - 1 < t.taker_order_id
    BY <1>7, <1>11, <1>12, <1>15, <1>18
  <2>6. /\ w.order_id = m.order_id /\ w.user_id = m.user_id /\ w.price = p
        /\ w.side = s /\ w.size = m.original_size
        /\ w.filled_size = m.original_size - left
        /\ Open(w) <=> left # 0
    BY <1>11, <1>15
  <2>7. /\ WordsTrue(now, said, feed, b, T, l - 1) /\ SizesTrue(b, T)
        /\ l - 1 \in Int
    BY <1>12, <1>17
  <2>8. FillHeard(now, said, feed, b, b2, T, l - 1, s, p, m, left, trade, w, t)
    BY ONLY <2>1, <2>2, <2>3, <2>4, <2>5, <2>6, <2>7 DEF FillHeard
  <2> QED
    BY ONLY <2>8, FillTold
<1>20. TradesSound(T \cup {t}, l)
  <2>1. IsFiniteSet(T \cup {t})
    BY <1>17, FS_AddElement DEF TradesSound
  <2>2. /\ t.size \in Nat /\ t.maker_order_id \in Nat /\ t.taker_order_id \in Nat
        /\ t.maker_order_id < t.taker_order_id /\ t.taker_order_id <= l
    <3>1. /\ trade \in Nat /\ m.order_id \in Nat /\ m.order_id < c.order_id
          /\ c.order_id = l /\ l \in Nat
      BY <1>2, <1>4, <1>8
    <3> QED
      BY ONLY <1>11, <3>1
  <2> QED
    BY <1>17, <2>1, <2>2 DEF TradesSound
<1>21. BP!TotalSize(events') = Traded(T \cup {t}, c.order_id)
  <2>1. PICK q : q = events
    OBVIOUS
  <2>2. /\ q \in Seq(BP!Event) /\ e \in BP!Event /\ events' = Append(q, e)
        /\ e.size \in Nat
    BY <1>2, <1>8, <1>9, <2>1
  <2>3. \A i \in 1 .. Len(q) : q[i].size \in Nat
    <3>1. \A i \in 1 .. Len(q) : q[i] \in BP!Event
      BY <2>2
    <3> QED
      BY <3>1 DEF BP!Event
  <2>4. BP!TotalSize(Append(q, e)) = BP!TotalSize(q) + e.size
    BY ONLY <2>2, <2>3, BP!TotalAppend, BookAssumes
  <2> QED
    BY <1>9, <1>11, <1>17, <1>19, <2>1, <2>2, <2>4
<1> QED
  BY <1>2, <1>3, <1>8, <1>12, <1>14, <1>15, <1>16, <1>17, <1>19, <1>20, <1>21 DEF Tells

-----------------------------------------------------------------------------
(* finish_place: the word about the taker itself.                          *)

(* The makers' words and the trades of a command depend on its side, its   *)
(* user and its id alone.                                                  *)
LEMMA MessagesSame ==
  ASSUME NEW c, NEW d, NEW evs, d.side = c.side, d.user_id = c.user_id,
         d.order_id = c.order_id
  PROVE  /\ MakerMessages(d, evs) = MakerMessages(c, evs)
         /\ TradeMessages(d, evs) = TradeMessages(c, evs)
<1>1. \A e : publish_maker_order_event(d, e) = publish_maker_order_event(c, e)
  BY DEF publish_maker_order_event
<1>2. \A e : publish_trade_event(d, e) = publish_trade_event(c, e)
  BY DEF publish_trade_event
<1> QED
  BY <1>1, <1>2 DEF MakerMessages, TradeMessages

(* The result of a placed order.                                           *)
LEMMA FinishSays ==
  ASSUME BP!Totals, BP!finish_place
  PROVE  /\ pc = "matching" /\ pc' = "done" /\ events' = events
         /\ last_id' = last_id
         /\ cmd'.command = "PlaceOrder" /\ cmd'.order_id = cmd.order_id
         /\ cmd'.user_id = cmd.user_id /\ cmd'.side = cmd.side
         /\ cmd'.size = remaining /\ cmd'.time_in_force = cmd.time_in_force
         /\ cmd'.status # "Rejected"
         /\ l2' = BP!l2_snapshot(book', volume')
         /\ \/ /\ cmd.time_in_force = "Gtc" /\ remaining > 0
               /\ BP!add_to_book(remaining)
               /\ cmd'.status \in {"Placed", "PartiallyFilled"}
               /\ cmd'.price = cmd.price
            \/ /\ book' = book
               /\ cmd.time_in_force # "Gtc" \/ cmd'.status = "Filled"
<1>1. /\ pc = "matching" /\ pc' = "done" /\ events' = events
      /\ last_id' = last_id
      /\ l2' = BP!l2_snapshot(book', volume')
      /\ IF cmd.time_in_force = "Gtc" /\ remaining > 0
         THEN BP!add_to_book(remaining) ELSE UNCHANGED <<book, volume, orders>>
      /\ cmd' = [cmd EXCEPT
            !.status = BP!final_status(cmd.time_in_force, remaining, cmd.size),
            !.size   = remaining,
            !.price  = IF cmd.price = 0 /\ cmd.side = "Ask" /\ events # <<>>
                       THEN events[1].price ELSE cmd.price]
  BY DEF BP!finish_place, BP!record_snapshot
<1>2. /\ cmd \in BP!Command /\ cmd.command = "PlaceOrder" /\ remaining \in Nat
      /\ cmd.size > 0
      /\ cmd.time_in_force = "Gtc" => cmd.price \in Prices
  BY <1>1 DEF BP!Totals, BP!IInv, BP!TypeOK, BP!IdsInUse, BP!Idle
<1>3. /\ cmd'.command = "PlaceOrder" /\ cmd'.order_id = cmd.order_id
      /\ cmd'.user_id = cmd.user_id /\ cmd'.side = cmd.side
      /\ cmd'.size = remaining /\ cmd'.time_in_force = cmd.time_in_force
      /\ cmd'.status = BP!final_status(cmd.time_in_force, remaining, cmd.size)
      /\ cmd'.price = IF cmd.price = 0 /\ cmd.side = "Ask" /\ events # <<>>
                      THEN events[1].price ELSE cmd.price
  BY <1>1, <1>2 DEF BP!Command
<1>4. /\ BP!final_status(cmd.time_in_force, remaining, cmd.size) # "Rejected"
      /\ remaining = 0 =>
           BP!final_status(cmd.time_in_force, remaining, cmd.size) = "Filled"
      /\ cmd.time_in_force = "Gtc" /\ remaining # 0 =>
           BP!final_status(cmd.time_in_force, remaining, cmd.size)
             \in {"Placed", "PartiallyFilled"}
  <2>1. PICK f, r, z, st : /\ f = cmd.time_in_force /\ r = remaining /\ z = cmd.size
                           /\ st = BP!final_status(f, r, z)
    OBVIOUS
  <2>2. /\ st = BP!final_status(f, r, z) /\ f \in {"Gtc", "Ioc", "Fok"}
        /\ z # 0
    <3>1. cmd.size \in Nat /\ cmd.time_in_force \in {"Gtc", "Ioc", "Fok"}
      BY <1>2 DEF BP!Command, BP!TIFs
    <3> QED
      BY <1>2, <2>1, <3>1
  <2>3. /\ r = 0 => st = "Filled"
        /\ r # 0 /\ f = "Fok" => st = "Cancelled"
        /\ r # 0 /\ f = "Ioc" => st \in {"Cancelled", "PartiallyFilled"}
        /\ r # 0 /\ f = "Gtc" => st \in {"Placed", "PartiallyFilled"}
    BY ONLY <2>2 DEF BP!final_status
  <2>4. st # "Rejected"
    BY <2>2, <2>3
  <2> QED
    BY <2>1, <2>3, <2>4
<1>5. CASE cmd.time_in_force = "Gtc" /\ remaining > 0
  <2>1. cmd.price # 0
    BY <1>2, <1>5, MarketAssumption
  <2> QED
    BY <1>1, <1>2, <1>3, <1>4, <1>5, <2>1
<1>6. CASE ~(cmd.time_in_force = "Gtc" /\ remaining > 0)
  BY <1>1, <1>2, <1>3, <1>4, <1>6
<1> QED
  BY <1>5, <1>6

LEMMA TellsFinish ==
  ASSUME NEW said, NEW feed, NEW past, Tells(said, feed, past), BP!Totals,
         BP!IInv', BP!finish_place
  PROVE  Tells(said, feed, past)'
<1>1. /\ pc = "matching" /\ pc' = "done" /\ events' = events
      /\ last_id' = last_id
      /\ cmd'.command = "PlaceOrder" /\ cmd'.order_id = cmd.order_id
      /\ cmd'.user_id = cmd.user_id /\ cmd'.side = cmd.side
      /\ cmd'.size = remaining /\ cmd'.time_in_force = cmd.time_in_force
      /\ cmd'.status # "Rejected"
      /\ \/ /\ cmd.time_in_force = "Gtc" /\ remaining > 0
            /\ BP!add_to_book(remaining)
            /\ cmd'.status \in {"Placed", "PartiallyFilled"}
            /\ cmd'.price = cmd.price
         \/ /\ book' = book
            /\ cmd.time_in_force # "Gtc" \/ cmd'.status = "Filled"
  BY FinishSays
<1>2. PICK c, d, b, b2, l, evs : /\ c = cmd /\ d = cmd' /\ b = book
          /\ b2 = book' /\ l = last_id /\ evs = events
  OBVIOUS
<1>3. l \in Nat /\ c.order_id = l
  BY <1>1, <1>2, WaitingIds DEF BP!Totals, BP!IInv, BP!IdsInUse
<1>4. /\ SaidNow = MakerMessages(c, evs) /\ TradesNow = TradeMessages(c, evs)
      /\ SaidNow' = OrderMessages(d, evs) /\ TradesNow' = TradeMessages(d, evs)
      /\ Limit = l - 1 /\ Limit' = l
  BY <1>1, <1>2 DEF SaidNow, TradesNow, Speaks, Limit
<1>5. /\ MakerMessages(d, evs) = MakerMessages(c, evs)
      /\ TradeMessages(d, evs) = TradeMessages(c, evs)
  BY <1>1, <1>2, MessagesSame
<1>6. PICK m, now, T : m = publish_order_event(d, evs) /\ now = SaidNow
          /\ T = past \cup TradesNow
  OBVIOUS
<1>7. SaidNow' = now \cup {m} /\ past \cup TradesNow' = T
  BY <1>4, <1>5, <1>6 DEF OrderMessages
<1>8. /\ WordsTrue(now, said, feed, b, T, l - 1) /\ SizesTrue(b, T)
      /\ TradesSound(past, l - 1) /\ TradesSound(T, l)
      /\ BP!TotalSize(evs) = Traded(T, l)
  BY <1>1, <1>2, <1>3, <1>4, <1>6 DEF Tells
<1>9. /\ m.order_id = l /\ m.user_id = d.user_id /\ m.price = d.price
      /\ m.side = d.side /\ m.time_in_force = d.time_in_force
      /\ m.status = d.status /\ m.size = m.filled_size + d.size
      /\ m.filled_size = BP!TotalSize(evs)
  BY <1>1, <1>2, <1>3, <1>6, OrderMessageIs
<1>10. BP!TotalSize(evs) \in Nat
  <2>1. evs \in Seq(BP!Event)
    BY <1>2 DEF BP!Totals, BP!IInv, BP!TypeOK
  <2>2. \A i \in 1 .. Len(evs) : evs[i].size \in Nat
    <3>1. \A i \in 1 .. Len(evs) : evs[i] \in BP!Event
      BY <2>1
    <3> QED
      BY <3>1 DEF BP!Event
  <2> QED
    BY ONLY <2>1, <2>2, BP!TotalNat, BookAssumes
<1>11. remaining \in Nat /\ m.size - m.filled_size = remaining
       /\ c.size - remaining = Traded(T, l)
  <2>1. remaining \in Nat
    BY DEF BP!Totals, BP!IInv, BP!TypeOK
  <2>2. BP!TotalSize(evs) + remaining = c.size
    BY <1>1, <1>2 DEF BP!Totals, BP!Accounts
  <2> QED
    BY <1>1, <1>2, <1>8, <1>9, <1>10, <2>1, <2>2
<1>12. /\ About(now \cup {m}, l) = {m}
       /\ \A id : id # l => About(now \cup {m}, id) = About(now, id)
  <2>1. \A x \in now : x.order_id # l
    <3>1. SUFFICES ASSUME NEW k \in 1 .. Len(evs)
                   PROVE  publish_maker_order_event(c, evs[k]).order_id # l
      BY <1>4, <1>6 DEF MakerMessages
    <3>2. publish_maker_order_event(c, evs[k]).order_id = evs[k].matched_order_id
      BY MakerMessageIs
    <3>3. evs[k].matched_order_id < l
      BY <1>2, <1>3 DEF BP!Totals, BP!EventsTrue
    <3>4. evs[k].matched_order_id \in Nat
      <4>1. evs[k] \in BP!Event
        BY <1>2 DEF BP!Totals, BP!IInv, BP!TypeOK
      <4> QED
        BY <4>1 DEF BP!Event, BP!OrderIds
    <3> QED
      BY <1>3, <3>2, <3>3, <3>4
  <2> QED
    BY <1>9, <2>1 DEF About
<1>13. \A s, p, o : InBook(b, s, p, o) => o.order_id # l
  BY <1>1, <1>2, <1>3, WaitingIds
<1>14. SameBut(b, b2, l) /\ Truthful(b2, l, {m}) /\ SizesTrue(b2, T)
  <2>1. CASE /\ cmd.time_in_force = "Gtc" /\ remaining > 0
             /\ BP!add_to_book(remaining)
             /\ cmd'.status \in {"Placed", "PartiallyFilled"}
             /\ cmd'.price = cmd.price
    <3>1. BP!Totals /\ BP!IInv' /\ pc = "matching" /\ remaining > 0
          /\ cmd.time_in_force = "Gtc" /\ BP!add_to_book(remaining)
      BY <1>1, <2>1
    <3>2. BP!Longer(book, book', cmd.side, cmd.price,
                    [order_id |-> cmd.order_id, user_id |-> cmd.user_id,
                     side |-> cmd.side, size |-> remaining,
                     original_size |-> cmd.size])
      BY ONLY <3>1, BP!RestLengthens, BookAssumes
    <3>3. PICK o, r : r = remaining /\ o = [order_id |-> l, user_id |-> c.user_id,
                             side |-> c.side, size |-> r,
                             original_size |-> c.size]
      OBVIOUS
    <3>4. BP!Longer(b, b2, c.side, c.price, o)
      BY <1>2, <1>3, <3>2, <3>3
    <3>5. b \in [BP!Sides -> [Prices -> Seq(BP!Order)]]
      BY <1>2 DEF BP!Totals, BP!IInv, BP!TypeOK
    <3>6. o.order_id = l /\ o.user_id = c.user_id /\ o.size = r
          /\ o.original_size = c.size
      BY <3>3
    <3>7. /\ SameBut(b, b2, l) /\ InBook(b2, c.side, c.price, o)
          /\ \A s, p, x : InBook(b2, s, p, x) =>
               (s = c.side /\ p = c.price /\ x = o) \/ InBook(b, s, p, x)
      <4>1. /\ SameBut(b, b2, o.order_id) /\ InBook(b2, c.side, c.price, o)
            /\ \A s, p, x : InBook(b2, s, p, x) =>
                 (s = c.side /\ p = c.price /\ x = o) \/ InBook(b, s, p, x)
        BY ONLY <3>4, <3>5, OneMore
      <4> QED
        BY <3>6, <4>1
    <3>8. Open(m) /\ Describes(m, c.side, c.price, o)
      <4>1. m.status \in {"Placed", "PartiallyFilled"} /\ m.time_in_force = "Gtc"
        BY <1>1, <1>2, <1>9, <2>1
      <4>2. /\ m.order_id = l /\ m.user_id = c.user_id /\ m.price = c.price
            /\ m.side = c.side /\ m.size - m.filled_size = r
        BY <1>1, <1>2, <1>9, <1>11, <2>1, <3>3
      <4> QED
        BY <3>6, <4>1, <4>2 DEF Open, Describes
    <3>9. Truthful(b2, l, {m})
      BY <1>9, <1>13, <3>7, <3>8 DEF Truthful
    <3>10. o.original_size - o.size = Traded(T, o.order_id)
      BY <1>11, <3>3, <3>6
    <3>11. SizesTrue(b2, T)
      BY <1>8, <3>7, <3>10 DEF SizesTrue
    <3> QED
      BY <3>7, <3>9, <3>11
  <2>2. CASE book' = book /\ (cmd.time_in_force # "Gtc" \/ cmd'.status = "Filled")
    <3>1. b2 = b
      BY <1>2, <2>2
    <3>2. ~Open(m)
      BY <1>1, <1>2, <1>9, <2>2 DEF Open
    <3>3. Truthful(b, l, {m})
      BY <1>9, <1>13, <3>2, GoneTrue
    <3> QED
      BY <1>8, <3>1, <3>3 DEF SameBut
  <2> QED
    BY <1>1, <2>1, <2>2
<1>15. WordsTrue(now \cup {m}, said, feed, b2, T, l)
  <2>1. /\ l - 1 \in Int /\ l \in Int /\ l - 1 <= l /\ l <= l
        /\ WordsTrue(now, said, feed, b, T, l - 1)
        /\ SameBut(b, b2, l) /\ Truthful(b2, l, {m})
        /\ m.filled_size = Traded(T, l)
    BY <1>3, <1>8, <1>9, <1>14
  <2> QED
    BY ONLY <1>12, <2>1, WordsSpoken
<1>16. TradesSound(past, l)
  <2>1. l - 1 \in Int /\ l \in Int /\ l - 1 <= l
    BY <1>3
  <2> QED
    BY <1>8, <2>1, TradesSoundGrows
<1>17. pc' # "matching"
  BY <1>1
<1> QED
  BY <1>1, <1>2, <1>4, <1>7, <1>8, <1>14, <1>15, <1>16, <1>17 DEF Tells

LEMMA ShowsMatch ==
  ASSUME NEW pend, NEW data, NEW view, Shows(pend, data, view), BP!Totals,
         \/ BP!finish_place
         \/ BP!fill_maker \/ BP!skip_own_order \/ \E p \in Prices : BP!open_level(p)
  PROVE  Shows(pend, data, view)'
<1>1. CASE BP!finish_place
  <2>1. /\ pc' = "done" /\ cmd'.status # "Rejected"
        /\ l2' = BP!l2_snapshot(book', volume')
    BY <1>1, FinishSays
  <2> QED
    BY <2>1 DEF Shows, Speaks
<1>2. CASE BP!fill_maker \/ BP!skip_own_order \/ \E p \in Prices : BP!open_level(p)
  <2>1. pc' = "matching"
    BY <1>2 DEF BP!fill_maker, BP!skip_own_order, BP!open_level
  <2> QED
    BY <2>1 DEF Shows, Speaks
<1> QED
  BY <1>1, <1>2

-----------------------------------------------------------------------------
(* The slots between the matching engine and the events handler.           *)

DataTyped == (\E S : l2_data \in Seq(S)) /\ Len(l2_data) = published

(* A step that leaves them, and what was published, as they are.           *)
Stands ==
  /\ Pending' = Pending /\ Said' = Said /\ Past' = Past
  /\ UNCHANGED <<order_feed, book_feed>>
  /\ \A n \in Pending : l2_data'[n] = l2_data[n]

(* Slots that are behind both do not matter.                               *)
LEMMA PendingStands ==
  ASSUME Seen' = Seen, M' = M \/ (M' = M + 1 /\ M \in Nat /\ Seen \in Nat),
         M' = M + 1 => ring'[M + 1].status = "Rejected" \/ IsTransfer(ring'[M + 1]),
         \A n \in Seen + 1 .. M : /\ ring'[n] = ring[n] /\ trades'[n] = trades[n]
                                  /\ l2_data'[n] = l2_data[n],
         UNCHANGED <<order_feed, book_feed, trade_feed>>
  PROVE  Stands
<1>1. Pending' = Pending
  <2>1. CASE M' = M
    BY <2>1 DEF Pending
  <2>2. CASE M' = M + 1 /\ M \in Nat /\ Seen \in Nat
    <3>1. \A n : n \in Seen + 1 .. M + 1 <=>
                   n \in Seen + 1 .. M \/ (n = M + 1 /\ n \in Seen + 1 .. M + 1)
      BY <2>2
    <3> QED
      BY <2>2, <3>1 DEF Pending
  <2> QED
    BY <2>1, <2>2
<1>2. \A n \in Pending : /\ ring'[n] = ring[n] /\ trades'[n] = trades[n]
                         /\ l2_data'[n] = l2_data[n]
  BY DEF Pending
<1>3. Said' = Said
  BY <1>1, <1>2 DEF Said
<1>4. UNION {TradeMessages(ring'[n], trades'[n]) : n \in Pending'}
        = UNION {TradeMessages(ring[n], trades[n]) : n \in Pending}
  BY <1>1, <1>2
<1>5. Past' = Past
  BY <1>4 DEF Past
<1> QED
  BY <1>1, <1>2, <1>3, <1>5 DEF Stands

LEMMA ShowsData ==
  ASSUME NEW pend, NEW data, NEW data2, NEW view, Shows(pend, data, view)',
         \A n \in pend : data2[n] = data[n]
  PROVE  Shows(pend, data2, view)'
  BY DEF Shows

(* A step of the book that keeps said and shown true keeps the invariant.  *)
LEMMA EStands ==
  ASSUME EInv, XInv', DataTyped', Stands,
         \/ BookSame
         \/ /\ \A said, feed, past :
                 Tells(said, feed, past) => Tells(said, feed, past)'
            /\ \A pend, data, view :
                 Shows(pend, data, view) => Shows(pend, data, view)'
  PROVE  EInv'
<1>1. PICK said, feed, past, pend, data, view :
        /\ said = Said /\ feed = order_feed /\ past = Past /\ pend = Pending
        /\ data = l2_data /\ view = book_feed
  OBVIOUS
<1>2. Tells(said, feed, past) /\ Shows(pend, data, view)
  BY <1>1 DEF EInv
<1>3. Tells(said, feed, past)' /\ Shows(pend, data, view)'
  BY <1>2, TellsStill, ShowsStill
<1>4. /\ Said' = said /\ order_feed' = feed /\ Past' = past /\ Pending' = pend
      /\ book_feed' = view /\ \A n \in pend : l2_data'[n] = data[n]
  BY <1>1 DEF Stands
<1>5. Tells(Said, order_feed, Past)'
  BY <1>3, <1>4 DEF Tells
<1>6. PICK data2 : data2 = l2_data'
  OBVIOUS
<1>7. Shows(pend, data2, view)'
  BY <1>3, <1>4, <1>6, ShowsData
<1>8. Shows(Pending, l2_data, book_feed)'
  BY <1>4, <1>6, <1>7 DEF Shows
<1>9. DOMAIN order_feed' = 1 .. MaxSeq
  BY <1>1, <1>4 DEF EInv
<1> QED
  BY <1>5, <1>8, <1>9 DEF EInv, DataTyped

-----------------------------------------------------------------------------
(* The steps of Events are steps of Exchange.                              *)

LEMMA SilentIsNext == Silent => Next
  BY DEF Silent, Next, Handle, R1Step, R2Step, MatchStep

LEMMA StepIsNext ==
  ASSUME [EventsNext]_allVars
  PROVE  [Next]_vars
<1>1. CASE \E c \in Inputs : ingress(c)
  BY <1>1 DEF ingress, Next
<1>2. CASE Silent
  BY <1>2, SilentIsNext
<1>3. ASSUME NEW s \in RiskShards,
             transfer_copied(s) \/ settle_copied(s) \/ finish_copied(s)
      PROVE  Next
  <2>1. r1_transfer(s) \/ r2_settle(s) \/ r2_finish(s)
    BY <1>3 DEF transfer_copied, settle_copied, finish_copied
  <2> QED
    BY <2>1 DEF Next, Handle, R1Step, R2Step
<1>4. CASE match_attached
  BY <1>4 DEF match_attached, Next, Handle, MatchStep
<1>5. CASE events_handler
  BY <1>5 DEF events_handler, Next, Handle
<1>6. CASE Drained /\ UNCHANGED eventVars
  BY <1>6 DEF Next
<1>7. CASE UNCHANGED allVars
  BY <1>7 DEF allVars
<1> QED
  BY <1>1, <1>2, <1>3, <1>4, <1>5, <1>6, <1>7 DEF EventsNext, EventsHandle

-----------------------------------------------------------------------------
(* Steps away from the matching engine and the events handler.             *)

LEMMA BookVarsSame == ASSUME UNCHANGED bookVars PROVE BookSame
  BY DEF bookVars, BookSame

(* Nothing changes up to the slot the matching engine is at.               *)
LEMMA Offstage ==
  ASSUME EInv, XInv', BookSame, Seen' = Seen, M' = M,
         \A n \in 1 .. M : ring'[n] = ring[n] /\ trades'[n] = trades[n],
         l2_data' = l2_data, published' = published,
         UNCHANGED <<order_feed, book_feed, trade_feed>>
  PROVE  EInv'
<1>1. Seen \in Nat /\ M \in Nat
  BY Cursors, HandlersAre DEF EInv, XInv, Seen
<1>2. \A n \in Seen + 1 .. M : /\ ring'[n] = ring[n] /\ trades'[n] = trades[n]
                               /\ l2_data'[n] = l2_data[n]
  BY <1>1
<1>3. Stands
  <2>1. M' # M + 1
    BY <1>1
  <2> QED
    BY <1>2, <2>1, PendingStands
<1>4. DataTyped'
  BY DEF EInv, DataTyped
<1> QED
  BY <1>3, <1>4, EStands

(* A handler other than these two takes a slot.                            *)
LEMMA HandledOff ==
  ASSUME EInv, NEW h \in Pipe!Handlers \ {Pipe!Matching(0), Pipe!Events},
         Pipe!handle(h)
  PROVE  Seen' = Seen /\ M' = M /\ published' = published
<1>1. PP!PInv
  BY DEF EInv, XInv
<1> QED
  BY <1>1, HandlersAre, HandleFacts DEF Seen, M

(* It may rewrite a slot ahead of the matching engine.                     *)
LEMMA AheadOnly ==
  ASSUME EInv, NEW n \in Nat, M < n, NEW d,
         ring' = [ring EXCEPT ![n] = d] \/ ring' = ring, trades' = trades
  PROVE  \A k \in 1 .. M : ring'[k] = ring[k] /\ trades'[k] = trades[k]
<1>1. M \in Nat /\ M <= published /\ published \in Nat
  BY Cursors, HandlersAre DEF EInv, XInv, M
<1>2. ring \in Seq(Slot) /\ Len(ring) = published
  BY DEF EInv, XInv, RingSound
<1>3. \A k \in 1 .. M : k \in DOMAIN ring /\ k # n
  BY <1>1, <1>2
<1> QED
  BY <1>3

LEMMA DataAppended ==
  ASSUME NEW S, NEW q \in Seq(S), NEW x
  PROVE  /\ Append(q, x) \in Seq(S \cup {x}) /\ Len(Append(q, x)) = Len(q) + 1
         /\ \A i \in 1 .. Len(q) : Append(q, x)[i] = q[i]
<1>1. q \in Seq(S \cup {x}) /\ x \in S \cup {x}
  <2>1. S \subseteq S \cup {x}
    OBVIOUS
  <2>2. \A i \in 1 .. Len(q) : q[i] \in S \cup {x}
    OBVIOUS
  <2> QED
    BY <2>2
<1>2. PICK U : U = S \cup {x}
  OBVIOUS
<1>3. q \in Seq(U) /\ x \in U
  BY <1>1, <1>2
<1>4. /\ Append(q, x) \in Seq(U) /\ Len(Append(q, x)) = Len(q) + 1
      /\ \A i \in 1 .. Len(q) : Append(q, x)[i] = q[i]
  BY ONLY <1>3
<1> QED
  BY <1>2, <1>4

LEMMA EIngress ==
  ASSUME EInv, XInv', NEW c \in Inputs, ingress(c)
  PROVE  EInv'
<1>1. /\ Pipe!publish /\ ring' = Append(ring, c) /\ trades' = Append(trades, <<>>)
      /\ UNCHANGED bookVars
      /\ l2_data' = Append(l2_data, [s \in Book!Sides |-> {}])
      /\ UNCHANGED feedVars
  BY DEF ingress, publish
<1>2. published' = published + 1 /\ cursor' = cursor
  BY <1>1 DEF Pipe!publish
<1>3. Seen' = Seen /\ M' = M
  BY <1>2 DEF Seen, M
<1>4. Seen \in Nat /\ M \in Nat /\ published \in Nat /\ M <= published
  BY Cursors, HandlersAre DEF EInv, XInv, Seen, M
<1>5. PICK q, r, t, x : q = l2_data /\ r = ring /\ t = trades
                        /\ x = [s \in Book!Sides |-> {}]
  OBVIOUS
<1>6. PICK S : q \in Seq(S) /\ Len(q) = published
  BY <1>5 DEF EInv
<1>7. /\ Append(q, x) \in Seq(S \cup {x}) /\ Len(Append(q, x)) = Len(q) + 1
      /\ \A i \in 1 .. Len(q) : Append(q, x)[i] = q[i]
  BY <1>6, DataAppended
<1>8. /\ r \in Seq(Slot) /\ t \in Seq(Seq(BP!Event))
      /\ Len(r) = published /\ Len(t) = published
  BY <1>5 DEF EInv, XInv, RingSound
<1>9. /\ \A i \in 1 .. Len(r) : Append(r, c)[i] = r[i]
      /\ \A i \in 1 .. Len(t) : Append(t, <<>>)[i] = t[i]
  BY <1>8, DataAppended
<1>10. \A n \in Seen + 1 .. M : /\ ring'[n] = ring[n] /\ trades'[n] = trades[n]
                                /\ l2_data'[n] = l2_data[n]
  <2>1. \A n \in Seen + 1 .. M : n \in 1 .. published
    BY <1>4
  <2> QED
    BY <1>1, <1>5, <1>6, <1>7, <1>8, <1>9, <2>1
<1>11. Stands
  <2>1. M' # M + 1 /\ UNCHANGED <<order_feed, book_feed, trade_feed>>
    BY <1>1, <1>3, <1>4 DEF feedVars
  <2> QED
    BY <1>3, <1>10, <2>1, PendingStands
<1>12. DataTyped'
  BY <1>1, <1>2, <1>5, <1>6, <1>7 DEF DataTyped
<1> QED
  BY <1>1, <1>11, <1>12, BookVarsSame, EStands

-----------------------------------------------------------------------------
(* An order handed to the book is new there.                               *)
LEMMA PlacedIsNew ==
  ASSUME XInv, NEW n, n = M + 1, NEW c, c = ring[n],
         Pipe!available(Pipe!Matching(0)), c.status # "Rejected",
         c.command = "PlaceOrder", BP!place_order(c)
  PROVE  c \in BP!NewOrders
<1>1. /\ M \in Nat /\ published \in Nat /\ MaxSeq \in Nat
      /\ M < published /\ M < J /\ J \in Nat /\ published <= MaxSeq
      /\ \A s \in RiskShards : M < cursor[Pipe!R1(s)] /\ cursor[Pipe!R1(s)] \in Nat
  BY Barred, Cursors, HandlersAre DEF XInv
<1>2. /\ Sound(c, n, cursor) /\ c \in Waiting \cup Book!Cancels \cup Moving
  BY <1>1, AtSlot
<1>3. c \in Waiting /\ ShardOf[c.user_id] \in RiskShards
  BY <1>2, WaitingFacts
<1>4. n <= cursor[Pipe!Journaling] /\ n <= cursor[Pipe!R1(ShardOf[c.user_id])]
  BY <1>1, <1>3 DEF J
<1>5. c.order_id = n /\ ~MarketBuy(c)
  BY <1>2, <1>4 DEF Sound
<1>6. n \in last_id + 1 .. MaxSeq
  <2>1. last_id \in Nat
    BY RingAssumption DEF XInv, BP!Totals, BP!IInv, BP!TypeOK
  <2>2. pc = "idle"
    BY DEF BP!place_order
  <2>3. last_id <= M
    BY <2>2 DEF XInv, IdsAhead
  <2> QED
    BY <1>1, <2>1, <2>3
<1>7. c.price # U64MAX
  BY <1>3, <1>5 DEF MarketBuy, Waiting
<1>8. c \in Book!NewOrders
  BY <1>3, <1>5, <1>6, <1>7 DEF Waiting, Book!NewOrders
<1> QED
  BY <1>8, SameBookData
(* What these steps leave alone.                                           *)
FeedsSame ==
  /\ UNCHANGED bookVars /\ l2_data' = l2_data
  /\ UNCHANGED <<order_feed, book_feed, trade_feed>>

LEMMA FeedVarsSame ==
  ASSUME UNCHANGED eventVars \/ UNCHANGED <<l2_data, feedVars>>
  PROVE  l2_data' = l2_data /\ UNCHANGED <<order_feed, book_feed, trade_feed>>
<1>1. l2_data' = l2_data /\ UNCHANGED feedVars
  BY DEF eventVars
<1> QED
  BY <1>1 DEF feedVars

LEMMA EJournal ==
  ASSUME EInv, XInv', journal_command, FeedsSame
  PROVE  EInv'
<1>1. PICK n : n = slot(Pipe!Journaling)
  OBVIOUS
<1>2. /\ Pipe!handle(Pipe!Journaling) /\ trades' = trades
      /\ \E d : ring' = [ring EXCEPT ![n] = d] \/ ring' = ring
  BY <1>1 DEF journal_command
<1>3. n \in Nat /\ M < n
  BY <1>1, Cursors DEF EInv, XInv, slot, J
<1>4. \A k \in 1 .. M : ring'[k] = ring[k] /\ trades'[k] = trades[k]
  BY <1>2, <1>3, AheadOnly
<1>5. Seen' = Seen /\ M' = M /\ published' = published
  BY <1>2, HandlersAre, HandledOff
<1> QED
  BY <1>4, <1>5, BookVarsSame, Offstage DEF FeedsSame

LEMMA ER1 ==
  ASSUME EInv, XInv', NEW s \in RiskShards, R1Step(s), FeedsSame
  PROVE  EInv'
<1>1. PICK n : n = slot(Pipe!R1(s))
  OBVIOUS
<1>2. /\ Pipe!available(Pipe!R1(s)) /\ trades' = trades
      /\ Pipe!handle(Pipe!R1(s)) \/ UNCHANGED <<published, cursor>>
      /\ \E d : ring' = [ring EXCEPT ![n] = d] \/ ring' = ring
  <2>1. CASE r1_skip(s)
    BY <2>1 DEF r1_skip, Pipe!handle
  <2>2. CASE r1_price_market_buy(s)
    BY <1>1, <2>2 DEF r1_price_market_buy
  <2>3. CASE r1_reserve(s)
    BY <1>1, <2>3 DEF r1_reserve, Pipe!handle
  <2>4. CASE r1_transfer(s)
    BY <1>1, <2>4 DEF r1_transfer, Pipe!handle
  <2> QED
    BY <2>1, <2>2, <2>3, <2>4 DEF R1Step
<1>3. n \in Nat /\ M < n
  BY <1>1, <1>2, R1Facts DEF EInv
<1>4. \A k \in 1 .. M : ring'[k] = ring[k] /\ trades'[k] = trades[k]
  BY <1>2, <1>3, AheadOnly
<1>5. Seen' = Seen /\ M' = M /\ published' = published
  <2>1. CASE Pipe!handle(Pipe!R1(s))
    BY <2>1, HandlersAre, HandledOff
  <2>2. CASE UNCHANGED <<published, cursor>>
    BY <2>2 DEF Seen, M
  <2> QED
    BY <1>2, <2>1, <2>2
<1> QED
  BY <1>4, <1>5, BookVarsSame, Offstage DEF FeedsSame

LEMMA ER2 ==
  ASSUME EInv, XInv', NEW s \in RiskShards, R2Step(s), FeedsSame
  PROVE  EInv'
<1>1. /\ ring' = ring /\ trades' = trades
      /\ Pipe!handle(Pipe!R2(s)) \/ UNCHANGED <<published, cursor>>
  <2>1. CASE r2_settle(s)
    BY <2>1 DEF r2_settle
  <2>2. CASE r2_finish(s)
    BY <2>2 DEF r2_finish
  <2>3. CASE r2_skip(s)
    BY <2>3 DEF r2_skip
  <2> QED
    BY <2>1, <2>2, <2>3 DEF R2Step
<1>2. Seen' = Seen /\ M' = M /\ published' = published
  <2>1. CASE Pipe!handle(Pipe!R2(s))
    BY <2>1, HandlersAre, HandledOff
  <2>2. CASE UNCHANGED <<published, cursor>>
    BY <2>2 DEF Seen, M
  <2> QED
    BY <1>1, <2>1, <2>2
<1> QED
  BY <1>1, <1>2, BookVarsSame, Offstage DEF FeedsSame

LEMMA EStill ==
  ASSUME EInv, XInv', UNCHANGED vars, FeedsSame
  PROVE  EInv'
<1>1. UNCHANGED <<published, cursor, ring, trades>>
  BY DEF vars
<1>2. Seen' = Seen /\ M' = M
  BY <1>1 DEF Seen, M
<1> QED
  BY <1>1, <1>2, BookVarsSame, Offstage DEF FeedsSame

(* A command the matching engine passes by will not be published as an     *)
(* order.                                                                  *)
LEMMA EMatchSkip ==
  ASSUME EInv, XInv', match_skip, FeedsSame
  PROVE  EInv'
<1>1. /\ Pipe!handle(Pipe!Matching(0)) /\ ring' = ring /\ trades' = trades
      /\ ring[M + 1].status = "Rejected" \/ IsTransfer(ring[M + 1])
  BY DEF match_skip, MatchSlot, slot, M, IsTransfer
<1>2. /\ M' = M + 1 /\ Seen' = Seen /\ published' = published
  <2>1. PP!PInv
    BY DEF EInv, XInv
  <2> QED
    BY <1>1, <2>1, HandlersAre, HandleFacts DEF Seen, M
<1>3. M \in Nat /\ Seen \in Nat
  BY Cursors, HandlersAre DEF EInv, XInv, Seen
<1>4. Stands
  BY <1>1, <1>2, <1>3, PendingStands DEF FeedsSame
<1>5. DataTyped'
  BY <1>2 DEF EInv, DataTyped, FeedsSame
<1> QED
  BY <1>4, <1>5, BookVarsSame, EStands DEF FeedsSame

-----------------------------------------------------------------------------
(* The matching engine.                                                    *)

(* A step of the book, with the slot where it is.                          *)
LEMMA EServe ==
  ASSUME EInv, XInv', UNCHANGED <<published, cursor, ring, trades, eventVars>>,
         \A said, feed, past : Tells(said, feed, past) => Tells(said, feed, past)',
         \A pend, data, view : Shows(pend, data, view) => Shows(pend, data, view)'
  PROVE  EInv'
<1>1. l2_data' = l2_data /\ UNCHANGED <<order_feed, book_feed, trade_feed>>
  BY FeedVarsSame
<1>2. Seen' = Seen /\ M' = M
  BY DEF Seen, M
<1>3. M \in Nat
  BY Cursors DEF EInv, XInv
<1>4. Stands
  <2>1. M' # M + 1
    BY <1>2, <1>3
  <2> QED
    BY <1>1, <1>2, <2>1, PendingStands
<1>5. DataTyped'
  BY <1>1 DEF EInv, DataTyped
<1> QED
  BY <1>4, <1>5, EStands

LEMMA EProcess ==
  ASSUME EInv, XInv', process_order, UNCHANGED eventVars
  PROVE  EInv'
<1>0. XInv /\ BP!Totals
  BY DEF EInv, XInv
<1>1. PICK n : n = M + 1
  OBVIOUS
<1>2. PICK c : c = ring[n]
  OBVIOUS
<1>3. /\ Pipe!available(Pipe!Matching(0)) /\ c.status # "Rejected"
      /\ \/ c.command = "PlaceOrder" /\ BP!place_order(c)
         \/ c.command = "CancelOrder" /\ BP!cancel_order(c)
      /\ UNCHANGED <<published, cursor, ring, trades>>
  BY <1>1, <1>2, SameBookSteps DEF process_order, MatchSlot, slot, M
<1>4. c.command = "PlaceOrder" /\ BP!place_order(c) => c \in BP!NewOrders
  BY <1>0, <1>1, <1>2, <1>3, PlacedIsNew
<1>5. c.command = "CancelOrder" => c \in BP!Cancels
  <2>1. M \in Nat /\ M < published /\ published \in Nat
    BY <1>0, <1>3, Barred, Cursors DEF XInv
  <2>2. c \in Waiting \cup Book!Cancels \cup Moving
    BY <1>0, <1>1, <1>2, <2>1, AtSlot
  <2> QED
    BY <2>2, WaitingFacts, SameBookData
<1>6. ASSUME NEW said, NEW feed, NEW past, Tells(said, feed, past)
      PROVE  Tells(said, feed, past)'
  BY <1>0, <1>3, <1>4, <1>5, <1>6, TellsPlace, TellsCancel
<1>7. ASSUME NEW pend, NEW data, NEW view, Shows(pend, data, view)
      PROVE  Shows(pend, data, view)'
  BY <1>0, <1>3, <1>4, <1>5, <1>7, ShowsPlace, ShowsCancel
<1> QED
  BY <1>3, <1>6, <1>7, EServe

LEMMA EMatchStep ==
  ASSUME EInv, XInv', match_step, UNCHANGED eventVars
  PROVE  EInv'
<1>0. BP!Totals /\ BP!IInv'
  BY DEF EInv, XInv, BP!Totals
<1>1. /\ \/ \E p \in Prices : BP!open_level(p)
         \/ BP!skip_own_order \/ BP!fill_maker \/ BP!finish_place
      /\ UNCHANGED <<published, cursor, ring, trades>>
  BY SameBookSteps DEF match_step
<1>2. ASSUME NEW said, NEW feed, NEW past, Tells(said, feed, past)
      PROVE  Tells(said, feed, past)'
  <2>1. CASE (\E p \in Prices : BP!open_level(p)) \/ BP!skip_own_order
    <3>1. BookSame
      BY <2>1 DEF BP!open_level, BP!skip_own_order, BookSame
    <3> QED
      BY <1>2, <3>1, TellsStill
  <2>2. CASE BP!fill_maker
    BY <1>0, <1>2, <2>2, TellsFill
  <2>3. CASE BP!finish_place
    BY <1>0, <1>2, <2>3, TellsFinish
  <2> QED
    BY <1>1, <2>1, <2>2, <2>3
<1>3. ASSUME NEW pend, NEW data, NEW view, Shows(pend, data, view)
      PROVE  Shows(pend, data, view)'
  BY <1>0, <1>1, <1>3, ShowsMatch
<1> QED
  BY <1>1, <1>2, <1>3, EServe

LEMMA DataPut ==
  ASSUME NEW S, NEW q \in Seq(S), NEW n, NEW x
  PROVE  [q EXCEPT ![n] = x] \in Seq(S \cup {x}) /\ Len([q EXCEPT ![n] = x]) = Len(q)
<1>1. PICK r, k, U : /\ r = [q EXCEPT ![n] = x] /\ k = Len(q)
                     /\ U = S \cup {x}
  OBVIOUS
<1>2. q \in [1 .. k -> S] /\ k \in Nat
  BY <1>1
<1>3. r \in [1 .. k -> U]
  BY <1>1, <1>2
<1>4. r \in Seq(U) /\ Len(r) = k
  BY ONLY <1>2, <1>3
<1> QED
  BY <1>1, <1>4
-----------------------------------------------------------------------------
(* A command moves on from the matching engine.                            *)

LEMMA FiledFacts ==
  ASSUME EInv, match_attached
  PROVE  /\ pc = "done" /\ pc' = "idle" /\ events' = <<>>
         /\ UNCHANGED <<book, volume, last_id, order_feed, book_feed, trade_feed>>
         /\ cmd \in BP!Command
         /\ M \in Nat /\ Seen \in Nat /\ Seen <= M
         /\ M' = M + 1 /\ Seen' = Seen /\ published' = published
         /\ ring'[M + 1] = cmd /\ trades'[M + 1] = events
         /\ l2_data'[M + 1] = l2
         /\ \A k \in 1 .. M : /\ ring'[k] = ring[k] /\ trades'[k] = trades[k]
                              /\ l2_data'[k] = l2_data[k]
         /\ DataTyped'
<1>0. XInv /\ PP!PInv
  BY DEF EInv, XInv
<1>1. /\ BP!deliver /\ Pipe!handle(Pipe!Matching(0))
      /\ ring' = [ring EXCEPT ![M + 1] = cmd]
      /\ trades' = [trades EXCEPT ![M + 1] = events]
      /\ l2_data' = [l2_data EXCEPT ![M + 1] = l2]
      /\ UNCHANGED feedVars
  BY SameBookSteps DEF match_attached, match_done, MatchSlot, slot, M
<1>2. /\ pc = "done" /\ pc' = "idle" /\ events' = <<>>
      /\ UNCHANGED <<book, volume, last_id>>
  BY <1>1 DEF BP!deliver
<1>3. cmd \in BP!Command
  BY <1>0, <1>2 DEF XInv, BP!Totals, BP!IInv, BP!TypeOK
<1>4. M' = M + 1 /\ Seen' = Seen /\ published' = published /\ M < published
  BY <1>0, <1>1, HandlersAre, HandleFacts DEF M, Seen
<1>5. M \in Nat /\ Seen \in Nat /\ Seen <= M /\ published \in Nat
  BY <1>0, Cursors, HandlersAre DEF Seen
<1>6. PICK n, r, t, q : n = M + 1 /\ r = ring /\ t = trades /\ q = l2_data
  OBVIOUS
<1>7. /\ r \in Seq(Slot) /\ t \in Seq(Seq(BP!Event))
      /\ Len(r) = published /\ Len(t) = published /\ Len(q) = published
  BY <1>0, <1>6 DEF EInv, XInv, RingSound
<1>8. PICK S : q \in Seq(S)
  BY <1>6 DEF EInv
<1>9. /\ n \in 1 .. published /\ \A k \in 1 .. M : k \in 1 .. published /\ k # n
  BY <1>4, <1>5, <1>6
<1>10. /\ DOMAIN r = 1 .. published /\ DOMAIN t = 1 .. published
       /\ DOMAIN q = 1 .. published
  BY <1>7, <1>8
<1>11. /\ ring'[n] = cmd /\ trades'[n] = events /\ l2_data'[n] = l2
       /\ \A k \in 1 .. M : /\ ring'[k] = ring[k] /\ trades'[k] = trades[k]
                            /\ l2_data'[k] = l2_data[k]
  BY <1>1, <1>6, <1>9, <1>10
<1>12. DataTyped'
  <2>1. PICK x : x = l2
    OBVIOUS
  <2>2. [q EXCEPT ![n] = x] \in Seq(S \cup {x}) /\ Len([q EXCEPT ![n] = x]) = Len(q)
    BY <1>8, DataPut
  <2>3. l2_data' = [q EXCEPT ![n] = x]
    BY <1>1, <1>6, <2>1
  <2> QED
    BY <1>4, <1>7, <2>2, <2>3 DEF DataTyped
<1> QED
  BY <1>1, <1>2, <1>3, <1>4, <1>5, <1>6, <1>11, <1>12 DEF feedVars

LEMMA EAttachedRejected ==
  ASSUME EInv, XInv', match_attached, ~Speaks
  PROVE  EInv'
<1>1. /\ pc = "done" /\ pc' = "idle" /\ events' = <<>>
      /\ UNCHANGED <<book, volume, last_id, order_feed, book_feed, trade_feed>>
      /\ M \in Nat /\ Seen \in Nat /\ Seen <= M
      /\ M' = M + 1 /\ Seen' = Seen
      /\ ring'[M + 1] = cmd
      /\ \A k \in 1 .. M : /\ ring'[k] = ring[k] /\ trades'[k] = trades[k]
                           /\ l2_data'[k] = l2_data[k]
      /\ DataTyped'
  BY FiledFacts
<1>2. Stands
  <2>1. ring'[M + 1].status = "Rejected"
    BY <1>1 DEF Speaks
  <2>2. \A n \in Seen + 1 .. M : /\ ring'[n] = ring[n] /\ trades'[n] = trades[n]
                                 /\ l2_data'[n] = l2_data[n]
    BY <1>1
  <2> QED
    BY <1>1, <2>1, <2>2, PendingStands
<1>3. /\ SaidNow = {} /\ SaidNow' = {} /\ TradesNow = {} /\ TradesNow' = {}
      /\ Limit' = Limit /\ ~Speaks' /\ pc # "matching" /\ pc' # "matching"
  BY <1>1 DEF SaidNow, TradesNow, Limit, Speaks
<1>4. ASSUME NEW said, NEW feed, NEW past, Tells(said, feed, past)
      PROVE  Tells(said, feed, past)'
  BY <1>1, <1>3, <1>4 DEF Tells
<1>5. ASSUME NEW pend, NEW data, NEW view, Shows(pend, data, view)
      PROVE  Shows(pend, data, view)'
  BY <1>1, <1>3, <1>5 DEF Shows
<1> QED
  BY <1>1, <1>2, <1>4, <1>5, EStands

LEMMA EAttached ==
  ASSUME EInv, XInv', match_attached, Speaks
  PROVE  EInv'
<1>1. /\ pc = "done" /\ pc' = "idle" /\ events' = <<>>
      /\ UNCHANGED <<book, volume, last_id, order_feed, book_feed, trade_feed>>
      /\ cmd \in BP!Command
      /\ M \in Nat /\ Seen \in Nat /\ Seen <= M
      /\ M' = M + 1 /\ Seen' = Seen
      /\ ring'[M + 1] = cmd /\ trades'[M + 1] = events
      /\ l2_data'[M + 1] = l2
      /\ \A k \in 1 .. M : /\ ring'[k] = ring[k] /\ trades'[k] = trades[k]
                           /\ l2_data'[k] = l2_data[k]
      /\ DataTyped'
  BY FiledFacts
<1>2. PICK n, now, T, said, feed, past : n = M + 1 /\ now = SaidNow
        /\ T = TradesNow /\ said = Said /\ feed = order_feed /\ past = Past
  OBVIOUS
<1>3. Pending' = Pending \cup {n} /\ \A k \in Pending : k \in 1 .. M
  <2>1. ring'[n].status # "Rejected" /\ ~IsTransfer(ring'[n])
    BY <1>1, <1>2 DEF Speaks, IsTransfer, BP!Command
  <2>2. \A k : k \in Seen' + 1 .. M' <=> k \in Seen + 1 .. M \/ k = n
    BY <1>1, <1>2
  <2>3. \A k \in Seen + 1 .. M : k \in 1 .. M
    BY <1>1
  <2>4. \A k \in Seen + 1 .. M : ring'[k] = ring[k]
    BY <1>1, <2>3
  <2> QED
    BY <2>1, <2>2, <2>3, <2>4 DEF Pending
<1>4. /\ SaidNow' = {} /\ TradesNow' = {} /\ Limit' = last_id /\ Limit = last_id
      /\ ~Speaks' /\ pc' # "matching"
      /\ now = OrderMessages(cmd, events) /\ T = TradeMessages(cmd, events)
  BY <1>1, <1>2 DEF SaidNow, TradesNow, Limit, Speaks
<1>5. PICK said2 : said2 = Said'
  OBVIOUS
<1>6. /\ DOMAIN said2 = DOMAIN said \cup {n} /\ said2[n] = now
      /\ \A k \in DOMAIN said : said2[k] = said[k]
      /\ \A k \in DOMAIN said : k \in Nat /\ k < n
      /\ n \in Nat
  <2>1. /\ DOMAIN said2 = DOMAIN said \cup {n}
        /\ \A k \in DOMAIN said : k \in 1 .. M /\ k \in Pending
    BY <1>2, <1>3, <1>5 DEF Said
  <2>2. said2[n] = now
    BY <1>1, <1>2, <1>3, <1>4, <1>5 DEF Said
  <2>3. \A k \in DOMAIN said : said2[k] = said[k]
    BY <1>1, <1>2, <1>3, <1>5, <2>1 DEF Said
  <2> QED
    BY <1>1, <1>2, <2>1, <2>2, <2>3
<1>7. Past' = past \cup T
  <2>1. TradeMessages(ring'[n], trades'[n]) = T
    BY <1>1, <1>2, <1>4
  <2>2. \A k \in Pending : TradeMessages(ring'[k], trades'[k])
                             = TradeMessages(ring[k], trades[k])
    BY <1>1, <1>3
  <2>3. \A x : x \in Past' <=>
          x \in trade_feed' \/ \E k \in Pending' : x \in TradeMessages(ring'[k], trades'[k])
    BY DEF Past
  <2>4. \A x : x \in past <=>
          x \in trade_feed \/ \E k \in Pending : x \in TradeMessages(ring[k], trades[k])
    BY <1>2 DEF Past
  <2>5. trade_feed' = trade_feed
    BY <1>1
  <2>6. \A x : x \in Past' <=> x \in past \/ x \in T
    BY ONLY <1>3, <2>1, <2>2, <2>3, <2>4, <2>5
  <2> QED
    BY <2>6
<1>8. PICK b, l : b = book /\ l = last_id
  OBVIOUS
<1>9. /\ WordsTrue(now, said, feed, b, past \cup T, l)
      /\ TradesSound(past \cup T, l) /\ SizesTrue(b, past \cup T)
  BY <1>2, <1>4, <1>8 DEF EInv, Tells
<1>10. WordsTrue({}, said2, feed, b, past \cup T, l)
  <2>1. \A id \in 1 .. MaxSeq : \A W :
          Heard({}, said2, feed, id, W) => Heard(now, said, feed, id, W)
    BY ONLY <1>6, HeardFiled
  <2> QED
    BY <1>9, <2>1, WordsKept
<1>11. Tells(Said, order_feed, Past)'
  <2>1. past \cup T = Past' \cup TradesNow'
    BY <1>4, <1>7
  <2> QED
    BY <1>1, <1>2, <1>4, <1>5, <1>7, <1>8, <1>9, <1>10, <2>1 DEF Tells
<1>12. Shows(Pending, l2_data, book_feed)'
  <2>1. l2 = BP!l2_snapshot(book, volume)
    BY DEF EInv, Shows
  <2>2. l2_data'[n] = BP!l2_snapshot(book', volume')
    BY <1>1, <1>2, <2>1
  <2>3. \A k \in Pending' : (\A j \in Pending' : j <= k) => k = n
    <3>1. \A k \in Pending : k \in Nat /\ k < n
      BY <1>1, <1>2, <1>3
    <3>2. n \in Nat
      BY <1>6
    <3> QED
      BY <1>3, <3>1, <3>2
  <2>4. Pending' # {}
    BY <1>3
  <2> QED
    BY <1>4, <2>2, <2>3, <2>4 DEF Shows
<1>13. DOMAIN order_feed' = 1 .. MaxSeq
  BY <1>1 DEF EInv
<1> QED
  BY <1>1, <1>11, <1>12, <1>13 DEF EInv, DataTyped

-----------------------------------------------------------------------------
(* The events handler publishes the oldest slot.                           *)

LEMMA PublishedFacts ==
  ASSUME EInv, events_handler
  PROVE  LET n == Seen + 1
         IN /\ BookSame
            /\ M \in Nat /\ Seen \in Nat /\ n \in 1 .. M
            /\ M' = M /\ Seen' = n /\ published' = published
            /\ \A k \in n + 1 .. M : /\ ring'[k] = ring[k] /\ trades'[k] = trades[k]
                                     /\ l2_data'[k] = l2_data[k]
            /\ DataTyped'
            /\ IF ring[n].status # "Rejected" /\ ~IsTransfer(ring[n])
               THEN publish_orders(n)
               ELSE UNCHANGED <<order_feed, trade_feed, book_feed>>
<1>0. XInv /\ PP!PInv
  BY DEF EInv, XInv
<1>1. PICK n : n = Seen + 1
  OBVIOUS
<1>2. /\ Pipe!handle(Pipe!Events)
      /\ ring' = [ring EXCEPT ![n] = Free] /\ trades' = [trades EXCEPT ![n] = <<>>]
      /\ UNCHANGED bookVars
      /\ l2_data' = [l2_data EXCEPT ![n] = [s \in Book!Sides |-> {}]]
      /\ IF ring[n].status # "Rejected" /\ ~IsTransfer(ring[n])
         THEN publish_orders(n)
         ELSE UNCHANGED <<order_feed, trade_feed, book_feed>>
  <2>1. n = slot(Pipe!Events)
    BY <1>1 DEF slot, Seen
  <2> QED
    BY <2>1 DEF events_handler, handle_processed_command, publish_transfer
<1>3. /\ M' = M /\ Seen' = n /\ published' = published
      /\ Pipe!available(Pipe!Events)
  BY <1>0, <1>1, <1>2, HandlersAre, HandleFacts DEF M, Seen
<1>4. /\ M \in Nat /\ Seen \in Nat /\ Seen < M /\ published \in Nat
      /\ M <= published
  BY <1>0, <1>3, Cursors, Barred, HandlersAre DEF Seen, M
<1>5. PICK r, t, q : r = ring /\ t = trades /\ q = l2_data
  OBVIOUS
<1>6. /\ r \in Seq(Slot) /\ t \in Seq(Seq(BP!Event))
      /\ Len(r) = published /\ Len(t) = published /\ Len(q) = published
  BY <1>0, <1>5 DEF EInv, XInv, RingSound
<1>7. PICK S : q \in Seq(S)
  BY <1>5 DEF EInv
<1>8. \A k \in n + 1 .. M : k \in 1 .. published /\ k # n
  BY <1>1, <1>4
<1>9. /\ DOMAIN r = 1 .. published /\ DOMAIN t = 1 .. published
      /\ DOMAIN q = 1 .. published
  BY <1>6, <1>7
<1>10. \A k \in n + 1 .. M : /\ ring'[k] = ring[k] /\ trades'[k] = trades[k]
                             /\ l2_data'[k] = l2_data[k]
  BY <1>2, <1>5, <1>8, <1>9
<1>11. DataTyped'
  <2>1. PICK x : x = [s \in Book!Sides |-> {}]
    OBVIOUS
  <2>2. [q EXCEPT ![n] = x] \in Seq(S \cup {x}) /\ Len([q EXCEPT ![n] = x]) = Len(q)
    BY <1>7, DataPut
  <2>3. l2_data' = [q EXCEPT ![n] = x]
    BY <1>2, <1>5, <2>1
  <2> QED
    BY <1>3, <1>6, <2>2, <2>3 DEF DataTyped
<1>12. BookSame
  BY <1>2, BookVarsSame
<1> QED
  BY <1>1, <1>2, <1>3, <1>4, <1>10, <1>11, <1>12

(* A slot with nothing for the topics of orders.                           *)
LEMMA EPassed ==
  ASSUME EInv, XInv', events_handler, Seen + 1 \notin Pending
  PROVE  EInv'
<1>1. PICK n : n = Seen + 1
  OBVIOUS
<1>2. /\ BookSame /\ M \in Nat /\ Seen \in Nat /\ n \in 1 .. M
      /\ M' = M /\ Seen' = n /\ published' = published
      /\ \A k \in n + 1 .. M : /\ ring'[k] = ring[k] /\ trades'[k] = trades[k]
                               /\ l2_data'[k] = l2_data[k]
      /\ DataTyped'
      /\ IF ring[n].status # "Rejected" /\ ~IsTransfer(ring[n])
         THEN publish_orders(n)
         ELSE UNCHANGED <<order_feed, trade_feed, book_feed>>
  BY <1>1, PublishedFacts
<1>3. UNCHANGED <<order_feed, trade_feed, book_feed>>
  BY <1>1, <1>2 DEF Pending
<1>4. Pending' = Pending /\ \A k \in Pending : k \in n + 1 .. M
  <2>1. \A k \in Seen + 1 .. M : k # n => k \in n + 1 .. M
    BY <1>1, <1>2
  <2>2. \A k \in n + 1 .. M : k \in Seen + 1 .. M /\ k # n
    BY <1>1, <1>2
  <2>3. \A k \in Pending : k \in Seen + 1 .. M /\ k # n
    BY <1>1 DEF Pending
  <2> QED
    BY <1>2, <2>1, <2>2, <2>3 DEF Pending
<1>5. \A k \in Pending : /\ ring'[k] = ring[k] /\ trades'[k] = trades[k]
                         /\ l2_data'[k] = l2_data[k]
  BY <1>2, <1>4
<1>6. Said' = Said
  BY <1>4, <1>5 DEF Said
<1>7. Past' = Past
  <2>1. UNION {TradeMessages(ring'[k], trades'[k]) : k \in Pending'}
          = UNION {TradeMessages(ring[k], trades[k]) : k \in Pending}
    BY <1>4, <1>5
  <2> QED
    BY <1>3, <2>1 DEF Past
<1>8. Stands
  BY <1>3, <1>4, <1>5, <1>6, <1>7 DEF Stands
<1> QED
  BY <1>2, <1>8, EStands

LEMMA EPublished ==
  ASSUME EInv, XInv', events_handler, Seen + 1 \in Pending
  PROVE  EInv'
<1>1. PICK n : n = Seen + 1
  OBVIOUS
<1>2. /\ BookSame /\ M \in Nat /\ Seen \in Nat /\ n \in 1 .. M
      /\ M' = M /\ Seen' = n /\ published' = published
      /\ \A k \in n + 1 .. M : /\ ring'[k] = ring[k] /\ trades'[k] = trades[k]
                               /\ l2_data'[k] = l2_data[k]
      /\ DataTyped'
      /\ IF ring[n].status # "Rejected" /\ ~IsTransfer(ring[n])
         THEN publish_orders(n)
         ELSE UNCHANGED <<order_feed, trade_feed, book_feed>>
  BY <1>1, PublishedFacts
<1>3. PICK said, said2, feed, feed2, past, w :
        /\ said = Said /\ said2 = Said' /\ feed = order_feed
        /\ feed2 = order_feed' /\ past = Past /\ w = OrderMessages(ring[n], trades[n])
  OBVIOUS
<1>4. /\ order_feed' = [id \in DOMAIN order_feed |->
           Newest({m \in w : m.order_id = id}, order_feed[id])]
      /\ trade_feed' = trade_feed \cup TradeMessages(ring[n], trades[n])
      /\ book_feed' = l2_data[n]
  BY <1>1, <1>2, <1>3 DEF Pending, publish_orders
<1>5. /\ Pending' = Pending \ {n} /\ n \in Pending
      /\ \A k \in Pending' : k \in n + 1 .. M
      /\ \A k \in Pending : k \in Nat /\ n <= k
  <2>1. \A k \in Seen + 1 .. M : (k # n => k \in n + 1 .. M) /\ k \in Nat /\ n <= k
    BY <1>1, <1>2
  <2>2. \A k \in n + 1 .. M : k \in Seen + 1 .. M /\ k # n
    BY <1>1, <1>2
  <2> QED
    BY <1>1, <1>2, <2>1, <2>2 DEF Pending
<1>6. \A k \in Pending' : /\ ring'[k] = ring[k] /\ trades'[k] = trades[k]
                          /\ l2_data'[k] = l2_data[k]
  BY <1>2, <1>5
<1>7. /\ n \in DOMAIN said /\ \A k \in DOMAIN said : k \in Nat /\ n <= k
      /\ DOMAIN said2 = DOMAIN said \ {n}
      /\ \A k \in DOMAIN said2 : said2[k] = said[k]
      /\ said[n] = w
  <2>1. DOMAIN said = Pending /\ DOMAIN said2 = Pending'
    BY <1>3 DEF Said
  <2>2. \A k \in Pending' : said2[k] = said[k]
    BY <1>3, <1>5, <1>6 DEF Said
  <2>3. said[n] = w
    BY <1>3, <1>5 DEF Said
  <2> QED
    BY <1>5, <2>1, <2>2, <2>3
<1>8. /\ DOMAIN feed = 1 .. MaxSeq /\ DOMAIN feed2 = 1 .. MaxSeq
      /\ \A id \in 1 .. MaxSeq : feed2[id] = Newest(About(said[n], id), feed[id])
  <2>1. DOMAIN order_feed = 1 .. MaxSeq
    BY DEF EInv
  <2> QED
    BY <1>3, <1>4, <1>7, <2>1 DEF About
<1>9. Past' = past
  <2>1. \A x : x \in Past' <=>
          x \in trade_feed' \/ \E k \in Pending' : x \in TradeMessages(ring'[k], trades'[k])
    BY DEF Past
  <2>2. \A x : x \in past <=>
          x \in trade_feed \/ \E k \in Pending : x \in TradeMessages(ring[k], trades[k])
    BY <1>3 DEF Past
  <2>3. \A k \in Pending' : TradeMessages(ring'[k], trades'[k])
                              = TradeMessages(ring[k], trades[k])
    BY <1>6
  <2>4. \A x : x \in trade_feed' <=>
          x \in trade_feed \/ x \in TradeMessages(ring[n], trades[n])
    BY <1>4
  <2>5. \A x : x \in Past' <=> x \in past
    BY ONLY <1>5, <2>1, <2>2, <2>3, <2>4
  <2> QED
    BY <2>5
<1>10. Tells(said, feed, past)'
  BY <1>2, <1>3, TellsStill DEF EInv
<1>11. Tells(Said, order_feed, Past)'
  <2>1. PICK now, b, T, l : now = SaidNow' /\ b = book'
                            /\ T = past \cup TradesNow' /\ l = Limit'
    OBVIOUS
  <2>2. WordsTrue(now, said, feed, b, T, l)
    BY <1>10, <2>1 DEF Tells
  <2>3. \A id \in 1 .. MaxSeq : \A W :
          Heard(now, said2, feed2, id, W) => Heard(now, said, feed, id, W)
    BY ONLY <1>7, <1>8, HeardPublished
  <2>4. WordsTrue(now, said2, feed2, b, T, l)
    BY <2>2, <2>3, WordsKept
  <2> QED
    BY <1>3, <1>9, <1>10, <2>1, <2>4 DEF Tells
<1>12. Shows(Pending, l2_data, book_feed)'
  <2>1. PICK pend, data, view, pend2, data2 : pend = Pending /\ data = l2_data
          /\ view = book_feed /\ pend2 = Pending' /\ data2 = l2_data'
    OBVIOUS
  <2>2. Shows(pend, data, view)'
    BY <1>2, <2>1, ShowsStill DEF EInv
  <2>3. /\ pend2 = pend \ {n} /\ n \in pend
        /\ \A k \in pend : k \in Nat /\ n <= k
        /\ \A k \in pend2 : data2[k] = data[k]
    BY <1>5, <1>6, <2>1
  <2>4. pend2 = {} => \A k \in pend : k <= n
    BY <2>3
  <2>5. \A k \in pend2 : (\A j \in pend2 : j <= k) =>
          k \in pend /\ \A j \in pend : j <= k
    BY <2>3
  <2>6. Shows(pend2, data2, data[n])'
    BY <2>2, <2>3, <2>4, <2>5 DEF Shows
  <2> QED
    BY <1>4, <2>1, <2>6 DEF Shows
<1> QED
  BY <1>2, <1>3, <1>8, <1>11, <1>12 DEF EInv, DataTyped

-----------------------------------------------------------------------------
(* The theorems.                                                           *)

LEMMA EInit == EventsInit => EInv
<1> SUFFICES ASSUME EventsInit PROVE EInv
  OBVIOUS
<1>1. /\ Init /\ l2_data = <<>> /\ order_feed = [id \in 1 .. MaxSeq |-> {}]
      /\ trade_feed = {} /\ book_feed = [s \in Book!Sides |-> {}]
  BY DEF EventsInit
<1>2. Pipe!Init /\ BP!Init
  BY <1>1, SameBookData DEF Init
<1>3. /\ book = [s \in BP!Sides |-> [p \in Prices |-> <<>>]]
      /\ pc = "idle" /\ last_id = 0 /\ events = <<>>
  BY <1>2 DEF BP!Init
<1>4. XInv /\ published = 0 /\ Seen = 0 /\ M = 0
  BY <1>1, <1>2, XInit, HandlersAre DEF Pipe!Init, Seen, M
<1>5. Pending = {}
  BY <1>4 DEF Pending
<1>6. Past = {} /\ SaidNow = {} /\ TradesNow = {} /\ Limit = 0 /\ DOMAIN Said = {}
  BY <1>1, <1>3, <1>5 DEF Past, SaidNow, TradesNow, Limit, Said, Speaks
<1>7. Past \cup TradesNow = {}
  BY <1>6
<1>8. \A s, p, o : ~InBook(book, s, p, o)
  BY <1>3 DEF InBook
<1>9. WordsTrue({}, Said, order_feed, book, {}, 0)
  <2> SUFFICES ASSUME NEW id \in 1 .. MaxSeq, NEW W,
                      Heard({}, Said, order_feed, id, W)
               PROVE  W = {} /\ Truthful(book, id, W)
    BY DEF WordsTrue
  <2>1. W = {}
    BY <1>1, <1>6 DEF Heard, About
  <2> QED
    BY <1>8, <2>1 DEF Truthful
<1>10. TradesSound({}, 0) /\ SizesTrue(book, {})
  BY <1>8, FS_EmptySet DEF TradesSound, SizesTrue
<1>11. Tells(Said, order_feed, Past)
  BY <1>3, <1>6, <1>7, <1>9, <1>10 DEF Tells
<1>12. book_feed = BP!l2_snapshot(book, volume)
  <2>1. \A s \in BP!Sides : BP!Levels(book, s) = {}
    BY <1>3 DEF BP!Levels
  <2> QED
    BY <1>1, <2>1, SameBookData DEF BP!l2_snapshot
<1>13. Shows(Pending, l2_data, book_feed)
  BY <1>3, <1>5, <1>12 DEF Shows, Speaks
<1>14. (\E S : l2_data \in Seq(S)) /\ Len(l2_data) = published
  BY <1>1, <1>4
<1> QED
  BY <1>1, <1>4, <1>11, <1>13, <1>14 DEF EInv

LEMMA ENext == EInv /\ [EventsNext]_allVars => EInv'
<1> SUFFICES ASSUME EInv, [EventsNext]_allVars PROVE EInv'
  OBVIOUS
<1>0. XInv'
  BY StepIsNext, XNext DEF EInv, GoodStep
<1>1. CASE \E c \in Inputs : ingress(c)
  BY <1>0, <1>1, EIngress
<1>2. CASE Silent
  <2>1. UNCHANGED eventVars
    BY <1>2 DEF Silent
  <2>2. UNCHANGED bookVars => FeedsSame
    BY <2>1, FeedVarsSame DEF FeedsSame
  <2>3. CASE journal_command
    BY <1>0, <2>2, <2>3, EJournal DEF journal_command
  <2>4. ASSUME NEW s \in RiskShards,
               r1_skip(s) \/ r1_price_market_buy(s) \/ r1_reserve(s)
        PROVE  EInv'
    <3>1. UNCHANGED bookVars /\ R1Step(s)
      BY <2>4 DEF r1_skip, r1_price_market_buy, r1_reserve, R1Step
    <3> QED
      BY <1>0, <2>2, <3>1, ER1
  <2>5. ASSUME NEW s \in RiskShards, r2_skip(s) PROVE EInv'
    <3>1. UNCHANGED bookVars /\ R2Step(s)
      BY <2>5 DEF r2_skip, R2Step
    <3> QED
      BY <1>0, <2>2, <3>1, ER2
  <2>6. CASE match_skip
    BY <1>0, <2>2, <2>6, EMatchSkip DEF match_skip
  <2>7. CASE process_order
    BY <1>0, <2>1, <2>7, EProcess
  <2>8. CASE match_step
    BY <1>0, <2>1, <2>8, EMatchStep
  <2> QED
    BY <1>2, <2>3, <2>4, <2>5, <2>6, <2>7, <2>8 DEF Silent
<1>3. ASSUME NEW s \in RiskShards, transfer_copied(s) PROVE EInv'
  <2>1. R1Step(s) /\ UNCHANGED bookVars /\ UNCHANGED <<l2_data, feedVars>>
    BY <1>3 DEF transfer_copied, r1_transfer, R1Step
  <2> QED
    BY <1>0, <2>1, FeedVarsSame, ER1 DEF FeedsSame
<1>4. ASSUME NEW s \in RiskShards, settle_copied(s) \/ finish_copied(s)
      PROVE  EInv'
  <2>1. R2Step(s) /\ UNCHANGED bookVars /\ UNCHANGED <<l2_data, feedVars>>
    BY <1>4 DEF settle_copied, finish_copied, r2_settle, r2_finish, R2Step
  <2> QED
    BY <1>0, <2>1, FeedVarsSame, ER2 DEF FeedsSame
<1>5. CASE match_attached
  BY <1>0, <1>5, EAttached, EAttachedRejected
<1>6. CASE events_handler
  BY <1>0, <1>6, EPassed, EPublished
<1>7. CASE (Drained /\ UNCHANGED eventVars) \/ UNCHANGED allVars
  <2>1. UNCHANGED vars /\ UNCHANGED eventVars
    BY <1>7 DEF Drained, allVars
  <2>2. UNCHANGED bookVars
    BY <2>1 DEF vars
  <2> QED
    BY <1>0, <2>1, <2>2, FeedVarsSame, EStill DEF FeedsSame
<1> QED
  BY <1>1, <1>2, <1>3, <1>4, <1>5, <1>6, <1>7 DEF EventsNext, EventsHandle

(* The events handler only adds to the exchange: with the topics left out, *)
(* what Events does is what Exchange does, so all that is proved of the    *)
(* exchange holds when its commands are published.                         *)
THEOREM EventsRefineExchange == EventsSpec => Spec
<1>1. EventsInit => Init
  BY DEF EventsInit
<1>2. [EventsNext]_allVars => [Next]_vars
  BY StepIsNext
<1> QED
  BY <1>1, <1>2, PTL DEF EventsSpec, Spec

(* At every moment the newest word about each order, published or still on *)
(* its way, is true of the book.                                           *)
THEOREM EventsInvariant == EventsSpec => []EInv
<1>1. EventsInit => EInv
  BY EInit
<1>2. EInv /\ [EventsNext]_allVars => EInv'
  BY ENext
<1> QED
  BY <1>1, <1>2, PTL DEF EventsSpec

(* Once the pipeline is drained, all words are in the feed.                *)
LEMMA AllPublished ==
  ASSUME EInv, Quiet
  PROVE  /\ DOMAIN order_feed = 1 .. MaxSeq
         /\ \A id \in 1 .. MaxSeq :
              /\ Truthful(book, id, order_feed[id])
              /\ \A m \in order_feed[id] : m.filled_size = Traded(trade_feed, id)
         /\ book_feed = BP!l2_snapshot(book, volume)
<1>1. /\ M = published /\ Seen = published /\ published \in Nat
  BY HandlersAre, Cursors DEF EInv, XInv, Quiet, M, Seen
<1>2. pc = "idle"
  BY <1>1 DEF EInv, XInv, IdsAhead
<1>3. Pending = {}
  BY <1>1 DEF Pending
<1>4. /\ SaidNow = {} /\ DOMAIN Said = {} /\ Past \cup TradesNow = trade_feed
  BY <1>2, <1>3 DEF SaidNow, TradesNow, Said, Past, Speaks
<1>5. ASSUME NEW id \in 1 .. MaxSeq
      PROVE  /\ Truthful(book, id, order_feed[id])
             /\ \A m \in order_feed[id] : m.filled_size = Traded(trade_feed, id)
  <2>1. Heard(SaidNow, Said, order_feed, id, order_feed[id])
    BY <1>4 DEF Heard, About
  <2>2. WordsTrue(SaidNow, Said, order_feed, book, trade_feed, Limit)
    BY <1>4 DEF EInv, Tells
  <2> QED
    BY <2>1, <2>2 DEF WordsTrue
<1>6. book_feed = BP!l2_snapshot(book, volume)
  BY <1>2, <1>3 DEF EInv, Shows, Speaks
<1> QED
  BY <1>5, <1>6 DEF EInv

(* A reader of the topic orders knows the book.                            *)
THEOREM OrderFeedIsBook == EventsSpec => []OrderFeedMatchesBook
<1>1. EInv => OrderFeedMatchesBook
  <2> SUFFICES ASSUME EInv, Quiet
               PROVE  OrderFeedMatchesBook
    BY DEF OrderFeedMatchesBook
  <2> DEFINE Msgs == UNION {order_feed[id] : id \in DOMAIN order_feed}
             Rec(m) == [order_id |-> m.order_id, user_id |-> m.user_id,
                        price |-> m.price, side |-> m.side,
                        size |-> m.size - m.filled_size]
             Row(s, p, o) == [order_id |-> o.order_id, user_id |-> o.user_id,
                              price |-> p, side |-> s, size |-> o.size]
  <2>1. /\ DOMAIN order_feed = 1 .. MaxSeq
        /\ \A id \in 1 .. MaxSeq : Truthful(book, id, order_feed[id])
    BY AllPublished
  <2>2. \A id \in DOMAIN order_feed : Cardinality(order_feed[id]) <= 1
    <3> SUFFICES ASSUME NEW id \in 1 .. MaxSeq
                 PROVE  Cardinality(order_feed[id]) <= 1
      BY <2>1
    <3>1. PICK W : W = order_feed[id]
      OBVIOUS
    <3>2. \A m, k \in W : m = k
      BY <2>1, <3>1 DEF Truthful
    <3>3. CASE W = {}
      <4>1. Cardinality(W) = 0
        BY <3>3, FS_EmptySet
      <4> QED
        BY <3>1, <4>1
    <3>4. CASE W # {}
      <4>1. PICK m : W = {m}
        BY <3>2, <3>4
      <4>2. Cardinality(W) = 1
        BY <4>1, FS_Singleton
      <4> QED
        BY <3>1, <4>2
    <3> QED
      BY <3>3, <3>4
  <2>3. ASSUME NEW m \in Msgs, Open(m)
        PROVE  \E s, p, o : InBook(book, s, p, o) /\ Rec(m) = Row(s, p, o)
    <3>1. PICK id \in 1 .. MaxSeq : m \in order_feed[id]
      BY <2>1
    <3>2. PICK s, p, o : InBook(book, s, p, o) /\ Describes(m, s, p, o)
      BY <2>1, <2>3, <3>1 DEF Truthful
    <3> QED
      BY <3>2 DEF Describes
  <2>4. ASSUME NEW s, NEW p, NEW o, InBook(book, s, p, o)
        PROVE  \E m \in Msgs : Open(m) /\ Rec(m) = Row(s, p, o)
    <3>1. o.order_id \in 1 .. MaxSeq
      BY <2>4, WaitingIds DEF EInv, XInv
    <3>2. PICK m \in order_feed[o.order_id] : Open(m) /\ Describes(m, s, p, o)
      BY <2>1, <2>4, <3>1 DEF Truthful
    <3>3. m \in Msgs
      BY <2>1, <3>1
    <3> QED
      BY <3>2, <3>3 DEF Describes
  <2>5. \A s, p, o : InBook(book, s, p, o) <=>
          /\ s \in Book!Sides /\ p \in Prices
          /\ o \in {book[s][p][i] : i \in 1 .. Len(book[s][p])}
    BY SameBookData DEF InBook
  <2> DEFINE Rests(s, p) == {book[s][p][i] : i \in 1 .. Len(book[s][p])}
             Rows(s, p)  == {Row(s, p, o) : o \in Rests(s, p)}
             Shown       == {Rec(m) : m \in {x \in Msgs : Open(x)}}
             Held        == UNION {Rows(s, p) : s \in Book!Sides, p \in Prices}
  <2> HIDE DEF Msgs, Rec, Row, Rests
  <2>a. \A x : x \in Shown <=> \E m \in Msgs : Open(m) /\ x = Rec(m)
    OBVIOUS
  <2>b. \A s, p, x : x \in Rows(s, p) <=> \E o \in Rests(s, p) : x = Row(s, p, o)
    OBVIOUS
  <2> HIDE DEF Rows
  <2>c. \A x : x \in Held <=>
          \E s \in Book!Sides, p \in Prices : x \in Rows(s, p)
    OBVIOUS
  <2>d. \A s, p, o : InBook(book, s, p, o) <=>
          s \in Book!Sides /\ p \in Prices /\ o \in Rests(s, p)
    BY <2>5 DEF Rests
  <2> HIDE DEF Shown, Held
  <2>6. Shown = Held
    <3>1. ASSUME NEW x \in Shown PROVE x \in Held
      <4>1. PICK m \in Msgs : Open(m) /\ x = Rec(m)
        BY <2>a, <3>1
      <4>2. PICK s, p, o : InBook(book, s, p, o) /\ Rec(m) = Row(s, p, o)
        BY <2>3, <4>1
      <4>3. s \in Book!Sides /\ p \in Prices /\ o \in Rests(s, p)
        BY <2>d, <4>2
      <4>4. x \in Rows(s, p)
        BY <2>b, <4>1, <4>2, <4>3
      <4> QED
        BY <2>c, <4>3, <4>4
    <3>2. ASSUME NEW x \in Held PROVE x \in Shown
      <4>1. PICK s \in Book!Sides, p \in Prices : x \in Rows(s, p)
        BY <2>c, <3>2
      <4>2. PICK o \in Rests(s, p) : x = Row(s, p, o)
        BY <2>b, <4>1
      <4>3. InBook(book, s, p, o)
        BY <2>d, <4>1, <4>2
      <4>4. PICK m \in Msgs : Open(m) /\ Rec(m) = Row(s, p, o)
        BY <2>4, <4>3
      <4> QED
        BY <2>a, <4>2, <4>4
    <3> QED
      BY <3>1, <3>2
  <2> QED
    BY <2>2, <2>6 DEF OrderFeedMatchesBook, Msgs, Rec, Row, Rests, Rows, Shown, Held
<1> QED
  BY <1>1, EventsInvariant, PTL

(* The filled sizes published add up from the trades published.            *)
THEOREM FilledFromTrades == EventsSpec => []FilledIsSumOfTrades
<1>1. EInv => FilledIsSumOfTrades
  BY AllPublished DEF FilledIsSumOfTrades
<1> QED
  BY <1>1, EventsInvariant, PTL

(* The newest snapshot published is that of the book.                      *)
THEOREM BookFeedIsBook == EventsSpec => []BookFeedCurrent
<1>1. EInv => BookFeedCurrent
  <2> SUFFICES ASSUME EInv, Quiet, NEW s \in Book!Sides
               PROVE  book_feed[s] = {<<p, volume[s][p]>> : p \in
                        {q \in Book!Levels(book, s) :
                           Cardinality({r \in Book!Levels(book, s) :
                              Book!Better(Book!op_side(s), r, q)}) < L2SIZE}}
    BY DEF BookFeedCurrent
  <2>1. book_feed = Book!l2_snapshot(book, volume)
    BY AllPublished, SameView
  <2>2. \A S : Book!Cardinality(S) = Cardinality(S)
    BY DEF Book!Cardinality, Cardinality
  <2> QED
    BY <2>1, <2>2 DEF Book!l2_snapshot
<1> QED
  BY <1>1, EventsInvariant, PTL

-----------------------------------------------------------------------------
(* The arithmetic of the funds.                                            *)

(* Quotient and remainder.                                                 *)
LEMMA Quotient ==
  ASSUME NEW a \in Nat, NEW D \in Nat \ {0}
  PROVE  /\ a \div D \in Nat /\ a % D \in 0 .. D - 1
         /\ a = D * (a \div D) + (a % D)
  OBVIOUS

(* Multiples of D that differ by less than D are in the order of their     *)
(* factors.                                                                *)
LEMMA Bound ==
  ASSUME NEW D \in Nat \ {0}, NEW x \in Int, NEW y \in Int, NEW r \in Int, r < D,
         D * x <= D * y + r
  PROVE  x <= y
<1> SUFFICES ASSUME x >= y + 1 PROVE FALSE
  OBVIOUS
<1>1. D * x >= D * (y + 1)
  OBVIOUS
<1>2. D * (y + 1) = D * y + D
  OBVIOUS
<1>3. D * x \in Int /\ D * y \in Int
  OBVIOUS
<1> QED
  BY <1>1, <1>2, <1>3

(* Rounding down two parts loses at most one unit against rounding the     *)
(* whole, and none if one part is whole.                                   *)
LEMMA FloorParts ==
  ASSUME NEW a \in Nat, NEW b \in Nat, NEW D \in Nat \ {0}
  PROVE  /\ (a \div D) + (b \div D) <= (a + b) \div D
         /\ (a + b) \div D <= (a \div D) + (b \div D) + 1
         /\ a % D = 0 \/ b % D = 0 => (a + b) \div D = (a \div D) + (b \div D)
<1> DEFINE x == a \div D
           y == b \div D
           z == (a + b) \div D
           i == a % D
           j == b % D
           k == (a + b) % D
<1>1. /\ x \in Nat /\ i \in 0 .. D - 1 /\ a = D * x + i
      /\ y \in Nat /\ j \in 0 .. D - 1 /\ b = D * y + j
      /\ z \in Nat /\ k \in 0 .. D - 1 /\ a + b = D * z + k
  BY Quotient, a + b \in Nat
<1> HIDE DEF x, y, z, i, j, k
<1>2. D * (x + y) = D * x + D * y /\ D * (x + y + 1) = D * x + D * y + D
  BY <1>1
<1>3. D * x \in Int /\ D * y \in Int /\ D * z \in Int
  BY <1>1
<1>4. D * x + D * y + i + j = D * z + k
  BY <1>1, <1>3
<1>5. x + y <= z
  <2>1. D * (x + y) <= D * z + k
    BY <1>1, <1>2, <1>3, <1>4
  <2> QED
    BY <1>1, <2>1, Bound
<1>6. z <= x + y + 1
  <2>1. i + j - D \in Int /\ i + j - D < D
    BY <1>1
  <2>2. D * z <= D * (x + y + 1) + (i + j - D)
    BY <1>1, <1>2, <1>3, <1>4
  <2> QED
    BY <1>1, <2>1, <2>2, Bound
<1>7. ASSUME i = 0 \/ j = 0 PROVE z <= x + y
  <2>1. D * z <= D * (x + y) + (i + j) /\ i + j < D /\ i + j \in Int
    BY <1>1, <1>2, <1>3, <1>4, <1>7
  <2> QED
    BY <1>1, <2>1, Bound
<1> QED
  BY <1>1, <1>5, <1>6, <1>7 DEF x, y, z, i, j

-----------------------------------------------------------------------------
(* The cost of an order, exact and rounded.                                *)
Divisor == BASE_NATIVE_SCALE * QUOTE_SCALE_K

(* The scales of the market are positive.                                  *)
LEMMA Scales ==
  /\ QUOTE_NATIVE_SCALE \in Nat /\ Divisor \in Nat \ {0} /\ U64MAX \in Nat
<1>1. BASE_NATIVE_SCALE \in Nat \ {0} /\ QUOTE_SCALE_K \in Nat \ {0}
  BY SpecAssumption
<1> QED
  BY <1>1, SpecAssumption, MarketAssumption DEF Divisor

(* Costs are naturals, and nothing costs nothing.                          *)
LEMMA CostNat ==
  ASSUME NEW p \in Nat, NEW z \in Nat
  PROVE  exact_cost(p, z) \in Nat /\ exact_cost(p, 0) = 0
<1> DEFINE Q == QUOTE_NATIVE_SCALE
<1>1. Q \in Nat /\ Divisor \in Nat \ {0}
  BY Scales
<1>2. p * z * Q \in Nat /\ p * 0 * Q = 0
  BY <1>1
<1>3. exact_cost(p, z) = (p * z * Q) \div Divisor
  BY DEF exact_cost, Divisor
<1>4. exact_cost(p, 0) = (p * 0 * Q) \div Divisor
  BY DEF exact_cost, Divisor
<1>5. 0 \div Divisor = 0
  BY <1>1
<1> HIDE DEF Q
<1>6. (p * z * Q) \div Divisor \in Nat
  BY <1>1, <1>2, Quotient
<1> QED
  BY <1>2, <1>3, <1>4, <1>5, <1>6

(* A price and a size whose cost is no whole number of quote units.        *)
Fraction(p, z) == (p * z * QUOTE_NATIVE_SCALE) % Divisor # 0

(* The cost of two sizes at one price, against that of the sum.            *)
LEMMA CostOfSizes ==
  ASSUME NEW p \in Nat, NEW y \in Nat, NEW z \in Nat
  PROVE  /\ exact_cost(p, y) + exact_cost(p, z) <= exact_cost(p, y + z)
         /\ exact_cost(p, y + z) <= exact_cost(p, y) + exact_cost(p, z)
                                      + (IF Fraction(p, z) THEN 1 ELSE 0)
<1> DEFINE Q == QUOTE_NATIVE_SCALE
           a == p * y * Q
           b == p * z * Q
<1>1. Q \in Nat /\ Divisor \in Nat \ {0}
  BY Scales
<1>2. a \in Nat /\ b \in Nat /\ p * (y + z) * Q = a + b
  BY <1>1
<1>3. /\ exact_cost(p, y) = a \div Divisor /\ exact_cost(p, z) = b \div Divisor
      /\ exact_cost(p, y + z) = (p * (y + z) * Q) \div Divisor
      /\ Fraction(p, z) <=> b % Divisor # 0
  BY DEF exact_cost, Divisor, Fraction
<1> HIDE DEF a, b, Q
<1>4. /\ (a \div Divisor) + (b \div Divisor) <= (a + b) \div Divisor
      /\ (a + b) \div Divisor <= (a \div Divisor) + (b \div Divisor) + 1
      /\ b % Divisor = 0 =>
           (a + b) \div Divisor = (a \div Divisor) + (b \div Divisor)
  <2>1. PICK D : D = Divisor
    OBVIOUS
  <2>2. a \in Nat /\ b \in Nat /\ D \in Nat \ {0}
    BY <1>1, <1>2, <2>1
  <2>3. /\ (a \div D) + (b \div D) <= (a + b) \div D
        /\ (a + b) \div D <= (a \div D) + (b \div D) + 1
        /\ b % D = 0 => (a + b) \div D = (a \div D) + (b \div D)
    BY ONLY <2>2, FloorParts
  <2> QED
    BY <2>1, <2>3
<1>5. (a \div Divisor) \in Nat /\ (b \div Divisor) \in Nat
  BY <1>1, <1>2, Quotient
<1> QED
  BY <1>2, <1>3, <1>4, <1>5

(* The cost of one size at two prices, against that at the sum.            *)
LEMMA CostOfPrices ==
  ASSUME NEW p \in Nat, NEW q \in Nat, NEW z \in Nat
  PROVE  /\ exact_cost(p, z) + exact_cost(q, z) <= exact_cost(p + q, z)
         /\ exact_cost(p + q, z) <= exact_cost(p, z) + exact_cost(q, z)
                                      + (IF Fraction(p, z) THEN 1 ELSE 0)
<1> DEFINE Q == QUOTE_NATIVE_SCALE
           a == q * z * Q
           b == p * z * Q
<1>1. Q \in Nat /\ Divisor \in Nat \ {0}
  BY Scales
<1>2. a \in Nat /\ b \in Nat /\ (p + q) * z * Q = a + b
  BY <1>1
<1>3. /\ exact_cost(q, z) = a \div Divisor /\ exact_cost(p, z) = b \div Divisor
      /\ exact_cost(p + q, z) = ((p + q) * z * Q) \div Divisor
      /\ Fraction(p, z) <=> b % Divisor # 0
  BY DEF exact_cost, Divisor, Fraction
<1> HIDE DEF a, b, Q
<1>4. /\ (a \div Divisor) + (b \div Divisor) <= (a + b) \div Divisor
      /\ (a + b) \div Divisor <= (a \div Divisor) + (b \div Divisor) + 1
      /\ b % Divisor = 0 =>
           (a + b) \div Divisor = (a \div Divisor) + (b \div Divisor)
  <2>1. PICK D : D = Divisor
    OBVIOUS
  <2>2. a \in Nat /\ b \in Nat /\ D \in Nat \ {0}
    BY <1>1, <1>2, <2>1
  <2>3. /\ (a \div D) + (b \div D) <= (a + b) \div D
        /\ (a + b) \div D <= (a \div D) + (b \div D) + 1
        /\ b % D = 0 => (a + b) \div D = (a \div D) + (b \div D)
    BY ONLY <2>2, FloorParts
  <2> QED
    BY <2>1, <2>3
<1>5. (a \div Divisor) \in Nat /\ (b \div Divisor) \in Nat
  BY <1>1, <1>2, Quotient
<1> QED
  BY <1>2, <1>3, <1>4, <1>5

(* Less costs less.                                                        *)
LEMMA FitsLess ==
  ASSUME NEW p \in Nat, NEW z \in Nat, Fits(p, z),
         NEW q \in Nat, q <= p, NEW y \in Nat, y <= z
  PROVE  Fits(q, y)
<1>1. PICK r \in Nat : p = q + r
  <2>1. p - q \in Nat /\ p = q + (p - q)
    OBVIOUS
  <2> QED
    BY <2>1
<1>2. PICK x \in Nat : z = x + y
  <2>1. z - y \in Nat /\ z = (z - y) + y
    OBVIOUS
  <2> QED
    BY <2>1
<1>3. exact_cost(p, x) + exact_cost(p, y) <= exact_cost(p, z)
  BY <1>2, CostOfSizes
<1>4. exact_cost(q, y) + exact_cost(r, y) <= exact_cost(p, y)
  BY <1>1, CostOfPrices
<1>5. /\ exact_cost(p, x) \in Nat /\ exact_cost(p, y) \in Nat
      /\ exact_cost(p, z) \in Nat /\ exact_cost(q, y) \in Nat
      /\ exact_cost(r, y) \in Nat /\ U64MAX \in Nat
  BY CostNat, Scales
<1> QED
  BY <1>3, <1>4, <1>5 DEF Fits

(* What fits is not truncated.                                             *)
LEMMA CostIsExact ==
  ASSUME NEW p \in Nat, NEW z \in Nat, Fits(p, z)
  PROVE  /\ calculate_quote_cost(p, z) = exact_cost(p, z)
         /\ calculate_quote_cost(p, z) \in 0 .. U64MAX
<1>1. exact_cost(p, z) \in Nat /\ U64MAX \in Nat
  BY CostNat, Scales
<1>2. calculate_quote_cost(p, z) = wrap(exact_cost(p, z))
  BY DEF calculate_quote_cost, exact_cost
<1>3. exact_cost(p, z) <= U64MAX
  BY DEF Fits
<1>4. ASSUME NEW k \in Nat, k <= U64MAX PROVE k % (U64MAX + 1) = k
  BY <1>1, <1>4
<1> QED
  BY <1>1, <1>2, <1>3, <1>4 DEF wrap

(* A resting bid that trades t of its size z: what it pays and what it     *)
(* still needs come out of what it had.                                    *)
LEMMA MakerParts ==
  ASSUME NEW p \in Nat, NEW z \in Nat, Fits(p, z), NEW t \in Nat, t <= z
  PROVE  LET c(s) == calculate_quote_cost(p, s)
         IN /\ c(z) \in Nat /\ c(t) \in Nat /\ c(z - t) \in Nat
            /\ c(z - t) + c(t) <= c(z)
            /\ c(z) <= c(z - t) + c(t) + (IF Rounded(p, p, t) THEN 2 ELSE 0)
<1> DEFINE y == z - t
<1>1. y \in Nat /\ z = y + t /\ y <= z
  OBVIOUS
<1> HIDE DEF y
<1>2. Fits(p, y) /\ Fits(p, t)
  BY <1>1, FitsLess
<1>3. /\ calculate_quote_cost(p, z) = exact_cost(p, z)
      /\ calculate_quote_cost(p, y) = exact_cost(p, y)
      /\ calculate_quote_cost(p, t) = exact_cost(p, t)
  BY <1>1, <1>2, CostIsExact
<1>4. /\ exact_cost(p, y) + exact_cost(p, t) <= exact_cost(p, z)
      /\ exact_cost(p, z) <= exact_cost(p, y) + exact_cost(p, t)
                               + (IF Fraction(p, t) THEN 1 ELSE 0)
  BY <1>1, CostOfSizes
<1>5. Fraction(p, t) <=> Rounded(p, p, t)
  BY DEF Fraction, Rounded, Divisor
<1>6. exact_cost(p, y) \in Nat /\ exact_cost(p, t) \in Nat /\ exact_cost(p, z) \in Nat
  BY <1>1, CostNat
<1> QED
  BY <1>3, <1>4, <1>5, <1>6 DEF y

(* A buying taker with limit l that trades t of its remaining z at a price *)
(* p: what it pays, what it gets back and what it still needs come out of  *)
(* what it had.                                                            *)
LEMMA TakerParts ==
  ASSUME NEW l \in Nat, NEW p \in Nat, p <= l,
         NEW z \in Nat, Fits(l, z), NEW t \in Nat, t <= z,
         NEW e, e.price = p, e.size = t
  PROVE  LET back == refund(FALSE, "Bid", l, e)
             c(q, s) == calculate_quote_cost(q, s)
         IN /\ c(l, z) \in Nat /\ c(p, t) \in Nat /\ c(l, z - t) \in Nat
            /\ back \in Nat
            /\ c(l, z - t) + c(p, t) + back <= c(l, z)
            /\ c(l, z) <= c(l, z - t) + c(p, t) + back
                            + (IF Rounded(p, l, t) THEN 2 ELSE 0)
<1> DEFINE y == z - t
           q == l - p
           back == refund(FALSE, "Bid", l, e)
<1>1. y \in Nat /\ z = y + t /\ y <= z /\ q \in Nat /\ l = p + q /\ q <= l
  OBVIOUS
<1>0. back = IF p < l THEN calculate_quote_cost(q, t) ELSE 0
  BY DEF refund
<1> HIDE DEF y, q, back
<1>2. Fits(l, y) /\ Fits(l, t) /\ Fits(p, t) /\ Fits(q, t)
  BY <1>1, FitsLess
<1>3. /\ calculate_quote_cost(l, z) = exact_cost(l, z)
      /\ calculate_quote_cost(l, y) = exact_cost(l, y)
      /\ calculate_quote_cost(p, t) = exact_cost(p, t)
      /\ calculate_quote_cost(q, t) = exact_cost(q, t)
  BY <1>1, <1>2, CostIsExact
<1>4. /\ exact_cost(l, y) + exact_cost(l, t) <= exact_cost(l, z)
      /\ exact_cost(l, z) <= exact_cost(l, y) + exact_cost(l, t)
                               + (IF Fraction(l, t) THEN 1 ELSE 0)
  BY <1>1, CostOfSizes
<1>5. /\ exact_cost(p, t) + exact_cost(q, t) <= exact_cost(l, t)
      /\ exact_cost(l, t) <= exact_cost(p, t) + exact_cost(q, t)
                               + (IF Fraction(p, t) THEN 1 ELSE 0)
  BY <1>1, CostOfPrices
<1>6. Rounded(p, l, t) <=> Fraction(p, t) \/ Fraction(l, t)
  BY DEF Fraction, Rounded, Divisor
<1>7. /\ exact_cost(l, y) \in Nat /\ exact_cost(l, t) \in Nat
      /\ exact_cost(l, z) \in Nat /\ exact_cost(p, t) \in Nat
      /\ exact_cost(q, t) \in Nat
  BY <1>1, CostNat
<1>8. q = 0 => exact_cost(q, t) = 0
  <2>1. exact_cost(0, t) = 0
    <3>1. 0 * t * QUOTE_NATIVE_SCALE = 0 /\ 0 \div Divisor = 0
      BY Scales
    <3> QED
      BY <3>1 DEF exact_cost, Divisor
  <2> QED
    BY <2>1
<1>9. back = exact_cost(q, t)
  <2>1. p < l \/ q = 0
    BY <1>1
  <2>2. p < l => q # 0
    BY <1>1
  <2> QED
    BY <1>0, <1>3, <1>8, <2>1, <2>2
<1>10. /\ exact_cost(l, y) + exact_cost(p, t) + back <= exact_cost(l, z)
       /\ exact_cost(l, z) <= exact_cost(l, y) + exact_cost(p, t) + back
                                + (IF Rounded(p, l, t) THEN 2 ELSE 0)
  BY <1>4, <1>5, <1>6, <1>7, <1>9
<1>11. back \in Nat
  BY <1>7, <1>9
<1> QED
  BY <1>3, <1>7, <1>10, <1>11 DEF y, back

-----------------------------------------------------------------------------
(* A claim on locked funds: a settlement that is still to be done, or what *)
(* an order on its way holds.  Who pays how much of which asset, how much  *)
(* of his locked funds the claim covers (the payment and what is given     *)
(* back), what he gets, and how many units may stay behind for rounding.   *)
Claims ==
  {d \in [slot: Nat, place: Nat, user: Users, out: Assets, in: Assets,
          pay: Nat, claim: Nat, get: Nat, slack: Nat] :
     d.pay <= d.claim /\ d.in # d.out}

Weight(d, f, u, a) ==
  IF d.user # u \/ a # (IF f = "get" THEN d.in ELSE d.out) THEN 0
  ELSE IF f = "get" THEN d.get
  ELSE IF f = "pay" THEN d.pay
  ELSE IF f = "claim" THEN d.claim
  ELSE d.slack

(* What the claims of S add up to for a user and an asset.                 *)
Tally(S, f, u, a) == SumFunctionOnSet([d \in S |-> Weight(d, f, u, a)], S)

(* What a claim weighs is a natural.                                       *)
LEMMA WeightNat ==
  ASSUME NEW d \in Claims, NEW f, NEW u, NEW a
  PROVE  Weight(d, f, u, a) \in Nat
  BY DEF Claims, Weight

(* Tallies are naturals.                                                   *)
LEMMA TallyNat ==
  ASSUME NEW S \in SUBSET Claims, IsFiniteSet(S), NEW f, NEW u, NEW a
  PROVE  Tally(S, f, u, a) \in Nat
<1> DEFINE w == [d \in S |-> Weight(d, f, u, a)]
<1>1. \A d \in S : w[d] \in Nat
  BY WeightNat
<1> HIDE DEF w
<1>2. SumFunctionOnSet(w, S) \in Nat
  BY <1>1, SumNat
<1> QED
  BY <1>2 DEF Tally, w

(* No claims, nothing to add up.                                           *)
LEMMA TallyNone ==
  ASSUME NEW f, NEW u, NEW a PROVE Tally({}, f, u, a) = 0
  BY SumEmpty DEF Tally

(* One claim less.                                                         *)
LEMMA TallyDrop ==
  ASSUME NEW S \in SUBSET Claims, IsFiniteSet(S), NEW d \in S,
         NEW f, NEW u, NEW a
  PROVE  Tally(S \ {d}, f, u, a) = Tally(S, f, u, a) - Weight(d, f, u, a)
<1> DEFINE T == S \ {d}
           w == [x \in S |-> Weight(x, f, u, a)]
           v == [x \in T |-> Weight(x, f, u, a)]
<1>1. /\ \A x \in S : w[x] \in Int
      /\ \A x \in T : w[x] = v[x]
      /\ w[d] = Weight(d, f, u, a)
  BY WeightNat
<1>2. IsFiniteSet(T)
  BY FS_RemoveElement
<1>3. SumFunctionOnSet(v, T) = Tally(T, f, u, a)
  BY DEF Tally
<1>4. SumFunctionOnSet(w, S) = Tally(S, f, u, a)
  BY DEF Tally
<1>7. w[d] \in Int
  BY <1>1
<1> HIDE DEF w, v
<1>5. SumFunctionOnSet(w, S) = w[d] + SumFunctionOnSet(w, T)
  BY <1>1, SumTake
<1>6. SumFunctionOnSet(w, T) = SumFunctionOnSet(v, T)
  BY <1>1, <1>2, SumAgree
<1>8. SumFunctionOnSet(w, T) \in Int
  BY <1>1, <1>2, SumInt
<1> QED
  BY <1>1, <1>3, <1>4, <1>5, <1>6, <1>7, <1>8

(* One claim more.                                                         *)
LEMMA TallyPut ==
  ASSUME NEW S \in SUBSET Claims, IsFiniteSet(S), NEW d \in Claims,
         d \notin S, NEW f, NEW u, NEW a
  PROVE  Tally(S \cup {d}, f, u, a) = Tally(S, f, u, a) + Weight(d, f, u, a)
<1> DEFINE T == S \cup {d}
<1>1. T \in SUBSET Claims /\ d \in T /\ T \ {d} = S /\ IsFiniteSet(T)
  BY FS_AddElement
<1> HIDE DEF T
<1>2. Tally(T \ {d}, f, u, a) = Tally(T, f, u, a) - Weight(d, f, u, a)
  BY <1>1, TallyDrop
<1>3. Tally(T, f, u, a) \in Nat /\ Weight(d, f, u, a) \in Nat
  BY <1>1, TallyNat, WeightNat
<1>4. Tally(T \ {d}, f, u, a) = Tally(S, f, u, a)
  BY <1>1
<1>6. Tally(S, f, u, a) \in Nat
  BY TallyNat
<1>5. Tally(T, f, u, a) = Tally(S, f, u, a) + Weight(d, f, u, a)
  BY <1>2, <1>3, <1>4, <1>6
<1> QED
  BY <1>5 DEF T

(* Payments are claims.                                                    *)
LEMMA TallyPayClaim ==
  ASSUME NEW S \in SUBSET Claims, IsFiniteSet(S), NEW u, NEW a
  PROVE  Tally(S, "pay", u, a) <= Tally(S, "claim", u, a)
<1> DEFINE w == [d \in S |-> Weight(d, "pay", u, a)]
           v == [d \in S |-> Weight(d, "claim", u, a)]
<1>1. \A d \in S : w[d] \in Int /\ v[d] \in Int /\ w[d] <= v[d]
  <2> SUFFICES ASSUME NEW d \in S
               PROVE  /\ Weight(d, "pay", u, a) \in Int
                      /\ Weight(d, "claim", u, a) \in Int
                      /\ Weight(d, "pay", u, a) <= Weight(d, "claim", u, a)
    OBVIOUS
  <2>1. d.pay \in Nat /\ d.claim \in Nat /\ d.pay <= d.claim
    BY DEF Claims
  <2> QED
    BY <2>1 DEF Weight
<1> HIDE DEF w, v
<1>2. SumFunctionOnSet(w, S) <= SumFunctionOnSet(v, S)
  BY <1>1, SumMonotone
<1> QED
  BY <1>2 DEF Tally, w, v

(* One claim is part of the sum.                                           *)
LEMMA TallyAtLeast ==
  ASSUME NEW S \in SUBSET Claims, IsFiniteSet(S), NEW d \in S,
         NEW f, NEW u, NEW a
  PROVE  Weight(d, f, u, a) <= Tally(S, f, u, a)
<1>1. S \ {d} \in SUBSET Claims /\ IsFiniteSet(S \ {d})
  BY FS_RemoveElement
<1>2. Tally(S \ {d}, f, u, a) = Tally(S, f, u, a) - Weight(d, f, u, a)
  BY TallyDrop
<1>3. /\ Tally(S \ {d}, f, u, a) \in Nat /\ Tally(S, f, u, a) \in Nat
      /\ Weight(d, f, u, a) \in Nat
  BY <1>1, TallyNat, WeightNat
<1> QED
  BY <1>2, <1>3

-----------------------------------------------------------------------------
(* The ledger: what resting orders need, the claims of the commands on     *)
(* their way, and the balances they all are about.                         *)
Amounts == [Users -> [Assets -> Nat]]

Claimed(need, S, u, a) ==
  need[u][a] + Tally(S, "claim", u, a)

Leeway(S, inex, u, a) ==
  Tally(S, "slack", u, a) + (IF a = "quote" THEN 2 * inex[u] ELSE 0)

(* What a user has once everything is settled, before fees.                *)
Worth(S, bal, u, a) ==
  bal[u][a].available + bal[u][a].locked
    + Tally(S, "get", u, a) - Tally(S, "pay", u, a)

Wealth(S, bal, a) == SumFunction([u \in Users |-> Worth(S, bal, u, a)])

Ledger(need, S, bal, inex, fee, net) ==
  /\ need \in Amounts
  /\ S \in SUBSET Claims /\ IsFiniteSet(S)
  /\ bal \in [Users -> [Assets -> Balance]]
  /\ inex \in [Users -> Nat]
  /\ fee \in [Assets -> Nat] /\ net \in [Assets -> Nat]
  /\ \A u \in Users, a \in Assets :
       /\ Claimed(need, S, u, a) <= bal[u][a].locked
       /\ bal[u][a].locked <= Claimed(need, S, u, a)
                                + Leeway(S, inex, u, a)
  /\ \A a \in Assets : Wealth(S, bal, a) + fee[a] = net[a]

(* The numbers of one user and one asset.                                  *)
LEMMA LedgerNumbers ==
  ASSUME NEW need \in Amounts,
         NEW S \in SUBSET Claims, IsFiniteSet(S),
         NEW bal \in [Users -> [Assets -> Balance]],
         NEW inex \in [Users -> Nat], NEW u \in Users, NEW a \in Assets
  PROVE  /\ need[u][a] \in Nat /\ inex[u] \in Nat
         /\ Tally(S, "claim", u, a) \in Nat
         /\ Tally(S, "pay", u, a) \in Nat
         /\ Tally(S, "get", u, a) \in Nat
         /\ Tally(S, "slack", u, a) \in Nat
         /\ Tally(S, "pay", u, a) <= Tally(S, "claim", u, a)
         /\ bal[u][a] \in Balance /\ bal[u][a].available \in Nat
         /\ bal[u][a].locked \in Nat
         /\ Leeway(S, inex, u, a) \in Nat
         /\ Claimed(need, S, u, a) \in Nat
         /\ Worth(S, bal, u, a) \in Int
         /\ Claimed(need, S, u, a) <= bal[u][a].locked =>
              /\ Worth(S, bal, u, a) \in Nat
              /\ bal[u][a].available + Tally(S, "get", u, a)
                   <= Worth(S, bal, u, a)
<1>1. need[u][a] \in Nat /\ inex[u] \in Nat
  BY DEF Amounts
<1>2. /\ Tally(S, "claim", u, a) \in Nat /\ Tally(S, "pay", u, a) \in Nat
      /\ Tally(S, "get", u, a) \in Nat /\ Tally(S, "slack", u, a) \in Nat
      /\ Tally(S, "pay", u, a) <= Tally(S, "claim", u, a)
  BY TallyNat, TallyPayClaim
<1>3. /\ bal[u][a] \in Balance /\ bal[u][a].available \in Nat
      /\ bal[u][a].locked \in Nat
  BY Scales DEF Balance
<1>4. Leeway(S, inex, u, a) \in Nat /\ Claimed(need, S, u, a) \in Nat
  BY <1>1, <1>2 DEF Leeway, Claimed
<1>5. Worth(S, bal, u, a) \in Int
  BY <1>2, <1>3 DEF Worth
<1>6. ASSUME Claimed(need, S, u, a) <= bal[u][a].locked
      PROVE  /\ Worth(S, bal, u, a) \in Nat
             /\ bal[u][a].available + Tally(S, "get", u, a)
                  <= Worth(S, bal, u, a)
  <2>1. Tally(S, "pay", u, a) <= bal[u][a].locked
    BY <1>1, <1>2, <1>3, <1>6 DEF Claimed
  <2> QED
    BY <1>2, <1>3, <2>1 DEF Worth
<1> QED
  BY <1>1, <1>2, <1>3, <1>4, <1>5, <1>6

(* What a user has is a number.                                            *)
LEMMA WorthInt ==
  ASSUME NEW S \in SUBSET Claims, IsFiniteSet(S),
         NEW bal \in [Users -> [Assets -> Balance]],
         NEW u \in Users, NEW a \in Assets
  PROVE  Worth(S, bal, u, a) \in Int
<1>1. Tally(S, "pay", u, a) \in Nat /\ Tally(S, "get", u, a) \in Nat
  BY TallyNat
<1>2. bal[u][a].available \in Nat /\ bal[u][a].locked \in Nat
  BY Scales DEF Balance
<1> QED
  BY <1>1, <1>2 DEF Worth

(* The wealth of all users follows that of one, or of two.                 *)
LEMMA WealthKept ==
  ASSUME NEW w \in [Users -> Int], NEW v \in [Users -> Int],
         \A x \in Users : v[x] = w[x]
  PROVE  SumFunction(v) = SumFunction(w)
<1>1. v = w
  OBVIOUS
<1> QED
  BY <1>1

(* One user's funds change.                                                *)
LEMMA WealthOne ==
  ASSUME NEW w \in [Users -> Int], NEW v \in [Users -> Int], NEW u \in Users,
         \A x \in Users : x # u => v[x] = w[x]
  PROVE  /\ SumFunction(w) \in Int /\ SumFunction(v) \in Int
         /\ SumFunction(v) = SumFunction(w) - w[u] + v[u]
<1> DEFINE T == Users \ {u}
<1>1. IsFiniteSet(Users) /\ IsFiniteSet(T)
  BY ShardAssumption, FS_RemoveElement
<1>2. /\ SumFunction(w) = SumFunctionOnSet(w, Users)
      /\ SumFunction(v) = SumFunctionOnSet(v, Users)
  BY DEF SumFunction
<1>3. SumFunctionOnSet(w, Users) = w[u] + SumFunctionOnSet(w, T)
  BY <1>1, SumTake
<1>4. SumFunctionOnSet(v, Users) = v[u] + SumFunctionOnSet(v, T)
  BY <1>1, SumTake
<1>5. SumFunctionOnSet(w, T) = SumFunctionOnSet(v, T)
  <2>1. \A x \in T : w[x] = v[x]
    OBVIOUS
  <2> QED
    BY <1>1, <2>1, SumAgree
<1>6. SumFunctionOnSet(w, T) \in Int
  <2>1. \A x \in T : w[x] \in Int
    OBVIOUS
  <2> QED
    BY <1>1, <2>1, SumInt
<1> QED
  BY <1>2, <1>3, <1>4, <1>5, <1>6

(* Funds go from one user to another.                                      *)
LEMMA WealthTwo ==
  ASSUME NEW w \in [Users -> Int], NEW v \in [Users -> Int],
         NEW u \in Users, NEW t \in Users, u # t,
         \A x \in Users : x # u /\ x # t => v[x] = w[x],
         v[u] + v[t] = w[u] + w[t]
  PROVE  SumFunction(v) = SumFunction(w)
<1> DEFINE m == [w EXCEPT ![u] = v[u]]
<1>1. m \in [Users -> Int] /\ m[u] = v[u] /\ \A x \in Users : x # u => m[x] = w[x]
  OBVIOUS
<1> HIDE DEF m
<1>2. SumFunction(w) \in Int /\ SumFunction(m) = SumFunction(w) - w[u] + v[u]
  BY <1>1, WealthOne
<1>3. \A x \in Users : x # t => v[x] = m[x]
  BY <1>1
<1>4. SumFunction(v) = SumFunction(m) - m[t] + v[t]
  BY <1>1, <1>3, WealthOne
<1>5. m[t] = w[t] /\ w[u] \in Int /\ w[t] \in Int /\ v[u] \in Int /\ v[t] \in Int
  BY <1>1
<1> QED
  BY <1>2, <1>4, <1>5

(* What the ledger promises: funds held are locked, and a settlement finds *)
(* what it pays and has room for what it gets.                             *)
LEMMA LedgerCovers ==
  ASSUME NEW need, NEW S, NEW bal, NEW inex, NEW fee, NEW net,
         Ledger(need, S, bal, inex, fee, net)
  PROVE  /\ \A d \in S :
              /\ d.claim <= bal[d.user][d.out].locked
              /\ bal[d.user][d.in].available + d.get <= net[d.in]
              /\ bal[d.user][d.out].available + d.claim - d.pay <= net[d.out]
         /\ \A u \in Users, a \in Assets : bal[u][a].available <= net[a]
<1>1. /\ need \in Amounts
      /\ S \in SUBSET Claims /\ IsFiniteSet(S)
      /\ bal \in [Users -> [Assets -> Balance]] /\ inex \in [Users -> Nat]
      /\ fee \in [Assets -> Nat] /\ net \in [Assets -> Nat]
      /\ \A u \in Users, a \in Assets :
           Claimed(need, S, u, a) <= bal[u][a].locked
      /\ \A a \in Assets : Wealth(S, bal, a) + fee[a] = net[a]
  BY DEF Ledger
<1>2. ASSUME NEW u \in Users, NEW a \in Assets
      PROVE  /\ need[u][a] \in Nat
             /\ bal[u][a].available \in Nat /\ bal[u][a].locked \in Nat
             /\ Tally(S, "claim", u, a) \in Nat
             /\ Tally(S, "get", u, a) \in Nat
             /\ Worth(S, bal, u, a) \in Nat
             /\ bal[u][a].available + Tally(S, "get", u, a)
                  <= Worth(S, bal, u, a)
             /\ need[u][a] + Tally(S, "claim", u, a)
                  <= bal[u][a].locked
  <2>1. Claimed(need, S, u, a) <= bal[u][a].locked
    BY <1>1
  <2> QED
    BY <1>1, <2>1, LedgerNumbers DEF Claimed
<1>3. ASSUME NEW a \in Assets
      PROVE  /\ Wealth(S, bal, a) \in Nat
             /\ \A u \in Users : Worth(S, bal, u, a) <= Wealth(S, bal, a)
  <2> DEFINE w == [u \in Users |-> Worth(S, bal, u, a)]
  <2>1. \A u \in Users : w[u] \in Nat /\ w[u] = Worth(S, bal, u, a)
    BY <1>2
  <2>2. Wealth(S, bal, a) = SumFunctionOnSet(w, Users)
    BY DEF Wealth, SumFunction
  <2> HIDE DEF w
  <2>3. IsFiniteSet(Users)
    BY ShardAssumption
  <2>4. SumFunctionOnSet(w, Users) \in Nat
    BY <2>1, <2>3, SumNat
  <2>5. \A u \in Users : w[u] <= SumFunctionOnSet(w, Users)
    BY <2>1, <2>3, SumAtLeast
  <2> QED
    BY <2>1, <2>2, <2>4, <2>5
<1>5. ASSUME NEW d \in S
      PROVE  /\ d.claim <= bal[d.user][d.out].locked
             /\ bal[d.user][d.in].available + d.get <= net[d.in]
             /\ bal[d.user][d.out].available + d.claim - d.pay <= net[d.out]
  <2>1. /\ d \in Claims /\ d.user \in Users /\ d.out \in Assets
        /\ d.in \in Assets /\ d.claim \in Nat /\ d.get \in Nat /\ d.pay \in Nat
    BY <1>1 DEF Claims
  <2>2. /\ Weight(d, "claim", d.user, d.out) = d.claim
        /\ Weight(d, "pay", d.user, d.out) = d.pay
        /\ Weight(d, "get", d.user, d.in) = d.get
    BY DEF Weight
  <2>3. d.claim <= Tally(S, "claim", d.user, d.out)
    BY <1>1, <2>2, TallyAtLeast
  <2>4. d.get <= Tally(S, "get", d.user, d.in)
    BY <1>1, <2>2, TallyAtLeast
  <2>5. d.claim <= bal[d.user][d.out].locked
    BY <1>2, <2>1, <2>3
  <2>6. ASSUME NEW a \in Assets
        PROVE  /\ Worth(S, bal, d.user, a) <= net[a]
               /\ Worth(S, bal, d.user, a) \in Nat /\ net[a] \in Nat
    <3>1. /\ Worth(S, bal, d.user, a) <= Wealth(S, bal, a)
          /\ Wealth(S, bal, a) \in Nat
          /\ Wealth(S, bal, a) + fee[a] = net[a]
          /\ fee[a] \in Nat /\ net[a] \in Nat
      BY <1>1, <1>3, <2>1
    <3>2. Worth(S, bal, d.user, a) \in Nat
      BY <1>2, <2>1
    <3> QED
      BY <3>1, <3>2
  <2>7. /\ bal[d.user][d.in].available + Tally(S, "get", d.user, d.in)
             <= Worth(S, bal, d.user, d.in)
        /\ bal[d.user][d.in].available \in Nat
        /\ Tally(S, "get", d.user, d.in) \in Nat
    BY <1>2, <2>1
  <2>8. bal[d.user][d.in].available + d.get <= net[d.in]
    BY <2>1, <2>4, <2>6, <2>7
  <2>9. bal[d.user][d.out].available + d.claim - d.pay <= net[d.out]
    <3> DEFINE c == Tally(S, "claim", d.user, d.out)
               p == Tally(S, "pay", d.user, d.out)
               g == Tally(S, "get", d.user, d.out)
               n == need[d.user][d.out]
    <3>1. S \ {d} \in SUBSET Claims /\ IsFiniteSet(S \ {d})
      BY <1>1, FS_RemoveElement
    <3>2. /\ Tally(S \ {d}, "claim", d.user, d.out) = c - d.claim
          /\ Tally(S \ {d}, "pay", d.user, d.out) = p - d.pay
      BY <1>1, <2>2, TallyDrop
    <3>3. Tally(S \ {d}, "pay", d.user, d.out)
            <= Tally(S \ {d}, "claim", d.user, d.out)
      BY <3>1, TallyPayClaim
    <3>4. c \in Nat /\ p \in Nat /\ g \in Nat
      BY <1>1, TallyNat
    <3>5. /\ n + c <= bal[d.user][d.out].locked
          /\ bal[d.user][d.out].locked \in Nat
          /\ bal[d.user][d.out].available \in Nat /\ n \in Nat
      BY <1>2, <2>1
    <3>6. Worth(S, bal, d.user, d.out)
            = bal[d.user][d.out].available + bal[d.user][d.out].locked + g - p
      BY DEF Worth
    <3>7. Worth(S, bal, d.user, d.out) <= net[d.out] /\ net[d.out] \in Nat
      BY <2>1, <2>6
    <3> HIDE DEF c, p, g, n
    <3> QED
      BY <2>1, <3>2, <3>3, <3>4, <3>5, <3>6, <3>7
  <2> QED
    BY <2>5, <2>8, <2>9
<1>4. ASSUME NEW u \in Users, NEW a \in Assets
      PROVE  bal[u][a].available <= net[a]
  <2>1. /\ Worth(S, bal, u, a) <= Wealth(S, bal, a) /\ Wealth(S, bal, a) \in Nat
        /\ Wealth(S, bal, a) + fee[a] = net[a]
        /\ fee[a] \in Nat /\ net[a] \in Nat
    BY <1>1, <1>3
  <2>2. /\ bal[u][a].available \in Nat /\ Tally(S, "get", u, a) \in Nat
        /\ Worth(S, bal, u, a) \in Nat
        /\ bal[u][a].available + Tally(S, "get", u, a) <= Worth(S, bal, u, a)
    BY <1>2
  <2> QED
    BY <2>1, <2>2
<1> QED
  BY <1>4, <1>5

(* The wealth of all users when that of one changes.                       *)
LEMMA WealthStep ==
  ASSUME NEW S \in SUBSET Claims, IsFiniteSet(S),
         NEW bal \in [Users -> [Assets -> Balance]],
         NEW S2 \in SUBSET Claims, IsFiniteSet(S2),
         NEW bal2 \in [Users -> [Assets -> Balance]],
         NEW u \in Users, NEW a \in Assets,
         \A v \in Users : v # u => Worth(S2, bal2, v, a) = Worth(S, bal, v, a)
  PROVE  /\ Wealth(S, bal, a) \in Int /\ Wealth(S2, bal2, a) \in Int
         /\ Worth(S, bal, u, a) \in Int /\ Worth(S2, bal2, u, a) \in Int
         /\ Wealth(S2, bal2, a) = Wealth(S, bal, a) - Worth(S, bal, u, a)
                                    + Worth(S2, bal2, u, a)
<1> DEFINE w == [v \in Users |-> Worth(S, bal, v, a)]
           x == [v \in Users |-> Worth(S2, bal2, v, a)]
<1>1. ASSUME NEW v \in Users
      PROVE  Worth(S, bal, v, a) \in Int /\ Worth(S2, bal2, v, a) \in Int
  BY WorthInt
<1>2. /\ w \in [Users -> Int] /\ x \in [Users -> Int]
      /\ \A v \in Users : v # u => x[v] = w[v]
      /\ w[u] = Worth(S, bal, u, a) /\ x[u] = Worth(S2, bal2, u, a)
  BY <1>1
<1>3. /\ Wealth(S, bal, a) = SumFunction(w)
      /\ Wealth(S2, bal2, a) = SumFunction(x)
  BY DEF Wealth
<1> HIDE DEF w, x
<1>4. /\ SumFunction(w) \in Int /\ SumFunction(x) \in Int
      /\ SumFunction(x) = SumFunction(w) - w[u] + x[u]
  BY <1>2, WealthOne
<1> QED
  BY <1>1, <1>2, <1>3, <1>4

LockedFollows(need, S, bal, inex, need2, S2, bal2, inex2) ==
  \A u \in Users, a \in Assets :
    /\ Claimed(need2, S2, u, a) + bal[u][a].locked
         <= Claimed(need, S, u, a) + bal2[u][a].locked
    /\ Claimed(need, S, u, a) + Leeway(S, inex, u, a) + bal2[u][a].locked
         <= Claimed(need2, S2, u, a) + Leeway(S2, inex2, u, a)
              + bal[u][a].locked

WealthFollows(S, bal, fee, net, S2, bal2, fee2, net2) ==
  \A a \in Assets :
    /\ Wealth(S, bal, a) \in Int /\ Wealth(S2, bal2, a) \in Int
    /\ Wealth(S2, bal2, a) + fee2[a] + net[a]
         = Wealth(S, bal, a) + fee[a] + net2[a]

(* The ledger holds on when each user's claims and locked funds change     *)
(* alike, up to rounding, and wealth, fees and deposits do.                *)
LEMMA LedgerStep ==
  ASSUME NEW need, NEW S, NEW bal, NEW inex, NEW fee, NEW net,
         Ledger(need, S, bal, inex, fee, net),
         NEW need2 \in Amounts, NEW S2 \in SUBSET Claims, IsFiniteSet(S2),
         NEW bal2 \in [Users -> [Assets -> Balance]],
         NEW inex2 \in [Users -> Nat],
         NEW fee2 \in [Assets -> Nat], NEW net2 \in [Assets -> Nat],
         LockedFollows(need, S, bal, inex, need2, S2, bal2, inex2),
         WealthFollows(S, bal, fee, net, S2, bal2, fee2, net2)
  PROVE  Ledger(need2, S2, bal2, inex2, fee2, net2)
<1>1. /\ need \in Amounts
      /\ S \in SUBSET Claims /\ IsFiniteSet(S)
      /\ bal \in [Users -> [Assets -> Balance]] /\ inex \in [Users -> Nat]
      /\ fee \in [Assets -> Nat] /\ net \in [Assets -> Nat]
      /\ \A u \in Users, a \in Assets :
           /\ Claimed(need, S, u, a) <= bal[u][a].locked
           /\ bal[u][a].locked <= Claimed(need, S, u, a) + Leeway(S, inex, u, a)
      /\ \A a \in Assets : Wealth(S, bal, a) + fee[a] = net[a]
  BY DEF Ledger
<1>2. ASSUME NEW u \in Users, NEW a \in Assets
      PROVE  /\ Claimed(need2, S2, u, a) <= bal2[u][a].locked
             /\ bal2[u][a].locked <= Claimed(need2, S2, u, a)
                                       + Leeway(S2, inex2, u, a)
  <2>1. /\ Claimed(need, S, u, a) \in Nat /\ Leeway(S, inex, u, a) \in Nat
        /\ bal[u][a].locked \in Nat
    BY <1>1, LedgerNumbers
  <2>2. /\ Claimed(need2, S2, u, a) \in Nat /\ Leeway(S2, inex2, u, a) \in Nat
        /\ bal2[u][a].locked \in Nat
    BY LedgerNumbers
  <2>3. /\ Claimed(need, S, u, a) <= bal[u][a].locked
        /\ bal[u][a].locked <= Claimed(need, S, u, a) + Leeway(S, inex, u, a)
    BY <1>1
  <2>4. /\ Claimed(need2, S2, u, a) + bal[u][a].locked
             <= Claimed(need, S, u, a) + bal2[u][a].locked
        /\ Claimed(need, S, u, a) + Leeway(S, inex, u, a) + bal2[u][a].locked
             <= Claimed(need2, S2, u, a) + Leeway(S2, inex2, u, a)
                  + bal[u][a].locked
    BY DEF LockedFollows
  <2> QED
    BY <2>1, <2>2, <2>3, <2>4
<1>3. ASSUME NEW a \in Assets
      PROVE  Wealth(S2, bal2, a) + fee2[a] = net2[a]
  <2>1. /\ Wealth(S, bal, a) + fee[a] = net[a] /\ fee[a] \in Nat
        /\ net[a] \in Nat /\ fee2[a] \in Nat /\ net2[a] \in Nat
    BY <1>1
  <2>2. /\ Wealth(S, bal, a) \in Int /\ Wealth(S2, bal2, a) \in Int
        /\ Wealth(S2, bal2, a) + fee2[a] + net[a]
             = Wealth(S, bal, a) + fee[a] + net2[a]
    BY DEF WealthFollows
  <2>3. PICK w \in Int, v \in Int :
          w = Wealth(S, bal, a) /\ v = Wealth(S2, bal2, a)
    BY <2>2
  <2>4. PICK f \in Nat, n \in Nat, g \in Nat, m \in Nat :
          f = fee[a] /\ n = net[a] /\ g = fee2[a] /\ m = net2[a]
    BY <2>1
  <2>5. w + f = n /\ v + g + n = w + f + m
    BY ONLY <2>1, <2>2, <2>3, <2>4
  <2>6. v + g = m
    BY ONLY <2>5, w \in Int, v \in Int, f \in Nat, n \in Nat, g \in Nat, m \in Nat
  <2> QED
    BY ONLY <2>3, <2>4, <2>6
<1> QED
  BY <1>2, <1>3 DEF Ledger

(* A deposit or a withdrawal of d.                                         *)
Transferred(bal, bal2, u, a, d) ==
  /\ u \in Users /\ a \in Assets /\ d \in Int
  /\ bal2 \in [Users -> [Assets -> Balance]]
  /\ bal2[u][a].available = bal[u][a].available + d
  /\ bal2[u][a].locked = bal[u][a].locked
  /\ \A v \in Users, b \in Assets : v # u \/ b # a => bal2[v][b] = bal[v][b]

(* A transfer keeps the ledger.                                            *)
LEMMA LedgerTransfer ==
  ASSUME NEW need, NEW S, NEW bal, NEW inex, NEW fee, NEW net,
         Ledger(need, S, bal, inex, fee, net),
         NEW u, NEW a, NEW d, NEW bal2, Transferred(bal, bal2, u, a, d)
  PROVE  Ledger(need, S, bal2, inex, fee, [net EXCEPT ![a] = @ + d])
<1> SUFFICES ASSUME u \in Users, a \in Assets, d \in Int,
                    bal2 \in [Users -> [Assets -> Balance]],
                    bal2[u][a].available = bal[u][a].available + d,
                    bal2[u][a].locked = bal[u][a].locked,
                    \A v \in Users, b \in Assets :
                      v # u \/ b # a => bal2[v][b] = bal[v][b],
                    NEW net2, net2 = [net EXCEPT ![a] = @ + d]
             PROVE  Ledger(need, S, bal2, inex, fee, net2)
  BY DEF Transferred
<1>1. /\ need \in Amounts
      /\ S \in SUBSET Claims /\ IsFiniteSet(S)
      /\ bal \in [Users -> [Assets -> Balance]] /\ inex \in [Users -> Nat]
      /\ fee \in [Assets -> Nat] /\ net \in [Assets -> Nat]
  BY DEF Ledger
<1>2. net2 \in [Assets -> Nat] /\ net2[a] = net[a] + d
      /\ \A b \in Assets : b # a => net2[b] = net[b]
  <2>1. bal[u][a].available <= net[a]
    BY LedgerCovers
  <2>2. /\ bal[u][a].available \in Nat /\ bal2[u][a].available \in Nat
        /\ net[a] \in Nat
    BY <1>1, LedgerNumbers
  <2>3. net[a] + d \in Nat
    BY <2>1, <2>2
  <2> QED
    BY <1>1, <2>3
<1>3. ASSUME NEW v \in Users, NEW b \in Assets
      PROVE  bal2[v][b].locked = bal[v][b].locked /\ bal[v][b].locked \in Nat
  BY <1>1, LedgerNumbers
<1>4. ASSUME NEW b \in Assets
      PROVE  /\ Wealth(S, bal, b) \in Int /\ Wealth(S, bal2, b) \in Int
             /\ Wealth(S, bal2, b) + fee[b] + net[b]
                  = Wealth(S, bal, b) + fee[b] + net2[b]
  <2>1. \A v \in Users : v # u => Worth(S, bal2, v, b) = Worth(S, bal, v, b)
    BY DEF Worth
  <2>2. /\ Wealth(S, bal, b) \in Int /\ Wealth(S, bal2, b) \in Int
        /\ Worth(S, bal, u, b) \in Int /\ Worth(S, bal2, u, b) \in Int
        /\ Wealth(S, bal2, b) = Wealth(S, bal, b) - Worth(S, bal, u, b)
                                  + Worth(S, bal2, u, b)
    BY <1>1, <2>1, WealthStep
  <2>3. fee[b] \in Nat /\ net[b] \in Nat /\ net2[b] \in Nat
    BY <1>1, <1>2
  <2>4. CASE b = a
    <3>1. /\ Tally(S, "pay", u, b) \in Nat /\ Tally(S, "get", u, b) \in Nat
          /\ bal[u][b].available \in Nat /\ bal[u][b].locked \in Nat
      BY <1>1, LedgerNumbers
    <3>2. Worth(S, bal2, u, b) = Worth(S, bal, u, b) + d
      BY <2>4, <3>1 DEF Worth
    <3>3. net2[b] = net[b] + d
      BY <1>2, <2>4
    <3>4. Wealth(S, bal2, b) = Wealth(S, bal, b) + d
      BY <2>2, <3>2
    <3>5. d \in Int
      OBVIOUS
    <3> QED
      BY ONLY <2>2, <2>3, <3>3, <3>4, <3>5
  <2>5. CASE b # a
    <3>1. Worth(S, bal2, u, b) = Worth(S, bal, u, b)
      BY <2>5 DEF Worth
    <3>2. net2[b] = net[b]
      BY <1>2, <2>5
    <3>3. Wealth(S, bal2, b) = Wealth(S, bal, b)
      BY <2>2, <3>1
    <3> QED
      BY <2>2, <2>3, <3>2, <3>3
  <2> QED
    BY <2>4, <2>5
<1>5. ASSUME NEW v \in Users, NEW b \in Assets
      PROVE  /\ Claimed(need, S, v, b) + bal[v][b].locked
                  <= Claimed(need, S, v, b) + bal2[v][b].locked
             /\ Claimed(need, S, v, b) + Leeway(S, inex, v, b)
                  + bal2[v][b].locked
                  <= Claimed(need, S, v, b) + Leeway(S, inex, v, b)
                       + bal[v][b].locked
  <2>1. Claimed(need, S, v, b) \in Nat /\ Leeway(S, inex, v, b) \in Nat
    BY <1>1, LedgerNumbers
  <2> QED
    BY <1>3, <2>1
<1>6. LockedFollows(need, S, bal, inex, need, S, bal2, inex)
  BY <1>5 DEF LockedFollows
<1>7. WealthFollows(S, bal, fee, net, S, bal2, fee, net2)
  BY <1>4 DEF WealthFollows
<1> QED
  BY <1>1, <1>2, <1>6, <1>7, LedgerStep

(* Orders move between the commands and the book: what resting orders need *)
(* and what is claimed change, their sum does not.                         *)
LEMMA LedgerMove ==
  ASSUME NEW need, NEW S, NEW bal, NEW inex, NEW fee, NEW net,
         Ledger(need, S, bal, inex, fee, net),
         NEW need2 \in Amounts, NEW S2 \in SUBSET Claims, IsFiniteSet(S2),
         \A u \in Users, a \in Assets :
           /\ Claimed(need2, S2, u, a) = Claimed(need, S, u, a)
           /\ \A f \in {"get", "pay", "slack"} :
                Tally(S2, f, u, a) = Tally(S, f, u, a)
  PROVE  Ledger(need2, S2, bal, inex, fee, net)
<1>1. ASSUME NEW u \in Users, NEW a \in Assets
      PROVE  /\ Leeway(S2, inex, u, a) = Leeway(S, inex, u, a)
             /\ Worth(S2, bal, u, a) = Worth(S, bal, u, a)
  BY DEF Leeway, Worth
<1>2. \A a \in Assets : Wealth(S2, bal, a) = Wealth(S, bal, a)
  BY <1>1 DEF Wealth
<1> QED
  BY <1>1, <1>2 DEF Ledger

(* R1 locks what an order claims.                                          *)
Reserves(bal, bal2, h) ==
  /\ h \in Claims /\ h.pay = 0 /\ h.get = 0 /\ h.slack = 0
  /\ bal2 \in [Users -> [Assets -> Balance]]
  /\ bal2[h.user][h.out].available = bal[h.user][h.out].available - h.claim
  /\ bal2[h.user][h.out].locked = bal[h.user][h.out].locked + h.claim
  /\ \A v \in Users, b \in Assets :
       v # h.user \/ b # h.out => bal2[v][b] = bal[v][b]

(* A reservation keeps the ledger.                                         *)
LEMMA LedgerReserve ==
  ASSUME NEW need, NEW S, NEW bal, NEW inex, NEW fee, NEW net,
         Ledger(need, S, bal, inex, fee, net),
         NEW h, h \notin S, NEW bal2, Reserves(bal, bal2, h)
  PROVE  Ledger(need, S \cup {h}, bal2, inex, fee, net)
<1> SUFFICES ASSUME
         h \in Claims, h.pay = 0, h.get = 0, h.slack = 0,
         bal2 \in [Users -> [Assets -> Balance]],
         bal2[h.user][h.out].available = bal[h.user][h.out].available - h.claim,
         bal2[h.user][h.out].locked = bal[h.user][h.out].locked + h.claim,
         \A v \in Users, b \in Assets :
           v # h.user \/ b # h.out => bal2[v][b] = bal[v][b]
             PROVE  Ledger(need, S \cup {h}, bal2, inex, fee, net)
  BY DEF Reserves
<1> DEFINE S2 == S \cup {h}
<1>1. /\ need \in Amounts
      /\ S \in SUBSET Claims /\ IsFiniteSet(S)
      /\ bal \in [Users -> [Assets -> Balance]] /\ inex \in [Users -> Nat]
      /\ fee \in [Assets -> Nat] /\ net \in [Assets -> Nat]
  BY DEF Ledger
<1>2. S2 \in SUBSET Claims /\ IsFiniteSet(S2)
  BY <1>1, FS_AddElement
<1>3. ASSUME NEW f, NEW v, NEW b
      PROVE  Tally(S2, f, v, b) = Tally(S, f, v, b) + Weight(h, f, v, b)
  BY <1>1, TallyPut
<1>4. h.claim \in Nat
  BY DEF Claims
<1> HIDE DEF S2
<1>5. ASSUME NEW v \in Users, NEW b \in Assets
      PROVE  /\ Claimed(need, S2, v, b) + bal[v][b].locked
                  = Claimed(need, S, v, b) + bal2[v][b].locked
             /\ Leeway(S2, inex, v, b) = Leeway(S, inex, v, b)
             /\ Worth(S2, bal2, v, b) = Worth(S, bal, v, b)
  <2>1. /\ need[v][b] \in Nat /\ Leeway(S, inex, v, b) \in Nat
        /\ Tally(S, "claim", v, b) \in Nat /\ Tally(S, "pay", v, b) \in Nat
        /\ Tally(S, "get", v, b) \in Nat /\ Tally(S, "slack", v, b) \in Nat
        /\ bal[v][b].available \in Nat /\ bal[v][b].locked \in Nat
    BY <1>1, LedgerNumbers
  <2>2. /\ Weight(h, "pay", v, b) = 0 /\ Weight(h, "get", v, b) = 0
        /\ Weight(h, "slack", v, b) = 0
    BY DEF Weight
  <2>3. /\ Tally(S2, "pay", v, b) = Tally(S, "pay", v, b)
        /\ Tally(S2, "get", v, b) = Tally(S, "get", v, b)
        /\ Tally(S2, "slack", v, b) = Tally(S, "slack", v, b)
        /\ Tally(S2, "claim", v, b)
             = Tally(S, "claim", v, b) + Weight(h, "claim", v, b)
    BY <1>3, <2>1, <2>2
  <2>4. Leeway(S2, inex, v, b) = Leeway(S, inex, v, b)
    BY <2>3 DEF Leeway
  <2>5. CASE v = h.user /\ b = h.out
    <3>1. Weight(h, "claim", v, b) = h.claim
      BY <2>5 DEF Weight
    <3>2. /\ bal2[v][b].available = bal[v][b].available - h.claim
          /\ bal2[v][b].locked = bal[v][b].locked + h.claim
      BY <2>5
    <3>3. Claimed(need, S2, v, b) + bal[v][b].locked
            = Claimed(need, S, v, b) + bal2[v][b].locked
      BY <1>4, <2>1, <2>3, <3>1, <3>2 DEF Claimed
    <3>4. Worth(S2, bal2, v, b) = Worth(S, bal, v, b)
      BY <1>4, <2>1, <2>3, <3>2 DEF Worth
    <3> QED
      BY <2>4, <3>3, <3>4
  <2>6. CASE ~(v = h.user /\ b = h.out)
    <3>1. Weight(h, "claim", v, b) = 0
      BY <2>6 DEF Weight
    <3>2. bal2[v][b] = bal[v][b]
      BY <2>6
    <3> QED
      BY <2>1, <2>3, <2>4, <3>1, <3>2 DEF Claimed, Worth
  <2> QED
    BY <2>5, <2>6
<1>6. \A b \in Assets : Wealth(S2, bal2, b) = Wealth(S, bal, b)
  BY <1>5 DEF Wealth
<1>7. ASSUME NEW b \in Assets
      PROVE  Wealth(S, bal, b) \in Int
  <2>1. \A v \in Users : Worth(S, bal, v, b) \in Int
    BY <1>1, WorthInt
  <2> DEFINE w == [v \in Users |-> Worth(S, bal, v, b)]
  <2>2. \A v \in Users : w[v] \in Int
    BY <2>1
  <2>3. Wealth(S, bal, b) = SumFunctionOnSet(w, Users)
    BY DEF Wealth, SumFunction
  <2> HIDE DEF w
  <2> QED
    BY <2>2, <2>3, SumInt, ShardAssumption
<1>8. ASSUME NEW v \in Users, NEW b \in Assets
      PROVE  /\ Claimed(need, S2, v, b) + bal[v][b].locked
                  <= Claimed(need, S, v, b) + bal2[v][b].locked
             /\ Claimed(need, S, v, b) + Leeway(S, inex, v, b)
                  + bal2[v][b].locked
                  <= Claimed(need, S2, v, b) + Leeway(S2, inex, v, b)
                       + bal[v][b].locked
  <2>1. /\ Claimed(need, S, v, b) \in Nat /\ Leeway(S, inex, v, b) \in Nat
        /\ bal[v][b].locked \in Nat
    BY <1>1, LedgerNumbers
  <2>2. Claimed(need, S2, v, b) \in Nat /\ bal2[v][b].locked \in Nat
    BY <1>1, <1>2, LedgerNumbers
  <2> QED
    BY <1>5, <2>1, <2>2
<1>10. LockedFollows(need, S, bal, inex, need, S2, bal2, inex)
  BY <1>8 DEF LockedFollows
<1>11. WealthFollows(S, bal, fee, net, S2, bal2, fee, net)
  BY <1>6, <1>7 DEF WealthFollows
<1>9. Ledger(need, S2, bal2, inex, fee, net)
  BY <1>1, <1>2, <1>10, <1>11, LedgerStep
<1> QED
  BY <1>9 DEF S2

(* The wealth of all users is a number.                                    *)
LEMMA WealthInt ==
  ASSUME NEW S \in SUBSET Claims, IsFiniteSet(S),
         NEW bal \in [Users -> [Assets -> Balance]], NEW a \in Assets
  PROVE  Wealth(S, bal, a) \in Int
<1>1. \A v \in Users : Worth(S, bal, v, a) \in Int
  BY WorthInt
<1> DEFINE w == [v \in Users |-> Worth(S, bal, v, a)]
<1>2. \A v \in Users : w[v] \in Int
  BY <1>1
<1>3. Wealth(S, bal, a) = SumFunctionOnSet(w, Users)
  BY DEF Wealth, SumFunction
<1> HIDE DEF w
<1> QED
  BY <1>2, <1>3, SumInt, ShardAssumption

(* R2 settles or releases a claim: what is not paid of it is given back,   *)
(* what the party gets arrives less a fee of k.                            *)
SettledWith(bal, bal2, d, k) ==
  /\ k \in Nat /\ bal2 \in [Users -> [Assets -> Balance]]
  /\ bal2[d.user][d.out].available
       = bal[d.user][d.out].available + (d.claim - d.pay)
  /\ bal2[d.user][d.out].locked = bal[d.user][d.out].locked - d.claim
  /\ bal2[d.user][d.in].available = bal[d.user][d.in].available + (d.get - k)
  /\ bal2[d.user][d.in].locked = bal[d.user][d.in].locked
  /\ \A v \in Users, b \in Assets : v # d.user => bal2[v][b] = bal[v][b]

(* The purchases with a fraction are counted.                              *)
CountedWith(inex, inex2, d) ==
  /\ inex2 \in [Users -> Nat]
  /\ \A v \in Users : v # d.user => inex2[v] = inex[v]
  /\ 2 * inex2[d.user] = 2 * inex[d.user] + d.slack
  /\ d.out = "quote" \/ d.slack = 0

(* A settlement keeps the ledger.                                          *)
LEMMA LedgerSettle ==
  ASSUME NEW need, NEW S, NEW bal, NEW inex, NEW fee, NEW net,
         Ledger(need, S, bal, inex, fee, net),
         NEW d \in S, NEW k, NEW bal2, NEW inex2,
         SettledWith(bal, bal2, d, k), CountedWith(inex, inex2, d)
  PROVE  Ledger(need, S \ {d}, bal2, inex2, [fee EXCEPT ![d.in] = @ + k], net)
<1> SUFFICES ASSUME
         k \in Nat,
         bal2 \in [Users -> [Assets -> Balance]],
         bal2[d.user][d.out].available
           = bal[d.user][d.out].available + (d.claim - d.pay),
         bal2[d.user][d.out].locked = bal[d.user][d.out].locked - d.claim,
         bal2[d.user][d.in].available
           = bal[d.user][d.in].available + (d.get - k),
         bal2[d.user][d.in].locked = bal[d.user][d.in].locked,
         \A v \in Users, b \in Assets : v # d.user => bal2[v][b] = bal[v][b],
         NEW fee2, fee2 = [fee EXCEPT ![d.in] = @ + k],
         inex2 \in [Users -> Nat],
         \A v \in Users : v # d.user => inex2[v] = inex[v],
         2 * inex2[d.user] = 2 * inex[d.user] + d.slack,
         d.out = "quote" \/ d.slack = 0
             PROVE  Ledger(need, S \ {d}, bal2, inex2, fee2, net)
  BY DEF SettledWith, CountedWith
<1> DEFINE S2 == S \ {d}
<1>1. /\ need \in Amounts
      /\ S \in SUBSET Claims /\ IsFiniteSet(S)
      /\ bal \in [Users -> [Assets -> Balance]] /\ inex \in [Users -> Nat]
      /\ fee \in [Assets -> Nat] /\ net \in [Assets -> Nat]
  BY DEF Ledger
<1>2. S2 \in SUBSET Claims /\ IsFiniteSet(S2)
  BY <1>1, FS_RemoveElement
<1>3. ASSUME NEW f, NEW v, NEW b
      PROVE  Tally(S2, f, v, b) = Tally(S, f, v, b) - Weight(d, f, v, b)
  BY <1>1, TallyDrop
<1>4. /\ d.user \in Users /\ d.out \in Assets /\ d.in \in Assets
      /\ d.in # d.out /\ d.claim \in Nat /\ d.pay \in Nat /\ d.get \in Nat
      /\ d.slack \in Nat
  BY <1>1 DEF Claims
<1>5. /\ fee2 \in [Assets -> Nat] /\ fee2[d.in] = fee[d.in] + k
      /\ \A b \in Assets : b # d.in => fee2[b] = fee[b]
  BY <1>1, <1>4
<1> HIDE DEF S2
<1>6. ASSUME NEW v \in Users, NEW b \in Assets
      PROVE  /\ Claimed(need, S2, v, b) + bal[v][b].locked
                  = Claimed(need, S, v, b) + bal2[v][b].locked
             /\ Leeway(S2, inex2, v, b) = Leeway(S, inex, v, b)
             /\ Worth(S, bal, v, b) \in Int
             /\ Worth(S2, bal2, v, b)
                  = IF v = d.user /\ b = d.in THEN Worth(S, bal, v, b) - k
                                              ELSE Worth(S, bal, v, b)
  <2>1. /\ need[v][b] \in Nat /\ inex[v] \in Nat /\ inex2[v] \in Nat
        /\ Tally(S, "claim", v, b) \in Nat /\ Tally(S, "pay", v, b) \in Nat
        /\ Tally(S, "get", v, b) \in Nat /\ Tally(S, "slack", v, b) \in Nat
        /\ bal[v][b].available \in Nat /\ bal[v][b].locked \in Nat
        /\ bal2[v][b].available \in Nat /\ bal2[v][b].locked \in Nat
        /\ Worth(S, bal, v, b) \in Int
    BY <1>1, LedgerNumbers
  <2>2. /\ Tally(S2, "claim", v, b)
             = Tally(S, "claim", v, b) - Weight(d, "claim", v, b)
        /\ Tally(S2, "pay", v, b)
             = Tally(S, "pay", v, b) - Weight(d, "pay", v, b)
        /\ Tally(S2, "get", v, b)
             = Tally(S, "get", v, b) - Weight(d, "get", v, b)
        /\ Tally(S2, "slack", v, b)
             = Tally(S, "slack", v, b) - Weight(d, "slack", v, b)
    BY <1>3
  <2>3. CASE v # d.user
    <3>1. /\ Weight(d, "claim", v, b) = 0 /\ Weight(d, "pay", v, b) = 0
          /\ Weight(d, "get", v, b) = 0 /\ Weight(d, "slack", v, b) = 0
      BY <2>3 DEF Weight
    <3>2. /\ Tally(S2, "claim", v, b) = Tally(S, "claim", v, b)
          /\ Tally(S2, "pay", v, b) = Tally(S, "pay", v, b)
          /\ Tally(S2, "get", v, b) = Tally(S, "get", v, b)
          /\ Tally(S2, "slack", v, b) = Tally(S, "slack", v, b)
      BY <2>1, <2>2, <3>1
    <3>3. bal2[v][b] = bal[v][b] /\ inex2[v] = inex[v]
      BY <2>3
    <3> QED
      BY <2>1, <2>3, <3>2, <3>3 DEF Claimed, Leeway, Worth
  <2>4. CASE v = d.user /\ b = d.out
    <3>1. /\ Weight(d, "claim", v, b) = d.claim /\ Weight(d, "pay", v, b) = d.pay
          /\ Weight(d, "get", v, b) = 0 /\ Weight(d, "slack", v, b) = d.slack
      BY <1>4, <2>4 DEF Weight
    <3>2. /\ bal2[v][b].available = bal[v][b].available + (d.claim - d.pay)
          /\ bal2[v][b].locked = bal[v][b].locked - d.claim
          /\ 2 * inex2[v] = 2 * inex[v] + d.slack
          /\ b = "quote" \/ d.slack = 0
      BY <2>4
    <3>3. Claimed(need, S2, v, b) + bal[v][b].locked
            = Claimed(need, S, v, b) + bal2[v][b].locked
      BY <1>4, <2>1, <2>2, <3>1, <3>2 DEF Claimed
    <3>4. Leeway(S2, inex2, v, b) = Leeway(S, inex, v, b)
      BY <1>4, <2>1, <2>2, <3>1, <3>2 DEF Leeway
    <3>5. Worth(S2, bal2, v, b) = Worth(S, bal, v, b)
      BY <1>4, <2>1, <2>2, <3>1, <3>2 DEF Worth
    <3> QED
      BY <1>4, <2>1, <2>4, <3>3, <3>4, <3>5
  <2>5. CASE v = d.user /\ b = d.in
    <3>1. /\ Weight(d, "claim", v, b) = 0 /\ Weight(d, "pay", v, b) = 0
          /\ Weight(d, "get", v, b) = d.get /\ Weight(d, "slack", v, b) = 0
      BY <1>4, <2>5 DEF Weight
    <3>2. /\ bal2[v][b].available = bal[v][b].available + (d.get - k)
          /\ bal2[v][b].locked = bal[v][b].locked
          /\ 2 * inex2[v] = 2 * inex[v] + d.slack
          /\ b # "quote" \/ d.slack = 0
      BY <1>4, <2>5
    <3>3. Claimed(need, S2, v, b) + bal[v][b].locked
            = Claimed(need, S, v, b) + bal2[v][b].locked
      BY <1>4, <2>1, <2>2, <3>1, <3>2 DEF Claimed
    <3>4. Leeway(S2, inex2, v, b) = Leeway(S, inex, v, b)
      BY <1>4, <2>1, <2>2, <3>1, <3>2 DEF Leeway
    <3>5. Worth(S2, bal2, v, b) = Worth(S, bal, v, b) - k
      BY <1>4, <2>1, <2>2, <3>1, <3>2 DEF Worth
    <3> QED
      BY <2>1, <2>5, <3>3, <3>4, <3>5
  <2>6. b = d.in \/ b = d.out
    BY <1>4 DEF Assets
  <2> QED
    BY <2>3, <2>4, <2>5, <2>6
<1>7. ASSUME NEW b \in Assets
      PROVE  /\ Wealth(S, bal, b) \in Int /\ Wealth(S2, bal2, b) \in Int
             /\ Wealth(S2, bal2, b) + fee2[b] + net[b]
                  = Wealth(S, bal, b) + fee[b] + net[b]
  <2>1. \A v \in Users :
          v # d.user => Worth(S2, bal2, v, b) = Worth(S, bal, v, b)
    BY <1>6
  <2>2. /\ Wealth(S, bal, b) \in Int /\ Wealth(S2, bal2, b) \in Int
        /\ Worth(S, bal, d.user, b) \in Int
        /\ Worth(S2, bal2, d.user, b) \in Int
        /\ Wealth(S2, bal2, b) = Wealth(S, bal, b) - Worth(S, bal, d.user, b)
                                   + Worth(S2, bal2, d.user, b)
    <3>1. PICK u : u = d.user
      OBVIOUS
    <3>2. /\ S \in SUBSET Claims /\ IsFiniteSet(S) /\ S2 \in SUBSET Claims
          /\ IsFiniteSet(S2) /\ bal \in [Users -> [Assets -> Balance]]
          /\ bal2 \in [Users -> [Assets -> Balance]] /\ u \in Users
          /\ b \in Assets
          /\ \A v \in Users : v # u => Worth(S2, bal2, v, b) = Worth(S, bal, v, b)
      BY <1>1, <1>2, <1>4, <2>1, <3>1
    <3>3. /\ Wealth(S, bal, b) \in Int /\ Wealth(S2, bal2, b) \in Int
          /\ Worth(S, bal, u, b) \in Int /\ Worth(S2, bal2, u, b) \in Int
          /\ Wealth(S2, bal2, b) = Wealth(S, bal, b) - Worth(S, bal, u, b)
                                     + Worth(S2, bal2, u, b)
      BY ONLY <3>2, WealthStep
    <3> QED
      BY <3>1, <3>3
  <2>3. fee[b] \in Nat /\ net[b] \in Nat /\ fee2[b] \in Nat
    BY <1>1, <1>5
  <2>4. CASE b = d.in
    <3>1. Worth(S2, bal2, d.user, b) = Worth(S, bal, d.user, b) - k
      BY <1>4, <1>6, <2>4
    <3>2. fee2[b] = fee[b] + k
      BY <1>5, <2>4
    <3>3. Wealth(S2, bal2, b) = Wealth(S, bal, b) - k
      BY <2>2, <3>1
    <3> QED
      BY <2>2, <2>3, <3>2, <3>3
  <2>5. CASE b # d.in
    <3>1. Worth(S2, bal2, d.user, b) = Worth(S, bal, d.user, b)
      BY <1>4, <1>6, <2>5
    <3>2. fee2[b] = fee[b]
      BY <1>5, <2>5
    <3>3. Wealth(S2, bal2, b) = Wealth(S, bal, b)
      BY <2>2, <3>1
    <3> QED
      BY <2>2, <2>3, <3>2, <3>3
  <2> QED
    BY <2>4, <2>5
<1>8. LockedFollows(need, S, bal, inex, need, S2, bal2, inex2)
  <2> SUFFICES ASSUME NEW v \in Users, NEW b \in Assets
               PROVE  /\ Claimed(need, S2, v, b) + bal[v][b].locked
                           <= Claimed(need, S, v, b) + bal2[v][b].locked
                      /\ Claimed(need, S, v, b) + Leeway(S, inex, v, b)
                           + bal2[v][b].locked
                           <= Claimed(need, S2, v, b) + Leeway(S2, inex2, v, b)
                                + bal[v][b].locked
    BY DEF LockedFollows
  <2>1. /\ Claimed(need, S, v, b) \in Nat /\ Leeway(S, inex, v, b) \in Nat
        /\ bal[v][b].locked \in Nat
    BY <1>1, LedgerNumbers
  <2>2. Claimed(need, S2, v, b) \in Nat /\ bal2[v][b].locked \in Nat
    BY <1>1, <1>2, LedgerNumbers
  <2> QED
    BY <1>6, <2>1, <2>2
<1>9. WealthFollows(S, bal, fee, net, S2, bal2, fee2, net)
  BY <1>7 DEF WealthFollows
<1>10. Ledger(need, S2, bal2, inex2, fee2, net)
  BY <1>1, <1>2, <1>5, <1>8, <1>9, LedgerStep
<1> QED
  BY <1>10 DEF S2

(* A trade: the taker's claim h becomes h2, the maker's resting order      *)
(* needs less, and two settlements are due, d1 of the maker and d2 of the  *)
(* taker; what one pays the other gets.                                    *)
TradeClaims(h, h2, d1, d2) ==
  /\ h2 \in Claims /\ d1 \in Claims /\ d2 \in Claims
  /\ h2 # d1 /\ h2 # d2 /\ d1 # d2
  /\ h.pay = 0 /\ h.get = 0 /\ h.slack = 0
  /\ h2.pay = 0 /\ h2.get = 0 /\ h2.slack = 0
  /\ h2.user = h.user /\ h2.out = h.out
  /\ d2.user = h.user /\ d2.out = h.out
  /\ d1.user # h.user /\ d1.out = d2.in /\ d1.in = d2.out
  /\ d1.pay = d2.get /\ d2.pay = d1.get
  /\ h2.claim + d2.claim <= h.claim
  /\ h.claim <= h2.claim + d2.claim + d2.slack

NeedFalls(need, need2, d1) ==
  /\ need2 \in Amounts
  /\ need2[d1.user][d1.out] + d1.claim <= need[d1.user][d1.out]
  /\ need[d1.user][d1.out] <= need2[d1.user][d1.out] + d1.claim + d1.slack
  /\ \A v \in Users, b \in Assets :
       v # d1.user \/ b # d1.out => need2[v][b] = need[v][b]

(* A trade keeps the ledger.                                               *)
LEMMA LedgerFill ==
  ASSUME NEW need, NEW S, NEW bal, NEW inex, NEW fee, NEW net,
         Ledger(need, S, bal, inex, fee, net),
         NEW h \in S, NEW h2, NEW d1, NEW d2, NEW need2,
         h2 \notin S \ {h}, d1 \notin S, d2 \notin S,
         TradeClaims(h, h2, d1, d2), NeedFalls(need, need2, d1)
  PROVE  Ledger(need2, (S \ {h}) \cup {h2, d1, d2}, bal, inex, fee, net)
<1> SUFFICES ASSUME
         h2 \in Claims, d1 \in Claims, d2 \in Claims,
         h2 # d1, h2 # d2, d1 # d2,
         h.pay = 0, h.get = 0, h.slack = 0,
         h2.pay = 0, h2.get = 0, h2.slack = 0,
         h2.user = h.user, h2.out = h.out,
         d2.user = h.user, d2.out = h.out,
         d1.user # h.user, d1.out = d2.in, d1.in = d2.out,
         d1.pay = d2.get, d2.pay = d1.get,
         h2.claim + d2.claim <= h.claim,
         h.claim <= h2.claim + d2.claim + d2.slack,
         need2 \in Amounts,
         need2[d1.user][d1.out] + d1.claim <= need[d1.user][d1.out],
         need[d1.user][d1.out] <= need2[d1.user][d1.out] + d1.claim + d1.slack,
         \A v \in Users, b \in Assets :
           v # d1.user \/ b # d1.out => need2[v][b] = need[v][b]
             PROVE  Ledger(need2, (S \ {h}) \cup {h2, d1, d2}, bal, inex, fee, net)
  BY DEF TradeClaims, NeedFalls
<1> DEFINE R == S \ {h}
           R1 == R \cup {h2}
           R2 == R1 \cup {d1}
           S2 == R2 \cup {d2}
<1>1. /\ need \in Amounts
      /\ S \in SUBSET Claims /\ IsFiniteSet(S)
      /\ bal \in [Users -> [Assets -> Balance]] /\ inex \in [Users -> Nat]
      /\ fee \in [Assets -> Nat] /\ net \in [Assets -> Nat]
  BY DEF Ledger
<1>2. R \in SUBSET Claims /\ IsFiniteSet(R) /\ h2 \notin R
  BY <1>1, FS_RemoveElement
<1>3. R1 \in SUBSET Claims /\ IsFiniteSet(R1) /\ d1 \notin R1
  BY <1>2, FS_AddElement
<1>4. R2 \in SUBSET Claims /\ IsFiniteSet(R2) /\ d2 \notin R2
  <2>1. IsFiniteSet(R2)
    BY <1>3, FS_AddElement
  <2> QED
    BY <1>3, <2>1
<1>5. S2 \in SUBSET Claims /\ IsFiniteSet(S2)
  <2>1. IsFiniteSet(S2)
    BY <1>4, FS_AddElement
  <2> QED
    BY <1>4, <2>1
<1>6. (S \ {h}) \cup {h2, d1, d2} = S2
  OBVIOUS
<1>7. ASSUME NEW f, NEW v, NEW b
      PROVE  /\ Tally(S, f, v, b) \in Nat
             /\ Weight(h, f, v, b) \in Nat /\ Weight(h2, f, v, b) \in Nat
             /\ Weight(d1, f, v, b) \in Nat /\ Weight(d2, f, v, b) \in Nat
             /\ Tally(S2, f, v, b)
                  = (Tally(S, f, v, b) - Weight(h, f, v, b))
                      + (Weight(h2, f, v, b) + Weight(d1, f, v, b)
                           + Weight(d2, f, v, b))
  <2>1. /\ Weight(h, f, v, b) \in Nat /\ Weight(h2, f, v, b) \in Nat
        /\ Weight(d1, f, v, b) \in Nat /\ Weight(d2, f, v, b) \in Nat
    BY <1>1, WeightNat
  <2>2. Tally(S, f, v, b) \in Nat
    BY <1>1, TallyNat
  <2>3. Tally(R, f, v, b) = Tally(S, f, v, b) - Weight(h, f, v, b)
    BY <1>1, TallyDrop
  <2>4. Tally(R1, f, v, b) = Tally(R, f, v, b) + Weight(h2, f, v, b)
    BY <1>2, TallyPut
  <2> HIDE DEF R1
  <2>5. Tally(R2, f, v, b) = Tally(R1, f, v, b) + Weight(d1, f, v, b)
    BY <1>3, TallyPut
  <2> HIDE DEF R2
  <2>6. Tally(S2, f, v, b) = Tally(R2, f, v, b) + Weight(d2, f, v, b)
    BY <1>4, TallyPut
  <2> HIDE DEF S2, R
  <2> QED
    BY <2>1, <2>2, <2>3, <2>4, <2>5, <2>6
<1> HIDE DEF S2, R, R1, R2
<1>8. /\ h.user \in Users /\ h.out \in Assets /\ d1.user \in Users
      /\ d2.in \in Assets /\ d2.in # d2.out
      /\ h.claim \in Nat /\ h2.claim \in Nat
      /\ d1.claim \in Nat /\ d1.pay \in Nat /\ d1.get \in Nat /\ d1.slack \in Nat
      /\ d2.claim \in Nat /\ d2.pay \in Nat /\ d2.get \in Nat /\ d2.slack \in Nat
  BY <1>1 DEF Claims
<1>w. ASSUME NEW v \in Users, NEW b \in Assets
      PROVE  /\ need[v][b] \in Nat /\ need2[v][b] \in Nat /\ inex[v] \in Nat
             /\ bal[v][b].locked \in Nat /\ bal[v][b].available \in Nat
             /\ Worth(S, bal, v, b) \in Int /\ Worth(S2, bal, v, b) \in Int
  BY <1>1, <1>5, LedgerNumbers
<1>9. ASSUME NEW b \in Assets, b = h.out
      PROVE  /\ Worth(S2, bal, h.user, b) = Worth(S, bal, h.user, b) - d2.pay
             /\ Worth(S2, bal, d1.user, b) = Worth(S, bal, d1.user, b) + d2.pay
  <2>1. /\ Weight(h, "pay", h.user, b) = 0 /\ Weight(h, "get", h.user, b) = 0
        /\ Weight(h2, "pay", h.user, b) = 0 /\ Weight(h2, "get", h.user, b) = 0
        /\ Weight(d1, "pay", h.user, b) = 0 /\ Weight(d1, "get", h.user, b) = 0
        /\ Weight(d2, "pay", h.user, b) = d2.pay
        /\ Weight(d2, "get", h.user, b) = 0
    BY <1>8, <1>9 DEF Weight
  <2>2. /\ Tally(S2, "pay", h.user, b) = Tally(S, "pay", h.user, b) + d2.pay
        /\ Tally(S2, "get", h.user, b) = Tally(S, "get", h.user, b)
        /\ Tally(S, "pay", h.user, b) \in Nat /\ Tally(S, "get", h.user, b) \in Nat
    BY <1>7, <1>8, <2>1
  <2>3. /\ Weight(h, "pay", d1.user, b) = 0 /\ Weight(h, "get", d1.user, b) = 0
        /\ Weight(h2, "pay", d1.user, b) = 0
        /\ Weight(h2, "get", d1.user, b) = 0
        /\ Weight(d1, "pay", d1.user, b) = 0
        /\ Weight(d1, "get", d1.user, b) = d2.pay
        /\ Weight(d2, "pay", d1.user, b) = 0 /\ Weight(d2, "get", d1.user, b) = 0
    BY <1>8, <1>9 DEF Weight
  <2>4. /\ Tally(S2, "pay", d1.user, b) = Tally(S, "pay", d1.user, b)
        /\ Tally(S2, "get", d1.user, b) = Tally(S, "get", d1.user, b) + d2.pay
        /\ Tally(S, "pay", d1.user, b) \in Nat
        /\ Tally(S, "get", d1.user, b) \in Nat
    BY <1>7, <1>8, <2>3
  <2> QED
    BY <1>8, <1>w, <2>2, <2>4 DEF Worth
<1>10. ASSUME NEW b \in Assets, b = d1.out
       PROVE  /\ Worth(S2, bal, h.user, b) = Worth(S, bal, h.user, b) + d1.pay
              /\ Worth(S2, bal, d1.user, b) = Worth(S, bal, d1.user, b) - d1.pay
  <2>1. /\ Weight(h, "pay", h.user, b) = 0 /\ Weight(h, "get", h.user, b) = 0
        /\ Weight(h2, "pay", h.user, b) = 0 /\ Weight(h2, "get", h.user, b) = 0
        /\ Weight(d1, "pay", h.user, b) = 0 /\ Weight(d1, "get", h.user, b) = 0
        /\ Weight(d2, "pay", h.user, b) = 0
        /\ Weight(d2, "get", h.user, b) = d1.pay
    BY <1>8, <1>10 DEF Weight
  <2>2. /\ Tally(S2, "pay", h.user, b) = Tally(S, "pay", h.user, b)
        /\ Tally(S2, "get", h.user, b) = Tally(S, "get", h.user, b) + d1.pay
        /\ Tally(S, "pay", h.user, b) \in Nat /\ Tally(S, "get", h.user, b) \in Nat
    BY <1>7, <1>8, <2>1
  <2>3. /\ Weight(h, "pay", d1.user, b) = 0 /\ Weight(h, "get", d1.user, b) = 0
        /\ Weight(h2, "pay", d1.user, b) = 0
        /\ Weight(h2, "get", d1.user, b) = 0
        /\ Weight(d1, "pay", d1.user, b) = d1.pay
        /\ Weight(d1, "get", d1.user, b) = 0
        /\ Weight(d2, "pay", d1.user, b) = 0 /\ Weight(d2, "get", d1.user, b) = 0
    BY <1>8, <1>10 DEF Weight
  <2>4. /\ Tally(S2, "pay", d1.user, b) = Tally(S, "pay", d1.user, b) + d1.pay
        /\ Tally(S2, "get", d1.user, b) = Tally(S, "get", d1.user, b)
        /\ Tally(S, "pay", d1.user, b) \in Nat
        /\ Tally(S, "get", d1.user, b) \in Nat
    BY <1>7, <1>8, <2>3
  <2> QED
    BY <1>8, <1>w, <2>2, <2>4 DEF Worth
<1>11. ASSUME NEW v \in Users, NEW b \in Assets, v # h.user, v # d1.user
       PROVE  Worth(S2, bal, v, b) = Worth(S, bal, v, b)
  <2>1. ASSUME NEW f
        PROVE  Tally(S2, f, v, b) = Tally(S, f, v, b)
    <3>1. /\ Weight(h, f, v, b) = 0 /\ Weight(h2, f, v, b) = 0
          /\ Weight(d1, f, v, b) = 0 /\ Weight(d2, f, v, b) = 0
      BY <1>11 DEF Weight
    <3> QED
      BY <1>7, <3>1
  <2> QED
    BY <2>1 DEF Worth
<1>12. ASSUME NEW b \in Assets
       PROVE  /\ Wealth(S2, bal, b) = Wealth(S, bal, b)
              /\ Wealth(S, bal, b) \in Int
  <2> DEFINE w == [v \in Users |-> Worth(S, bal, v, b)]
             x == [v \in Users |-> Worth(S2, bal, v, b)]
  <2>1. b = h.out \/ b = d1.out
    BY <1>8 DEF Assets
  <2>2. x[h.user] + x[d1.user] = w[h.user] + w[d1.user]
    <3>1. /\ Worth(S, bal, h.user, b) \in Int /\ Worth(S, bal, d1.user, b) \in Int
      BY <1>8, <1>w
    <3>2. CASE b = h.out
      BY <1>8, <1>9, <3>1, <3>2
    <3>3. CASE b = d1.out
      BY <1>8, <1>10, <3>1, <3>3
    <3> QED
      BY <2>1, <3>2, <3>3
  <2>3. /\ w \in [Users -> Int] /\ x \in [Users -> Int]
        /\ \A v \in Users : v # h.user /\ v # d1.user => x[v] = w[v]
    BY <1>11, <1>w
  <2>4. Wealth(S, bal, b) = SumFunction(w) /\ Wealth(S2, bal, b) = SumFunction(x)
    BY DEF Wealth
  <2> HIDE DEF w, x
  <2>5. SumFunction(x) = SumFunction(w)
    BY <1>8, <2>2, <2>3, WealthTwo
  <2> QED
    BY <1>1, <2>4, <2>5, WealthInt
<1>13. ASSUME NEW v \in Users, NEW b \in Assets
       PROVE  /\ Claimed(need2, S2, v, b) <= Claimed(need, S, v, b)
              /\ Claimed(need, S, v, b) + Leeway(S, inex, v, b)
                   <= Claimed(need2, S2, v, b) + Leeway(S2, inex, v, b)
  <2>1. CASE v = h.user /\ b = h.out
    <3>1. /\ Weight(h, "claim", v, b) = h.claim
          /\ Weight(h2, "claim", v, b) = h2.claim
          /\ Weight(d1, "claim", v, b) = 0
          /\ Weight(d2, "claim", v, b) = d2.claim
          /\ Weight(h, "slack", v, b) = 0 /\ Weight(h2, "slack", v, b) = 0
          /\ Weight(d1, "slack", v, b) = 0
          /\ Weight(d2, "slack", v, b) = d2.slack
      BY <1>8, <2>1 DEF Weight
    <3>2. need2[v][b] = need[v][b]
      BY <1>8, <2>1
    <3>3. /\ Tally(S2, "claim", v, b)
               = (Tally(S, "claim", v, b) - h.claim) + (h2.claim + d2.claim)
          /\ Tally(S2, "slack", v, b) = Tally(S, "slack", v, b) + d2.slack
          /\ Tally(S, "claim", v, b) \in Nat /\ Tally(S, "slack", v, b) \in Nat
      BY <1>7, <1>8, <3>1
    <3>4. Claimed(need2, S2, v, b) <= Claimed(need, S, v, b)
      BY <1>8, <1>w, <3>2, <3>3 DEF Claimed
    <3>5. Claimed(need, S, v, b) <= Claimed(need2, S2, v, b) + d2.slack
      BY <1>8, <1>w, <3>2, <3>3 DEF Claimed
    <3>6. Leeway(S2, inex, v, b) = Leeway(S, inex, v, b) + d2.slack
      BY <1>8, <1>w, <3>3 DEF Leeway
    <3>7. /\ Claimed(need, S, v, b) \in Nat /\ Claimed(need2, S2, v, b) \in Nat
          /\ Leeway(S, inex, v, b) \in Nat
      BY <1>1, <1>5, LedgerNumbers
    <3> QED
      BY <1>8, <3>4, <3>5, <3>6, <3>7
  <2>2. CASE v = d1.user /\ b = d1.out
    <3>1. /\ Weight(h, "claim", v, b) = 0 /\ Weight(h2, "claim", v, b) = 0
          /\ Weight(d1, "claim", v, b) = d1.claim
          /\ Weight(d2, "claim", v, b) = 0
          /\ Weight(h, "slack", v, b) = 0 /\ Weight(h2, "slack", v, b) = 0
          /\ Weight(d1, "slack", v, b) = d1.slack
          /\ Weight(d2, "slack", v, b) = 0
      BY <1>8, <2>2 DEF Weight
    <3>2. /\ need2[v][b] + d1.claim <= need[v][b]
          /\ need[v][b] <= need2[v][b] + d1.claim + d1.slack
      BY <1>8, <2>2
    <3>3. /\ Tally(S2, "claim", v, b) = Tally(S, "claim", v, b) + d1.claim
          /\ Tally(S2, "slack", v, b) = Tally(S, "slack", v, b) + d1.slack
          /\ Tally(S, "claim", v, b) \in Nat /\ Tally(S, "slack", v, b) \in Nat
      BY <1>7, <1>8, <3>1
    <3>4. Claimed(need2, S2, v, b) <= Claimed(need, S, v, b)
      BY <1>8, <1>w, <3>2, <3>3 DEF Claimed
    <3>5. Claimed(need, S, v, b) <= Claimed(need2, S2, v, b) + d1.slack
      BY <1>8, <1>w, <3>2, <3>3 DEF Claimed
    <3>6. Leeway(S2, inex, v, b) = Leeway(S, inex, v, b) + d1.slack
      BY <1>8, <1>w, <3>3 DEF Leeway
    <3>7. /\ Claimed(need, S, v, b) \in Nat /\ Claimed(need2, S2, v, b) \in Nat
          /\ Leeway(S, inex, v, b) \in Nat
      BY <1>1, <1>5, LedgerNumbers
    <3> QED
      BY <1>8, <3>4, <3>5, <3>6, <3>7
  <2>3. CASE ~(v = h.user /\ b = h.out) /\ ~(v = d1.user /\ b = d1.out)
    <3>1. /\ Weight(h, "claim", v, b) = 0 /\ Weight(h2, "claim", v, b) = 0
          /\ Weight(d1, "claim", v, b) = 0 /\ Weight(d2, "claim", v, b) = 0
          /\ Weight(h, "slack", v, b) = 0 /\ Weight(h2, "slack", v, b) = 0
          /\ Weight(d1, "slack", v, b) = 0 /\ Weight(d2, "slack", v, b) = 0
      BY <1>8, <2>3 DEF Weight
    <3>2. need2[v][b] = need[v][b]
      BY <2>3
    <3>3. /\ Tally(S2, "claim", v, b) = Tally(S, "claim", v, b)
          /\ Tally(S2, "slack", v, b) = Tally(S, "slack", v, b)
      BY <1>7, <3>1
    <3>4. /\ Claimed(need2, S2, v, b) = Claimed(need, S, v, b)
          /\ Leeway(S2, inex, v, b) = Leeway(S, inex, v, b)
      BY <3>2, <3>3 DEF Claimed, Leeway
    <3>7. Claimed(need, S, v, b) \in Nat /\ Leeway(S, inex, v, b) \in Nat
      BY <1>1, LedgerNumbers
    <3> QED
      BY <3>4, <3>7
  <2> QED
    BY <2>1, <2>2, <2>3
<1>14. LockedFollows(need, S, bal, inex, need2, S2, bal, inex)
  <2> SUFFICES ASSUME NEW v \in Users, NEW b \in Assets
               PROVE  /\ Claimed(need2, S2, v, b) + bal[v][b].locked
                           <= Claimed(need, S, v, b) + bal[v][b].locked
                      /\ Claimed(need, S, v, b) + Leeway(S, inex, v, b)
                           + bal[v][b].locked
                           <= Claimed(need2, S2, v, b) + Leeway(S2, inex, v, b)
                                + bal[v][b].locked
    BY DEF LockedFollows
  <2>1. /\ Claimed(need, S, v, b) \in Nat /\ Claimed(need2, S2, v, b) \in Nat
        /\ Leeway(S, inex, v, b) \in Nat /\ Leeway(S2, inex, v, b) \in Nat
        /\ bal[v][b].locked \in Nat
    BY <1>1, <1>5, LedgerNumbers
  <2> QED
    BY <1>13, <2>1
<1>15. WealthFollows(S, bal, fee, net, S2, bal, fee, net)
  BY <1>12 DEF WealthFollows
<1>16. Ledger(need2, S2, bal, inex, fee, net)
  BY <1>1, <1>5, <1>14, <1>15, LedgerStep
<1> QED
  BY <1>6, <1>16

(* A claim that only holds funds.                                          *)
Holds(h) == h \in Claims /\ h.pay = 0 /\ h.get = 0 /\ h.slack = 0

(* need2 and the claim h make up need.                                     *)
Splits(need, need2, h) ==
  /\ need2 \in Amounts
  /\ need[h.user][h.out] = need2[h.user][h.out] + h.claim
  /\ \A v \in Users, b \in Assets :
       v # h.user \/ b # h.out => need2[v][b] = need[v][b]

(* An order leaves the book, and the command holds what it needed.         *)
LEMMA LedgerTakeOff ==
  ASSUME NEW need, NEW S, NEW bal, NEW inex, NEW fee, NEW net,
         Ledger(need, S, bal, inex, fee, net),
         NEW h, h \notin S, Holds(h), NEW need2, Splits(need, need2, h)
  PROVE  Ledger(need2, S \cup {h}, bal, inex, fee, net)
<1> DEFINE S2 == S \cup {h}
<1>1. /\ need \in Amounts /\ need2 \in Amounts
      /\ S \in SUBSET Claims /\ IsFiniteSet(S)
      /\ bal \in [Users -> [Assets -> Balance]] /\ inex \in [Users -> Nat]
      /\ h \in Claims
  BY DEF Ledger, Splits, Holds
<1>2. S2 \in SUBSET Claims /\ IsFiniteSet(S2)
  BY <1>1, FS_AddElement
<1>3. ASSUME NEW f, NEW v, NEW b
      PROVE  Tally(S2, f, v, b) = Tally(S, f, v, b) + Weight(h, f, v, b)
  BY <1>1, TallyPut
<1>4. h.claim \in Nat
  BY <1>1 DEF Claims
<1> HIDE DEF S2
<1>5. ASSUME NEW v \in Users, NEW b \in Assets
      PROVE  /\ Claimed(need2, S2, v, b) = Claimed(need, S, v, b)
             /\ \A f \in {"get", "pay", "slack"} :
                  Tally(S2, f, v, b) = Tally(S, f, v, b)
  <2>1. /\ need[v][b] \in Nat /\ need2[v][b] \in Nat
        /\ Tally(S, "claim", v, b) \in Nat /\ Tally(S, "pay", v, b) \in Nat
        /\ Tally(S, "get", v, b) \in Nat /\ Tally(S, "slack", v, b) \in Nat
    BY <1>1, LedgerNumbers
  <2>2. /\ Weight(h, "pay", v, b) = 0 /\ Weight(h, "get", v, b) = 0
        /\ Weight(h, "slack", v, b) = 0
    BY DEF Weight, Holds
  <2>3. /\ Tally(S2, "pay", v, b) = Tally(S, "pay", v, b)
        /\ Tally(S2, "get", v, b) = Tally(S, "get", v, b)
        /\ Tally(S2, "slack", v, b) = Tally(S, "slack", v, b)
        /\ Tally(S2, "claim", v, b)
             = Tally(S, "claim", v, b) + Weight(h, "claim", v, b)
    BY <1>3, <2>1, <2>2
  <2>4. need[v][b] = need2[v][b] + Weight(h, "claim", v, b)
    <3>1. CASE v = h.user /\ b = h.out
      BY <3>1 DEF Weight, Splits
    <3>2. CASE ~(v = h.user /\ b = h.out)
      <4>1. Weight(h, "claim", v, b) = 0
        BY <3>2 DEF Weight
      <4>2. need2[v][b] = need[v][b]
        BY <3>2 DEF Splits
      <4> QED
        BY <2>1, <4>1, <4>2
    <3> QED
      BY <3>1, <3>2
  <2>5. Weight(h, "claim", v, b) \in Nat
    BY <1>1, WeightNat
  <2>6. Claimed(need2, S2, v, b) = Claimed(need, S, v, b)
    BY <2>1, <2>3, <2>4, <2>5 DEF Claimed
  <2> QED
    BY <2>3, <2>6
<1>6. Ledger(need2, S2, bal, inex, fee, net)
  BY <1>1, <1>2, <1>5, LedgerMove
<1> QED
  BY <1>6 DEF S2

(* What a command holds for an order goes with it into the book.           *)
LEMMA LedgerPutOn ==
  ASSUME NEW need, NEW S, NEW bal, NEW inex, NEW fee, NEW net,
         Ledger(need, S, bal, inex, fee, net),
         NEW h \in S, Holds(h), NEW need2 \in Amounts, Splits(need2, need, h)
  PROVE  Ledger(need2, S \ {h}, bal, inex, fee, net)
<1> DEFINE S2 == S \ {h}
<1>1. /\ need \in Amounts /\ need2 \in Amounts
      /\ S \in SUBSET Claims /\ IsFiniteSet(S)
      /\ bal \in [Users -> [Assets -> Balance]] /\ inex \in [Users -> Nat]
      /\ h \in Claims
  BY DEF Ledger, Holds
<1>2. S2 \in SUBSET Claims /\ IsFiniteSet(S2)
  BY <1>1, FS_RemoveElement
<1>3. ASSUME NEW f, NEW v, NEW b
      PROVE  Tally(S2, f, v, b) = Tally(S, f, v, b) - Weight(h, f, v, b)
  BY <1>1, TallyDrop
<1>4. h.claim \in Nat
  BY <1>1 DEF Claims
<1> HIDE DEF S2
<1>5. ASSUME NEW v \in Users, NEW b \in Assets
      PROVE  /\ Claimed(need2, S2, v, b) = Claimed(need, S, v, b)
             /\ \A f \in {"get", "pay", "slack"} :
                  Tally(S2, f, v, b) = Tally(S, f, v, b)
  <2>1. /\ need[v][b] \in Nat /\ need2[v][b] \in Nat
        /\ Tally(S, "claim", v, b) \in Nat /\ Tally(S, "pay", v, b) \in Nat
        /\ Tally(S, "get", v, b) \in Nat /\ Tally(S, "slack", v, b) \in Nat
    BY <1>1, LedgerNumbers
  <2>2. /\ Weight(h, "pay", v, b) = 0 /\ Weight(h, "get", v, b) = 0
        /\ Weight(h, "slack", v, b) = 0
    BY DEF Weight, Holds
  <2>3. /\ Tally(S2, "pay", v, b) = Tally(S, "pay", v, b)
        /\ Tally(S2, "get", v, b) = Tally(S, "get", v, b)
        /\ Tally(S2, "slack", v, b) = Tally(S, "slack", v, b)
        /\ Tally(S2, "claim", v, b)
             = Tally(S, "claim", v, b) - Weight(h, "claim", v, b)
    BY <1>3, <2>1, <2>2
  <2>4. need2[v][b] = need[v][b] + Weight(h, "claim", v, b)
    <3>1. CASE v = h.user /\ b = h.out
      BY <3>1 DEF Weight, Splits
    <3>2. CASE ~(v = h.user /\ b = h.out)
      <4>1. Weight(h, "claim", v, b) = 0
        BY <3>2 DEF Weight
      <4>2. need2[v][b] = need[v][b]
        BY <3>2 DEF Splits
      <4> QED
        BY <2>1, <4>1, <4>2
    <3> QED
      BY <3>1, <3>2
  <2>5. Weight(h, "claim", v, b) \in Nat
    BY <1>1, WeightNat
  <2>6. Claimed(need2, S2, v, b) = Claimed(need, S, v, b)
    BY <2>1, <2>3, <2>4, <2>5 DEF Claimed
  <2> QED
    BY <2>3, <2>6
<1>6. Ledger(need2, S2, bal, inex, fee, net)
  BY <1>1, <1>2, <1>5, LedgerMove
<1> QED
  BY <1>6 DEF S2

(* A command that holds nothing lets go of it.                             *)
LEMMA LedgerLetGo ==
  ASSUME NEW need, NEW S, NEW bal, NEW inex, NEW fee, NEW net,
         Ledger(need, S, bal, inex, fee, net),
         NEW h \in S, Holds(h), h.claim = 0
  PROVE  Ledger(need, S \ {h}, bal, inex, fee, net)
<1>1. need \in Amounts /\ h \in Claims
  BY DEF Ledger, Holds
<1>2. need[h.user][h.out] \in Nat
  BY <1>1 DEF Amounts, Claims
<1>3. Splits(need, need, h)
  BY <1>1, <1>2 DEF Splits
<1> QED
  BY <1>1, <1>3, LedgerPutOn
=============================================================================
