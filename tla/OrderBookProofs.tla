-------------------------- MODULE OrderBookProofs --------------------------
(***************************************************************************)
(* TLAPS proofs about OrderBook, for every set of users, prices and sizes, *)
(* every number of orders and every snapshot depth: first the invariant    *)
(* IInv of the queues and indexes, then Totals, which adds to it what the  *)
(* book sums up, with the facts about finite sums of Sums.                 *)
(***************************************************************************)
EXTENDS OrderBook, Sums

(* Ids of resting orders are no newer than the last order placed; while a  *)
(* place_order is matching, its own id is newer than all of them.          *)
IdsInUse ==
  /\ \A s \in Sides, p \in Prices : \A i \in 1 .. Len(book[s][p]) :
       book[s][p][i].order_id <= last_id
  /\ pc = "matching" =>
       /\ cmd.command = "PlaceOrder"
       /\ cmd.order_id = last_id
       /\ \A s \in Sides, p \in Prices : \A i \in 1 .. Len(book[s][p]) :
            book[s][p][i].order_id < last_id
       /\ cmd.time_in_force = "Gtc" => cmd.price \in Prices
       /\ cmd.size > 0

(* No order id rests at two levels.                                        *)
UniqueIds ==
  \A s, t \in Sides, p, q \in Prices :
    \A i \in 1 .. Len(book[s][p]), j \in 1 .. Len(book[t][q]) :
      book[s][p][i].order_id = book[t][q][j].order_id => s = t /\ p = q

(* What the matching loop has passed with size still to fill is the        *)
(* taker's own: every better level, and the queue before the cursor.       *)
OnlyOwnBehind ==
  pc = "matching" /\ level # NoPrice /\ remaining > 0 =>
    LET s == op_side(cmd.side)
    IN /\ \A p \in Prices : Better(cmd.side, p, level) =>
            \A i \in 1 .. Len(book[s][p]) : book[s][p][i].user_id = cmd.user_id
       /\ \A i \in 1 .. Len(book[s][level]) :
            i < idx => book[s][level][i].user_id = cmd.user_id

(* The inductive invariant.                                                *)
IInv ==
  /\ TypeOK
  /\ IdsInUse
  /\ UniqueIds
  /\ QueuesSortedById
  /\ OnlyOwnBehind
  /\ NoCrossBetweenUsers
  /\ PriceTimePriority
  /\ IndexSound
  /\ RestingBidsIndexed

-----------------------------------------------------------------------------
(* Removing the element at position i of a sequence leaves a sequence, one *)
(* shorter, whose elements keep their order.                               *)
LEMMA RemoveAtProperties ==
  ASSUME NEW S, NEW q \in Seq(S), NEW i \in 1 .. Len(q)
  PROVE  /\ RemoveAt(q, i) \in Seq(S)
         /\ Len(RemoveAt(q, i)) = Len(q) - 1
         /\ \A k \in 1 .. Len(q) - 1 :
              RemoveAt(q, i)[k] = IF k < i THEN q[k] ELSE q[k + 1]
<1>1. Len(q) - 1 \in Nat
  OBVIOUS
<1>2. \A k \in 1 .. Len(q) - 1 : (IF k < i THEN q[k] ELSE q[k + 1]) \in S
  OBVIOUS
<1> QED
  BY <1>1, <1>2 DEF RemoveAt

(* What a queue holds is an order, with an id and a size.                  *)
LEMMA RestingTyped ==
  ASSUME TypeOK, NEW s \in Sides, NEW p \in Prices,
         NEW i \in 1 .. Len(book[s][p])
  PROVE  /\ book[s][p] \in Seq(Order)
         /\ book[s][p][i] \in Order
         /\ book[s][p][i].order_id \in OrderIds
         /\ book[s][p][i].order_id \in Nat
         /\ book[s][p][i].size \in Nat \ {0}
<1>1. book[s][p] \in Seq(Order)
  BY DEF TypeOK
<1>2. book[s][p][i] \in Order
  BY <1>1
<1>3. book[s][p][i].order_id \in OrderIds /\ book[s][p][i].size \in Nat \ {0}
  BY <1>2 DEF Order
<1> QED
  BY <1>1, <1>2, <1>3, BoundAssumption DEF OrderIds

(* Every resting order of the next state was there before, at the same     *)
(* level: no order is added, and none changes its id or its owner.         *)
Thinned ==
  \A s \in Sides, p \in Prices : \A i \in 1 .. Len(book'[s][p]) :
    \E j \in 1 .. Len(book[s][p]) :
      /\ book'[s][p][i].order_id = book[s][p][j].order_id
      /\ book'[s][p][i].user_id = book[s][p][j].user_id

(* Ids stay unique and users uncrossed when the book only thins out.       *)
LEMMA ThinningPreserves ==
  ASSUME Thinned, UniqueIds, NoCrossBetweenUsers
  PROVE  UniqueIds' /\ NoCrossBetweenUsers'
<1>1. ASSUME NEW s \in Sides, NEW t \in Sides,
             NEW p \in Prices, NEW u \in Prices,
             NEW i \in 1 .. Len(book'[s][p]),
             NEW j \in 1 .. Len(book'[t][u]),
             book'[s][p][i].order_id = book'[t][u][j].order_id
      PROVE  s = t /\ p = u
  <2>1. PICK a \in 1 .. Len(book[s][p]) :
          book'[s][p][i].order_id = book[s][p][a].order_id
    BY DEF Thinned
  <2>2. PICK b \in 1 .. Len(book[t][u]) :
          book'[t][u][j].order_id = book[t][u][b].order_id
    BY DEF Thinned
  <2>3. book[s][p][a].order_id = book[t][u][b].order_id
    BY <1>1, <2>1, <2>2
  <2>4. s = t
    BY <2>3 DEF UniqueIds
  <2>5. p = u
    BY <2>3 DEF UniqueIds
  <2> QED
    BY <2>4, <2>5
<1>2. ASSUME NEW p \in Prices, NEW u \in Prices,
             NEW i \in 1 .. Len(book'["Bid"][p]),
             NEW j \in 1 .. Len(book'["Ask"][u]),
             book'["Bid"][p][i].user_id # book'["Ask"][u][j].user_id
      PROVE  p < u
  <2>0. "Bid" \in Sides /\ "Ask" \in Sides
    BY DEF Sides
  <2>1. PICK a \in 1 .. Len(book["Bid"][p]) :
          book'["Bid"][p][i].user_id = book["Bid"][p][a].user_id
    BY <2>0 DEF Thinned
  <2>2. PICK b \in 1 .. Len(book["Ask"][u]) :
          book'["Ask"][u][j].user_id = book["Ask"][u][b].user_id
    BY <2>0 DEF Thinned
  <2> QED
    BY <1>2, <2>1, <2>2 DEF NoCrossBetweenUsers
<1>3. UniqueIds'
  BY <1>1 DEF UniqueIds
<1> QED
  BY <1>2, <1>3 DEF NoCrossBetweenUsers

(* One order leaves the book.                                              *)
Removal(s, p, i) == book' = [book EXCEPT ![s][p] = RemoveAt(@, i)]

(* The parts of the invariant that speak of the book alone survive the     *)
(* removal of one order (a filled maker or a cancelled order).             *)
LEMMA RemovalPreservesBook ==
  ASSUME TypeOK, QueuesSortedById, UniqueIds, NoCrossBetweenUsers,
         NEW s0 \in Sides, NEW p0 \in Prices,
         NEW i0 \in 1 .. Len(book[s0][p0]), Removal(s0, p0, i0)
  PROVE  /\ book' \in [Sides -> [Prices -> Seq(Order)]]
         /\ \A s \in Sides, p \in Prices :
              s # s0 \/ p # p0 => book'[s][p] = book[s][p]
         /\ \A s \in Sides, p \in Prices : \A i \in 1 .. Len(book'[s][p]) :
              \E j \in 1 .. Len(book[s][p]) :
                 book'[s][p][i] = book[s][p][j] /\ i <= j
                 /\ (s = s0 /\ p = p0 => j # i0)
         /\ \A j \in 1 .. Len(book[s0][p0]) : j # i0 =>
              \E i \in 1 .. Len(book'[s0][p0]) :
                 book'[s0][p0][i] = book[s0][p0][j]
         /\ \A i \in 1 .. Len(book'[s0][p0]) :
              i < i0 => book'[s0][p0][i] = book[s0][p0][i]
         /\ QueuesSortedById'
         /\ UniqueIds'
         /\ NoCrossBetweenUsers'
<1> DEFINE q == book[s0][p0]
<1> DEFINE r == RemoveAt(q, i0)
<1>1. book \in [Sides -> [Prices -> Seq(Order)]] /\ q \in Seq(Order)
  BY DEF TypeOK
<1>2. /\ r \in Seq(Order)
      /\ Len(r) = Len(q) - 1
      /\ \A k \in 1 .. Len(q) - 1 : r[k] = IF k < i0 THEN q[k] ELSE q[k + 1]
  BY <1>1, RemoveAtProperties
<1>3. book'[s0][p0] = r
  BY <1>1 DEF Removal
<1>4. \A s \in Sides, p \in Prices :
        s # s0 \/ p # p0 => book'[s][p] = book[s][p]
  BY <1>1 DEF Removal
<1> HIDE DEF r
<1>5. book' \in [Sides -> [Prices -> Seq(Order)]]
  <2>1. book' = [book EXCEPT ![s0] = [book[s0] EXCEPT ![p0] = r]]
    BY <1>1 DEF r, Removal
  <2>2. [book[s0] EXCEPT ![p0] = r] \in [Prices -> Seq(Order)]
    BY <1>1, <1>2
  <2> QED
    BY <1>1, <2>1, <2>2
<1>6. \A i \in 1 .. Len(r) : \E j \in 1 .. Len(q) :
        r[i] = q[j] /\ i <= j /\ j # i0
  <2> TAKE i \in 1 .. Len(r)
  <2>1. Len(q) \in Nat /\ Len(r) = Len(q) - 1
    BY <1>1, <1>2
  <2>2. CASE i < i0
    BY <2>1, <2>2, <1>2
  <2>3. CASE ~(i < i0)
    <3>1. r[i] = q[i + 1] /\ i + 1 \in 1 .. Len(q) /\ i + 1 # i0
      BY <2>1, <2>3, <1>2
    <3> QED
      BY <3>1, <2>1
  <2> QED
    BY <2>2, <2>3
<1>7. \A s \in Sides, p \in Prices : \A i \in 1 .. Len(book'[s][p]) :
        \E j \in 1 .. Len(book[s][p]) :
          book'[s][p][i] = book[s][p][j] /\ i <= j
          /\ (s = s0 /\ p = p0 => j # i0)
  <2> TAKE s \in Sides, p \in Prices
  <2> TAKE i \in 1 .. Len(book'[s][p])
  <2>1. CASE s = s0 /\ p = p0
    BY <2>1, <1>3, <1>6
  <2>2. CASE s # s0 \/ p # p0
    <3>1. book'[s][p] = book[s][p]
      BY <2>2, <1>4
    <3>2. i \in 1 .. Len(book[s][p]) /\ i <= i
      BY <3>1
    <3> QED
      BY <3>1, <3>2, <2>2
  <2> QED
    BY <2>1, <2>2
<1>8. \A j \in 1 .. Len(q) : j # i0 => \E i \in 1 .. Len(r) : r[i] = q[j]
  <2> SUFFICES ASSUME NEW j \in 1 .. Len(q), j # i0
               PROVE  \E i \in 1 .. Len(r) : r[i] = q[j]
    OBVIOUS
  <2>1. Len(q) \in Nat /\ Len(r) = Len(q) - 1
    BY <1>1, <1>2
  <2>2. CASE j < i0
    <3>1. j \in 1 .. Len(r) /\ r[j] = q[j]
      BY <2>1, <2>2, <1>2
    <3> QED
      BY <3>1
  <2>3. CASE j > i0
    <3>1. j - 1 \in 1 .. Len(r) /\ r[j - 1] = q[j]
      BY <2>1, <2>3, <1>2
    <3> QED
      BY <3>1
  <2> QED
    BY <2>1, <2>2, <2>3
<1>9. \A i \in 1 .. Len(r) : i < i0 => r[i] = q[i]
  BY <1>2, <1>1
<1>10. QueuesSortedById'
  <2> SUFFICES ASSUME NEW s \in Sides, NEW p \in Prices,
                      NEW i \in 1 .. Len(book'[s][p]),
                      NEW j \in 1 .. Len(book'[s][p]), i < j
               PROVE  book'[s][p][i].order_id < book'[s][p][j].order_id
    BY DEF QueuesSortedById
  <2>1. CASE s = s0 /\ p = p0
    <3>1. Len(q) \in Nat /\ i \in 1 .. Len(q) - 1 /\ j \in 1 .. Len(q) - 1
      BY <2>1, <1>1, <1>2, <1>3
    <3>2. \A a, b \in 1 .. Len(q) : a < b => q[a].order_id < q[b].order_id
      BY DEF QueuesSortedById
    <3>3. /\ r[i] = IF i < i0 THEN q[i] ELSE q[i + 1]
          /\ r[j] = IF j < i0 THEN q[j] ELSE q[j + 1]
      BY <3>1, <1>2
    <3>4. r[i].order_id < r[j].order_id
      <4>1. CASE j < i0
        <5>1. r[i] = q[i] /\ r[j] = q[j]
          BY <4>1, <3>1, <3>3
        <5> QED
          BY <5>1, <3>1, <3>2
      <4>2. CASE i < i0 /\ ~(j < i0)
        <5>1. r[i] = q[i] /\ r[j] = q[j + 1] /\ i < j + 1
          BY <4>2, <3>1, <3>3
        <5>2. i \in 1 .. Len(q) /\ j + 1 \in 1 .. Len(q)
          BY <3>1
        <5>3. q[i].order_id < q[j + 1].order_id
          BY <5>1, <5>2, <3>2
        <5> QED
          BY <5>1, <5>3
      <4>3. CASE ~(i < i0) /\ ~(j < i0)
        <5>1. r[i] = q[i + 1] /\ r[j] = q[j + 1] /\ i + 1 < j + 1
          BY <4>3, <3>1, <3>3
        <5>2. i + 1 \in 1 .. Len(q) /\ j + 1 \in 1 .. Len(q)
          BY <3>1
        <5>3. q[i + 1].order_id < q[j + 1].order_id
          BY <5>1, <5>2, <3>2
        <5> QED
          BY <5>1, <5>3
      <4> QED
        BY <3>1, <4>1, <4>2, <4>3
    <3> QED
      BY <3>4, <2>1, <1>3
  <2>2. CASE s # s0 \/ p # p0
    BY <2>2, <1>4 DEF QueuesSortedById
  <2> QED
    BY <2>1, <2>2
<1>11. UniqueIds' /\ NoCrossBetweenUsers'
  <2>1. Thinned
    BY <1>7, ZenonT(60) DEF Thinned
  <2> QED
    BY <2>1, ThinningPreserves
<1> QED
  BY <1>3, <1>4, <1>5, <1>7, <1>8, <1>9, <1>10, <1>11

(* Taking an order out of the book and its id out of the index together    *)
(* keeps the index exact for every other order.                            *)
LEMMA RemovalPreservesIndex ==
  ASSUME TypeOK, QueuesSortedById, UniqueIds, NoCrossBetweenUsers,
         IndexSound, RestingBidsIndexed,
         NEW s0 \in Sides, NEW p0 \in Prices,
         NEW i0 \in 1 .. Len(book[s0][p0]), Removal(s0, p0, i0),
         orders' = drop_from_index(book[s0][p0][i0].order_id)
  PROVE  IndexSound' /\ RestingBidsIndexed'
<1> DEFINE n0 == book[s0][p0][i0].order_id
<1>1. /\ book \in [Sides -> [Prices -> Seq(Order)]]
      /\ orders \in [OrderIds -> Prices \cup {NoPrice}]
      /\ n0 \in OrderIds
  <2>1. book[s0][p0] \in Seq(Order)
    BY DEF TypeOK
  <2>2. book[s0][p0][i0] \in Order
    BY <2>1
  <2> QED
    BY <2>2 DEF TypeOK, Order
<1>2. \A n \in OrderIds : orders'[n] = IF n = n0 THEN NoPrice ELSE orders[n]
  BY <1>1 DEF drop_from_index
<1>3. /\ \A s \in Sides, p \in Prices :
           s # s0 \/ p # p0 => book'[s][p] = book[s][p]
      /\ \A s \in Sides, p \in Prices : \A i \in 1 .. Len(book'[s][p]) :
           \E j \in 1 .. Len(book[s][p]) :
              book'[s][p][i] = book[s][p][j] /\ i <= j
              /\ (s = s0 /\ p = p0 => j # i0)
      /\ \A j \in 1 .. Len(book[s0][p0]) : j # i0 =>
           \E i \in 1 .. Len(book'[s0][p0]) :
              book'[s0][p0][i] = book[s0][p0][j]
  BY RemovalPreservesBook, ZenonT(60)
<1>4. ASSUME NEW n \in OrderIds, orders'[n] # NoPrice
      PROVE  \E s \in Sides : \E i \in 1 .. Len(book'[s][orders'[n]]) :
               book'[s][orders'[n]][i].order_id = n
  <2>1. n # n0 /\ orders'[n] = orders[n] /\ orders[n] # NoPrice
    BY <1>2, <1>4
  <2>a. PICK s \in Sides : \E j \in 1 .. Len(book[s][orders[n]]) :
          book[s][orders[n]][j].order_id = n
    BY <2>1 DEF IndexSound
  <2>2. PICK j \in 1 .. Len(book[s][orders[n]]) :
          book[s][orders[n]][j].order_id = n
    BY <2>a
  <2>3. orders[n] \in Prices
    BY <1>1, <2>1
  <2>4. CASE s = s0 /\ orders[n] = p0
    <3>1. j # i0
      BY <2>1, <2>2, <2>4
    <3>2. PICK i \in 1 .. Len(book'[s0][p0]) :
            book'[s0][p0][i] = book[s0][p0][j]
      BY <1>3, <3>1, <2>4, <2>2
    <3> QED
      BY <3>2, <2>1, <2>2, <2>4
  <2>5. CASE s # s0 \/ orders[n] # p0
    <3>1. book'[s][orders[n]] = book[s][orders[n]]
      BY <1>3, <2>3, <2>5
    <3> QED
      BY <3>1, <2>1, <2>2
  <2> QED
    BY <2>4, <2>5
<1>5. ASSUME NEW s \in Sides, s = "Bid",
             NEW p \in Prices, NEW i \in 1 .. Len(book'[s][p])
      PROVE  orders'[book'[s][p][i].order_id] = p
  <2>a. \A t \in Sides, q \in Prices : \A k \in 1 .. Len(book'[t][q]) :
          \E j \in 1 .. Len(book[t][q]) :
             book'[t][q][k] = book[t][q][j] /\ k <= j
             /\ (t = s0 /\ q = p0 => j # i0)
    BY <1>3
  <2>1. PICK j \in 1 .. Len(book[s][p]) :
          book'[s][p][i] = book[s][p][j] /\ i <= j
          /\ (s = s0 /\ p = p0 => j # i0)
    BY <2>a, Zenon
  <2> DEFINE n == book[s][p][j].order_id
  <2>2. n \in OrderIds /\ orders[n] = p
    <3>1. book[s][p] \in Seq(Order)
      BY <1>1
    <3>2. book[s][p][j] \in Order
      BY <3>1
    <3> QED
      BY <3>2, <1>5 DEF RestingBidsIndexed, Order
  <2>3. n # n0
    <3> SUFFICES ASSUME n = n0 PROVE FALSE
      OBVIOUS
    <3>1. s = s0
      BY DEF UniqueIds
    <3>2. p = p0
      BY DEF UniqueIds
    <3>3. j # i0 /\ Len(book[s0][p0]) \in Nat
      BY <2>1, <3>1, <3>2, <1>1
    <3>4. /\ j < i0 => n < n0
          /\ i0 < j => n0 < n
      BY <3>1, <3>2 DEF QueuesSortedById
    <3>5. n \in Nat /\ n0 \in Nat
      BY <2>2, <1>1, BoundAssumption DEF OrderIds
    <3>6. j \in Nat /\ i0 \in Nat
      BY <3>1, <3>2, <3>3
    <3> QED
      BY <3>3, <3>4, <3>5, <3>6
  <2> QED
    BY <2>1, <2>2, <2>3, <1>2
<1>6. "Bid" \in Sides
  BY DEF Sides
<1> QED
  BY <1>4, <1>5, <1>6 DEF IndexSound, RestingBidsIndexed

-----------------------------------------------------------------------------
LEMMA InitInv == Init => IInv
<1> SUFFICES ASSUME Init PROVE IInv
  OBVIOUS
<1>1. \A s \in Sides, p \in Prices : book[s][p] = <<>> /\ Len(book[s][p]) = 0
  BY DEF Init
<1>2. TypeOK
  BY BoundAssumption DEF Init, TypeOK, Idle, Command, NoPrice
<1>3. \A n \in OrderIds : orders[n] = NoPrice
  BY DEF Init
<1>4. IdsInUse /\ UniqueIds /\ QueuesSortedById
  BY <1>1 DEF Init, IdsInUse, UniqueIds, QueuesSortedById
<1>5. OnlyOwnBehind /\ PriceTimePriority
  BY DEF Init, OnlyOwnBehind, PriceTimePriority
<1>6. NoCrossBetweenUsers /\ RestingBidsIndexed
  <2>1. "Bid" \in Sides
    BY DEF Sides
  <2> QED
    BY <1>1, <2>1 DEF NoCrossBetweenUsers, RestingBidsIndexed
<1>7. IndexSound
  BY <1>3 DEF IndexSound
<1> QED
  BY <1>2, <1>4, <1>5, <1>6, <1>7 DEF IInv

(* The parts that speak of book and index alone survive every step that    *)
(* leaves both alone.                                                      *)
LEMMA BookUnchanged ==
  ASSUME IInv, UNCHANGED <<book, orders>>
  PROVE  /\ UniqueIds' /\ QueuesSortedById' /\ NoCrossBetweenUsers'
         /\ IndexSound' /\ RestingBidsIndexed'
<1>1. UniqueIds'
  BY DEF IInv, UniqueIds
<1>2. QueuesSortedById'
  BY DEF IInv, QueuesSortedById
<1>3. NoCrossBetweenUsers'
  BY DEF IInv, NoCrossBetweenUsers
<1>4. IndexSound'
  BY DEF IInv, IndexSound
<1>5. RestingBidsIndexed'
  BY DEF IInv, RestingBidsIndexed
<1> QED
  BY <1>1, <1>2, <1>3, <1>4, <1>5

LEMMA PlaceInv ==
  ASSUME IInv, NEW c \in NewOrders, place_order(c)
  PROVE  IInv'
<1>1. /\ c \in Command /\ c.command = "PlaceOrder"
      /\ c.order_id > last_id /\ c.order_id \in OrderIds /\ c.size \in Nat /\ c.size > 0
      /\ c.time_in_force = "Gtc" => c.price \in Prices
      /\ last_id \in 0 .. MaxOrders
  <2>1. c \in [command: {"PlaceOrder"}, order_id: last_id + 1 .. MaxOrders,
               user_id: Users, side: Sides, price: Prices \cup MarketPrices,
               size: Sizes, original_size: {0}, time_in_force: TIFs,
               status: {"Processing"}]
    BY DEF NewOrders
  <2>2. c.price \notin Prices => c.time_in_force # "Gtc"
    BY DEF NewOrders
  <2>3. last_id \in 0 .. MaxOrders
    BY DEF IInv, TypeOK
  <2>4. last_id + 1 .. MaxOrders \subseteq OrderIds
    BY <2>3, BoundAssumption DEF OrderIds
  <2>5. c.order_id \in last_id + 1 .. MaxOrders /\ c.command = "PlaceOrder"
    BY <2>1
  <2>6. c.order_id > last_id /\ c.order_id \in OrderIds
    BY <2>3, <2>4, <2>5, BoundAssumption
  <2>7. c.size \in Nat /\ c.size > 0
    <3>1. c.size \in Sizes
      BY <2>1
    <3>2. c.size \in Nat \ {0}
      BY <3>1, SizesAssumption
    <3> QED
      BY <3>2
  <2>8. c \in Command
    <3>1. /\ Sizes \subseteq Nat /\ Prices \cup MarketPrices \subseteq Nat
          /\ 0 \in Nat /\ "Processing" \in Status
      BY PricesAssumption, MarketPricesAssumption, SizesAssumption DEF Status
    <3> QED
      BY <2>1, <2>4, <3>1 DEF Command
  <2> QED
    BY <2>2, <2>3, <2>5, <2>6, <2>7, <2>8
<1>2. /\ UNCHANGED <<book, volume, orders>>
      /\ last_id' = c.order_id /\ events' = <<>> /\ level' = NoPrice
      /\ taken' = c.size /\ remaining' = c.size /\ idx' = 1
      /\ \/ cmd' = [c EXCEPT !.status = "Cancelled"] /\ pc' = "done"
         \/ cmd' = c /\ pc' = "matching"
  BY DEF place_order, Serve
<1>3. TypeOK'
  <2>1. cmd' \in Command /\ cmd' # Idle /\ pc' # "idle"
    BY <1>1, <1>2 DEF Command, Status, Idle
  <2> QED
    BY <1>1, <1>2, <2>1, BoundAssumption DEF IInv, TypeOK, OrderIds
<1>4. IdsInUse'
  <2>1. \A s \in Sides, p \in Prices : \A i \in 1 .. Len(book[s][p]) :
          book[s][p][i].order_id \in Nat /\ book[s][p][i].order_id <= last_id
    BY RestingTyped DEF IInv, IdsInUse
  <2>2. \A s \in Sides, p \in Prices : \A i \in 1 .. Len(book[s][p]) :
          /\ book[s][p][i].order_id < c.order_id
          /\ book[s][p][i].order_id <= c.order_id
    <3>1. c.order_id \in Nat /\ last_id \in Nat
      BY <1>1, BoundAssumption DEF OrderIds
    <3> QED
      BY <2>1, <1>1, <3>1
  <2> QED
    BY <1>1, <1>2, <2>2 DEF IdsInUse
<1>5. OnlyOwnBehind' /\ PriceTimePriority'
  BY <1>2 DEF OnlyOwnBehind, PriceTimePriority
<1> QED
  BY <1>2, <1>3, <1>4, <1>5, BookUnchanged DEF IInv

LEMMA DeliverInv == ASSUME IInv, deliver PROVE IInv'
<1>1. /\ UNCHANGED <<book, volume, orders, last_id>>
      /\ pc' = "idle" /\ cmd' = Idle /\ events' = <<>> /\ level' = NoPrice
      /\ taken' = 0 /\ remaining' = 0 /\ idx' = 1
  BY DEF deliver
<1>2. TypeOK'
  BY <1>1 DEF IInv, TypeOK
<1>3. IdsInUse' /\ OnlyOwnBehind' /\ PriceTimePriority'
  BY <1>1 DEF IInv, IdsInUse, OnlyOwnBehind, PriceTimePriority
<1> QED
  BY <1>1, <1>2, <1>3, BookUnchanged DEF IInv

LEMMA SkipInv == ASSUME IInv, skip_own_order PROVE IInv'
<1>1. /\ UNCHANGED <<book, volume, orders, cmd, pc, taken, remaining, level,
                     events, last_id>>
      /\ idx' = idx + 1 /\ pc = "matching" /\ remaining > 0 /\ InQueue
      /\ Maker.user_id = cmd.user_id
  BY DEF skip_own_order
<1>2. TypeOK'
  BY <1>1 DEF IInv, TypeOK
<1>3. IdsInUse'
  BY <1>1 DEF IInv, IdsInUse
<1>4. PriceTimePriority'
  BY <1>1 DEF IInv, PriceTimePriority
<1>5. OnlyOwnBehind'
  <2>1. OnlyOwnBehind
    BY DEF IInv
  <2>2. idx \in Nat
    BY DEF IInv, TypeOK
  <2> QED
    BY <1>1, <2>1, <2>2 DEF OnlyOwnBehind, Maker, Queue, InQueue
<1> QED
  BY <1>1, <1>2, <1>3, <1>4, <1>5, BookUnchanged DEF IInv

(* When the cursor has run off its queue, every order left at an           *)
(* acceptable price that is not ahead belongs to the taker.                *)
LEMMA BehindIsOwn ==
  ASSUME IInv, pc = "matching", remaining > 0, ~InQueue,
         NEW u \in Prices, price_check(cmd.side, cmd.price, u), ~Ahead(u),
         NEW i \in 1 .. Len(book[op_side(cmd.side)][u])
  PROVE  book[op_side(cmd.side)][u][i].user_id = cmd.user_id
<1> DEFINE s == op_side(cmd.side)
<1>1. s \in Sides
  BY DEF op_side, Sides
<1>2. book[s][u] \in Seq(Order) /\ i \in Nat /\ Len(book[s][u]) \in Nat
  BY <1>1 DEF IInv, TypeOK
<1>3. book[s][u] # <<>>
  BY <1>2
<1>4. level # NoPrice /\ ~Better(cmd.side, level, u)
  BY <1>3 DEF Ahead
<1>5. level \in Prices /\ level \in Nat /\ u \in Nat /\ idx \in Nat
  BY <1>4, PricesAssumption DEF IInv, TypeOK
<1>6. level = u \/ Better(cmd.side, u, level)
  BY <1>4, <1>5 DEF Better
<1>7. OnlyOwnBehind
  BY DEF IInv
<1>8. CASE level = u
  <2>1. i < idx
    BY <1>8, <1>2, <1>4, <1>5 DEF InQueue, Queue
  <2> QED
    BY <1>8, <2>1, <1>4, <1>7 DEF OnlyOwnBehind
<1>9. CASE Better(cmd.side, u, level)
  BY <1>9, <1>4, <1>7 DEF OnlyOwnBehind
<1> QED
  BY <1>6, <1>8, <1>9

LEMMA OpenInv == ASSUME IInv, NEW p \in Prices, open_level(p) PROVE IInv'
<1>1. /\ UNCHANGED <<book, volume, orders, cmd, pc, taken, remaining, events,
                     last_id>>
      /\ level' = p /\ idx' = 1
      /\ pc = "matching" /\ remaining > 0 /\ ~InQueue
      /\ Ahead(p)
      /\ \A u \in Prices : Ahead(u) => ~Better(cmd.side, u, p)
  BY DEF open_level
<1>2. TypeOK'
  BY <1>1 DEF IInv, TypeOK
<1>3. IdsInUse'
  BY <1>1 DEF IInv, IdsInUse
<1>4. PriceTimePriority'
  BY <1>1 DEF IInv, PriceTimePriority
<1>5. cmd.price \in Nat
  <2>1. cmd \in Command
    BY <1>1 DEF IInv, TypeOK
  <2> QED
    BY <2>1 DEF Command
<1>6. ASSUME NEW u \in Prices, Better(cmd.side, u, p),
             NEW i \in 1 .. Len(book[op_side(cmd.side)][u])
      PROVE  book[op_side(cmd.side)][u][i].user_id = cmd.user_id
  <2>1. ~Ahead(u)
    BY <1>1, <1>6
  <2>2. u \in Nat /\ p \in Nat
    BY PricesAssumption
  <2>3. price_check(cmd.side, cmd.price, p)
    BY <1>1 DEF Ahead
  <2>4. price_check(cmd.side, cmd.price, u)
    BY <2>2, <2>3, <1>5, <1>6 DEF price_check, Better
  <2> QED
    BY <1>1, <2>1, <2>4, BehindIsOwn
<1>7. OnlyOwnBehind'
  BY <1>1, <1>6 DEF OnlyOwnBehind
<1> QED
  BY <1>1, <1>2, <1>3, <1>4, <1>7, BookUnchanged DEF IInv

(* A resting order keeps its place and changes its size.                   *)
Resize(s, p, i, left) == book' = [book EXCEPT ![s][p][i].size = left]

(* The parts of the invariant that speak of book and index survive a       *)
(* partial fill, which changes no id, owner or position.                   *)
LEMMA ResizePreserves ==
  ASSUME IInv, NEW s0 \in Sides, NEW p0 \in Prices,
         NEW i0 \in 1 .. Len(book[s0][p0]), NEW left \in Nat \ {0},
         Resize(s0, p0, i0, left)
  PROVE  /\ book' \in [Sides -> [Prices -> Seq(Order)]]
         /\ \A s \in Sides, p \in Prices :
              /\ Len(book'[s][p]) = Len(book[s][p])
              /\ \A i \in 1 .. Len(book[s][p]) :
                   /\ book'[s][p][i].order_id = book[s][p][i].order_id
                   /\ book'[s][p][i].user_id = book[s][p][i].user_id
<1> DEFINE q == book[s0][p0]
<1> DEFINE o == [q[i0] EXCEPT !.size = left]
<1> DEFINE r == [q EXCEPT ![i0] = o]
<1>0. TypeOK
  BY DEF IInv
<1>1. book \in [Sides -> [Prices -> Seq(Order)]]
  BY <1>0 DEF TypeOK
<1>2. q \in Seq(Order) /\ q[i0] \in Order
  BY <1>0, RestingTyped
<1>3. /\ o \in Order
      /\ o.order_id = q[i0].order_id /\ o.user_id = q[i0].user_id
  BY <1>2 DEF Order
<1>4. book' = [book EXCEPT ![s0] = [book[s0] EXCEPT ![p0] = r]]
  BY DEF Resize
<1> HIDE DEF o
<1>5. r \in Seq(Order) /\ Len(r) = Len(q)
  BY <1>2, <1>3
<1>6. \A i \in 1 .. Len(q) : r[i].order_id = q[i].order_id
                             /\ r[i].user_id = q[i].user_id
  BY <1>2, <1>3
<1> HIDE DEF r
<1>7. [book[s0] EXCEPT ![p0] = r] \in [Prices -> Seq(Order)]
  BY <1>1, <1>5
<1>8. book' \in [Sides -> [Prices -> Seq(Order)]]
  BY <1>1, <1>4, <1>7
<1>9. ASSUME NEW s \in Sides, NEW p \in Prices
      PROVE  book'[s][p] = IF s = s0 /\ p = p0 THEN r ELSE book[s][p]
  BY <1>1, <1>4
<1> QED
  BY <1>5, <1>6, <1>8, <1>9

(* Same ids and owners at the same places, same index: the invariants on   *)
(* book and index carry over.                                              *)
LEMMA SamePlaces ==
  ASSUME IInv, UNCHANGED orders,
         \A s \in Sides, p \in Prices :
              /\ Len(book'[s][p]) = Len(book[s][p])
              /\ \A i \in 1 .. Len(book[s][p]) :
                   /\ book'[s][p][i].order_id = book[s][p][i].order_id
                   /\ book'[s][p][i].user_id = book[s][p][i].user_id
  PROVE  /\ Thinned /\ UniqueIds' /\ QueuesSortedById' /\ NoCrossBetweenUsers'
         /\ IndexSound' /\ RestingBidsIndexed'
<1>1. Thinned
  BY DEF Thinned
<1>2. UniqueIds' /\ NoCrossBetweenUsers'
  BY <1>1, ThinningPreserves DEF IInv
<1>3. QueuesSortedById'
  BY DEF IInv, QueuesSortedById
<1>4. IndexSound'
  <2> SUFFICES ASSUME NEW n \in OrderIds, orders[n] # NoPrice
               PROVE  \E s \in Sides : \E i \in 1 .. Len(book'[s][orders[n]]) :
                        book'[s][orders[n]][i].order_id = n
    BY DEF IndexSound
  <2>1. PICK s \in Sides : \E i \in 1 .. Len(book[s][orders[n]]) :
          book[s][orders[n]][i].order_id = n
    BY DEF IInv, IndexSound
  <2>2. orders[n] \in Prices
    BY DEF IInv, TypeOK
  <2> QED
    BY <2>1, <2>2
<1>5. RestingBidsIndexed'
  <2>1. "Bid" \in Sides
    BY DEF Sides
  <2> QED
    BY <2>1 DEF IInv, RestingBidsIndexed
<1> QED
  BY <1>1, <1>2, <1>3, <1>4, <1>5

(* Filling a maker keeps price-time priority: the new event's maker was    *)
(* the first order of another user that was left.                          *)
LEMMA FillPriority ==
  ASSUME IInv, fill_maker, Thinned
  PROVE  PriceTimePriority'
<1> DEFINE s == op_side(cmd.side)
<1>1. /\ pc = "matching" /\ remaining > 0 /\ InQueue
      /\ cmd' = cmd
      /\ \E t \in Nat : events' = Append(events, trade_event(Maker, t))
  <2>1. Maker.size \in Nat /\ remaining \in Nat
    <3>1. level \in Prices /\ idx \in 1 .. Len(Queue) /\ s \in Sides
      BY DEF fill_maker, InQueue, IInv, TypeOK, Queue, op_side, Sides
    <3> QED
      BY <3>1, RestingTyped DEF IInv, TypeOK, Maker, Queue
  <2>2. trade_size(remaining, Maker.size) \in Nat
    BY <2>1 DEF trade_size
  <2> QED
    BY <2>2 DEF fill_maker
<1>2. PICK t \in Nat : events' = Append(events, trade_event(Maker, t))
  BY <1>1
<1>3. /\ s \in Sides /\ level \in Prices /\ level # NoPrice
      /\ idx \in 1 .. Len(book[s][level]) /\ idx \in Nat
  BY <1>1 DEF InQueue, IInv, TypeOK, Queue, op_side, Sides
<1>4. events \in Seq(Event)
  BY DEF IInv, TypeOK
<1> DEFINE e == trade_event(Maker, t)
<1>5. e.price = level /\ e.matched_order_id = book[s][level][idx].order_id
  BY DEF trade_event, Maker, Queue
<1> HIDE DEF e
<1>6. \A k \in 1 .. Len(events') :
        \/ k \in 1 .. Len(events) /\ events'[k] = events[k]
        \/ events'[k] = e
  BY <1>2, <1>4 DEF e
<1> SUFFICES ASSUME NEW k \in 1 .. Len(events'), NEW p \in Prices,
                    NEW i \in 1 .. Len(book'[s][p]),
                    book'[s][p][i].user_id # cmd.user_id
             PROVE  /\ ~Better(cmd.side, p, events'[k].price)
                    /\ p = events'[k].price =>
                         book'[s][p][i].order_id >= events'[k].matched_order_id
  BY <1>1 DEF PriceTimePriority
<1>7. PICK j \in 1 .. Len(book[s][p]) :
        /\ book'[s][p][i].order_id = book[s][p][j].order_id
        /\ book'[s][p][i].user_id = book[s][p][j].user_id
  BY <1>3 DEF Thinned
<1>8. book[s][p][j].user_id # cmd.user_id
  BY <1>7
<1>9. CASE k \in 1 .. Len(events) /\ events'[k] = events[k]
  BY <1>7, <1>8, <1>9 DEF IInv, PriceTimePriority
<1>10. CASE events'[k] = e
  <2>1. OnlyOwnBehind
    BY DEF IInv
  <2>2. ~Better(cmd.side, p, level)
    BY <1>1, <1>3, <1>8, <2>1 DEF OnlyOwnBehind
  <2>3. ASSUME p = level
        PROVE  book[s][level][j].order_id >= book[s][level][idx].order_id
    <3>1. ~(j < idx)
      BY <1>1, <1>3, <1>8, <2>1, <2>3 DEF OnlyOwnBehind
    <3>2. /\ book[s][level][j].order_id \in Nat
          /\ book[s][level][idx].order_id \in Nat
      BY <2>3, <1>3, RestingTyped DEF IInv
    <3>3. j \in Nat
      BY <1>3
    <3>4. QueuesSortedById
      BY DEF IInv
    <3>5. idx < j =>
            book[s][level][idx].order_id < book[s][level][j].order_id
      BY <3>4, <1>3, <2>3 DEF QueuesSortedById
    <3> QED
      BY <3>1, <3>2, <3>3, <3>5, <1>3
  <2> QED
    BY <1>5, <1>7, <1>10, <2>2, <2>3
<1> QED
  BY <1>6, <1>9, <1>10

LEMMA FillInv == ASSUME IInv, fill_maker PROVE IInv'
<1> DEFINE s == op_side(cmd.side)
<1> DEFINE trade == trade_size(remaining, Maker.size)
<1> DEFINE left == Maker.size - trade
<1>1. /\ pc = "matching" /\ remaining > 0 /\ InQueue
      /\ UNCHANGED <<cmd, pc, taken, level, last_id>>
      /\ remaining' = remaining - trade
      /\ volume' = [volume EXCEPT ![s][level] = @ - trade]
      /\ events' = Append(events, trade_event(Maker, trade))
  BY DEF fill_maker
<1>2. \/ /\ left = 0 /\ Removal(s, level, idx) /\ idx' = idx
         /\ orders' = drop_from_index(Maker.order_id)
      \/ /\ left # 0 /\ Resize(s, level, idx, left) /\ idx' = idx + 1
         /\ orders' = orders
  BY DEF fill_maker, Removal, Resize
<1>3. /\ s \in Sides /\ level \in Prices /\ level # NoPrice
      /\ idx \in 1 .. Len(book[s][level]) /\ idx \in Nat \ {0}
  BY <1>1 DEF InQueue, IInv, TypeOK, Queue, op_side, Sides
<1>4. Maker = book[s][level][idx]
  BY DEF Maker, Queue
<1>5. Maker \in Order /\ Maker.size \in Nat \ {0} /\ remaining \in Nat
  BY <1>3, <1>4, RestingTyped DEF IInv, TypeOK
<1>6. /\ trade \in Nat /\ left \in Nat /\ remaining - trade \in Nat
      /\ left # 0 => remaining - trade = 0
  BY <1>5 DEF trade_size
<1>7. trade_event(Maker, trade) \in Event
  BY <1>3, <1>5, <1>6 DEF trade_event, Event, Order
<1>8. volume' \in [Sides -> [Prices -> Int]] /\ events' \in Seq(Event)
  <2>1. volume \in [Sides -> [Prices -> Int]] /\ events \in Seq(Event)
    BY DEF IInv, TypeOK
  <2>2. volume[s][level] - trade \in Int
    BY <1>3, <1>6, <2>1
  <2>3. [volume[s] EXCEPT ![level] = @ - trade] \in [Prices -> Int]
    BY <1>3, <2>1, <2>2
  <2> QED
    BY <1>1, <1>3, <1>7, <2>1, <2>3
<1> HIDE DEF trade
<1>9. /\ book' \in [Sides -> [Prices -> Seq(Order)]]
      /\ orders' \in [OrderIds -> Prices \cup {NoPrice}]
      /\ idx' \in Nat \ {0}
      /\ Thinned
      /\ UniqueIds' /\ QueuesSortedById' /\ NoCrossBetweenUsers'
      /\ IndexSound' /\ RestingBidsIndexed'
      /\ OnlyOwnBehind'
  <2>1. CASE /\ left = 0 /\ Removal(s, level, idx) /\ idx' = idx
             /\ orders' = drop_from_index(Maker.order_id)
    <3>1. /\ book' \in [Sides -> [Prices -> Seq(Order)]]
          /\ \A t \in Sides, p \in Prices :
               t # s \/ p # level => book'[t][p] = book[t][p]
          /\ \A t \in Sides, p \in Prices : \A i \in 1 .. Len(book'[t][p]) :
               \E j \in 1 .. Len(book[t][p]) :
                 book'[t][p][i] = book[t][p][j] /\ i <= j
                 /\ (t = s /\ p = level => j # idx)
          /\ \A i \in 1 .. Len(book'[s][level]) :
               i < idx => book'[s][level][i] = book[s][level][i]
          /\ UniqueIds' /\ QueuesSortedById' /\ NoCrossBetweenUsers'
      <4>1. TypeOK /\ QueuesSortedById /\ UniqueIds /\ NoCrossBetweenUsers
        BY DEF IInv
      <4>2. Removal(s, level, idx)
        BY <2>1
      <4> HIDE DEF s
      <4> QED
        BY <1>3, <4>1, <4>2, RemovalPreservesBook, ZenonT(60)
    <3>2. IndexSound' /\ RestingBidsIndexed'
      BY <1>3, <1>4, <2>1, RemovalPreservesIndex DEF IInv
    <3>3. Thinned
      BY <3>1, ZenonT(60) DEF Thinned
    <3>4. orders' \in [OrderIds -> Prices \cup {NoPrice}]
      BY <2>1 DEF IInv, TypeOK, drop_from_index
    <3>5. OnlyOwnBehind'
      <4>1. /\ \A p \in Prices : Better(cmd.side, p, level) =>
                 \A i \in 1 .. Len(book[s][p]) :
                   book[s][p][i].user_id = cmd.user_id
            /\ \A i \in 1 .. Len(book[s][level]) :
                 i < idx => book[s][level][i].user_id = cmd.user_id
        BY <1>1, <1>3 DEF IInv, OnlyOwnBehind
      <4>2. ~Better(cmd.side, level, level)
        BY <1>3, PricesAssumption DEF Better
      <4>3. \A p \in Prices : Better(cmd.side, p, level) =>
              book'[s][p] = book[s][p]
        BY <1>3, <3>1, <4>2
      <4>4. ASSUME NEW i \in 1 .. Len(book'[s][level]), i < idx
            PROVE  book'[s][level][i].user_id = cmd.user_id
        <5>1. i \in 1 .. Len(book[s][level])
          <6>1. book'[s][level] \in Seq(Order) /\ book[s][level] \in Seq(Order)
            BY <1>3, <3>1 DEF IInv, TypeOK
          <6>2. Len(book[s][level]) \in Nat /\ i \in Nat /\ i >= 1
            BY <6>1
          <6> QED
            BY <6>2, <1>3, <4>4
        <5>2. book'[s][level][i] = book[s][level][i]
          BY <3>1, <4>4
        <5> QED
          BY <5>1, <5>2, <4>1, <4>4
      <4> QED
        BY <1>1, <2>1, <4>1, <4>3, <4>4 DEF OnlyOwnBehind
    <3> QED
      BY <3>1, <3>2, <3>3, <3>4, <3>5, <2>1, <1>3
  <2>2. CASE /\ left # 0 /\ Resize(s, level, idx, left) /\ idx' = idx + 1
             /\ orders' = orders
    <3>0. left \in Nat \ {0}
      BY <1>6, <2>2
    <3>1. /\ book' \in [Sides -> [Prices -> Seq(Order)]]
          /\ \A t \in Sides, p \in Prices :
               /\ Len(book'[t][p]) = Len(book[t][p])
               /\ \A i \in 1 .. Len(book[t][p]) :
                   /\ book'[t][p][i].order_id = book[t][p][i].order_id
                   /\ book'[t][p][i].user_id = book[t][p][i].user_id
      BY <1>3, <3>0, <2>2, ResizePreserves
    <3>2. /\ Thinned /\ UniqueIds' /\ QueuesSortedById' /\ NoCrossBetweenUsers'
          /\ IndexSound' /\ RestingBidsIndexed'
      BY <2>2, <3>1, SamePlaces
    <3>3. OnlyOwnBehind'
      BY <1>1, <1>6, <2>2 DEF OnlyOwnBehind
    <3>4. orders \in [OrderIds -> Prices \cup {NoPrice}] /\ idx' \in Nat \ {0}
      BY <1>3, <2>2 DEF IInv, TypeOK
    <3> QED
      BY <3>1, <3>2, <3>3, <3>4, <2>2
  <2> QED
    BY <1>2, <2>1, <2>2
<1>10. TypeOK'
  BY <1>1, <1>6, <1>8, <1>9 DEF IInv, TypeOK
<1>11. IdsInUse'
  <2>1. \A t \in Sides, p \in Prices : \A i \in 1 .. Len(book[t][p]) :
          book[t][p][i].order_id < last_id
    BY <1>1 DEF IInv, IdsInUse
  <2>2. \A t \in Sides, p \in Prices : \A i \in 1 .. Len(book[t][p]) :
          book[t][p][i].order_id <= last_id
    BY DEF IInv, IdsInUse
  <2>3. \A t \in Sides, p \in Prices : \A i \in 1 .. Len(book'[t][p]) :
          /\ book'[t][p][i].order_id < last_id
          /\ book'[t][p][i].order_id <= last_id
    BY <1>9, <2>1, <2>2, SMTT(30) DEF Thinned
  <2> QED
    BY <1>1, <2>3 DEF IInv, IdsInUse
<1>12. PriceTimePriority'
  BY <1>9, FillPriority
<1> QED
  BY <1>9, <1>10, <1>11, <1>12 DEF IInv

(* Resting what is left of a GTC order: it goes last in its queue with the *)
(* newest id, and crosses no order of another user.                        *)
LEMMA RestPreserves ==
  ASSUME IInv, pc = "matching", remaining > 0, ~InQueue,
         \A p \in Prices : ~Ahead(p), cmd.time_in_force = "Gtc",
         add_to_book(remaining)
  PROVE  /\ book' \in [Sides -> [Prices -> Seq(Order)]]
         /\ orders' \in [OrderIds -> Prices \cup {NoPrice}]
         /\ volume' \in [Sides -> [Prices -> Int]]
         /\ \A p \in Prices :
              book'[op_side(cmd.side)][p] = book[op_side(cmd.side)][p]
         /\ \A s \in Sides, p \in Prices : \A i \in 1 .. Len(book'[s][p]) :
              book'[s][p][i].order_id <= last_id
         /\ UniqueIds' /\ QueuesSortedById' /\ NoCrossBetweenUsers'
         /\ IndexSound' /\ RestingBidsIndexed'
<1> DEFINE s0 == cmd.side
<1> DEFINE p0 == cmd.price
<1> DEFINE o == [order_id |-> cmd.order_id, user_id |-> cmd.user_id,
                 side |-> cmd.side, size |-> remaining,
                 original_size |-> cmd.size]
<1> DEFINE q == book[s0][p0]
<1> DEFINE r == Append(q, o)
<1>1. /\ TypeOK /\ IdsInUse /\ UniqueIds /\ QueuesSortedById
      /\ NoCrossBetweenUsers /\ IndexSound /\ RestingBidsIndexed
  BY DEF IInv
<1>2. cmd \in Command /\ cmd.size > 0 /\ remaining \in Nat \ {0}
  BY <1>1 DEF TypeOK, IdsInUse
<1>3. s0 \in Sides /\ p0 \in Prices /\ last_id \in OrderIds
      /\ cmd.order_id = last_id /\ last_id \in Nat
  BY <1>1, <1>2, BoundAssumption DEF Command, IdsInUse, OrderIds
<1>4. o \in Order /\ o.order_id = last_id /\ o.user_id = cmd.user_id
  BY <1>2, <1>3 DEF Command, Order
<1>5. /\ book' = [book EXCEPT ![s0][p0] = r]
      /\ volume' = [volume EXCEPT ![s0][p0] = @ + remaining]
      /\ orders' = [orders EXCEPT ![last_id] = p0]
  BY <1>3 DEF add_to_book
<1>6. /\ book \in [Sides -> [Prices -> Seq(Order)]]
      /\ volume \in [Sides -> [Prices -> Int]]
      /\ orders \in [OrderIds -> Prices \cup {NoPrice}]
      /\ q \in Seq(Order)
  BY <1>1, <1>3 DEF TypeOK
<1> HIDE DEF o
<1>7. /\ r \in Seq(Order) /\ Len(r) = Len(q) + 1 /\ Len(q) \in Nat
      /\ r[Len(q) + 1] = o
      /\ \A i \in 1 .. Len(q) : r[i] = q[i]
  BY <1>4, <1>6, SMTT(30)
<1> HIDE DEF r
<1>8. book' \in [Sides -> [Prices -> Seq(Order)]]
  <2>1. [book[s0] EXCEPT ![p0] = r] \in [Prices -> Seq(Order)]
    BY <1>3, <1>6, <1>7
  <2> QED
    BY <1>3, <1>5, <1>6, <2>1
<1>9. volume' \in [Sides -> [Prices -> Int]]
  <2>1. volume[s0][p0] + remaining \in Int
    BY <1>2, <1>3, <1>6
  <2>2. [volume[s0] EXCEPT ![p0] = @ + remaining] \in [Prices -> Int]
    BY <1>3, <1>6, <2>1
  <2> QED
    BY <1>3, <1>5, <1>6, <2>2
<1>10. /\ orders' \in [OrderIds -> Prices \cup {NoPrice}]
       /\ \A n \in OrderIds :
            orders'[n] = IF n = last_id THEN p0 ELSE orders[n]
  BY <1>3, <1>5, <1>6
<1>11. \A s \in Sides, p \in Prices :
         book'[s][p] = IF s = s0 /\ p = p0 THEN r ELSE book[s][p]
  BY <1>3, <1>5, <1>6
<1>12. \A s \in Sides, p \in Prices : \A i \in 1 .. Len(book'[s][p]) :
         \/ i \in 1 .. Len(book[s][p]) /\ book'[s][p][i] = book[s][p][i]
         \/ /\ s = s0 /\ p = p0 /\ i = Len(book[s][p]) + 1
            /\ book'[s][p][i] = o
  <2> TAKE s \in Sides, p \in Prices
  <2> TAKE i \in 1 .. Len(book'[s][p])
  <2>1. CASE s = s0 /\ p = p0
    <3>1. book'[s][p] = r /\ book[s][p] = q /\ i \in 1 .. Len(q) + 1
      BY <2>1, <1>7, <1>11
    <3> QED
      BY <2>1, <3>1, <1>7
  <2>2. CASE ~(s = s0 /\ p = p0)
    BY <2>2, <1>11
  <2> QED
    BY <2>1, <2>2
<1>13. \A s \in Sides, p \in Prices : \A i \in 1 .. Len(book[s][p]) :
         /\ i \in 1 .. Len(book'[s][p]) /\ book'[s][p][i] = book[s][p][i]
         /\ book[s][p][i].order_id \in Nat
         /\ book[s][p][i].order_id < last_id
  <2> SUFFICES ASSUME NEW s \in Sides, NEW p \in Prices,
                      NEW i \in 1 .. Len(book[s][p])
               PROVE  /\ i \in 1 .. Len(book'[s][p])
                      /\ book'[s][p][i] = book[s][p][i]
                      /\ book[s][p][i].order_id \in Nat
                      /\ book[s][p][i].order_id < last_id
    OBVIOUS
  <2>1. book[s][p][i].order_id \in Nat /\ book[s][p][i].order_id < last_id
    BY <1>1, RestingTyped DEF IdsInUse
  <2>2. CASE s = s0 /\ p = p0
    BY <2>1, <2>2, <1>7, <1>11, SMTT(30)
  <2>3. CASE ~(s = s0 /\ p = p0)
    BY <2>1, <2>3, <1>11
  <2> QED
    BY <2>2, <2>3
<1>14. \A s \in Sides, p \in Prices : \A i \in 1 .. Len(book'[s][p]) :
         book'[s][p][i].order_id <= last_id
  <2> TAKE s \in Sides, p \in Prices
  <2> TAKE i \in 1 .. Len(book'[s][p])
  <2>1. CASE i \in 1 .. Len(book[s][p]) /\ book'[s][p][i] = book[s][p][i]
    <3>1. book[s][p][i].order_id \in Nat /\ book[s][p][i].order_id < last_id
      BY <1>13, <2>1
    <3> QED
      BY <3>1, <2>1, <1>3
  <2>2. CASE book'[s][p][i] = o
    BY <2>2, <1>3, <1>4
  <2> QED
    BY <1>12, <2>1, <2>2
<1>15. ASSUME NEW s \in Sides, NEW t \in Sides,
              NEW p \in Prices, NEW u \in Prices,
              NEW i \in 1 .. Len(book'[s][p]),
              NEW j \in 1 .. Len(book'[t][u]),
              book'[s][p][i].order_id = book'[t][u][j].order_id
       PROVE  s = t /\ p = u
  <2>1. CASE /\ i \in 1 .. Len(book[s][p]) /\ book'[s][p][i] = book[s][p][i]
             /\ j \in 1 .. Len(book[t][u]) /\ book'[t][u][j] = book[t][u][j]
    <3>1. s = t
      BY <1>1, <1>15, <2>1 DEF UniqueIds
    <3>2. p = u
      BY <1>1, <1>15, <2>1 DEF UniqueIds
    <3> QED
      BY <3>1, <3>2
  <2>2. CASE /\ i \in 1 .. Len(book[s][p]) /\ book'[s][p][i] = book[s][p][i]
             /\ book'[t][u][j] = o
    BY <1>3, <1>4, <1>13, <1>15, <2>2
  <2>3. CASE /\ j \in 1 .. Len(book[t][u]) /\ book'[t][u][j] = book[t][u][j]
             /\ book'[s][p][i] = o
    BY <1>3, <1>4, <1>13, <1>15, <2>3
  <2>4. CASE s = s0 /\ p = p0 /\ t = s0 /\ u = p0
    BY <2>4
  <2> QED
    BY <1>12, <2>1, <2>2, <2>3, <2>4
<1>16. UniqueIds'
  BY <1>15 DEF UniqueIds
<1>17. QueuesSortedById'
  <2> SUFFICES ASSUME NEW s \in Sides, NEW p \in Prices,
                      NEW i \in 1 .. Len(book'[s][p]),
                      NEW j \in 1 .. Len(book'[s][p]), i < j
               PROVE  book'[s][p][i].order_id < book'[s][p][j].order_id
    BY DEF QueuesSortedById
  <2>0. Len(book[s][p]) \in Nat /\ i \in Nat /\ j \in Nat
    <3>1. book[s][p] \in Seq(Order) /\ book'[s][p] \in Seq(Order)
      BY <1>6, <1>8
    <3> QED
      BY <3>1
  <2>1. CASE j \in 1 .. Len(book[s][p]) /\ book'[s][p][j] = book[s][p][j]
    <3>1. i \in 1 .. Len(book[s][p]) /\ book'[s][p][i] = book[s][p][i]
      <4>1. i \in 1 .. Len(book[s][p])
        BY <2>0, <2>1
      <4> QED
        BY <4>1, <1>13
    <3> QED
      BY <2>1, <3>1, <1>1 DEF QueuesSortedById
  <2>2. CASE j = Len(book[s][p]) + 1 /\ book'[s][p][j] = o
    <3>1. i \in 1 .. Len(book[s][p])
      BY <2>0, <2>2
    <3> QED
      BY <3>1, <2>2, <1>4, <1>13
  <2> QED
    BY <1>12, <2>1, <2>2
<1>18. ASSUME NEW u \in Prices, NEW j \in 1 .. Len(book[op_side(s0)][u]),
              book[op_side(s0)][u][j].user_id # cmd.user_id
       PROVE  IF s0 = "Bid" THEN p0 < u ELSE u < p0
  <2>1. ~price_check(cmd.side, cmd.price, u)
    BY <1>18, BehindIsOwn
  <2>2. u \in Nat /\ p0 \in Nat
    BY <1>3, PricesAssumption
  <2> QED
    BY <2>1, <2>2 DEF price_check
<1>19. NoCrossBetweenUsers'
  <2> SUFFICES ASSUME NEW b \in Sides, NEW a \in Sides, b = "Bid", a = "Ask",
                      NEW p \in Prices, NEW u \in Prices,
                      NEW i \in 1 .. Len(book'[b][p]),
                      NEW j \in 1 .. Len(book'[a][u]),
                      book'[b][p][i].user_id # book'[a][u][j].user_id
               PROVE  p < u
    <3>1. "Bid" \in Sides /\ "Ask" \in Sides
      BY DEF Sides
    <3> QED
      BY <3>1 DEF NoCrossBetweenUsers
  <2>1. CASE /\ i \in 1 .. Len(book[b][p]) /\ book'[b][p][i] = book[b][p][i]
             /\ j \in 1 .. Len(book[a][u]) /\ book'[a][u][j] = book[a][u][j]
    BY <2>1, <1>1 DEF NoCrossBetweenUsers
  <2>2. CASE /\ b = s0 /\ p = p0 /\ book'[b][p][i] = o
             /\ j \in 1 .. Len(book[a][u]) /\ book'[a][u][j] = book[a][u][j]
    <3>1. op_side(s0) = a
      BY <2>2 DEF op_side
    <3>2. book[a][u][j].user_id # cmd.user_id
      BY <2>2, <1>4
    <3> QED
      BY <2>2, <3>1, <3>2, <1>18
  <2>3. CASE /\ a = s0 /\ u = p0 /\ book'[a][u][j] = o
             /\ i \in 1 .. Len(book[b][p]) /\ book'[b][p][i] = book[b][p][i]
    <3>1. op_side(s0) = b
      BY <2>3 DEF op_side
    <3>2. book[b][p][i].user_id # cmd.user_id
      BY <2>3, <1>4
    <3> QED
      BY <2>3, <3>1, <3>2, <1>18
  <2> QED
    BY <1>12, <2>1, <2>2, <2>3, SMTT(30)
<1>20. IndexSound'
  <2> SUFFICES ASSUME NEW n \in OrderIds, orders'[n] # NoPrice
               PROVE  \E s \in Sides : \E i \in 1 .. Len(book'[s][orders'[n]]) :
                        book'[s][orders'[n]][i].order_id = n
    BY DEF IndexSound
  <2>1. CASE n = last_id
    <3>1. orders'[n] = p0 /\ book'[s0][p0] = r
      BY <2>1, <1>3, <1>10, <1>11
    <3>2. Len(q) + 1 \in 1 .. Len(r) /\ r[Len(q) + 1].order_id = n
      BY <2>1, <1>4, <1>7
    <3> QED
      BY <3>1, <3>2, <1>3
  <2>2. CASE n # last_id
    <3>1. orders'[n] = orders[n] /\ orders[n] # NoPrice
      BY <2>2, <1>10
    <3>2. PICK s \in Sides : \E i \in 1 .. Len(book[s][orders[n]]) :
            book[s][orders[n]][i].order_id = n
      BY <3>1, <1>1 DEF IndexSound
    <3>3. orders[n] \in Prices
      BY <3>1, <1>6
    <3> QED
      BY <3>1, <3>2, <3>3, <1>13
  <2> QED
    BY <2>1, <2>2
<1>21. ASSUME NEW s \in Sides, s = "Bid", NEW p \in Prices,
              NEW i \in 1 .. Len(book'[s][p])
       PROVE  orders'[book'[s][p][i].order_id] = p
  <2>1. CASE i \in 1 .. Len(book[s][p]) /\ book'[s][p][i] = book[s][p][i]
    <3>1. orders[book[s][p][i].order_id] = p
      BY <2>1, <1>1, <1>21 DEF RestingBidsIndexed
    <3>2. book[s][p][i].order_id \in OrderIds
      BY <2>1, <1>1, RestingTyped
    <3>3. book[s][p][i].order_id # last_id
      BY <2>1, <1>3, <1>13
    <3> QED
      BY <2>1, <3>1, <3>2, <3>3, <1>10
  <2>2. CASE p = p0 /\ book'[s][p][i] = o
    BY <2>2, <1>3, <1>4, <1>10
  <2> QED
    BY <1>12, <2>1, <2>2
<1>22. RestingBidsIndexed'
  <2>1. "Bid" \in Sides
    BY DEF Sides
  <2> QED
    BY <1>21, <2>1 DEF RestingBidsIndexed
<1>23. \A p \in Prices : book'[op_side(s0)][p] = book[op_side(s0)][p]
  <2>1. op_side(s0) \in Sides /\ op_side(s0) # s0
    BY DEF op_side, Sides
  <2> QED
    BY <2>1, <1>11
<1> QED
  BY <1>8, <1>9, <1>10, <1>14, <1>16, <1>17, <1>19, <1>20, <1>22, <1>23

LEMMA FinishInv == ASSUME IInv, finish_place PROVE IInv'
<1> DEFINE st == final_status(cmd.time_in_force, remaining, cmd.size)
<1> DEFINE pr == IF cmd.price = 0 /\ cmd.side = "Ask" /\ events # <<>>
                 THEN events[1].price ELSE cmd.price
<1>1. /\ pc = "matching" /\ pc' = "done"
      /\ remaining = 0 \/ (~InQueue /\ \A p \in Prices : ~Ahead(p))
      /\ cmd' = [cmd EXCEPT !.status = st, !.size = remaining, !.price = pr]
      /\ UNCHANGED <<taken, remaining, level, idx, events, last_id>>
  BY DEF finish_place
<1>2. \/ cmd.time_in_force = "Gtc" /\ remaining > 0 /\ add_to_book(remaining)
      \/ UNCHANGED <<book, volume, orders>>
  BY DEF finish_place
<1>3. cmd \in Command /\ remaining \in Nat /\ events \in Seq(Event)
  BY <1>1 DEF IInv, TypeOK
<1>4. st \in Status
  BY DEF final_status, Status
<1>5. pr \in Nat
  <2>1. CASE events = <<>>
    BY <2>1, <1>3 DEF Command
  <2>2. CASE events # <<>>
    <3>1. events[1] \in Event
      BY <2>2, <1>3
    <3>2. events[1].price \in Prices
      BY <3>1 DEF Event
    <3> QED
      BY <3>2, <1>3, PricesAssumption DEF Command
  <2> QED
    BY <2>1, <2>2
<1> HIDE DEF st, pr
<1>6. /\ cmd' \in Command /\ cmd' # Idle
      /\ cmd'.side = cmd.side /\ cmd'.user_id = cmd.user_id
  BY <1>1, <1>3, <1>4, <1>5 DEF Command, Idle
<1>7. /\ book' \in [Sides -> [Prices -> Seq(Order)]]
      /\ orders' \in [OrderIds -> Prices \cup {NoPrice}]
      /\ volume' \in [Sides -> [Prices -> Int]]
      /\ \A p \in Prices :
           book'[op_side(cmd.side)][p] = book[op_side(cmd.side)][p]
      /\ \A s \in Sides, p \in Prices : \A i \in 1 .. Len(book'[s][p]) :
           book'[s][p][i].order_id <= last_id
      /\ UniqueIds' /\ QueuesSortedById' /\ NoCrossBetweenUsers'
      /\ IndexSound' /\ RestingBidsIndexed'
  <2>1. CASE /\ cmd.time_in_force = "Gtc" /\ remaining > 0
             /\ add_to_book(remaining)
    <3>1. ~InQueue /\ \A p \in Prices : ~Ahead(p)
      BY <1>1, <1>3, <2>1
    <3> QED
      BY <1>1, <2>1, <3>1, RestPreserves
  <2>2. CASE UNCHANGED <<book, volume, orders>>
    <3>1. \A s \in Sides, p \in Prices : \A i \in 1 .. Len(book[s][p]) :
            book[s][p][i].order_id <= last_id
      BY DEF IInv, IdsInUse
    <3>2. /\ book' \in [Sides -> [Prices -> Seq(Order)]]
          /\ orders' \in [OrderIds -> Prices \cup {NoPrice}]
          /\ volume' \in [Sides -> [Prices -> Int]]
      BY <2>2 DEF IInv, TypeOK
    <3> QED
      BY <2>2, <3>1, <3>2, BookUnchanged
  <2> QED
    BY <1>2, <2>1, <2>2
<1>8. TypeOK'
  BY <1>1, <1>6, <1>7 DEF IInv, TypeOK
<1>9. IdsInUse'
  BY <1>1, <1>7 DEF IdsInUse
<1>10. OnlyOwnBehind'
  BY <1>1 DEF OnlyOwnBehind
<1>11. PriceTimePriority'
  <2> DEFINE s == op_side(cmd'.side)
  <2>1. s = op_side(cmd.side) /\ events' = events
    BY <1>1, <1>6
  <2>2. \A p \in Prices : book'[s][p] = book[s][p]
    BY <2>1, <1>7
  <2>3. ASSUME NEW k \in 1 .. Len(events'), NEW p \in Prices,
               NEW i \in 1 .. Len(book'[s][p]),
               book'[s][p][i].user_id # cmd'.user_id
        PROVE  /\ ~Better(cmd'.side, p, events'[k].price)
               /\ p = events'[k].price =>
                    book'[s][p][i].order_id >= events'[k].matched_order_id
    <3>1. k \in 1 .. Len(events) /\ i \in 1 .. Len(book[s][p])
          /\ book[s][p][i].user_id # cmd.user_id
      BY <2>1, <2>2, <2>3, <1>6
    <3>2. PriceTimePriority
      BY DEF IInv
    <3>3. /\ ~Better(cmd.side, p, events[k].price)
          /\ p = events[k].price =>
               book[s][p][i].order_id >= events[k].matched_order_id
      BY <3>1, <3>2, <2>1 DEF PriceTimePriority
    <3> QED
      BY <3>3, <2>1, <2>2, <1>6
  <2> QED
    BY <2>3 DEF PriceTimePriority
<1> QED
  BY <1>7, <1>8, <1>9, <1>10, <1>11 DEF IInv

LEMMA CancelInv ==
  ASSUME IInv, NEW c \in Cancels, cancel_order(c)
  PROVE  IInv'
<1> DEFINE p == orders[c.order_id]
<1> DEFINE s == cancel_side(p)
<1>0. /\ TypeOK /\ IdsInUse /\ UniqueIds /\ QueuesSortedById
      /\ NoCrossBetweenUsers /\ IndexSound /\ RestingBidsIndexed
  BY DEF IInv
<1>1. /\ pc' = "done" /\ events' = <<>> /\ level' = NoPrice /\ idx' = 1
      /\ taken' = c.size /\ remaining' = c.size /\ last_id' = last_id
      /\ orders' = drop_from_index(c.order_id)
  BY DEF cancel_order, Serve
<1>2. c \in Command /\ c.order_id \in OrderIds /\ c.size \in Nat
  <2>1. c \in Command
    BY DEF Cancels, Command, Status, Sides, TIFs
  <2> QED
    BY <2>1 DEF Command
<1>3. p \in Prices \cup {NoPrice} /\ s \in Sides
      /\ orders \in [OrderIds -> Prices \cup {NoPrice}]
  BY <1>0, <1>2 DEF TypeOK, cancel_side, Sides
<1>4. /\ orders' \in [OrderIds -> Prices \cup {NoPrice}]
      /\ \A n \in OrderIds :
           orders'[n] = IF n = c.order_id THEN NoPrice ELSE orders[n]
  BY <1>1, <1>2, <1>3 DEF drop_from_index
<1>5. \/ /\ p # NoPrice
         /\ \E i \in 1 .. Len(book[s][p]) :
              book[s][p][i].order_id = c.order_id /\ remove_order(c, s, p, i)
      \/ /\ p = NoPrice \/ \A i \in 1 .. Len(book[s][p]) :
                              book[s][p][i].order_id # c.order_id
         /\ cmd' = [c EXCEPT !.status = "Rejected"]
         /\ UNCHANGED <<book, volume>>
  BY DEF cancel_order
<1> HIDE DEF p, s
<1>6. /\ book' \in [Sides -> [Prices -> Seq(Order)]]
      /\ volume' \in [Sides -> [Prices -> Int]]
      /\ cmd' \in Command
      /\ Thinned
      /\ UniqueIds' /\ QueuesSortedById' /\ NoCrossBetweenUsers'
      /\ IndexSound' /\ RestingBidsIndexed'
  <2>1. CASE /\ p # NoPrice
             /\ \E i \in 1 .. Len(book[s][p]) :
                  /\ book[s][p][i].order_id = c.order_id
                  /\ remove_order(c, s, p, i)
    <3>0. p \in Prices
      BY <2>1, <1>3
    <3>1. PICK i \in 1 .. Len(book[s][p]) :
            book[s][p][i].order_id = c.order_id /\ remove_order(c, s, p, i)
      BY <2>1
    <3> DEFINE o == book[s][p][i]
    <3>2. /\ Removal(s, p, i)
          /\ volume' = [volume EXCEPT ![s][p] = @ - o.size]
          /\ cmd' = [c EXCEPT !.price = p, !.size = o.size,
                              !.user_id = o.user_id, !.side = o.side,
                              !.status = "Cancelled",
                              !.original_size = o.original_size]
      BY <3>1 DEF remove_order, Removal
    <3>3. o \in Order /\ o.size \in Nat
      BY <1>0, <1>3, <3>0, RestingTyped
    <3>4. /\ book' \in [Sides -> [Prices -> Seq(Order)]]
          /\ \A t \in Sides, u \in Prices : \A k \in 1 .. Len(book'[t][u]) :
               \E j \in 1 .. Len(book[t][u]) :
                 book'[t][u][k] = book[t][u][j] /\ k <= j
                 /\ (t = s /\ u = p => j # i)
          /\ UniqueIds' /\ QueuesSortedById' /\ NoCrossBetweenUsers'
      BY <1>0, <1>3, <3>0, <3>2, RemovalPreservesBook
    <3>5. IndexSound' /\ RestingBidsIndexed'
      <4>1. orders' = drop_from_index(book[s][p][i].order_id)
        BY <1>1, <3>1
      <4> QED
        BY <1>0, <1>3, <3>0, <3>2, <4>1, RemovalPreservesIndex
    <3>6. Thinned
      BY <3>4, ZenonT(60) DEF Thinned
    <3>7. volume' \in [Sides -> [Prices -> Int]]
      <4>1. volume \in [Sides -> [Prices -> Int]]
        BY <1>0 DEF TypeOK
      <4>2. volume[s][p] - o.size \in Int
        BY <4>1, <1>3, <3>0, <3>3
      <4>3. [volume[s] EXCEPT ![p] = @ - o.size] \in [Prices -> Int]
        BY <4>1, <4>2, <1>3, <3>0
      <4> QED
        BY <3>2, <4>1, <4>3, <1>3
    <3>8. cmd' \in Command
      <4>1. p \in Nat /\ "Cancelled" \in Status
        BY <3>0, PricesAssumption DEF Status
      <4>2. /\ o.size \in Nat /\ o.user_id \in Users /\ o.side \in Sides
            /\ o.original_size \in Nat
        BY <3>3 DEF Order
      <4> HIDE DEF o
      <4> QED
        BY <1>2, <3>2, <4>1, <4>2 DEF Command
    <3> QED
      BY <3>4, <3>5, <3>6, <3>7, <3>8
  <2>2. CASE /\ p = NoPrice \/ \A i \in 1 .. Len(book[s][p]) :
                                  book[s][p][i].order_id # c.order_id
             /\ cmd' = [c EXCEPT !.status = "Rejected"]
             /\ UNCHANGED <<book, volume>>
    <3>1. /\ book' \in [Sides -> [Prices -> Seq(Order)]]
          /\ volume' \in [Sides -> [Prices -> Int]]
          /\ book' = book
      BY <2>2, <1>0 DEF TypeOK
    <3>2. cmd' \in Command
      BY <2>2, <1>2 DEF Command, Status
    <3>3. Thinned
      BY <3>1 DEF Thinned
    <3>4. UniqueIds' /\ NoCrossBetweenUsers'
      BY <1>0, <3>3, ThinningPreserves
    <3>5. QueuesSortedById'
      BY <1>0, <3>1 DEF QueuesSortedById
    <3>6. IndexSound'
      <4> SUFFICES ASSUME NEW n \in OrderIds, orders'[n] # NoPrice
                   PROVE  \E t \in Sides : \E i \in 1 .. Len(book[t][orders'[n]]) :
                            book[t][orders'[n]][i].order_id = n
        BY <3>1 DEF IndexSound
      <4>1. orders'[n] = orders[n]
        BY <1>4
      <4> QED
        BY <4>1, <1>0 DEF IndexSound
    <3>7. ASSUME NEW b \in Sides, b = "Bid", NEW u \in Prices,
                 NEW i \in 1 .. Len(book[b][u])
          PROVE  orders'[book[b][u][i].order_id] = u
      <4> DEFINE n == book[b][u][i].order_id
      <4>1. orders[n] = u
        BY <1>0, <3>7 DEF RestingBidsIndexed
      <4>2. n \in OrderIds /\ book[b][u] \in Seq(Order)
        BY <1>0, RestingTyped
      <4>3. n # c.order_id
        <5> SUFFICES ASSUME n = c.order_id PROVE FALSE
          OBVIOUS
        <5>1. p = u
          BY <4>1 DEF p
        <5>2. p # NoPrice
          BY <5>1, PricesAssumption DEF NoPrice
        <5>3. book[b][p] # <<>>
          BY <5>1, <4>2
        <5>4. s = b
          BY <5>3, <3>7 DEF s, cancel_side
        <5>5. \A k \in 1 .. Len(book[s][p]) :
                book[s][p][k].order_id # c.order_id
          BY <5>2, <2>2
        <5> QED
          BY <5>1, <5>4, <5>5
      <4> QED
        BY <4>1, <4>2, <4>3, <1>4
    <3>8. RestingBidsIndexed'
      <4>1. "Bid" \in Sides
        BY DEF Sides
      <4> QED
        BY <3>1, <3>7, <4>1 DEF RestingBidsIndexed
    <3> QED
      BY <3>1, <3>2, <3>3, <3>4, <3>5, <3>6, <3>8
  <2> QED
    BY <1>5, <2>1, <2>2
<1>7. TypeOK'
  <2>1. cmd' # Idle
    BY <1>6 DEF Command, Idle
  <2> QED
    BY <1>0, <1>1, <1>2, <1>4, <1>6, <2>1 DEF TypeOK
<1>8. IdsInUse'
  <2>1. \A t \in Sides, u \in Prices : \A i \in 1 .. Len(book'[t][u]) :
          book'[t][u][i].order_id <= last_id
    BY <1>0, <1>6 DEF Thinned, IdsInUse
  <2> QED
    BY <1>1, <2>1 DEF IdsInUse
<1>9. OnlyOwnBehind' /\ PriceTimePriority'
  BY <1>1 DEF OnlyOwnBehind, PriceTimePriority
<1> QED
  BY <1>6, <1>7, <1>8, <1>9 DEF IInv

LEMMA StutterInv == ASSUME IInv, UNCHANGED vars PROVE IInv'
<1>1. UNCHANGED <<book, volume, orders, cmd, pc, taken, remaining, level, idx,
                  events, last_id>>
  BY DEF vars
<1>2. TypeOK'
  BY <1>1 DEF IInv, TypeOK
<1>3. IdsInUse'
  BY <1>1 DEF IInv, IdsInUse
<1>4. OnlyOwnBehind'
  BY <1>1 DEF IInv, OnlyOwnBehind
<1>5. PriceTimePriority'
  BY <1>1 DEF IInv, PriceTimePriority
<1> QED
  BY <1>1, <1>2, <1>3, <1>4, <1>5, BookUnchanged DEF IInv

LEMMA NextInv == IInv /\ [Next]_vars => IInv'
<1> SUFFICES ASSUME IInv, [Next]_vars PROVE IInv'
  OBVIOUS
<1>1. CASE \E c \in NewOrders : place_order(c)
  BY <1>1, PlaceInv
<1>2. CASE \E p \in Prices : open_level(p)
  BY <1>2, OpenInv
<1>3. CASE skip_own_order
  BY <1>3, SkipInv
<1>4. CASE fill_maker
  BY <1>4, FillInv
<1>5. CASE finish_place
  BY <1>5, FinishInv
<1>6. CASE \E c \in Cancels : cancel_order(c)
  BY <1>6, CancelInv
<1>7. CASE deliver
  BY <1>7, DeliverInv
<1>8. CASE UNCHANGED vars
  BY <1>8, StutterInv
<1> QED
  BY <1>1, <1>2, <1>3, <1>4, <1>5, <1>6, <1>7, <1>8 DEF Next

-----------------------------------------------------------------------------
(* IInv is inductive: it holds of an empty book and every step of the      *)
(* matching thread preserves it.                                           *)
THEOREM Inductive == Spec => []IInv
<1>1. Init => IInv
  BY InitInv
<1>2. IInv /\ [Next]_vars => IInv'
  BY NextInv
<1> QED
  BY <1>1, <1>2, PTL DEF Spec

(* The book, the index, the command and its events keep their types; in    *)
(* particular no resting order has size zero and no u64 subtraction of the *)
(* matching loop underflows.                                               *)
THEOREM TypeCorrect == Spec => []TypeOK
<1>1. IInv => TypeOK
  BY DEF IInv
<1> QED
  BY <1>1, Inductive, PTL

(* match_order and add_to_book never leave bids and asks of two different  *)
(* users crossed.                                                          *)
THEOREM NeverCrossed == Spec => []NoCrossBetweenUsers
<1>1. IInv => NoCrossBetweenUsers
  BY DEF IInv
<1> QED
  BY <1>1, Inductive, PTL

(* match_order trades in price-time priority, between any two iterations.  *)
THEOREM PriorityKept == Spec => []PriceTimePriority
<1>1. IInv => PriceTimePriority
  BY DEF IInv
<1> QED
  BY <1>1, Inductive, PTL

(* The queues remove_order searches by bisection are sorted.               *)
THEOREM QueuesSorted == Spec => []QueuesSortedById
<1>1. IInv => QueuesSortedById
  BY DEF IInv
<1> QED
  BY <1>1, Inductive, PTL

(* cancel_order never follows the index to an order that is gone.          *)
THEOREM IndexIsSound == Spec => []IndexSound
<1>1. IInv => IndexSound
  BY DEF IInv
<1> QED
  BY <1>1, Inductive, PTL

(* Every resting bid is found by cancel_order.                             *)
THEOREM BidsCancellable == Spec => []RestingBidsIndexed
<1>1. IInv => RestingBidsIndexed
  BY DEF IInv
<1> QED
  BY <1>1, Inductive, PTL

-----------------------------------------------------------------------------
(* What the book adds up: level volumes, the volume a fill-or-kill order   *)
(* finds, executed sizes, and the views (price cache, L2 snapshot) taken   *)
(* from them.                                                              *)


(* A resting order is on its own side, with no more than it came with.     *)
RestingSound ==
  \A s \in Sides, p \in Prices : \A i \in 1 .. Len(book[s][p]) :
    /\ book[s][p][i].side = s
    /\ book[s][p][i].size <= book[s][p][i].original_size

(* What has been executed and what is left make up the order; outside      *)
(* matching, the result a placed order carries is that remainder.          *)
Accounts ==
  /\ pc = "matching" \/ (pc = "done" /\ cmd.command = "PlaceOrder") =>
       TotalSize(events) + remaining = taken
  /\ pc = "matching" => cmd.size = taken
  /\ pc = "done" /\ cmd.command = "PlaceOrder" => cmd.size = remaining

(* Every event so far is still true of the book; only the last trade can   *)
(* leave its maker in the book, and then nothing remains to be matched.    *)
EventsTrue ==
  \A k \in 1 .. Len(events) :
    LET e == events[k]
        q == book[op_side(cmd.side)][e.price]
    IN /\ e.matched_order_id < cmd.order_id
       /\ IF e.matched_order_completed
          THEN /\ orders[e.matched_order_id] = NoPrice
               /\ \A i \in 1 .. Len(q) : q[i].order_id # e.matched_order_id
          ELSE /\ remaining = 0
               /\ \E i \in 1 .. Len(q) :
                    /\ q[i].order_id = e.matched_order_id
                    /\ q[i].user_id = e.maker_user_id
                    /\ q[i].size = e.maker_remaining_size
                    /\ q[i].size + e.size <= q[i].original_size

(* The level being walked is one the taker accepts, and every trade so far *)
(* was at such a level and with another user.                              *)
EventsFair ==
  /\ pc = "matching" /\ level # NoPrice =>
       price_check(cmd.side, cmd.price, level)
  /\ pc # "idle" =>
       \A k \in 1 .. Len(events) : events[k].maker_user_id # cmd.user_id
  /\ pc = "matching" =>
       \A k \in 1 .. Len(events) :
         price_check(cmd.side, cmd.price, events[k].price)

(* Other users' orders that the command being served can trade with.       *)
Others == {o \in acceptable_makers(cmd) : o.user_id # cmd.user_id}

(* A fill-or-kill order that is matching still finds all it needs; once    *)
(* done it is Filled, or was never matched.                                *)
FokCovered ==
  /\ pc = "matching" /\ cmd.time_in_force = "Fok" =>
       available_volume(Others) >= remaining
  /\ FokAllOrNothing

(* Between commands the price cache is the top of the book, and a placed   *)
(* order carries the snapshot of the book it leaves.                       *)
ViewsFresh ==
  /\ pc # "matching" => cache = [s \in Sides |-> best_price(book, s)]
  /\ pc = "done" /\ cmd.command = "PlaceOrder" =>
       l2 = l2_snapshot(book, volume)

(* The inductive invariant.                                                *)
Totals ==
  /\ IInv
  /\ VolumeIsSum
  /\ RestingSound
  /\ Accounts
  /\ EventsTrue
  /\ EventsFair
  /\ FokCovered
  /\ ViewsFresh

-----------------------------------------------------------------------------
(* Sums over a queue.                                                      *)

(* The sizes of an empty queue add up to 0.                                *)
LEMMA TotalEmpty == TotalSize(<<>>) = 0
<1>1. DOMAIN [i \in 1 .. Len(<<>>) |-> (<<>>)[i].size] = {}
  OBVIOUS
<1> QED
  BY <1>1, SumEmpty DEF TotalSize, SumFunction

(* The sizes of a queue, as a sum over its positions.                      *)
LEMMA TotalOnSet ==
  ASSUME NEW q
  PROVE  TotalSize(q)
           = SumFunctionOnSet([i \in 1 .. Len(q) |-> q[i].size], 1 .. Len(q))
  BY DEF TotalSize, SumFunction

(* Sizes add up to a natural.                                              *)
LEMMA TotalNat ==
  ASSUME NEW S, NEW q \in Seq(S), \A i \in 1 .. Len(q) : q[i].size \in Nat
  PROVE  TotalSize(q) \in Nat
<1> DEFINE f == [i \in 1 .. Len(q) |-> q[i].size]
<1>1. IsFiniteSet(1 .. Len(q))
  BY FS_Interval, 1 \in Int, Len(q) \in Int
<1>2. \A i \in 1 .. Len(q) : f[i] \in Nat
  OBVIOUS
<1> HIDE DEF f
<1>3. SumFunctionOnSet(f, 1 .. Len(q)) \in Nat
  BY <1>1, <1>2, SumNat
<1> QED
  BY <1>3, TotalOnSet DEF f

(* add_order: a queue with an order appended has that much more volume.    *)
LEMMA TotalAppend ==
  ASSUME NEW S, NEW q \in Seq(S), \A i \in 1 .. Len(q) : q[i].size \in Nat,
         NEW o \in S, o.size \in Nat
  PROVE  TotalSize(Append(q, o)) = TotalSize(q) + o.size
<1> DEFINE r == Append(q, o)
           f == [i \in 1 .. Len(q) |-> q[i].size]
           g == [i \in 1 .. Len(r) |-> r[i].size]
           n == Len(q)
<1>1. /\ n \in Nat /\ Len(r) = n + 1 /\ r[n + 1] = o
      /\ \A i \in 1 .. n : r[i] = q[i]
  OBVIOUS
<1>2. IsFiniteSet(1 .. n)
  BY FS_Interval, 1 \in Int, n \in Int
<1>3. 1 .. Len(r) = (1 .. n) \cup {n + 1} /\ n + 1 \notin 1 .. n
  BY <1>1
<1>4. /\ \A i \in 1 .. n : g[i] = f[i] /\ g[i] \in Int
      /\ g[n + 1] = o.size
  BY <1>1
<1>5. \A i \in (1 .. n) \cup {n + 1} : g[i] \in Int
  BY <1>4
<1> HIDE DEF f, g, n
<1>6. SumFunctionOnSet(g, (1 .. n) \cup {n + 1})
        = SumFunctionOnSet(g, 1 .. n) + g[n + 1]
  BY <1>2, <1>3, <1>5, SumAdd
<1>7. SumFunctionOnSet(g, 1 .. n) = SumFunctionOnSet(f, 1 .. n)
  BY <1>2, <1>4, SumAgree
<1>8. TotalSize(r) = SumFunctionOnSet(g, 1 .. Len(r))
  BY TotalOnSet DEF g
<1>9. TotalSize(q) = SumFunctionOnSet(f, 1 .. n)
  BY TotalOnSet DEF f, n
<1> QED
  BY <1>3, <1>4, <1>6, <1>7, <1>8, <1>9

(* remove_order, or a maker filled: a queue without its i-th order has     *)
(* that much less.                                                         *)
LEMMA TotalRemove ==
  ASSUME NEW S, NEW q \in Seq(S), \A k \in 1 .. Len(q) : q[k].size \in Nat,
         NEW i \in 1 .. Len(q)
  PROVE  TotalSize(RemoveAt(q, i)) = TotalSize(q) - q[i].size
<1> DEFINE r == RemoveAt(q, i)
           n == Len(q)
           f == [k \in 1 .. n |-> q[k].size]
           g == [k \in 1 .. Len(r) |-> r[k].size]
           T == (1 .. n) \ {i}
           D == 1 .. n - 1
           h == [k \in D |-> IF k < i THEN k ELSE k + 1]
<1>1. /\ n \in Nat /\ Len(r) = n - 1 /\ i \in 1 .. n
      /\ \A k \in D : r[k] = IF k < i THEN q[k] ELSE q[k + 1]
  BY RemoveAtProperties
<1>2. IsFiniteSet(1 .. n) /\ IsFiniteSet(D)
  BY <1>1, FS_Interval, 1 \in Int, n \in Int, n - 1 \in Int
<1>3. \A k \in 1 .. n : f[k] \in Int
  OBVIOUS
<1>h. h \in Bijection(D, T)
  <2>1. h \in [D -> T]
    BY <1>1
  <2>2. \A a, b \in D : h[a] = h[b] => a = b
    BY <1>1
  <2>3. \A t \in T : \E k \in D : h[k] = t
    <3> TAKE t \in T
    <3>1. CASE t < i
      <4>1. t \in D /\ h[t] = t
        BY <1>1, <3>1
      <4> QED
        BY <4>1
    <3>2. CASE ~(t < i)
      <4>1. t - 1 \in D /\ h[t - 1] = t
        BY <1>1, <3>2
      <4> QED
        BY <4>1
    <3> QED
      BY <3>1, <3>2
  <2> HIDE DEF h, T, n
  <2> QED
    BY <2>1, <2>2, <2>3, Fun_IsBij
<1>4. \A k \in D : g[k] = f[h[k]]
  <2> TAKE k \in D
  <2>1. k \in 1 .. Len(r) /\ g[k] = r[k].size
    BY <1>1
  <2>2. h[k] \in 1 .. n /\ r[k] = q[h[k]]
    BY <1>1
  <2> QED
    BY <2>1, <2>2
<1>5. T \subseteq 1 .. n
  OBVIOUS
<1>6. TotalSize(q) = SumFunctionOnSet(f, 1 .. n)
  BY TotalOnSet
<1>7. TotalSize(r) = SumFunctionOnSet(g, D)
  BY <1>1, TotalOnSet
<1>8. f[i] = q[i].size /\ f[i] \in Int
  BY <1>1
<1>10. SumFunctionOnSet(f, 1 .. n) = f[i] + SumFunctionOnSet(f, T)
  <2> HIDE DEF f, n
  <2> QED
    BY <1>1, <1>2, <1>3, SumTake
<1>11. SumFunctionOnSet(f, T)
         = SumFunctionOnSet([k \in D |-> f[h[k]]], D)
  <2>1. \A k \in T : f[k] \in Int
    BY <1>3, <1>5
  <2> HIDE DEF f, h, T, D
  <2> QED
    BY <1>2, <1>h, <2>1, SumRenamed
<1>12. SumFunctionOnSet([k \in D |-> f[h[k]]], D)
         = SumFunctionOnSet(g, D)
  <2>1. \A k \in D : [j \in D |-> f[h[j]]][k] = g[k]
    BY <1>4
  <2> HIDE DEF f, g, h, D
  <2> QED
    BY <1>2, <2>1, SumAgree
<1>13. SumFunctionOnSet(f, T) \in Int
  <2>1. IsFiniteSet(T)
    BY <1>2, <1>5, FS_Subset
  <2> HIDE DEF f
  <2> QED
    BY <2>1, <1>3, <1>5, SumInt
<1> HIDE DEF f, g, h, D, T, r
<1>14. TotalSize(q) = f[i] + TotalSize(r) /\ TotalSize(r) \in Int
  BY <1>6, <1>7, <1>10, <1>11, <1>12, <1>13
<1>15. TotalSize(r) = TotalSize(q) - q[i].size
  BY <1>8, <1>14
<1> QED
  BY <1>15 DEF r

(* A partial fill: a queue whose i-th order changes its size.              *)
LEMMA TotalResize ==
  ASSUME NEW S, NEW q \in Seq(S), NEW r \in Seq(S), Len(r) = Len(q),
         \A k \in 1 .. Len(q) : q[k].size \in Nat /\ r[k].size \in Nat,
         NEW i \in 1 .. Len(q),
         \A k \in 1 .. Len(q) : k # i => r[k].size = q[k].size
  PROVE  TotalSize(r) = TotalSize(q) - q[i].size + r[i].size
<1> DEFINE D == 1 .. Len(q)
           f == [k \in D |-> q[k].size]
           g == [k \in D |-> r[k].size]
<1>1. IsFiniteSet(D)
  BY FS_Interval, 1 \in Int, Len(q) \in Int
<1>2. i \in D /\ f[i] = q[i].size /\ g[i] = r[i].size
  OBVIOUS
<1>a. \A k \in D : f[k] \in Int /\ g[k] \in Int
  OBVIOUS
<1>b. \A k \in D \ {i} : f[k] = g[k]
  OBVIOUS
<1>c. i \in D
  OBVIOUS
<1>3. TotalSize(q) = SumFunctionOnSet(f, D)
  BY TotalOnSet
<1>4. TotalSize(r) = SumFunctionOnSet(g, D)
  BY TotalOnSet
<1> HIDE DEF f, g, D
<1>d. IsFiniteSet(D \ {i})
  BY <1>1, FS_RemoveElement
<1>5. SumFunctionOnSet(f, D) = f[i] + SumFunctionOnSet(f, D \ {i})
  BY <1>1, <1>a, <1>c, SumTake
<1>6. SumFunctionOnSet(g, D) = g[i] + SumFunctionOnSet(g, D \ {i})
  BY <1>1, <1>a, <1>c, SumTake
<1>7. SumFunctionOnSet(f, D \ {i}) = SumFunctionOnSet(g, D \ {i})
  BY <1>b, <1>d, SumAgree
<1>8. SumFunctionOnSet(f, D \ {i}) \in Int /\ f[i] \in Int /\ g[i] \in Int
  BY <1>a, <1>c, <1>d, SumInt
<1> QED
  BY <1>2, <1>3, <1>4, <1>5, <1>6, <1>7, <1>8

-----------------------------------------------------------------------------
(* Orders and prices.                                                      *)

(* What a book of the right type holds.                                    *)
LEMMA BookTyped ==
  ASSUME NEW b \in [Sides -> [Prices -> Seq(Order)]],
         NEW s \in Sides, NEW p \in Prices
  PROVE  /\ b[s][p] \in Seq(Order) /\ Len(b[s][p]) \in Nat
         /\ \A i \in 1 .. Len(b[s][p]) :
              /\ b[s][p][i] \in Order
              /\ b[s][p][i].size \in Nat \ {0}
              /\ b[s][p][i].order_id \in OrderIds
              /\ b[s][p][i].original_size \in Nat
<1>1. b[s][p] \in Seq(Order)
  OBVIOUS
<1>2. \A i \in 1 .. Len(b[s][p]) : b[s][p][i] \in Order
  BY <1>1
<1> QED
  BY <1>1, <1>2 DEF Order

(* An id names one place of the book.                                      *)
LEMMA OnePlace ==
  ASSUME IInv, NEW s \in Sides, NEW t \in Sides,
         NEW p \in Prices, NEW u \in Prices,
         NEW i \in 1 .. Len(book[s][p]), NEW j \in 1 .. Len(book[t][u]),
         book[s][p][i].order_id = book[t][u][j].order_id
  PROVE  s = t /\ p = u /\ i = j
<1>1. s = t
  BY DEF IInv, UniqueIds
<1>2. p = u
  BY DEF IInv, UniqueIds
<1>3. Len(book[s][p]) \in Nat /\ book[s][p][i].order_id \in Nat
  BY RestingTyped DEF IInv, TypeOK
<1>4. /\ i < j => book[s][p][i].order_id < book[s][p][j].order_id
      /\ j < i => book[s][p][j].order_id < book[s][p][i].order_id
  BY <1>1, <1>2 DEF IInv, QueuesSortedById
<1>5. i \in Nat /\ j \in Nat
  BY <1>1, <1>2, <1>3
<1> QED
  BY <1>1, <1>2, <1>3, <1>4, <1>5

(* Nothing rests twice.                                                    *)
Distinct(b) ==
  \A s \in Sides, p, q \in Prices :
    \A i \in 1 .. Len(b[s][p]), j \in 1 .. Len(b[s][q]) :
      b[s][p][i] = b[s][q][j] => p = q /\ i = j

LEMMA NothingTwice == ASSUME IInv PROVE Distinct(book)
<1> SUFFICES ASSUME NEW s \in Sides, NEW p \in Prices, NEW q \in Prices,
                    NEW i \in 1 .. Len(book[s][p]), NEW j \in 1 .. Len(book[s][q]),
                    book[s][p][i] = book[s][q][j]
             PROVE  p = q /\ i = j
  BY DEF Distinct
<1>1. book[s][p][i].order_id = book[s][q][j].order_id
  OBVIOUS
<1>2. IInv
  OBVIOUS
<1>3. s = s /\ p = q /\ i = j
  BY ONLY <1>1, <1>2, OnePlace
<1> QED
  BY <1>3

(* b2 is b without the order in place i0 of a queue.                       *)
Thinner(b, b2, s0, p0, i0) ==
  /\ b2 \in [Sides -> [Prices -> Seq(Order)]]
  /\ \A s \in Sides, p \in Prices : s # s0 \/ p # p0 => b2[s][p] = b[s][p]
  /\ \A i \in 1 .. Len(b2[s0][p0]) : \E j \in 1 .. Len(b[s0][p0]) :
       b2[s0][p0][i] = b[s0][p0][j] /\ j # i0
  /\ \A j \in 1 .. Len(b[s0][p0]) : j # i0 =>
       \E i \in 1 .. Len(b2[s0][p0]) : b2[s0][p0][i] = b[s0][p0][j]

LEMMA RemovalThins ==
  ASSUME IInv, NEW s0 \in Sides, NEW p0 \in Prices,
         NEW i0 \in 1 .. Len(book[s0][p0]), Removal(s0, p0, i0)
  PROVE  Thinner(book, book', s0, p0, i0)
<1>1. TypeOK /\ QueuesSortedById /\ UniqueIds /\ NoCrossBetweenUsers
  BY DEF IInv
<1>2. /\ book' \in [Sides -> [Prices -> Seq(Order)]]
      /\ \A s \in Sides, p \in Prices :
           s # s0 \/ p # p0 => book'[s][p] = book[s][p]
      /\ \A s \in Sides, p \in Prices : \A i \in 1 .. Len(book'[s][p]) :
           \E j \in 1 .. Len(book[s][p]) :
              book'[s][p][i] = book[s][p][j] /\ i <= j
              /\ (s = s0 /\ p = p0 => j # i0)
      /\ \A j \in 1 .. Len(book[s0][p0]) : j # i0 =>
           \E i \in 1 .. Len(book'[s0][p0]) :
              book'[s0][p0][i] = book[s0][p0][j]
  BY <1>1, RemovalPreservesBook, ZenonT(60)
<1>3. \A i \in 1 .. Len(book'[s0][p0]) : \E j \in 1 .. Len(book[s0][p0]) :
        book'[s0][p0][i] = book[s0][p0][j] /\ j # i0
  BY <1>2, ZenonT(60)
<1> QED
  BY <1>2, <1>3, ZenonT(60) DEF Thinner

(* b2 is b with another order in place i0 of a queue.                      *)
Changed(b, b2, s0, p0, i0, o) ==
  /\ b2 \in [Sides -> [Prices -> Seq(Order)]]
  /\ \A s \in Sides, p \in Prices : s # s0 \/ p # p0 => b2[s][p] = b[s][p]
  /\ Len(b2[s0][p0]) = Len(b[s0][p0])
  /\ \A i \in 1 .. Len(b[s0][p0]) : i # i0 => b2[s0][p0][i] = b[s0][p0][i]
  /\ b2[s0][p0][i0] = o

(* Prices are bounded by u64::MAX, so there are finitely many.             *)
LEMMA PricesFinite == IsFiniteSet(Prices)
<1>1. Prices \in SUBSET Nat /\ U64MAX \in Nat /\ \A p \in Prices : p <= U64MAX
  BY PricesAssumption, MaxAssumption
<1> QED
  BY <1>1, FS_BoundedSetOfNaturals

(* The makers of a command in a book, which need not be the current one.   *)
Makers(b, c) ==
  LET s == op_side(c.side)
  IN UNION {{b[s][p][i] : i \in 1 .. Len(b[s][p])} :
              p \in {q \in Prices : price_check(c.side, c.price, q)}}

(* A maker is an order that rests at an acceptable price ...               *)
LEMMA MakerRests ==
  ASSUME NEW b, NEW c, NEW o \in Makers(b, c)
  PROVE  \E p \in Prices : /\ price_check(c.side, c.price, p)
                           /\ \E i \in 1 .. Len(b[op_side(c.side)][p]) :
                                o = b[op_side(c.side)][p][i]
<1> DEFINE s == op_side(c.side)
<1>1. PICK m \in {{b[s][p][i] : i \in 1 .. Len(b[s][p])} :
                    p \in {q \in Prices : price_check(c.side, c.price, q)}} :
        o \in m
  BY DEF Makers
<1>2. PICK p \in {q \in Prices : price_check(c.side, c.price, q)} :
        m = {b[s][p][i] : i \in 1 .. Len(b[s][p])}
  BY <1>1
<1> QED
  BY <1>1, <1>2

(* ... and every order that does is one.                                   *)
LEMMA RestingIsMaker ==
  ASSUME NEW b, NEW c, NEW p \in Prices, price_check(c.side, c.price, p),
         NEW i \in 1 .. Len(b[op_side(c.side)][p])
  PROVE  b[op_side(c.side)][p][i] \in Makers(b, c)
<1> DEFINE s == op_side(c.side)
           m(u) == {b[s][u][k] : k \in 1 .. Len(b[s][u])}
           F == {q \in Prices : price_check(c.side, c.price, q)}
<1>1. b[s][p][i] \in m(p) /\ p \in F
  OBVIOUS
<1>2. Makers(b, c) = UNION {m(u) : u \in F}
  BY DEF Makers
<1> HIDE DEF m, F
<1> QED
  BY <1>1, <1>2

(* The makers of a command are finitely many orders.                       *)
LEMMA MakersFinite ==
  ASSUME NEW b \in [Sides -> [Prices -> Seq(Order)]], NEW c
  PROVE  IsFiniteSet(Makers(b, c)) /\ Makers(b, c) \in SUBSET Order
<1> DEFINE s == op_side(c.side)
           m(u) == {b[s][u][k] : k \in 1 .. Len(b[s][u])}
           F == {q \in Prices : price_check(c.side, c.price, q)}
           G == {m(u) : u \in F}
<1>1. s \in Sides
  BY DEF op_side, Sides
<1>2. Makers(b, c) = UNION G
  BY DEF Makers
<1>3. IsFiniteSet(F)
  BY PricesFinite, FS_Subset
<1>4. IsFiniteSet(G)
  <2> DEFINE h == [u \in F |-> m(u)]
  <2>1. h \in [F -> G] /\ \A g \in G : \E u \in F : h[u] = g
    OBVIOUS
  <2> HIDE DEF h, F, G
  <2>2. h \in Surjection(F, G)
    BY <2>1, Fun_IsSurj
  <2> QED
    BY <1>3, <2>2, FS_Surjection
<1>5. ASSUME NEW u \in F
      PROVE  IsFiniteSet(m(u)) /\ m(u) \subseteq Order
  <2> DEFINE q == b[s][u]
             D == 1 .. Len(q)
             R == m(u)
             h == [k \in D |-> q[k]]
  <2>1. q \in Seq(Order) /\ Len(q) \in Nat
    BY <1>1
  <2>2. IsFiniteSet(D)
    BY <2>1, FS_Interval, 1 \in Int, Len(q) \in Int
  <2>3. h \in [D -> R] /\ \A g \in R : \E k \in D : h[k] = g
    OBVIOUS
  <2>4. IsFiniteSet(R)
    <3> HIDE DEF h, D, R
    <3>1. h \in Surjection(D, R)
      BY <2>3, Fun_IsSurj
    <3> QED
      BY <2>2, <3>1, FS_Surjection
  <2>5. R \subseteq Order
    BY <2>1
  <2> QED
    BY <2>4, <2>5
<1>6. \A g \in G : IsFiniteSet(g) /\ g \subseteq Order
  <2> TAKE g \in G
  <2>1. PICK u \in F : g = m(u)
    OBVIOUS
  <2> HIDE DEF m, F, G
  <2> QED
    BY <1>5, <2>1
<1> HIDE DEF G
<1>7. IsFiniteSet(UNION G)
  BY <1>4, <1>6, FS_UNION
<1>8. UNION G \in SUBSET Order
  BY <1>6
<1> QED
  BY <1>2, <1>7, <1>8

(* Taking one order out of a set of orders takes its size out of their     *)
(* volume.                                                                 *)
LEMMA VolumeWithout ==
  ASSUME NEW M \in SUBSET Order, IsFiniteSet(M), NEW o \in M
  PROVE  available_volume(M) = o.size + available_volume(M \ {o})
<1> DEFINE f == [x \in M |-> x.size]
           g == [x \in M \ {o} |-> x.size]
           R == M \ {o}
<1>1. \A x \in M : f[x] \in Int
  BY DEF Order
<1>2. \A x \in R : f[x] = g[x]
  OBVIOUS
<1>3. IsFiniteSet(R)
  BY FS_RemoveElement
<1>4. available_volume(M) = SumFunctionOnSet(f, M)
  BY DEF available_volume, SumFunction
<1>5. available_volume(R) = SumFunctionOnSet(g, R)
  BY DEF available_volume, SumFunction
<1>6. f[o] = o.size
  OBVIOUS
<1> HIDE DEF f, g
<1>7. SumFunctionOnSet(f, M) = f[o] + SumFunctionOnSet(f, M \ {o})
  BY <1>1, SumTake
<1>8. SumFunctionOnSet(f, R) = SumFunctionOnSet(g, R)
  BY <1>2, <1>3, SumAgree
<1> QED
  BY <1>4, <1>5, <1>6, <1>7, <1>8

(* Orders have a volume, and no orders have none.                          *)
LEMMA VolumeNat ==
  ASSUME NEW M \in SUBSET Order, IsFiniteSet(M)
  PROVE  available_volume(M) \in Nat /\ (M = {} => available_volume(M) = 0)
<1> DEFINE f == [x \in M |-> x.size]
<1>1. \A x \in M : f[x] \in Nat
  BY DEF Order
<1>2. available_volume(M) = SumFunctionOnSet(f, M)
  BY DEF available_volume, SumFunction
<1> HIDE DEF f
<1>3. SumFunctionOnSet(f, M) \in Nat
  BY <1>1, SumNat
<1> QED
  BY <1>2, <1>3, SumEmpty

(* best_price of a side that has levels is a level no other improves on;   *)
(* the sentinels of an empty side are no price.                            *)
LEMMA BestIsLevel ==
  ASSUME NEW b, NEW s \in Sides
  PROVE  /\ Levels(b, s) # {} =>
              /\ best_price(b, s) \in Levels(b, s)
              /\ \A q \in Levels(b, s) : ~Better(op_side(s), q, best_price(b, s))
         /\ Levels(b, s) = {} => best_price(b, s) \notin Prices
<1> DEFINE L == Levels(b, s)
           P(p) == \A q \in L \ {p} : Better(op_side(s), p, q)
<1>1. L \in SUBSET Prices /\ (\A x \in L : x \in Nat) /\ IsFiniteSet(L)
  <2>1. L \in SUBSET Prices
    BY DEF Levels
  <2> QED
    BY <2>1, PricesAssumption, PricesFinite, FS_Subset
<1>2. ASSUME L # {}
      PROVE  best_price(b, s) \in L /\ P(best_price(b, s))
  <2>1. \E p \in L : P(p)
    <3>1. CASE s = "Bid"
      <4>1. PICK m \in L : \A x \in L : x <= m
        BY <1>1, <1>2, Extremes
      <4>2. P(m)
        BY <1>1, <3>1, <4>1 DEF Better, op_side
      <4> QED
        BY <4>1, <4>2
    <3>2. CASE s = "Ask"
      <4>1. PICK m \in L : \A x \in L : m <= x
        BY <1>1, <1>2, Extremes
      <4>2. P(m)
        BY <1>1, <3>2, <4>1 DEF Better, op_side
      <4> QED
        BY <4>1, <4>2
    <3> QED
      BY <3>1, <3>2 DEF Sides
  <2>2. best_price(b, s) = CHOOSE p \in L : P(p)
    BY <1>2 DEF best_price
  <2> HIDE DEF L, P
  <2> QED
    BY <2>1, <2>2
<1>3. ASSUME L # {}, NEW q \in L
      PROVE  ~Better(op_side(s), q, best_price(b, s))
  <2>1. best_price(b, s) \in Nat /\ q \in Nat
    BY <1>1, <1>2, <1>3
  <2>2. q = best_price(b, s) \/ Better(op_side(s), best_price(b, s), q)
    BY <1>2, <1>3
  <2> QED
    BY <2>1, <2>2 DEF Better
<1>4. L = {} => best_price(b, s) \notin Prices
  BY PricesAssumption, MaxAssumption DEF best_price
<1> QED
  BY <1>2, <1>3, <1>4

-----------------------------------------------------------------------------
(* The empty book.                                                         *)

(* An empty book adds up, and its views are those of an empty book.        *)
LEMMA InitTotals == Init => Totals
<1> SUFFICES ASSUME Init PROVE Totals
  OBVIOUS
<1>1. /\ \A s \in Sides, p \in Prices : book[s][p] = <<>> /\ volume[s][p] = 0
      /\ events = <<>> /\ pc = "idle"
  BY DEF Init
<1>2. VolumeIsSum
  BY <1>1, TotalEmpty DEF VolumeIsSum
<1>3. RestingSound /\ EventsTrue /\ EventsFair
  BY <1>1 DEF RestingSound, EventsTrue, EventsFair
<1>4. Accounts /\ FokCovered
  BY <1>1 DEF Accounts, FokCovered, FokAllOrNothing
<1>5. \A s \in Sides : Levels(book, s) = {}
  BY <1>1 DEF Levels
<1>6. ViewsFresh
  BY <1>1, <1>5 DEF ViewsFresh, best_price, Init
<1> QED
  BY <1>2, <1>3, <1>4, <1>6, InitInv DEF Totals

-----------------------------------------------------------------------------
(* Whom a command trades with, and at which prices.                        *)

(* Own orders are passed over, levels are opened only at prices that pass  *)
(* price_check, and nothing else makes an event.                           *)
LEMMA NextFair == IInv /\ EventsFair /\ [Next]_vars => EventsFair'
<1> SUFFICES ASSUME IInv, EventsFair, [Next]_vars PROVE EventsFair'
  OBVIOUS
<1>1. CASE \E c \in NewOrders : place_order(c)
  BY <1>1 DEF place_order, Serve, EventsFair
<1>2. CASE \E p \in Prices : open_level(p)
  <2>1. PICK p \in Prices : open_level(p)
    BY <1>2
  <2>2. price_check(cmd.side, cmd.price, level') /\ UNCHANGED <<cmd, pc, events>>
    BY <2>1 DEF open_level, Ahead
  <2> QED
    BY <2>2 DEF EventsFair
<1>3. CASE skip_own_order
  BY <1>3 DEF skip_own_order, EventsFair
<1>4. CASE fill_maker
  <2> DEFINE e == trade_event(Maker, trade_size(remaining, Maker.size))
  <2>1. /\ pc = "matching" /\ level # NoPrice /\ UNCHANGED <<cmd, pc, level>>
        /\ Maker.user_id # cmd.user_id /\ events' = Append(events, e)
    BY <1>4 DEF fill_maker, InQueue
  <2>2. e.price = level /\ e.maker_user_id = Maker.user_id
    BY DEF trade_event
  <2> HIDE DEF e
  <2>3. /\ Len(events') = Len(events) + 1 /\ Len(events) \in Nat
        /\ events'[Len(events) + 1] = e
        /\ \A k \in 1 .. Len(events) : events'[k] = events[k]
    BY <2>1 DEF IInv, TypeOK
  <2>4. ASSUME NEW k \in 1 .. Len(events')
        PROVE  /\ events'[k].maker_user_id # cmd.user_id
               /\ price_check(cmd.side, cmd.price, events'[k].price)
    <3>1. CASE k \in 1 .. Len(events)
      BY <2>1, <2>3, <3>1 DEF EventsFair
    <3>2. CASE k = Len(events) + 1
      BY <2>1, <2>2, <2>3, <3>2 DEF EventsFair
    <3> QED
      BY <2>3, <3>1, <3>2
  <2> QED
    BY <2>1, <2>4 DEF EventsFair
<1>5. CASE finish_place
  <2>1. /\ pc = "matching" /\ pc' = "done" /\ UNCHANGED events
        /\ cmd \in Command => cmd'.user_id = cmd.user_id
    BY <1>5 DEF finish_place, Command
  <2>2. cmd \in Command
    BY <2>1 DEF IInv, TypeOK
  <2> QED
    BY <2>1, <2>2 DEF EventsFair
<1>6. CASE \E c \in Cancels : cancel_order(c)
  BY <1>6 DEF cancel_order, Serve, EventsFair
<1>7. CASE deliver
  BY <1>7 DEF deliver, EventsFair
<1>8. CASE UNCHANGED vars
  BY <1>8 DEF vars, EventsFair
<1> QED
  BY <1>1, <1>2, <1>3, <1>4, <1>5, <1>6, <1>7, <1>8 DEF Next

-----------------------------------------------------------------------------
(* Steps that move only the cursor of the matching loop, or nothing.       *)

(* open_level and skip_own_order leave book, command, events and views     *)
(* alone.                                                                  *)
LEMMA CursorTotals ==
  ASSUME Totals, IInv', EventsFair',
         UNCHANGED <<book, volume, orders, cmd, pc, taken, remaining, events,
                     l2, cache>>
  PROVE  Totals'
<1>1. VolumeIsSum'
  BY DEF Totals, VolumeIsSum
<1>2. RestingSound'
  BY DEF Totals, RestingSound
<1>3. Accounts'
  BY DEF Totals, Accounts
<1>4. EventsTrue'
  BY DEF Totals, EventsTrue
<1>5. Others' = Others
  BY DEF Others, acceptable_makers
<1>6. available_volume(Others') = available_volume(Others)
  BY <1>5
<1>7. FokCovered'
  BY <1>6 DEF Totals, FokCovered, FokAllOrNothing
<1>8. ViewsFresh'
  BY DEF Totals, ViewsFresh
<1> QED
  BY <1>1, <1>2, <1>3, <1>4, <1>7, <1>8 DEF Totals

-----------------------------------------------------------------------------
(* Accepting a command and returning it.                                   *)

(* place_order: the command starts with everything left, and a fill-or-    *)
(* kill order with enough volume ahead of it, or is cancelled untouched.   *)
LEMMA PlaceTotals ==
  ASSUME Totals, IInv', EventsFair', NEW c \in NewOrders, place_order(c)
  PROVE  Totals'
<1>1. /\ taken' = c.size /\ remaining' = c.size /\ events' = <<>>
      /\ UNCHANGED <<book, volume, orders>>
  BY DEF place_order, Serve
<1>2. \/ /\ cmd' = [c EXCEPT !.status = "Cancelled"]
         /\ pc' = "done"
         /\ record_snapshot(book, volume)
         /\ update_price_cache(book)
      \/ /\ c.time_in_force = "Fok" => can_fill_completely(c)
         /\ cmd' = c
         /\ pc' = "matching"
  BY DEF place_order
<1>3. /\ c.command = "PlaceOrder" /\ c.size \in Nat
      /\ cmd'.command = "PlaceOrder" /\ cmd'.size = c.size
      /\ pc' = "done" => cmd'.status = "Cancelled"
  <2>1. c.command = "PlaceOrder" /\ c.size \in Nat
    BY SizesAssumption DEF NewOrders
  <2> QED
    BY <1>2, <2>1 DEF NewOrders
<1>4. VolumeIsSum'
  BY <1>1 DEF Totals, VolumeIsSum
<1>5. RestingSound'
  BY <1>1 DEF Totals, RestingSound
<1>6. EventsTrue'
  BY <1>1 DEF EventsTrue
<1>7. Accounts'
  <2>1. TotalSize(events') + remaining' = taken'
    BY <1>1, <1>3, TotalEmpty
  <2> QED
    BY <1>1, <1>3, <2>1 DEF Accounts
<1>8. FokCovered'
  <2>1. ASSUME pc' = "matching", cmd'.time_in_force = "Fok"
        PROVE  available_volume(Others') >= remaining'
    <3>1. cmd' = c /\ can_fill_completely(c)
      BY <1>2, <2>1
    <3>2. Others' = {o \in acceptable_makers(c) : o.user_id # c.user_id}
      BY <1>1, <3>1 DEF Others, acceptable_makers
    <3> QED
      BY <1>1, <3>1, <3>2 DEF can_fill_completely
  <2>2. FokAllOrNothing'
    BY <1>1, <1>3 DEF FokAllOrNothing
  <2> QED
    BY <2>1, <2>2 DEF FokCovered
<1>9. ViewsFresh'
  <2>1. l2_snapshot(book', volume') = l2_snapshot(book, volume)
    BY <1>1
  <2> QED
    BY <1>1, <1>2, <2>1 DEF ViewsFresh, record_snapshot, update_price_cache
<1> QED
  BY <1>4, <1>5, <1>6, <1>7, <1>8, <1>9 DEF Totals

(* deliver: the result moves on, the book and the cache stay.              *)
LEMMA DeliverTotals == ASSUME Totals, IInv', EventsFair', deliver PROVE Totals'
<1>1. /\ pc = "done" /\ pc' = "idle" /\ events' = <<>>
      /\ UNCHANGED <<book, volume, orders, cache>>
  BY DEF deliver
<1>2. VolumeIsSum'
  BY <1>1 DEF Totals, VolumeIsSum
<1>3. RestingSound'
  BY <1>1 DEF Totals, RestingSound
<1>4. EventsTrue' /\ Accounts' /\ FokCovered'
  BY <1>1 DEF EventsTrue, Accounts, FokCovered, FokAllOrNothing
<1>5. ViewsFresh'
  BY <1>1 DEF Totals, ViewsFresh
<1> QED
  BY <1>2, <1>3, <1>4, <1>5 DEF Totals

-----------------------------------------------------------------------------
(* One order leaves or shrinks.                                            *)

(* Volumes and resting orders when an order leaves its level and the total *)
(* of the level goes down by its size.                                     *)
LEMMA RemovalTotals ==
  ASSUME IInv, VolumeIsSum, RestingSound, TypeOK',
         NEW s0 \in Sides, NEW p0 \in Prices,
         NEW i0 \in 1 .. Len(book[s0][p0]), Removal(s0, p0, i0),
         volume' = [volume EXCEPT ![s0][p0] = @ - book[s0][p0][i0].size]
  PROVE  VolumeIsSum' /\ RestingSound'
<1>1. /\ book \in [Sides -> [Prices -> Seq(Order)]]
      /\ book' \in [Sides -> [Prices -> Seq(Order)]]
      /\ volume \in [Sides -> [Prices -> Int]]
  BY DEF IInv, TypeOK
<1>2. /\ \A s \in Sides, p \in Prices :
           s # s0 \/ p # p0 => book'[s][p] = book[s][p]
      /\ \A s \in Sides, p \in Prices : \A i \in 1 .. Len(book'[s][p]) :
           \E j \in 1 .. Len(book[s][p]) : book'[s][p][i] = book[s][p][j]
  <2>1. TypeOK /\ QueuesSortedById /\ UniqueIds /\ NoCrossBetweenUsers
    BY DEF IInv
  <2>2. /\ \A s \in Sides, p \in Prices :
             s # s0 \/ p # p0 => book'[s][p] = book[s][p]
        /\ \A s \in Sides, p \in Prices : \A i \in 1 .. Len(book'[s][p]) :
             \E j \in 1 .. Len(book[s][p]) :
               book'[s][p][i] = book[s][p][j] /\ i <= j
               /\ (s = s0 /\ p = p0 => j # i0)
    BY <2>1, RemovalPreservesBook, ZenonT(60)
  <2> QED
    BY <2>2, ZenonT(60)
<1>3. book'[s0][p0] = RemoveAt(book[s0][p0], i0)
  BY <1>1 DEF Removal
<1>4. ASSUME NEW s \in Sides, NEW p \in Prices
      PROVE  /\ volume'[s][p] = TotalSize(book'[s][p])
             /\ \A i \in 1 .. Len(book'[s][p]) : book'[s][p][i].size > 0
  <2>1. \A i \in 1 .. Len(book'[s][p]) : book'[s][p][i].size > 0
    <3> TAKE i \in 1 .. Len(book'[s][p])
    <3>1. book'[s][p][i].size \in Nat \ {0}
      BY <1>1, BookTyped
    <3> QED
      BY <3>1
  <2>2. CASE s = s0 /\ p = p0
    <3>1. volume'[s][p] = volume[s][p] - book[s0][p0][i0].size
      BY <1>1, <2>2
    <3>2. \A k \in 1 .. Len(book[s0][p0]) : book[s0][p0][k].size \in Nat
      BY <1>1, BookTyped
    <3>3. TotalSize(book'[s][p])
            = TotalSize(book[s0][p0]) - book[s0][p0][i0].size
      BY <1>1, <1>3, <2>2, <3>2, TotalRemove
    <3> QED
      BY <2>1, <2>2, <3>1, <3>3 DEF VolumeIsSum
  <2>3. CASE s # s0 \/ p # p0
    <3>1. volume'[s][p] = volume[s][p] /\ book'[s][p] = book[s][p]
      BY <1>1, <1>2, <2>3
    <3> QED
      BY <2>1, <3>1 DEF VolumeIsSum
  <2> QED
    BY <2>2, <2>3
<1>5. RestingSound'
  BY <1>2 DEF RestingSound
<1> QED
  BY <1>4, <1>5 DEF VolumeIsSum

(* The book in which one order has a new size.                             *)
LEMMA ResizedBook ==
  ASSUME IInv, NEW s0 \in Sides, NEW p0 \in Prices,
         NEW i0 \in 1 .. Len(book[s0][p0]), NEW left \in Nat \ {0},
         Resize(s0, p0, i0, left)
  PROVE  /\ \A s \in Sides, p \in Prices :
              s # s0 \/ p # p0 => book'[s][p] = book[s][p]
         /\ Len(book'[s0][p0]) = Len(book[s0][p0])
         /\ \A i \in 1 .. Len(book[s0][p0]) :
              i # i0 => book'[s0][p0][i] = book[s0][p0][i]
         /\ book'[s0][p0][i0] = [book[s0][p0][i0] EXCEPT !.size = left]
<1> DEFINE q == book[s0][p0]
           o == [q[i0] EXCEPT !.size = left]
           r == [q EXCEPT ![i0] = o]
<1>1. book \in [Sides -> [Prices -> Seq(Order)]] /\ q \in Seq(Order)
  BY DEF IInv, TypeOK
<1>2. book' = [book EXCEPT ![s0] = [book[s0] EXCEPT ![p0] = r]]
  BY DEF Resize
<1> HIDE DEF o
<1>3. /\ Len(r) = Len(q) /\ r[i0] = o
      /\ \A i \in 1 .. Len(q) : i # i0 => r[i] = q[i]
  BY <1>1
<1> HIDE DEF r
<1>4. /\ book'[s0][p0] = r
      /\ \A s \in Sides, p \in Prices :
           s # s0 \/ p # p0 => book'[s][p] = book[s][p]
  BY <1>1, <1>2
<1> QED
  BY <1>3, <1>4 DEF o

(* A smaller order takes the place of the larger.                          *)
LEMMA ResizeChanges ==
  ASSUME IInv, NEW s0 \in Sides, NEW p0 \in Prices,
         NEW i0 \in 1 .. Len(book[s0][p0]), NEW left \in Nat \ {0},
         Resize(s0, p0, i0, left)
  PROVE  Changed(book, book', s0, p0, i0,
                 [book[s0][p0][i0] EXCEPT !.size = left])
<1>0. /\ IInv
      /\ s0 \in Sides /\ p0 \in Prices
      /\ i0 \in 1 .. Len(book[s0][p0]) /\ left \in Nat \ {0}
      /\ Resize(s0, p0, i0, left)
  OBVIOUS
<1>1. book' \in [Sides -> [Prices -> Seq(Order)]]
  BY ONLY <1>0, ResizePreserves
<1>2. /\ \A s \in Sides, p \in Prices :
           s # s0 \/ p # p0 => book'[s][p] = book[s][p]
      /\ Len(book'[s0][p0]) = Len(book[s0][p0])
      /\ \A i \in 1 .. Len(book[s0][p0]) :
           i # i0 => book'[s0][p0][i] = book[s0][p0][i]
      /\ book'[s0][p0][i0] = [book[s0][p0][i0] EXCEPT !.size = left]
  BY ONLY <1>0, ResizedBook
<1>3. PICK b, b2, o : /\ b = book /\ b2 = book'
                      /\ o = [book[s0][p0][i0] EXCEPT !.size = left]
  OBVIOUS
<1>4. /\ b2 \in [Sides -> [Prices -> Seq(Order)]]
      /\ \A s \in Sides, p \in Prices : s # s0 \/ p # p0 => b2[s][p] = b[s][p]
      /\ Len(b2[s0][p0]) = Len(b[s0][p0])
      /\ \A i \in 1 .. Len(b[s0][p0]) : i # i0 => b2[s0][p0][i] = b[s0][p0][i]
      /\ b2[s0][p0][i0] = o
  BY <1>1, <1>2, <1>3
<1>5. Changed(b, b2, s0, p0, i0, o)
  BY ONLY <1>4 DEF Changed
<1> QED
  BY <1>3, <1>5

(* Volumes and resting orders when an order shrinks and the total of its   *)
(* level goes down by as much.                                             *)
LEMMA ResizeTotals ==
  ASSUME IInv, VolumeIsSum, RestingSound, TypeOK',
         NEW s0 \in Sides, NEW p0 \in Prices,
         NEW i0 \in 1 .. Len(book[s0][p0]), NEW left \in Nat \ {0},
         NEW trade \in Nat, left = book[s0][p0][i0].size - trade,
         Resize(s0, p0, i0, left),
         volume' = [volume EXCEPT ![s0][p0] = @ - trade]
  PROVE  VolumeIsSum' /\ RestingSound'
<1>1. /\ book \in [Sides -> [Prices -> Seq(Order)]]
      /\ book' \in [Sides -> [Prices -> Seq(Order)]]
      /\ volume \in [Sides -> [Prices -> Int]]
  BY DEF IInv, TypeOK
<1>2. /\ \A s \in Sides, p \in Prices :
           s # s0 \/ p # p0 => book'[s][p] = book[s][p]
      /\ Len(book'[s0][p0]) = Len(book[s0][p0])
      /\ \A i \in 1 .. Len(book[s0][p0]) :
           i # i0 => book'[s0][p0][i] = book[s0][p0][i]
      /\ book'[s0][p0][i0] = [book[s0][p0][i0] EXCEPT !.size = left]
  BY ResizedBook
<1>3. /\ book[s0][p0][i0] \in Order /\ book[s0][p0][i0].size \in Nat
      /\ book[s0][p0][i0].original_size \in Nat
  BY <1>1, BookTyped
<1>4. /\ book'[s0][p0][i0].size = left
      /\ book'[s0][p0][i0].side = book[s0][p0][i0].side
      /\ book'[s0][p0][i0].original_size = book[s0][p0][i0].original_size
  BY <1>2, <1>3 DEF Order
<1>5. ASSUME NEW s \in Sides, NEW p \in Prices
      PROVE  /\ volume'[s][p] = TotalSize(book'[s][p])
             /\ \A i \in 1 .. Len(book'[s][p]) : book'[s][p][i].size > 0
  <2>1. \A i \in 1 .. Len(book'[s][p]) : book'[s][p][i].size > 0
    <3> TAKE i \in 1 .. Len(book'[s][p])
    <3>1. book'[s][p][i].size \in Nat \ {0}
      BY <1>1, BookTyped
    <3> QED
      BY <3>1
  <2>2. CASE s = s0 /\ p = p0
    <3>1. volume'[s][p] = volume[s][p] - trade
      BY <1>1, <2>2
    <3>2. /\ book[s0][p0] \in Seq(Order) /\ book'[s0][p0] \in Seq(Order)
          /\ \A k \in 1 .. Len(book[s0][p0]) :
               book[s0][p0][k].size \in Nat /\ book'[s0][p0][k].size \in Nat
      BY <1>1, <1>2, BookTyped
    <3>3. TotalSize(book'[s0][p0])
            = TotalSize(book[s0][p0]) - book[s0][p0][i0].size + left
      <4>1. \A k \in 1 .. Len(book[s0][p0]) :
              k # i0 => book'[s0][p0][k].size = book[s0][p0][k].size
        BY <1>2
      <4>2. Len(book'[s0][p0]) = Len(book[s0][p0])
        BY <1>2
      <4>3. TotalSize(book'[s0][p0]) = TotalSize(book[s0][p0])
              - book[s0][p0][i0].size + book'[s0][p0][i0].size
        BY <3>2, <4>1, <4>2, TotalResize
      <4> QED
        BY <1>4, <4>3
    <3>4. TotalSize(book[s0][p0]) \in Nat
      BY <3>2, TotalNat
    <3>5. TotalSize(book'[s0][p0]) = TotalSize(book[s0][p0]) - trade
      BY <1>3, <3>3, <3>4
    <3> QED
      BY <2>1, <2>2, <3>1, <3>5 DEF VolumeIsSum
  <2>3. CASE s # s0 \/ p # p0
    <3>1. volume'[s][p] = volume[s][p] /\ book'[s][p] = book[s][p]
      BY <1>1, <1>2, <2>3
    <3> QED
      BY <2>1, <3>1 DEF VolumeIsSum
  <2> QED
    BY <2>2, <2>3
<1>6. ASSUME NEW s \in Sides, NEW p \in Prices,
             NEW i \in 1 .. Len(book'[s][p])
      PROVE  /\ book'[s][p][i].side = s
             /\ book'[s][p][i].size <= book'[s][p][i].original_size
  <2>1. CASE s = s0 /\ p = p0 /\ i = i0
    <3>1. /\ book[s0][p0][i0].side = s0
          /\ book[s0][p0][i0].size <= book[s0][p0][i0].original_size
      BY DEF RestingSound
    <3>2. book'[s][p][i].side = s
      BY <1>4, <2>1, <3>1
    <3>3. left <= book[s0][p0][i0].original_size
      BY <1>3, <3>1
    <3>4. book'[s][p][i].size <= book'[s][p][i].original_size
      BY <1>4, <2>1, <3>3
    <3> QED
      BY <3>2, <3>4
  <2>2. CASE ~(s = s0 /\ p = p0 /\ i = i0)
    <3>1. i \in 1 .. Len(book[s][p]) /\ book'[s][p][i] = book[s][p][i]
      BY <1>2, <2>2
    <3> QED
      BY <3>1 DEF RestingSound
  <2> QED
    BY <2>1, <2>2
<1> QED
  BY <1>5, <1>6 DEF VolumeIsSum, RestingSound

-----------------------------------------------------------------------------
(* fill_maker.                                                             *)

(* What one iteration of match_order does: the trade is positive, no more  *)
(* than the maker has or the taker needs, and leaves nothing of one of     *)
(* them.                                                                   *)
FillFacts(s, m, trade, left) ==
  /\ s = op_side(cmd.side) /\ s \in Sides
  /\ level \in Prices /\ idx \in 1 .. Len(book[s][level])
  /\ m = book[s][level][idx] /\ m \in Order
  /\ m.size \in Nat \ {0} /\ m.order_id \in OrderIds /\ m.order_id \in Nat
  /\ m.original_size \in Nat /\ m.size <= m.original_size
  /\ m.user_id # cmd.user_id /\ m.order_id < cmd.order_id
  /\ remaining \in Nat /\ remaining > 0
  /\ trade \in Nat /\ left \in Nat /\ left = m.size - trade
  /\ remaining' = remaining - trade /\ remaining' \in Nat
  /\ left # 0 => remaining' = 0
  /\ pc = "matching" /\ UNCHANGED <<cmd, pc, taken, level, l2, cache>>
  /\ volume' = [volume EXCEPT ![s][level] = @ - trade]
  /\ events' = Append(events, trade_event(m, trade))
  /\ events \in Seq(Event) /\ trade_event(m, trade) \in Event
  /\ \/ /\ left = 0 /\ Removal(s, level, idx)
        /\ orders' = drop_from_index(m.order_id)
     \/ /\ left # 0 /\ Resize(s, level, idx, left)
        /\ orders' = orders

(* fill_maker is such an iteration.                                        *)
LEMMA FillStep ==
  ASSUME Totals, fill_maker
  PROVE  \E s, m, trade, left : FillFacts(s, m, trade, left)
<1> DEFINE s == op_side(cmd.side)
           trade == trade_size(remaining, Maker.size)
           left == Maker.size - trade
<1>0. IInv /\ RestingSound
  BY DEF Totals
<1>1. /\ pc = "matching" /\ remaining > 0 /\ InQueue
      /\ Maker.user_id # cmd.user_id
      /\ UNCHANGED <<cmd, pc, taken, level, l2, cache>>
      /\ remaining' = remaining - trade
      /\ volume' = [volume EXCEPT ![s][level] = @ - trade]
      /\ events' = Append(events, trade_event(Maker, trade))
  BY DEF fill_maker
<1>2. \/ /\ left = 0 /\ Removal(s, level, idx)
         /\ orders' = drop_from_index(Maker.order_id)
      \/ /\ left # 0 /\ Resize(s, level, idx, left)
         /\ orders' = orders
  BY DEF fill_maker, Removal, Resize
<1>3. /\ s \in Sides /\ level \in Prices /\ level # NoPrice
      /\ idx \in 1 .. Len(book[s][level])
  BY <1>0, <1>1 DEF InQueue, IInv, TypeOK, Queue, op_side, Sides
<1>4. Maker = book[s][level][idx]
  BY DEF Maker, Queue
<1>5. /\ Maker \in Order /\ Maker.size \in Nat \ {0} /\ remaining \in Nat
      /\ Maker.order_id \in OrderIds /\ Maker.order_id \in Nat
      /\ Maker.original_size \in Nat
  <2>1. /\ Maker \in Order /\ Maker.size \in Nat \ {0} /\ remaining \in Nat
        /\ Maker.order_id \in OrderIds /\ Maker.order_id \in Nat
    BY <1>0, <1>3, <1>4, RestingTyped DEF IInv, TypeOK
  <2> QED
    BY <2>1 DEF Order
<1>6. /\ trade \in Nat /\ left \in Nat /\ remaining - trade \in Nat
      /\ left # 0 => remaining - trade = 0
  BY <1>5 DEF trade_size
<1>7. Maker.size <= Maker.original_size
  BY <1>0, <1>3, <1>4 DEF RestingSound
<1>8. Maker.order_id < cmd.order_id
  BY <1>0, <1>1, <1>3, <1>4 DEF IInv, IdsInUse
<1>9. trade_event(Maker, trade) \in Event /\ events \in Seq(Event)
  BY <1>0, <1>3, <1>5, <1>6 DEF trade_event, Event, Order, IInv, TypeOK
<1>10. FillFacts(s, Maker, trade, left)
  <2> HIDE DEF trade
  <2> QED
    BY <1>1, <1>2, <1>3, <1>4, <1>5, <1>6, <1>7, <1>8, <1>9 DEF FillFacts
<1> QED
  BY <1>10

(* The level total follows the maker's size.                               *)
LEMMA FillVolume ==
  ASSUME Totals, TypeOK', NEW s, NEW m, NEW trade, NEW left,
         FillFacts(s, m, trade, left)
  PROVE  VolumeIsSum' /\ RestingSound'
<1>0. IInv /\ VolumeIsSum /\ RestingSound
  BY DEF Totals
<1>1. /\ s \in Sides /\ level \in Prices /\ idx \in 1 .. Len(book[s][level])
      /\ m = book[s][level][idx] /\ m.size \in Nat
      /\ trade \in Nat /\ left \in Nat /\ left = m.size - trade
      /\ volume' = [volume EXCEPT ![s][level] = @ - trade]
  BY DEF FillFacts
<1>2. CASE left = 0 /\ Removal(s, level, idx)
  <2>1. trade = book[s][level][idx].size
    BY <1>1, <1>2
  <2> QED
    BY <1>0, <1>1, <1>2, <2>1, RemovalTotals
<1>3. CASE left # 0 /\ Resize(s, level, idx, left)
  BY <1>0, <1>1, <1>3, ResizeTotals
<1> QED
  BY <1>2, <1>3 DEF FillFacts

(* Ids of the queues on side s after a fill were there before, and with a  *)
(* maker filled (left = 0) so were the orders, other than the maker.       *)
Survivors(s, left) ==
  \A p \in Prices : \A i \in 1 .. Len(book'[s][p]) :
    \E j \in 1 .. Len(book[s][p]) :
      /\ book'[s][p][i].order_id = book[s][p][j].order_id
      /\ left = 0 => /\ book'[s][p][i] = book[s][p][j]
                     /\ ~(p = level /\ j = idx)

(* A fill leaves survivors only.                                           *)
LEMMA FillIds ==
  ASSUME IInv, NEW s, NEW m, NEW trade, NEW left,
         FillFacts(s, m, trade, left)
  PROVE  Survivors(s, left)
<1> SUFFICES ASSUME NEW p \in Prices, NEW i \in 1 .. Len(book'[s][p])
             PROVE  \E j \in 1 .. Len(book[s][p]) :
                      /\ book'[s][p][i].order_id = book[s][p][j].order_id
                      /\ left = 0 => /\ book'[s][p][i] = book[s][p][j]
                                     /\ ~(p = level /\ j = idx)
  BY DEF Survivors
<1>0. TypeOK /\ QueuesSortedById /\ UniqueIds /\ NoCrossBetweenUsers
  BY DEF IInv
<1>1. /\ s \in Sides /\ level \in Prices /\ idx \in 1 .. Len(book[s][level])
      /\ left \in Nat
  BY DEF FillFacts
<1>2. CASE left = 0 /\ Removal(s, level, idx)
  <2>1. \A t \in Sides, u \in Prices : \A k \in 1 .. Len(book'[t][u]) :
          \E j \in 1 .. Len(book[t][u]) :
            book'[t][u][k] = book[t][u][j] /\ k <= j
            /\ (t = s /\ u = level => j # idx)
    BY <1>0, <1>1, <1>2, RemovalPreservesBook, ZenonT(60)
  <2>2. PICK j \in 1 .. Len(book[s][p]) :
          book'[s][p][i] = book[s][p][j] /\ i <= j
          /\ (s = s /\ p = level => j # idx)
    BY <1>1, <2>1, Zenon
  <2> QED
    BY <2>2
<1>3. CASE left # 0 /\ Resize(s, level, idx, left)
  <2>1. /\ Len(book'[s][p]) = Len(book[s][p])
        /\ \A k \in 1 .. Len(book[s][p]) :
             book'[s][p][k].order_id = book[s][p][k].order_id
    BY <1>1, <1>3, ResizePreserves
  <2> QED
    BY <1>3, <2>1
<1> QED
  BY <1>2, <1>3 DEF FillFacts

(* The events stay true: earlier ones tell of makers that are gone, the    *)
(* new one of this maker.                                                  *)
LEMMA FillEvents ==
  ASSUME Totals, NEW s, NEW m, NEW trade, NEW left,
         FillFacts(s, m, trade, left)
  PROVE  EventsTrue'
<1> DEFINE e == trade_event(m, trade)
<1>0. IInv /\ EventsTrue
  BY DEF Totals
<1>1. /\ s = op_side(cmd.side) /\ s \in Sides /\ cmd' = cmd
      /\ level \in Prices /\ idx \in 1 .. Len(book[s][level])
      /\ m = book[s][level][idx] /\ m \in Order /\ m.order_id \in OrderIds
      /\ m.size \in Nat /\ m.original_size \in Nat
      /\ m.size <= m.original_size /\ m.order_id < cmd.order_id
      /\ trade \in Nat /\ left \in Nat /\ left = m.size - trade
      /\ left # 0 => remaining' = 0
      /\ events' = Append(events, e) /\ events \in Seq(Event)
      /\ remaining > 0 /\ remaining \in Nat
  BY DEF FillFacts
<1>2. \/ /\ left = 0 /\ Removal(s, level, idx)
         /\ orders' = drop_from_index(m.order_id)
      \/ /\ left # 0 /\ Resize(s, level, idx, left)
         /\ orders' = orders
  BY DEF FillFacts
<1>3. \A n \in OrderIds : orders[n] = NoPrice => orders'[n] = NoPrice
  BY <1>0, <1>2 DEF drop_from_index, IInv, TypeOK
<1>a. Survivors(s, left)
  BY <1>0, FillIds
<1>4. /\ e.price = level /\ e.matched_order_id = m.order_id /\ e.size = trade
      /\ e.maker_user_id = m.user_id
      /\ e.matched_order_completed <=> m.size = trade
      /\ e.maker_remaining_size = m.size - trade
  BY DEF trade_event
<1>5. /\ Len(events') = Len(events) + 1 /\ Len(events) \in Nat
      /\ events'[Len(events) + 1] = e
      /\ \A k \in 1 .. Len(events) : events'[k] = events[k]
  <2>1. e \in Event
    BY DEF FillFacts
  <2> HIDE DEF e
  <2> QED
    BY <1>1, <2>1
<1> HIDE DEF e
<1>6. ASSUME NEW k \in 1 .. Len(events)
      PROVE  /\ events[k].matched_order_id < cmd.order_id
             /\ events[k].matched_order_completed
             /\ orders'[events[k].matched_order_id] = NoPrice
             /\ \A i \in 1 .. Len(book'[s][events[k].price]) :
                  book'[s][events[k].price][i].order_id
                    # events[k].matched_order_id
  <2> DEFINE d == events[k]
  <2>1. d \in Event
    BY <1>1
  <2>2. d.price \in Prices /\ d.matched_order_id \in OrderIds
    BY <2>1 DEF Event
  <2>3. /\ d.matched_order_id < cmd.order_id
        /\ d.matched_order_completed
        /\ orders[d.matched_order_id] = NoPrice
        /\ \A j \in 1 .. Len(book[s][d.price]) :
             book[s][d.price][j].order_id # d.matched_order_id
    <3>1. /\ d.matched_order_id < cmd.order_id
          /\ IF d.matched_order_completed
             THEN /\ orders[d.matched_order_id] = NoPrice
                  /\ \A j \in 1 .. Len(book[s][d.price]) :
                       book[s][d.price][j].order_id # d.matched_order_id
             ELSE remaining = 0
      BY <1>0, <1>1 DEF EventsTrue
    <3> QED
      BY <1>1, <3>1
  <2>4. orders'[d.matched_order_id] = NoPrice
    BY <1>3, <2>2, <2>3
  <2>5. ASSUME NEW i \in 1 .. Len(book'[s][d.price])
        PROVE  book'[s][d.price][i].order_id # d.matched_order_id
    <3>1. PICK j \in 1 .. Len(book[s][d.price]) :
            book'[s][d.price][i].order_id = book[s][d.price][j].order_id
      BY <1>a, <2>2 DEF Survivors
    <3> QED
      BY <2>3, <3>1
  <2> QED
    BY <2>3, <2>4, <2>5
<1>7. CASE left = 0
  <2>1. e.matched_order_completed
    BY <1>1, <1>4, <1>7
  <2>2. orders'[e.matched_order_id] = NoPrice
    BY <1>0, <1>1, <1>2, <1>4, <1>7 DEF drop_from_index, IInv, TypeOK
  <2>3. ASSUME NEW i \in 1 .. Len(book'[s][level])
        PROVE  book'[s][level][i].order_id # m.order_id
    <3>1. PICK j \in 1 .. Len(book[s][level]) :
            /\ book'[s][level][i] = book[s][level][j]
            /\ j # idx
      BY <1>1, <1>7, <1>a DEF Survivors
    <3>2. book[s][level][j].order_id # book[s][level][idx].order_id
      BY <1>0, <1>1, <3>1, OnePlace
    <3> QED
      BY <1>1, <3>1, <3>2
  <2>4. ASSUME NEW k \in 1 .. Len(events')
        PROVE  LET d == events'[k]
                   q == book'[op_side(cmd'.side)][d.price]
               IN /\ d.matched_order_id < cmd'.order_id
                  /\ d.matched_order_completed
                  /\ orders'[d.matched_order_id] = NoPrice
                  /\ \A i \in 1 .. Len(q) : q[i].order_id # d.matched_order_id
    <3>1. CASE k \in 1 .. Len(events)
      <4>1. events'[k] = events[k] /\ cmd' = cmd /\ s = op_side(cmd'.side)
        BY <1>1, <1>5, <3>1
      <4> QED
        BY <1>6, <3>1, <4>1
    <3>2. CASE k = Len(events) + 1
      <4>1. events'[k] = e /\ cmd' = cmd /\ s = op_side(cmd'.side)
        BY <1>1, <1>5, <3>2
      <4>2. e.matched_order_id < cmd.order_id /\ e.price = level
        BY <1>1, <1>4
      <4>3. \A i \in 1 .. Len(book'[s][e.price]) :
              book'[s][e.price][i].order_id # e.matched_order_id
        BY <1>4, <2>3
      <4> QED
        BY <2>1, <2>2, <4>1, <4>2, <4>3
    <3> QED
      BY <1>5, <3>1, <3>2
  <2> QED
    BY <2>4 DEF EventsTrue
<1>8. CASE left # 0
  <2>1. ~e.matched_order_completed
    BY <1>1, <1>4, <1>8
  <2>2. /\ Len(book'[s][level]) = Len(book[s][level])
        /\ book'[s][level][idx] = [m EXCEPT !.size = left]
    <3>1. left \in Nat \ {0} /\ Resize(s, level, idx, left)
      BY <1>1, <1>2, <1>8
    <3>2. /\ Len(book'[s][level]) = Len(book[s][level])
          /\ book'[s][level][idx]
               = [book[s][level][idx] EXCEPT !.size = left]
      <4>1. /\ s \in Sides /\ level \in Prices
            /\ idx \in 1 .. Len(book[s][level])
        BY <1>1
      <4>2. IInv
        BY <1>0
      <4>3. left \in Nat \ {0}
        BY <3>1
      <4>4. Resize(s, level, idx, left)
        BY <3>1
      <4> QED
        BY ONLY <4>1, <4>2, <4>3, <4>4, ResizedBook
    <3> QED
      BY <1>1, <3>2
  <2>3. /\ idx \in 1 .. Len(book'[s][level])
        /\ book'[s][level][idx].order_id = e.matched_order_id
        /\ book'[s][level][idx].user_id = e.maker_user_id
        /\ book'[s][level][idx].size = e.maker_remaining_size
        /\ book'[s][level][idx].size + e.size
             <= book'[s][level][idx].original_size
    BY <1>1, <1>4, <2>2 DEF Order
  <2>4. ASSUME NEW k \in 1 .. Len(events')
        PROVE  LET d == events'[k]
                   q == book'[op_side(cmd'.side)][d.price]
               IN /\ d.matched_order_id < cmd'.order_id
                  /\ IF d.matched_order_completed
                     THEN /\ orders'[d.matched_order_id] = NoPrice
                          /\ \A i \in 1 .. Len(q) :
                               q[i].order_id # d.matched_order_id
                     ELSE /\ remaining' = 0
                          /\ \E i \in 1 .. Len(q) :
                               /\ q[i].order_id = d.matched_order_id
                               /\ q[i].user_id = d.maker_user_id
                               /\ q[i].size = d.maker_remaining_size
                               /\ q[i].size + d.size <= q[i].original_size
    <3>1. CASE k \in 1 .. Len(events)
      <4>1. events'[k] = events[k] /\ cmd' = cmd /\ s = op_side(cmd'.side)
        BY <1>1, <1>5, <3>1
      <4> QED
        BY <1>6, <3>1, <4>1
    <3>2. CASE k = Len(events) + 1
      BY <1>1, <1>4, <1>5, <1>8, <2>1, <2>3, <3>2
    <3> QED
      BY <1>5, <3>1, <3>2
  <2> QED
    BY <2>4 DEF EventsTrue
<1> QED
  BY <1>7, <1>8

(* A fill takes from what a fill-or-kill order still finds no more than it *)
(* takes from what the order still needs.                                  *)
LEMMA FillFok ==
  ASSUME Totals, TypeOK', NEW s, NEW m, NEW trade, NEW left,
         FillFacts(s, m, trade, left)
  PROVE  FokCovered'
<1> DEFINE Ot(b) == {o \in Makers(b, cmd) : o.user_id # cmd.user_id}
<1>0. IInv /\ FokCovered
  BY DEF Totals
<1>1. /\ s = op_side(cmd.side) /\ s \in Sides /\ level \in Prices
      /\ idx \in 1 .. Len(book[s][level])
      /\ m = book[s][level][idx] /\ m \in Order /\ m.size \in Nat
      /\ remaining \in Nat /\ trade \in Nat /\ left \in Nat
      /\ left = m.size - trade
      /\ remaining' = remaining - trade
      /\ left # 0 => remaining' = 0
      /\ pc = "matching" /\ pc' = pc /\ cmd' = cmd
  BY DEF FillFacts
<1>2. Others = Ot(book) /\ Others' = Ot(book')
  BY <1>1 DEF Others, acceptable_makers, Makers
<1>3. /\ book \in [Sides -> [Prices -> Seq(Order)]]
      /\ book' \in [Sides -> [Prices -> Seq(Order)]]
  BY <1>0 DEF IInv, TypeOK
<1>4. \A b \in [Sides -> [Prices -> Seq(Order)]] :
        IsFiniteSet(Ot(b)) /\ Ot(b) \in SUBSET Order
  <2> TAKE b \in [Sides -> [Prices -> Seq(Order)]]
  <2>1. IsFiniteSet(Makers(b, cmd)) /\ Makers(b, cmd) \in SUBSET Order
    BY MakersFinite
  <2>2. Ot(b) \in SUBSET Makers(b, cmd)
    OBVIOUS
  <2> HIDE DEF Ot
  <2> QED
    BY <2>1, <2>2, FS_Subset
<1>5. FokAllOrNothing'
  BY <1>1 DEF FokAllOrNothing
<1>6. CASE left # 0
  <2>1. available_volume(Ot(book')) \in Nat
    BY <1>3, <1>4, VolumeNat
  <2> HIDE DEF Ot
  <2>2. available_volume(Others') = available_volume(Ot(book'))
    BY <1>2
  <2>3. available_volume(Others') >= remaining'
    BY <1>1, <1>6, <2>1, <2>2
  <2> QED
    BY <1>5, <2>3 DEF FokCovered
<1>7. CASE left = 0
  <2>a. Survivors(s, left)
    BY <1>0, FillIds
  <2>b. /\ \A t \in Sides, p \in Prices :
             t # s \/ p # level => book'[t][p] = book[t][p]
        /\ \A j \in 1 .. Len(book[s][level]) : j # idx =>
             \E i \in 1 .. Len(book'[s][level]) :
               book'[s][level][i] = book[s][level][j]
    <3>1. TypeOK /\ QueuesSortedById /\ UniqueIds /\ NoCrossBetweenUsers
      BY <1>0 DEF IInv
    <3>2. /\ s \in Sides /\ level \in Prices
          /\ idx \in 1 .. Len(book[s][level])
      BY <1>1
    <3>3. Removal(s, level, idx)
      BY <1>7 DEF FillFacts
    <3> QED
      BY ONLY <3>1, <3>2, <3>3, RemovalPreservesBook, ZenonT(60)
  <2>1. ASSUME NEW x \in Ot(book')
        PROVE  x \in Ot(book) \ {m}
    <3>0. x \in Makers(book', cmd) /\ x.user_id # cmd.user_id
      OBVIOUS
    <3>1. PICK p \in Prices : /\ price_check(cmd.side, cmd.price, p)
                              /\ \E i \in 1 .. Len(book'[s][p]) :
                                   x = book'[s][p][i]
      BY <1>1, <3>0, MakerRests
    <3>2. PICK i \in 1 .. Len(book'[s][p]) : x = book'[s][p][i]
      BY <3>1
    <3>3. PICK j \in 1 .. Len(book[s][p]) :
            book'[s][p][i] = book[s][p][j] /\ ~(p = level /\ j = idx)
      BY <1>7, <2>a DEF Survivors
    <3>4. x \in Makers(book, cmd)
      BY <1>1, <3>1, <3>2, <3>3, RestingIsMaker
    <3>5. x # m
      <4> SUFFICES ASSUME x = m PROVE FALSE
        OBVIOUS
      <4>1. book[s][p][j].order_id = book[s][level][idx].order_id
        BY <1>1, <3>2, <3>3
      <4>2. s \in Sides /\ level \in Prices /\ idx \in 1 .. Len(book[s][level])
        BY <1>1
      <4>3. p = level /\ j = idx
        BY <1>0, <4>1, <4>2, OnePlace
      <4> QED
        BY <3>3, <4>3
    <3> QED
      BY <3>0, <3>4, <3>5
  <2>2. ASSUME NEW x \in Ot(book), x # m
        PROVE  x \in Ot(book')
    <3>0. x \in Makers(book, cmd) /\ x.user_id # cmd.user_id
      OBVIOUS
    <3>1. PICK p \in Prices : /\ price_check(cmd.side, cmd.price, p)
                              /\ \E j \in 1 .. Len(book[s][p]) :
                                   x = book[s][p][j]
      BY <1>1, <3>0, MakerRests
    <3>2. PICK j \in 1 .. Len(book[s][p]) : x = book[s][p][j]
      BY <3>1
    <3>3. \E i \in 1 .. Len(book'[s][p]) : x = book'[s][p][i]
      <4>1. CASE p = level
        <5>1. j # idx
          BY <1>1, <2>2, <3>2, <4>1
        <5> QED
          BY <2>b, <3>2, <4>1, <5>1
      <4>2. CASE p # level
        <5>1. book'[s][p] = book[s][p]
          BY <1>1, <2>b, <4>2
        <5> QED
          BY <3>2, <5>1
      <4> QED
        BY <4>1, <4>2
    <3>4. PICK i \in 1 .. Len(book'[s][p]) : x = book'[s][p][i]
      BY <3>3
    <3>5. x \in Makers(book', cmd)
      BY <1>1, <3>1, <3>4, RestingIsMaker
    <3> QED
      BY <3>0, <3>5
  <2>3. Ot(book') = Ot(book) \ {m}
    <3>1. m \notin Ot(book')
      BY <2>1
    <3> HIDE DEF Ot
    <3> QED
      BY <2>1, <2>2, <3>1
  <2>4. available_volume(Ot(book)) \in Nat /\ available_volume(Ot(book')) \in Nat
    BY <1>3, <1>4, VolumeNat
  <2>5. available_volume(Ot(book')) + m.size >= available_volume(Ot(book))
    <3>1. CASE m \in Ot(book)
      <4>1. Ot(book) \in SUBSET Order /\ IsFiniteSet(Ot(book))
        BY <1>3, <1>4
      <4> HIDE DEF Ot
      <4>2. available_volume(Ot(book))
              = m.size + available_volume(Ot(book) \ {m})
        BY <3>1, <4>1, VolumeWithout
      <4> QED
        BY <1>1, <2>3, <2>4, <4>2
    <3>2. CASE m \notin Ot(book)
      <4>1. Ot(book') = Ot(book)
        <5> HIDE DEF Ot
        <5> QED
          BY <2>3, <3>2
      <4> HIDE DEF Ot
      <4> QED
        BY <1>1, <2>4, <4>1
    <3> QED
      BY <3>1, <3>2
  <2>6. trade = m.size
    BY <1>1, <1>7
  <2> HIDE DEF Ot
  <2>7. ASSUME cmd.time_in_force = "Fok"
        PROVE  available_volume(Others') >= remaining'
    <3>1. available_volume(Ot(book)) >= remaining
      <4>1. available_volume(Others) = available_volume(Ot(book))
        BY <1>2
      <4> QED
        BY <1>0, <1>1, <2>7, <4>1 DEF FokCovered
    <3>2. available_volume(Others') = available_volume(Ot(book'))
      BY <1>2
    <3> QED
      BY <1>1, <2>4, <2>5, <2>6, <3>1, <3>2
  <2> QED
    BY <1>1, <1>5, <2>7 DEF FokCovered
<1> QED
  BY <1>6, <1>7

(* One iteration of match_order keeps every total.                         *)
LEMMA FillTotals == ASSUME Totals, IInv', EventsFair', fill_maker PROVE Totals'
<1>1. PICK s, m, trade, left : FillFacts(s, m, trade, left)
  BY FillStep
<1>2. TypeOK'
  BY DEF IInv
<1>3. VolumeIsSum' /\ RestingSound'
  BY <1>1, <1>2, FillVolume
<1>4. EventsTrue'
  BY <1>1, FillEvents
<1>5. FokCovered'
  BY <1>1, <1>2, FillFok
<1>6. Accounts'
  <2>1. /\ events \in Seq(Event) /\ trade_event(m, trade) \in Event
        /\ events' = Append(events, trade_event(m, trade))
        /\ remaining' = remaining - trade /\ remaining \in Nat /\ trade \in Nat
        /\ pc = "matching" /\ pc' = pc /\ taken' = taken /\ cmd' = cmd
    BY <1>1 DEF FillFacts
  <2>2. trade_event(m, trade).size = trade
    BY DEF trade_event
  <2>3. \A k \in 1 .. Len(events) : events[k].size \in Nat
    <3> TAKE k \in 1 .. Len(events)
    <3>1. events[k] \in Event
      BY <2>1
    <3> QED
      BY <3>1 DEF Event
  <2>4. TotalSize(events') = TotalSize(events) + trade
    BY <2>1, <2>2, <2>3, TotalAppend
  <2>5. TotalSize(events) \in Nat
    BY <2>1, <2>3, TotalNat
  <2>6. TotalSize(events) + remaining = taken /\ cmd.size = taken
    BY <2>1 DEF Totals, Accounts
  <2>7. TotalSize(events') + remaining' = taken'
    BY <2>1, <2>4, <2>5, <2>6
  <2> QED
    BY <2>1, <2>6, <2>7 DEF Accounts
<1>7. ViewsFresh'
  BY <1>1 DEF FillFacts, ViewsFresh
<1> QED
  BY <1>3, <1>4, <1>5, <1>6, <1>7 DEF Totals

-----------------------------------------------------------------------------
(* finish_place.                                                           *)

(* When the loop stops with something left, every order it could have      *)
(* traded with is the taker's own, so a fill-or-kill order has none left.  *)
LEMMA LoopExhausts ==
  ASSUME Totals, pc = "matching", remaining > 0, ~InQueue,
         \A p \in Prices : ~Ahead(p)
  PROVE  cmd.time_in_force # "Fok"
<1> SUFFICES ASSUME cmd.time_in_force = "Fok" PROVE FALSE
  OBVIOUS
<1>0. IInv /\ FokCovered /\ remaining \in Nat
  BY DEF Totals, IInv, TypeOK
<1>1. Others = {o \in Makers(book, cmd) : o.user_id # cmd.user_id}
  BY DEF Others, acceptable_makers, Makers
<1>2. Others = {}
  <2> SUFFICES ASSUME NEW o \in Others PROVE FALSE
    OBVIOUS
  <2>1. o \in Makers(book, cmd) /\ o.user_id # cmd.user_id
    BY <1>1
  <2>2. PICK p \in Prices : /\ price_check(cmd.side, cmd.price, p)
                            /\ \E i \in 1 .. Len(book[op_side(cmd.side)][p]) :
                                 o = book[op_side(cmd.side)][p][i]
    BY <2>1, MakerRests
  <2>3. PICK i \in 1 .. Len(book[op_side(cmd.side)][p]) :
          o = book[op_side(cmd.side)][p][i]
    BY <2>2
  <2>4. o.user_id = cmd.user_id
    BY <1>0, <2>2, <2>3, BehindIsOwn
  <2> QED
    BY <2>1, <2>4
<1>3. available_volume(Others) = 0
  <2>1. IsFiniteSet({}) /\ {} \in SUBSET Order
    BY FS_EmptySet
  <2>2. available_volume({}) = 0
    BY <2>1, VolumeNat
  <2> QED
    BY <1>2, <2>2
<1> QED
  BY <1>0, <1>3 DEF FokCovered

(* Resting what a GTC order has left adds it to its level.                 *)
LEMMA RestTotals ==
  ASSUME Totals, IInv', pc = "matching", remaining > 0,
         cmd.time_in_force = "Gtc", add_to_book(remaining)
  PROVE  VolumeIsSum' /\ RestingSound'
<1> DEFINE s0 == cmd.side
           p0 == cmd.price
           o == [order_id |-> cmd.order_id, user_id |-> cmd.user_id,
                 side |-> cmd.side, size |-> remaining,
                 original_size |-> cmd.size]
<1>0. IInv /\ VolumeIsSum /\ RestingSound /\ Accounts
  BY DEF Totals
<1>1. /\ book \in [Sides -> [Prices -> Seq(Order)]]
      /\ book' \in [Sides -> [Prices -> Seq(Order)]]
      /\ volume \in [Sides -> [Prices -> Int]]
      /\ remaining \in Nat /\ events \in Seq(Event)
  BY <1>0 DEF IInv, TypeOK
<1>2. cmd \in Command /\ s0 \in Sides /\ p0 \in Prices /\ cmd.size > 0
  BY <1>0 DEF IInv, TypeOK, IdsInUse, Command
<1>3. remaining <= cmd.size
  <2>1. \A k \in 1 .. Len(events) : events[k].size \in Nat
    <3> TAKE k \in 1 .. Len(events)
    <3>1. events[k] \in Event
      BY <1>1
    <3> QED
      BY <3>1 DEF Event
  <2>2. TotalSize(events) \in Nat
    BY <1>1, <2>1, TotalNat
  <2> QED
    BY <1>0, <1>1, <2>2 DEF Accounts
<1>4. o \in Order
  BY <1>1, <1>2 DEF Order, Command
<1>5. /\ book' = [book EXCEPT ![s0][p0] = Append(@, o)]
      /\ volume' = [volume EXCEPT ![s0][p0] = @ + remaining]
  BY DEF add_to_book
<1>6. o.size = remaining /\ o.side = s0 /\ o.original_size = cmd.size
  OBVIOUS
<1> HIDE DEF o, s0, p0
<1>7. /\ book'[s0][p0] = Append(book[s0][p0], o)
      /\ volume'[s0][p0] = volume[s0][p0] + remaining
      /\ \A s \in Sides, p \in Prices : s # s0 \/ p # p0 =>
           book'[s][p] = book[s][p] /\ volume'[s][p] = volume[s][p]
  BY <1>1, <1>2, <1>5
<1>8. ASSUME NEW s \in Sides, NEW p \in Prices
      PROVE  /\ volume'[s][p] = TotalSize(book'[s][p])
             /\ \A i \in 1 .. Len(book'[s][p]) : book'[s][p][i].size > 0
  <2>1. \A i \in 1 .. Len(book'[s][p]) : book'[s][p][i].size > 0
    <3> TAKE i \in 1 .. Len(book'[s][p])
    <3>1. book'[s][p][i].size \in Nat \ {0}
      BY <1>1, BookTyped
    <3> QED
      BY <3>1
  <2>2. CASE s = s0 /\ p = p0
    <3>1. /\ book[s0][p0] \in Seq(Order)
          /\ \A k \in 1 .. Len(book[s0][p0]) : book[s0][p0][k].size \in Nat
      BY <1>1, <1>2, BookTyped
    <3>2. TotalSize(book'[s0][p0]) = TotalSize(book[s0][p0]) + o.size
      <4>1. o.size \in Nat /\ o \in Order
        BY <1>1, <1>4, <1>6
      <4>2. TotalSize(Append(book[s0][p0], o))
              = TotalSize(book[s0][p0]) + o.size
        BY <3>1, <4>1, TotalAppend
      <4> QED
        BY <1>7, <4>2
    <3> QED
      BY <1>0, <1>6, <1>7, <2>1, <2>2, <3>2 DEF VolumeIsSum
  <2>3. CASE s # s0 \/ p # p0
    BY <1>0, <1>7, <2>1, <2>3 DEF VolumeIsSum
  <2> QED
    BY <2>2, <2>3
<1>9. ASSUME NEW s \in Sides, NEW p \in Prices,
             NEW i \in 1 .. Len(book'[s][p])
      PROVE  /\ book'[s][p][i].side = s
             /\ book'[s][p][i].size <= book'[s][p][i].original_size
  <2>1. CASE i \in 1 .. Len(book[s][p]) /\ book'[s][p][i] = book[s][p][i]
    BY <1>0, <2>1 DEF RestingSound
  <2>2. CASE s = s0 /\ book'[s][p][i] = o
    BY <1>3, <1>6, <2>2
  <2>3. CASE s # s0 \/ p # p0
    BY <1>7, <2>1, <2>3
  <2>4. CASE s = s0 /\ p = p0
    <3>1. book[s0][p0] \in Seq(Order) /\ Len(book[s0][p0]) \in Nat
      BY <1>1, <1>2
    <3>2. i \in 1 .. Len(book[s0][p0]) + 1
      BY <1>4, <1>7, <2>4, <3>1
    <3>3. CASE i = Len(book[s0][p0]) + 1
      BY <1>4, <1>7, <2>2, <2>4, <3>1, <3>3
    <3>4. CASE i # Len(book[s0][p0]) + 1
      <4>1. i \in 1 .. Len(book[s][p]) /\ book'[s][p][i] = book[s][p][i]
        BY <1>4, <1>7, <2>4, <3>1, <3>2, <3>4
      <4> QED
        BY <2>1, <4>1
    <3> QED
      BY <3>3, <3>4
  <2> QED
    BY <2>3, <2>4
<1> QED
  BY <1>8, <1>9 DEF VolumeIsSum, RestingSound

(* b2 is b with another order, that was not there, at the end of a queue.  *)
Longer(b, b2, s0, p0, o) ==
  /\ s0 \in Sides /\ p0 \in Prices /\ o \in Order
  /\ b2 \in [Sides -> [Prices -> Seq(Order)]]
  /\ \A s \in Sides, p \in Prices : s # s0 \/ p # p0 => b2[s][p] = b[s][p]
  /\ b2[s0][p0] = Append(b[s0][p0], o)
  /\ \A s \in Sides, p \in Prices : \A i \in 1 .. Len(b[s][p]) : b[s][p][i] # o

LEMMA RestLengthens ==
  ASSUME Totals, IInv', pc = "matching", remaining > 0,
         cmd.time_in_force = "Gtc", add_to_book(remaining)
  PROVE  Longer(book, book', cmd.side, cmd.price,
                [order_id |-> cmd.order_id, user_id |-> cmd.user_id,
                 side |-> cmd.side, size |-> remaining,
                 original_size |-> cmd.size])
<1> DEFINE s0 == cmd.side
           p0 == cmd.price
           o == [order_id |-> cmd.order_id, user_id |-> cmd.user_id,
                 side |-> cmd.side, size |-> remaining,
                 original_size |-> cmd.size]
<1>0. IInv
  BY DEF Totals
<1>1. /\ book \in [Sides -> [Prices -> Seq(Order)]]
      /\ book' \in [Sides -> [Prices -> Seq(Order)]]
      /\ remaining \in Nat
  BY <1>0 DEF IInv, TypeOK
<1>2. cmd \in Command /\ s0 \in Sides /\ p0 \in Prices /\ cmd.size > 0
  BY <1>0 DEF IInv, TypeOK, IdsInUse, Command
<1>3. o \in Order
  BY <1>1, <1>2 DEF Order, Command
<1>4. book' = [book EXCEPT ![s0][p0] = Append(@, o)]
  BY DEF add_to_book
<1>5. ASSUME NEW s \in Sides, NEW p \in Prices, NEW i \in 1 .. Len(book[s][p])
      PROVE  book[s][p][i] # o
  <2>1. book[s][p][i].order_id < cmd.order_id
    BY <1>0 DEF IInv, IdsInUse
  <2>2. book[s][p][i].order_id \in Nat
    BY <1>0, RestingTyped DEF IInv
  <2> QED
    BY <2>1, <2>2
<1> HIDE DEF o, s0, p0
<1>6. /\ book'[s0][p0] = Append(book[s0][p0], o)
      /\ \A s \in Sides, p \in Prices :
           s # s0 \/ p # p0 => book'[s][p] = book[s][p]
  BY <1>1, <1>2, <1>4
<1>7. Longer(book, book', s0, p0, o)
  BY <1>1, <1>2, <1>3, <1>5, <1>6 DEF Longer
<1> QED
  BY <1>7 DEF s0, p0, o

(* After match_order the command carries the remainder, its status, the    *)
(* views of the book it leaves, and events that are true of that book.     *)
LEMMA FinishTotals == ASSUME Totals, IInv', EventsFair', finish_place PROVE Totals'
<1> DEFINE st == final_status(cmd.time_in_force, remaining, cmd.size)
<1> DEFINE pr == IF cmd.price = 0 /\ cmd.side = "Ask" /\ events # <<>>
                 THEN events[1].price ELSE cmd.price
<1>0. /\ IInv /\ VolumeIsSum /\ RestingSound /\ Accounts /\ EventsTrue
      /\ FokCovered
  BY DEF Totals
<1>1. /\ pc = "matching" /\ pc' = "done"
      /\ remaining = 0 \/ (~InQueue /\ \A p \in Prices : ~Ahead(p))
      /\ cmd' = [cmd EXCEPT !.status = st, !.size = remaining, !.price = pr]
      /\ UNCHANGED <<taken, remaining, events>>
      /\ record_snapshot(book', volume') /\ update_price_cache(book')
  BY DEF finish_place
<1>2. \/ cmd.time_in_force = "Gtc" /\ remaining > 0 /\ add_to_book(remaining)
      \/ UNCHANGED <<book, volume, orders>>
  BY DEF finish_place
<1>3. cmd \in Command /\ remaining \in Nat /\ events \in Seq(Event)
  BY <1>0, <1>1 DEF IInv, TypeOK
<1>s. remaining = 0 => st = "Filled"
  <2>1. cmd.size > 0 /\ cmd.size \in Nat
    BY <1>0, <1>1, <1>3 DEF IInv, IdsInUse, Command
  <2> QED
    BY <2>1 DEF final_status
<1> HIDE DEF st, pr
<1>4. /\ cmd'.side = cmd.side /\ cmd'.command = "PlaceOrder"
      /\ cmd'.order_id = cmd.order_id /\ cmd'.size = remaining
      /\ cmd'.time_in_force = cmd.time_in_force /\ cmd'.status = st
  BY <1>0, <1>1, <1>3 DEF Command, IInv, IdsInUse
<1>5. VolumeIsSum' /\ RestingSound'
  <2>1. CASE cmd.time_in_force = "Gtc" /\ remaining > 0 /\ add_to_book(remaining)
    BY <1>1, <2>1, RestTotals
  <2>2. CASE UNCHANGED <<book, volume, orders>>
    <3>1. VolumeIsSum'
      BY <1>0, <2>2 DEF VolumeIsSum
    <3>2. RestingSound'
      BY <1>0, <2>2 DEF RestingSound
    <3> QED
      BY <3>1, <3>2
  <2> QED
    BY <1>2, <2>1, <2>2
<1>6. Accounts'
  <2>1. TotalSize(events) + remaining = taken
    BY <1>0, <1>1 DEF Accounts
  <2> QED
    BY <1>1, <1>4, <2>1 DEF Accounts
<1>7. EventsTrue'
  <2>1. \A p \in Prices :
          book'[op_side(cmd.side)][p] = book[op_side(cmd.side)][p]
    <3>1. CASE /\ cmd.time_in_force = "Gtc" /\ remaining > 0
               /\ add_to_book(remaining)
      BY <1>0, <1>1, <1>3, <3>1, RestPreserves
    <3>2. CASE UNCHANGED <<book, volume, orders>>
      BY <3>2
    <3> QED
      BY <1>2, <3>1, <3>2
  <2>2. \A n \in OrderIds : n # cmd.order_id => orders'[n] = orders[n]
    BY <1>0, <1>2 DEF add_to_book, IInv, TypeOK
  <2>3. ASSUME NEW k \in 1 .. Len(events)
        PROVE  LET e == events[k]
                   q == book'[op_side(cmd.side)][e.price]
               IN /\ e.matched_order_id < cmd.order_id
                  /\ IF e.matched_order_completed
                     THEN /\ orders'[e.matched_order_id] = NoPrice
                          /\ \A i \in 1 .. Len(q) :
                               q[i].order_id # e.matched_order_id
                     ELSE /\ remaining = 0
                          /\ \E i \in 1 .. Len(q) :
                               /\ q[i].order_id = e.matched_order_id
                               /\ q[i].user_id = e.maker_user_id
                               /\ q[i].size = e.maker_remaining_size
                               /\ q[i].size + e.size <= q[i].original_size
    <3> DEFINE e == events[k]
    <3>1. e \in Event
      BY <1>3
    <3>2. e.price \in Prices /\ e.matched_order_id \in OrderIds
          /\ e.matched_order_id \in Nat /\ cmd.order_id \in Nat
      <4>1. e.price \in Prices /\ e.matched_order_id \in OrderIds
        BY <3>1 DEF Event
      <4>2. cmd.order_id \in OrderIds
        BY <1>3 DEF Command
      <4> HIDE DEF e
      <4> QED
        BY <4>1, <4>2, BoundAssumption DEF OrderIds
    <3>3. e.matched_order_id < cmd.order_id
      BY <1>0 DEF EventsTrue
    <3>4. /\ orders'[e.matched_order_id] = orders[e.matched_order_id]
          /\ book'[op_side(cmd.side)][e.price]
               = book[op_side(cmd.side)][e.price]
      BY <2>1, <2>2, <3>2, <3>3
    <3> QED
      BY <1>0, <3>4 DEF EventsTrue
  <2> QED
    BY <1>1, <1>4, <2>3 DEF EventsTrue
<1>8. FokCovered'
  <2>1. ASSUME cmd.time_in_force = "Fok"
        PROVE  remaining = 0
    BY <1>1, <1>3, <2>1, LoopExhausts
  <2> QED
    BY <1>1, <1>4, <1>s, <2>1 DEF FokCovered, FokAllOrNothing
<1>9. ViewsFresh'
  BY <1>1 DEF ViewsFresh, record_snapshot, update_price_cache
<1> QED
  BY <1>5, <1>6, <1>7, <1>8, <1>9 DEF Totals

-----------------------------------------------------------------------------
(* cancel_order.                                                           *)

(* A cancel either takes one order, at the position its id names, out of   *)
(* book and total, or leaves the book alone.                               *)
LEMMA CancelStep ==
  ASSUME Totals, NEW c \in Cancels, cancel_order(c)
  PROVE  \/ \E s \in Sides, p \in Prices : \E i \in 1 .. Len(book[s][p]) :
              /\ book[s][p][i].order_id = c.order_id
              /\ Removal(s, p, i)
              /\ volume' = [volume EXCEPT ![s][p] = @ - book[s][p][i].size]
              /\ cmd'.command = "CancelOrder" /\ cmd'.status = "Cancelled"
              /\ cmd'.order_id = c.order_id
              /\ cmd'.size = book[s][p][i].size
              /\ cmd'.side = book[s][p][i].side
              /\ cmd'.price = p /\ cmd'.user_id = book[s][p][i].user_id
         \/ /\ UNCHANGED <<book, volume>>
            /\ cmd'.command = "CancelOrder" /\ cmd'.status = "Rejected"
<1> DEFINE p == orders[c.order_id]
<1> DEFINE s == cancel_side(p)
<1>1. c \in Command /\ c.command = "CancelOrder" /\ c.order_id \in OrderIds
  BY DEF Cancels, Command, Status, Sides, TIFs
<1>2. p \in Prices \cup {NoPrice} /\ s \in Sides
  BY <1>1 DEF Totals, IInv, TypeOK, cancel_side, Sides
<1>3. \/ /\ p # NoPrice
         /\ \E i \in 1 .. Len(book[s][p]) :
              book[s][p][i].order_id = c.order_id /\ remove_order(c, s, p, i)
      \/ /\ cmd' = [c EXCEPT !.status = "Rejected"]
         /\ UNCHANGED <<book, volume>>
  BY DEF cancel_order
<1> HIDE DEF p, s
<1>4. CASE /\ p # NoPrice
           /\ \E i \in 1 .. Len(book[s][p]) :
                book[s][p][i].order_id = c.order_id /\ remove_order(c, s, p, i)
  <2>0. p \in Prices
    BY <1>2, <1>4
  <2>1. PICK i \in 1 .. Len(book[s][p]) :
          book[s][p][i].order_id = c.order_id /\ remove_order(c, s, p, i)
    BY <1>4
  <2>2. /\ Removal(s, p, i)
        /\ volume' = [volume EXCEPT ![s][p] = @ - book[s][p][i].size]
        /\ cmd' = [c EXCEPT !.price = p, !.size = book[s][p][i].size,
                            !.user_id = book[s][p][i].user_id,
                            !.side = book[s][p][i].side,
                            !.status = "Cancelled",
                            !.original_size = book[s][p][i].original_size]
    BY <2>1 DEF remove_order, Removal
  <2>3. /\ cmd'.command = "CancelOrder" /\ cmd'.status = "Cancelled"
        /\ cmd'.order_id = c.order_id
        /\ cmd'.size = book[s][p][i].size
        /\ cmd'.side = book[s][p][i].side
        /\ cmd'.price = p /\ cmd'.user_id = book[s][p][i].user_id
    BY <1>1, <2>2 DEF Command
  <2> QED
    BY <1>2, <2>0, <2>1, <2>2, <2>3
<1>5. CASE /\ cmd' = [c EXCEPT !.status = "Rejected"]
           /\ UNCHANGED <<book, volume>>
  BY <1>1, <1>5 DEF Command
<1> QED
  BY <1>3, <1>4, <1>5

(* A cancel takes its order from the book and carries what was left of it, *)
(* or is rejected.                                                         *)
CancelTakes(s, p, i) ==
  /\ i \in 1 .. Len(book[s][p]) /\ Removal(s, p, i)
  /\ book[s][p][i] \in Order /\ book[s][p][i].side = s
  /\ cmd'.command = "CancelOrder" /\ cmd'.status = "Cancelled"
  /\ cmd'.size = book[s][p][i].size /\ cmd'.side = s
  /\ cmd'.price = p /\ cmd'.user_id = book[s][p][i].user_id

LEMMA CancelShape ==
  ASSUME Totals, NEW c \in Cancels, cancel_order(c)
  PROVE  \/ \E s \in Sides, p \in Prices, i \in Nat : CancelTakes(s, p, i)
         \/ /\ book' = book
            /\ cmd'.command = "CancelOrder" /\ cmd'.status = "Rejected"
<1>1. CASE \E s \in Sides, p \in Prices : \E i \in 1 .. Len(book[s][p]) :
              /\ book[s][p][i].order_id = c.order_id
              /\ Removal(s, p, i)
              /\ volume' = [volume EXCEPT ![s][p] = @ - book[s][p][i].size]
              /\ cmd'.command = "CancelOrder" /\ cmd'.status = "Cancelled"
              /\ cmd'.order_id = c.order_id
              /\ cmd'.size = book[s][p][i].size
              /\ cmd'.side = book[s][p][i].side
              /\ cmd'.price = p /\ cmd'.user_id = book[s][p][i].user_id
  <2>1. PICK s \in Sides, p \in Prices : \E i \in 1 .. Len(book[s][p]) :
              /\ Removal(s, p, i)
              /\ cmd'.command = "CancelOrder" /\ cmd'.status = "Cancelled"
              /\ cmd'.size = book[s][p][i].size
              /\ cmd'.side = book[s][p][i].side
              /\ cmd'.price = p /\ cmd'.user_id = book[s][p][i].user_id
    BY <1>1
  <2>2. PICK i \in 1 .. Len(book[s][p]) :
              /\ Removal(s, p, i)
              /\ cmd'.command = "CancelOrder" /\ cmd'.status = "Cancelled"
              /\ cmd'.size = book[s][p][i].size
              /\ cmd'.side = book[s][p][i].side
              /\ cmd'.price = p /\ cmd'.user_id = book[s][p][i].user_id
    BY <2>1
  <2>3. book[s][p][i] \in Order /\ book[s][p][i].side = s
    <3>1. TypeOK
      BY DEF Totals, IInv
    <3> QED
      BY <3>1, RestingTyped DEF Totals, RestingSound
  <2>4. CancelTakes(s, p, i) /\ i \in Nat
    BY <2>2, <2>3 DEF CancelTakes
  <2> QED
    BY <2>4
<1>2. CASE /\ UNCHANGED <<book, volume>>
           /\ cmd'.command = "CancelOrder" /\ cmd'.status = "Rejected"
  BY <1>2
<1> QED
  BY <1>1, <1>2, CancelStep

(* cancel_order keeps every total and refreshes the price cache.           *)
LEMMA CancelTotals ==
  ASSUME Totals, IInv', EventsFair', NEW c \in Cancels, cancel_order(c)
  PROVE  Totals'
<1>0. IInv /\ VolumeIsSum /\ RestingSound /\ TypeOK'
  BY DEF Totals, IInv
<1>1. pc' = "done" /\ events' = <<>> /\ update_price_cache(book')
  BY DEF cancel_order, Serve
<1>2. cmd'.command = "CancelOrder"
  BY CancelStep
<1>3. VolumeIsSum' /\ RestingSound'
  <2>1. CASE \E s \in Sides, p \in Prices : \E i \in 1 .. Len(book[s][p]) :
               /\ Removal(s, p, i)
               /\ volume' = [volume EXCEPT ![s][p] = @ - book[s][p][i].size]
    <3>1. PICK s \in Sides, p \in Prices : \E i \in 1 .. Len(book[s][p]) :
            /\ Removal(s, p, i)
            /\ volume' = [volume EXCEPT ![s][p] = @ - book[s][p][i].size]
      BY <2>1
    <3>2. PICK i \in 1 .. Len(book[s][p]) :
            /\ Removal(s, p, i)
            /\ volume' = [volume EXCEPT ![s][p] = @ - book[s][p][i].size]
      BY <3>1
    <3> QED
      BY <1>0, <3>2, RemovalTotals
  <2>2. CASE UNCHANGED <<book, volume>>
    <3>1. VolumeIsSum'
      BY <1>0, <2>2 DEF VolumeIsSum
    <3>2. RestingSound'
      BY <1>0, <2>2 DEF RestingSound
    <3> QED
      BY <3>1, <3>2
  <2> QED
    BY <2>1, <2>2, CancelStep
<1>4. Accounts' /\ EventsTrue' /\ FokCovered'
  BY <1>1, <1>2 DEF Accounts, EventsTrue, FokCovered, FokAllOrNothing
<1>5. ViewsFresh'
  BY <1>1, <1>2 DEF ViewsFresh, update_price_cache
<1> QED
  BY <1>3, <1>4, <1>5 DEF Totals

-----------------------------------------------------------------------------
(* Every step keeps the totals: one case per action.                       *)
LEMMA NextTotals == Totals /\ [Next]_vars => Totals'
<1> SUFFICES ASSUME Totals, [Next]_vars PROVE Totals'
  OBVIOUS
<1>0. IInv' /\ EventsFair'
  BY NextInv, NextFair DEF Totals
<1>1. CASE \E c \in NewOrders : place_order(c)
  BY <1>0, <1>1, PlaceTotals
<1>2. CASE \E p \in Prices : open_level(p)
  <2>1. UNCHANGED <<book, volume, orders, cmd, pc, taken, remaining, events,
                    l2, cache>>
    BY <1>2 DEF open_level
  <2> QED
    BY <1>0, <2>1, CursorTotals
<1>3. CASE skip_own_order
  <2>1. UNCHANGED <<book, volume, orders, cmd, pc, taken, remaining, events,
                    l2, cache>>
    BY <1>3 DEF skip_own_order
  <2> QED
    BY <1>0, <2>1, CursorTotals
<1>4. CASE fill_maker
  BY <1>0, <1>4, FillTotals
<1>5. CASE finish_place
  BY <1>0, <1>5, FinishTotals
<1>6. CASE \E c \in Cancels : cancel_order(c)
  BY <1>0, <1>6, CancelTotals
<1>7. CASE deliver
  BY <1>0, <1>7, DeliverTotals
<1>8. CASE UNCHANGED vars
  <2>1. UNCHANGED <<book, volume, orders, cmd, pc, taken, remaining, events,
                    l2, cache>>
    BY <1>8 DEF vars
  <2> QED
    BY <1>0, <2>1, CursorTotals
<1> QED
  BY <1>1, <1>2, <1>3, <1>4, <1>5, <1>6, <1>7, <1>8 DEF Next

(* Totals is inductive: it holds of an empty book and every step of the    *)
(* matching thread preserves it.                                           *)
THEOREM TotalsInvariant == Spec => []Totals
<1>1. Init => Totals
  BY InitTotals
<1>2. Totals /\ [Next]_vars => Totals'
  BY NextTotals
<1> QED
  BY <1>1, <1>2, PTL DEF Spec

(* The running total of a price level never drifts from the orders in its  *)
(* queue, whatever place_order and cancel_order do to them.                *)
THEOREM VolumesExact == Spec => []VolumeIsSum
<1>1. Totals => VolumeIsSum
  BY DEF Totals
<1> QED
  BY <1>1, TotalsInvariant, PTL

(* What can_fill_completely finds is what match_order takes: a fill-or-    *)
(* kill order fills completely or does not trade.                          *)
THEOREM FokCorrect == Spec => []FokAllOrNothing
<1>1. Totals => FokAllOrNothing
  BY DEF Totals, FokCovered
<1> QED
  BY <1>1, TotalsInvariant, PTL

(* The trade events match_order attaches are with other users and at       *)
(* prices the taker accepts, add up to what was executed, and report each  *)
(* maker as the book holds it.                                             *)
THEOREM EventsTruthful == Spec => []EventsMatchBook
<1>1. Totals => EventsMatchBook
  <2> SUFFICES ASSUME Totals PROVE EventsMatchBook
    OBVIOUS
  <2>1. ASSUME pc = "done", cmd.command = "PlaceOrder"
        PROVE  TotalSize(events) + cmd.size = taken
    BY <2>1 DEF Totals, Accounts
  <2>2. EventsTrue /\ EventsFair
    BY DEF Totals
  <2> QED
    BY <2>1, <2>2 DEF EventsTrue, EventsFair, EventsMatchBook
<1> QED
  BY <1>1, TotalsInvariant, PTL

(* update_price_cache and record_snapshot publish the book: the cache is   *)
(* its top, and the top level is in the snapshot with its true volume.     *)
THEOREM ViewsCorrect == Spec => []ViewsAgree
<1>1. Totals => ViewsAgree
  <2> SUFFICES ASSUME Totals PROVE ViewsAgree
    OBVIOUS
  <2>0. ViewsFresh /\ VolumeIsSum
    BY DEF Totals
  <2>1. pc = "idle" => cache = [s \in Sides |-> best_price(book, s)]
    BY <2>0 DEF ViewsFresh
  <2>2. ASSUME pc = "done", cmd.command = "PlaceOrder", NEW s \in Sides
        PROVE  /\ l2[s] = {} <=> cache[s] \notin Prices
               /\ cache[s] \in Prices => \E lv \in l2[s] : lv[1] = cache[s]
               /\ \A lv \in l2[s] : lv[2] = TotalSize(book[s][lv[1]])
    <3> DEFINE L == Levels(book, s)
               T == {q \in L : Cardinality({r \in L :
                                 Better(op_side(s), r, q)}) < L2SIZE}
               b == best_price(book, s)
    <3>1. cache[s] = b /\ l2[s] = {<<p, volume[s][p]>> : p \in T}
      BY <2>0, <2>2 DEF ViewsFresh, l2_snapshot
    <3>2. T \subseteq L /\ L \subseteq Prices
      BY DEF Levels
    <3>3. \A lv \in l2[s] : lv[2] = TotalSize(book[s][lv[1]])
      <4> TAKE lv \in l2[s]
      <4>1. PICK p \in T : lv = <<p, volume[s][p]>>
        BY <3>1
      <4>2. p \in Prices
        BY <3>2
      <4>3. volume[s][p] = TotalSize(book[s][p])
        BY <2>0, <4>2 DEF VolumeIsSum
      <4> HIDE DEF T
      <4> QED
        BY <4>1, <4>3
    <3>4. CASE L = {}
      <4>1. l2[s] = {}
        BY <3>1, <3>4
      <4>2. cache[s] \notin Prices
        BY <3>1, <3>4, BestIsLevel
      <4> QED
        BY <3>3, <4>1, <4>2
    <3>5. CASE L # {}
      <4>1. b \in L /\ \A q \in L : ~Better(op_side(s), q, b)
        BY <3>5, BestIsLevel
      <4>2. {r \in L : Better(op_side(s), r, b)} = {}
        BY <4>1
      <4>3. Cardinality({r \in L : Better(op_side(s), r, b)}) < L2SIZE
        BY <4>2, FS_EmptySet, BoundAssumption
      <4>4. b \in T
        BY <4>1, <4>3
      <4> HIDE DEF T, b, L
      <4>5. <<b, volume[s][b]>> \in l2[s]
        BY <3>1, <4>4
      <4>6. b \in Prices
        BY <3>2, <4>1
      <4>7. <<b, volume[s][b]>>[1] = cache[s]
        BY <3>1
      <4>8. \E lv \in l2[s] : lv[1] = cache[s]
        BY <4>5, <4>7
      <4> QED
        BY <3>1, <3>3, <4>5, <4>6, <4>8
    <3> QED
      BY <3>4, <3>5
  <2> QED
    BY <2>1, <2>2 DEF ViewsAgree
<1> QED
  BY <1>1, TotalsInvariant, PTL

-----------------------------------------------------------------------------
(* What rests on a side of the book b.                                     *)
LEMMA RestsAt ==
  ASSUME NEW b, NEW s, NEW o
  PROVE  o \in Resting(b, s) <=>
           \E p \in Prices : \E i \in 1 .. Len(b[s][p]) : o = b[s][p][i]
  BY DEF Resting

(* What the action property says of a cancel that has been served.         *)
LEMMA CancelRemoves ==
  ASSUME Totals, NEW c \in Cancels, cancel_order(c), NEW t \in Sides
  PROVE  Resting(book, t) \ Resting(book', t) =
           IF cmd'.status = "Cancelled" /\ t = cmd'.side
           THEN {o \in Resting(book, t) : o.order_id = cmd'.order_id
                                           /\ o.size = cmd'.size}
           ELSE {}
<1>0. /\ IInv /\ RestingSound /\ TypeOK /\ QueuesSortedById /\ UniqueIds
      /\ NoCrossBetweenUsers
  BY DEF Totals, IInv
<1>1. CASE UNCHANGED <<book, volume>> /\ cmd'.status = "Rejected"
  <2>1. Resting(book', t) = Resting(book, t)
    BY <1>1 DEF Resting
  <2> QED
    BY <1>1, <2>1
<1>2. CASE \E s \in Sides, p \in Prices : \E i \in 1 .. Len(book[s][p]) :
             /\ book[s][p][i].order_id = c.order_id
             /\ Removal(s, p, i)
             /\ cmd'.status = "Cancelled"
             /\ cmd'.order_id = c.order_id
             /\ cmd'.size = book[s][p][i].size
             /\ cmd'.side = book[s][p][i].side
  <2>1. PICK s \in Sides, p \in Prices : \E i \in 1 .. Len(book[s][p]) :
             /\ book[s][p][i].order_id = c.order_id
             /\ Removal(s, p, i)
             /\ cmd'.status = "Cancelled"
             /\ cmd'.order_id = c.order_id
             /\ cmd'.size = book[s][p][i].size
             /\ cmd'.side = book[s][p][i].side
    BY <1>2
  <2>2. PICK i \in 1 .. Len(book[s][p]) :
             /\ book[s][p][i].order_id = c.order_id
             /\ Removal(s, p, i)
             /\ cmd'.status = "Cancelled"
             /\ cmd'.order_id = c.order_id
             /\ cmd'.size = book[s][p][i].size
             /\ cmd'.side = book[s][p][i].side
    BY <2>1
  <2>3. cmd'.side = s
    BY <1>0, <2>2 DEF RestingSound
  <2>4. /\ \A r \in Sides, u \in Prices :
             r # s \/ u # p => book'[r][u] = book[r][u]
        /\ \A r \in Sides, u \in Prices : \A k \in 1 .. Len(book'[r][u]) :
             \E j \in 1 .. Len(book[r][u]) :
               book'[r][u][k] = book[r][u][j] /\ k <= j
               /\ (r = s /\ u = p => j # i)
        /\ \A j \in 1 .. Len(book[s][p]) : j # i =>
             \E k \in 1 .. Len(book'[s][p]) :
               book'[s][p][k] = book[s][p][j]
    <3>1. Removal(s, p, i)
      BY <2>2
    <3>2. TypeOK /\ QueuesSortedById /\ UniqueIds /\ NoCrossBetweenUsers
      BY <1>0
    <3> QED
      BY ONLY <3>1, <3>2, s \in Sides, p \in Prices,
              i \in 1 .. Len(book[s][p]), RemovalPreservesBook, ZenonT(60)
  <2>5. CASE t # s
    <3>1. \A u \in Prices : book'[t][u] = book[t][u]
      BY <2>4, <2>5
    <3>2. Resting(book', t) = Resting(book, t)
      <4>1. ASSUME NEW x
            PROVE  x \in Resting(book', t) <=> x \in Resting(book, t)
        <5>1. x \in Resting(book', t) <=>
                \E u \in Prices : \E k \in 1 .. Len(book'[t][u]) :
                  x = book'[t][u][k]
          BY RestsAt
        <5>2. x \in Resting(book, t) <=>
                \E u \in Prices : \E k \in 1 .. Len(book[t][u]) :
                  x = book[t][u][k]
          BY RestsAt
        <5> QED
          BY <3>1, <5>1, <5>2
      <4> QED
        BY <4>1
    <3> QED
      BY <2>3, <2>5, <3>2
  <2>6. CASE t = s
    <3> DEFINE o == book[s][p][i]
    <3>1. o \in Resting(book, s) /\ o.order_id = cmd'.order_id
          /\ o.size = cmd'.size
      BY <2>2, RestsAt
    <3>2. ASSUME NEW x \in Resting(book, s), x.order_id = o.order_id
          PROVE  x = o
      <4>1. PICK u \in Prices : \E j \in 1 .. Len(book[s][u]) :
              x = book[s][u][j]
        BY RestsAt
      <4>2. PICK j \in 1 .. Len(book[s][u]) : x = book[s][u][j]
        BY <4>1
      <4>3. u = p /\ j = i
        BY <1>0, <3>2, <4>2, OnePlace
      <4> QED
        BY <4>2, <4>3
    <3>3. o \notin Resting(book', s)
      <4> SUFFICES ASSUME o \in Resting(book', s) PROVE FALSE
        OBVIOUS
      <4>1. PICK u \in Prices : \E k \in 1 .. Len(book'[s][u]) :
              o = book'[s][u][k]
        BY RestsAt
      <4>2. PICK k \in 1 .. Len(book'[s][u]) : o = book'[s][u][k]
        BY <4>1
      <4>3. PICK j \in 1 .. Len(book[s][u]) :
              book'[s][u][k] = book[s][u][j] /\ (u = p => j # i)
        BY <2>4
      <4>4. book[s][u][j].order_id = book[s][p][i].order_id
        BY <4>2, <4>3
      <4>5. u = p /\ j = i
        BY <1>0, <4>4, OnePlace
      <4> QED
        BY <4>3, <4>5
    <3>4. ASSUME NEW x \in Resting(book, s), x # o
          PROVE  x \in Resting(book', s)
      <4>1. PICK u \in Prices : \E j \in 1 .. Len(book[s][u]) :
              x = book[s][u][j]
        BY RestsAt
      <4>2. PICK j \in 1 .. Len(book[s][u]) : x = book[s][u][j]
        BY <4>1
      <4>3. \E k \in 1 .. Len(book'[s][u]) : x = book'[s][u][k]
        <5>1. CASE u = p
          <6>1. j # i
            BY <3>4, <4>2, <5>1
          <6> QED
            BY <2>4, <4>2, <5>1, <6>1
        <5>2. CASE u # p
          <6>1. book'[s][u] = book[s][u]
            BY <2>4, <5>2
          <6> QED
            BY <4>2, <6>1
        <5> QED
          BY <5>1, <5>2
      <4> QED
        BY <4>3, RestsAt
    <3> HIDE DEF o
    <3>5. Resting(book, s) \ Resting(book', s) = {o}
      BY <3>1, <3>3, <3>4
    <3>6. {x \in Resting(book, s) : x.order_id = cmd'.order_id
                                     /\ x.size = cmd'.size} = {o}
      BY <3>1, <3>2
    <3> QED
      BY <2>2, <2>3, <2>6, <3>5, <3>6
  <2> QED
    BY <2>5, <2>6
<1> QED
  BY <1>1, <1>2, CancelStep

(* cancel_order takes out of the book the order it reports, as it was, and *)
(* nothing else.                                                           *)
THEOREM CancelTargetsOne == Spec => CancelOnlyRemovesTarget
<1> DEFINE A == pc = "idle" /\ pc' = "done" /\ cmd'.command = "CancelOrder" =>
                  \A s \in Sides :
                    Resting(book, s) \ Resting(book', s) =
                      IF cmd'.status = "Cancelled" /\ s = cmd'.side
                      THEN {o \in Resting(book, s) :
                              o.order_id = cmd'.order_id /\ o.size = cmd'.size}
                      ELSE {}
<1>1. Totals /\ [Next]_vars => [A]_vars
  <2> SUFFICES ASSUME Totals, Next, pc = "idle", pc' = "done",
                      cmd'.command = "CancelOrder"
               PROVE  A
    OBVIOUS
  <2>1. CASE \E c \in NewOrders : place_order(c)
    <3>1. PICK c \in NewOrders : place_order(c)
      BY <2>1
    <3>2. cmd' = c \/ cmd' = [c EXCEPT !.status = "Cancelled"]
      BY <3>1 DEF place_order
    <3>3. cmd'.command = "PlaceOrder"
      BY <3>2 DEF NewOrders
    <3> QED
      BY <3>3
  <2>2. CASE \E c \in Cancels : cancel_order(c)
    BY <2>2, CancelRemoves
  <2>3. CASE \/ \E p \in Prices : open_level(p)
             \/ skip_own_order \/ fill_maker \/ finish_place \/ deliver
    BY <2>3 DEF open_level, skip_own_order, fill_maker, finish_place, deliver
  <2> HIDE DEF A
  <2> QED
    BY <2>1, <2>2, <2>3 DEF Next
<1>2. [][A]_vars <=> CancelOnlyRemovesTarget
  BY PTL DEF CancelOnlyRemovesTarget
<1> QED
  BY <1>1, <1>2, TotalsInvariant, PTL DEF Spec
=============================================================================
