---------------------------- MODULE FundsProofs ----------------------------
(***************************************************************************)
(* TLAPS proofs about the funds in Exchange: settlement never fails, the   *)
(* funds locked are those the resting orders need, and none are created or *)
(* destroyed.                                                              *)
(*                                                                         *)
(* Between R1 and R2 funds are on their way: locked for an order that is   *)
(* not matched yet, or due in a trade one shard has settled and the other  *)
(* has not.  Each slot of the ring has its claims on locked funds          *)
(* (ItemsAt): the hold of an order and the settlements and releases still  *)
(* to be done.  The invariant (MInv) says that in every state claims and   *)
(* resting orders together are covered by what is locked, up to what       *)
(* rounding left behind, and that funds, claims and fees add up to what    *)
(* was deposited.  Each step of a handler makes, changes or meets claims   *)
(* of one slot.                                                            *)
(***************************************************************************)
EXTENDS ExchangeProofs

-----------------------------------------------------------------------------
(* Finite sets given by an index.                                          *)

(* The image of a finite set is finite.                                    *)
LEMMA ImageFinite ==
  ASSUME NEW D, IsFiniteSet(D), NEW f, DOMAIN f = D
  PROVE  IsFiniteSet({f[x] : x \in D})
<1> DEFINE R == {f[x] : x \in D}
           h == [x \in D |-> f[x]]
<1>1. h \in [D -> R] /\ \A g \in R : \E k \in D : h[k] = g
  OBVIOUS
<1> HIDE DEF h, R
<1>2. h \in Surjection(D, R)
  BY <1>1, Fun_IsSurj
<1>3. IsFiniteSet(R)
  BY <1>2, FS_Surjection
<1> QED
  BY <1>3 DEF R

(* Every part is a finite set of elements of S.                            *)
FiniteParts(f, D, S) == \A x \in D : f[x] \in SUBSET S /\ IsFiniteSet(f[x])

(* Finitely many finite sets make a finite one.                            *)
LEMMA UnionFinite ==
  ASSUME NEW D, IsFiniteSet(D), NEW f, DOMAIN f = D, NEW S, FiniteParts(f, D, S)
  PROVE  /\ UNION {f[x] : x \in D} \in SUBSET S
         /\ IsFiniteSet(UNION {f[x] : x \in D})
<1> DEFINE R == {f[x] : x \in D}
<1>1. IsFiniteSet(R)
  BY ImageFinite
<1>2. /\ \A T \in R : IsFiniteSet(T)
      /\ UNION R \in SUBSET S
  BY DEF FiniteParts
<1>3. IsFiniteSet(UNION R)
  <2> HIDE DEF R
  <2> QED
    BY <1>1, <1>2, FS_UNION
<1> QED
  BY <1>2, <1>3

-----------------------------------------------------------------------------
(* What resting orders need.                                               *)

Rests == [price: Prices, order: BP!Order]

SideOf(a) == IF a = "quote" THEN "Bid" ELSE "Ask"

(* The resting orders of each side of a book, with their prices.           *)
RestSet(b, s) ==
  UNION {{[price |-> p, order |-> b[s][p][i]] : i \in 1 .. Len(b[s][p])} :
         p \in Prices}

Stock(b) == [s \in BP!Sides |-> RestSet(b, s)]

Stocks == [BP!Sides -> {T \in SUBSET Rests : IsFiniteSet(T)}]

AmountOf(s, x) == reserved_amount(s, x.price, x.order.size)

Amount(s, T) == SumFunctionOnSet([x \in T |-> AmountOf(s, x)], T)

OwnedBy(T, u) == {x \in T : x.order.user_id = u}

NeedOf(R) ==
  [u \in Users |-> [a \in Assets |->
     Amount(SideOf(a), OwnedBy(R[SideOf(a)], u))]]

(* A side reserves one asset and gets the other.                           *)
LEMMA SidesAre ==
  /\ BP!Sides = {"Bid", "Ask"} /\ Book!Sides = {"Bid", "Ask"}
  /\ \A a \in Assets : SideOf(a) \in BP!Sides /\ reserved_asset(SideOf(a)) = a
  /\ \A s \in BP!Sides : /\ reserved_asset(s) \in Assets
                         /\ SideOf(reserved_asset(s)) = s
                         /\ BP!op_side(s) \in BP!Sides /\ BP!op_side(s) # s
                         /\ reserved_asset(BP!op_side(s)) # reserved_asset(s)
  BY DEF BP!Sides, Book!Sides, Assets, SideOf, reserved_asset, BP!op_side

(* Whatever an order needs is a natural.                                   *)
LEMMA ReservedNat ==
  ASSUME NEW s, NEW p \in Nat, NEW z \in Nat
  PROVE  reserved_amount(s, p, z) \in Nat /\ calculate_quote_cost(p, z) \in Nat
<1>1. exact_cost(p, z) \in Nat
  BY CostNat
<1>2. calculate_quote_cost(p, z) = wrap(exact_cost(p, z))
  BY DEF calculate_quote_cost, exact_cost
<1> DEFINE c == exact_cost(p, z)
<1> HIDE DEF c
<1>3. U64MAX + 1 \in Nat /\ U64MAX + 1 > 0
  BY Scales
<1>4. wrap(c) \in Nat
  BY <1>1, <1>3 DEF wrap, c
<1>5. calculate_quote_cost(p, z) \in Nat
  BY <1>2, <1>4 DEF c
<1> QED
  BY <1>5 DEF reserved_amount

(* What a resting order needs is a natural.                                *)
LEMMA AmountOfNat ==
  ASSUME NEW s, NEW x \in Rests
  PROVE  AmountOf(s, x) \in Nat
<1>1. x.price \in Nat /\ x.order.size \in Nat
  BY MarketAssumption DEF Rests, BP!Order
<1> QED
  BY <1>1, ReservedNat DEF AmountOf

(* What resting orders need together is a natural.                         *)
LEMMA AmountNat ==
  ASSUME NEW s, NEW T \in SUBSET Rests, IsFiniteSet(T)
  PROVE  Amount(s, T) \in Nat
<1> DEFINE w == [x \in T |-> AmountOf(s, x)]
<1>1. \A x \in T : w[x] \in Nat
  BY AmountOfNat
<1> HIDE DEF w
<1>2. SumFunctionOnSet(w, T) \in Nat
  BY <1>1, SumNat
<1> QED
  BY <1>2 DEF Amount, w

(* One order less.                                                         *)
LEMMA AmountDrop ==
  ASSUME NEW s, NEW T \in SUBSET Rests, IsFiniteSet(T), NEW x \in T
  PROVE  Amount(s, T \ {x}) = Amount(s, T) - AmountOf(s, x)
<1> DEFINE U == T \ {x}
           w == [y \in T |-> AmountOf(s, y)]
           v == [y \in U |-> AmountOf(s, y)]
<1>1. /\ \A y \in T : w[y] \in Int
      /\ \A y \in U : w[y] = v[y]
      /\ w[x] = AmountOf(s, x) /\ w[x] \in Int
  BY AmountOfNat
<1>2. IsFiniteSet(U)
  BY FS_RemoveElement
<1>3. SumFunctionOnSet(v, U) = Amount(s, U)
  BY DEF Amount
<1>4. SumFunctionOnSet(w, T) = Amount(s, T)
  BY DEF Amount
<1> HIDE DEF w, v
<1>5. SumFunctionOnSet(w, T) = w[x] + SumFunctionOnSet(w, U)
  BY <1>1, SumTake
<1>6. SumFunctionOnSet(w, U) = SumFunctionOnSet(v, U)
  BY <1>1, <1>2, SumAgree
<1>7. SumFunctionOnSet(w, U) \in Int
  BY <1>1, <1>2, SumInt
<1> QED
  BY <1>1, <1>3, <1>4, <1>5, <1>6, <1>7

(* A user has finitely many resting orders.                                *)
LEMMA OwnedFinite ==
  ASSUME NEW R \in Stocks, NEW s \in BP!Sides, NEW u
  PROVE  OwnedBy(R[s], u) \in SUBSET Rests /\ IsFiniteSet(OwnedBy(R[s], u))
<1>1. R[s] \in SUBSET Rests /\ IsFiniteSet(R[s])
  BY DEF Stocks
<1>2. OwnedBy(R[s], u) \subseteq R[s]
  BY DEF OwnedBy
<1> QED
  BY <1>1, <1>2, FS_Subset

(* Needs are naturals.                                                     *)
LEMMA NeedNat ==
  ASSUME NEW R \in Stocks
  PROVE  NeedOf(R) \in Amounts
<1>1. ASSUME NEW u \in Users, NEW a \in Assets
      PROVE  Amount(SideOf(a), OwnedBy(R[SideOf(a)], u)) \in Nat
  BY OwnedFinite, SidesAre, AmountNat
<1> QED
  BY <1>1 DEF NeedOf, Amounts

(* One order less.                                                         *)
Less(R, R2, s0, x) ==
  /\ R \in Stocks /\ R2 \in Stocks /\ x \in R[s0]
  /\ R2[s0] = R[s0] \ {x}
  /\ \A s \in BP!Sides : s # s0 => R2[s] = R[s]

(* An order less: its user needs that much less, nobody else anything.     *)
LEMMA NeedDrop ==
  ASSUME NEW R, NEW R2, NEW s0 \in BP!Sides, NEW x, Less(R, R2, s0, x)
  PROVE  /\ x \in Rests /\ AmountOf(s0, x) \in Nat
         /\ NeedOf(R) \in Amounts /\ NeedOf(R2) \in Amounts
         /\ x.order.user_id \in Users /\ reserved_asset(s0) \in Assets
         /\ NeedOf(R)[x.order.user_id][reserved_asset(s0)]
              = NeedOf(R2)[x.order.user_id][reserved_asset(s0)] + AmountOf(s0, x)
         /\ \A v \in Users, a \in Assets :
              v # x.order.user_id \/ a # reserved_asset(s0) =>
                NeedOf(R2)[v][a] = NeedOf(R)[v][a]
<1>1. /\ R \in Stocks /\ R2 \in Stocks /\ x \in R[s0]
      /\ R[s0] \in SUBSET Rests /\ IsFiniteSet(R[s0])
  BY DEF Stocks, Less
<1>2. NeedOf(R) \in Amounts /\ NeedOf(R2) \in Amounts
  BY <1>1, NeedNat
<1>3. /\ R2[s0] = R[s0] \ {x} /\ \A s \in BP!Sides : s # s0 => R2[s] = R[s]
  BY DEF Less
<1>5. /\ x \in Rests /\ x.order.user_id \in Users
      /\ reserved_asset(s0) \in Assets /\ SideOf(reserved_asset(s0)) = s0
  BY <1>1, SidesAre DEF Rests, BP!Order
<1>8. AmountOf(s0, x) \in Nat
  BY <1>5, AmountOfNat
<1>6. NeedOf(R)[x.order.user_id][reserved_asset(s0)]
        = NeedOf(R2)[x.order.user_id][reserved_asset(s0)] + AmountOf(s0, x)
  <2> DEFINE T == OwnedBy(R[s0], x.order.user_id)
  <2>1. T \in SUBSET Rests /\ IsFiniteSet(T) /\ x \in T
    <3>1. T \in SUBSET Rests /\ IsFiniteSet(T)
      BY <1>1, OwnedFinite
    <3> QED
      BY <1>1, <3>1 DEF OwnedBy
  <2>2. OwnedBy(R2[s0], x.order.user_id) = T \ {x}
    BY <1>3 DEF OwnedBy
  <2> HIDE DEF T
  <2>3. Amount(s0, T \ {x}) = Amount(s0, T) - AmountOf(s0, x)
    BY <2>1, AmountDrop
  <2>4. /\ NeedOf(R2)[x.order.user_id][reserved_asset(s0)] = Amount(s0, T \ {x})
        /\ NeedOf(R)[x.order.user_id][reserved_asset(s0)] = Amount(s0, T)
    BY <1>5, <2>2 DEF NeedOf, T
  <2>5. Amount(s0, T) \in Nat
    BY <2>1, AmountNat
  <2> QED
    BY <1>8, <2>3, <2>4, <2>5
<1>7. ASSUME NEW v \in Users, NEW a \in Assets,
             v # x.order.user_id \/ a # reserved_asset(s0)
      PROVE  NeedOf(R2)[v][a] = NeedOf(R)[v][a]
  <2>1. OwnedBy(R2[SideOf(a)], v) = OwnedBy(R[SideOf(a)], v)
    <3>1. CASE SideOf(a) = s0
      <4>1. v # x.order.user_id
        BY <1>7, <3>1, SidesAre
      <4> QED
        BY <1>3, <3>1, <4>1 DEF OwnedBy
    <3>2. CASE SideOf(a) # s0
      BY <1>3, <3>2, SidesAre
    <3> QED
      BY <3>1, <3>2
  <2> QED
    BY <2>1 DEF NeedOf
<1> QED
  BY <1>2, <1>5, <1>6, <1>7, <1>8

(* Every order rests with a size of the market to start from.              *)
SizesKnown(R) == \A s \in BP!Sides : \A x \in R[s] : x.order.original_size \in Sizes

(* The sizes known with an order less, and with it.                        *)
LEMMA SizesLess ==
  ASSUME NEW R, NEW R2, NEW s0 \in BP!Sides, NEW x, Less(R, R2, s0, x)
  PROVE  /\ SizesKnown(R) => SizesKnown(R2) /\ x.order.original_size \in Sizes
         /\ SizesKnown(R2) /\ x.order.original_size \in Sizes => SizesKnown(R)
<1>1. /\ x \in R[s0] /\ R2[s0] = R[s0] \ {x}
      /\ \A s \in BP!Sides : s # s0 => R2[s] = R[s]
  BY DEF Less
<1> QED
  BY <1>1 DEF SizesKnown

-----------------------------------------------------------------------------
(* The stock of a book, and what the steps of the book do to it.           *)

(* What rests is an order in a queue with the price of the queue.          *)
LEMMA InRest ==
  ASSUME NEW b, NEW s, NEW x
  PROVE  x \in RestSet(b, s) <=>
           \E p \in Prices : \E i \in 1 .. Len(b[s][p]) :
             x = [price |-> p, order |-> b[s][p][i]]
  BY DEF RestSet

(* The stock of a book is finite.                                          *)
LEMMA StockTyped ==
  ASSUME NEW b \in [BP!Sides -> [Prices -> Seq(BP!Order)]]
  PROVE  Stock(b) \in Stocks
<1> SUFFICES ASSUME NEW s \in BP!Sides
             PROVE  RestSet(b, s) \in SUBSET Rests /\ IsFiniteSet(RestSet(b, s))
  BY DEF Stock, Stocks
<1> DEFINE f == [p \in Prices |->
                   {[price |-> p, order |-> b[s][p][i]] : i \in 1 .. Len(b[s][p])}]
<1>1. ASSUME NEW p \in Prices
      PROVE  f[p] \in SUBSET Rests /\ IsFiniteSet(f[p])
  <2>1. b[s][p] \in Seq(BP!Order) /\ Len(b[s][p]) \in Nat
    OBVIOUS
  <2>2. \A i \in 1 .. Len(b[s][p]) : b[s][p][i] \in BP!Order
    BY <2>1
  <2> DEFINE I == 1 .. Len(b[s][p])
             g == [i \in I |-> [price |-> p, order |-> b[s][p][i]]]
  <2>3. IsFiniteSet(I)
    BY <2>1, FS_Interval, 1 \in Int, Len(b[s][p]) \in Int
  <2>4. f[p] = {g[i] : i \in I} /\ DOMAIN g = I
    OBVIOUS
  <2>5. f[p] \in SUBSET Rests
    BY <2>2 DEF Rests
  <2>6. IsFiniteSet({g[i] : i \in I})
    <3> HIDE DEF g, I
    <3> QED
      BY <2>3, <2>4, ImageFinite
  <2> QED
    BY <2>4, <2>5, <2>6
<1>2. RestSet(b, s) = UNION {f[p] : p \in Prices} /\ DOMAIN f = Prices
  BY DEF RestSet
<1>3. IsFiniteSet(Prices)
  <2>1. Prices \in SUBSET Nat /\ U64MAX \in Nat /\ \A p \in Prices : p <= U64MAX
    BY MarketAssumption
  <2> QED
    BY <2>1, FS_BoundedSetOfNaturals
<1>5. FiniteParts(f, Prices, Rests)
  BY <1>1 DEF FiniteParts
<1> HIDE DEF f
<1>4. /\ UNION {f[p] : p \in Prices} \in SUBSET Rests
      /\ IsFiniteSet(UNION {f[p] : p \in Prices})
  BY <1>2, <1>3, <1>5, UnionFinite
<1> QED
  BY <1>2, <1>4

(* What needs to be known of the book of the exchange.                     *)
LEMMA StockNow ==
  ASSUME BP!Totals
  PROVE  /\ book \in [BP!Sides -> [Prices -> Seq(BP!Order)]]
         /\ Stock(book) \in Stocks /\ NeedOf(Stock(book)) \in Amounts
<1>1. book \in [BP!Sides -> [Prices -> Seq(BP!Order)]]
  BY DEF BP!Totals, BP!IInv, BP!TypeOK
<1> QED
  BY <1>1, StockTyped, NeedNat

(* Equal queues hold equal orders.                                         *)
LEMMA SameRest ==
  ASSUME NEW b, NEW b2, NEW s, \A p \in Prices : b2[s][p] = b[s][p]
  PROVE  RestSet(b2, s) = RestSet(b, s)
<1>1. ASSUME NEW x PROVE x \in RestSet(b2, s) <=> x \in RestSet(b, s)
  <2>1. x \in RestSet(b2, s) <=>
          \E p \in Prices : \E i \in 1 .. Len(b2[s][p]) :
            x = [price |-> p, order |-> b2[s][p][i]]
    BY InRest
  <2>2. x \in RestSet(b, s) <=>
          \E p \in Prices : \E i \in 1 .. Len(b[s][p]) :
            x = [price |-> p, order |-> b[s][p][i]]
    BY InRest
  <2> QED
    BY <2>1, <2>2
<1> QED
  BY <1>1

(* A queue loses an order.                                                *)
LEMMA StockThinner ==
  ASSUME NEW b \in [BP!Sides -> [Prices -> Seq(BP!Order)]], BP!Distinct(b),
         NEW b2 \in [BP!Sides -> [Prices -> Seq(BP!Order)]],
         NEW s0 \in BP!Sides, NEW p0 \in Prices, NEW i0 \in 1 .. Len(b[s0][p0]),
         BP!Thinner(b, b2, s0, p0, i0)
  PROVE  Less(Stock(b), Stock(b2), s0, [price |-> p0, order |-> b[s0][p0][i0]])
<1> DEFINE x0 == [price |-> p0, order |-> b[s0][p0][i0]]
<1>2. Stock(b) \in Stocks /\ Stock(b2) \in Stocks
  BY StockTyped
<1>3. x0 \in RestSet(b, s0)
  BY InRest
<1>4. ASSUME NEW x \in RestSet(b2, s0)
      PROVE  x \in RestSet(b, s0) \ {x0}
  <2>1. PICK p \in Prices : \E i \in 1 .. Len(b2[s0][p]) :
          x = [price |-> p, order |-> b2[s0][p][i]]
    BY InRest
  <2>2. PICK i \in 1 .. Len(b2[s0][p]) : x = [price |-> p, order |-> b2[s0][p][i]]
    BY <2>1
  <2>3. CASE p # p0
    <3>1. b2[s0][p] = b[s0][p]
      BY <2>3 DEF BP!Thinner
    <3> QED
      BY <2>2, <2>3, <3>1, InRest
  <2>4. CASE p = p0
    <3>1. PICK j \in 1 .. Len(b[s0][p0]) : b2[s0][p0][i] = b[s0][p0][j] /\ j # i0
      BY <2>4 DEF BP!Thinner
    <3>2. x = [price |-> p0, order |-> b[s0][p0][j]]
      BY <2>2, <2>4, <3>1
    <3>3. x \in RestSet(b, s0)
      BY <3>2, InRest
    <3>4. b[s0][p0][j] # b[s0][p0][i0]
      BY <3>1 DEF BP!Distinct
    <3> QED
      BY <3>2, <3>3, <3>4
  <2> QED
    BY <2>3, <2>4
<1>5. ASSUME NEW x \in RestSet(b, s0) \ {x0}
      PROVE  x \in RestSet(b2, s0)
  <2>1. PICK p \in Prices : \E j \in 1 .. Len(b[s0][p]) :
          x = [price |-> p, order |-> b[s0][p][j]]
    BY InRest
  <2>2. PICK j \in 1 .. Len(b[s0][p]) : x = [price |-> p, order |-> b[s0][p][j]]
    BY <2>1
  <2>3. CASE p # p0
    <3>1. b2[s0][p] = b[s0][p]
      BY <2>3 DEF BP!Thinner
    <3> QED
      BY <2>2, <3>1, InRest
  <2>4. CASE p = p0
    <3>1. j # i0
      BY <2>2, <2>4
    <3>2. PICK i \in 1 .. Len(b2[s0][p0]) : b2[s0][p0][i] = b[s0][p0][j]
      BY <2>4, <3>1 DEF BP!Thinner
    <3> QED
      BY <2>2, <2>4, <3>2, InRest
  <2> QED
    BY <2>3, <2>4
<1>6. ASSUME NEW s \in BP!Sides, s # s0
      PROVE  RestSet(b2, s) = RestSet(b, s)
  <2>1. \A p \in Prices : b2[s][p] = b[s][p]
    BY <1>6 DEF BP!Thinner
  <2> QED
    BY <2>1, SameRest
<1>7. RestSet(b2, s0) = RestSet(b, s0) \ {x0}
  BY <1>4, <1>5
<1> HIDE DEF x0
<1>8. Less(Stock(b), Stock(b2), s0, x0)
  BY <1>2, <1>3, <1>6, <1>7 DEF Less, Stock
<1> QED
  BY <1>8 DEF x0

(* An order changes its size.                                              *)
LEMMA StockChanged ==
  ASSUME NEW b \in [BP!Sides -> [Prices -> Seq(BP!Order)]], BP!Distinct(b),
         NEW b2 \in [BP!Sides -> [Prices -> Seq(BP!Order)]], BP!Distinct(b2),
         NEW s0 \in BP!Sides, NEW p0 \in Prices, NEW i0 \in 1 .. Len(b[s0][p0]),
         NEW o, BP!Changed(b, b2, s0, p0, i0, o)
  PROVE  \E R : /\ Less(Stock(b), R, s0, [price |-> p0, order |-> b[s0][p0][i0]])
                /\ Less(Stock(b2), R, s0, [price |-> p0, order |-> o])
<1> DEFINE x0 == [price |-> p0, order |-> b[s0][p0][i0]]
           y0 == [price |-> p0, order |-> o]
           R == [Stock(b) EXCEPT ![s0] = @ \ {x0}]
<1>1. Stock(b) \in Stocks /\ Stock(b2) \in Stocks
  BY StockTyped
<1>2. /\ \A s \in BP!Sides, p \in Prices : s # s0 \/ p # p0 => b2[s][p] = b[s][p]
      /\ Len(b2[s0][p0]) = Len(b[s0][p0])
      /\ \A i \in 1 .. Len(b[s0][p0]) : i # i0 => b2[s0][p0][i] = b[s0][p0][i]
      /\ b2[s0][p0][i0] = o
  BY DEF BP!Changed
<1>3. x0 \in RestSet(b, s0)
  BY InRest
<1>4. y0 \in RestSet(b2, s0)
  BY <1>2, InRest
<1>5. ASSUME NEW c, NEW d, c \in [BP!Sides -> [Prices -> Seq(BP!Order)]],
             BP!Distinct(c), i0 \in 1 .. Len(c[s0][p0]),
             Len(d[s0][p0]) = Len(c[s0][p0]),
             \A s \in BP!Sides, p \in Prices : s # s0 \/ p # p0 => d[s][p] = c[s][p],
             \A i \in 1 .. Len(c[s0][p0]) : i # i0 => d[s0][p0][i] = c[s0][p0][i],
             NEW x \in RestSet(c, s0) \ {[price |-> p0, order |-> c[s0][p0][i0]]},
             BP!Distinct(d)
      PROVE  x \in RestSet(d, s0) \ {[price |-> p0, order |-> d[s0][p0][i0]]}
  <2>1. PICK p \in Prices : \E i \in 1 .. Len(c[s0][p]) :
          x = [price |-> p, order |-> c[s0][p][i]]
    BY InRest
  <2>2. PICK i \in 1 .. Len(c[s0][p]) : x = [price |-> p, order |-> c[s0][p][i]]
    BY <2>1
  <2>3. CASE p # p0
    <3>1. d[s0][p] = c[s0][p]
      BY <1>5, <2>3
    <3> QED
      BY <2>2, <2>3, <3>1, InRest
  <2>4. CASE p = p0
    <3>1. i # i0
      BY <2>2, <2>4
    <3>2. d[s0][p0][i] = c[s0][p0][i] /\ i \in 1 .. Len(d[s0][p0])
      BY <1>5, <2>4, <3>1
    <3>3. x = [price |-> p0, order |-> d[s0][p0][i]]
      BY <2>2, <2>4, <3>2
    <3>4. x \in RestSet(d, s0)
      BY <3>2, <3>3, InRest
    <3>5. i0 \in 1 .. Len(d[s0][p0])
      BY <1>5
    <3>6. d[s0][p0][i] # d[s0][p0][i0]
      BY <1>5, <3>1, <3>2, <3>5 DEF BP!Distinct
    <3> QED
      BY <3>3, <3>4, <3>6
  <2> QED
    BY <2>3, <2>4
<1>6. RestSet(b, s0) \ {x0} = RestSet(b2, s0) \ {y0}
  <2>1. ASSUME NEW x \in RestSet(b, s0) \ {x0}
        PROVE  x \in RestSet(b2, s0) \ {y0}
    BY <1>2, <1>5
  <2>2. ASSUME NEW x \in RestSet(b2, s0) \ {y0}
        PROVE  x \in RestSet(b, s0) \ {x0}
    <3>1. /\ i0 \in 1 .. Len(b2[s0][p0]) /\ Len(b[s0][p0]) = Len(b2[s0][p0])
          /\ \A s \in BP!Sides, p \in Prices : s # s0 \/ p # p0 => b[s][p] = b2[s][p]
          /\ \A i \in 1 .. Len(b2[s0][p0]) : i # i0 => b[s0][p0][i] = b2[s0][p0][i]
      BY <1>2
    <3> QED
      BY <1>2, <1>5, <3>1
  <2> QED
    BY <2>1, <2>2
<1>7. ASSUME NEW s \in BP!Sides, s # s0
      PROVE  RestSet(b2, s) = RestSet(b, s)
  <2>1. \A p \in Prices : b2[s][p] = b[s][p]
    BY <1>2, <1>7
  <2> QED
    BY <2>1, SameRest
<1>8. Stock(b)[s0] = RestSet(b, s0) /\ Stock(b2)[s0] = RestSet(b2, s0)
  BY DEF Stock
<1>9. IsFiniteSet(Stock(b)[s0] \ {x0})
  <2>1. IsFiniteSet(Stock(b)[s0])
    BY <1>1 DEF Stocks
  <2> QED
    BY <2>1, FS_RemoveElement
<1>10. R \in Stocks
  BY <1>1, <1>9 DEF Stocks
<1>11. /\ R[s0] = Stock(b)[s0] \ {x0}
       /\ \A s \in BP!Sides : s # s0 => R[s] = Stock(b)[s]
  BY <1>1 DEF Stocks
<1>12. \A s \in BP!Sides : s # s0 => Stock(b2)[s] = Stock(b)[s]
  BY <1>7 DEF Stock
<1> HIDE DEF R, x0, y0
<1>13. Less(Stock(b), R, s0, x0) /\ Less(Stock(b2), R, s0, y0)
  BY <1>1, <1>3, <1>4, <1>6, <1>8, <1>10, <1>11, <1>12 DEF Less
<1> QED
  BY <1>13 DEF x0, y0

(* An order comes to rest.                                                 *)
LEMMA StockLonger ==
  ASSUME NEW b \in [BP!Sides -> [Prices -> Seq(BP!Order)]],
         NEW b2, NEW s0, NEW p0, NEW o, BP!Longer(b, b2, s0, p0, o)
  PROVE  Less(Stock(b2), Stock(b), s0, [price |-> p0, order |-> o])
<1> DEFINE y0 == [price |-> p0, order |-> o]
<1>1. /\ s0 \in BP!Sides /\ p0 \in Prices /\ o \in BP!Order
      /\ b2 \in [BP!Sides -> [Prices -> Seq(BP!Order)]]
      /\ \A s \in BP!Sides, p \in Prices : s # s0 \/ p # p0 => b2[s][p] = b[s][p]
      /\ b2[s0][p0] = Append(b[s0][p0], o)
      /\ \A s \in BP!Sides, p \in Prices : \A i \in 1 .. Len(b[s][p]) : b[s][p][i] # o
  BY DEF BP!Longer
<1>2. Stock(b) \in Stocks /\ Stock(b2) \in Stocks
  BY <1>1, StockTyped
<1>3. b[s0][p0] \in Seq(BP!Order) /\ Len(b[s0][p0]) \in Nat
  BY <1>1
<1>4. PICK k \in Nat : k = Len(b[s0][p0])
  BY <1>3
<1>5. /\ Len(b2[s0][p0]) = k + 1 /\ b2[s0][p0][k + 1] = o
      /\ \A i \in 1 .. k : b2[s0][p0][i] = b[s0][p0][i]
  BY <1>1, <1>3, <1>4
<1>6. y0 \in RestSet(b2, s0)
  <2>1. k + 1 \in 1 .. Len(b2[s0][p0])
    BY <1>5
  <2> QED
    BY <1>1, <1>5, <2>1, InRest
<1>7. ASSUME NEW x \in RestSet(b, s0)
      PROVE  x \in RestSet(b2, s0) \ {y0}
  <2>1. PICK p \in Prices : \E i \in 1 .. Len(b[s0][p]) :
          x = [price |-> p, order |-> b[s0][p][i]]
    BY InRest
  <2>2. PICK i \in 1 .. Len(b[s0][p]) : x = [price |-> p, order |-> b[s0][p][i]]
    BY <2>1
  <2>3. x # y0
    BY <1>1, <2>2
  <2>4. i \in 1 .. Len(b2[s0][p]) /\ b2[s0][p][i] = b[s0][p][i]
    <3>1. CASE p # p0
      BY <1>1, <3>1
    <3>2. CASE p = p0
      <4>1. i \in 1 .. k
        BY <1>4, <3>2
      <4> QED
        BY <1>5, <3>2, <4>1
    <3> QED
      BY <3>1, <3>2
  <2>5. x = [price |-> p, order |-> b2[s0][p][i]]
    BY <2>2, <2>4
  <2> QED
    BY <2>3, <2>4, <2>5, InRest
<1>8. ASSUME NEW x \in RestSet(b2, s0) \ {y0}
      PROVE  x \in RestSet(b, s0)
  <2>1. PICK p \in Prices : \E i \in 1 .. Len(b2[s0][p]) :
          x = [price |-> p, order |-> b2[s0][p][i]]
    BY InRest
  <2>2. PICK i \in 1 .. Len(b2[s0][p]) : x = [price |-> p, order |-> b2[s0][p][i]]
    BY <2>1
  <2>3. CASE p # p0
    <3>1. b2[s0][p] = b[s0][p]
      BY <1>1, <2>3
    <3> QED
      BY <2>2, <3>1, InRest
  <2>4. CASE p = p0
    <3>1. i \in 1 .. k + 1
      BY <1>5, <2>4
    <3>2. i # k + 1
      BY <1>5, <2>2, <2>4
    <3>3. i \in 1 .. k
      BY <3>1, <3>2
    <3>4. x = [price |-> p0, order |-> b[s0][p0][i]] /\ i \in 1 .. Len(b[s0][p0])
      BY <1>4, <1>5, <2>2, <2>4, <3>3
    <3> QED
      BY <1>1, <3>4, InRest
  <2> QED
    BY <2>3, <2>4
<1>9. RestSet(b, s0) = RestSet(b2, s0) \ {y0}
  BY <1>7, <1>8
<1>10. ASSUME NEW s \in BP!Sides, s # s0
       PROVE  RestSet(b, s) = RestSet(b2, s)
  <2>1. \A p \in Prices : b[s][p] = b2[s][p]
    BY <1>1, <1>10
  <2> QED
    BY <2>1, SameRest
<1> HIDE DEF y0
<1>11. Less(Stock(b2), Stock(b), s0, y0)
  BY <1>1, <1>2, <1>6, <1>9, <1>10 DEF Less, Stock
<1> QED
  BY <1>11 DEF y0

-----------------------------------------------------------------------------
(* What the orders in the book need, and how the steps of the book change  *)
(* it.                                                                     *)

Need == NeedOf(Stock(book))

BookSound ==
  /\ book \in [BP!Sides -> [Prices -> Seq(BP!Order)]]
  /\ BP!Distinct(book) /\ Stock(book) \in Stocks /\ Need \in Amounts

(* The invariant of the book, as the needs use it.                         *)
LEMMA BookIsSound == BP!Totals => BookSound
<1> SUFFICES ASSUME BP!Totals PROVE BookSound
  OBVIOUS
<1>1. BP!IInv
  BY DEF BP!Totals
<1>2. BP!Distinct(book)
  BY <1>1, BP!NothingTwice, BookAssumes
<1> QED
  BY <1>2, StockNow DEF Need, BookSound

(* And after a step.                                                       *)
LEMMA BookStaysSound == BP!Totals' => BookSound'
  BY BookIsSound, PTL

(* The same, spelled out.                                                  *)
LEMMA BookNow ==
  ASSUME BP!Totals
  PROVE  /\ book \in [BP!Sides -> [Prices -> Seq(BP!Order)]]
         /\ BP!Distinct(book) /\ Stock(book) \in Stocks /\ Need \in Amounts
  BY BookIsSound DEF BookSound

(* An order is removed.                                                    *)
LEMMA StockRemoved ==
  ASSUME BP!Totals, NEW s0 \in BP!Sides, NEW p0 \in Prices,
         NEW i0 \in 1 .. Len(book[s0][p0]), BP!Removal(s0, p0, i0)
  PROVE  Less(Stock(book), Stock(book'), s0,
              [price |-> p0, order |-> book[s0][p0][i0]])
<1>1. BP!IInv
  BY DEF BP!Totals
<1>2. BP!Thinner(book, book', s0, p0, i0)
  BY <1>1, BP!RemovalThins, BookAssumes
<1>3. book' \in [BP!Sides -> [Prices -> Seq(BP!Order)]]
  BY <1>2 DEF BP!Thinner
<1>4. PICK b : b = book /\ b \in [BP!Sides -> [Prices -> Seq(BP!Order)]]
                /\ BP!Distinct(b)
  BY BookNow
<1>5. PICK b2 : b2 = book' /\ b2 \in [BP!Sides -> [Prices -> Seq(BP!Order)]]
  BY <1>3
<1>6. BP!Thinner(b, b2, s0, p0, i0) /\ i0 \in 1 .. Len(b[s0][p0])
  BY <1>2, <1>4, <1>5
<1>7. Less(Stock(b), Stock(b2), s0, [price |-> p0, order |-> b[s0][p0][i0]])
  BY <1>4, <1>5, <1>6, StockThinner
<1> QED
  BY <1>4, <1>5, <1>7

(* An order is removed: what it needed is needed no longer.                *)
LEMMA RemovedNeed ==
  ASSUME BP!Totals, NEW s0 \in BP!Sides, NEW p0 \in Prices,
         NEW i0 \in 1 .. Len(book[s0][p0]), BP!Removal(s0, p0, i0),
         NEW o, o = book[s0][p0][i0]
  PROVE  /\ Need \in Amounts /\ Need' \in Amounts
         /\ o.user_id \in Users /\ reserved_asset(s0) \in Assets
         /\ reserved_amount(s0, p0, o.size) \in Nat
         /\ Need[o.user_id][reserved_asset(s0)]
              = Need'[o.user_id][reserved_asset(s0)] + reserved_amount(s0, p0, o.size)
         /\ \A v \in Users, a \in Assets :
              v # o.user_id \/ a # reserved_asset(s0) => Need'[v][a] = Need[v][a]
         /\ SizesKnown(Stock(book)) =>
              SizesKnown(Stock(book')) /\ o.original_size \in Sizes
<1>1. PICK x : x = [price |-> p0, order |-> o]
  OBVIOUS
<1>2. Less(Stock(book), Stock(book'), s0, x)
  BY <1>1, StockRemoved
<1>3. x.order = o /\ AmountOf(s0, x) = reserved_amount(s0, p0, o.size)
  BY <1>1 DEF AmountOf
<1>4. SizesKnown(Stock(book)) => SizesKnown(Stock(book')) /\ o.original_size \in Sizes
  BY <1>2, <1>3, SizesLess
<1> QED
  BY <1>2, <1>3, <1>4, NeedDrop DEF Need

(* An order shrinks.                                                       *)
LEMMA ResizedNeed ==
  ASSUME BP!Totals, BP!Totals', NEW s0 \in BP!Sides, NEW p0 \in Prices,
         NEW i0 \in 1 .. Len(book[s0][p0]), NEW left \in Nat \ {0},
         BP!Resize(s0, p0, i0, left), NEW o, o = book[s0][p0][i0]
  PROVE  /\ Need \in Amounts /\ Need' \in Amounts
         /\ o.user_id \in Users /\ reserved_asset(s0) \in Assets
         /\ reserved_amount(s0, p0, o.size) \in Nat
         /\ reserved_amount(s0, p0, left) \in Nat
         /\ Need[o.user_id][reserved_asset(s0)] + reserved_amount(s0, p0, left)
              = Need'[o.user_id][reserved_asset(s0)] + reserved_amount(s0, p0, o.size)
         /\ \A v \in Users, a \in Assets :
              v # o.user_id \/ a # reserved_asset(s0) => Need'[v][a] = Need[v][a]
         /\ SizesKnown(Stock(book)) =>
              SizesKnown(Stock(book')) /\ o.original_size \in Sizes
<1>1. BP!IInv
  BY DEF BP!Totals
<1>2. PICK o2 : o2 = [o EXCEPT !.size = left]
  OBVIOUS
<1>3. BP!Changed(book, book', s0, p0, i0, o2)
  BY <1>1, <1>2, BP!ResizeChanges, BookAssumes
<1>4. PICK b : b = book /\ b \in [BP!Sides -> [Prices -> Seq(BP!Order)]]
                /\ BP!Distinct(b)
  BY BookNow
<1>5. /\ BP!Distinct(book') /\ book' \in [BP!Sides -> [Prices -> Seq(BP!Order)]]
      /\ Need' \in Amounts
  BY BookStaysSound DEF BookSound
<1>6. PICK b2 : b2 = book' /\ b2 \in [BP!Sides -> [Prices -> Seq(BP!Order)]]
                 /\ BP!Distinct(b2)
  BY <1>5
<1>7. BP!Changed(b, b2, s0, p0, i0, o2) /\ i0 \in 1 .. Len(b[s0][p0])
  BY <1>3, <1>4, <1>6
<1>8. PICK R : /\ Less(Stock(b), R, s0, [price |-> p0, order |-> b[s0][p0][i0]])
               /\ Less(Stock(b2), R, s0, [price |-> p0, order |-> o2])
  BY <1>4, <1>6, <1>7, StockChanged
<1>9. PICK x, y : x = [price |-> p0, order |-> o] /\ y = [price |-> p0, order |-> o2]
  OBVIOUS
<1>10. Less(Stock(b), R, s0, x) /\ Less(Stock(b2), R, s0, y)
  BY <1>4, <1>8, <1>9
<1>11. /\ x.order = o /\ y.order = o2 /\ o2.user_id = o.user_id /\ o2.size = left
       /\ AmountOf(s0, x) = reserved_amount(s0, p0, o.size)
       /\ AmountOf(s0, y) = reserved_amount(s0, p0, left)
  <2>1. o \in BP!Order
    BY <1>4
  <2>2. o2.user_id = o.user_id /\ o2.size = left
    BY <1>2, <2>1 DEF BP!Order
  <2> QED
    BY <1>9, <2>2 DEF AmountOf
<1>12. PICK u, a : u = o.user_id /\ a = reserved_asset(s0)
  OBVIOUS
<1>13. /\ NeedOf(Stock(b)) \in Amounts /\ NeedOf(R) \in Amounts
       /\ AmountOf(s0, x) \in Nat /\ u \in Users /\ a \in Assets
       /\ NeedOf(Stock(b))[u][a] = NeedOf(R)[u][a] + AmountOf(s0, x)
       /\ \A v \in Users, c \in Assets :
            v # u \/ c # a => NeedOf(R)[v][c] = NeedOf(Stock(b))[v][c]
  <2>1. PICK S : S = Stock(b)
    OBVIOUS
  <2>2. s0 \in BP!Sides /\ Less(S, R, s0, x)
    BY <1>10, <2>1
  <2>3. /\ NeedOf(R) \in Amounts /\ NeedOf(S) \in Amounts
        /\ AmountOf(s0, x) \in Nat /\ x.order.user_id \in Users
        /\ reserved_asset(s0) \in Assets
        /\ NeedOf(S)[x.order.user_id][reserved_asset(s0)]
             = NeedOf(R)[x.order.user_id][reserved_asset(s0)] + AmountOf(s0, x)
        /\ \A v \in Users, c \in Assets :
             v # x.order.user_id \/ c # reserved_asset(s0) =>
               NeedOf(R)[v][c] = NeedOf(S)[v][c]
    BY ONLY <2>2, NeedDrop
  <2>4. x.order.user_id = u /\ reserved_asset(s0) = a
    BY <1>11, <1>12
  <2> QED
    BY ONLY <2>1, <2>3, <2>4
<1>14. /\ NeedOf(Stock(b2)) \in Amounts /\ AmountOf(s0, y) \in Nat
       /\ NeedOf(Stock(b2))[u][a] = NeedOf(R)[u][a] + AmountOf(s0, y)
       /\ \A v \in Users, c \in Assets :
            v # u \/ c # a => NeedOf(R)[v][c] = NeedOf(Stock(b2))[v][c]
  <2>1. PICK S : S = Stock(b2)
    OBVIOUS
  <2>2. s0 \in BP!Sides /\ Less(S, R, s0, y)
    BY <1>10, <2>1
  <2>3. /\ NeedOf(R) \in Amounts /\ NeedOf(S) \in Amounts
        /\ AmountOf(s0, y) \in Nat /\ y.order.user_id \in Users
        /\ reserved_asset(s0) \in Assets
        /\ NeedOf(S)[y.order.user_id][reserved_asset(s0)]
             = NeedOf(R)[y.order.user_id][reserved_asset(s0)] + AmountOf(s0, y)
        /\ \A v \in Users, c \in Assets :
             v # y.order.user_id \/ c # reserved_asset(s0) =>
               NeedOf(R)[v][c] = NeedOf(S)[v][c]
    BY ONLY <2>2, NeedDrop
  <2>4. y.order.user_id = u /\ reserved_asset(s0) = a
    BY <1>11, <1>12
  <2> QED
    BY ONLY <2>1, <2>3, <2>4
<1>15. Need = NeedOf(Stock(b)) /\ Need' = NeedOf(Stock(b2))
  BY <1>4, <1>6 DEF Need
<1>16. NeedOf(R)[u][a] \in Nat
  BY <1>13 DEF Amounts
<1>17. Need[u][a] + AmountOf(s0, y) = Need'[u][a] + AmountOf(s0, x)
  BY <1>13, <1>14, <1>15, <1>16
<1>18. o2.original_size = o.original_size
  <2>1. o \in BP!Order
    BY <1>4
  <2> QED
    BY <1>2, <2>1 DEF BP!Order
<1>19. SizesKnown(Stock(b)) => SizesKnown(Stock(b2)) /\ o.original_size \in Sizes
  <2>1. PICK S, S2 : S = Stock(b) /\ S2 = Stock(b2)
    OBVIOUS
  <2>2. s0 \in BP!Sides /\ Less(S, R, s0, x) /\ Less(S2, R, s0, y)
    BY <1>10, <2>1
  <2>3. /\ SizesKnown(S) => SizesKnown(R) /\ x.order.original_size \in Sizes
        /\ SizesKnown(R) /\ y.order.original_size \in Sizes => SizesKnown(S2)
    BY ONLY <2>2, SizesLess
  <2> QED
    BY ONLY <1>11, <1>18, <2>1, <2>3
<1>20. /\ AmountOf(s0, x) = reserved_amount(s0, p0, o.size)
       /\ AmountOf(s0, y) = reserved_amount(s0, p0, left)
       /\ u = o.user_id /\ a = reserved_asset(s0)
  BY <1>11, <1>12
<1>21. Stock(book) = Stock(b) /\ Stock(book') = Stock(b2)
  BY <1>4, <1>6
<1>22. \A v \in Users, c \in Assets : v # u \/ c # a => Need'[v][c] = Need[v][c]
  BY ONLY <1>13, <1>14, <1>15
<1> QED
  BY ONLY <1>13, <1>14, <1>15, <1>17, <1>19, <1>20, <1>21, <1>22

(* A trade takes from what the maker needs.                                *)
LEMMA FillNeed ==
  ASSUME BP!Totals, BP!Totals', NEW s, NEW m, NEW trade, NEW left,
         BP!FillFacts(s, m, trade, left)
  PROVE  /\ Need \in Amounts /\ Need' \in Amounts
         /\ m.user_id \in Users /\ reserved_asset(s) \in Assets
         /\ reserved_amount(s, level, m.size) \in Nat
         /\ reserved_amount(s, level, left) \in Nat
         /\ Need[m.user_id][reserved_asset(s)] + reserved_amount(s, level, left)
              = Need'[m.user_id][reserved_asset(s)]
                  + reserved_amount(s, level, m.size)
         /\ \A v \in Users, a \in Assets :
              v # m.user_id \/ a # reserved_asset(s) => Need'[v][a] = Need[v][a]
         /\ SizesKnown(Stock(book)) =>
              SizesKnown(Stock(book')) /\ m.original_size \in Sizes
<1>1. /\ s \in BP!Sides /\ level \in Prices /\ idx \in 1 .. Len(book[s][level])
      /\ m = book[s][level][idx] /\ left \in Nat
      /\ \/ left = 0 /\ BP!Removal(s, level, idx)
         \/ left # 0 /\ BP!Resize(s, level, idx, left)
  BY DEF BP!FillFacts
<1>2. CASE left = 0 /\ BP!Removal(s, level, idx)
  <2>1. reserved_amount(s, level, left) = 0
    <3>1. level \in Nat
      BY <1>1, MarketAssumption
    <3>2. calculate_quote_cost(level, 0) = 0
      <4>1. Fits(level, 0)
        BY <3>1, CostNat, Scales DEF Fits
      <4> QED
        BY <3>1, <4>1, CostNat, CostIsExact
    <3> QED
      BY <1>2, <3>2 DEF reserved_amount
  <2>2. PICK p, i : p = level /\ i = idx
    OBVIOUS
  <2>3. /\ Need \in Amounts /\ Need' \in Amounts
        /\ m.user_id \in Users /\ reserved_asset(s) \in Assets
        /\ reserved_amount(s, p, m.size) \in Nat
        /\ Need[m.user_id][reserved_asset(s)]
             = Need'[m.user_id][reserved_asset(s)] + reserved_amount(s, p, m.size)
        /\ \A v \in Users, a \in Assets :
             v # m.user_id \/ a # reserved_asset(s) => Need'[v][a] = Need[v][a]
        /\ SizesKnown(Stock(book)) =>
             SizesKnown(Stock(book')) /\ m.original_size \in Sizes
    BY <1>1, <1>2, <2>2, RemovedNeed
  <2>4. Need[m.user_id][reserved_asset(s)] \in Nat
    BY <2>3 DEF Amounts
  <2> QED
    BY <2>1, <2>2, <2>3, <2>4
<1>3. CASE left # 0 /\ BP!Resize(s, level, idx, left)
  <2>1. PICK p, i : p = level /\ i = idx
    OBVIOUS
  <2>2. /\ Need \in Amounts /\ Need' \in Amounts
        /\ m.user_id \in Users /\ reserved_asset(s) \in Assets
        /\ reserved_amount(s, p, m.size) \in Nat
        /\ reserved_amount(s, p, left) \in Nat
        /\ Need[m.user_id][reserved_asset(s)] + reserved_amount(s, p, left)
             = Need'[m.user_id][reserved_asset(s)] + reserved_amount(s, p, m.size)
        /\ \A v \in Users, a \in Assets :
             v # m.user_id \/ a # reserved_asset(s) => Need'[v][a] = Need[v][a]
        /\ SizesKnown(Stock(book)) =>
             SizesKnown(Stock(book')) /\ m.original_size \in Sizes
    BY <1>1, <1>3, <2>1, ResizedNeed
  <2> QED
    BY <2>1, <2>2
<1> QED
  BY <1>1, <1>2, <1>3

(* What is left of an order comes to rest.                                 *)
LEMMA RestNeed ==
  ASSUME BP!Totals, BP!Totals', pc = "matching", remaining > 0,
         cmd.time_in_force = "Gtc", BP!add_to_book(remaining)
  PROVE  /\ Need \in Amounts /\ Need' \in Amounts
         /\ cmd.user_id \in Users /\ reserved_asset(cmd.side) \in Assets
         /\ reserved_amount(cmd.side, cmd.price, remaining) \in Nat
         /\ Need'[cmd.user_id][reserved_asset(cmd.side)]
              = Need[cmd.user_id][reserved_asset(cmd.side)]
                  + reserved_amount(cmd.side, cmd.price, remaining)
         /\ \A v \in Users, a \in Assets :
              v # cmd.user_id \/ a # reserved_asset(cmd.side) =>
                Need'[v][a] = Need[v][a]
         /\ SizesKnown(Stock(book)) /\ cmd.size \in Sizes => SizesKnown(Stock(book'))
<1>1. BP!IInv'
  BY DEF BP!Totals
<1>2. PICK o : o = [order_id |-> cmd.order_id, user_id |-> cmd.user_id,
                    side |-> cmd.side, size |-> remaining,
                    original_size |-> cmd.size]
  OBVIOUS
<1>3. BP!Longer(book, book', cmd.side, cmd.price, o)
  BY <1>1, <1>2, BP!RestLengthens, BookAssumes
<1>4. PICK s, p : s = cmd.side /\ p = cmd.price
  OBVIOUS
<1>5. PICK b, b2 : b = book /\ b2 = book' /\ b \in [BP!Sides -> [Prices -> Seq(BP!Order)]]
  BY BookNow
<1>6. BP!Longer(b, b2, s, p, o)
  BY <1>3, <1>4, <1>5
<1>7. PICK y : y = [price |-> p, order |-> o]
  OBVIOUS
<1>8. Less(Stock(b2), Stock(b), s, y) /\ s \in BP!Sides
  <2>1. b \in [BP!Sides -> [Prices -> Seq(BP!Order)]]
    BY <1>5
  <2>2. Less(Stock(b2), Stock(b), s, [price |-> p, order |-> o])
    BY ONLY <2>1, <1>6, StockLonger
  <2>3. s \in BP!Sides
    BY ONLY <1>6 DEF BP!Longer
  <2> QED
    BY ONLY <2>2, <2>3, <1>7
<1>9. /\ y.order = o /\ o.user_id = cmd.user_id
      /\ AmountOf(s, y) = reserved_amount(s, p, remaining)
  BY <1>2, <1>7 DEF AmountOf
<1>10. Need = NeedOf(Stock(b)) /\ Need' = NeedOf(Stock(b2))
  BY <1>5 DEF Need
<1>11. SizesKnown(Stock(b)) /\ cmd.size \in Sizes => SizesKnown(Stock(b2))
  <2>1. y.order.original_size = cmd.size
    BY <1>2, <1>7
  <2> QED
    BY <1>8, <2>1, SizesLess
<1>12. /\ Need \in Amounts /\ Need' \in Amounts
       /\ cmd.user_id \in Users /\ reserved_asset(cmd.side) \in Assets
       /\ reserved_amount(cmd.side, cmd.price, remaining) \in Nat
       /\ Need'[cmd.user_id][reserved_asset(cmd.side)]
            = Need[cmd.user_id][reserved_asset(cmd.side)]
                + reserved_amount(cmd.side, cmd.price, remaining)
       /\ \A v \in Users, a \in Assets :
            v # cmd.user_id \/ a # reserved_asset(cmd.side) =>
              Need'[v][a] = Need[v][a]
  BY <1>4, <1>8, <1>9, <1>10, NeedDrop
<1> QED
  BY <1>5, <1>11, <1>12

(* The amounts the invariants of the exchange speak of.                    *)
LEMMA NeededIsNeed ==
  ASSUME NEW u \in Users, NEW a \in Assets
  PROVE  Needed(u, SideOf(a)) = Need[u][a]
<1> DEFINE s == SideOf(a)
           T == OwnedBy(RestSet(book, s), u)
           w == [x \in T |-> AmountOf(s, x)]
<1>1. Resting(u, s) = T
  <2>1. ASSUME NEW x PROVE x \in Resting(u, s) <=> x \in T
    <3>1. x \in T <=> /\ x.order.user_id = u
                      /\ \E p \in Prices : \E i \in 1 .. Len(book[s][p]) :
                           x = [price |-> p, order |-> book[s][p][i]]
      BY InRest DEF OwnedBy
    <3>2. x \in Resting(u, s) <=>
            \E p \in Prices : \E i \in 1 .. Len(book[s][p]) :
              book[s][p][i].user_id = u /\ x = [price |-> p, order |-> book[s][p][i]]
      BY DEF Resting
    <3> QED
      BY <3>1, <3>2
  <2> QED
    BY <2>1
<1>2. Needed(u, s) = SumFunction(w)
  BY <1>1 DEF Needed, AmountOf
<1>3. SumFunction(w) = Amount(s, T)
  BY DEF SumFunction, Amount
<1>4. Need[u][a] = Amount(s, T)
  <2>1. Stock(book)[s] = RestSet(book, s)
    BY SidesAre DEF Stock
  <2> QED
    BY <2>1 DEF Need, NeedOf
<1> QED
  BY <1>2, <1>3, <1>4

-----------------------------------------------------------------------------
(* The claims of the commands on their way.                                *)

(* A family of sets of claims, one per slot.                               *)
Spread(F) == UNION {F[n] : n \in DOMAIN F}

Slotted(F) == \A n \in DOMAIN F : \A d \in F[n] : d.slot = n

(* Only what slot k holds has changed.                                     *)
OneSlot(F, G, k) ==
  /\ DOMAIN G = DOMAIN F /\ k \in DOMAIN F
  /\ Slotted(F)
  /\ \A n \in DOMAIN F : n # k => G[n] = F[n]

(* Equal families make equal sets.                                         *)
LEMMA SpreadSame ==
  ASSUME NEW D, NEW F, NEW G, DOMAIN F = D, DOMAIN G = D,
         \A n \in D : G[n] = F[n]
  PROVE  Spread(G) = Spread(F)
  BY DEF Spread

(* A claim is in some slot.                                                *)
LEMMA InSpread ==
  ASSUME NEW F, NEW d
  PROVE  d \in Spread(F) <=> \E n \in DOMAIN F : d \in F[n]
  BY DEF Spread

(* Where a claim is, when one slot changes.                                *)
LEMMA SpreadOne ==
  ASSUME NEW F, NEW G, NEW k, OneSlot(F, G, k), NEW d
  PROVE  /\ d \in Spread(F) /\ d.slot = k <=> d \in F[k] /\ d.slot = k
         /\ d.slot # k => (d \in Spread(G) <=> d \in Spread(F)) \/ d \in G[k]
         /\ d \in F[k] => d \in Spread(F) /\ d.slot = k
         /\ d \in G[k] => d \in Spread(G)
         /\ d \in Spread(G) <=> d \in G[k] \/ (d \in Spread(F) /\ d \notin F[k])
<1>1. /\ DOMAIN G = DOMAIN F /\ k \in DOMAIN F
      /\ \A n \in DOMAIN F : \A x \in F[n] : x.slot = n
      /\ \A n \in DOMAIN F : n # k => G[n] = F[n]
  BY DEF OneSlot, Slotted
<1>2. d \in Spread(F) <=> \E n \in DOMAIN F : d \in F[n]
  BY InSpread
<1>3. d \in Spread(G) <=> \E n \in DOMAIN F : d \in G[n]
  BY <1>1, InSpread
<1>4. d \in Spread(F) /\ d.slot = k <=> d \in F[k] /\ d.slot = k
  BY <1>1, <1>2
<1>5. d \in F[k] => d \in Spread(F) /\ d.slot = k
  BY <1>1, <1>2
<1>6. d \in G[k] => d \in Spread(G)
  BY <1>1, <1>3
<1>7. d \in Spread(G) => d \in G[k] \/ (d \in Spread(F) /\ d \notin F[k])
  BY <1>1, <1>2, <1>3
<1>8. d \in Spread(F) /\ d \notin F[k] => d \in Spread(G)
  BY <1>1, <1>2, <1>3
<1> QED
  BY <1>4, <1>5, <1>6, <1>7, <1>8

(* One claim less in slot k.                                               *)
LEMMA SpreadDrop ==
  ASSUME NEW F, NEW G, NEW k, OneSlot(F, G, k),
         NEW d \in F[k], G[k] = F[k] \ {d}
  PROVE  Spread(G) = Spread(F) \ {d} /\ d \in Spread(F)
<1>1. ASSUME NEW x PROVE x \in Spread(G) <=> x \in Spread(F) \ {d}
  <2>1. x \in Spread(G) <=> x \in G[k] \/ (x \in Spread(F) /\ x \notin F[k])
    BY SpreadOne
  <2>2. x \in F[k] => x \in Spread(F)
    BY SpreadOne
  <2> QED
    BY <2>1, <2>2
<1>2. d \in Spread(F)
  BY SpreadOne
<1> QED
  BY <1>1, <1>2

(* One claim more in slot k.                                               *)
LEMMA SpreadPut ==
  ASSUME NEW F, NEW G, NEW k, OneSlot(F, G, k),
         NEW d, d.slot = k, d \notin F[k], G[k] = F[k] \cup {d}
  PROVE  Spread(G) = Spread(F) \cup {d} /\ d \notin Spread(F)
<1>1. ASSUME NEW x PROVE x \in Spread(G) <=> x \in Spread(F) \cup {d}
  <2>1. x \in Spread(G) <=> x \in G[k] \/ (x \in Spread(F) /\ x \notin F[k])
    BY SpreadOne
  <2>2. x \in F[k] => x \in Spread(F)
    BY SpreadOne
  <2> QED
    BY <2>1, <2>2
<1>2. d \notin Spread(F)
  BY SpreadOne
<1> QED
  BY <1>1, <1>2

(* A trade: h becomes h2, and d1 and d2 are added.                         *)
LEMMA SpreadTrade ==
  ASSUME NEW F, NEW G, NEW k, OneSlot(F, G, k),
         NEW h \in F[k], NEW h2, NEW d1, NEW d2,
         h2.slot = k, d1.slot = k, d2.slot = k,
         h2 \notin F[k] \ {h}, d1 \notin F[k], d2 \notin F[k],
         G[k] = (F[k] \ {h}) \cup {h2, d1, d2}
  PROVE  /\ Spread(G) = (Spread(F) \ {h}) \cup {h2, d1, d2}
         /\ h \in Spread(F) /\ h2 \notin Spread(F) \ {h}
         /\ d1 \notin Spread(F) /\ d2 \notin Spread(F)
<1>1. ASSUME NEW x
      PROVE  x \in Spread(G) <=> x \in (Spread(F) \ {h}) \cup {h2, d1, d2}
  <2>1. x \in Spread(G) <=> x \in G[k] \/ (x \in Spread(F) /\ x \notin F[k])
    BY SpreadOne
  <2>2. x \in F[k] => x \in Spread(F)
    BY SpreadOne
  <2> QED
    BY <2>1, <2>2
<1>2. h \in Spread(F)
  BY SpreadOne
<1>3. h2 \notin Spread(F) \ {h}
  <2>1. h2 \in Spread(F) /\ h2.slot = k <=> h2 \in F[k] /\ h2.slot = k
    BY SpreadOne
  <2> QED
    BY <2>1
<1>4. d1 \notin Spread(F)
  <2>1. d1 \in Spread(F) /\ d1.slot = k <=> d1 \in F[k] /\ d1.slot = k
    BY SpreadOne
  <2> QED
    BY <2>1
<1>5. d2 \notin Spread(F)
  <2>1. d2 \in Spread(F) /\ d2.slot = k <=> d2 \in F[k] /\ d2.slot = k
    BY SpreadOne
  <2> QED
    BY <2>1
<1> QED
  BY <1>1, <1>2, <1>3, <1>4, <1>5

-----------------------------------------------------------------------------
(* What an order on its way holds: the funds for size z of it.             *)
HoldItem(n, c, z) ==
  [slot |-> n, place |-> 0, user |-> c.user_id,
   out |-> reserved_asset(c.side), in |-> reserved_asset(BP!op_side(c.side)),
   pay |-> 0, claim |-> reserved_amount(c.side, c.price, z),
   get |-> 0, slack |-> 0]

(* A settlement: the maker pays or gets what the taker gets or pays.       *)
Payer(x, c, e) == IF x.role = "maker" THEN e.maker_user_id ELSE c.user_id

SideIn(x, c) == IF x.role = "maker" THEN BP!op_side(c.side) ELSE c.side

LimitIn(x, c, e) == IF x.role = "maker" THEN e.price ELSE c.price

Refund(x, c, e) == refund(x.role = "maker", SideIn(x, c), LimitIn(x, c, e), e)

Inexact(x, c, e) ==
  SideIn(x, c) = "Bid" /\ Rounded(e.price, LimitIn(x, c, e), e.size)

DueItem(n, x, c, e) ==
  LET side == SideIn(x, c)
      paid == reserved_amount(side, e.price, e.size)
  IN [slot |-> n, place |-> Place(x), user |-> Payer(x, c, e),
      out |-> reserved_asset(side), in |-> reserved_asset(BP!op_side(side)),
      pay |-> paid, claim |-> paid + Refund(x, c, e),
      get |-> reserved_amount(BP!op_side(side), e.price, e.size),
      slack |-> IF Inexact(x, c, e) THEN 2 ELSE 0]

Deals(ev) == [event: 1 .. Len(ev), role: Roles]

DueItems(n, c, ev) == {DueItem(n, x, c, ev[x.event]) : x \in Deals(ev)}

(* R1 has reserved, matching has not begun.                                *)
Waits(n, c, cu) ==
  IF /\ c.command = "PlaceOrder" /\ c.status # "Rejected"
     /\ n <= cu[Pipe!R1(ShardOf[c.user_id])]
  THEN {HoldItem(n, c, c.size)} ELSE {}

(* The command the matching engine is serving.                             *)
InMatch(n, c, p, rem, ev) ==
  (IF p = "matching" THEN {HoldItem(n, c, rem)}
   ELSE IF should_handle_cancellation(c) THEN {HoldItem(n, c, c.size)}
   ELSE {})
  \cup DueItems(n, c, ev)

(* Shard s has place k of slot n still to do.                              *)
StillDue(n, k, cu, st, s) ==
  /\ cu[Pipe!R2(s)] < n
  /\ cu[Pipe!R2(s)] + 1 = n => k > st[s]

After(n, c, ev, cu, st) ==
  (IF should_handle_cancellation(c) /\ cu[Pipe!R2(ShardOf[c.user_id])] < n
   THEN {HoldItem(n, c, c.size)} ELSE {})
  \cup {DueItem(n, x, c, ev[x.event]) :
          x \in {y \in Deals(ev) :
                   StillDue(n, Place(y), cu, st,
                            ShardOf[Payer(y, c, ev[y.event])])}}

ItemsAt(n) ==
  IF n <= cursor[Pipe!Events] \/ published < n THEN {}
  ELSE IF n <= M THEN After(n, ring[n], trades[n], cursor, settled)
  ELSE IF n = M + 1 /\ pc # "idle" THEN InMatch(n, cmd, pc, remaining, events)
  ELSE Waits(n, ring[n], cursor)

ItemsBySlot == [n \in 1 .. MaxSeq |-> ItemsAt(n)]

Items == Spread(ItemsBySlot)

(* The claims in a slot know their slot.                                   *)
LEMMA ItemsSlotted == Slotted(ItemsBySlot)
<1> SUFFICES ASSUME NEW n \in 1 .. MaxSeq, NEW d \in ItemsAt(n)
             PROVE  d.slot = n
  BY DEF Slotted, ItemsBySlot
<1>1. \A c, z : HoldItem(n, c, z).slot = n
  BY DEF HoldItem
<1>2. \A x, c, e : DueItem(n, x, c, e).slot = n
  BY DEF DueItem
<1>3. CASE d \in After(n, ring[n], trades[n], cursor, settled)
  BY <1>1, <1>2, <1>3 DEF After
<1>4. CASE d \in InMatch(n, cmd, pc, remaining, events)
  BY <1>1, <1>2, <1>4 DEF InMatch, DueItems
<1>5. CASE d \in Waits(n, ring[n], cursor)
  BY <1>1, <1>5 DEF Waits
<1> QED
  BY <1>3, <1>4, <1>5 DEF ItemsAt

(* Nothing changes.                                                        *)
LEMMA ItemsKept ==
  ASSUME \A n \in 1 .. MaxSeq : ItemsAt(n)' = ItemsAt(n)
  PROVE  Items' = Items
<1>1. ItemsBySlot' = ItemsBySlot
  BY DEF ItemsBySlot
<1> QED
  BY <1>1 DEF Items, Spread

(* Only slot k changes.                                                    *)
LEMMA ItemsOneSlot ==
  ASSUME NEW k \in 1 .. MaxSeq,
         \A n \in 1 .. MaxSeq : n # k => ItemsAt(n)' = ItemsAt(n)
  PROVE  /\ OneSlot(ItemsBySlot, ItemsBySlot', k)
         /\ ItemsBySlot[k] = ItemsAt(k) /\ ItemsBySlot'[k] = ItemsAt(k)'
         /\ Items = Spread(ItemsBySlot) /\ Items' = Spread(ItemsBySlot')
<1>1. Slotted(ItemsBySlot)
  BY ItemsSlotted
<1>2. /\ DOMAIN ItemsBySlot' = DOMAIN ItemsBySlot /\ k \in DOMAIN ItemsBySlot
      /\ DOMAIN ItemsBySlot = 1 .. MaxSeq
      /\ \A n \in 1 .. MaxSeq : n # k => ItemsBySlot'[n] = ItemsBySlot[n]
      /\ ItemsBySlot[k] = ItemsAt(k) /\ ItemsBySlot'[k] = ItemsAt(k)'
  BY DEF ItemsBySlot
<1>3. OneSlot(ItemsBySlot, ItemsBySlot', k)
  BY <1>1, <1>2 DEF OneSlot
<1> QED
  BY <1>2, <1>3 DEF Items

-----------------------------------------------------------------------------
(* Holds and settlements are claims.                                       *)

(* What is known of the command a claim comes from.                        *)
PartyKnown(c) == c.user_id \in Users /\ c.side \in BP!Sides /\ c.price \in Nat

(* A hold is a claim on what the order would pay.                          *)
LEMMA HoldClaims ==
  ASSUME NEW n \in Nat, NEW c, PartyKnown(c), NEW z \in Nat,
         NEW h, h = HoldItem(n, c, z)
  PROVE  /\ h \in Claims /\ h.slot = n /\ h.place = 0 /\ h.user = c.user_id
         /\ h.out = reserved_asset(c.side) /\ h.in = reserved_asset(BP!op_side(c.side))
         /\ h.pay = 0 /\ h.get = 0 /\ h.slack = 0
         /\ h.claim = reserved_amount(c.side, c.price, z)
<1>1. reserved_amount(c.side, c.price, z) \in Nat
  BY ReservedNat DEF PartyKnown
<1>2. /\ reserved_asset(c.side) \in Assets
      /\ reserved_asset(BP!op_side(c.side)) \in Assets
      /\ reserved_asset(BP!op_side(c.side)) # reserved_asset(c.side)
  BY SidesAre DEF PartyKnown
<1> QED
  BY <1>1, <1>2 DEF HoldItem, Claims, PartyKnown

(* Places are positive, and number the settlements of a chain.             *)
LEMMA PlaceFacts ==
  /\ \A x \in [event: Nat \ {0}, role: Roles] : Place(x) \in Nat \ {0}
  /\ \A x, y \in [event: Nat \ {0}, role: Roles] : Place(x) = Place(y) => x = y
  /\ \A x \in [event: Nat \ {0}, role: Roles], k \in Nat :
       x.event <= k <=> Place(x) <= 2 * k
  BY DEF Place, Roles

(* The settlements of a chain of events.                                   *)
LEMMA DealsPlaced ==
  ASSUME NEW ev \in Seq(BP!Event)
  PROVE  /\ Deals(ev) \subseteq [event: Nat \ {0}, role: Roles]
         /\ \A x \in Deals(ev) : /\ ev[x.event] \in BP!Event
                                 /\ x.event \in 1 .. Len(ev)
                                 /\ Place(x) \in Nat \ {0}
  BY PlaceFacts DEF Deals

(* A refund is a natural.                                                  *)
LEMMA RefundNat ==
  ASSUME NEW x, NEW c, PartyKnown(c), NEW e \in BP!Event
  PROVE  Refund(x, c, e) \in Nat
<1>1. e.price \in Nat /\ e.size \in Nat
  BY MarketAssumption DEF BP!Event
<1>2. CASE Refund(x, c, e) = 0
  BY <1>2
<1>3. CASE /\ e.price < LimitIn(x, c, e)
           /\ Refund(x, c, e)
                = calculate_quote_cost(LimitIn(x, c, e) - e.price, e.size)
  <2>1. LimitIn(x, c, e) \in Nat
    BY <1>1 DEF LimitIn, PartyKnown
  <2>2. LimitIn(x, c, e) - e.price \in Nat
    BY <1>1, <1>3, <2>1
  <2> QED
    BY <1>1, <1>3, <2>2, ReservedNat
<1> QED
  BY <1>2, <1>3 DEF Refund, refund

(* Each party is on a side.                                                *)
LEMMA SideInSides ==
  ASSUME NEW x, NEW c, PartyKnown(c)
  PROVE  SideIn(x, c) \in BP!Sides /\ BP!op_side(SideIn(x, c)) \in BP!Sides
  BY SidesAre DEF SideIn, PartyKnown

(* A settlement is a claim on its payment and its refund.                  *)
LEMMA DueClaims ==
  ASSUME NEW n \in Nat, NEW x \in [event: Nat \ {0}, role: Roles],
         NEW c, PartyKnown(c), NEW e \in BP!Event, NEW d, d = DueItem(n, x, c, e)
  PROVE  /\ d \in Claims /\ d.slot = n /\ d.place = Place(x)
         /\ d.user = Payer(x, c, e) /\ d.user \in Users
         /\ d.out = reserved_asset(SideIn(x, c))
         /\ d.in = reserved_asset(BP!op_side(SideIn(x, c)))
         /\ d.pay = reserved_amount(SideIn(x, c), e.price, e.size)
         /\ d.claim = d.pay + Refund(x, c, e)
         /\ d.get = reserved_amount(BP!op_side(SideIn(x, c)), e.price, e.size)
         /\ d.slack = IF Inexact(x, c, e) THEN 2 ELSE 0
<1> DEFINE s == SideIn(x, c)
           paid == reserved_amount(s, e.price, e.size)
           back == Refund(x, c, e)
           gets == reserved_amount(BP!op_side(s), e.price, e.size)
<1>1. e.price \in Nat /\ e.size \in Nat /\ e.maker_user_id \in Users
  BY MarketAssumption DEF BP!Event
<1>2. paid \in Nat /\ gets \in Nat /\ back \in Nat
  BY <1>1, ReservedNat, RefundNat
<1>3. /\ s \in BP!Sides /\ reserved_asset(s) \in Assets
      /\ reserved_asset(BP!op_side(s)) \in Assets
      /\ reserved_asset(BP!op_side(s)) # reserved_asset(s)
  BY SideInSides, SidesAre
<1>4. Payer(x, c, e) \in Users
  BY <1>1 DEF Payer, PartyKnown
<1>5. Place(x) \in Nat
  BY PlaceFacts
<1>6. paid + back \in Nat /\ paid <= paid + back
  BY <1>2
<1>7. d = [slot |-> n, place |-> Place(x), user |-> Payer(x, c, e),
           out |-> reserved_asset(s), in |-> reserved_asset(BP!op_side(s)),
           pay |-> paid, claim |-> paid + back, get |-> gets,
           slack |-> IF Inexact(x, c, e) THEN 2 ELSE 0]
  BY DEF DueItem
<1> HIDE DEF s, paid, back, gets
<1>8. d \in Claims
  BY <1>2, <1>3, <1>4, <1>5, <1>6, <1>7 DEF Claims
<1> QED
  BY <1>4, <1>7, <1>8 DEF s, paid, back, gets

(* Claims of one slot differ in their places.                              *)
LEMMA DueDiffer ==
  ASSUME NEW n, NEW x \in [event: Nat \ {0}, role: Roles],
         NEW y \in [event: Nat \ {0}, role: Roles],
         NEW c, NEW e, NEW d, NEW f, NEW b, NEW z
  PROVE  /\ DueItem(n, x, c, e) = DueItem(n, y, d, f) => x = y
         /\ DueItem(n, x, c, e) # HoldItem(n, b, z)
         /\ DueItem(n, x, c, e).place = Place(x)
<1>1. DueItem(n, x, c, e).place = Place(x) /\ DueItem(n, y, d, f).place = Place(y)
  BY DEF DueItem
<1>2. HoldItem(n, b, z).place = 0
  BY DEF HoldItem
<1> QED
  BY <1>1, <1>2, PlaceFacts

(* Two settlements of one slot are the same only if they have one place.   *)
LEMMA DuePlaces ==
  ASSUME NEW n, NEW x \in [event: Nat \ {0}, role: Roles],
         NEW y \in [event: Nat \ {0}, role: Roles],
         NEW c, NEW e, NEW d, NEW f, DueItem(n, x, c, e) = DueItem(n, y, d, f)
  PROVE  x = y
<1>1. DueItem(n, x, c, e).place = Place(x) /\ DueItem(n, y, d, f).place = Place(y)
  BY DEF DueItem
<1> QED
  BY <1>1, PlaceFacts

(* What is still to be done depends on the shards of the parties alone.    *)
LEMMA AfterSame ==
  ASSUME NEW n, NEW c, NEW ev \in Seq(BP!Event), NEW cu, NEW st, NEW cv, NEW sv,
         should_handle_cancellation(c) \/ ev # <<>> => c.user_id \in Users,
         \A s \in RiskShards : /\ cu[Pipe!R2(s)] < n <=> cv[Pipe!R2(s)] < n
                               /\ \A k \in Nat \ {0} :
                                    StillDue(n, k, cu, st, s) <=> StillDue(n, k, cv, sv, s)
  PROVE  After(n, c, ev, cv, sv) = After(n, c, ev, cu, st)
<1>1. should_handle_cancellation(c) =>
        (cu[Pipe!R2(ShardOf[c.user_id])] < n <=> cv[Pipe!R2(ShardOf[c.user_id])] < n)
  BY ShardAssumption
<1>2. ASSUME NEW y \in Deals(ev)
      PROVE  StillDue(n, Place(y), cu, st, ShardOf[Payer(y, c, ev[y.event])])
               <=> StillDue(n, Place(y), cv, sv, ShardOf[Payer(y, c, ev[y.event])])
  <2>1. ev[y.event] \in BP!Event /\ Place(y) \in Nat \ {0} /\ ev # <<>>
    BY DealsPlaced DEF Deals
  <2>2. Payer(y, c, ev[y.event]) \in Users
    BY <2>1 DEF Payer, BP!Event
  <2> QED
    BY <2>1, <2>2, ShardAssumption
<1> QED
  BY <1>1, <1>2 DEF After

-----------------------------------------------------------------------------
(* What the claims rest on besides XInv.                                   *)

(* Behind the matching engine a slot holds the command as it left it.      *)
FiledAt(c, ev) ==
  /\ c.user_id \in Users
  /\ ev # <<>> \/ should_handle_cancellation(c) => c \in BP!Command
  /\ ev # <<>> => c.status \notin {"Rejected", "Processed"}

Filed ==
  /\ \A n \in M + 1 .. published : trades[n] = <<>>
  /\ \A n \in cursor[Pipe!Events] + 1 .. M : FiledAt(ring[n], trades[n])

(* Before R1 of its user an order has no verdict.                          *)
FreshAt(c, n, cu) ==
  c.command = "PlaceOrder" /\ cu[Pipe!R1(ShardOf[c.user_id])] < n =>
    c.status = "Processing"

Fresh == \A n \in M + 1 .. published : FreshAt(ring[n], n, cursor)

(* R1 is through with the command that is being matched.                   *)
Passed == pc # "idle" => \A s \in RiskShards : M < cursor[Pipe!R1(s)]

(* A command with trades is not rejected.                                  *)
Served == pc = "done" /\ events # <<>> => cmd.status # "Rejected"

(* Sizes and prices are those of the market, and the levels matching looks *)
(* at are within the limit.                                                *)
Priced ==
  /\ SizesKnown(Stock(book))
  /\ pc = "matching" =>
       /\ cmd.price \in Prices \cup MarketPrices /\ cmd.price <= U64MAX
       /\ cmd.size \in Sizes /\ remaining <= cmd.size
       /\ level # BP!NoPrice => BP!price_check(cmd.side, cmd.price, level)

(* R2 of a shard is in the middle of a command only if it has trades.      *)
Settling ==
  /\ settled \in [RiskShards -> Nat]
  /\ \A s \in RiskShards : settled[s] > 0 =>
       /\ R2Slot(s) <= M
       /\ ring[R2Slot(s)].status \notin {"Rejected", "Processed"}

Side == Filed /\ Fresh /\ Passed /\ Served /\ Priced /\ Settling

-----------------------------------------------------------------------------
(* Steps ahead of the matching engine: ingress, journaling and R1.         *)

Front ==
  /\ BookStands /\ settled' = settled
  /\ M' = M /\ published' \in Nat /\ published <= published'
  /\ cursor'[Pipe!Events] = cursor[Pipe!Events]
  /\ \A s \in RiskShards : /\ cursor'[Pipe!R2(s)] = cursor[Pipe!R2(s)]
                           /\ cursor[Pipe!R1(s)] <= cursor'[Pipe!R1(s)]
                           /\ cursor'[Pipe!R1(s)] \in Nat
  /\ \A k \in 1 .. M : ring'[k] = ring[k] /\ trades'[k] = trades[k]
  /\ \A k \in M + 1 .. published' : trades'[k] = <<>>

(* They leave what the claims rest on alone, but for the verdicts of R1.   *)
LEMMA FrontSide ==
  ASSUME XInv, Side, Front, Fresh'
  PROVE  Side'
<1>0. Filed /\ Passed /\ Served /\ Priced /\ Settling
  BY DEF Side
<1>1. /\ M \in Nat /\ cursor[Pipe!Events] \in Nat
      /\ \A s \in RiskShards : /\ cursor[Pipe!R1(s)] \in Nat
                               /\ cursor[Pipe!R2(s)] \in Nat
  BY Cursors, HandlersAre DEF XInv
<1>2. /\ M' = M /\ settled' = settled
      /\ cursor'[Pipe!Events] = cursor[Pipe!Events]
      /\ \A s \in RiskShards : /\ cursor'[Pipe!R2(s)] = cursor[Pipe!R2(s)]
                               /\ cursor[Pipe!R1(s)] <= cursor'[Pipe!R1(s)]
                               /\ cursor'[Pipe!R1(s)] \in Nat
      /\ \A k \in 1 .. M : ring'[k] = ring[k] /\ trades'[k] = trades[k]
      /\ \A k \in M + 1 .. published' : trades'[k] = <<>>
  BY DEF Front
<1>3. UNCHANGED <<book, cmd, pc, remaining, level, events>>
  BY DEF Front, BookStands, bookVars
<1>4. Filed'
  <2>1. \A n \in cursor[Pipe!Events] + 1 .. M : n \in 1 .. M
    BY <1>1
  <2> QED
    BY <1>0, <1>2, <2>1 DEF Filed
<1>5. Passed'
  BY <1>0, <1>1, <1>2, <1>3 DEF Passed
<1>6. Served' /\ Priced'
  BY <1>0, <1>3 DEF Served, Priced
<1>7. Settling'
  <2>1. settled' \in [RiskShards -> Nat]
    BY <1>0, <1>2 DEF Settling
  <2>2. ASSUME NEW s \in RiskShards, settled'[s] > 0
        PROVE  /\ R2Slot(s)' <= M'
               /\ ring'[R2Slot(s)'] = ring[R2Slot(s)]
               /\ ring[R2Slot(s)].status \notin {"Rejected", "Processed"}
    <3>1. /\ R2Slot(s) <= M
          /\ ring[R2Slot(s)].status \notin {"Rejected", "Processed"}
      BY <1>0, <1>2, <2>2 DEF Settling
    <3>2. R2Slot(s)' = R2Slot(s) /\ R2Slot(s) \in 1 .. M
      BY <1>1, <1>2, <3>1 DEF R2Slot, slot
    <3> QED
      BY <1>2, <3>1, <3>2
  <2> QED
    BY <2>1, <2>2 DEF Settling
<1> QED
  BY <1>4, <1>5, <1>6, <1>7 DEF Side

(* The claim of a command that has not been matched.                       *)
WaitsAt(n) == IF n <= published THEN Waits(n, ring[n], cursor) ELSE {}

(* They change no claims but those waiting in their slot.                  *)
LEMMA FrontItems ==
  ASSUME XInv, Side, Front, NEW k \in 1 .. MaxSeq,
         M < k => WaitsAt(k)' = WaitsAt(k)
  PROVE  ItemsAt(k)' = ItemsAt(k)
<1>1. /\ M \in Nat /\ cursor[Pipe!Events] \in Nat /\ cursor[Pipe!Events] <= M
      /\ published \in Nat /\ M <= published /\ MaxSeq \in Nat
      /\ \A s \in RiskShards : cursor[Pipe!R2(s)] \in Nat
  BY Cursors, HandlersAre DEF XInv, M
<1>2. /\ M' = M /\ settled' = settled /\ published' \in Nat /\ published <= published'
      /\ cursor'[Pipe!Events] = cursor[Pipe!Events]
      /\ \A s \in RiskShards : cursor'[Pipe!R2(s)] = cursor[Pipe!R2(s)]
      /\ \A n \in 1 .. M : ring'[n] = ring[n] /\ trades'[n] = trades[n]
  BY DEF Front
<1>3. UNCHANGED <<cmd, pc, remaining, events>>
  BY DEF Front, BookStands, bookVars
<1>4. CASE k <= cursor[Pipe!Events]
  BY <1>2, <1>4 DEF ItemsAt
<1>5. CASE cursor[Pipe!Events] < k /\ k <= M
  <2>1. /\ k \in 1 .. M /\ k \in cursor[Pipe!Events] + 1 .. M
        /\ ~(published < k) /\ ~(published' < k) /\ ~(k <= cursor[Pipe!Events])
    BY <1>1, <1>2, <1>5
  <2>2. FiledAt(ring[k], trades[k])
    BY <2>1 DEF Side, Filed
  <2>3. trades[k] \in Seq(BP!Event)
    BY <1>1, <2>1 DEF XInv, RingSound
  <2>4. PICK c, ev, cu, cv, st :
          /\ c = ring[k] /\ ev = trades[k] /\ cu = cursor /\ cv = cursor'
          /\ st = settled
    OBVIOUS
  <2>5. \A s \in RiskShards :
          /\ cu[Pipe!R2(s)] < k <=> cv[Pipe!R2(s)] < k
          /\ \A j \in Nat \ {0} :
               StillDue(k, j, cu, st, s) <=> StillDue(k, j, cv, st, s)
    BY <1>2, <2>4 DEF StillDue
  <2>6. After(k, c, ev, cv, st) = After(k, c, ev, cu, st)
    BY <2>2, <2>3, <2>4, <2>5, AfterSame DEF FiledAt
  <2>7. ItemsAt(k) = After(k, c, ev, cu, st)
    BY <1>5, <2>1, <2>4 DEF ItemsAt
  <2>8. ItemsAt(k)' = After(k, c, ev, cv, st)
    BY <1>2, <1>5, <2>1, <2>4 DEF ItemsAt
  <2> QED
    BY <2>6, <2>7, <2>8
<1>6. CASE k = M + 1 /\ pc # "idle"
  <2>1. k <= published /\ M < k
    BY <1>1, <1>6 DEF XInv, IdsAhead
  <2>2. ItemsAt(k) = InMatch(k, cmd, pc, remaining, events)
    BY <1>1, <1>6, <2>1 DEF ItemsAt
  <2>3. ItemsAt(k)' = InMatch(k, cmd', pc', remaining', events')
    BY <1>1, <1>2, <1>3, <1>6, <2>1 DEF ItemsAt
  <2> QED
    BY <1>3, <2>2, <2>3
<1>7. CASE M < k /\ ~(k = M + 1 /\ pc # "idle")
  <2>1. ItemsAt(k) = WaitsAt(k)
    BY <1>1, <1>7 DEF ItemsAt, WaitsAt
  <2>2. ItemsAt(k)' = WaitsAt(k)'
    BY <1>1, <1>2, <1>3, <1>7 DEF ItemsAt, WaitsAt
  <2> QED
    BY <1>7, <2>1, <2>2
<1> QED
  BY <1>1, <1>4, <1>5, <1>6, <1>7

(* A waiting command's claim stays when the fields it is made of do.       *)
LEMMA WaitsSame ==
  ASSUME NEW n, NEW c, NEW d, NEW cu, NEW cv, d.command = c.command,
         c.command = "PlaceOrder" =>
           /\ d.user_id = c.user_id
           /\ d.status = "Rejected" <=> c.status = "Rejected"
           /\ n <= cu[Pipe!R1(ShardOf[c.user_id])] =>
                d.side = c.side /\ d.price = c.price /\ d.size = c.size
           /\ n <= cu[Pipe!R1(ShardOf[c.user_id])]
                <=> n <= cv[Pipe!R1(ShardOf[c.user_id])]
  PROVE  Waits(n, d, cv) = Waits(n, c, cu)
  BY DEF Waits, HoldItem

(* Journaling or R1 is through with slot n, which now holds d.             *)
LEMMA FrontMoves ==
  ASSUME XInv, Side, NEW h \in Pipe!Handlers,
         h = Pipe!Journaling \/ \E s \in RiskShards : h = Pipe!R1(s),
         Pipe!handle(h), NEW n, n = cursor[h] + 1, NEW d,
         ring' = [ring EXCEPT ![n] = d] \/ (ring' = ring /\ d = ring[n]),
         trades' = trades, BookStands, settled' = settled,
         FreshAt(d, n, cursor')
  PROVE  /\ Front /\ Side' /\ n \in 1 .. MaxSeq /\ M < n /\ n <= published
         /\ n \in Nat
         /\ \A k \in 1 .. MaxSeq : k # n => ItemsAt(k)' = ItemsAt(k)
         /\ WaitsAt(n) = Waits(n, ring[n], cursor)
         /\ WaitsAt(n)' = Waits(n, d, cursor')
<1>1. /\ published' = published /\ cursor[h] \in Nat /\ cursor[h] < published
      /\ cursor'[h] = cursor[h] + 1
      /\ \A g \in Pipe!Handlers \ {h} : cursor'[g] = cursor[g]
  BY HandleFacts DEF XInv
<1>2. /\ M \in Nat /\ published \in Nat /\ M <= published /\ published <= MaxSeq
      /\ MaxSeq \in Nat /\ M <= cursor[h]
      /\ \A g \in Pipe!Handlers : cursor[g] \in Nat
  BY Cursors, HandlersAre DEF XInv, J, M
<1>3. n \in 1 .. MaxSeq /\ M < n /\ n <= published /\ n \in Nat
  BY <1>1, <1>2
<1>4. /\ \A k \in 1 .. published : k # n => ring'[k] = ring[k]
      /\ ring'[n] = d
  <2>1. ring \in Seq(Slot) /\ Len(ring) = published
    BY DEF XInv, RingSound
  <2> QED
    BY <1>2, <1>3, <2>1
<1>5. /\ h # Pipe!Matching(0) /\ h # Pipe!Events
      /\ \A s \in RiskShards : h # Pipe!R2(s)
  BY HandlersAre
<1>6. M' = M /\ cursor'[Pipe!Events] = cursor[Pipe!Events]
  BY <1>1, <1>5, HandlersAre DEF M
<1>7. Front
  <2>1. \A s \in RiskShards : /\ cursor'[Pipe!R2(s)] = cursor[Pipe!R2(s)]
                              /\ cursor[Pipe!R1(s)] <= cursor'[Pipe!R1(s)]
                              /\ cursor'[Pipe!R1(s)] \in Nat
    <3> SUFFICES ASSUME NEW s \in RiskShards
                 PROVE  /\ cursor'[Pipe!R2(s)] = cursor[Pipe!R2(s)]
                        /\ cursor[Pipe!R1(s)] <= cursor'[Pipe!R1(s)]
                        /\ cursor'[Pipe!R1(s)] \in Nat
      OBVIOUS
    <3>1. Pipe!R2(s) \in Pipe!Handlers \ {h} /\ Pipe!R1(s) \in Pipe!Handlers
      BY <1>5, HandlersAre
    <3>2. CASE Pipe!R1(s) = h
      BY <1>1, <3>1, <3>2
    <3>3. CASE Pipe!R1(s) # h
      BY <1>1, <1>2, <3>1, <3>3
    <3> QED
      BY <3>2, <3>3
  <2>2. \A k \in 1 .. M : ring'[k] = ring[k] /\ trades'[k] = trades[k]
    BY <1>2, <1>3, <1>4
  <2>3. \A k \in M + 1 .. published' : trades'[k] = <<>>
    BY <1>1 DEF Side, Filed
  <2> QED
    BY <1>1, <1>2, <1>6, <2>1, <2>2, <2>3 DEF Front
<1>8. ASSUME NEW k \in Nat, M < k, k <= published, k # n
      PROVE  /\ ring'[k] = ring[k] /\ FreshAt(ring[k], k, cursor')
             /\ Waits(k, ring[k], cursor') = Waits(k, ring[k], cursor)
  <2>1. ring'[k] = ring[k]
    BY <1>2, <1>4, <1>8
  <2>2. PICK c, cu, cv : c = ring[k] /\ cu = cursor /\ cv = cursor'
    OBVIOUS
  <2>3. PICK g : g = Pipe!R1(ShardOf[c.user_id])
    OBVIOUS
  <2>4. g \in Pipe!Handlers
    BY <1>8, <2>2, <2>3, AtSlot, WaitingFacts, HandlersAre
  <2>5. k <= cu[g] <=> k <= cv[g]
    <3>1. CASE g = h
      BY <1>1, <1>8, <2>2, <3>1
    <3>2. CASE g # h
      BY <1>1, <2>2, <2>4, <3>2
    <3> QED
      BY <3>1, <3>2
  <2>6. Waits(k, c, cv) = Waits(k, c, cu)
    BY <2>3, <2>5, WaitsSame
  <2>7. FreshAt(c, k, cu)
    BY <1>2, <1>8, <2>2 DEF Side, Fresh
  <2>8. cv[g] < k => cu[g] < k
    <3>1. CASE g = h
      BY <1>1, <2>2, <3>1
    <3>2. CASE g # h
      BY <1>1, <2>2, <2>4, <3>2
    <3> QED
      BY <3>1, <3>2
  <2> QED
    BY <2>1, <2>2, <2>3, <2>6, <2>7, <2>8 DEF FreshAt
<1>9. Fresh'
  <2> SUFFICES ASSUME NEW k \in M + 1 .. published
               PROVE  FreshAt(ring'[k], k, cursor')
    BY <1>1, <1>6 DEF Fresh
  <2>1. k \in Nat /\ M < k /\ k <= published
    BY <1>2
  <2> QED
    BY <1>4, <1>8, <2>1
<1>10. Side'
  BY <1>7, <1>9, FrontSide
<1>11. ASSUME NEW k \in 1 .. MaxSeq, k # n
       PROVE  ItemsAt(k)' = ItemsAt(k)
  <2>1. M < k => WaitsAt(k)' = WaitsAt(k)
    <3>1. CASE M < k /\ k <= published
      BY <1>1, <1>8, <1>11, <3>1 DEF WaitsAt
    <3>2. CASE ~(k <= published)
      BY <1>1, <3>2 DEF WaitsAt
    <3> QED
      BY <3>1, <3>2
  <2> QED
    BY <1>7, <2>1, FrontItems
<1>12. WaitsAt(n) = Waits(n, ring[n], cursor) /\ WaitsAt(n)' = Waits(n, d, cursor')
  BY <1>1, <1>3, <1>4 DEF WaitsAt
<1> QED
  BY <1>3, <1>7, <1>10, <1>11, <1>12

(* ... and claims what it did.                                             *)
LEMMA FrontQuiet ==
  ASSUME XInv, Side, NEW h \in Pipe!Handlers,
         h = Pipe!Journaling \/ \E s \in RiskShards : h = Pipe!R1(s),
         Pipe!handle(h), NEW n, n = cursor[h] + 1, NEW d,
         ring' = [ring EXCEPT ![n] = d] \/ (ring' = ring /\ d = ring[n]),
         trades' = trades, BookStands, settled' = settled,
         FreshAt(d, n, cursor'),
         Waits(n, d, cursor') = Waits(n, ring[n], cursor)
  PROVE  Side' /\ Items' = Items
<1>1. /\ Front /\ Side' /\ n \in 1 .. MaxSeq
      /\ \A k \in 1 .. MaxSeq : k # n => ItemsAt(k)' = ItemsAt(k)
      /\ WaitsAt(n)' = WaitsAt(n)
  BY FrontMoves
<1>2. ItemsAt(n)' = ItemsAt(n)
  BY <1>1, FrontItems
<1> QED
  BY <1>1, <1>2, ItemsKept

(* Nothing is claimed, and no funds are moved.                             *)
Calm == Items' = Items /\ Need' = Need /\ UNCHANGED riskVars

(* A step without effect on claims, book and balances moves no funds.      *)
LEMMA FrontCalm ==
  ASSUME BookStands, Items' = Items, UNCHANGED riskVars
  PROVE  Calm
<1>1. book' = book
  BY DEF BookStands, bookVars
<1> QED
  BY <1>1 DEF Calm, Need

(* A new command claims nothing.                                           *)
LEMMA YPublish ==
  ASSUME XInv, Side, NEW c \in Inputs, publish(c)
  PROVE  Side' /\ Calm
<1>1. /\ Pipe!publish /\ ring' = Append(ring, c) /\ trades' = Append(trades, <<>>)
      /\ BookStands /\ UNCHANGED riskVars
  BY DEF publish, BookStands
<1>2. published' = published + 1 /\ cursor' = cursor /\ M' = M /\ settled' = settled
  BY <1>1 DEF Pipe!publish, M, riskVars
<1>3. /\ published \in Nat /\ M \in Nat /\ M <= published
      /\ \A h \in Pipe!Handlers : cursor[h] \in Nat /\ cursor[h] <= published
  BY Cursors, HandlersAre DEF XInv, M
<1>4. /\ ring \in Seq(Slot) /\ Len(ring) = published
      /\ trades \in Seq(Seq(BP!Event)) /\ Len(trades) = published
  BY DEF XInv, RingSound
<1>5. /\ c \in Waiting \cup Book!Cancels \cup Moving
      /\ c.command = "PlaceOrder" => c.status = "Processing"
  <2>1. c.command = "PlaceOrder" => c.status = "Processing"
    BY InputsAssumption DEF Placements, Book!Cancels, Transfers
  <2> QED
    BY <2>1, InputsWait
<1>6. /\ ring'[published + 1] = c
      /\ \A n \in 1 .. published : ring'[n] = ring[n]
  BY <1>1, <1>4
<1>7. /\ trades'[published + 1] = <<>>
      /\ \A n \in 1 .. published : trades'[n] = trades[n]
  BY <1>1, <1>4
<1>8. Front
  <2>1. \A s \in RiskShards : Pipe!R1(s) \in Pipe!Handlers
    BY HandlersAre
  <2>2. \A k \in M + 1 .. published' : trades'[k] = <<>>
    <3> SUFFICES ASSUME NEW k \in M + 1 .. published + 1 PROVE trades'[k] = <<>>
      BY <1>2
    <3>1. CASE k = published + 1
      BY <1>7, <3>1
    <3>2. CASE k # published + 1
      <4>1. k \in M + 1 .. published /\ k \in 1 .. published
        BY <1>3, <3>2
      <4> QED
        BY <1>7, <4>1 DEF Side, Filed
    <3> QED
      BY <3>1, <3>2
  <2>3. \A k \in 1 .. M : ring'[k] = ring[k] /\ trades'[k] = trades[k]
    BY <1>3, <1>6, <1>7
  <2>4. published' \in Nat /\ published <= published'
    BY <1>2, <1>3
  <2>5. \A s \in RiskShards : cursor[Pipe!R1(s)] <= cursor[Pipe!R1(s)]
                              /\ cursor[Pipe!R1(s)] \in Nat
    BY <1>3, <2>1
  <2> QED
    BY <1>1, <1>2, <2>2, <2>3, <2>4, <2>5 DEF Front
<1>9. PICK g : g = Pipe!R1(ShardOf[c.user_id])
  OBVIOUS
<1>10. g \in Pipe!Handlers /\ ~(published + 1 <= cursor[g])
  <2>1. g \in Pipe!Handlers
    BY <1>5, <1>9, WaitingFacts, HandlersAre
  <2> QED
    BY <1>3, <2>1
<1>11. Fresh'
  <2> SUFFICES ASSUME NEW k \in M + 1 .. published + 1
               PROVE  FreshAt(ring'[k], k, cursor)
    BY <1>2 DEF Fresh
  <2>1. CASE k = published + 1
    BY <1>5, <1>6, <2>1 DEF FreshAt
  <2>2. CASE k # published + 1
    <3>1. k \in M + 1 .. published /\ k \in 1 .. published
      BY <1>3, <2>2
    <3> QED
      BY <1>6, <3>1 DEF Side, Fresh
  <2> QED
    BY <2>1, <2>2
<1>12. ASSUME NEW k \in 1 .. MaxSeq
       PROVE  ItemsAt(k)' = ItemsAt(k)
  <2>1. M < k => WaitsAt(k)' = WaitsAt(k)
    <3>1. CASE k <= published
      BY <1>2, <1>3, <1>6, <3>1 DEF WaitsAt
    <3>2. CASE k = published + 1
      BY <1>2, <1>3, <1>6, <1>9, <1>10, <3>2 DEF WaitsAt, Waits
    <3>3. CASE k > published + 1
      BY <1>2, <1>3, <3>3 DEF WaitsAt
    <3> QED
      BY <1>3, <3>1, <3>2, <3>3
  <2> QED
    BY <1>8, <2>1, FrontItems
<1>13. Items' = Items
  BY <1>12, ItemsKept
<1> QED
  BY <1>1, <1>8, <1>11, <1>13, FrontSide, FrontCalm

(* An order id moves no funds.                                             *)
LEMMA YJournal ==
  ASSUME XInv, Side, journal_command
  PROVE  Side' /\ Calm
<1>1. PICK n : n = cursor[Pipe!Journaling] + 1
  OBVIOUS
<1>2. /\ Pipe!handle(Pipe!Journaling) /\ UNCHANGED riskVars /\ settled' = settled
      /\ ring' = IF ring[n].command = "CancelOrder" THEN ring
                 ELSE [ring EXCEPT ![n].order_id = n]
      /\ trades' = trades /\ BookStands
  BY <1>1 DEF journal_command, slot, BookStands, riskVars
<1>3. /\ n \in Nat /\ M < n /\ n <= published
      /\ \A g \in Pipe!Handlers \ {Pipe!Journaling} : cursor'[g] = cursor[g]
  <2>1. /\ M \in Nat /\ J \in Nat /\ M <= J
        /\ J < published /\ published \in Nat
        /\ \A g \in Pipe!Handlers \ {Pipe!Journaling} : cursor'[g] = cursor[g]
    BY <1>2, HandleFacts, HandlersAre, Cursors DEF XInv, J
  <2> QED
    BY <1>1, <2>1 DEF J
<1>4. PICK c : c = ring[n]
  OBVIOUS
<1>5. n \in DOMAIN ring /\ c \in Waiting \cup Book!Cancels \cup Moving
  BY <1>3, <1>4, AtSlot
<1>6. PICK d : d = IF c.command = "CancelOrder" THEN c
                   ELSE [c EXCEPT !.order_id = n]
  OBVIOUS
<1>7. ring' = [ring EXCEPT ![n] = d] \/ (ring' = ring /\ d = ring[n])
  BY <1>2, <1>4, <1>5, <1>6
<1>8. /\ d.command = c.command /\ d.user_id = c.user_id /\ d.status = c.status
      /\ c.command = "PlaceOrder" =>
           d.side = c.side /\ d.price = c.price /\ d.size = c.size
  <2>1. CASE c \in Waiting
    BY <1>6, <2>1 DEF Waiting
  <2>2. CASE c \in Book!Cancels
    BY <1>6, <2>2 DEF Book!Cancels
  <2>3. CASE c \in Moving
    BY <1>6, <2>3 DEF Moving
  <2> QED
    BY <1>5, <2>1, <2>2, <2>3
<1>9. PICK g : g = Pipe!R1(ShardOf[c.user_id])
  OBVIOUS
<1>10. g \in Pipe!Handlers /\ g # Pipe!Journaling /\ cursor'[g] = cursor[g]
  BY <1>3, <1>5, <1>9, WaitingFacts, HandlersAre
<1>11. FreshAt(d, n, cursor')
  <2>1. FreshAt(c, n, cursor)
    <3>1. n \in M + 1 .. published
      BY <1>3, Cursors DEF XInv
    <3> QED
      BY <1>4, <3>1 DEF Side, Fresh
  <2> QED
    BY <1>8, <1>9, <1>10, <2>1 DEF FreshAt
<1>12. Waits(n, d, cursor') = Waits(n, c, cursor)
  BY <1>8, <1>9, <1>10, WaitsSame
<1>13. Side' /\ Items' = Items
  BY <1>1, <1>2, <1>4, <1>7, <1>11, <1>12, HandlersAre, FrontQuiet
<1> QED
  BY <1>2, <1>13, FrontCalm

(* R1 of another shard, or a cancel.                                       *)
LEMMA YSkip1 ==
  ASSUME XInv, Side, NEW s \in RiskShards, r1_skip(s)
  PROVE  Side' /\ Calm
<1>1. PICK n : n = slot(Pipe!R1(s))
  OBVIOUS
<1>2. PICK c : c = ring[n]
  OBVIOUS
<1>3. /\ Pipe!handle(Pipe!R1(s)) /\ ~Owns(s, c) /\ UNCHANGED riskVars
      /\ ring' = ring /\ trades' = trades /\ BookStands /\ settled' = settled
  BY <1>1, <1>2 DEF r1_skip, BookStands, riskVars
<1>4. /\ n \in Nat /\ M < n /\ n <= published /\ n = cursor[Pipe!R1(s)] + 1
      /\ c \in Waiting \cup Book!Cancels \cup Moving
      /\ Pipe!R1(s) \in Pipe!Handlers
  BY <1>1, <1>2, <1>3, R1Facts DEF Pipe!handle
<1>5. \A g \in Pipe!Handlers \ {Pipe!R1(s)} : cursor'[g] = cursor[g]
  BY <1>3, <1>4, HandleFacts DEF XInv
<1>6. PICK g : g = Pipe!R1(ShardOf[c.user_id])
  OBVIOUS
<1>7. c.command = "PlaceOrder" => cursor'[g] = cursor[g]
  <2>1. c.command = "PlaceOrder" => ShardOf[c.user_id] # s
    BY <1>3 DEF Owns
  <2> QED
    BY <1>4, <1>5, <1>6, <2>1, WaitingFacts, HandlersAre
<1>8. FreshAt(c, n, cursor')
  <2>1. n \in M + 1 .. published
    BY <1>4, Cursors DEF XInv
  <2>2. FreshAt(c, n, cursor)
    BY <1>2, <2>1 DEF Side, Fresh
  <2> QED
    BY <1>6, <1>7, <2>2 DEF FreshAt
<1>9. Waits(n, c, cursor') = Waits(n, c, cursor)
  BY <1>6, <1>7, WaitsSame
<1>10. Side' /\ Items' = Items
  BY <1>2, <1>3, <1>4, <1>8, <1>9, FrontQuiet
<1> QED
  BY <1>3, <1>10, FrontCalm

(* R1 of the owner rejects the order in slot n, or finds a transfer: it    *)
(* claims nothing.                                                         *)
LEMMA YNoClaim ==
  ASSUME XInv, Side, NEW s \in RiskShards, Pipe!handle(Pipe!R1(s)),
         NEW n, n = slot(Pipe!R1(s)), NEW c, c = ring[n], NEW d,
         ring' = [ring EXCEPT ![n] = d],
         trades' = trades, BookStands, settled' = settled, Owns(s, c),
         d.command = c.command, d.user_id = c.user_id,
         d.command = "PlaceOrder" => d.status = "Rejected"
  PROVE  Side' /\ Items' = Items
<1>1. /\ n \in Nat /\ M < n /\ n <= published /\ n = cursor[Pipe!R1(s)] + 1
      /\ c \in Waiting \cup Book!Cancels \cup Moving
      /\ Pipe!R1(s) \in Pipe!Handlers
  BY R1Facts DEF Pipe!handle
<1>2. cursor'[Pipe!R1(s)] = n /\ cursor[Pipe!R1(s)] \in Nat
  BY <1>1, HandleFacts DEF XInv
<1>3. ShardOf[c.user_id] = s
  BY DEF Owns
<1>4. FreshAt(d, n, cursor')
  BY <1>1, <1>2, <1>3 DEF FreshAt
<1>5. Waits(n, d, cursor') = {}
  BY DEF Waits
<1>6. Waits(n, c, cursor) = {}
  <2>1. ~(n <= cursor[Pipe!R1(s)])
    BY <1>1, <1>2
  <2> QED
    BY <1>3, <2>1 DEF Waits
<1> QED
  BY <1>1, <1>4, <1>5, <1>6, FrontQuiet

(* A market buy gets its price, or is rejected, before it claims funds.    *)
LEMMA YPrice ==
  ASSUME XInv, Side, NEW s \in RiskShards, r1_price_market_buy(s)
  PROVE  Side' /\ Calm
<1>1. PICK n : n = slot(Pipe!R1(s))
  OBVIOUS
<1>2. PICK c : c = ring[n]
  OBVIOUS
<1>3. PICK price : price = conservative_price(cache["Ask"])
  OBVIOUS
<1>4. /\ Pipe!available(Pipe!R1(s)) /\ Owns(s, c) /\ MarketBuy(c)
      /\ trades' = trades /\ BookStands /\ UNCHANGED riskVars
      /\ settled' = settled
  BY <1>1, <1>2, <1>3 DEF r1_price_market_buy, BookStands, riskVars
<1>9. \/ /\ ring' = [ring EXCEPT ![n].status = "Rejected"]
         /\ Pipe!handle(Pipe!R1(s))
      \/ /\ ring' = [ring EXCEPT ![n].price = price]
         /\ UNCHANGED <<published, cursor>>
  BY <1>1, <1>2, <1>3 DEF r1_price_market_buy
<1>5. /\ n \in Nat /\ M < n /\ n <= published /\ n \in DOMAIN ring
      /\ n = cursor[Pipe!R1(s)] + 1
      /\ c \in Waiting \cup Book!Cancels \cup Moving
  BY <1>1, <1>2, <1>4, R1Facts
<1>6. c \in Waiting /\ c.command = "PlaceOrder"
  BY <1>4, <1>5, WaitingFacts DEF MarketBuy
<1>7. CASE /\ ring' = [ring EXCEPT ![n].status = "Rejected"]
           /\ Pipe!handle(Pipe!R1(s))
  <2>1. PICK d : d = [c EXCEPT !.status = "Rejected"]
    OBVIOUS
  <2>2. /\ d.status = "Rejected" /\ d.command = c.command
        /\ d.user_id = c.user_id
    BY <1>6, <2>1, RejectedWaits
  <2>3. ring' = [ring EXCEPT ![n] = d]
    BY <1>2, <1>7, <2>1
  <2>5. /\ Pipe!handle(Pipe!R1(s)) /\ trades' = trades /\ BookStands
        /\ settled' = settled /\ Owns(s, c)
    BY <1>4, <1>7
  <2>4. Side' /\ Items' = Items
    BY <1>1, <1>2, <2>2, <2>3, <2>5, YNoClaim
  <2> QED
    BY <1>4, <2>4, FrontCalm
<1>8. CASE /\ ring' = [ring EXCEPT ![n].price = price]
           /\ UNCHANGED <<published, cursor>>
  <2>1. PICK d : d = [c EXCEPT !.price = price]
    OBVIOUS
  <2>2. /\ d.command = c.command /\ d.user_id = c.user_id
        /\ d.status = c.status
    BY <1>6, <2>1 DEF Waiting
  <2>3. /\ M \in Nat /\ published \in Nat
        /\ \A h \in Pipe!Handlers : cursor[h] \in Nat
    BY Cursors DEF XInv
  <2>4. /\ \A k \in 1 .. published : k # n => ring'[k] = ring[k]
        /\ ring'[n] = d
    <3>1. ring \in Seq(Slot) /\ Len(ring) = published
      BY DEF XInv, RingSound
    <3> QED
      BY <1>2, <1>5, <1>8, <2>1, <2>3, <3>1
  <2>5. M' = M /\ published' = published /\ cursor' = cursor
    BY <1>8 DEF M
  <2>6. Front
    <3>1. \A k \in 1 .. M : ring'[k] = ring[k] /\ trades'[k] = trades[k]
      <4>1. \A k \in 1 .. M : k \in 1 .. published /\ k # n
        BY <1>5, <2>3, Cursors, HandlersAre DEF XInv, M
      <4> QED
        BY <1>4, <2>4, <4>1
    <3>2. \A k \in M + 1 .. published' : trades'[k] = <<>>
      BY <1>4, <2>5 DEF Side, Filed
    <3>3. \A t \in RiskShards : /\ cursor'[Pipe!R1(t)] \in Nat
                                /\ cursor[Pipe!R1(t)] <= cursor'[Pipe!R1(t)]
      BY <2>3, <2>5, HandlersAre
    <3> QED
      BY <1>4, <2>3, <2>5, <3>1, <3>2, <3>3 DEF Front
  <2>7. FreshAt(c, n, cursor)
    <3>1. n \in M + 1 .. published
      BY <1>5, <2>3
    <3> QED
      BY <1>2, <3>1 DEF Side, Fresh
  <2>8. FreshAt(d, n, cursor)
    BY <2>2, <2>7 DEF FreshAt
  <2>9. Fresh'
    <3> SUFFICES ASSUME NEW k \in M + 1 .. published
                 PROVE  FreshAt(ring'[k], k, cursor)
      BY <2>5 DEF Fresh
    <3>1. CASE k = n
      BY <2>4, <2>8, <3>1
    <3>2. CASE k # n
      <4>1. ring'[k] = ring[k]
        BY <2>3, <2>4, <3>2
      <4> QED
        BY <4>1 DEF Side, Fresh
    <3> QED
      BY <3>1, <3>2
  <2>10. Waits(n, d, cursor) = Waits(n, c, cursor)
    <3>1. ~(n <= cursor[Pipe!R1(ShardOf[c.user_id])])
      <4>1. ShardOf[c.user_id] = s
        BY <1>4 DEF Owns
      <4> QED
        BY <1>5, <2>3, <4>1, HandlersAre
    <3> QED
      BY <2>2, <3>1, WaitsSame
  <2>11. ASSUME NEW k \in 1 .. MaxSeq
         PROVE  ItemsAt(k)' = ItemsAt(k)
    <3>1. M < k => WaitsAt(k)' = WaitsAt(k)
      <4>1. CASE k = n
        BY <1>2, <1>5, <2>4, <2>5, <2>10, <4>1 DEF WaitsAt
      <4>2. CASE k # n /\ k <= published
        BY <2>3, <2>4, <2>5, <4>2 DEF WaitsAt
      <4>3. CASE ~(k <= published)
        BY <2>5, <4>3 DEF WaitsAt
      <4> QED
        BY <4>1, <4>2, <4>3
    <3> QED
      BY <2>6, <3>1, FrontItems
  <2>12. Items' = Items
    BY <2>11, ItemsKept
  <2> QED
    BY <1>4, <2>6, <2>9, <2>12, FrontSide, FrontCalm
<1> QED
  BY <1>7, <1>8, <1>9

-----------------------------------------------------------------------------
(* The funds.                                                              *)

(* No operation of R2 has failed, and the ledger is balanced.              *)
Money == ~failed /\ Ledger(Need, Items, balances, inexact, fees, net_deposits)

(* A step that moves no funds keeps the ledger.                            *)
LEMMA CalmMoney ==
  ASSUME Money, Calm
  PROVE  Money'
<1>1. /\ UNCHANGED <<balances, inexact, fees, net_deposits, failed>>
      /\ Items' = Items /\ Need' = Need
  BY DEF Calm, riskVars
<1> QED
  BY <1>1 DEF Money

(* The balances are numbers.                                               *)
LEMMA MoneyTyped ==
  ASSUME Money
  PROVE  /\ balances \in [Users -> [Assets -> Balance]]
         /\ inexact \in [Users -> Nat] /\ fees \in [Assets -> Nat]
         /\ net_deposits \in [Assets -> Nat]
         /\ \A u \in Users, a \in Assets :
              /\ balances[u][a] \in Balance
              /\ balances[u][a].available \in Nat /\ balances[u][a].locked \in Nat
              /\ balances[u][a].available <= U64MAX
              /\ balances[u][a].locked <= U64MAX
<1>1. /\ balances \in [Users -> [Assets -> Balance]]
      /\ inexact \in [Users -> Nat] /\ fees \in [Assets -> Nat]
      /\ net_deposits \in [Assets -> Nat]
  BY DEF Money, Ledger
<1>2. ASSUME NEW b \in Balance
      PROVE  /\ b.available \in Nat /\ b.locked \in Nat
             /\ b.available <= U64MAX /\ b.locked <= U64MAX
  BY MarketAssumption DEF Balance
<1> QED
  BY <1>1, <1>2

(* One balance of one user is replaced.                                    *)
LEMMA BalancePut ==
  ASSUME NEW bal \in [Users -> [Assets -> Balance]], NEW u \in Users,
         NEW a \in Assets, NEW b \in Balance,
         NEW bal2, bal2 = [bal EXCEPT ![u][a] = b]
  PROVE  /\ bal2 \in [Users -> [Assets -> Balance]] /\ bal2[u][a] = b
         /\ \A v \in Users, c \in Assets : v # u \/ c # a => bal2[v][c] = bal[v][c]
  OBVIOUS

(* Within 64 bits nothing wraps.                                           *)
LEMMA WrapSmall ==
  ASSUME NEW x \in Nat, x <= U64MAX
  PROVE  wrap(x) = x
  BY MarketAssumption DEF wrap

(* Deposits and withdrawals.                                               *)
LEMMA YTransfer ==
  ASSUME XInv, Side, Money, NEW s \in RiskShards, r1_transfer(s)
  PROVE  Side' /\ Money'
<1>1. PICK n : n = slot(Pipe!R1(s))
  OBVIOUS
<1>2. PICK c : c = ring[n]
  OBVIOUS
<1>3. PICK u, a : u = c.user_id /\ a = c.asset
  OBVIOUS
<1>4. PICK b : b = balances[u][a]
  OBVIOUS
<1>5. PICK r : r = IF c.command = "DepositFunds" THEN add_funds(b, c.size)
                                                 ELSE subtract_funds(b, c.size)
  OBVIOUS
<1>6. /\ Pipe!handle(Pipe!R1(s)) /\ Owns(s, c)
      /\ c.command \in {"DepositFunds", "WithdrawFunds"}
      /\ balances' = [balances EXCEPT ![u][a] = r.bal]
      /\ ring' = [ring EXCEPT ![n].status = IF r.ok THEN "Processed"
                                                    ELSE "Rejected"]
      /\ net_deposits' = [net_deposits EXCEPT ![a] =
                            @ + r.bal.available - b.available]
      /\ trades' = trades /\ BookStands
      /\ UNCHANGED <<settled, failed, fees, inexact>>
  BY <1>1, <1>2, <1>3, <1>4, <1>5 DEF r1_transfer, BookStands
<1>7. c \in Moving
  BY <1>1, <1>2, <1>6, R1Facts, WaitingFacts DEF Pipe!handle
<1>8. u \in Users /\ a \in Assets /\ c.size \in Nat
  BY <1>3, <1>7, MarketAssumption DEF Moving
<1>9. PICK d : d = [c EXCEPT !.status = IF r.ok THEN "Processed" ELSE "Rejected"]
  OBVIOUS
<1>10. d.command = c.command /\ d.user_id = c.user_id /\ d.command # "PlaceOrder"
  BY <1>6, <1>7, <1>9 DEF Moving
<1>11. ring' = [ring EXCEPT ![n] = d]
  BY <1>2, <1>6, <1>9
<1>12. Side' /\ Items' = Items
  <2>1. /\ Pipe!handle(Pipe!R1(s)) /\ trades' = trades /\ BookStands
        /\ settled' = settled /\ Owns(s, c)
    BY <1>6
  <2> QED
    BY <1>1, <1>2, <1>10, <1>11, <2>1, YNoClaim
<1>13. /\ b \in Balance /\ b.available \in Nat /\ b.locked \in Nat
       /\ b.available <= U64MAX
       /\ net_deposits[a] \in Nat /\ net_deposits \in [Assets -> Nat]
       /\ balances \in [Users -> [Assets -> Balance]]
  BY <1>4, <1>8, MoneyTyped
<1>14. r.bal \in Balance /\ r.bal.locked = b.locked /\ r.bal.available \in Nat
  <2>1. CASE r.bal = b
    BY <1>13, <2>1
  <2>2. CASE /\ r.bal = [b EXCEPT !.available = @ + c.size]
             /\ b.available + c.size <= U64MAX
    BY <1>8, <1>13, <2>2, MarketAssumption DEF Balance
  <2>3. CASE /\ r.bal = [b EXCEPT !.available = @ - c.size]
             /\ b.available >= c.size
    BY <1>8, <1>13, <2>3, MarketAssumption DEF Balance
  <2> QED
    BY <1>5, <2>1, <2>2, <2>3 DEF add_funds, subtract_funds, Ok, Err
<1>15. PICK x : x = r.bal.available - b.available
  OBVIOUS
<1>16. PICK bal, bal2, net, net2, S, need, inex, fee :
         /\ bal = balances /\ bal2 = balances' /\ net = net_deposits
         /\ net2 = net_deposits' /\ S = Items /\ need = Need /\ inex = inexact
         /\ fee = fees
  OBVIOUS
<1>17. /\ x \in Int /\ r.bal.available = b.available + x
       /\ net2 = [net EXCEPT ![a] = @ + x]
  <2>1. x \in Int /\ r.bal.available = b.available + x
    BY <1>13, <1>14, <1>15
  <2>2. net_deposits[a] + r.bal.available - b.available = net_deposits[a] + x
    BY <1>13, <1>14, <1>15
  <2> QED
    BY <1>6, <1>16, <2>1, <2>2
<1>18. /\ bal2 \in [Users -> [Assets -> Balance]] /\ bal2[u][a] = r.bal
       /\ \A v \in Users, e \in Assets : v # u \/ e # a => bal2[v][e] = bal[v][e]
  BY <1>6, <1>8, <1>13, <1>14, <1>16, BalancePut
<1>19. Ledger(need, S, bal, inex, fee, net)
  BY <1>16 DEF Money
<1>20. bal2[u][a].available = bal[u][a].available + x /\ bal2[u][a].locked = bal[u][a].locked
  BY <1>4, <1>14, <1>16, <1>17, <1>18
<1>21. Ledger(need, S, bal2, inex, fee, net2)
  <2>1. u \in Users /\ a \in Assets /\ x \in Int
    BY <1>8, <1>17
  <2>2. bal2 \in [Users -> [Assets -> Balance]]
    BY <1>18
  <2>3. net2 = [net EXCEPT ![a] = @ + x]
    BY <1>17
  <2>4. \A v \in Users, e \in Assets : v # u \/ e # a => bal2[v][e] = bal[v][e]
    BY <1>18
  <2>5. /\ bal2[u][a].available = bal[u][a].available + x
        /\ bal2[u][a].locked = bal[u][a].locked
    BY <1>20
  <2> QED
    <3>1. Transferred(bal, bal2, u, a, x)
      BY <2>1, <2>2, <2>4, <2>5 DEF Transferred
    <3> QED
      BY ONLY <1>19, <2>3, <3>1, LedgerTransfer
<1>22. Need' = need /\ Items' = S /\ fees' = fee /\ inexact' = inex /\ failed' = failed
  BY <1>6, <1>12, <1>16 DEF BookStands, bookVars, Need
<1> QED
  BY <1>12, <1>16, <1>21, <1>22 DEF Money

(* R1 locks what an order needs, or rejects it.                            *)
LEMMA YReserve ==
  ASSUME XInv, Side, Money, AmountsFit, NEW s \in RiskShards, r1_reserve(s)
  PROVE  Side' /\ Money'
<1>1. PICK n : n = slot(Pipe!R1(s))
  OBVIOUS
<1>2. PICK c : c = ring[n]
  OBVIOUS
<1>3. PICK u, a, m : /\ u = c.user_id /\ a = reserved_asset(c.side)
                     /\ m = reserved_amount(c.side, c.price, c.size)
  OBVIOUS
<1>4. PICK b : b = balances[u][a]
  OBVIOUS
<1>5. PICK r : r = lock_funds(b, m)
  OBVIOUS
<1>6. /\ Pipe!handle(Pipe!R1(s)) /\ Owns(s, c) /\ c.command = "PlaceOrder"
      /\ balances' = [balances EXCEPT ![u][a] = r.bal]
      /\ trades' = trades /\ BookStands
      /\ UNCHANGED <<settled, failed, net_deposits, fees, inexact>>
  BY <1>1, <1>2, <1>3, <1>4, <1>5 DEF r1_reserve, BookStands
<1>7. ring' = IF r.ok THEN ring ELSE [ring EXCEPT ![n].status = "Rejected"]
  BY <1>1, <1>2, <1>3, <1>4, <1>5 DEF r1_reserve
<1>8. /\ n \in Nat /\ M < n /\ n <= published /\ n = cursor[Pipe!R1(s)] + 1
      /\ c \in Waiting /\ Pipe!R1(s) \in Pipe!Handlers
  BY <1>1, <1>2, <1>6, R1Facts, WaitingFacts DEF Pipe!handle
<1>9. PartyKnown(c) /\ c.size \in Nat /\ u \in Users /\ a \in Assets
  <2>1. /\ c.user_id \in Users /\ c.side \in Book!Sides /\ c.size \in Sizes
        /\ c.price \in Prices \cup MarketPrices \cup {U64MAX}
    BY <1>8 DEF Waiting
  <2>2. c.price \in Nat /\ c.size \in Nat
    BY <2>1, MarketAssumption, MarketPricesNat
  <2> QED
    BY <1>3, <2>1, <2>2, SidesAre DEF PartyKnown
<1>10. m \in Nat
  BY <1>3, <1>9, ReservedNat DEF PartyKnown
<1>11. /\ b \in Balance /\ b.available \in Nat /\ b.locked \in Nat
       /\ b.available + b.locked <= U64MAX /\ b.available <= U64MAX
       /\ balances \in [Users -> [Assets -> Balance]]
  BY <1>4, <1>9, MoneyTyped DEF AmountsFit
<1>12. cursor'[Pipe!R1(s)] = n /\ cursor[Pipe!R1(s)] \in Nat
  BY <1>6, <1>8, HandleFacts DEF XInv
<1>13. ShardOf[c.user_id] = s
  BY <1>6 DEF Owns
<1>14. c.status = "Processing"
  <2>1. n \in M + 1 .. published
    BY <1>8, Cursors DEF XInv
  <2>2. FreshAt(c, n, cursor)
    BY <1>2, <2>1 DEF Side, Fresh
  <2>3. cursor[Pipe!R1(s)] < n
    BY <1>8, <1>12
  <2> QED
    BY <1>6, <1>13, <2>2, <2>3 DEF FreshAt
<1>15. CASE b.available >= m
  <2>1. r.ok /\ r.bal = [available |-> b.available - m, locked |-> b.locked + m]
    <3>1. b.locked + m \in Nat /\ b.locked + m <= U64MAX
      <4>1. PICK i, j : i = b.available /\ j = b.locked
        OBVIOUS
      <4>2. i \in Nat /\ j \in Nat /\ m \in Nat /\ i + j <= U64MAX /\ i >= m
        BY <1>10, <1>11, <1>15, <4>1
      <4>3. j + m \in Nat /\ j + m <= U64MAX
        BY ONLY <4>2, MarketAssumption
      <4> QED
        BY <4>1, <4>3
    <3> QED
      BY <1>5, <1>15, <3>1, WrapSmall DEF lock_funds, Ok
  <2>2. r.bal \in Balance
    <3>1. b.available - m \in 0 .. U64MAX /\ b.locked + m \in 0 .. U64MAX
      BY <1>10, <1>11, <1>15, MarketAssumption
    <3> QED
      BY <2>1, <3>1 DEF Balance
  <2>3. ring' = ring
    BY <1>7, <2>1
  <2>4. PICK h : h = HoldItem(n, c, c.size)
    OBVIOUS
  <2>5. /\ h \in Claims /\ h.slot = n /\ h.user = u /\ h.out = a
        /\ h.pay = 0 /\ h.get = 0 /\ h.slack = 0 /\ h.claim = m
    BY <1>3, <1>8, <1>9, <2>4, HoldClaims
  <2>6. FreshAt(c, n, cursor')
    BY <1>8, <1>12, <1>13 DEF FreshAt
  <2>7. /\ Front /\ Side' /\ n \in 1 .. MaxSeq
        /\ \A k \in 1 .. MaxSeq : k # n => ItemsAt(k)' = ItemsAt(k)
    BY <1>2, <1>6, <1>8, <2>3, <2>6, FrontMoves
  <2>8. ~(n = M + 1 /\ pc # "idle")
    <3>1. pc # "idle" => M < cursor[Pipe!R1(s)]
      BY DEF Side, Passed
    <3>2. M \in Nat
      BY Cursors DEF XInv
    <3> QED
      BY <1>8, <1>12, <3>1, <3>2
  <2>9. /\ M' = M /\ pc' = pc /\ published' = published
        /\ cursor'[Pipe!Events] = cursor[Pipe!Events]
    BY <1>6, <1>8, <2>7, HandleFacts DEF Front, BookStands, bookVars, XInv
  <2>10. ~(n <= cursor[Pipe!Events]) /\ ~(published < n) /\ ~(n <= M)
    BY <1>8, Cursors, HandlersAre DEF XInv
  <2>11. ItemsAt(n) = {} /\ ItemsAt(n)' = {h}
    <3>1. ItemsAt(n) = Waits(n, c, cursor)
      BY <1>2, <2>8, <2>10 DEF ItemsAt
    <3>2. ItemsAt(n)' = Waits(n, c, cursor')
      BY <1>2, <2>3, <2>8, <2>9, <2>10 DEF ItemsAt
    <3>3. Waits(n, c, cursor) = {}
      BY <1>8, <1>12, <1>13 DEF Waits
    <3>4. Waits(n, c, cursor') = {h}
      BY <1>6, <1>8, <1>12, <1>13, <1>14, <2>4 DEF Waits
    <3> QED
      BY <3>1, <3>2, <3>3, <3>4
  <2>12. /\ OneSlot(ItemsBySlot, ItemsBySlot', n)
         /\ ItemsBySlot[n] = {} /\ ItemsBySlot'[n] = {h}
         /\ Items = Spread(ItemsBySlot) /\ Items' = Spread(ItemsBySlot')
    BY <2>7, <2>11, ItemsOneSlot
  <2>13. Items' = Items \cup {h} /\ h \notin Items
    <3>1. PICK F, G : F = ItemsBySlot /\ G = ItemsBySlot'
      OBVIOUS
    <3>2. OneSlot(F, G, n) /\ h \notin F[n] /\ G[n] = F[n] \cup {h}
      BY <2>12, <3>1
    <3>3. Spread(G) = Spread(F) \cup {h} /\ h \notin Spread(F)
      BY <2>5, <3>2, SpreadPut
    <3> QED
      BY <2>12, <3>1, <3>3
  <2>14. PICK bal, bal2, net, S, need, inex, fee :
           /\ bal = balances /\ bal2 = balances' /\ net = net_deposits
           /\ S = Items /\ need = Need /\ inex = inexact /\ fee = fees
    OBVIOUS
  <2>15. /\ bal2 \in [Users -> [Assets -> Balance]] /\ bal2[u][a] = r.bal
         /\ \A v \in Users, e \in Assets : v # u \/ e # a => bal2[v][e] = bal[v][e]
    BY <1>6, <1>9, <1>11, <2>2, <2>14, BalancePut
  <2>16. Ledger(need, S, bal, inex, fee, net)
    BY <2>14 DEF Money
  <2>17. /\ bal2[u][a].available = bal[u][a].available - h.claim
         /\ bal2[u][a].locked = bal[u][a].locked + h.claim
    BY <1>4, <2>1, <2>5, <2>14, <2>15
  <2>18. Ledger(need, S \cup {h}, bal2, inex, fee, net)
    <3>1. h \in Claims /\ h \notin S /\ h.pay = 0 /\ h.get = 0 /\ h.slack = 0
      BY <2>5, <2>13, <2>14
    <3>2. bal2 \in [Users -> [Assets -> Balance]]
      BY <2>15
    <3>3. /\ bal2[h.user][h.out].available = bal[h.user][h.out].available - h.claim
          /\ bal2[h.user][h.out].locked = bal[h.user][h.out].locked + h.claim
      BY <2>5, <2>17
    <3>4. \A v \in Users, e \in Assets :
            v # h.user \/ e # h.out => bal2[v][e] = bal[v][e]
      BY <2>5, <2>15
    <3> QED
      <4>1. Reserves(bal, bal2, h)
        BY <3>1, <3>2, <3>3, <3>4 DEF Reserves
      <4> QED
        BY ONLY <2>16, <3>1, <4>1, LedgerReserve
  <2>19. /\ Need' = need /\ Items' = S \cup {h} /\ fees' = fee /\ inexact' = inex
         /\ failed' = failed /\ net_deposits' = net
    BY <1>6, <2>13, <2>14 DEF BookStands, bookVars, Need
  <2> QED
    BY <2>7, <2>14, <2>18, <2>19 DEF Money
<1>16. CASE ~(b.available >= m)
  <2>1. ~r.ok /\ r.bal = b
    BY <1>5, <1>16 DEF lock_funds, Err
  <2>2. PICK d : d = [c EXCEPT !.status = "Rejected"]
    OBVIOUS
  <2>3. /\ d.status = "Rejected" /\ d.command = c.command
        /\ d.user_id = c.user_id
    BY <1>6, <1>8, <2>2, RejectedWaits
  <2>4. ring' = [ring EXCEPT ![n] = d]
    BY <1>2, <1>7, <2>1, <2>2
  <2>5. /\ Pipe!handle(Pipe!R1(s)) /\ trades' = trades /\ BookStands
        /\ settled' = settled /\ Owns(s, c)
    BY <1>6
  <2>6. Side' /\ Items' = Items
    BY <1>1, <1>2, <2>3, <2>4, <2>5, YNoClaim
  <2>7. balances' = balances
    BY <1>4, <1>6, <1>9, <1>11, <2>1
  <2>8. UNCHANGED riskVars
    BY <1>6, <2>7 DEF riskVars
  <2> QED
    BY <2>5, <2>6, <2>8, FrontCalm, CalmMoney
<1> QED
  BY <1>15, <1>16

-----------------------------------------------------------------------------
(* Steps of the matching engine.                                           *)

(* The engine serves the command of slot M + 1: only the claims of this    *)
(* slot change.                                                            *)
Serves ==
  /\ UNCHANGED <<published, cursor, ring, trades, riskVars>>
  /\ pc' # "idle"
  /\ pc = "idle" => Pipe!available(Pipe!Matching(0))

ClaimsNow ==
  IF pc = "idle" THEN Waits(M + 1, ring[M + 1], cursor)
  ELSE InMatch(M + 1, cmd, pc, remaining, events)

ClaimsNext == InMatch(M + 1, cmd', pc', remaining', events')

(* So the claims of the slot are all that a step of the engine changes.    *)
LEMMA Serving ==
  ASSUME XInv, Side, Serves, Served', Priced'
  PROVE  /\ Side' /\ M + 1 \in 1 .. MaxSeq /\ M + 1 \in Nat
         /\ \A k \in 1 .. MaxSeq : k # M + 1 => ItemsAt(k)' = ItemsAt(k)
         /\ ItemsAt(M + 1) = ClaimsNow /\ ItemsAt(M + 1)' = ClaimsNext
<1>0. Filed /\ Fresh /\ Passed /\ Settling
  BY DEF Side
<1>1. /\ UNCHANGED <<published, cursor, ring, trades, settled>>
      /\ M' = M /\ pc' # "idle"
  BY DEF Serves, riskVars, M
<1>2. /\ M \in Nat /\ published \in Nat /\ M < published /\ published <= MaxSeq
      /\ MaxSeq \in Nat /\ cursor[Pipe!Events] \in Nat /\ cursor[Pipe!Events] <= M
      /\ \A s \in RiskShards : M < cursor[Pipe!R1(s)]
  <2>1. /\ M \in Nat /\ published \in Nat /\ published <= MaxSeq
        /\ MaxSeq \in Nat /\ cursor[Pipe!Events] \in Nat /\ cursor[Pipe!Events] <= M
    BY Cursors, HandlersAre DEF XInv
  <2>2. CASE pc = "idle"
    BY <2>1, <2>2, Barred DEF XInv, Serves
  <2>3. CASE pc # "idle"
    BY <1>0, <2>1, <2>3 DEF XInv, IdsAhead, Passed
  <2> QED
    BY <2>2, <2>3
<1>3. Side'
  <2>1. Filed'
    BY <1>0, <1>1 DEF Filed
  <2>2. Fresh'
    BY <1>0, <1>1 DEF Fresh
  <2>3. Passed'
    BY <1>1, <1>2 DEF Passed
  <2>4. Settling'
    BY <1>0, <1>1 DEF Settling, R2Slot, slot
  <2> QED
    BY <2>1, <2>2, <2>3, <2>4 DEF Side
<1>4. ASSUME NEW k \in 1 .. MaxSeq, k # M + 1
      PROVE  ItemsAt(k)' = ItemsAt(k)
  BY <1>1, <1>4 DEF ItemsAt
<1>5. M + 1 \in 1 .. MaxSeq /\ M + 1 \in Nat
  BY <1>2
<1>6. /\ ~(M + 1 <= cursor[Pipe!Events]) /\ ~(published < M + 1)
      /\ ~(M + 1 <= M)
  BY <1>2
<1>7. ItemsAt(M + 1) = ClaimsNow
  BY <1>6 DEF ItemsAt, ClaimsNow
<1>8. ItemsAt(M + 1)' = ClaimsNext
  BY <1>1, <1>6 DEF ItemsAt, ClaimsNext
<1> QED
  BY <1>3, <1>4, <1>5, <1>7, <1>8

(* ... and these stay, too.                                                *)
LEMMA ServeCalm ==
  ASSUME XInv, Side, Serves, Served', Priced', book' = book,
         ClaimsNext = ClaimsNow
  PROVE  Side' /\ Calm
<1>1. \A k \in 1 .. MaxSeq : ItemsAt(k)' = ItemsAt(k)
  <2>1. /\ \A k \in 1 .. MaxSeq : k # M + 1 => ItemsAt(k)' = ItemsAt(k)
        /\ ItemsAt(M + 1) = ClaimsNow /\ ItemsAt(M + 1)' = ClaimsNext
    BY Serving
  <2>2. M' = M
    BY DEF Serves, M
  <2> SUFFICES ASSUME NEW k \in 1 .. MaxSeq PROVE ItemsAt(k)' = ItemsAt(k)
    OBVIOUS
  <2>3. CASE k = M + 1
    <3>1. PICK n : n = M + 1
      OBVIOUS
    <3>2. ItemsAt(n)' = ItemsAt(n)
      BY <2>1, <2>2, <3>1
    <3> QED
      BY <2>3, <3>1, <3>2
  <2> QED
    BY <2>1, <2>3
<1>2. Items' = Items
  BY <1>1, ItemsKept
<1> QED
  BY <1>2, Serving DEF Calm, Serves, Need

(* No events, no settlements.                                              *)
LEMMA DueNone ==
  ASSUME NEW n, NEW c PROVE DueItems(n, c, <<>>) = {}
  BY DEF DueItems, Deals

(* A new order is matched, or killed.                                      *)
LEMMA YPlace ==
  ASSUME XInv, Side, process_order, NEW c, c = ring[M + 1],
         c.command = "PlaceOrder", Book!place_order(c)
  PROVE  Side' /\ Calm
<1>1. PICK n : n = M + 1
  OBVIOUS
<1>2. /\ Pipe!available(Pipe!Matching(0)) /\ c.status # "Rejected"
      /\ UNCHANGED <<published, cursor, ring, trades, riskVars>>
  BY DEF process_order, MatchSlot, slot, M
<1>3. /\ pc = "idle" /\ remaining' = c.size /\ level' = Book!NoPrice /\ events' = <<>>
      /\ book' = book
      /\ \/ cmd' = [c EXCEPT !.status = "Cancelled"] /\ pc' = "done"
         \/ cmd' = c /\ pc' = "matching"
  BY DEF Book!place_order, Book!Serve
<1>4. /\ M \in Nat /\ M < published /\ published \in Nat
      /\ \A s \in RiskShards : M < cursor[Pipe!R1(s)] /\ cursor[Pipe!R1(s)] \in Nat
  BY <1>2, Barred, Cursors, HandlersAre DEF XInv
<1>5. Sound(c, n, cursor) /\ c \in Waiting /\ ShardOf[c.user_id] \in RiskShards
  <2>1. Sound(c, n, cursor) /\ c \in Waiting \cup Book!Cancels \cup Moving
    BY <1>1, <1>4, AtSlot
  <2> QED
    BY <2>1, WaitingFacts
<1>6. n <= cursor[Pipe!R1(ShardOf[c.user_id])]
  BY <1>1, <1>4, <1>5
<1>7. ~MarketBuy(c)
  BY <1>2, <1>5, <1>6 DEF Sound
<1>8. /\ c.price \in Prices \cup MarketPrices /\ c.price <= U64MAX
      /\ c.size \in Sizes /\ c.size \in Nat
  <2>1. /\ c.price \in Prices \cup MarketPrices \cup {U64MAX} /\ c.size \in Sizes
        /\ c.price = U64MAX => c.side = "Bid"
        /\ c.price <= U64MAX
    BY <1>5 DEF Waiting
  <2> QED
    BY <1>7, <2>1, MarketAssumption DEF MarketBuy
<1>9. Serves
  BY <1>2, <1>3 DEF Serves
<1>10. Served'
  BY <1>3 DEF Served
<1>11. Priced'
  <2>1. SizesKnown(Stock(book))'
    BY <1>3 DEF Side, Priced
  <2>2. level' = BP!NoPrice
    BY <1>3, SameBookData
  <2>3. pc' = "matching" => cmd' = c
    BY <1>3
  <2> QED
    BY <1>3, <1>8, <2>1, <2>2, <2>3 DEF Priced
<1>12. ClaimsNow = {HoldItem(n, c, c.size)}
  BY <1>1, <1>2, <1>3, <1>6 DEF ClaimsNow, Waits
<1>13. ClaimsNext = {HoldItem(n, c, c.size)}
  <2>1. CASE cmd' = c /\ pc' = "matching"
    BY <1>1, <1>3, <2>1, DueNone DEF ClaimsNext, InMatch
  <2>2. CASE cmd' = [c EXCEPT !.status = "Cancelled"] /\ pc' = "done"
    <3>1. PICK d : d = cmd'
      OBVIOUS
    <3>2. /\ d.status = "Cancelled" /\ d.user_id = c.user_id /\ d.side = c.side
          /\ d.price = c.price /\ d.size = c.size
      BY <1>5, <2>2, <3>1 DEF Waiting
    <3>3. HoldItem(n, d, d.size) = HoldItem(n, c, c.size)
      BY <3>2 DEF HoldItem
    <3>4. should_handle_cancellation(d)
      BY <3>2 DEF should_handle_cancellation
    <3>5. ClaimsNext = {HoldItem(n, d, d.size)}
      BY <1>1, <1>3, <2>2, <3>1, <3>4, DueNone DEF ClaimsNext, InMatch
    <3> QED
      BY <3>3, <3>5
  <2> QED
    BY <1>3, <2>1, <2>2
<1> QED
  BY <1>3, <1>9, <1>10, <1>11, <1>12, <1>13, ServeCalm

(* The engine looks at the next level, or passes over an own order.        *)
LEMMA YLook ==
  ASSUME XInv, Side, match_step,
         (\E p \in Prices : Book!open_level(p)) \/ Book!skip_own_order
  PROVE  Side' /\ Calm
<1>1. /\ pc = "matching" /\ UNCHANGED <<book, cmd, pc, remaining, events>>
      /\ UNCHANGED <<published, cursor, ring, trades, riskVars>>
  BY DEF match_step, Book!open_level, Book!skip_own_order
<1>2. level' # BP!NoPrice => BP!price_check(cmd.side, cmd.price, level')
  <2>1. CASE \E p \in Prices : Book!open_level(p)
    BY <2>1 DEF Book!open_level, Book!Ahead, Book!price_check, BP!price_check
  <2>2. CASE Book!skip_own_order
    BY <1>1, <2>2 DEF Book!skip_own_order, Side, Priced
  <2> QED
    BY <2>1, <2>2
<1>3. Served'
  BY <1>1 DEF Served
<1>4. Priced'
  <2>1. SizesKnown(Stock(book))'
    BY <1>1 DEF Side, Priced
  <2>2. /\ cmd.price \in Prices \cup MarketPrices /\ cmd.price <= U64MAX
        /\ cmd.size \in Sizes /\ remaining <= cmd.size
    BY <1>1 DEF Side, Priced
  <2> QED
    BY <1>1, <1>2, <2>1, <2>2 DEF Priced
<1>5. Serves /\ ClaimsNext = ClaimsNow
  BY <1>1 DEF Serves, ClaimsNext, ClaimsNow
<1> QED
  BY <1>1, <1>3, <1>4, <1>5, ServeCalm

(* An order leaves the book: what it needed is now held by the cancel.     *)
LEMMA YCancel ==
  ASSUME XInv, Side, Money, process_order, NEW c, c = ring[M + 1],
         c.command = "CancelOrder", Book!cancel_order(c)
  PROVE  Side' /\ Money'
<1>1. PICK n : n = M + 1
  OBVIOUS
<1>2. /\ Pipe!available(Pipe!Matching(0))
      /\ UNCHANGED <<published, cursor, ring, trades, riskVars>>
  BY DEF process_order
<1>3. pc = "idle" /\ pc' = "done" /\ events' = <<>>
  BY DEF Book!cancel_order, Book!Serve
<1>4. M \in Nat /\ M < published /\ published \in Nat
  BY <1>2, Barred, Cursors DEF XInv
<1>5. c \in BP!Cancels /\ BP!cancel_order(c)
  <2>1. c \in Waiting \cup Book!Cancels \cup Moving
    BY <1>4, AtSlot
  <2> QED
    BY <2>1, WaitingFacts, SameBookData, SameBookSteps
<1>6. BP!Totals
  BY DEF XInv
<1>7. Serves /\ Served'
  BY <1>2, <1>3 DEF Serves, Served
<1>8. ClaimsNow = {}
  BY <1>3 DEF ClaimsNow, Waits
<1>9. \/ \E s \in BP!Sides, p \in Prices, i \in Nat : BP!CancelTakes(s, p, i)
      \/ /\ book' = book
         /\ cmd'.command = "CancelOrder" /\ cmd'.status = "Rejected"
  BY <1>5, <1>6, BP!CancelShape, BookAssumes
<1>10. CASE book' = book /\ cmd'.status = "Rejected"
  <2>1. Priced'
    <3>1. SizesKnown(Stock(book))'
      BY <1>10 DEF Side, Priced
    <3> QED
      BY <1>3, <3>1 DEF Priced
  <2>2. ClaimsNext = {}
    BY <1>3, <1>10, DueNone DEF ClaimsNext, InMatch, should_handle_cancellation
  <2> QED
    BY <1>7, <1>8, <1>10, <2>1, <2>2, ServeCalm, CalmMoney
<1>11. ASSUME NEW s \in BP!Sides, NEW p \in Prices, NEW i \in Nat,
              BP!CancelTakes(s, p, i)
       PROVE  Side' /\ Money'
  <2>1. PICK o : o = book[s][p][i]
    OBVIOUS
  <2>2. PICK d : d = cmd'
    OBVIOUS
  <2>3. /\ i \in 1 .. Len(book[s][p]) /\ BP!Removal(s, p, i)
        /\ d.status = "Cancelled" /\ d.size = o.size /\ d.side = s
        /\ d.price = p /\ d.user_id = o.user_id
    BY <1>11, <2>1, <2>2 DEF BP!CancelTakes
  <2>4. /\ Need \in Amounts /\ Need' \in Amounts
        /\ o.user_id \in Users /\ reserved_asset(s) \in Assets
        /\ reserved_amount(s, p, o.size) \in Nat
        /\ Need[o.user_id][reserved_asset(s)]
             = Need'[o.user_id][reserved_asset(s)] + reserved_amount(s, p, o.size)
        /\ \A v \in Users, a \in Assets :
             v # o.user_id \/ a # reserved_asset(s) => Need'[v][a] = Need[v][a]
        /\ SizesKnown(Stock(book)) => SizesKnown(Stock(book'))
    BY <1>6, <2>1, <2>3, RemovedNeed
  <2>5. Priced'
    <3>1. SizesKnown(Stock(book))
      BY DEF Side, Priced
    <3>2. SizesKnown(Stock(book))'
      BY <2>4, <3>1
    <3> QED
      BY <1>3, <3>2 DEF Priced
  <2>6. PICK h : h = HoldItem(n, d, d.size)
    OBVIOUS
  <2>7. PartyKnown(d) /\ o.size \in Nat
    <3>1. o.size \in Nat
      <4>1. BP!TypeOK
        BY <1>6 DEF BP!Totals, BP!IInv
      <4>2. o.size \in Nat \ {0}
        BY <2>1, <2>3, <4>1, BP!RestingTyped, BookAssumes
      <4> QED
        BY <4>2
    <3>2. p \in Nat
      BY MarketAssumption
    <3> QED
      BY <2>3, <2>4, <3>1, <3>2 DEF PartyKnown
  <2>8. /\ h \in Claims /\ h.slot = n /\ h.user = o.user_id
        /\ h.out = reserved_asset(s) /\ h.pay = 0 /\ h.get = 0 /\ h.slack = 0
        /\ h.claim = reserved_amount(s, p, o.size)
    BY <1>1, <1>4, <2>3, <2>6, <2>7, HoldClaims
  <2>9. ClaimsNext = {h}
    <3>1. should_handle_cancellation(d)
      BY <2>3 DEF should_handle_cancellation
    <3> QED
      BY <1>1, <1>3, <2>2, <2>6, <3>1, DueNone DEF ClaimsNext, InMatch
  <2>10. /\ Side' /\ n \in 1 .. MaxSeq
         /\ \A k \in 1 .. MaxSeq : k # n => ItemsAt(k)' = ItemsAt(k)
         /\ ItemsAt(n) = {} /\ ItemsAt(n)' = {h}
    <3>1. /\ Side' /\ M + 1 \in 1 .. MaxSeq
          /\ \A k \in 1 .. MaxSeq : k # M + 1 => ItemsAt(k)' = ItemsAt(k)
          /\ ItemsAt(M + 1) = {} /\ ItemsAt(M + 1)' = {h}
      BY <1>7, <1>8, <2>5, <2>9, Serving
    <3>2. M' = M
      BY <1>2 DEF M
    <3> QED
      BY <1>1, <3>1, <3>2
  <2>11. /\ OneSlot(ItemsBySlot, ItemsBySlot', n)
         /\ ItemsBySlot[n] = {} /\ ItemsBySlot'[n] = {h}
         /\ Items = Spread(ItemsBySlot) /\ Items' = Spread(ItemsBySlot')
    BY <2>10, ItemsOneSlot
  <2>12. Items' = Items \cup {h} /\ h \notin Items
    <3>1. PICK F, G : F = ItemsBySlot /\ G = ItemsBySlot'
      OBVIOUS
    <3>2. OneSlot(F, G, n) /\ h \notin F[n] /\ G[n] = F[n] \cup {h}
      BY <2>11, <3>1
    <3>3. Spread(G) = Spread(F) \cup {h} /\ h \notin Spread(F)
      BY <2>8, <3>2, SpreadPut
    <3> QED
      BY <2>11, <3>1, <3>3
  <2>13. PICK need, need2, S : need = Need /\ need2 = Need' /\ S = Items
    OBVIOUS
  <2>14. Holds(h) /\ h \notin S
    BY <2>8, <2>12, <2>13 DEF Holds
  <2>15. Splits(need, need2, h)
    BY <2>4, <2>8, <2>13 DEF Splits
  <2>16. ~failed /\ Ledger(need, S, balances, inexact, fees, net_deposits)
    BY <2>13 DEF Money
  <2>17. Ledger(need2, S \cup {h}, balances, inexact, fees, net_deposits)
    BY <2>14, <2>15, <2>16, LedgerTakeOff
  <2>18. UNCHANGED <<balances, inexact, fees, net_deposits, failed>>
    BY <1>2 DEF riskVars
  <2> QED
    BY <2>10, <2>12, <2>13, <2>16, <2>17, <2>18 DEF Money
<1> QED
  BY <1>9, <1>10, <1>11

-----------------------------------------------------------------------------
(* A trade.                                                                *)

MakerOf(k) == [event |-> k, role |-> "maker"]
TakerOf(k) == [event |-> k, role |-> "taker"]

(* A trade adds two settlements.                                           *)
LEMMA DueAppend ==
  ASSUME NEW n, NEW c, NEW ev \in Seq(BP!Event), NEW e \in BP!Event,
         NEW k, k = Len(ev) + 1,
         NEW d1, d1 = DueItem(n, MakerOf(k), c, e),
         NEW d2, d2 = DueItem(n, TakerOf(k), c, e)
  PROVE  /\ DueItems(n, c, Append(ev, e)) = DueItems(n, c, ev) \cup {d1, d2}
         /\ d1 \notin DueItems(n, c, ev) /\ d2 \notin DueItems(n, c, ev)
         /\ d1 # d2
<1> DEFINE E == [event: Nat \ {0}, role: Roles]
<1>1. k \in Nat \ {0} /\ Len(ev) \in Nat
  OBVIOUS
<1>2. PICK ev2 : ev2 = Append(ev, e)
  OBVIOUS
<1>3. /\ ev2 \in Seq(BP!Event) /\ Len(ev2) = k /\ ev2[k] = e
      /\ \A i \in 1 .. Len(ev) : ev2[i] = ev[i]
  BY <1>2
<1>4. MakerOf(k) \in E /\ TakerOf(k) \in E /\ MakerOf(k) # TakerOf(k)
  BY <1>1 DEF MakerOf, TakerOf, Roles
<1>5. ASSUME NEW x PROVE x \in Deals(ev2) <=>
        x \in Deals(ev) \/ x = MakerOf(k) \/ x = TakerOf(k)
  <2>1. x \in Deals(ev2) <=>
          \E i \in 1 .. k, r \in Roles : x = [event |-> i, role |-> r]
    BY <1>3 DEF Deals
  <2>2. x \in Deals(ev) <=>
          \E i \in 1 .. Len(ev), r \in Roles : x = [event |-> i, role |-> r]
    BY DEF Deals
  <2>3. \A i : i \in 1 .. k <=> i \in 1 .. Len(ev) \/ i = k
    BY <1>1
  <2>4. \A r : r \in Roles <=> r = "maker" \/ r = "taker"
    BY DEF Roles
  <2> QED
    BY <2>1, <2>2, <2>3, <2>4 DEF MakerOf, TakerOf
<1>6. \A x \in Deals(ev) : /\ x \in E /\ x.event \in 1 .. Len(ev)
                           /\ ev2[x.event] = ev[x.event]
                           /\ x.event # k
  <2>1. \A x \in Deals(ev) : x \in E /\ x.event \in 1 .. Len(ev)
    BY DealsPlaced
  <2> QED
    BY <1>1, <1>3, <2>1
<1>7. MakerOf(k).event = k /\ TakerOf(k).event = k
  BY DEF MakerOf, TakerOf
<1>8. DueItems(n, c, ev2) = DueItems(n, c, ev) \cup {d1, d2}
  BY <1>3, <1>5, <1>6, <1>7 DEF DueItems
<1>9. ASSUME NEW y \in {MakerOf(k), TakerOf(k)}
      PROVE  DueItem(n, y, c, e) \notin DueItems(n, c, ev)
  <2> SUFFICES ASSUME NEW x \in Deals(ev),
                      DueItem(n, y, c, e) = DueItem(n, x, c, ev[x.event])
               PROVE  FALSE
    BY DEF DueItems
  <2>1. y = x
    BY <1>4, <1>6, DuePlaces
  <2> QED
    BY <1>6, <1>7, <2>1
<1>10. d1 # d2
  BY <1>4, DuePlaces
<1> QED
  BY <1>2, <1>8, <1>9, <1>10

(* What a taker's claim is split into by a trade: the rest of the order,   *)
(* the payment and what is given back; rounding leaves at most two units.  *)
LEMMA TakerSplit ==
  ASSUME NEW s \in BP!Sides, NEW l \in Nat, NEW rem \in Nat,
         NEW e \in BP!Event, e.size <= rem, BP!price_check(s, l, e.price),
         s = "Bid" => Fits(l, rem),
         NEW back, back = refund(FALSE, s, l, e),
         NEW sl, sl = IF s = "Bid" /\ Rounded(e.price, l, e.size) THEN 2 ELSE 0
  PROVE  /\ reserved_amount(s, l, rem - e.size)
              + (reserved_amount(s, e.price, e.size) + back)
              <= reserved_amount(s, l, rem)
         /\ reserved_amount(s, l, rem)
              <= reserved_amount(s, l, rem - e.size)
                   + (reserved_amount(s, e.price, e.size) + back) + sl
<1>1. e.price \in Nat /\ e.size \in Nat
  BY MarketAssumption DEF BP!Event
<1>2. CASE s = "Bid"
  <2>1. e.price <= l
    BY <1>1, <1>2 DEF BP!price_check
  <2>2. PICK p, t, big, left, paid :
          /\ p = e.price /\ t = e.size
          /\ big = calculate_quote_cost(l, rem)
          /\ left = calculate_quote_cost(l, rem - e.size)
          /\ paid = calculate_quote_cost(e.price, e.size)
    OBVIOUS
  <2>3. /\ big \in Nat /\ paid \in Nat /\ left \in Nat /\ back \in Nat
        /\ left + paid + back <= big
        /\ big <= left + paid + back + sl
    BY <1>1, <1>2, <2>1, <2>2, TakerParts
  <2>4. sl \in Nat
    OBVIOUS
  <2>5. left + (paid + back) <= big /\ big <= left + (paid + back) + sl
    BY ONLY <2>3, <2>4
  <2> QED
    BY <1>2, <2>2, <2>5 DEF reserved_amount
<1>3. CASE s # "Bid"
  BY <1>1, <1>3 DEF reserved_amount, refund
<1> QED
  BY <1>2, <1>3

(* The same for what a maker's order needs.                                *)
LEMMA MakerSplit ==
  ASSUME NEW s \in BP!Sides, NEW p \in Nat, NEW z \in Nat, NEW t \in Nat, t <= z,
         s = "Bid" => Fits(p, z),
         NEW sl, sl = IF s = "Bid" /\ Rounded(p, p, t) THEN 2 ELSE 0
  PROVE  /\ reserved_amount(s, p, z - t) + reserved_amount(s, p, t)
              <= reserved_amount(s, p, z)
         /\ reserved_amount(s, p, z)
              <= reserved_amount(s, p, z - t) + reserved_amount(s, p, t) + sl
<1>1. CASE s = "Bid"
  BY <1>1, MakerParts DEF reserved_amount
<1>2. CASE s # "Bid"
  BY <1>2 DEF reserved_amount
<1> QED
  BY <1>1, <1>2

(* The claims of a trade.                                                  *)
Trading(c, e, rem) ==
  /\ PartyKnown(c) /\ e \in BP!Event /\ e.maker_user_id # c.user_id
  /\ rem \in Nat /\ e.size <= rem /\ BP!price_check(c.side, c.price, e.price)
  /\ Fits(c.price, rem)

(* What the taker held covers his payment, his refund and what he still    *)
(* needs; what one party pays the other gets.                              *)
LEMMA TradeIsFair ==
  ASSUME NEW n \in Nat, NEW k \in Nat \ {0}, NEW c, NEW e, NEW rem,
         Trading(c, e, rem), NEW h, h = HoldItem(n, c, rem),
         NEW h2, h2 = HoldItem(n, c, rem - e.size),
         NEW d1, d1 = DueItem(n, MakerOf(k), c, e),
         NEW d2, d2 = DueItem(n, TakerOf(k), c, e)
  PROVE  /\ TradeClaims(h, h2, d1, d2)
         /\ d1.user = e.maker_user_id
         /\ d1.out = reserved_asset(BP!op_side(c.side))
         /\ d1.claim = reserved_amount(BP!op_side(c.side), e.price, e.size)
         /\ d1.slack = IF BP!op_side(c.side) = "Bid" /\ Rounded(e.price, e.price, e.size)
                       THEN 2 ELSE 0
<1> SUFFICES ASSUME PartyKnown(c), e \in BP!Event, e.maker_user_id # c.user_id,
                    rem \in Nat, e.size <= rem,
                    BP!price_check(c.side, c.price, e.price), Fits(c.price, rem)
             PROVE  /\ TradeClaims(h, h2, d1, d2)
                    /\ d1.user = e.maker_user_id
                    /\ d1.out = reserved_asset(BP!op_side(c.side))
                    /\ d1.claim = reserved_amount(BP!op_side(c.side), e.price, e.size)
                    /\ d1.slack = IF BP!op_side(c.side) = "Bid"
                                     /\ Rounded(e.price, e.price, e.size)
                                  THEN 2 ELSE 0
  BY DEF Trading
<1> DEFINE s == c.side
           o == BP!op_side(c.side)
<1>1. /\ s \in BP!Sides /\ o \in BP!Sides /\ BP!op_side(o) = s
      /\ c.price \in Nat /\ c.user_id \in Users
      /\ reserved_asset(o) # reserved_asset(s)
  BY SidesAre DEF PartyKnown, BP!op_side, BP!Sides
<1>2. e.price \in Nat /\ e.size \in Nat /\ rem - e.size \in Nat
  <2>1. e.price \in Nat /\ e.size \in Nat
    BY MarketAssumption DEF BP!Event
  <2> QED
    BY <2>1
<1>3. /\ MakerOf(k) \in [event: Nat \ {0}, role: Roles]
      /\ TakerOf(k) \in [event: Nat \ {0}, role: Roles]
      /\ MakerOf(k) # TakerOf(k)
      /\ MakerOf(k).role = "maker" /\ TakerOf(k).role = "taker"
  BY DEF MakerOf, TakerOf, Roles
<1>4. /\ SideIn(MakerOf(k), c) = o /\ SideIn(TakerOf(k), c) = s
      /\ Payer(MakerOf(k), c, e) = e.maker_user_id
      /\ Payer(TakerOf(k), c, e) = c.user_id
      /\ LimitIn(MakerOf(k), c, e) = e.price /\ LimitIn(TakerOf(k), c, e) = c.price
  BY <1>3 DEF SideIn, Payer, LimitIn
<1>5. /\ Refund(MakerOf(k), c, e) = 0
      /\ Refund(TakerOf(k), c, e) = refund(FALSE, s, c.price, e)
  BY <1>3, <1>4 DEF Refund, refund
<1>6. /\ h \in Claims /\ h.place = 0 /\ h.user = c.user_id /\ h.out = reserved_asset(s)
      /\ h.pay = 0 /\ h.get = 0 /\ h.slack = 0
      /\ h.claim = reserved_amount(s, c.price, rem)
  BY HoldClaims
<1>7. /\ h2 \in Claims /\ h2.place = 0 /\ h2.user = c.user_id
      /\ h2.out = reserved_asset(s)
      /\ h2.pay = 0 /\ h2.get = 0 /\ h2.slack = 0
      /\ h2.claim = reserved_amount(s, c.price, rem - e.size)
  BY <1>2, HoldClaims
<1>8. /\ d1 \in Claims /\ d1.place = Place(MakerOf(k)) /\ d1.user = e.maker_user_id
      /\ d1.out = reserved_asset(o) /\ d1.in = reserved_asset(BP!op_side(o))
      /\ d1.pay = reserved_amount(o, e.price, e.size)
      /\ d1.claim = d1.pay + Refund(MakerOf(k), c, e)
      /\ d1.get = reserved_amount(BP!op_side(o), e.price, e.size)
      /\ d1.slack = IF Inexact(MakerOf(k), c, e) THEN 2 ELSE 0
  <2>1. d1 \in Claims /\ d1.place = Place(MakerOf(k))
        /\ d1.user = Payer(MakerOf(k), c, e)
        /\ d1.out = reserved_asset(SideIn(MakerOf(k), c))
        /\ d1.in = reserved_asset(BP!op_side(SideIn(MakerOf(k), c)))
        /\ d1.pay = reserved_amount(SideIn(MakerOf(k), c), e.price, e.size)
        /\ d1.claim = d1.pay + Refund(MakerOf(k), c, e)
        /\ d1.get = reserved_amount(BP!op_side(SideIn(MakerOf(k), c)), e.price, e.size)
        /\ d1.slack = IF Inexact(MakerOf(k), c, e) THEN 2 ELSE 0
    BY <1>3, DueClaims
  <2> QED
    BY <1>4, <2>1
<1>9. /\ d2 \in Claims /\ d2.place = Place(TakerOf(k)) /\ d2.user = c.user_id
      /\ d2.out = reserved_asset(s) /\ d2.in = reserved_asset(o)
      /\ d2.pay = reserved_amount(s, e.price, e.size)
      /\ d2.claim = d2.pay + Refund(TakerOf(k), c, e)
      /\ d2.get = reserved_amount(o, e.price, e.size)
      /\ d2.slack = IF Inexact(TakerOf(k), c, e) THEN 2 ELSE 0
  <2>1. d2 \in Claims /\ d2.place = Place(TakerOf(k))
        /\ d2.user = Payer(TakerOf(k), c, e)
        /\ d2.out = reserved_asset(SideIn(TakerOf(k), c))
        /\ d2.in = reserved_asset(BP!op_side(SideIn(TakerOf(k), c)))
        /\ d2.pay = reserved_amount(SideIn(TakerOf(k), c), e.price, e.size)
        /\ d2.claim = d2.pay + Refund(TakerOf(k), c, e)
        /\ d2.get = reserved_amount(BP!op_side(SideIn(TakerOf(k), c)), e.price, e.size)
        /\ d2.slack = IF Inexact(TakerOf(k), c, e) THEN 2 ELSE 0
    BY <1>3, DueClaims
  <2> QED
    BY <1>4, <2>1
<1>10. h2 # d1 /\ h2 # d2 /\ d1 # d2
  BY <1>3, DueDiffer
<1>11. /\ d1.slack = IF o = "Bid" /\ Rounded(e.price, e.price, e.size) THEN 2 ELSE 0
       /\ d2.slack = IF s = "Bid" /\ Rounded(e.price, c.price, e.size) THEN 2 ELSE 0
  BY <1>4, <1>8, <1>9 DEF Inexact
<1>12. d1.claim = reserved_amount(o, e.price, e.size)
  <2>1. reserved_amount(o, e.price, e.size) \in Nat
    BY <1>2, ReservedNat
  <2> QED
    BY <1>5, <1>8, <2>1
<1> HIDE DEF s, o
<1>13. h2.claim + d2.claim <= h.claim /\ h.claim <= h2.claim + d2.claim + d2.slack
  <2>1. PICK back : back = refund(FALSE, s, c.price, e)
    OBVIOUS
  <2>2. PICK l : l = c.price
    OBVIOUS
  <2>3. PICK sl : sl = IF s = "Bid" /\ Rounded(e.price, l, e.size) THEN 2 ELSE 0
    OBVIOUS
  <2>4. BP!price_check(s, l, e.price) /\ (s = "Bid" => Fits(l, rem))
    BY <2>2 DEF s
  <2>5. /\ reserved_amount(s, l, rem - e.size)
             + (reserved_amount(s, e.price, e.size) + back)
             <= reserved_amount(s, l, rem)
        /\ reserved_amount(s, l, rem)
             <= reserved_amount(s, l, rem - e.size)
                  + (reserved_amount(s, e.price, e.size) + back) + sl
    BY <1>1, <2>1, <2>2, <2>3, <2>4, TakerSplit
  <2>6. d2.claim = reserved_amount(s, e.price, e.size) + back /\ d2.slack = sl
    BY <1>5, <1>9, <1>11, <2>1, <2>2, <2>3
  <2> QED
    BY <1>6, <1>7, <2>2, <2>5, <2>6
<1>14. TradeClaims(h, h2, d1, d2)
  BY <1>1, <1>6, <1>7, <1>8, <1>9, <1>10, <1>13 DEF TradeClaims
<1> QED
  BY <1>8, <1>11, <1>12, <1>14 DEF o

(* The taker trades with a maker.                                          *)
LEMMA YFill ==
  ASSUME XInv, XInv', Side, Money, AmountsFit, match_step, Book!fill_maker
  PROVE  Side' /\ Money'
<1>1. PICK n : n = M + 1
  OBVIOUS
<1>2. UNCHANGED <<published, cursor, ring, trades, riskVars>>
  BY DEF match_step
<1>3. BP!Totals /\ BP!Totals' /\ BP!fill_maker
  BY SameBookSteps DEF XInv
<1>4. PICK s, m, trade, left : BP!FillFacts(s, m, trade, left)
  BY <1>3, BP!FillStep, BookAssumes
<1>5. PICK c, ev, rem, lev : c = cmd /\ ev = events /\ rem = remaining /\ lev = level
  OBVIOUS
<1>6. PICK e : e = BP!trade_event(m, trade)
  OBVIOUS
<1>7. /\ s = BP!op_side(c.side) /\ s \in BP!Sides /\ lev \in Prices
      /\ m.user_id # c.user_id /\ m.size \in Nat /\ m.original_size \in Nat
      /\ m.size <= m.original_size
      /\ rem \in Nat /\ trade \in Nat /\ left \in Nat /\ left = m.size - trade
      /\ remaining' = rem - trade /\ rem - trade \in Nat
      /\ pc = "matching" /\ cmd' = c /\ pc' = pc /\ level' = lev
      /\ events' = Append(ev, e) /\ ev \in Seq(BP!Event) /\ e \in BP!Event
  BY <1>4, <1>5, <1>6 DEF BP!FillFacts
<1>8. e.price = lev /\ e.size = trade /\ e.maker_user_id = m.user_id
  BY <1>5, <1>6 DEF BP!trade_event
<1>9. trade <= rem /\ trade <= m.size
  BY <1>7
<1>10. c \in BP!Command /\ PartyKnown(c)
  <2>1. c \in BP!Command
    BY <1>3, <1>5, <1>7 DEF BP!Totals, BP!IInv, BP!TypeOK
  <2> QED
    BY <2>1 DEF BP!Command, PartyKnown
<1>11. /\ c.price \in Prices \cup MarketPrices /\ c.price <= U64MAX
       /\ c.size \in Sizes /\ rem <= c.size
       /\ BP!price_check(c.side, c.price, lev)
  <2>1. lev # BP!NoPrice
    BY <1>7, MarketAssumption DEF BP!NoPrice
  <2> QED
    BY <1>5, <1>7, <2>1 DEF Side, Priced
<1>12. Fits(c.price, rem)
  <2>1. Fits(c.price, c.size)
    BY <1>11 DEF AmountsFit
  <2>2. c.price \in Nat /\ c.size \in Nat
    BY <1>11, MarketAssumption, MarketPricesNat
  <2>3. c.price <= c.price /\ rem \in Nat /\ rem <= c.size
    BY <1>7, <1>11, <2>2
  <2> QED
    BY ONLY <2>1, <2>2, <2>3, FitsLess
<1>13. /\ Need \in Amounts /\ Need' \in Amounts
       /\ m.user_id \in Users /\ reserved_asset(s) \in Assets
       /\ reserved_amount(s, lev, m.size) \in Nat
       /\ reserved_amount(s, lev, left) \in Nat
       /\ Need[m.user_id][reserved_asset(s)] + reserved_amount(s, lev, left)
            = Need'[m.user_id][reserved_asset(s)] + reserved_amount(s, lev, m.size)
       /\ \A v \in Users, a \in Assets :
            v # m.user_id \/ a # reserved_asset(s) => Need'[v][a] = Need[v][a]
       /\ SizesKnown(Stock(book)) =>
            SizesKnown(Stock(book')) /\ m.original_size \in Sizes
  BY <1>3, <1>4, <1>5, FillNeed
<1>14. SizesKnown(Stock(book')) /\ m.original_size \in Sizes
  <2>1. SizesKnown(Stock(book))
    BY DEF Side, Priced
  <2> QED
    BY <1>13, <2>1
<1>15. Fits(lev, m.size)
  <2>1. Fits(lev, m.original_size)
    BY <1>7, <1>14 DEF AmountsFit
  <2>2. lev \in Nat /\ m.original_size \in Nat /\ lev <= lev
    BY <1>7, MarketAssumption
  <2> QED
    BY <1>7, <2>1, <2>2, FitsLess
<1>16. Serves /\ Served'
  BY <1>2, <1>7 DEF Serves, Served
<1>17. Priced'
  <2>1. SizesKnown(Stock(book))'
    BY <1>14
  <2>2. rem - trade <= c.size
    <3>1. c.size \in Nat
      BY <1>11, MarketAssumption
    <3> QED
      BY ONLY <1>7, <1>11, <3>1
  <2>3. remaining' <= cmd'.size /\ cmd'.size \in Sizes
    BY <1>7, <1>11, <2>2
  <2>4. cmd'.price \in Prices \cup MarketPrices /\ cmd'.price <= U64MAX
    BY <1>7, <1>11
  <2>5. BP!price_check(cmd'.side, cmd'.price, level')
    BY <1>7, <1>11
  <2> QED
    BY <2>1, <2>3, <2>4, <2>5 DEF Priced
<1>18. PICK k : k = Len(ev) + 1
  OBVIOUS
<1>19. PICK h, h2, d1, d2 :
         /\ h = HoldItem(n, c, rem) /\ h2 = HoldItem(n, c, rem - trade)
         /\ d1 = DueItem(n, MakerOf(k), c, e) /\ d2 = DueItem(n, TakerOf(k), c, e)
  OBVIOUS
<1>20. n \in Nat /\ k \in Nat \ {0}
  <2>1. M \in Nat
    BY Cursors DEF XInv
  <2> QED
    BY <1>1, <1>7, <1>18, <2>1
<1>21. /\ TradeClaims(h, h2, d1, d2)
       /\ d1.user = m.user_id /\ d1.out = reserved_asset(s)
       /\ d1.claim = reserved_amount(s, lev, trade)
       /\ d1.slack = IF s = "Bid" /\ Rounded(lev, lev, trade) THEN 2 ELSE 0
  <2>1. Trading(c, e, rem) /\ h2 = HoldItem(n, c, rem - e.size)
    BY <1>7, <1>8, <1>9, <1>10, <1>11, <1>12, <1>19 DEF Trading
  <2>2. /\ TradeClaims(h, h2, d1, d2)
        /\ d1.user = e.maker_user_id
        /\ d1.out = reserved_asset(BP!op_side(c.side))
        /\ d1.claim = reserved_amount(BP!op_side(c.side), e.price, e.size)
        /\ d1.slack = IF BP!op_side(c.side) = "Bid" /\ Rounded(e.price, e.price, e.size)
                      THEN 2 ELSE 0
    BY <1>19, <1>20, <2>1, TradeIsFair
  <2> QED
    BY <1>7, <1>8, <2>2
<1>22. PICK D : D = DueItems(n, c, ev)
  OBVIOUS
<1>23. /\ DueItems(n, c, Append(ev, e)) = D \cup {d1, d2}
       /\ d1 \notin D /\ d2 \notin D /\ d1 # d2
  BY <1>7, <1>18, <1>19, <1>22, DueAppend
<1>24. ASSUME NEW z PROVE HoldItem(n, c, z) \notin D
  <2> SUFFICES ASSUME NEW x \in Deals(ev),
                      HoldItem(n, c, z) = DueItem(n, x, c, ev[x.event])
               PROVE  FALSE
    BY <1>22 DEF DueItems
  <2>1. x \in [event: Nat \ {0}, role: Roles]
    BY <1>7, DealsPlaced
  <2>2. DueItem(n, x, c, ev[x.event]).place = Place(x) /\ Place(x) # 0
    BY <2>1, PlaceFacts DEF DueItem
  <2>3. HoldItem(n, c, z).place = 0
    BY DEF HoldItem
  <2> QED
    BY <2>2, <2>3
<1>25. ClaimsNow = {h} \cup D /\ ClaimsNext = {h2} \cup D \cup {d1, d2}
  <2>1. ClaimsNow = {h} \cup D
    BY <1>1, <1>5, <1>7, <1>19, <1>22 DEF ClaimsNow, InMatch
  <2>2. ClaimsNext = {h2} \cup DueItems(n, c, Append(ev, e))
    BY <1>1, <1>7, <1>19 DEF ClaimsNext, InMatch
  <2> QED
    BY <1>23, <2>1, <2>2
<1>26. /\ Side' /\ n \in 1 .. MaxSeq
       /\ \A j \in 1 .. MaxSeq : j # n => ItemsAt(j)' = ItemsAt(j)
       /\ ItemsAt(n) = {h} \cup D /\ ItemsAt(n)' = {h2} \cup D \cup {d1, d2}
  <2>1. /\ Side' /\ M + 1 \in 1 .. MaxSeq
        /\ \A j \in 1 .. MaxSeq : j # M + 1 => ItemsAt(j)' = ItemsAt(j)
        /\ ItemsAt(M + 1) = ClaimsNow /\ ItemsAt(M + 1)' = ClaimsNext
    BY <1>16, <1>17, Serving
  <2>2. M' = M
    BY <1>2 DEF M
  <2> QED
    BY <1>1, <1>25, <2>1, <2>2
<1>27. /\ OneSlot(ItemsBySlot, ItemsBySlot', n)
       /\ ItemsBySlot[n] = {h} \cup D /\ ItemsBySlot'[n] = {h2} \cup D \cup {d1, d2}
       /\ Items = Spread(ItemsBySlot) /\ Items' = Spread(ItemsBySlot')
  BY <1>26, ItemsOneSlot
<1>28. h.slot = n /\ h2.slot = n /\ d1.slot = n /\ d2.slot = n
  BY <1>19 DEF HoldItem, DueItem
<1>29. h \notin D /\ h2 \notin D /\ h # d1 /\ h # d2
  <2>1. h \notin D /\ h2 \notin D
    BY <1>19, <1>24
  <2>2. h.place = 0
    BY <1>19 DEF HoldItem
  <2>3. d1.place = Place(MakerOf(k)) /\ d2.place = Place(TakerOf(k))
    BY <1>19 DEF DueItem
  <2>4. Place(MakerOf(k)) # 0 /\ Place(TakerOf(k)) # 0
    BY <1>20 DEF Place, MakerOf, TakerOf
  <2> QED
    BY <2>1, <2>2, <2>3, <2>4
<1>30. PICK F, G, S : F = ItemsBySlot /\ G = ItemsBySlot' /\ S = Items
  OBVIOUS
<1>31. /\ OneSlot(F, G, n) /\ h \in F[n] /\ h2 \notin F[n] \ {h}
       /\ d1 \notin F[n] /\ d2 \notin F[n]
       /\ G[n] = (F[n] \ {h}) \cup {h2, d1, d2}
  BY <1>23, <1>27, <1>29, <1>30
<1>32. /\ Spread(G) = (Spread(F) \ {h}) \cup {h2, d1, d2}
       /\ h \in Spread(F) /\ h2 \notin Spread(F) \ {h}
       /\ d1 \notin Spread(F) /\ d2 \notin Spread(F)
  BY <1>28, <1>31, SpreadTrade
<1>33. /\ Items' = (S \ {h}) \cup {h2, d1, d2}
       /\ h \in S /\ h2 \notin S \ {h} /\ d1 \notin S /\ d2 \notin S
  BY <1>27, <1>30, <1>32
<1>34. PICK need, need2 : need = Need /\ need2 = Need'
  OBVIOUS
<1>35. NeedFalls(need, need2, d1)
  <2>1. PICK u, a : u = d1.user /\ a = d1.out
    OBVIOUS
  <2>2. PICK whole, part, pay, sl :
          /\ whole = reserved_amount(s, lev, m.size)
          /\ part = reserved_amount(s, lev, left)
          /\ pay = reserved_amount(s, lev, trade)
          /\ sl = IF s = "Bid" /\ Rounded(lev, lev, trade) THEN 2 ELSE 0
    OBVIOUS
  <2>3. part + pay <= whole /\ whole <= part + pay + sl
    <3>1. lev \in Nat
      BY <1>7, MarketAssumption
    <3> QED
      BY <1>7, <1>9, <1>15, <2>2, <3>1, MakerSplit
  <2>4. u \in Users /\ a \in Assets /\ need[u][a] \in Nat /\ need2[u][a] \in Nat
    BY <1>13, <1>21, <1>34, <2>1 DEF Amounts
  <2>5. need[u][a] + part = need2[u][a] + whole
    BY <1>13, <1>21, <1>34, <2>1, <2>2
  <2>6. whole \in Nat /\ part \in Nat /\ pay \in Nat /\ sl \in Nat
    <3>1. lev \in Nat
      BY <1>7, MarketAssumption
    <3>2. pay \in Nat
      BY <1>7, <2>2, <3>1, ReservedNat
    <3> QED
      BY <1>13, <2>2, <3>2
  <2>7. need2[u][a] + pay <= need[u][a] /\ need[u][a] <= need2[u][a] + pay + sl
    BY ONLY <2>3, <2>4, <2>5, <2>6
  <2>8. d1.claim = pay /\ d1.slack = sl
    BY <1>21, <2>2
  <2>9. \A v \in Users, b \in Assets : v # u \/ b # a => need2[v][b] = need[v][b]
    BY <1>13, <1>21, <1>34, <2>1
  <2> QED
    BY <1>13, <1>34, <2>1, <2>7, <2>8, <2>9 DEF NeedFalls
<1>36. ~failed /\ Ledger(need, S, balances, inexact, fees, net_deposits)
  BY <1>30, <1>34 DEF Money
<1>37. Ledger(need2, (S \ {h}) \cup {h2, d1, d2}, balances, inexact, fees,
              net_deposits)
  BY <1>21, <1>33, <1>35, <1>36, LedgerFill
<1>38. UNCHANGED <<balances, inexact, fees, net_deposits, failed>>
  BY <1>2 DEF riskVars
<1> QED
  BY <1>26, <1>33, <1>34, <1>36, <1>37, <1>38 DEF Money

(* Claims are made of the user, the side and, for a bid, the price.        *)
LEMMA SameClaims ==
  ASSUME NEW n, NEW c, NEW d, d.user_id = c.user_id, d.side = c.side,
         d.price = c.price \/ c.side # "Bid"
  PROVE  /\ \A z : HoldItem(n, d, z) = HoldItem(n, c, z)
         /\ \A ev : DueItems(n, d, ev) = DueItems(n, c, ev)
<1>1. \A z : reserved_amount(d.side, d.price, z) = reserved_amount(c.side, c.price, z)
  BY DEF reserved_amount
<1>2. ASSUME NEW z PROVE HoldItem(n, d, z) = HoldItem(n, c, z)
  BY <1>1 DEF HoldItem
<1>3. ASSUME NEW x, NEW e PROVE DueItem(n, x, d, e) = DueItem(n, x, c, e)
  <2>1. /\ SideIn(x, d) = SideIn(x, c) /\ Payer(x, d, e) = Payer(x, c, e)
        /\ SideIn(x, c) = "Bid" => LimitIn(x, d, e) = LimitIn(x, c, e)
    BY DEF SideIn, Payer, LimitIn
  <2>2. Inexact(x, d, e) <=> Inexact(x, c, e)
    BY <2>1 DEF Inexact
  <2>3. Refund(x, d, e) = Refund(x, c, e)
    BY <2>1 DEF Refund, refund
  <2> QED
    BY <2>1, <2>2, <2>3 DEF DueItem
<1> QED
  BY <1>2, <1>3 DEF DueItems

(* A hold is no settlement.                                                *)
LEMMA HoldNotDue ==
  ASSUME NEW n, NEW c, NEW z, NEW d, NEW ev \in Seq(BP!Event)
  PROVE  HoldItem(n, c, z) \notin DueItems(n, d, ev)
<1> SUFFICES ASSUME NEW x \in Deals(ev),
                    HoldItem(n, c, z) = DueItem(n, x, d, ev[x.event])
             PROVE  FALSE
  BY DEF DueItems
<1>1. x \in [event: Nat \ {0}, role: Roles]
  BY DealsPlaced
<1>2. DueItem(n, x, d, ev[x.event]).place = Place(x) /\ Place(x) # 0
  BY <1>1, PlaceFacts DEF DueItem
<1>3. HoldItem(n, c, z).place = 0
  BY DEF HoldItem
<1> QED
  BY <1>2, <1>3

(* Nothing is reserved for nothing.                                        *)
LEMMA NothingHeld ==
  ASSUME NEW s, NEW p \in Nat
  PROVE  reserved_amount(s, p, 0) = 0
<1>1. exact_cost(p, 0) = 0
  BY CostNat, 0 \in Nat
<1>2. calculate_quote_cost(p, 0) = wrap(exact_cost(p, 0))
  BY DEF calculate_quote_cost, exact_cost
<1>3. wrap(0) = 0
  BY WrapSmall, Scales
<1> QED
  BY <1>1, <1>2, <1>3 DEF reserved_amount

(* The order is over, or what is left of it rests.                         *)
LEMMA YFinish ==
  ASSUME XInv, XInv', Side, Money, match_step, Book!finish_place
  PROVE  Side' /\ Money'
<1>1. PICK n : n = M + 1
  OBVIOUS
<1>2. UNCHANGED <<published, cursor, ring, trades, riskVars>>
  BY DEF match_step
<1>3. BP!Totals /\ BP!Totals' /\ BP!finish_place
  BY SameBookSteps DEF XInv
<1>4. PICK c, d, ev, rem : c = cmd /\ d = cmd' /\ ev = events /\ rem = remaining
  OBVIOUS
<1>5. /\ pc = "matching" /\ pc' = "done" /\ events' = ev
      /\ d = [c EXCEPT
                !.status = BP!final_status(c.time_in_force, rem, c.size),
                !.size   = rem,
                !.price  = IF c.price = 0 /\ c.side = "Ask" /\ ev # <<>>
                           THEN ev[1].price ELSE c.price]
      /\ IF c.time_in_force = "Gtc" /\ rem > 0
         THEN BP!add_to_book(rem) ELSE book' = book
  BY <1>3, <1>4 DEF BP!finish_place
<1>6. /\ c \in BP!Command /\ PartyKnown(c) /\ rem \in Nat /\ ev \in Seq(BP!Event)
      /\ c.time_in_force \in {"Gtc", "Ioc", "Fok"}
  <2>1. c \in BP!Command /\ rem \in Nat /\ ev \in Seq(BP!Event)
    BY <1>3, <1>4, <1>5 DEF BP!Totals, BP!IInv, BP!TypeOK
  <2> QED
    BY <2>1 DEF BP!Command, BP!TIFs, PartyKnown
<1>7. /\ d.user_id = c.user_id /\ d.side = c.side /\ d.size = rem
      /\ d.price = c.price \/ c.side # "Bid"
      /\ d.time_in_force = c.time_in_force
      /\ d.status = BP!final_status(c.time_in_force, rem, c.size)
  <2>1. DOMAIN c = {"command", "order_id", "user_id", "side", "price", "size",
                    "original_size", "time_in_force", "status"}
    BY <1>6 DEF BP!Command
  <2> QED
    BY <1>5, <2>1
<1>10. SizesKnown(Stock(book)) /\ c.size \in Sizes /\ c.size # 0
  BY <1>4, <1>5, MarketAssumption DEF Side, Priced
<1>8. /\ d.status # "Rejected"
      /\ should_handle_cancellation(d) <=> rem # 0 /\ c.time_in_force # "Gtc"
  <2>1. PICK st, tif, z : st = d.status /\ tif = c.time_in_force /\ z = c.size
    OBVIOUS
  <2>2. st = BP!final_status(tif, rem, z) /\ tif \in {"Gtc", "Ioc", "Fok"} /\ z # 0
    BY <1>6, <1>7, <1>10, <2>1
  <2>3. /\ rem = 0 => st = "Filled"
        /\ rem # 0 /\ tif = "Fok" => st = "Cancelled"
        /\ rem # 0 /\ tif = "Ioc" => st \in {"Cancelled", "PartiallyFilled"}
        /\ rem # 0 /\ tif = "Gtc" => st \in {"Placed", "PartiallyFilled"}
    BY ONLY <2>2 DEF BP!final_status
  <2>4. should_handle_cancellation(d)
          <=> (st = "PartiallyFilled" /\ tif \in {"Ioc", "Fok"}) \/ st = "Cancelled"
    BY <1>7, <2>1 DEF should_handle_cancellation
  <2>5. st # "Rejected" /\ (should_handle_cancellation(d) <=> rem # 0 /\ tif # "Gtc")
    BY <2>2, <2>3, <2>4
  <2> QED
    BY <2>1, <2>5
<1>9. Serves /\ Served'
  BY <1>2, <1>4, <1>5, <1>8 DEF Serves, Served
<1>11. PICK h, D : h = HoldItem(n, c, rem) /\ D = DueItems(n, c, ev)
  OBVIOUS
<1>12. HoldItem(n, d, d.size) = h /\ DueItems(n, d, ev) = D /\ h \notin D
  BY <1>6, <1>7, <1>11, SameClaims, HoldNotDue
<1>13. /\ ClaimsNow = {h} \cup D
       /\ ClaimsNext = IF should_handle_cancellation(d) THEN {h} \cup D ELSE D
  <2>1. ClaimsNow = {h} \cup D
    BY <1>1, <1>4, <1>5, <1>11 DEF ClaimsNow, InMatch
  <2>2. ClaimsNext = (IF should_handle_cancellation(d)
                      THEN {HoldItem(n, d, d.size)} ELSE {}) \cup DueItems(n, d, ev)
    BY <1>1, <1>4, <1>5 DEF ClaimsNext, InMatch
  <2> QED
    BY <1>12, <2>1, <2>2
<1>14. CASE should_handle_cancellation(d)
  <2>1. book' = book
    BY <1>5, <1>8, <1>14
  <2>2. Priced'
    <3>1. SizesKnown(Stock(book))'
      BY <1>10, <2>1
    <3> QED
      BY <1>5, <3>1 DEF Priced
  <2> QED
    BY <1>9, <1>13, <1>14, <2>1, <2>2, ServeCalm, CalmMoney
<1>15. CASE ~should_handle_cancellation(d)
  <2>0. n \in Nat /\ PartyKnown(c) /\ rem \in Nat
    BY <1>1, <1>6, Cursors DEF XInv
  <2>1. /\ h \in Claims /\ h.slot = n /\ h.user = c.user_id
        /\ h.out = reserved_asset(c.side) /\ h.pay = 0 /\ h.get = 0 /\ h.slack = 0
        /\ h.claim = reserved_amount(c.side, c.price, rem)
    BY ONLY <1>11, <2>0, HoldClaims
  <2>2. PICK need, need2, S : need = Need /\ need2 = Need' /\ S = Items
    OBVIOUS
  <2>3. ~failed /\ Ledger(need, S, balances, inexact, fees, net_deposits)
    BY <2>2 DEF Money
  <2>4. /\ SizesKnown(Stock(book')) /\ need2 \in Amounts
        /\ Splits(need2, need, h)
    <3>0. need \in Amounts
      BY <2>3 DEF Ledger
    <3>1. CASE rem = 0
      <4>1. book' = book
        BY <1>5, <3>1
      <4>2. h.claim = 0
        BY <1>6, <2>1, <3>1, NothingHeld DEF PartyKnown
      <4>3. need2 = need
        BY <2>2, <4>1 DEF Need
      <4>4. need[h.user][h.out] \in Nat
        BY <2>1, <3>0 DEF Amounts, Claims
      <4>5. Splits(need2, need, h)
        BY <3>0, <4>2, <4>3, <4>4 DEF Splits
      <4> QED
        BY <1>10, <3>0, <4>1, <4>3, <4>5
    <3>2. CASE rem # 0
      <4>1. rem > 0 /\ c.time_in_force = "Gtc" /\ BP!add_to_book(rem)
        BY <1>5, <1>6, <1>8, <1>15, <3>2
      <4>2. /\ Need \in Amounts /\ Need' \in Amounts
            /\ Need'[c.user_id][reserved_asset(c.side)]
                 = Need[c.user_id][reserved_asset(c.side)]
                     + reserved_amount(c.side, c.price, rem)
            /\ \A v \in Users, a \in Assets :
                 v # c.user_id \/ a # reserved_asset(c.side) =>
                   Need'[v][a] = Need[v][a]
            /\ SizesKnown(Stock(book)) /\ c.size \in Sizes => SizesKnown(Stock(book'))
        <5>1. /\ cmd.time_in_force = "Gtc" /\ remaining > 0
              /\ BP!add_to_book(remaining)
          BY <1>4, <4>1
        <5>2. /\ Need \in Amounts /\ Need' \in Amounts
              /\ Need'[cmd.user_id][reserved_asset(cmd.side)]
                   = Need[cmd.user_id][reserved_asset(cmd.side)]
                       + reserved_amount(cmd.side, cmd.price, remaining)
              /\ \A v \in Users, a \in Assets :
                   v # cmd.user_id \/ a # reserved_asset(cmd.side) =>
                     Need'[v][a] = Need[v][a]
              /\ SizesKnown(Stock(book)) /\ cmd.size \in Sizes =>
                   SizesKnown(Stock(book'))
          BY <1>3, <1>5, <5>1, RestNeed
        <5> QED
          BY <1>4, <5>2
      <4>3. Splits(need2, need, h)
        BY <2>1, <2>2, <4>2 DEF Splits
      <4> QED
        BY <1>10, <2>2, <4>2, <4>3
    <3> QED
      BY <3>1, <3>2
  <2>5. Priced'
    <3>1. SizesKnown(Stock(book))'
      BY <2>4
    <3> QED
      BY <1>5, <3>1 DEF Priced
  <2>6. /\ Side' /\ n \in 1 .. MaxSeq
        /\ \A j \in 1 .. MaxSeq : j # n => ItemsAt(j)' = ItemsAt(j)
        /\ ItemsAt(n) = {h} \cup D /\ ItemsAt(n)' = D
    <3>1. /\ Side' /\ M + 1 \in 1 .. MaxSeq
          /\ \A j \in 1 .. MaxSeq : j # M + 1 => ItemsAt(j)' = ItemsAt(j)
          /\ ItemsAt(M + 1) = ClaimsNow /\ ItemsAt(M + 1)' = ClaimsNext
      BY <1>9, <2>5, Serving
    <3>2. M' = M
      BY <1>2 DEF M
    <3> QED
      BY <1>1, <1>13, <1>15, <3>1, <3>2
  <2>7. /\ OneSlot(ItemsBySlot, ItemsBySlot', n)
        /\ ItemsBySlot[n] = {h} \cup D /\ ItemsBySlot'[n] = D
        /\ Items = Spread(ItemsBySlot) /\ Items' = Spread(ItemsBySlot')
    BY <2>6, ItemsOneSlot
  <2>8. Items' = S \ {h} /\ h \in S
    <3>1. PICK F, G : F = ItemsBySlot /\ G = ItemsBySlot'
      OBVIOUS
    <3>2. OneSlot(F, G, n) /\ h \in F[n] /\ G[n] = F[n] \ {h}
      BY <1>12, <2>7, <3>1
    <3>3. Spread(G) = Spread(F) \ {h} /\ h \in Spread(F)
      BY <3>2, SpreadDrop
    <3> QED
      BY <2>2, <2>7, <3>1, <3>3
  <2>9. Holds(h)
    BY <2>1 DEF Holds
  <2>10. Ledger(need2, S \ {h}, balances, inexact, fees, net_deposits)
    BY <2>3, <2>4, <2>8, <2>9, LedgerPutOn
  <2>11. UNCHANGED <<balances, inexact, fees, net_deposits, failed>>
    BY <1>2 DEF riskVars
  <2> QED
    BY <2>2, <2>3, <2>6, <2>8, <2>10, <2>11 DEF Money
<1> QED
  BY <1>14, <1>15

-----------------------------------------------------------------------------
(* The matching engine moves on.                                           *)

(* All that a served command claims, with no settlement done.              *)
Settles(n, c, ev) ==
  (IF should_handle_cancellation(c) THEN {HoldItem(n, c, c.size)} ELSE {})
  \cup DueItems(n, c, ev)

(* Behind the matching engine every settlement is still to be done.        *)
LEMMA AfterAll ==
  ASSUME NEW n, NEW c, NEW ev \in Seq(BP!Event), NEW cu, NEW st, c.user_id \in Users,
         \A s \in RiskShards : /\ cu[Pipe!R2(s)] < n
                               /\ \A k \in Nat \ {0} : StillDue(n, k, cu, st, s)
  PROVE  After(n, c, ev, cu, st) = Settles(n, c, ev)
<1>1. cu[Pipe!R2(ShardOf[c.user_id])] < n
  BY ShardAssumption
<1>2. ASSUME NEW y \in Deals(ev)
      PROVE  StillDue(n, Place(y), cu, st, ShardOf[Payer(y, c, ev[y.event])])
  <2>1. ev[y.event] \in BP!Event /\ Place(y) \in Nat \ {0}
    BY DealsPlaced
  <2>2. Payer(y, c, ev[y.event]) \in Users
    BY <2>1 DEF Payer, BP!Event
  <2> QED
    BY <2>1, <2>2, ShardAssumption
<1> QED
  BY <1>1, <1>2 DEF After, Settles, DueItems

(* Slot n, with command c and events ev, goes to R2.                       *)
LEMMA Advance ==
  ASSUME XInv, Side, Pipe!handle(Pipe!Matching(0)), NEW n, n = M + 1,
         NEW c, NEW ev \in Seq(BP!Event), FiledAt(c, ev),
         ring' = [ring EXCEPT ![n] = c] \/ (ring' = ring /\ c = ring[n]),
         trades' = [trades EXCEPT ![n] = ev] \/ (trades' = trades /\ ev = trades[n]),
         settled' = settled, book' = book, pc' = "idle",
         ClaimsNow = Settles(n, c, ev)
  PROVE  Side' /\ Items' = Items
<1>0. Filed /\ Fresh /\ Priced /\ Settling
  BY DEF Side
<1>1. /\ published' = published /\ M \in Nat /\ M < published /\ M' = n
      /\ \A g \in Pipe!Handlers : g # Pipe!Matching(0) => cursor'[g] = cursor[g]
  BY HandleFacts, HandlersAre DEF XInv, M
<1>2. /\ published \in Nat /\ published <= MaxSeq /\ MaxSeq \in Nat
      /\ cursor[Pipe!Events] \in Nat /\ cursor[Pipe!Events] <= M
      /\ cursor'[Pipe!Events] = cursor[Pipe!Events]
      /\ \A s \in RiskShards : /\ cursor'[Pipe!R2(s)] = cursor[Pipe!R2(s)]
                               /\ cursor'[Pipe!R1(s)] = cursor[Pipe!R1(s)]
                               /\ cursor[Pipe!R2(s)] \in Nat
                               /\ cursor[Pipe!R2(s)] <= M
  BY <1>1, Cursors, HandlersAre DEF XInv
<1>3. n \in 1 .. MaxSeq /\ n \in Nat /\ M < n /\ n <= published
  BY <1>1, <1>2
<1>4. /\ \A k \in 1 .. published : k # n =>
           ring'[k] = ring[k] /\ trades'[k] = trades[k]
      /\ ring'[n] = c /\ trades'[n] = ev
  <2>1. /\ ring \in Seq(Slot) /\ Len(ring) = published
        /\ trades \in Seq(Seq(BP!Event)) /\ Len(trades) = published
    BY DEF XInv, RingSound
  <2>2. DOMAIN ring = 1 .. published /\ DOMAIN trades = 1 .. published
    BY <2>1
  <2>3. n \in 1 .. published
    BY <1>2, <1>3
  <2>4. (\A k \in 1 .. published : k # n => ring'[k] = ring[k]) /\ ring'[n] = c
    BY <2>2, <2>3
  <2>5. (\A k \in 1 .. published : k # n => trades'[k] = trades[k]) /\ trades'[n] = ev
    BY <2>2, <2>3
  <2> QED
    BY <2>4, <2>5
<1>5. \A s \in RiskShards : settled[s] \in Nat
                            /\ (cursor[Pipe!R2(s)] = M => settled[s] = 0)
  <2>1. \A s \in RiskShards : R2Slot(s) = cursor[Pipe!R2(s)] + 1
    BY DEF R2Slot, slot
  <2> QED
    BY <1>0, <1>1, <1>2, <2>1 DEF Settling
<1>6. Filed'
  <2>1. \A k \in M' + 1 .. published' : trades'[k] = <<>>
    <3>1. \A k \in n + 1 .. published :
            k \in M + 1 .. published /\ k \in 1 .. published /\ k # n
      BY <1>1, <1>2, <1>3
    <3> QED
      BY <1>0, <1>1, <1>4, <3>1 DEF Filed
  <2>2. ASSUME NEW k \in cursor[Pipe!Events] + 1 .. n
        PROVE  FiledAt(ring'[k], trades'[k])
    <3>1. CASE k = n
      BY <1>4, <3>1
    <3>2. CASE k # n
      <4>1. k \in cursor[Pipe!Events] + 1 .. M /\ k \in 1 .. published
        BY <1>1, <1>2, <3>2
      <4> QED
        BY <1>0, <1>4, <3>2, <4>1 DEF Filed
    <3> QED
      BY <3>1, <3>2
  <2> QED
    BY <1>1, <1>2, <2>1, <2>2 DEF Filed
<1>7. ASSUME NEW k \in Nat, n < k, k <= published
      PROVE  /\ ring'[k] = ring[k] /\ FreshAt(ring[k], k, cursor')
             /\ Waits(k, ring[k], cursor') = Waits(k, ring[k], cursor)
  <2>1. ring'[k] = ring[k] /\ M < k
    BY <1>1, <1>2, <1>3, <1>4, <1>7
  <2>2. PICK d, cu, cv : d = ring[k] /\ cu = cursor /\ cv = cursor'
    OBVIOUS
  <2>3. PICK g : g = Pipe!R1(ShardOf[d.user_id])
    OBVIOUS
  <2>4. cv[g] = cu[g]
    <3>1. ShardOf[d.user_id] \in RiskShards
      BY <1>7, <2>1, <2>2, AtSlot, WaitingFacts
    <3> QED
      BY <1>2, <2>2, <2>3, <3>1
  <2>5. Waits(k, d, cv) = Waits(k, d, cu)
    BY <2>3, <2>4, WaitsSame
  <2>6. FreshAt(d, k, cu)
    BY <1>0, <1>1, <1>2, <1>7, <2>1, <2>2 DEF Fresh
  <2> QED
    BY <2>1, <2>2, <2>3, <2>4, <2>5, <2>6 DEF FreshAt
<1>8. Fresh'
  <2> SUFFICES ASSUME NEW k \in n + 1 .. published
               PROVE  FreshAt(ring'[k], k, cursor')
    BY <1>1 DEF Fresh
  <2>1. k \in Nat /\ n < k /\ k <= published
    BY <1>2, <1>3
  <2> QED
    BY <1>7, <2>1
<1>9. Passed' /\ Served'
  BY DEF Passed, Served
<1>10. Priced'
  <2>1. SizesKnown(Stock(book))'
    BY <1>0 DEF Priced
  <2> QED
    BY <2>1 DEF Priced
<1>11. Settling'
  <2>1. ASSUME NEW s \in RiskShards, settled[s] > 0
        PROVE  /\ R2Slot(s)' <= n
               /\ ring'[R2Slot(s)'].status \notin {"Rejected", "Processed"}
    <3>1. PICK k : k = R2Slot(s)
      OBVIOUS
    <3>2. /\ k <= M /\ ring[k].status \notin {"Rejected", "Processed"}
          /\ k = cursor[Pipe!R2(s)] + 1
      BY <1>0, <2>1, <3>1 DEF Settling, R2Slot, slot
    <3>3. R2Slot(s)' = k
      BY <1>2, <3>2 DEF R2Slot, slot
    <3>4. k \in 1 .. published /\ k # n /\ k <= n
      BY <1>1, <1>2, <1>3, <3>2
    <3>5. ring'[k] = ring[k]
      BY <1>4, <3>4
    <3> QED
      BY <3>2, <3>3, <3>4, <3>5
  <2> QED
    BY <1>0, <1>1, <2>1 DEF Settling
<1>12. Side'
  BY <1>6, <1>8, <1>9, <1>10, <1>11 DEF Side
<1>13. ASSUME NEW k \in 1 .. MaxSeq, k # n
       PROVE  ItemsAt(k)' = ItemsAt(k)
  <2>1. CASE k <= cursor[Pipe!Events] \/ published < k
    BY <1>1, <1>2, <2>1 DEF ItemsAt
  <2>2. CASE cursor[Pipe!Events] < k /\ k <= M
    <3>1. /\ k \in 1 .. published /\ k \in cursor[Pipe!Events] + 1 .. M
          /\ ~(published < k) /\ ~(k <= cursor[Pipe!Events]) /\ k <= n
      BY <1>1, <1>2, <1>3, <2>2
    <3>2. FiledAt(ring[k], trades[k])
      BY <1>0, <3>1 DEF Filed
    <3>3. trades[k] \in Seq(BP!Event)
      BY <3>1 DEF XInv, RingSound
    <3>4. PICK d, f, cu, cv, st :
            /\ d = ring[k] /\ f = trades[k] /\ cu = cursor /\ cv = cursor'
            /\ st = settled
      OBVIOUS
    <3>5. \A s \in RiskShards :
            /\ cu[Pipe!R2(s)] < k <=> cv[Pipe!R2(s)] < k
            /\ \A j \in Nat \ {0} :
                 StillDue(k, j, cu, st, s) <=> StillDue(k, j, cv, st, s)
      BY <1>2, <3>4 DEF StillDue
    <3>6. After(k, d, f, cv, st) = After(k, d, f, cu, st)
      BY <3>2, <3>3, <3>4, <3>5, AfterSame DEF FiledAt
    <3>7. ItemsAt(k) = After(k, d, f, cu, st)
      BY <2>2, <3>1, <3>4 DEF ItemsAt
    <3>8. ring'[k] = d /\ trades'[k] = f
      BY <1>4, <1>13, <3>1, <3>4
    <3>9. ItemsAt(k)' = After(k, d, f, cv, st)
      BY <1>1, <1>2, <3>1, <3>4, <3>8 DEF ItemsAt
    <3> QED
      BY <3>6, <3>7, <3>9
  <2>3. CASE n < k /\ k <= published
    <3>1. ~(k <= cursor[Pipe!Events]) /\ ~(k <= M) /\ ~(k <= n) /\ k # M + 1
          /\ ~(published < k) /\ k \in Nat
      BY <1>1, <1>2, <1>3, <2>3
    <3>2. ItemsAt(k) = Waits(k, ring[k], cursor)
      BY <3>1 DEF ItemsAt
    <3>3. ItemsAt(k)' = Waits(k, ring'[k], cursor')
      BY <1>1, <1>2, <3>1 DEF ItemsAt
    <3> QED
      BY <1>7, <2>3, <3>1, <3>2, <3>3
  <2> QED
    BY <1>1, <1>2, <1>3, <1>13, <2>1, <2>2, <2>3
<1>14. ItemsAt(n)' = ItemsAt(n)
  <2>1. PICK cv, st : cv = cursor' /\ st = settled
    OBVIOUS
  <2>2. \A s \in RiskShards : /\ cv[Pipe!R2(s)] < n
                              /\ \A k \in Nat \ {0} : StillDue(n, k, cv, st, s)
    BY <1>1, <1>2, <1>5, <2>1 DEF StillDue
  <2>3. After(n, c, ev, cv, st) = Settles(n, c, ev)
    BY <2>2, AfterAll DEF FiledAt
  <2>4. ~(n <= cursor[Pipe!Events]) /\ ~(published < n) /\ n <= n /\ ~(n <= M)
    BY <1>1, <1>2, <1>3
  <2>5. ItemsAt(n)' = After(n, c, ev, cv, st)
    BY <1>1, <1>2, <1>4, <2>1, <2>4 DEF ItemsAt
  <2>6. ItemsAt(n) = ClaimsNow
    BY <2>4 DEF ItemsAt, ClaimsNow
  <2> QED
    BY <2>3, <2>5, <2>6
<1>15. Items' = Items
  BY <1>13, <1>14, ItemsKept
<1> QED
  BY <1>12, <1>15

(* Transfers and rejected commands pass the engine by.                     *)
LEMMA YSkipMatch ==
  ASSUME XInv, Side, match_skip
  PROVE  Side' /\ Calm
<1>1. PICK n : n = M + 1
  OBVIOUS
<1>2. PICK c, ev : c = ring[n] /\ ev = trades[n]
  OBVIOUS
<1>3. /\ pc = "idle" /\ Pipe!handle(Pipe!Matching(0))
      /\ c.command \in {"DepositFunds", "WithdrawFunds"} \/ c.status = "Rejected"
      /\ UNCHANGED <<ring, trades, riskVars>> /\ BookStands
  BY <1>1, <1>2 DEF match_skip, MatchSlot, slot, M, BookStands
<1>4. M \in Nat /\ M < published /\ published \in Nat
  BY <1>3, Barred, Cursors DEF XInv, Pipe!handle
<1>5. c \in Waiting \cup Book!Cancels \cup Moving /\ c.user_id \in Users
  BY <1>1, <1>2, <1>4, AtSlot, WaitingFacts
<1>6. ~should_handle_cancellation(c)
  <2>1. c.status \in {"Processing", "Processed", "Rejected"}
    BY <1>5 DEF Waiting, Book!Cancels, Moving
  <2> QED
    BY <2>1 DEF should_handle_cancellation
<1>7. ev = <<>>
  <2>1. n \in M + 1 .. published
    BY <1>1, <1>4
  <2> QED
    BY <1>2, <2>1 DEF Side, Filed
<1>8. ev \in Seq(BP!Event) /\ FiledAt(c, ev)
  BY <1>5, <1>6, <1>7 DEF FiledAt
<1>9. Settles(n, c, ev) = {}
  BY <1>6, <1>7, DueNone DEF Settles
<1>10. ClaimsNow = {}
  BY <1>1, <1>2, <1>3 DEF ClaimsNow, Waits
<1>11. settled' = settled /\ book' = book /\ pc' = "idle"
  BY <1>3 DEF riskVars, BookStands, bookVars
<1>12. Side' /\ Items' = Items
  BY <1>1, <1>2, <1>3, <1>8, <1>9, <1>10, <1>11, Advance
<1> QED
  BY <1>3, <1>12, FrontCalm

(* The command goes on with its events.                                    *)
LEMMA YDeliver ==
  ASSUME XInv, Side, match_done
  PROVE  Side' /\ Calm
<1>1. PICK n : n = M + 1
  OBVIOUS
<1>2. PICK c, ev : c = cmd /\ ev = events
  OBVIOUS
<1>3. /\ pc = "done" /\ pc' = "idle" /\ book' = book
      /\ Pipe!handle(Pipe!Matching(0))
      /\ ring' = [ring EXCEPT ![n] = c] /\ trades' = [trades EXCEPT ![n] = ev]
      /\ UNCHANGED riskVars /\ settled' = settled
  BY <1>1, <1>2 DEF match_done, Book!deliver, MatchSlot, slot, M, riskVars
<1>4. c \in BP!Command /\ ev \in Seq(BP!Event)
  BY <1>2, <1>3 DEF XInv, BP!Totals, BP!IInv, BP!TypeOK
<1>5. FiledAt(c, ev)
  <2>1. c.user_id \in Users /\ c.status # "Processed"
    BY <1>4 DEF BP!Command, BP!Status
  <2>2. ev # <<>> => c.status # "Rejected"
    BY <1>2, <1>3 DEF Side, Served
  <2> QED
    BY <1>4, <2>1, <2>2 DEF FiledAt
<1>6. ClaimsNow = Settles(n, c, ev)
  BY <1>1, <1>2, <1>3 DEF ClaimsNow, InMatch, Settles
<1>7. Side' /\ Items' = Items
  BY <1>1, <1>3, <1>4, <1>5, <1>6, Advance
<1> QED
  BY <1>3, <1>7 DEF Calm, Need

-----------------------------------------------------------------------------
(* Steps of R2.                                                            *)

(* R2 of shard s works on slot n: it has done the settlements up to place  *)
(* t, or is through.                                                       *)
R2Turn(s, n, t) ==
  /\ Pipe!available(Pipe!R2(s)) /\ n = cursor[Pipe!R2(s)] + 1
  /\ BookStands /\ UNCHANGED <<ring, trades>>
  /\ t \in Nat /\ settled' = [settled EXCEPT ![s] = t]
  /\ \/ /\ UNCHANGED <<published, cursor>>
        /\ ring[n].status \notin {"Rejected", "Processed"}
     \/ Pipe!handle(Pipe!R2(s)) /\ t = 0

(* Then only the claims of slot n change.                                  *)
LEMMA R2Moves ==
  ASSUME XInv, Side, NEW s \in RiskShards, NEW n, NEW t, R2Turn(s, n, t)
  PROVE  /\ n \in 1 .. MaxSeq /\ n \in Nat /\ cursor[Pipe!R2(s)] + 1 = n
         /\ cursor[Pipe!R2(s)] < n /\ settled[s] \in Nat
         /\ \A q \in RiskShards \ {s} : /\ cursor'[Pipe!R2(q)] = cursor[Pipe!R2(q)]
                                        /\ settled'[q] = settled[q]
         /\ settled'[s] = t
         /\ FiledAt(ring[n], trades[n]) /\ trades[n] \in Seq(BP!Event)
         /\ Side' /\ \A k \in 1 .. MaxSeq : k # n => ItemsAt(k)' = ItemsAt(k)
         /\ ItemsAt(n) = After(n, ring[n], trades[n], cursor, settled)
         /\ ItemsAt(n)' = After(n, ring[n], trades[n], cursor', settled')
<1>0. Filed /\ Fresh /\ Passed /\ Served /\ Priced /\ Settling
  BY DEF Side
<1>1. /\ Pipe!available(Pipe!R2(s)) /\ n = cursor[Pipe!R2(s)] + 1
      /\ BookStands /\ UNCHANGED <<ring, trades>>
      /\ t \in Nat /\ settled' = [settled EXCEPT ![s] = t]
      /\ \/ /\ UNCHANGED <<published, cursor>>
            /\ ring[n].status \notin {"Rejected", "Processed"}
         \/ Pipe!handle(Pipe!R2(s)) /\ t = 0
  BY DEF R2Turn
<1>2. /\ published \in Nat /\ MaxSeq \in Nat /\ published <= MaxSeq
      /\ M \in Nat /\ M <= published
      /\ cursor[Pipe!Events] \in Nat /\ cursor[Pipe!Events] <= M
      /\ cursor[Pipe!Events] <= cursor[Pipe!R2(s)]
      /\ cursor[Pipe!R2(s)] \in Nat /\ cursor[Pipe!R2(s)] < M
      /\ \A q \in RiskShards : cursor[Pipe!R2(q)] \in Nat
  BY <1>1, Cursors, Barred, HandlersAre DEF XInv, M
<1>3. /\ published' = published
      /\ \A h \in Pipe!Handlers : h # Pipe!R2(s) => cursor'[h] = cursor[h]
      /\ \/ cursor'[Pipe!R2(s)] = cursor[Pipe!R2(s)]
            /\ ring[n].status \notin {"Rejected", "Processed"}
         \/ cursor'[Pipe!R2(s)] = n /\ t = 0
  <2>1. CASE UNCHANGED <<published, cursor>>
             /\ ring[n].status \notin {"Rejected", "Processed"}
    BY <2>1
  <2>2. CASE Pipe!handle(Pipe!R2(s)) /\ t = 0
    BY <1>1, <2>2, HandleFacts, HandlersAre DEF XInv
  <2> QED
    BY <1>1, <2>1, <2>2
<1>4. /\ M' = M /\ cursor'[Pipe!Events] = cursor[Pipe!Events]
      /\ \A q \in RiskShards : /\ q # s => cursor'[Pipe!R2(q)] = cursor[Pipe!R2(q)]
                               /\ cursor'[Pipe!R1(q)] = cursor[Pipe!R1(q)]
  BY <1>3, HandlersAre DEF M
<1>5. /\ UNCHANGED <<book, cmd, pc, remaining, level, events>>
      /\ settled \in [RiskShards -> Nat]
  BY <1>0, <1>1 DEF BookStands, bookVars, Settling
<1>6. /\ n \in 1 .. MaxSeq /\ n \in Nat /\ n <= M /\ n <= published
      /\ cursor[Pipe!Events] < n /\ cursor[Pipe!R2(s)] < n
  BY <1>1, <1>2
<1>7. FiledAt(ring[n], trades[n]) /\ trades[n] \in Seq(BP!Event)
  <2>1. n \in cursor[Pipe!Events] + 1 .. M /\ n \in 1 .. published
    BY <1>2, <1>6
  <2> QED
    BY <1>0, <2>1 DEF Filed, XInv, RingSound
<1>8. settled' \in [RiskShards -> Nat] /\ settled'[s] = t
      /\ \A q \in RiskShards : q # s => settled'[q] = settled[q]
  BY <1>1, <1>5
<1>9. Filed' /\ Passed' /\ Served' /\ Priced'
  <2>1. Filed'
    BY <1>0, <1>1, <1>3, <1>4 DEF Filed
  <2>2. Passed'
    BY <1>0, <1>4, <1>5 DEF Passed
  <2> QED
    BY <1>0, <1>5, <2>1, <2>2 DEF Served, Priced
<1>10. ASSUME NEW k \in Nat, M < k, k <= published
       PROVE  /\ FreshAt(ring[k], k, cursor')
              /\ Waits(k, ring[k], cursor') = Waits(k, ring[k], cursor)
  <2>1. PICK d, cu, cv : d = ring[k] /\ cu = cursor /\ cv = cursor'
    OBVIOUS
  <2>2. PICK g : g = Pipe!R1(ShardOf[d.user_id])
    OBVIOUS
  <2>3. cv[g] = cu[g]
    <3>1. ShardOf[d.user_id] \in RiskShards
      BY <1>10, <2>1, AtSlot, WaitingFacts
    <3> QED
      BY <1>4, <2>1, <2>2, <3>1
  <2>4. Waits(k, d, cv) = Waits(k, d, cu)
    BY <2>2, <2>3, WaitsSame
  <2>5. FreshAt(d, k, cu)
    BY <1>0, <1>2, <1>10, <2>1 DEF Fresh
  <2> QED
    BY <2>1, <2>2, <2>3, <2>4, <2>5 DEF FreshAt
<1>11. Fresh'
  <2> SUFFICES ASSUME NEW k \in M + 1 .. published
               PROVE  FreshAt(ring[k], k, cursor')
    BY <1>1, <1>3, <1>4 DEF Fresh
  <2> QED
    BY <1>2, <1>10
<1>12. Settling'
  <2>1. ASSUME NEW q \in RiskShards, settled'[q] > 0
        PROVE  /\ R2Slot(q)' <= M
               /\ ring[R2Slot(q)'].status \notin {"Rejected", "Processed"}
    <3>1. CASE q # s
      <4>1. settled[q] > 0 /\ R2Slot(q)' = R2Slot(q)
        BY <1>4, <1>8, <2>1, <3>1 DEF R2Slot, slot
      <4> QED
        BY <1>0, <4>1 DEF Settling
    <3>2. CASE q = s
      <4>1. /\ cursor'[Pipe!R2(s)] = cursor[Pipe!R2(s)]
            /\ ring[n].status \notin {"Rejected", "Processed"}
        BY <1>3, <1>8, <2>1, <3>2
      <4>2. R2Slot(q)' = n
        BY <1>1, <3>2, <4>1 DEF R2Slot, slot
      <4> QED
        BY <1>6, <4>1, <4>2
    <3> QED
      BY <3>1, <3>2
  <2> QED
    BY <1>1, <1>4, <1>8, <2>1 DEF Settling
<1>13. Side'
  BY <1>9, <1>11, <1>12 DEF Side
<1>14. ASSUME NEW k \in 1 .. MaxSeq, k # n
       PROVE  ItemsAt(k)' = ItemsAt(k)
  <2>1. CASE k <= cursor[Pipe!Events] \/ published < k
    BY <1>3, <1>4, <2>1 DEF ItemsAt
  <2>2. CASE cursor[Pipe!Events] < k /\ k <= M
    <3>1. /\ k \in 1 .. published /\ k \in cursor[Pipe!Events] + 1 .. M
          /\ ~(published < k) /\ ~(k <= cursor[Pipe!Events]) /\ k \in Nat
      BY <1>2, <2>2
    <3>2. FiledAt(ring[k], trades[k])
      BY <1>0, <3>1 DEF Filed
    <3>3. trades[k] \in Seq(BP!Event)
      BY <3>1 DEF XInv, RingSound
    <3>4. PICK d, f, cu, cv, st, sv :
            /\ d = ring[k] /\ f = trades[k] /\ cu = cursor /\ cv = cursor'
            /\ st = settled /\ sv = settled'
      OBVIOUS
    <3>5. ASSUME NEW q \in RiskShards
          PROVE  /\ cu[Pipe!R2(q)] < k <=> cv[Pipe!R2(q)] < k
                 /\ \A j \in Nat \ {0} :
                      StillDue(k, j, cu, st, q) <=> StillDue(k, j, cv, sv, q)
      <4>1. CASE q # s
        <5>1. cv[Pipe!R2(q)] = cu[Pipe!R2(q)] /\ sv[q] = st[q]
          BY <1>4, <1>8, <3>4, <4>1
        <5> QED
          BY <5>1 DEF StillDue
      <4>2. CASE q = s
        <5>1. PICK i, j : i = cu[Pipe!R2(s)] /\ j = cv[Pipe!R2(s)]
          OBVIOUS
        <5>4. i \in Nat /\ n = i + 1
          BY <1>1, <1>2, <3>4, <5>1
        <5>5. j = i \/ (j = n /\ sv[s] = 0)
          BY <1>3, <1>8, <3>4, <5>1
        <5>2. i \in Nat /\ n = i + 1 /\ (j = i \/ (j = n /\ sv[s] = 0)) /\ j \in Nat
          BY <1>6, <5>4, <5>5
        <5>3. (i < k <=> j < k) /\ ~(i + 1 = k) /\ (j + 1 = k => sv[s] = 0)
          BY <1>14, <3>1, <5>2
        <5> QED
          BY <4>2, <5>1, <5>3 DEF StillDue
      <4> QED
        BY <4>1, <4>2
    <3>6. After(k, d, f, cv, sv) = After(k, d, f, cu, st)
      BY <3>2, <3>3, <3>4, <3>5, AfterSame DEF FiledAt
    <3>7. ItemsAt(k) = After(k, d, f, cu, st)
      BY <2>2, <3>1, <3>4 DEF ItemsAt
    <3>8. ItemsAt(k)' = After(k, d, f, cv, sv)
      BY <1>1, <1>3, <1>4, <2>2, <3>1, <3>4 DEF ItemsAt
    <3> QED
      BY <3>6, <3>7, <3>8
  <2>3. CASE k = M + 1 /\ pc # "idle" /\ k <= published
    <3>1. ~(k <= cursor[Pipe!Events]) /\ ~(published < k) /\ ~(k <= M)
      BY <1>2, <2>3
    <3>2. ItemsAt(k) = InMatch(k, cmd, pc, remaining, events)
      BY <2>3, <3>1 DEF ItemsAt
    <3>3. ItemsAt(k)' = InMatch(k, cmd', pc', remaining', events')
      BY <1>3, <1>4, <1>5, <2>3, <3>1 DEF ItemsAt
    <3> QED
      BY <1>5, <3>2, <3>3
  <2>4. CASE M < k /\ k <= published /\ ~(k = M + 1 /\ pc # "idle")
    <3>1. ~(k <= cursor[Pipe!Events]) /\ ~(published < k) /\ ~(k <= M) /\ k \in Nat
      BY <1>2, <2>4
    <3>2. ItemsAt(k) = Waits(k, ring[k], cursor)
      BY <2>4, <3>1 DEF ItemsAt
    <3>3. ItemsAt(k)' = Waits(k, ring[k], cursor')
      BY <1>1, <1>3, <1>4, <1>5, <2>4, <3>1 DEF ItemsAt
    <3> QED
      BY <1>10, <2>4, <3>1, <3>2, <3>3
  <2> QED
    BY <1>2, <2>1, <2>2, <2>3, <2>4
<1>15. ~(n <= cursor[Pipe!Events]) /\ ~(published < n)
  BY <1>2, <1>6
<1>16. ItemsAt(n) = After(n, ring[n], trades[n], cursor, settled)
  BY <1>6, <1>15 DEF ItemsAt
<1>17. ItemsAt(n)' = After(n, ring[n], trades[n], cursor', settled')
  BY <1>1, <1>3, <1>4, <1>6, <1>15 DEF ItemsAt
<1>18. settled[s] \in Nat
  BY <1>5
<1> QED
  BY <1>1, <1>4, <1>6, <1>7, <1>8, <1>13, <1>14, <1>16, <1>17, <1>18

(* A rejected command, or a transfer.                                      *)
LEMMA YSkip2 ==
  ASSUME XInv, Side, NEW s \in RiskShards, r2_skip(s)
  PROVE  Side' /\ Calm
<1>1. PICK n : n = cursor[Pipe!R2(s)] + 1
  OBVIOUS
<1>2. PICK c : c = ring[n]
  OBVIOUS
<1>3. /\ Pipe!handle(Pipe!R2(s)) /\ c.status \in {"Rejected", "Processed"}
      /\ UNCHANGED <<ring, trades, riskVars>> /\ BookStands
  BY <1>1, <1>2 DEF r2_skip, R2Slot, slot, BookStands
<1>4. settled' = [settled EXCEPT ![s] = 0]
  <2>1. settled \in [RiskShards -> Nat]
    BY DEF Side, Settling
  <2>2. settled[s] = 0
    <3>1. ring[R2Slot(s)].status \in {"Rejected", "Processed"}
      BY <1>1, <1>2, <1>3 DEF R2Slot, slot
    <3>2. ~(settled[s] > 0)
      BY <3>1 DEF Side, Settling
    <3> QED
      BY <2>1, <3>2
  <2> QED
    BY <1>3, <2>1, <2>2 DEF riskVars
<1>5. R2Turn(s, n, 0)
  BY <1>1, <1>3, <1>4, HandleFacts, HandlersAre DEF R2Turn, XInv
<1>6. /\ Side' /\ n \in 1 .. MaxSeq /\ FiledAt(c, trades[n])
      /\ \A k \in 1 .. MaxSeq : k # n => ItemsAt(k)' = ItemsAt(k)
      /\ ItemsAt(n) = After(n, c, trades[n], cursor, settled)
      /\ ItemsAt(n)' = After(n, c, trades[n], cursor', settled')
  BY <1>2, <1>5, R2Moves
<1>7. trades[n] = <<>> /\ ~should_handle_cancellation(c)
  BY <1>3, <1>6 DEF FiledAt, should_handle_cancellation
<1>8. ItemsAt(n) = {} /\ ItemsAt(n)' = {}
  BY <1>6, <1>7 DEF After, Deals
<1>9. Items' = Items
  BY <1>6, <1>8, ItemsKept
<1> QED
  BY <1>3, <1>6, <1>9, FrontCalm

(* The events handler frees a slot whose claims are all settled.           *)
LEMMA YEvents ==
  ASSUME XInv, Side, handle_processed_command
  PROVE  Side' /\ Calm
<1>0. Filed /\ Fresh /\ Passed /\ Served /\ Priced /\ Settling
  BY DEF Side
<1>1. PICK n : n = cursor[Pipe!Events] + 1
  OBVIOUS
<1>2. /\ Pipe!handle(Pipe!Events) /\ ring' = [ring EXCEPT ![n] = Free]
      /\ trades' = [trades EXCEPT ![n] = <<>>] /\ BookStands
      /\ UNCHANGED riskVars /\ settled' = settled
  BY <1>1 DEF handle_processed_command, slot, BookStands, riskVars
<1>3. /\ published' = published /\ cursor'[Pipe!Events] = n
      /\ \A h \in Pipe!Handlers : h # Pipe!Events => cursor'[h] = cursor[h]
  BY <1>1, <1>2, HandleFacts, HandlersAre DEF XInv
<1>4. /\ M' = M /\ published \in Nat /\ MaxSeq \in Nat /\ published <= MaxSeq
      /\ M \in Nat /\ M <= published
      /\ cursor[Pipe!Events] \in Nat /\ cursor[Pipe!Events] < M
      /\ \A q \in RiskShards : /\ cursor'[Pipe!R2(q)] = cursor[Pipe!R2(q)]
                               /\ cursor'[Pipe!R1(q)] = cursor[Pipe!R1(q)]
                               /\ cursor[Pipe!R2(q)] \in Nat
  BY <1>2, <1>3, Cursors, Barred, HandlersAre DEF XInv, M, Pipe!handle
<1>5. \A q \in RiskShards : n <= cursor[Pipe!R2(q)]
  <2>1. \A g, h \in Pipe!Handlers :
          PP!Stage(g) < PP!Stage(h) /\ Pipe!available(h) => cursor[h] < cursor[g]
    BY PP!AvailableMeansDone, SamePipeline, RingAssumption DEF XInv
  <2>2. PP!Stage(Pipe!Events) = 4 /\ \A q : PP!Stage(Pipe!R2(q)) = 3
    BY DEF PP!Stage, Pipe!Events, Pipe!R2
  <2>3. \A q \in RiskShards : cursor[Pipe!Events] < cursor[Pipe!R2(q)]
    BY <1>2, <2>1, <2>2, HandlersAre DEF Pipe!handle
  <2> QED
    BY <1>1, <1>4, <2>3
<1>6. n \in 1 .. published /\ n \in Nat /\ n <= M
  BY <1>1, <1>4
<1>7. \A k \in 1 .. published : k # n => ring'[k] = ring[k] /\ trades'[k] = trades[k]
  <2>1. /\ ring \in Seq(Slot) /\ Len(ring) = published
        /\ trades \in Seq(Seq(BP!Event)) /\ Len(trades) = published
    BY DEF XInv, RingSound
  <2>2. DOMAIN ring = 1 .. published /\ DOMAIN trades = 1 .. published
    BY <2>1
  <2> QED
    BY <1>2, <2>2
<1>8. UNCHANGED <<book, cmd, pc, remaining, level, events>>
  BY <1>2 DEF BookStands, bookVars
<1>9. Filed'
  <2>1. \A k \in M + 1 .. published : k \in 1 .. published /\ k # n
    BY <1>4, <1>6
  <2>2. \A k \in n + 1 .. M :
          k \in cursor[Pipe!Events] + 1 .. M /\ k \in 1 .. published /\ k # n
    BY <1>1, <1>4, <1>6
  <2> QED
    BY <1>0, <1>3, <1>4, <1>7, <2>1, <2>2 DEF Filed
<1>10. ASSUME NEW k \in Nat, M < k, k <= published
       PROVE  /\ ring'[k] = ring[k] /\ FreshAt(ring[k], k, cursor')
              /\ Waits(k, ring[k], cursor') = Waits(k, ring[k], cursor)
  <2>0. ring'[k] = ring[k]
    BY <1>4, <1>6, <1>7, <1>10
  <2>1. PICK d, cu, cv : d = ring[k] /\ cu = cursor /\ cv = cursor'
    OBVIOUS
  <2>2. PICK g : g = Pipe!R1(ShardOf[d.user_id])
    OBVIOUS
  <2>3. cv[g] = cu[g]
    <3>1. ShardOf[d.user_id] \in RiskShards
      BY <1>10, <2>1, AtSlot, WaitingFacts
    <3> QED
      BY <1>4, <2>1, <2>2, <3>1
  <2>4. Waits(k, d, cv) = Waits(k, d, cu)
    BY <2>2, <2>3, WaitsSame
  <2>5. FreshAt(d, k, cu)
    BY <1>0, <1>4, <1>10, <2>1 DEF Fresh
  <2> QED
    BY <2>0, <2>1, <2>2, <2>3, <2>4, <2>5 DEF FreshAt
<1>11. Fresh'
  <2> SUFFICES ASSUME NEW k \in M + 1 .. published
               PROVE  FreshAt(ring'[k], k, cursor')
    BY <1>3, <1>4 DEF Fresh
  <2> QED
    BY <1>4, <1>10
<1>12. Passed' /\ Served' /\ Priced'
  BY <1>0, <1>4, <1>8 DEF Passed, Served, Priced
<1>13. Settling'
  <2>1. ASSUME NEW q \in RiskShards, settled[q] > 0
        PROVE  /\ R2Slot(q)' <= M
               /\ ring'[R2Slot(q)'].status \notin {"Rejected", "Processed"}
    <3>1. PICK k : k = R2Slot(q)
      OBVIOUS
    <3>2. /\ k <= M /\ ring[k].status \notin {"Rejected", "Processed"}
          /\ k = cursor[Pipe!R2(q)] + 1
      BY <1>0, <2>1, <3>1 DEF Settling, R2Slot, slot
    <3>3. R2Slot(q)' = k /\ k # n /\ k \in 1 .. published
      BY <1>4, <1>5, <1>6, <3>2 DEF R2Slot, slot
    <3> QED
      BY <1>7, <3>2, <3>3
  <2> QED
    BY <1>0, <1>2, <1>4, <2>1 DEF Settling
<1>14. Side'
  BY <1>9, <1>11, <1>12, <1>13 DEF Side
<1>15. ASSUME NEW k \in 1 .. MaxSeq, k # n
       PROVE  ItemsAt(k)' = ItemsAt(k)
  <2>1. CASE k <= cursor[Pipe!Events] \/ published < k
    <3>1. k <= n \/ published < k
      BY <1>1, <1>4, <2>1
    <3> QED
      BY <1>3, <2>1, <3>1 DEF ItemsAt
  <2>2. CASE n < k /\ k <= M
    <3>1. /\ k \in 1 .. published /\ k \in cursor[Pipe!Events] + 1 .. M /\ ~(k <= n)
          /\ ~(published < k) /\ ~(k <= cursor[Pipe!Events]) /\ k \in Nat
      BY <1>1, <1>4, <2>2
    <3>2. FiledAt(ring[k], trades[k])
      BY <1>0, <3>1 DEF Filed
    <3>3. trades[k] \in Seq(BP!Event)
      BY <3>1 DEF XInv, RingSound
    <3>4. PICK d, f, cu, cv, st :
            /\ d = ring[k] /\ f = trades[k] /\ cu = cursor /\ cv = cursor'
            /\ st = settled
      OBVIOUS
    <3>5. \A q \in RiskShards :
            /\ cu[Pipe!R2(q)] < k <=> cv[Pipe!R2(q)] < k
            /\ \A j \in Nat \ {0} :
                 StillDue(k, j, cu, st, q) <=> StillDue(k, j, cv, st, q)
      BY <1>4, <3>4 DEF StillDue
    <3>6. After(k, d, f, cv, st) = After(k, d, f, cu, st)
      BY <3>2, <3>3, <3>4, <3>5, AfterSame DEF FiledAt
    <3>7. ItemsAt(k) = After(k, d, f, cu, st)
      BY <2>2, <3>1, <3>4 DEF ItemsAt
    <3>9. ring'[k] = d /\ trades'[k] = f
      BY <1>7, <1>15, <3>1, <3>4
    <3>8. ItemsAt(k)' = After(k, d, f, cv, st)
      BY <1>2, <1>3, <1>4, <2>2, <3>1, <3>4, <3>9 DEF ItemsAt
    <3> QED
      BY <3>6, <3>7, <3>8
  <2>3. CASE k = M + 1 /\ pc # "idle" /\ k <= published
    <3>1. /\ ~(k <= cursor[Pipe!Events]) /\ ~(published < k) /\ ~(k <= M)
          /\ ~(k <= n)
      BY <1>4, <1>6, <2>3
    <3>2. ItemsAt(k) = InMatch(k, cmd, pc, remaining, events)
      BY <2>3, <3>1 DEF ItemsAt
    <3>3. ItemsAt(k)' = InMatch(k, cmd', pc', remaining', events')
      BY <1>3, <1>4, <1>8, <2>3, <3>1 DEF ItemsAt
    <3> QED
      BY <1>8, <3>2, <3>3
  <2>4. CASE M < k /\ k <= published /\ ~(k = M + 1 /\ pc # "idle")
    <3>1. /\ ~(k <= cursor[Pipe!Events]) /\ ~(published < k) /\ ~(k <= M)
          /\ ~(k <= n) /\ k \in Nat
      BY <1>4, <1>6, <2>4
    <3>2. ItemsAt(k) = Waits(k, ring[k], cursor)
      BY <2>4, <3>1 DEF ItemsAt
    <3>3. ItemsAt(k)' = Waits(k, ring'[k], cursor')
      BY <1>3, <1>4, <1>8, <2>4, <3>1 DEF ItemsAt
    <3> QED
      BY <1>10, <2>4, <3>1, <3>2, <3>3
  <2> QED
    BY <1>1, <1>4, <1>6, <1>15, <2>1, <2>2, <2>3, <2>4
<1>16. ItemsAt(n) = {} /\ ItemsAt(n)' = {}
  <2>1. FiledAt(ring[n], trades[n]) /\ trades[n] \in Seq(BP!Event)
    <3>1. n \in cursor[Pipe!Events] + 1 .. M
      BY <1>1, <1>4, <1>6
    <3> QED
      BY <1>0, <1>6, <3>1 DEF Filed, XInv, RingSound
  <2>2. PICK c, ev, cu, st : c = ring[n] /\ ev = trades[n] /\ cu = cursor /\ st = settled
    OBVIOUS
  <2>3. \A q \in RiskShards : ~(cu[Pipe!R2(q)] < n)
    BY <1>4, <1>5, <1>6, <2>2
  <2>4. ~(cu[Pipe!R2(ShardOf[c.user_id])] < n) /\ c.user_id \in Users
    BY <2>1, <2>2, <2>3, ShardAssumption DEF FiledAt
  <2>5. ASSUME NEW y \in Deals(ev)
        PROVE  ~StillDue(n, Place(y), cu, st, ShardOf[Payer(y, c, ev[y.event])])
    <3>1. ev[y.event] \in BP!Event
      BY <2>1, <2>2, DealsPlaced
    <3>2. Payer(y, c, ev[y.event]) \in Users
      BY <2>4, <3>1 DEF Payer, BP!Event
    <3> QED
      BY <2>3, <3>2, ShardAssumption DEF StillDue
  <2>6. After(n, c, ev, cu, st) = {}
    BY <2>4, <2>5 DEF After
  <2>7. ItemsAt(n) = After(n, c, ev, cu, st)
    <3>1. ~(n <= cursor[Pipe!Events]) /\ ~(published < n)
      BY <1>1, <1>4, <1>6
    <3> QED
      BY <1>6, <2>2, <3>1 DEF ItemsAt
  <2>8. ItemsAt(n)' = {}
    <3>1. n <= n
      BY <1>6
    <3> QED
      BY <1>3, <3>1 DEF ItemsAt
  <2> QED
    BY <2>6, <2>7, <2>8
<1>17. Items' = Items
  BY <1>15, <1>16, ItemsKept
<1> QED
  BY <1>2, <1>14, <1>17, FrontCalm

(* What shard s has still to do, as the claims name it.                    *)
LEMMA DueIs ==
  ASSUME NEW n, NEW s, NEW c, c = ring[n], NEW ev, ev = trades[n]
  PROVE  Due(n, s) = {x \in Deals(ev) : /\ ShardOf[Payer(x, c, ev[x.event])] = s
                                        /\ Place(x) > settled[s]}
  BY DEF Due, Deals, Party, Payer

(* Shard s is through with slot n.                                         *)
Through(n, c, ev, s, cu, st, cv, sv) ==
  /\ cu[Pipe!R2(s)] + 1 = n /\ cu[Pipe!R2(s)] < n /\ ~(cv[Pipe!R2(s)] < n)
  /\ \A q \in RiskShards \ {s} : /\ cv[Pipe!R2(q)] = cu[Pipe!R2(q)]
                                 /\ sv[q] = st[q]
  /\ \A x \in Deals(ev) :
       ShardOf[Payer(x, c, ev[x.event])] = s => ~(Place(x) > st[s])

(* Then its release is the only claim that goes, if it has one.            *)
LEMMA AfterThrough ==
  ASSUME NEW n, NEW c, c.user_id \in Users, NEW ev \in Seq(BP!Event),
         NEW s, NEW cu, NEW st, NEW cv, NEW sv,
         Through(n, c, ev, s, cu, st, cv, sv), NEW h, h = HoldItem(n, c, c.size)
  PROVE  IF ShardOf[c.user_id] = s /\ should_handle_cancellation(c)
         THEN /\ h \in After(n, c, ev, cu, st)
              /\ After(n, c, ev, cv, sv) = After(n, c, ev, cu, st) \ {h}
         ELSE After(n, c, ev, cv, sv) = After(n, c, ev, cu, st)
<1> DEFINE T(cw, sw) == {DueItem(n, x, c, ev[x.event]) :
                           x \in {y \in Deals(ev) :
                                    StillDue(n, Place(y), cw, sw,
                                             ShardOf[Payer(y, c, ev[y.event])])}}
           H(cw) == IF should_handle_cancellation(c)
                       /\ cw[Pipe!R2(ShardOf[c.user_id])] < n THEN {h} ELSE {}
<1>1. /\ After(n, c, ev, cu, st) = H(cu) \cup T(cu, st)
      /\ After(n, c, ev, cv, sv) = H(cv) \cup T(cv, sv)
  BY DEF After
<1>2. ASSUME NEW y \in Deals(ev)
      PROVE  StillDue(n, Place(y), cu, st, ShardOf[Payer(y, c, ev[y.event])])
               <=> StillDue(n, Place(y), cv, sv, ShardOf[Payer(y, c, ev[y.event])])
  <2>1. PICK q : q = ShardOf[Payer(y, c, ev[y.event])]
    OBVIOUS
  <2>2. q \in RiskShards
    <3>1. ev[y.event] \in BP!Event
      BY DealsPlaced
    <3>2. Payer(y, c, ev[y.event]) \in Users
      BY <3>1 DEF Payer, BP!Event
    <3> QED
      BY <2>1, <3>2, ShardAssumption
  <2>3. CASE q = s
    BY <2>1, <2>3 DEF Through, StillDue
  <2>4. CASE q # s
    BY <2>1, <2>2, <2>4 DEF Through, StillDue
  <2> QED
    BY <2>3, <2>4
<1>3. T(cv, sv) = T(cu, st)
  BY <1>2
<1>4. h \notin T(cu, st)
  <2>1. T(cu, st) \subseteq DueItems(n, c, ev)
    BY DEF DueItems
  <2>2. h \notin DueItems(n, c, ev)
    BY HoldNotDue
  <2> QED
    BY <2>1, <2>2
<1>5. ShardOf[c.user_id] \in RiskShards
  BY ShardAssumption
<1>6. CASE ShardOf[c.user_id] = s
  <2>1. H(cv) = {} /\ H(cu) = IF should_handle_cancellation(c) THEN {h} ELSE {}
    BY <1>6 DEF Through
  <2> HIDE DEF H, T
  <2> QED
    BY <1>1, <1>3, <1>4, <1>6, <2>1
<1>7. CASE ShardOf[c.user_id] # s
  <2>1. H(cv) = H(cu)
    BY <1>5, <1>7 DEF Through
  <2> HIDE DEF H, T
  <2> QED
    BY <1>1, <1>3, <1>7, <2>1
<1> QED
  BY <1>6, <1>7

(* What unlock_funds does when nothing overflows.                          *)
LEMMA UnlockFits ==
  ASSUME NEW b \in Balance, NEW x \in Nat, x <= b.locked,
         b.available + b.locked <= U64MAX, NEW r, r = unlock_funds(b, x)
  PROVE  /\ r.ok /\ r.bal \in Balance
         /\ r.bal.available = b.available + x /\ r.bal.locked = b.locked - x
<1>1. b.available \in Nat /\ b.locked \in Nat /\ b.locked <= U64MAX /\ U64MAX \in Nat
  BY MarketAssumption DEF Balance
<1>2. b.locked >= x /\ b.available + x <= U64MAX /\ b.available + x \in Nat
  BY <1>1
<1>3. wrap(b.available + x) = b.available + x
  BY <1>2, WrapSmall
<1>4. r = [ok |-> TRUE, bal |-> [available |-> b.available + x,
                                 locked |-> b.locked - x]]
  BY <1>2, <1>3 DEF unlock_funds, Ok
<1>5. b.locked - x \in 0 .. U64MAX /\ b.available + x \in 0 .. U64MAX
  BY <1>1, <1>2
<1> QED
  BY <1>4, <1>5 DEF Balance

(* What an order that is over still has locked is given back.              *)
LEMMA YFinish2 ==
  ASSUME XInv, Side, Money, AmountsFit, NEW s \in RiskShards, r2_finish(s)
  PROVE  Side' /\ Money'
<1>1. PICK n : n = cursor[Pipe!R2(s)] + 1
  OBVIOUS
<1>2. PICK c, ev : c = ring[n] /\ ev = trades[n]
  OBVIOUS
<1>3. PICK u, a : u = c.user_id /\ a = reserved_asset(c.side)
  OBVIOUS
<1>4. PICK r : r = unlock_funds(balances[u][a],
                                reserved_amount(c.side, c.price, c.size))
  OBVIOUS
<1>5. /\ Pipe!handle(Pipe!R2(s)) /\ c.status \notin {"Rejected", "Processed"}
      /\ Due(n, s) = {} /\ settled' = [settled EXCEPT ![s] = 0]
      /\ IF ShardOf[u] = s /\ should_handle_cancellation(c)
         THEN /\ balances' = [balances EXCEPT ![u][a] = r.bal]
              /\ failed' = (failed \/ ~r.ok)
         ELSE UNCHANGED <<balances, failed>>
      /\ BookStands /\ UNCHANGED <<ring, trades, net_deposits, fees, inexact>>
  BY <1>1, <1>2, <1>3, <1>4 DEF r2_finish, R2Slot, slot, BookStands
<1>6. R2Turn(s, n, 0)
  BY <1>1, <1>5, HandleFacts, HandlersAre DEF R2Turn, XInv
<1>7. PICK cu, st, cv, sv : cu = cursor /\ st = settled /\ cv = cursor' /\ sv = settled'
  OBVIOUS
<1>8. /\ n \in 1 .. MaxSeq /\ n \in Nat /\ cu[Pipe!R2(s)] + 1 = n
      /\ cu[Pipe!R2(s)] < n
      /\ \A q \in RiskShards \ {s} : /\ cv[Pipe!R2(q)] = cu[Pipe!R2(q)]
                                     /\ sv[q] = st[q]
      /\ FiledAt(c, ev) /\ ev \in Seq(BP!Event)
      /\ Side' /\ \A k \in 1 .. MaxSeq : k # n => ItemsAt(k)' = ItemsAt(k)
      /\ ItemsAt(n) = After(n, c, ev, cu, st)
      /\ ItemsAt(n)' = After(n, c, ev, cv, sv)
  BY <1>2, <1>6, <1>7, R2Moves
<1>9. Through(n, c, ev, s, cu, st, cv, sv)
  <2>1. cv[Pipe!R2(s)] = n /\ ~(n < n)
    BY <1>1, <1>5, <1>7, <1>8, HandleFacts, HandlersAre DEF XInv
  <2>2. \A x \in Deals(ev) :
          ShardOf[Payer(x, c, ev[x.event])] = s => ~(Place(x) > st[s])
    BY <1>2, <1>5, <1>7, DueIs
  <2> QED
    BY <1>8, <2>1, <2>2 DEF Through
<1>10. PICK h : h = HoldItem(n, c, c.size)
  OBVIOUS
<1>11. IF ShardOf[u] = s /\ should_handle_cancellation(c)
       THEN /\ h \in After(n, c, ev, cu, st)
            /\ After(n, c, ev, cv, sv) = After(n, c, ev, cu, st) \ {h}
       ELSE After(n, c, ev, cv, sv) = After(n, c, ev, cu, st)
  <2>1. c.user_id \in Users /\ ev \in Seq(BP!Event)
    BY <1>8 DEF FiledAt
  <2>2. IF ShardOf[c.user_id] = s /\ should_handle_cancellation(c)
        THEN /\ h \in After(n, c, ev, cu, st)
             /\ After(n, c, ev, cv, sv) = After(n, c, ev, cu, st) \ {h}
        ELSE After(n, c, ev, cv, sv) = After(n, c, ev, cu, st)
    BY ONLY <1>9, <1>10, <2>1, AfterThrough
  <2>3. ShardOf[u] = ShardOf[c.user_id]
    BY <1>3
  <2> QED
    BY ONLY <2>2, <2>3
<1>12. Need' = Need
  BY <1>5 DEF BookStands, bookVars, Need
<1>13. CASE ~(ShardOf[u] = s /\ should_handle_cancellation(c))
  <2>1. Items' = Items
    BY <1>8, <1>11, <1>13, ItemsKept
  <2> QED
    BY <1>5, <1>8, <1>12, <1>13, <2>1 DEF Money
<1>14. CASE ShardOf[u] = s /\ should_handle_cancellation(c)
  <2>1. /\ h \in ItemsAt(n) /\ ItemsAt(n)' = ItemsAt(n) \ {h}
    BY <1>8, <1>11, <1>14
  <2>2. PICK S : S = Items
    OBVIOUS
  <2>3. Items' = S \ {h} /\ h \in S
    <3>1. PICK F, G : F = ItemsBySlot /\ G = ItemsBySlot'
      OBVIOUS
    <3>2. /\ OneSlot(F, G, n) /\ F[n] = ItemsAt(n) /\ G[n] = ItemsAt(n)'
          /\ Items = Spread(F) /\ Items' = Spread(G)
      BY <1>8, <3>1, ItemsOneSlot
    <3>3. h \in F[n] /\ G[n] = F[n] \ {h}
      BY <2>1, <3>2
    <3>4. Spread(G) = Spread(F) \ {h} /\ h \in Spread(F)
      BY <3>2, <3>3, SpreadDrop
    <3> QED
      BY <2>2, <3>2, <3>4
  <2>4. n \in Nat /\ PartyKnown(c) /\ c.size \in Nat
    <3>1. c \in BP!Command
      BY <1>8, <1>14 DEF FiledAt
    <3> QED
      BY <1>8, <3>1 DEF BP!Command, PartyKnown
  <2>5. /\ h \in Claims /\ h.user = c.user_id /\ h.out = reserved_asset(c.side)
        /\ h.pay = 0 /\ h.get = 0 /\ h.slack = 0
        /\ h.claim = reserved_amount(c.side, c.price, c.size)
    BY ONLY <1>10, <2>4, HoldClaims
  <2>6. /\ u \in Users /\ a \in Assets /\ h.user = u /\ h.out = a
        /\ h.in \in Assets /\ h.in # a /\ h.claim \in Nat
    BY <1>3, <2>5 DEF Claims
  <2>7. PICK need, bal, bal2, inex, fee, net :
          /\ need = Need /\ bal = balances /\ bal2 = balances' /\ inex = inexact
          /\ fee = fees /\ net = net_deposits
    OBVIOUS
  <2>8. ~failed /\ Ledger(need, S, bal, inex, fee, net)
    BY <2>2, <2>7 DEF Money
  <2>9. h.claim <= bal[u][a].locked
    BY <2>3, <2>6, <2>8, LedgerCovers
  <2>10. /\ bal \in [Users -> [Assets -> Balance]] /\ bal[u][a] \in Balance
         /\ inex \in [Users -> Nat] /\ fee \in [Assets -> Nat]
         /\ bal[u][h.in] \in Balance
    BY <2>6, <2>7, MoneyTyped
  <2>11. bal[u][a].available + bal[u][a].locked <= U64MAX
    BY <2>6, <2>7 DEF AmountsFit
  <2>12. r = unlock_funds(bal[u][a], h.claim)
    BY <1>4, <2>5, <2>7
  <2>13. /\ r.ok /\ r.bal \in Balance
         /\ r.bal.available = bal[u][a].available + h.claim
         /\ r.bal.locked = bal[u][a].locked - h.claim
    BY <2>6, <2>9, <2>10, <2>11, <2>12, UnlockFits
  <2>14. bal2 = [bal EXCEPT ![u][a] = r.bal] /\ ~failed'
    <3>1. balances' = [balances EXCEPT ![u][a] = r.bal] /\ failed' = (failed \/ ~r.ok)
      BY <1>5, <1>14
    <3> QED
      BY <2>7, <2>8, <2>13, <3>1
  <2>15. /\ bal2 \in [Users -> [Assets -> Balance]] /\ bal2[u][a] = r.bal
         /\ \A v \in Users, b \in Assets : v # u \/ b # a => bal2[v][b] = bal[v][b]
    BY ONLY <2>6, <2>10, <2>13, <2>14, BalancePut
  <2>16. SettledWith(bal, bal2, h, 0)
    <3>1. bal2[u][a].available = bal[u][a].available + (h.claim - h.pay)
      BY <2>5, <2>6, <2>13, <2>15
    <3>2. bal2[u][h.in] = bal[u][h.in] /\ bal[u][h.in].available \in Nat
      BY <2>6, <2>10, <2>15 DEF Balance
    <3>3. bal2[u][h.in].available = bal[u][h.in].available + (h.get - 0)
      BY <2>5, <3>2
    <3> QED
      BY <2>6, <2>13, <2>15, <3>1, <3>2, <3>3 DEF SettledWith
  <2>17. CountedWith(inex, inex, h)
    <3>1. inex[u] \in Nat
      BY <2>6, <2>10
    <3> QED
      BY <2>5, <2>6, <2>10, <3>1 DEF CountedWith
  <2>18. Ledger(need, S \ {h}, bal2, inex, [fee EXCEPT ![h.in] = @ + 0], net)
    BY <2>3, <2>8, <2>16, <2>17, LedgerSettle
  <2>19. [fee EXCEPT ![h.in] = @ + 0] = fee
    BY <2>6, <2>10
  <2> QED
    BY <1>5, <1>8, <1>12, <2>3, <2>7, <2>8, <2>14, <2>18, <2>19 DEF Money
<1> QED
  BY <1>13, <1>14

-----------------------------------------------------------------------------
(* Settlement of a trade.                                                  *)

(* A remainder is no larger than its number.                               *)
LEMMA RemainderFits ==
  ASSUME NEW x \in Nat, NEW D \in Nat \ {0}
  PROVE  (x % D) \in Nat /\ (x % D) <= x
<1>1. x \div D \in Nat /\ (x % D) \in 0 .. D - 1 /\ x = D * (x \div D) + (x % D)
  BY Quotient
<1>2. PICK q, r : q = x \div D /\ r = (x % D)
  OBVIOUS
<1>3. PICK z : z = D * q
  OBVIOUS
<1>4. z \in Nat
  BY <1>1, <1>2, <1>3
<1>5. r \in 0 .. D - 1 /\ x = z + r
  BY <1>1, <1>2, <1>3
<1>6. r \in Nat /\ r <= x
  BY ONLY <1>4, <1>5, D \in Nat \ {0}, x \in Nat
<1> QED
  BY <1>2, <1>6

(* A part of a whole in ten thousandths, rounded down.                     *)
LEMMA PartFits ==
  ASSUME NEW g \in Nat, NEW f \in Nat, f <= 10000, NEW D \in Nat \ {0},
         NEW k, k = ((g * f) % D) \div 10000
  PROVE  k \in Nat /\ k <= g
<1>1. PICK x : x = g * f
  OBVIOUS
<1>2. x \in Nat /\ x <= 10000 * g
  <2>1. PICK y : y = 10000 - f
    OBVIOUS
  <2>2. y \in Nat /\ f \in Nat /\ f + y = 10000
    BY <2>1
  <2>3. PICK v : v = g * y
    OBVIOUS
  <2>4. v \in Nat /\ x \in Nat
    BY <1>1, <2>2, <2>3
  <2>5. g * (f + y) = x + v
    BY <1>1, <2>2, <2>3
  <2>6. 10000 * g = x + v
    BY <2>2, <2>5
  <2> QED
    BY ONLY <2>4, <2>6
<1>3. PICK w : w = (x % D)
  OBVIOUS
<1>4. w \in Nat /\ w <= x
  BY <1>2, <1>3, RemainderFits
<1>5. k = w \div 10000
  BY <1>1, <1>3
<1>6. w \in Nat /\ g \in Nat /\ w <= 10000 * g
  BY ONLY <1>2, <1>4, g \in Nat
<1> QED
  BY ONLY <1>5, <1>6

(* A fee is a part of what it is taken from.                               *)
LEMMA FeeFits ==
  ASSUME NEW m, NEW g \in Nat, NEW k, k = trade_fee(m, g)
  PROVE  k \in Nat /\ k <= g
<1>1. PICK f : f = IF m THEN MAKER_FEE ELSE TAKER_FEE
  OBVIOUS
<1>2. f \in Nat /\ f <= 10000
  <2>1. PICK z : z = 10000
    OBVIOUS
  <2>2. MAKER_FEE \in 0 .. z /\ TAKER_FEE \in 0 .. z
    BY <2>1, SpecAssumption
  <2>3. z \in Int
    BY <2>1
  <2>4. /\ MAKER_FEE \in Nat /\ MAKER_FEE <= z
        /\ TAKER_FEE \in Nat /\ TAKER_FEE <= z
    BY ONLY <2>2, <2>3
  <2>5. f = MAKER_FEE \/ f = TAKER_FEE
    BY <1>1
  <2> QED
    BY <2>1, <2>4, <2>5
<1>3. PICK D : D = U64MAX + 1
  OBVIOUS
<1>4. D \in Nat \ {0}
  BY <1>3, Scales
<1>5. k = ((g * f) % D) \div 10000
  BY <1>1, <1>3 DEF trade_fee, wrap
<1> QED
  BY <1>2, <1>4, <1>5, PartFits

(* The funds suffice for a settlement, and nothing overflows.              *)
Sufficient(b, side, pay, get, back) ==
  /\ b \in [Assets -> Balance] /\ side \in BP!Sides
  /\ pay \in Nat /\ get \in Nat /\ back \in Nat
  /\ pay + back <= b[reserved_asset(side)].locked
  /\ b[reserved_asset(BP!op_side(side))].available + get <= U64MAX
  /\ \A a \in Assets : b[a].available + b[a].locked <= U64MAX

(* Then the settlement succeeds, and moves what its claim says.            *)
LEMMA SettleTrade ==
  ASSUME NEW b, NEW m, NEW side, NEW limit, NEW e, NEW pay, NEW get, NEW back,
         Sufficient(b, side, pay, get, back),
         pay = reserved_amount(side, e.price, e.size),
         get = reserved_amount(BP!op_side(side), e.price, e.size),
         back = refund(m, side, limit, e),
         NEW out, out = reserved_asset(side),
         NEW in, in = reserved_asset(BP!op_side(side)),
         NEW k, k = trade_fee(m, get),
         NEW r, r = settle_trade(b, m, side, limit, e)
  PROVE  /\ r.ok /\ r.asset = in /\ r.fee = k /\ k \in Nat
         /\ r.bal \in [Assets -> Balance]
         /\ r.bal[out].available = b[out].available + back
         /\ r.bal[out].locked = b[out].locked - (pay + back)
         /\ r.bal[in].available = b[in].available + (get - k)
         /\ r.bal[in].locked = b[in].locked
<1>1. /\ b \in [Assets -> Balance] /\ side \in {"Bid", "Ask"}
      /\ pay \in Nat /\ get \in Nat /\ back \in Nat
      /\ pay + back <= b[out].locked /\ b[in].available + get <= U64MAX
      /\ \A a \in Assets : b[a].available + b[a].locked <= U64MAX
  BY SidesAre DEF Sufficient
<1>2. /\ out = IF side = "Bid" THEN "quote" ELSE "base"
      /\ in = IF side = "Bid" THEN "base" ELSE "quote"
      /\ out \in Assets /\ in \in Assets /\ in # out
  BY <1>1 DEF reserved_asset, BP!op_side, Assets
<1>3. side # "Bid" => back = 0
  BY DEF refund
<1>4. PICK back1 : back1 = unlock_funds(b["quote"], back)
  OBVIOUS
<1>5. /\ "quote" \in Assets /\ b["quote"] \in Balance
      /\ \A a \in Assets : b[a].available \in Nat /\ b[a].locked \in Nat
  BY <1>1, MarketAssumption DEF Assets, Balance
<1>6. back <= b["quote"].locked
  <2>1. CASE side = "Bid"
    <3>1. out = "quote" /\ b[out].locked \in Nat
      BY <1>2, <1>5, <2>1
    <3> QED
      BY <1>1, <3>1
  <2>2. CASE side # "Bid"
    BY <1>3, <1>5, <2>2
  <2> QED
    BY <2>1, <2>2
<1>7. /\ back1.ok /\ back1.bal \in Balance
      /\ back1.bal.available = b["quote"].available + back
      /\ back1.bal.locked = b["quote"].locked - back
  BY <1>1, <1>4, <1>5, <1>6, UnlockFits
<1>8. PICK b1 : b1 = [b EXCEPT !["quote"] = back1.bal]
  OBVIOUS
<1>9. /\ b1 \in [Assets -> Balance]
      /\ b1[out].available = b[out].available + back
      /\ b1[out].locked = b[out].locked - back
      /\ b1[in].available = b[in].available /\ b1[in].locked = b[in].locked
  <2>1. b1 \in [Assets -> Balance] /\ b1["quote"] = back1.bal /\ b1["base"] = b["base"]
    BY <1>1, <1>7, <1>8 DEF Assets
  <2>2. CASE side = "Bid"
    BY <1>2, <1>7, <2>1, <2>2
  <2>3. CASE side # "Bid"
    <3>1. out = "base" /\ in = "quote" /\ back = 0 /\ "base" \in Assets
      BY <1>2, <1>3, <2>3
    <3> QED
      BY <1>5, <1>7, <2>1, <3>1
  <2> QED
    BY <2>1, <2>2, <2>3
<1>10. PICK sub : sub = subtract_locked_funds(b1[out], pay)
  OBVIOUS
<1>11. b1[out] \in Balance /\ b1[out].locked >= pay /\ b1[out].locked \in Nat
       /\ b1[out].available \in Nat
  <2>1. b1[out] \in Balance
    BY <1>2, <1>9
  <2>2. b1[out].locked \in Nat /\ b1[out].available \in Nat
    BY <2>1, MarketAssumption DEF Balance
  <2> QED
    BY <1>1, <1>2, <1>5, <1>9, <2>1, <2>2
<1>12. sub.ok /\ sub.bal = [b1[out] EXCEPT !.locked = @ - pay]
  BY <1>10, <1>11 DEF subtract_locked_funds, Ok
<1>13. /\ sub.bal \in Balance /\ sub.bal.available = b1[out].available
       /\ sub.bal.locked = b1[out].locked - pay
  <2>1. b1[out].locked - pay \in 0 .. U64MAX
    BY <1>1, <1>11, MarketAssumption DEF Balance
  <2> QED
    BY <1>11, <1>12, <2>1 DEF Balance
<1>14. PICK b2 : b2 = [b1 EXCEPT ![out] = sub.bal]
  OBVIOUS
<1>15. b2 \in [Assets -> Balance] /\ b2[out] = sub.bal /\ b2[in] = b1[in]
  BY <1>2, <1>9, <1>13, <1>14
<1>16. k \in Nat /\ k <= get
  BY <1>1, FeeFits
<1>17. PICK add : add = add_funds(b2[in], get - k)
  OBVIOUS
<1>18. /\ b2[in].available + (get - k) <= U64MAX /\ b2[in].available \in Nat
       /\ b2[in] \in Balance /\ get - k \in Nat
  <2>1. b2[in].available = b[in].available /\ b[in].available \in Nat
    BY <1>2, <1>5, <1>9, <1>15
  <2> QED
    BY <1>1, <1>2, <1>15, <1>16, <2>1, MarketAssumption
<1>19. add.ok /\ add.bal = [b2[in] EXCEPT !.available = @ + (get - k)]
  BY <1>17, <1>18 DEF add_funds, Ok
<1>20. /\ add.bal \in Balance /\ add.bal.locked = b2[in].locked
       /\ add.bal.available = b2[in].available + (get - k)
  <2>1. b2[in].available + (get - k) \in 0 .. U64MAX
    BY <1>18, MarketAssumption
  <2> QED
    BY <1>18, <1>19, <2>1 DEF Balance
<1>21. PICK b3 : b3 = [b2 EXCEPT ![in] = add.bal]
  OBVIOUS
<1>22. b3 \in [Assets -> Balance] /\ b3[in] = add.bal /\ b3[out] = b2[out]
  BY <1>2, <1>15, <1>20, <1>21
<1>23. r = [ok |-> TRUE, bal |-> b3, asset |-> in, fee |-> k]
  <2>1. PICK cost : cost = calculate_quote_cost(e.price, e.size)
    OBVIOUS
  <2>2. /\ pay = IF side = "Bid" THEN cost ELSE e.size
        /\ get = IF side = "Bid" THEN e.size ELSE cost
    BY <1>1, <2>1 DEF reserved_amount, BP!op_side
  <2> QED
    BY <1>2, <1>4, <1>7, <1>8, <1>10, <1>12, <1>14, <1>17, <1>19, <1>21, <2>1, <2>2
       DEF settle_trade
<1>24. r.ok /\ r.bal = b3 /\ r.asset = in /\ r.fee = k
  BY <1>23
<1>25. b3[out].locked = b[out].locked - (pay + back)
  <2>1. b[out].locked \in Nat
    BY <1>2, <1>5
  <2> QED
    BY <1>1, <1>9, <1>13, <1>15, <1>22, <2>1
<1> QED
  BY <1>9, <1>13, <1>15, <1>16, <1>20, <1>22, <1>24, <1>25

-----------------------------------------------------------------------------
(* Shard s does the settlement x of slot n, the next one it has.           *)
NextFor(n, c, ev, s, cu, st, sv, x) ==
  /\ cu[Pipe!R2(s)] + 1 = n /\ cu[Pipe!R2(s)] < n
  /\ x \in Deals(ev) /\ ShardOf[Payer(x, c, ev[x.event])] = s
  /\ st[s] \in Nat /\ Place(x) > st[s] /\ sv[s] = Place(x)
  /\ \A q \in RiskShards \ {s} : sv[q] = st[q]
  /\ \A y \in Deals(ev) :
       ShardOf[Payer(y, c, ev[y.event])] = s /\ Place(y) > st[s] =>
         Place(x) <= Place(y)

(* It is the only claim that goes.                                         *)
LEMMA AfterSettle ==
  ASSUME NEW n, NEW c, c.user_id \in Users, NEW ev \in Seq(BP!Event),
         NEW s, NEW cu, NEW st, NEW sv, NEW x,
         NextFor(n, c, ev, s, cu, st, sv, x),
         NEW d, d = DueItem(n, x, c, ev[x.event])
  PROVE  /\ d \in After(n, c, ev, cu, st)
         /\ After(n, c, ev, cu, sv) = After(n, c, ev, cu, st) \ {d}
<1> DEFINE Left(sw) == {y \in Deals(ev) :
                          StillDue(n, Place(y), cu, sw,
                                   ShardOf[Payer(y, c, ev[y.event])])}
           T(sw) == {DueItem(n, y, c, ev[y.event]) : y \in Left(sw)}
           H == IF should_handle_cancellation(c)
                   /\ cu[Pipe!R2(ShardOf[c.user_id])] < n
                THEN {HoldItem(n, c, c.size)} ELSE {}
<1>1. /\ After(n, c, ev, cu, st) = H \cup T(st)
      /\ After(n, c, ev, cu, sv) = H \cup T(sv)
  BY DEF After
<1>2. /\ cu[Pipe!R2(s)] + 1 = n /\ cu[Pipe!R2(s)] < n
      /\ x \in Deals(ev) /\ ShardOf[Payer(x, c, ev[x.event])] = s
      /\ st[s] \in Nat /\ Place(x) > st[s] /\ sv[s] = Place(x)
      /\ \A q \in RiskShards \ {s} : sv[q] = st[q]
      /\ \A y \in Deals(ev) :
           ShardOf[Payer(y, c, ev[y.event])] = s /\ Place(y) > st[s] =>
             Place(x) <= Place(y)
  BY DEF NextFor
<1>3. \A y \in Deals(ev) : /\ y \in [event: Nat \ {0}, role: Roles]
                           /\ Place(y) \in Nat \ {0}
                           /\ ev[y.event] \in BP!Event
  BY DealsPlaced
<1>4. ASSUME NEW y \in Deals(ev)
      PROVE  StillDue(n, Place(y), cu, sv, ShardOf[Payer(y, c, ev[y.event])])
               <=> /\ StillDue(n, Place(y), cu, st, ShardOf[Payer(y, c, ev[y.event])])
                   /\ y # x
  <2>1. PICK q : q = ShardOf[Payer(y, c, ev[y.event])]
    OBVIOUS
  <2>2. q \in RiskShards
    <3>1. ev[y.event] \in BP!Event
      BY <1>3
    <3>2. Payer(y, c, ev[y.event]) \in Users
      BY <3>1 DEF Payer, BP!Event
    <3> QED
      BY <2>1, <3>2, ShardAssumption
  <2>3. CASE q = s
    <3>1. PICK i, j, t : i = Place(x) /\ j = Place(y) /\ t = st[s]
      OBVIOUS
    <3>2. i \in Nat /\ j \in Nat /\ t \in Nat /\ i > t /\ (i = j <=> x = y)
      BY <1>2, <1>3, <3>1, PlaceFacts
    <3>3. j > t => i <= j
      BY <1>2, <2>1, <2>3, <3>1
    <3>4. j > i <=> j > t /\ y # x
      BY ONLY <3>2, <3>3
    <3> QED
      BY <1>2, <2>1, <2>3, <3>1, <3>4 DEF StillDue
  <2>4. CASE q # s
    <3>1. sv[q] = st[q] /\ y # x
      BY <1>2, <2>1, <2>2, <2>4
    <3> QED
      BY <2>1, <3>1 DEF StillDue
  <2> QED
    BY <2>3, <2>4
<1>5. Left(sv) = Left(st) \ {x}
  BY <1>4
<1>6. x \in Left(st)
  BY <1>2 DEF StillDue
<1>7. \A y \in Left(st) : DueItem(n, y, c, ev[y.event]) = d => y = x
  <2>1. x \in [event: Nat \ {0}, role: Roles]
    BY <1>2, <1>3
  <2>2. ASSUME NEW y \in Left(st), DueItem(n, y, c, ev[y.event]) = d PROVE y = x
    <3>1. y \in [event: Nat \ {0}, role: Roles]
      BY <1>3
    <3> QED
      BY <2>1, <2>2, <3>1, DuePlaces
  <2> QED
    BY <2>2
<1> HIDE DEF Left
<1>8. T(sv) = T(st) \ {d} /\ d \in T(st)
  BY <1>5, <1>6, <1>7
<1>9. d \notin H
  <2>1. x \in [event: Nat \ {0}, role: Roles]
    BY <1>2, <1>3
  <2>2. d # HoldItem(n, c, c.size)
    BY <2>1, DueDiffer
  <2> QED
    BY <2>2
<1> HIDE DEF H, T
<1> QED
  BY <1>1, <1>8, <1>9

(* settle, in terms of its claim.                                          *)
LEMMA SettleIs ==
  ASSUME NEW n, NEW s, NEW x, settle(s, n, x), NEW c, c = ring[n],
         NEW ev, ev = trades[n], NEW e, e = ev[x.event],
         NEW u, u = Payer(x, c, e), NEW r,
         r = settle_trade(balances[u], x.role = "maker", SideIn(x, c),
                          LimitIn(x, c, e), e)
  PROVE  /\ balances' = [balances EXCEPT ![u] = r.bal]
         /\ fees' = [fees EXCEPT ![r.asset] = @ + r.fee]
         /\ failed' = (failed \/ ~r.ok)
         /\ settled' = [settled EXCEPT ![s] = Place(x)]
         /\ inexact' = IF Inexact(x, c, e)
                       THEN [inexact EXCEPT ![u] = @ + 1] ELSE inexact
<1>1. \A t : Book!op_side(t) = BP!op_side(t)
  BY DEF Book!op_side, BP!op_side
<1>2. Party(n, x) = u
  BY DEF Party, Payer
<1>3. SideIn(x, c) = IF x.role = "maker" THEN Book!op_side(c.side) ELSE c.side
  BY <1>1 DEF SideIn
<1> QED
  BY <1>2, <1>3 DEF settle, LimitIn, Inexact

(* What settle does to the balances of the party, when its claim is        *)
(* covered.                                                                *)
LEMMA SettleWorks ==
  ASSUME NEW need, NEW S, NEW bal, NEW inex, NEW fee, NEW net,
         Ledger(need, S, bal, inex, fee, net),
         \A a \in Assets : net[a] <= U64MAX,
         \A u \in Users, a \in Assets : bal[u][a].available + bal[u][a].locked <= U64MAX,
         NEW n \in Nat, NEW x \in [event: Nat \ {0}, role: Roles],
         NEW c, PartyKnown(c), NEW e \in BP!Event, NEW d \in S, d = DueItem(n, x, c, e),
         NEW r, r = settle_trade(bal[d.user], x.role = "maker", SideIn(x, c),
                                 LimitIn(x, c, e), e)
  PROVE  /\ r.ok /\ r.asset = d.in /\ r.fee \in Nat
         /\ SettledWith(bal, [bal EXCEPT ![d.user] = r.bal], d, r.fee)
<1>1. PICK m, side, limit : /\ m = (x.role = "maker") /\ side = SideIn(x, c)
                            /\ limit = LimitIn(x, c, e)
  OBVIOUS
<1>2. PICK u, out, in, pay, get, back :
        /\ u = d.user /\ out = d.out /\ in = d.in /\ pay = d.pay /\ get = d.get
        /\ back = Refund(x, c, e)
  OBVIOUS
<1>3. /\ d \in Claims /\ u \in Users
      /\ out = reserved_asset(side) /\ in = reserved_asset(BP!op_side(side))
      /\ pay = reserved_amount(side, e.price, e.size)
      /\ get = reserved_amount(BP!op_side(side), e.price, e.size)
      /\ d.claim = pay + back
  BY <1>1, <1>2, DueClaims
<1>4. /\ out \in Assets /\ in \in Assets /\ in # out
      /\ pay \in Nat /\ get \in Nat /\ d.claim \in Nat
  BY <1>2, <1>3 DEF Claims
<1>5. back \in Nat /\ back = refund(m, side, limit, e)
  BY <1>1, <1>2, RefundNat DEF Refund
<1>6. side \in BP!Sides
  BY <1>1, SideInSides
<1>7. /\ bal \in [Users -> [Assets -> Balance]] /\ net \in [Assets -> Nat]
  BY DEF Ledger
<1>8. /\ d.claim <= bal[u][out].locked
      /\ bal[u][in].available + get <= net[in]
  BY <1>2, LedgerCovers
<1>9. PICK b : b = bal[u]
  OBVIOUS
<1>10. Sufficient(b, side, pay, get, back)
  <2>1. b \in [Assets -> Balance]
    BY <1>3, <1>7, <1>9
  <2>2. pay + back <= b[out].locked
    BY <1>3, <1>8, <1>9
  <2>3. b[in].available + get <= U64MAX
    <3>1. b[in].available \in Nat /\ net[in] \in Nat /\ net[in] <= U64MAX
      BY <1>4, <1>7, <2>1, MarketAssumption DEF Balance
    <3> QED
      BY <1>4, <1>8, <1>9, <3>1, MarketAssumption
  <2>4. \A a \in Assets : b[a].available + b[a].locked <= U64MAX
    BY <1>3, <1>9
  <2> QED
    BY <1>3, <1>4, <1>5, <1>6, <2>1, <2>2, <2>3, <2>4 DEF Sufficient
<1>11. PICK k : k = trade_fee(m, get)
  OBVIOUS
<1>12. r = settle_trade(b, m, side, limit, e)
  BY <1>1, <1>2, <1>9
<1>13. /\ r.ok /\ r.asset = in /\ r.fee = k /\ k \in Nat
       /\ r.bal \in [Assets -> Balance]
       /\ r.bal[out].available = b[out].available + back
       /\ r.bal[out].locked = b[out].locked - (pay + back)
       /\ r.bal[in].available = b[in].available + (get - k)
       /\ r.bal[in].locked = b[in].locked
  BY <1>3, <1>5, <1>10, <1>11, <1>12, SettleTrade
<1>14. PICK bal2 : bal2 = [bal EXCEPT ![d.user] = r.bal]
  OBVIOUS
<1>15. /\ bal2 \in [Users -> [Assets -> Balance]] /\ bal2[u] = r.bal
       /\ \A v \in Users, a \in Assets : v # u => bal2[v][a] = bal[v][a]
  BY <1>2, <1>3, <1>7, <1>13, <1>14
<1>16. back = d.claim - d.pay
  BY <1>2, <1>3, <1>4, <1>5
<1>17. SettledWith(bal, bal2, d, k)
  BY <1>2, <1>3, <1>9, <1>13, <1>15, <1>16 DEF SettledWith
<1> QED
  BY <1>2, <1>13, <1>14, <1>17

(* A settlement pays what its claim has locked.                            *)
LEMMA YSettle ==
  ASSUME XInv, Side, Money, AmountsFit, NEW s \in RiskShards, r2_settle(s)
  PROVE  Side' /\ Money'
<1>1. PICK n : n = cursor[Pipe!R2(s)] + 1
  OBVIOUS
<1>2. PICK c, ev : c = ring[n] /\ ev = trades[n]
  OBVIOUS
<1>3. PICK x \in Due(n, s) : /\ \A y \in Due(n, s) : Place(x) <= Place(y)
                             /\ settle(s, n, x)
  BY <1>1 DEF r2_settle, R2Slot, slot
<1>4. /\ Pipe!available(Pipe!R2(s)) /\ BookStands
      /\ UNCHANGED <<published, cursor, ring, trades, net_deposits>>
  BY <1>1 DEF r2_settle, R2Slot, slot, BookStands
<1>5. PICK e, u : e = ev[x.event] /\ u = Payer(x, c, e)
  OBVIOUS
<1>6. PICK r : r = settle_trade(balances[u], x.role = "maker", SideIn(x, c),
                                LimitIn(x, c, e), e)
  OBVIOUS
<1>7. /\ balances' = [balances EXCEPT ![u] = r.bal]
      /\ fees' = [fees EXCEPT ![r.asset] = @ + r.fee]
      /\ failed' = (failed \/ ~r.ok)
      /\ settled' = [settled EXCEPT ![s] = Place(x)]
      /\ inexact' = IF Inexact(x, c, e)
                    THEN [inexact EXCEPT ![u] = @ + 1] ELSE inexact
  BY <1>2, <1>3, <1>5, <1>6, SettleIs
<1>8. /\ x \in Deals(ev) /\ ShardOf[Payer(x, c, ev[x.event])] = s
      /\ Place(x) > settled[s]
      /\ \A y \in Deals(ev) :
           ShardOf[Payer(y, c, ev[y.event])] = s /\ Place(y) > settled[s] =>
             Place(x) <= Place(y)
  BY <1>2, <1>3, DueIs
<1>9. /\ FiledAt(c, ev) /\ ev \in Seq(BP!Event)
  <2>1. /\ published \in Nat /\ M \in Nat /\ M <= published
        /\ cursor[Pipe!Events] \in Nat /\ cursor[Pipe!Events] <= cursor[Pipe!R2(s)]
        /\ cursor[Pipe!R2(s)] \in Nat /\ cursor[Pipe!R2(s)] < M
    BY <1>4, Cursors, Barred, HandlersAre DEF XInv, M
  <2>2. n \in cursor[Pipe!Events] + 1 .. M /\ n \in 1 .. published
    BY <1>1, <2>1
  <2> QED
    BY <1>2, <2>2 DEF Side, Filed, XInv, RingSound
<1>10. /\ x \in [event: Nat \ {0}, role: Roles] /\ Place(x) \in Nat
       /\ e \in BP!Event /\ ev # <<>>
  BY <1>5, <1>8, <1>9, DealsPlaced DEF Deals
<1>11. c \in BP!Command /\ PartyKnown(c) /\ c.status \notin {"Rejected", "Processed"}
  <2>1. c \in BP!Command /\ c.status \notin {"Rejected", "Processed"}
    BY <1>9, <1>10 DEF FiledAt
  <2> QED
    BY <2>1 DEF BP!Command, PartyKnown
<1>12. R2Turn(s, n, Place(x))
  BY <1>1, <1>2, <1>4, <1>7, <1>10, <1>11 DEF R2Turn
<1>13. PICK cu, st, sv : cu = cursor /\ st = settled /\ sv = settled'
  OBVIOUS
<1>14. /\ n \in 1 .. MaxSeq /\ n \in Nat /\ cu[Pipe!R2(s)] + 1 = n
       /\ cu[Pipe!R2(s)] < n /\ st[s] \in Nat /\ sv[s] = Place(x)
       /\ \A q \in RiskShards \ {s} : sv[q] = st[q]
       /\ Side' /\ \A k \in 1 .. MaxSeq : k # n => ItemsAt(k)' = ItemsAt(k)
       /\ ItemsAt(n) = After(n, c, ev, cu, st)
       /\ ItemsAt(n)' = After(n, c, ev, cu, sv)
  BY <1>2, <1>4, <1>12, <1>13, R2Moves
<1>15. NextFor(n, c, ev, s, cu, st, sv, x)
  BY <1>8, <1>13, <1>14 DEF NextFor
<1>16. PICK d : d = DueItem(n, x, c, e)
  OBVIOUS
<1>17. d \in ItemsAt(n) /\ ItemsAt(n)' = ItemsAt(n) \ {d}
  <2>1. /\ c.user_id \in Users /\ d = DueItem(n, x, c, ev[x.event])
    BY <1>5, <1>11, <1>16 DEF PartyKnown
  <2>2. /\ d \in After(n, c, ev, cu, st)
        /\ After(n, c, ev, cu, sv) = After(n, c, ev, cu, st) \ {d}
    BY <1>9, <1>15, <2>1, AfterSettle
  <2> QED
    BY <1>14, <2>2
<1>18. PICK S : S = Items
  OBVIOUS
<1>19. Items' = S \ {d} /\ d \in S
  <2>1. PICK F, G : F = ItemsBySlot /\ G = ItemsBySlot'
    OBVIOUS
  <2>2. /\ OneSlot(F, G, n) /\ F[n] = ItemsAt(n) /\ G[n] = ItemsAt(n)'
        /\ Items = Spread(F) /\ Items' = Spread(G)
    BY <1>14, <2>1, ItemsOneSlot
  <2>3. d \in F[n] /\ G[n] = F[n] \ {d}
    BY <1>17, <2>2
  <2>4. Spread(G) = Spread(F) \ {d} /\ d \in Spread(F)
    BY <2>2, <2>3, SpreadDrop
  <2> QED
    BY <1>18, <2>2, <2>4
<1>20. PICK need, bal, inex, fee, net :
         /\ need = Need /\ bal = balances /\ inex = inexact
         /\ fee = fees /\ net = net_deposits
  OBVIOUS
<1>21. ~failed /\ Ledger(need, S, bal, inex, fee, net)
  BY <1>18, <1>20 DEF Money
<1>22. /\ \A a \in Assets : net[a] <= U64MAX
       /\ \A v \in Users, a \in Assets :
            bal[v][a].available + bal[v][a].locked <= U64MAX
  BY <1>20 DEF AmountsFit
<1>23. d.user = u /\ u \in Users /\ d.slack = IF Inexact(x, c, e) THEN 2 ELSE 0
  BY <1>5, <1>10, <1>11, <1>14, <1>16, DueClaims
<1>24. r = settle_trade(bal[d.user], x.role = "maker", SideIn(x, c),
                        LimitIn(x, c, e), e)
  BY <1>6, <1>20, <1>23
<1>25. /\ r.ok /\ r.asset = d.in /\ r.fee \in Nat
       /\ SettledWith(bal, [bal EXCEPT ![d.user] = r.bal], d, r.fee)
  BY <1>10, <1>11, <1>14, <1>16, <1>19, <1>21, <1>22, <1>24, SettleWorks
<1>26. PICK inex2 : inex2 = inexact'
  OBVIOUS
<1>27. CountedWith(inex, inex2, d)
  <2>1. inex \in [Users -> Nat]
    BY <1>21 DEF Ledger
  <2>2. inex2 = IF Inexact(x, c, e) THEN [inex EXCEPT ![u] = @ + 1] ELSE inex
    BY <1>7, <1>20, <1>26
  <2>3. CASE Inexact(x, c, e)
    <3>1. d.slack = 2 /\ inex2 = [inex EXCEPT ![u] = @ + 1]
      BY <1>23, <2>2, <2>3
    <3>2. /\ inex2 \in [Users -> Nat] /\ inex2[u] = inex[u] + 1 /\ inex[u] \in Nat
          /\ \A v \in Users : v # u => inex2[v] = inex[v]
      BY <1>23, <2>1, <3>1
    <3>3. 2 * inex2[u] = 2 * inex[u] + 2
      BY <3>2
    <3>4. d.out = "quote"
      <4>1. d.out = reserved_asset(SideIn(x, c))
        BY <1>10, <1>11, <1>14, <1>16, DueClaims
      <4> QED
        BY <2>3, <4>1 DEF Inexact, reserved_asset
    <3> QED
      BY <1>23, <3>1, <3>2, <3>3, <3>4 DEF CountedWith
  <2>4. CASE ~Inexact(x, c, e)
    <3>1. d.slack = 0 /\ inex2 = inex /\ inex[u] \in Nat
      BY <1>23, <2>1, <2>2, <2>4
    <3> QED
      BY <1>23, <2>1, <3>1 DEF CountedWith
  <2> QED
    BY <2>3, <2>4
<1>28. Ledger(need, S \ {d}, [bal EXCEPT ![d.user] = r.bal], inex2,
              [fee EXCEPT ![d.in] = @ + r.fee], net)
  BY <1>19, <1>21, <1>25, <1>27, LedgerSettle
<1>29. /\ balances' = [bal EXCEPT ![d.user] = r.bal]
       /\ fees' = [fee EXCEPT ![d.in] = @ + r.fee] /\ ~failed'
  BY <1>7, <1>20, <1>21, <1>23, <1>25
<1>30. Need' = Need
  BY <1>4 DEF BookStands, bookVars, Need
<1>31. net_deposits' = net
  BY <1>4, <1>20
<1> QED
  BY <1>14, <1>19, <1>20, <1>26, <1>28, <1>29, <1>30, <1>31 DEF Money

-----------------------------------------------------------------------------
(* The inductive invariant of the funds.                                   *)
MInv == XInv /\ Side /\ Money

(* A step that changes nothing.                                            *)
LEMMA YStill ==
  ASSUME Side, UNCHANGED vars
  PROVE  Side' /\ Calm
<1>1. /\ UNCHANGED <<published, cursor, ring, trades, settled>>
      /\ UNCHANGED <<book, cmd, pc, remaining, level, events>>
      /\ UNCHANGED riskVars
  BY DEF vars, bookVars, riskVars
<1>2. M' = M
  BY <1>1 DEF M
<1>3. Filed' /\ Fresh' /\ Passed'
  BY <1>1, <1>2 DEF Side, Filed, Fresh, Passed
<1>4. Served' /\ Priced'
  BY <1>1 DEF Side, Served, Priced
<1>5. Settling'
  BY <1>1, <1>2 DEF Side, Settling, R2Slot, slot
<1>6. \A n \in 1 .. MaxSeq : ItemsAt(n)' = ItemsAt(n)
  BY <1>1, <1>2 DEF ItemsAt
<1>7. Items' = Items
  BY <1>6, ItemsKept
<1>8. Need' = Need
  BY <1>1 DEF Need
<1> QED
  BY <1>1, <1>3, <1>4, <1>5, <1>7, <1>8 DEF Side, Calm

(* Before the first command the opening deposits are all there is.         *)
LEMMA MInit == Init => MInv
<1> SUFFICES ASSUME Init PROVE MInv
  OBVIOUS
<1>1. /\ Pipe!Init /\ Book!Init /\ ring = <<>> /\ trades = <<>>
      /\ balances = Opening /\ settled = [s \in RiskShards |-> 0] /\ failed = FALSE
      /\ net_deposits = [a \in Assets |->
           SumFunction([u \in Users |-> Opening[u][a].available])]
      /\ fees = [a \in Assets |-> 0] /\ inexact = [u \in Users |-> 0]
  BY DEF Init
<1>2. XInv
  BY XInit
<1>3. /\ published = 0 /\ M = 0 /\ cursor[Pipe!Events] = 0 /\ pc = "idle"
      /\ \A s \in BP!Sides, p \in Prices : book[s][p] = <<>>
  BY <1>1, HandlersAre, SidesAre DEF Pipe!Init, Book!Init, M
<1>4. RestSet(book, "Bid") = {} /\ RestSet(book, "Ask") = {}
  BY <1>3, SidesAre DEF RestSet
<1>5. \A s \in BP!Sides : Stock(book)[s] = {}
  BY <1>4, SidesAre DEF Stock
<1>6. Side
  <2>1. Filed /\ Fresh
    BY <1>3 DEF Filed, Fresh
  <2>2. Passed /\ Served /\ Priced
    BY <1>3, <1>5 DEF Passed, Served, Priced, SizesKnown
  <2>3. Settling
    BY <1>1 DEF Settling
  <2> QED
    BY <2>1, <2>2, <2>3 DEF Side
<1>7. Items = {}
  <2>1. ASSUME NEW n \in 1 .. MaxSeq PROVE ItemsBySlot[n] = {}
    BY <1>3, RingAssumption DEF ItemsBySlot, ItemsAt
  <2>2. DOMAIN ItemsBySlot = 1 .. MaxSeq
    BY DEF ItemsBySlot
  <2> QED
    BY <2>1, <2>2 DEF Items, Spread
<1>8. ASSUME NEW u \in Users, NEW a \in Assets PROVE Need[u][a] = 0
  <2>1. OwnedBy(Stock(book)[SideOf(a)], u) = {}
    BY <1>5, SidesAre DEF OwnedBy
  <2>2. Amount(SideOf(a), {}) = 0
    BY SumEmpty DEF Amount
  <2> QED
    BY <2>1, <2>2 DEF Need, NeedOf
<1>9. Need \in Amounts
  BY <1>8 DEF Need, NeedOf, Amounts
<1>10. ASSUME NEW u \in Users, NEW a \in Assets
       PROVE  /\ balances[u][a] \in Balance /\ balances[u][a].locked = 0
              /\ balances[u][a].available \in Nat
              /\ balances[u][a] = Opening[u][a]
  BY <1>1, OpeningAssumption, MarketAssumption DEF Balance
<1>11. balances \in [Users -> [Assets -> Balance]]
  <2>1. Opening \in [Users -> [Assets -> Balance]]
    BY OpeningAssumption, MarketAssumption DEF Balance
  <2> QED
    BY <1>1, <2>1
<1>12. \A u \in Users, a \in Assets :
         /\ Claimed(Need, {}, u, a) <= balances[u][a].locked
         /\ balances[u][a].locked <= Claimed(Need, {}, u, a)
                                       + Leeway({}, inexact, u, a)
  <2> SUFFICES ASSUME NEW u \in Users, NEW a \in Assets
               PROVE  /\ Claimed(Need, {}, u, a) = 0 /\ balances[u][a].locked = 0
                      /\ Leeway({}, inexact, u, a) = 0
    OBVIOUS
  <2>1. Tally({}, "claim", u, a) = 0 /\ Tally({}, "slack", u, a) = 0
    BY TallyNone
  <2>2. inexact[u] = 0
    BY <1>1
  <2> QED
    BY <1>8, <1>10, <2>1, <2>2 DEF Claimed, Leeway
<1>13. ASSUME NEW a \in Assets
       PROVE  /\ Wealth({}, balances, a) + fees[a] = net_deposits[a]
              /\ net_deposits[a] \in Nat /\ fees[a] \in Nat
  <2>1. PICK w : w = [u \in Users |-> Opening[u][a].available]
    OBVIOUS
  <2>2. ASSUME NEW u \in Users
        PROVE  Worth({}, balances, u, a) = w[u] /\ w[u] \in Nat
    <3>1. Tally({}, "get", u, a) = 0 /\ Tally({}, "pay", u, a) = 0
      BY TallyNone
    <3> QED
      BY <1>10, <2>1, <3>1 DEF Worth
  <2>3. [u \in Users |-> Worth({}, balances, u, a)] = w
    BY <2>1, <2>2
  <2>4. Wealth({}, balances, a) = SumFunction(w)
    BY <2>3 DEF Wealth
  <2>5. SumFunction(w) = SumFunctionOnSet(w, Users)
    BY <2>1 DEF SumFunction
  <2>6. SumFunctionOnSet(w, Users) \in Nat
    BY <2>2, SumNat, ShardAssumption
  <2>7. net_deposits[a] = SumFunction(w) /\ fees[a] = 0
    BY <1>1, <2>1
  <2> QED
    BY <2>4, <2>5, <2>6, <2>7
<1>14. Money
  <2>1. inexact \in [Users -> Nat] /\ fees \in [Assets -> Nat] /\ ~failed
    BY <1>1
  <2>2. net_deposits \in [Assets -> Nat]
    BY <1>1, <1>13
  <2>3. {} \in SUBSET Claims /\ IsFiniteSet({})
    BY FS_EmptySet
  <2>4. Ledger(Need, {}, balances, inexact, fees, net_deposits)
    BY <1>9, <1>11, <1>12, <1>13, <2>1, <2>2, <2>3 DEF Ledger
  <2> QED
    BY <1>7, <2>1, <2>4 DEF Money
<1> QED
  BY <1>2, <1>6, <1>14 DEF MInv

(* Every step keeps it, as long as no amount leaves 64 bits.               *)
LEMMA MNext == MInv /\ AmountsFit /\ [Next]_vars => MInv'
<1> SUFFICES ASSUME MInv, AmountsFit, [Next]_vars PROVE MInv'
  OBVIOUS
<1>1. XInv /\ Side /\ Money /\ XInv'
  BY XNext DEF MInv, GoodStep
<1>2. Side' /\ Calm => MInv'
  BY <1>1, CalmMoney DEF MInv
<1>3. Side' /\ Money' => MInv'
  BY <1>1 DEF MInv
<1>4. CASE \E c \in Inputs : publish(c)
  BY <1>1, <1>2, <1>4, YPublish
<1>5. CASE journal_command
  BY <1>1, <1>2, <1>5, YJournal
<1>6. ASSUME NEW s \in RiskShards, R1Step(s) PROVE MInv'
  <2>1. CASE r1_skip(s)
    BY <1>1, <1>2, <2>1, YSkip1
  <2>2. CASE r1_price_market_buy(s)
    BY <1>1, <1>2, <2>2, YPrice
  <2>3. CASE r1_reserve(s)
    BY <1>1, <1>3, <2>3, YReserve
  <2>4. CASE r1_transfer(s)
    BY <1>1, <1>3, <2>4, YTransfer
  <2> QED
    BY <1>6, <2>1, <2>2, <2>3, <2>4 DEF R1Step
<1>7. ASSUME NEW s \in RiskShards, R2Step(s) PROVE MInv'
  <2>1. CASE r2_settle(s)
    BY <1>1, <1>3, <2>1, YSettle
  <2>2. CASE r2_finish(s)
    BY <1>1, <1>3, <2>2, YFinish2
  <2>3. CASE r2_skip(s)
    BY <1>1, <1>2, <2>3, YSkip2
  <2> QED
    BY <1>7, <2>1, <2>2, <2>3 DEF R2Step
<1>8. CASE match_skip
  BY <1>1, <1>2, <1>8, YSkipMatch
<1>9. CASE process_order
  <2>1. PICK c : c = ring[M + 1]
    OBVIOUS
  <2>2. \/ c.command = "PlaceOrder" /\ Book!place_order(c)
        \/ c.command = "CancelOrder" /\ Book!cancel_order(c)
    BY <1>9, <2>1 DEF process_order, MatchSlot, slot, M
  <2>3. CASE c.command = "PlaceOrder" /\ Book!place_order(c)
    BY <1>1, <1>2, <1>9, <2>1, <2>3, YPlace
  <2>4. CASE c.command = "CancelOrder" /\ Book!cancel_order(c)
    BY <1>1, <1>3, <1>9, <2>1, <2>4, YCancel
  <2> QED
    BY <2>2, <2>3, <2>4
<1>10. CASE match_step
  <2>1. CASE (\E p \in Prices : Book!open_level(p)) \/ Book!skip_own_order
    BY <1>1, <1>2, <1>10, <2>1, YLook
  <2>2. CASE Book!fill_maker
    BY <1>1, <1>3, <1>10, <2>2, YFill
  <2>3. CASE Book!finish_place
    BY <1>1, <1>3, <1>10, <2>3, YFinish
  <2> QED
    BY <1>10, <2>1, <2>2, <2>3 DEF match_step
<1>11. CASE match_done
  BY <1>1, <1>2, <1>11, YDeliver
<1>12. CASE handle_processed_command
  BY <1>1, <1>2, <1>12, YEvents
<1>13. CASE Drained \/ UNCHANGED vars
  <2>1. UNCHANGED vars
    BY <1>13 DEF Drained
  <2> QED
    BY <1>1, <1>2, <2>1, YStill
<1> QED
  BY <1>4, <1>5, <1>6, <1>7, <1>8, <1>9, <1>10, <1>11, <1>12, <1>13
     DEF Next, Handle, MatchStep

(* The ledger of the exchange: in every state, what a user has locked      *)
(* covers what his resting orders need and what every command of his on    *)
(* its way may still claim, and funds, claims and fees add up to what was  *)
(* deposited, whatever R1, matching and R2 of the shards do meanwhile.     *)
THEOREM LedgerInvariant == Spec /\ []AmountsFit => []MInv
<1>1. Init => MInv
  BY MInit
<1>2. MInv /\ AmountsFit /\ [Next]_vars => MInv'
  BY MNext
<1> QED
  BY <1>1, <1>2, PTL DEF Spec

(* No balance operation of R2 ever fails: what R1 has locked covers every  *)
(* settlement, refund and release, whichever way the handlers interleave.  *)
THEOREM SettlementSafe == Spec /\ []AmountsFit => []SettlementNeverFails
<1>1. MInv => SettlementNeverFails
  BY DEF MInv, Money, SettlementNeverFails
<1> QED
  BY <1>1, LedgerInvariant, PTL

(* The balances stay in their types: no store ever holds an amount that is *)
(* not a 64-bit number, nor does what was deposited go below zero.         *)
THEOREM BalancesTyped == Spec /\ []AmountsFit => []TypeOK
<1>1. MInv => TypeOK
  <2> SUFFICES ASSUME MInv PROVE TypeOK
    OBVIOUS
  <2>1. Len(ring) = published /\ Len(trades) = published
    BY DEF MInv, XInv, RingSound
  <2>2. settled \in [RiskShards -> Nat]
    BY DEF MInv, Side, Settling
  <2>3. /\ balances \in [Users -> [Assets -> Balance]] /\ failed = FALSE
        /\ net_deposits \in [Assets -> Nat] /\ fees \in [Assets -> Nat]
        /\ inexact \in [Users -> Nat]
    BY DEF MInv, Money, Ledger
  <2> QED
    BY <2>1, <2>2, <2>3 DEF TypeOK
<1> QED
  BY <1>1, LedgerInvariant, PTL

(* A drained pipeline leaves no claims.                                    *)
LEMMA QuietItems == ASSUME XInv, Quiet PROVE Items = {}
<1>1. cursor[Pipe!Events] = published /\ published \in Nat
  BY HandlersAre, Cursors DEF Quiet, XInv
<1>2. ASSUME NEW n \in 1 .. MaxSeq PROVE ItemsBySlot[n] = {}
  BY <1>1, RingAssumption DEF ItemsBySlot, ItemsAt
<1>3. DOMAIN ItemsBySlot = 1 .. MaxSeq
  BY DEF ItemsBySlot
<1> QED
  BY <1>2, <1>3 DEF Items, Spread

(* Once the pipeline is drained, the funds locked for a user are what his  *)
(* resting orders need, up to two units for each purchase that was rounded.*)
THEOREM EscrowExact == Spec /\ []AmountsFit => []EscrowMatchesBook
<1>1. MInv => EscrowMatchesBook
  <2> SUFFICES ASSUME MInv, Quiet, NEW u \in Users
               PROVE  /\ balances[u]["base"].locked = Needed(u, "Ask")
                      /\ balances[u]["quote"].locked - Needed(u, "Bid")
                           \in 0 .. 2 * inexact[u]
    BY DEF EscrowMatchesBook
  <2>1. Ledger(Need, {}, balances, inexact, fees, net_deposits)
    BY QuietItems DEF MInv, Money
  <2>2. ASSUME NEW a \in Assets
        PROVE  /\ Needed(u, SideOf(a)) = Need[u][a] /\ Need[u][a] \in Nat
               /\ balances[u][a].locked \in Nat /\ inexact[u] \in Nat
               /\ Need[u][a] <= balances[u][a].locked
               /\ balances[u][a].locked
                    <= Need[u][a] + (IF a = "quote" THEN 2 * inexact[u] ELSE 0)
    <3>1. Tally({}, "claim", u, a) = 0 /\ Tally({}, "slack", u, a) = 0
      BY TallyNone
    <3>2. /\ Need[u][a] \in Nat /\ inexact[u] \in Nat
          /\ balances[u][a].locked \in Nat
      BY <2>1, MarketAssumption DEF Ledger, Amounts, Balance
    <3>3. /\ Claimed(Need, {}, u, a) <= balances[u][a].locked
          /\ balances[u][a].locked
               <= Claimed(Need, {}, u, a) + Leeway({}, inexact, u, a)
      BY <2>1 DEF Ledger
    <3>4. /\ Claimed(Need, {}, u, a) = Need[u][a]
          /\ Leeway({}, inexact, u, a) = IF a = "quote" THEN 2 * inexact[u] ELSE 0
      BY <3>1, <3>2 DEF Claimed, Leeway
    <3> QED
      BY <3>2, <3>3, <3>4, NeededIsNeed
  <2>3. /\ "base" \in Assets /\ "quote" \in Assets
        /\ SideOf("base") = "Ask" /\ SideOf("quote") = "Bid"
    BY DEF Assets, SideOf
  <2>4. balances[u]["base"].locked = Needed(u, "Ask")
    BY <2>2, <2>3
  <2>5. balances[u]["quote"].locked - Needed(u, "Bid") \in 0 .. 2 * inexact[u]
    BY <2>2, <2>3
  <2> QED
    BY <2>4, <2>5
<1> QED
  BY <1>1, LedgerInvariant, PTL

(* Once the pipeline is drained, what users own of an asset and the fees   *)
(* kept back add up to what was deposited.                                 *)
THEOREM FundsKept == Spec /\ []AmountsFit => []FundsConserved
<1>1. MInv => FundsConserved
  <2> SUFFICES ASSUME MInv, Quiet, NEW a \in Assets
               PROVE  Total(a) + fees[a] = net_deposits[a]
    BY DEF FundsConserved
  <2>1. Ledger(Need, {}, balances, inexact, fees, net_deposits)
    BY QuietItems DEF MInv, Money
  <2>2. Wealth({}, balances, a) + fees[a] = net_deposits[a]
    BY <2>1 DEF Ledger
  <2>3. ASSUME NEW u \in Users
        PROVE  Worth({}, balances, u, a)
                 = balances[u][a].available + balances[u][a].locked
    <3>1. Tally({}, "get", u, a) = 0 /\ Tally({}, "pay", u, a) = 0
      BY TallyNone
    <3>2. balances[u][a].available \in Nat /\ balances[u][a].locked \in Nat
      BY <2>1, MarketAssumption DEF Ledger, Balance
    <3> QED
      BY <3>1, <3>2 DEF Worth
  <2>4. Wealth({}, balances, a) = Total(a)
    BY <2>3 DEF Wealth, Total
  <2> QED
    BY <2>2, <2>4
<1> QED
  BY <1>1, LedgerInvariant, PTL
=============================================================================
