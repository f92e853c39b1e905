----------------------------- MODULE MCExchange -----------------------------
(* Exchange with two users, one per risk shard: a seller u1 with base, a   *)
(* buyer u2 with quote.                                                    *)
EXTENDS Exchange, TLC

CONSTANTS u1, u2

place(u, side, price, size, tif) ==
  [command |-> "PlaceOrder", order_id |-> 0, user_id |-> u, side |-> side,
   price |-> price, size |-> size, original_size |-> 0,
   time_in_force |-> tif, status |-> "Processing"]

cancel(n) ==
  [command |-> "CancelOrder", order_id |-> n, user_id |-> u1, side |-> "Bid",
   price |-> 0, size |-> 0, original_size |-> 0,
   time_in_force |-> "Gtc", status |-> "Processing"]

transfer(type, u, asset, size) ==
  [command |-> type, order_id |-> 0, user_id |-> u, asset |-> asset,
   size |-> size, status |-> "Processing"]

(* Sells at two prices, a buy that improves on its price, rests or fills   *)
(* in part, market orders either way, a cancel and a withdrawal that       *)
(* compete with the orders for the same funds.                             *)
MCInputs ==
  { place(u1, "Ask", 1, 2, "Gtc"),
    place(u1, "Ask", 2, 1, "Gtc"),
    place(u1, "Ask", 0, 2, "Ioc"),
    place(u2, "Bid", 2, 3, "Gtc"),
    place(u2, "Bid", U64MAX, 3, "Ioc"),
    place(u2, "Bid", 2, 2, "Fok"),
    transfer("WithdrawFunds", u2, "quote", 3),
    transfer("DepositFunds", u1, "base", 1),
    cancel(1) }

MCShardOf == (u1 :> 0) @@ (u2 :> 1)

MCOpening ==
  (u1 :> [base  |-> [available |-> 3, locked |-> 0],
          quote |-> [available |-> 0, locked |-> 0]]) @@
  (u2 :> [base  |-> [available |-> 0, locked |-> 0],
          quote |-> [available |-> 8, locked |-> 0]])
=============================================================================
