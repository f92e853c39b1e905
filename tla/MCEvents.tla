------------------------------ MODULE MCEvents ------------------------------
(* Events with the users and balances of MCExchange and fewer commands,    *)
(* chosen for what the messages have to tell apart.                        *)
EXTENDS Events, MCExchange

(* Orders that rest, trade on arrival, trade later in two parts or with    *)
(* two makers of one user, cancels before and after a partial fill, an     *)
(* order that is killed, and a deposit that overtakes a settlement.        *)
EventInputs ==
  { place(u1, "Ask", 1, 1, "Gtc"),
    place(u1, "Ask", 0, 1, "Ioc"),
    place(u2, "Bid", 2, 3, "Gtc"),
    place(u2, "Bid", 1, 2, "Fok"),
    transfer("DepositFunds", u1, "quote", 1),
    cancel(1),
    cancel(2) }
=============================================================================
