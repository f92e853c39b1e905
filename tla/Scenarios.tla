----------------------------- MODULE Scenarios -----------------------------
(***************************************************************************)
(* The integration suites of the repository (xtask/src/scenarios) played   *)
(* against the model.  A suite is a sequence of steps; a step is a command *)
(* the test client sends, and what the test asserts once the command is    *)
(* answered: of the response, and of the balances, trades and order book   *)
(* it finds in Redis, where the topics of Events end up.                   *)
(*                                                                         *)
(* The client sends a command, waits for its response and for the messages *)
(* to arrive before it looks, so commands come one at a time; the handlers *)
(* of one command still interleave.  Each suite starts on a fresh server,  *)
(* as fund_user requires.                                                  *)
(***************************************************************************)
EXTENDS Events

VARIABLES
  suite,   \* the steps of the suite being played
  noted    \* balances the test has noted down to compare with later

scenarioVars == <<allVars, suite, noted>>

ALICE   == 1
BOB     == 2
CHARLIE == 3

LOW  == 40000
MID  == 50000
HIGH == 60000

-----------------------------------------------------------------------------
(* The commands of OrderBuilder.                                           *)

order(user, side, price, size, tif) ==
  [command |-> "PlaceOrder", order_id |-> 0, user_id |-> user, side |-> side,
   price |-> price, size |-> size, original_size |-> 0,
   time_in_force |-> tif, status |-> "Processing"]

place_limit(user, side, price, size) == order(user, side, price, size, "Gtc")
place_ioc(user, side, price, size)   == order(user, side, price, size, "Ioc")
place_fok(user, side, price, size)   == order(user, side, price, size, "Fok")

place_market(user, side, size) ==
  order(user, side, IF side = "Bid" THEN U64MAX ELSE 0, size, "Ioc")

deposit(user, amount, asset) ==
  [command |-> "DepositFunds", order_id |-> 0, user_id |-> user,
   asset |-> asset, size |-> amount, status |-> "Processing"]

(* Cancels the order placed `ago' commands before this one; 0 stands for   *)
(* an id that no order has (a cancel gets none, so its own is free).       *)
cancel_placed(side, ago) ==
  [command |-> "CancelOrder", order_id |-> ago, user_id |-> 0, side |-> side,
   price |-> 0, size |-> 0, original_size |-> 0,
   time_in_force |-> "Gtc", status |-> "Processing"]

-----------------------------------------------------------------------------
(* The assertions of the verifiers.                                        *)

AnySize == 0 .. 1000
Anyone  == 0
AnyOrder == 0

assert_status(status, sizes) ==
  [kind |-> "response", status |-> status, sizes |-> sizes]

assert_placed    == assert_status("Placed", AnySize)
assert_filled    == assert_status("Filled", {0})
assert_cancelled == assert_status("Cancelled", AnySize)
assert_rejected  == assert_status("Rejected", AnySize)
assert_partially_filled(size) ==
  assert_status("PartiallyFilled", 0 .. size - 1)

(* The field of a balance is x, or has changed by x since it was noted.    *)
balance_check(kind, field, user, asset, since, x) ==
  [kind |-> kind, field |-> field, user |-> user, asset |-> asset,
   since |-> since, amount |-> x]

assert_eq(field, user, asset, x) ==
  balance_check("balance", field, user, asset, FALSE, x)
assert_changed(field, user, asset, x) ==
  balance_check("balance", field, user, asset, TRUE, x)

(* The same where the test computes a quote amount as price * size, which  *)
(* is the amount before the market's scales are applied to it.             *)
assert_product(field, user, x) ==
  balance_check("product", field, user, "quote", FALSE, x)
assert_changed_product(field, user, x) ==
  balance_check("product", field, user, "quote", TRUE, x)

(* The total of a balance message is the sum of its parts, so what can     *)
(* fail is that there is no balance.                                       *)
assert_balance_invariant(user, asset) ==
  [kind |-> "known", user |-> user, asset |-> asset]

assert_depth(bids, asks) ==
  [kind |-> "depth", depth |-> [Bid |-> bids, Ask |-> asks]]
assert_empty == assert_depth(0, 0)
assert_level(side, price, size) ==
  [kind |-> "level", side |-> side, price |-> price, size |-> size]
assert_no_level(side, price) == assert_level(side, price, 0)

(* TradeCriteria.  A maker order is named by how many commands before the  *)
(* taker's it was placed.                                                  *)
assert_trade(maker, taker, price, size, ago) ==
  [kind |-> "trade", maker |-> maker, taker |-> taker, price |-> price,
   size |-> size, ago |-> ago]
assert_min_trade_count(n) == [kind |-> "count", n |-> n]
assert_no_self_trade(user) == [kind |-> "self", user |-> user]

(* A step, and one before which the test notes the balances.               *)
step(c, checks)       == [cmd |-> c, checks |-> checks, notes |-> FALSE]
noted_step(c, checks) == [cmd |-> c, checks |-> checks, notes |-> TRUE]

(* Adds the assertions of a test that sends nothing to the step before.    *)
then_check(steps, checks) ==
  [steps EXCEPT ![Len(steps)].checks = @ \o checks]

fund_user(user, amount, asset) ==
  step(deposit(user, amount, asset),
       << assert_status("Processed", {amount}),
          assert_eq("total", user, asset, amount) >>)

fund_users(usd, btc) ==
  << fund_user(ALICE, usd, "quote"),   fund_user(ALICE, btc, "base"),
     fund_user(BOB, usd, "quote"),     fund_user(BOB, btc, "base"),
     fund_user(CHARLIE, usd, "quote"), fund_user(CHARLIE, btc, "base") >>

-----------------------------------------------------------------------------
(* balance.rs.                                                             *)

deposited(user, amount, asset, total) ==
  step(deposit(user, amount, asset),
       << assert_status("Processed", {amount}),
          assert_eq("total", user, asset, total) >>)

test_single_deposit ==
  then_check(<< deposited(ALICE, 1000000, "quote", 1000000) >>,
             << assert_eq("available", ALICE, "quote", 1000000),
                assert_eq("locked", ALICE, "quote", 0) >>)

test_multiple_deposits_same_asset ==
  << deposited(BOB, 500000, "quote", 500000),
     deposited(BOB, 300000, "quote", 800000),
     deposited(BOB, 200000, "quote", 1000000) >>

test_deposits_different_assets ==
  then_check(<< deposited(CHARLIE, 1000000, "quote", 1000000),
                deposited(CHARLIE, 100, "base", 100) >>,
             << assert_eq("total", CHARLIE, "quote", 1000000) >>)

balance_run_all ==
  test_single_deposit \o test_multiple_deposits_same_asset
    \o test_deposits_different_assets

-----------------------------------------------------------------------------
(* gtc.rs.  The tests on their own, and the suite.                         *)

test_gtc_no_match ==
  << fund_user(ALICE, 1000000, "quote"),
     step(place_limit(ALICE, "Bid", LOW, 10),
       << assert_status("Placed", {10}), assert_depth(1, 0),
          assert_product("locked", ALICE, LOW * 10),
          assert_level("Bid", LOW, 10) >>) >>

test_gtc_full_match ==
  << fund_user(ALICE, 1000, "base"), fund_user(BOB, 1000000, "quote"),
     step(place_limit(ALICE, "Ask", MID, 5), <<assert_placed>>),
     step(place_limit(BOB, "Bid", MID, 5),
       << assert_filled, assert_trade(ALICE, BOB, MID, 5, AnyOrder),
          assert_empty >>) >>

test_gtc_partial_match ==
  << fund_user(ALICE, 1000, "base"), fund_user(BOB, 1000000, "quote"),
     step(place_limit(ALICE, "Ask", MID, 3), <<>>),
     step(place_limit(BOB, "Bid", MID, 10),
       << assert_status("PartiallyFilled", {7}),
          assert_trade(Anyone, Anyone, MID, 3, AnyOrder),
          assert_level("Bid", MID, 7) >>) >>

test_gtc_no_match_section ==
  << step(place_limit(ALICE, "Bid", LOW, 10),
       << assert_status("Placed", {10}), assert_depth(1, 0),
          assert_product("locked", ALICE, LOW * 10),
          assert_level("Bid", LOW, 10) >>) >>

test_gtc_full_match_section ==
  << step(place_limit(BOB, "Ask", MID, 5), <<assert_placed>>),
     step(place_limit(CHARLIE, "Bid", MID, 5),
       << assert_filled, assert_trade(BOB, CHARLIE, MID, 5, 1) >>) >>

test_gtc_partial_match_section ==
  << step(place_limit(ALICE, "Ask", MID, 3), <<assert_placed>>),
     step(place_limit(BOB, "Bid", MID, 10),
       << assert_status("PartiallyFilled", {7}),
          assert_trade(Anyone, Anyone, MID, 3, AnyOrder),
          assert_level("Bid", MID, 7) >>) >>

gtc_run_all ==
  fund_users(10000000, 1000) \o test_gtc_no_match_section
    \o test_gtc_full_match_section \o test_gtc_partial_match_section

-----------------------------------------------------------------------------
(* cancellation.rs.                                                        *)

cancel_resting_bid_section ==
  << noted_step(place_limit(ALICE, "Bid", LOW, 5),
       << assert_placed, assert_changed_product("locked", ALICE, LOW * 5),
          assert_level("Bid", LOW, 5) >>),
     step(cancel_placed("Bid", 1),
       << assert_cancelled, assert_changed("locked", ALICE, "quote", 0),
          assert_no_level("Bid", LOW) >>) >>

cancel_resting_ask_section ==
  << noted_step(place_limit(BOB, "Ask", HIGH, 8),
       << assert_placed, assert_changed("locked", BOB, "base", 8),
          assert_level("Ask", HIGH, 8) >>),
     step(cancel_placed("Ask", 1),
       << assert_cancelled, assert_changed("locked", BOB, "base", 0),
          assert_no_level("Ask", HIGH) >>) >>

cancel_partially_filled_section ==
  << noted_step(place_limit(CHARLIE, "Bid", MID, 10),
       << assert_placed, assert_changed_product("locked", CHARLIE, MID * 10) >>),
     step(place_limit(ALICE, "Ask", MID, 3),
       << assert_filled, assert_trade(CHARLIE, ALICE, MID, 3, AnyOrder),
          assert_changed_product("locked", CHARLIE, MID * 7),
          assert_level("Bid", MID, 7) >>),
     step(cancel_placed("Bid", 2),
       << assert_cancelled, assert_changed("locked", CHARLIE, "quote", 0),
          assert_no_level("Bid", MID) >>) >>

cancel_nonexistent_order_section ==
  << step(cancel_placed("Bid", 0), <<assert_rejected>>) >>

cancel_filled_order_section ==
  << step(place_limit(BOB, "Ask", MID, 2), <<assert_placed>>),
     step(place_limit(CHARLIE, "Bid", MID, 2),
       << assert_filled, assert_trade(BOB, CHARLIE, MID, 2, AnyOrder) >>),
     step(cancel_placed("Ask", 2), <<assert_rejected>>) >>

cancel_and_replace_section ==
  << noted_step(place_limit(ALICE, "Bid", LOW, 6),
       << assert_placed, assert_level("Bid", LOW, 6) >>),
     step(cancel_placed("Bid", 1), <<assert_cancelled>>),
     step(place_limit(ALICE, "Bid", LOW, 4),
       << assert_placed, assert_level("Bid", LOW, 4),
          assert_changed_product("locked", ALICE, LOW * 4) >>) >>

multiple_cancellations_section ==
  << noted_step(place_limit(BOB, "Ask", 50000, 3), <<assert_placed>>),
     step(place_limit(BOB, "Ask", 55000, 3), <<assert_placed>>),
     step(place_limit(BOB, "Ask", 60000, 3),
       << assert_placed, assert_changed("locked", BOB, "base", 9),
          assert_level("Ask", 50000, 3), assert_level("Ask", 55000, 3),
          assert_level("Ask", 60000, 3) >>),
     step(cancel_placed("Ask", 3), <<assert_cancelled>>),
     step(cancel_placed("Ask", 3), <<assert_cancelled>>),
     step(cancel_placed("Ask", 3),
       << assert_cancelled, assert_changed("locked", BOB, "base", 0),
          assert_no_level("Ask", 50000), assert_no_level("Ask", 55000),
          assert_no_level("Ask", 60000) >>) >>

cancellation_run_all ==
  fund_users(10000000, 1000) \o cancel_resting_bid_section
    \o cancel_resting_ask_section \o cancel_partially_filled_section
    \o cancel_nonexistent_order_section \o cancel_filled_order_section
    \o cancel_and_replace_section \o multiple_cancellations_section
-----------------------------------------------------------------------------
(* fok.rs.                                                                 *)

test_fok_no_match_section ==
  << noted_step(place_fok(ALICE, "Bid", LOW, 5),
       << assert_cancelled, assert_eq("locked", ALICE, "quote", 0),
          assert_changed("total", ALICE, "quote", 0), assert_empty >>) >>

test_fok_insufficient_liquidity_section ==
  << step(place_limit(BOB, "Ask", MID, 3),
       << assert_placed, assert_depth(0, 1) >>),
     step(place_fok(ALICE, "Bid", MID, 5),
       << assert_cancelled, assert_level("Ask", MID, 3) >>) >>

test_fok_exact_match_section ==
  << step(place_ioc(ALICE, "Bid", MID, 3), <<>>),
     step(place_limit(CHARLIE, "Ask", MID, 6), <<assert_placed>>),
     step(place_fok(ALICE, "Bid", MID, 6),
       << assert_filled, assert_trade(CHARLIE, ALICE, MID, 6, 1),
          assert_empty >>) >>

test_fok_excess_liquidity_section ==
  << step(place_limit(BOB, "Ask", MID, 10), <<assert_placed>>),
     step(place_fok(ALICE, "Bid", MID, 7),
       << assert_filled, assert_trade(BOB, ALICE, MID, 7, AnyOrder),
          assert_level("Ask", MID, 3) >>) >>

test_fok_multiple_levels_section ==
  << step(place_ioc(ALICE, "Bid", MID, 3), <<>>),
     step(place_limit(CHARLIE, "Ask", 50000, 2), <<>>),
     step(place_limit(BOB, "Ask", 51000, 3), <<>>),
     step(place_limit(CHARLIE, "Ask", 52000, 2), <<assert_depth(0, 3)>>),
     step(place_fok(ALICE, "Bid", HIGH, 7),
       << assert_filled, assert_trade(Anyone, Anyone, 50000, 2, 3),
          assert_trade(Anyone, Anyone, 51000, 3, 2),
          assert_trade(Anyone, Anyone, 52000, 2, 1), assert_empty >>) >>

test_market_buy_fok_section ==
  << step(place_limit(CHARLIE, "Ask", 53000, 5), <<>>),
     step(place_limit(BOB, "Ask", 54000, 5), <<assert_depth(0, 2)>>),
     step(place_fok(ALICE, "Bid", U64MAX, 4),
       << assert_filled, assert_trade(Anyone, Anyone, 53000, 4, 2),
          assert_depth(0, 2), assert_level("Ask", 53000, 1),
          assert_level("Ask", 54000, 5) >>),
     step(place_fok(BOB, "Bid", U64MAX, 10),
       << assert_cancelled, assert_level("Ask", 53000, 1),
          assert_level("Ask", 54000, 5) >>) >>

test_market_sell_fok_section ==
  << step(place_limit(ALICE, "Bid", 52000, 100), <<>>),
     step(place_limit(BOB, "Bid", 51000, 100), <<assert_depth(2, 2)>>),
     step(place_fok(CHARLIE, "Ask", 0, 10),
       << assert_filled, assert_trade(Anyone, Anyone, 52000, 10, 2),
          assert_depth(2, 2), assert_level("Bid", 52000, 90),
          assert_level("Bid", 51000, 100) >>),
     step(place_fok(ALICE, "Ask", 0, 200),
       << assert_cancelled, assert_level("Bid", 52000, 90),
          assert_level("Bid", 51000, 100) >>) >>

fok_run_all ==
  fund_users(10000000, 1000) \o test_fok_no_match_section
    \o test_fok_insufficient_liquidity_section
    \o test_fok_exact_match_section \o test_fok_excess_liquidity_section
    \o test_fok_multiple_levels_section \o test_market_buy_fok_section
    \o test_market_sell_fok_section

-----------------------------------------------------------------------------
(* ioc.rs.                                                                 *)

test_ioc_no_match_section ==
  << noted_step(place_ioc(ALICE, "Bid", LOW, 5),
       << assert_cancelled, assert_eq("locked", ALICE, "quote", 0),
          assert_changed("total", ALICE, "quote", 0), assert_empty >>) >>

test_ioc_full_match_section ==
  << step(place_limit(BOB, "Ask", MID, 8), <<assert_placed>>),
     step(place_ioc(ALICE, "Bid", MID, 8),
       << assert_filled, assert_trade(BOB, ALICE, MID, 8, 1),
          assert_empty >>) >>

test_ioc_partial_match_section ==
  << step(place_limit(CHARLIE, "Ask", MID, 3), <<assert_placed>>),
     step(place_ioc(BOB, "Bid", MID, 10),
       << assert_partially_filled(10),
          assert_trade(CHARLIE, BOB, MID, 3, AnyOrder), assert_empty >>) >>

test_ioc_multiple_levels_section ==
  << step(place_limit(BOB, "Ask", 50000, 2), <<>>),
     step(place_limit(CHARLIE, "Ask", 51000, 3), <<>>),
     step(place_limit(BOB, "Ask", 52000, 4), <<assert_depth(0, 3)>>),
     step(place_ioc(ALICE, "Bid", HIGH, 6),
       << assert_filled, assert_min_trade_count(5),
          assert_trade(Anyone, Anyone, 50000, 2, 3),
          assert_trade(Anyone, Anyone, 51000, 3, 2),
          assert_trade(Anyone, Anyone, 52000, 1, 1),
          assert_depth(0, 1), assert_level("Ask", 52000, 3) >>) >>

test_market_buy_section ==
  << step(place_limit(ALICE, "Bid", 52000, 3), <<>>),
     step(place_limit(CHARLIE, "Ask", 53000, 5), <<>>),
     step(place_limit(BOB, "Ask", 54000, 5), <<assert_depth(0, 2)>>),
     noted_step(place_market(ALICE, "Bid", 4),
       << assert_filled, assert_trade(Anyone, Anyone, 53000, 4, 2),
          assert_changed("available", ALICE, "base", 4),
          assert_changed_product("available", ALICE, -(53000 * 4)),
          assert_depth(0, 2), assert_level("Ask", 53000, 1),
          assert_level("Ask", 54000, 5) >>) >>

test_market_sell_section ==
  << step(place_limit(ALICE, "Bid", 52000, 100), <<>>),
     step(place_limit(BOB, "Bid", 51000, 100), <<assert_depth(2, 2)>>),
     noted_step(place_market(CHARLIE, "Ask", 10),
       << assert_filled, assert_trade(Anyone, Anyone, 52000, 10, 2),
          assert_changed("available", CHARLIE, "base", -10),
          assert_changed_product("available", CHARLIE, 52000 * 10),
          assert_depth(2, 2), assert_level("Bid", 52000, 90),
          assert_level("Bid", 51000, 100) >>) >>

ioc_run_all ==
  fund_users(10000000, 1000) \o test_ioc_no_match_section
    \o test_ioc_full_match_section \o test_ioc_partial_match_section
    \o test_ioc_multiple_levels_section \o test_market_buy_section
    \o test_market_sell_section

-----------------------------------------------------------------------------
(* comprehensive.rs.                                                       *)

build_initial_orderbook_section ==
  << step(place_limit(ALICE, "Bid", 45000, 10),
       << assert_placed, assert_level("Bid", 45000, 10) >>),
     step(place_limit(BOB, "Bid", 40000, 15),
       << assert_placed, assert_level("Bid", 40000, 15) >>),
     step(place_limit(CHARLIE, "Ask", 55000, 12),
       << assert_placed, assert_level("Ask", 55000, 12) >>),
     step(place_limit(BOB, "Ask", 60000, 8),
       << assert_placed, assert_level("Ask", 60000, 8),
          assert_depth(2, 2) >>) >>

ioc_against_orderbook_section ==
  << step(place_ioc(BOB, "Bid", 56000, 5),
       << assert_filled, assert_trade(CHARLIE, BOB, 55000, 5, AnyOrder),
          assert_level("Ask", 55000, 7) >>),
     step(place_ioc(CHARLIE, "Ask", 44000, 7),
       << assert_filled, assert_trade(ALICE, CHARLIE, 45000, 7, AnyOrder),
          assert_level("Bid", 45000, 3) >>) >>

fok_orders_section ==
  << step(place_fok(ALICE, "Bid", 56000, 7),
       << assert_filled, assert_trade(Anyone, Anyone, 55000, 7, AnyOrder) >>),
     step(place_fok(BOB, "Bid", 61000, 20), <<assert_cancelled>>) >>

cancellations_during_trading_section ==
  << step(place_limit(CHARLIE, "Ask", 58000, 10), <<assert_placed>>),
     step(cancel_placed("Ask", 1),
       << assert_cancelled, assert_no_level("Ask", 58000) >>),
     step(place_limit(BOB, "Bid", 42000, 5), <<>>),
     step(cancel_placed("Bid", 1), <<>>) >>

mixed_order_types_stress_section ==
  [n \in 1 .. 10 |->
     LET price == 50000 + 1000 * ((n - 1) \div 2)
     IN IF n % 2 = 1
        THEN step(place_limit(ALICE, "Ask", price, 2), <<>>)
        ELSE step(place_ioc(BOB, "Bid", price - 1000, 1), <<>>)]

edge_cases_section ==
  << step(place_limit(ALICE, "Ask", 48000, 5), <<>>),
     step(place_limit(ALICE, "Bid", 49000, 3),
       << assert_no_self_trade(ALICE) >>) >>

multi_level_interactions_section ==
  << step(place_ioc(ALICE, "Bid", 64000, 50), <<>>),
     step(place_limit(BOB, "Ask", 65000, 3), <<>>),
     step(place_limit(CHARLIE, "Ask", 66000, 4), <<>>),
     step(place_limit(BOB, "Ask", 67000, 5), <<>>),
     step(place_ioc(ALICE, "Bid", 68000, 12),
       << assert_trade(Anyone, Anyone, 65000, 3, AnyOrder),
          assert_trade(Anyone, Anyone, 66000, 4, AnyOrder),
          assert_trade(Anyone, Anyone, 67000, 5, AnyOrder) >>) >>

partial_fills_with_cancel_section ==
  << step(place_ioc(BOB, "Ask", 39000, 50), <<>>),
     step(place_limit(ALICE, "Bid", 38000, 20), <<>>),
     step(place_ioc(BOB, "Ask", 37000, 6),
       << assert_trade(ALICE, BOB, 38000, 6, AnyOrder),
          assert_level("Bid", 38000, 14) >>),
     step(cancel_placed("Bid", 2),
       << assert_cancelled, assert_no_level("Bid", 38000) >>) >>

final_cleanup_section ==
  << assert_balance_invariant(ALICE, "quote"),
     assert_balance_invariant(ALICE, "base"),
     assert_balance_invariant(BOB, "quote"),
     assert_balance_invariant(BOB, "base"),
     assert_balance_invariant(CHARLIE, "quote"),
     assert_balance_invariant(CHARLIE, "base") >>

comprehensive_run_all ==
  then_check(
    fund_users(50000000, 5000) \o build_initial_orderbook_section
      \o ioc_against_orderbook_section \o fok_orders_section
      \o cancellations_during_trading_section
      \o mixed_order_types_stress_section \o edge_cases_section
      \o multi_level_interactions_section
      \o partial_fills_with_cancel_section,
    final_cleanup_section)

-----------------------------------------------------------------------------
(* Playing a suite.                                                        *)

Suites ==
  { balance_run_all, test_gtc_no_match, test_gtc_full_match,
    test_gtc_partial_match, gtc_run_all, cancellation_run_all, fok_run_all,
    ioc_run_all, comprehensive_run_all }

ScenarioInit ==
  /\ EventsInit
  /\ suite \in Suites
  /\ noted = balance_feed

(* execute_command: the client sends the next command of the suite; a      *)
(* cancel names an order by the id its response gave.                      *)
execute_command ==
  LET s == suite[published + 1]
  IN /\ published < Len(suite)
     /\ Quiet
     /\ ingress(IF s.cmd.command = "CancelOrder"
                THEN [s.cmd EXCEPT !.order_id = published + 1 - @]
                ELSE s.cmd)
     /\ noted' = IF s.notes THEN balance_feed ELSE noted
     /\ UNCHANGED suite

SuiteDone ==
  /\ published = Len(suite) /\ Quiet
  /\ UNCHANGED scenarioVars

ScenarioNext ==
  \/ execute_command
  \/ EventsHandle /\ UNCHANGED <<suite, noted>>
  \/ SuiteDone

ScenarioSpec == ScenarioInit /\ [][ScenarioNext]_scenarioVars

-----------------------------------------------------------------------------
(* What the assertions mean.                                               *)

field_of(b, field) ==
  IF field = "total" THEN b.available + b.locked ELSE b[field]

response_holds(k) == response.status = k.status /\ response.size \in k.sizes

(* The amount noted before.                                                *)
before(k) ==
  field_of(CHOOSE b \in noted[k.user][k.asset] : TRUE, k.field)

(* Changes may be negative, so this is calculate_quote_cost without wrap.  *)
amount_of(k) ==
  IF k.kind = "product"
  THEN (k.amount * QUOTE_NATIVE_SCALE) \div (BASE_NATIVE_SCALE * QUOTE_SCALE_K)
  ELSE k.amount

balance_holds(k) ==
  /\ balance_feed[k.user][k.asset] # {}
  /\ \A b \in balance_feed[k.user][k.asset] :
       field_of(b, k.field)
         = IF k.since THEN before(k) + amount_of(k) ELSE amount_of(k)

depth_holds(k) ==
  \A s \in Book!Sides : Cardinality(book_feed[s]) = k.depth[s]

(* A level of size 0 is one that is not there.                             *)
level_holds(k) ==
  {l[2] : l \in {x \in book_feed[k.side] : x[1] = k.price}}
    = {k.size} \ {0}

(* TradeCriteria::matches.                                                 *)
matches(k, t) ==
  /\ k.maker \in {Anyone, t.maker_user_id}
  /\ k.taker \in {Anyone, t.taker_user_id}
  /\ k.price = t.price /\ k.size = t.size
  /\ k.ago # AnyOrder => /\ t.taker_order_id = published
                         /\ t.maker_order_id = published - k.ago

trade_holds(k) == \E t \in trade_feed : matches(k, t)

self_trade_holds(k) ==
  \A t \in trade_feed : ~(t.maker_user_id = k.user /\ t.taker_user_id = k.user)

holds(k) ==
  CASE k.kind = "response" -> response_holds(k)
    [] k.kind \in {"balance", "product"} -> balance_holds(k)
    [] k.kind = "known"    -> balance_feed[k.user][k.asset] # {}
    [] k.kind = "depth"    -> depth_holds(k)
    [] k.kind = "level"    -> level_holds(k)
    [] k.kind = "trade"    -> trade_holds(k)
    [] k.kind = "count"    -> Cardinality(trade_feed) >= k.n
    [] k.kind = "self"     -> self_trade_holds(k)

Answered == published > 0 /\ Quiet

(* Every assertion of the integration suites holds in the model when its   *)
(* command is answered: the statuses, the remaining sizes, which orders    *)
(* trade with which at what price, what rests, and how funds are locked    *)
(* and released over a whole suite.                                        *)
SuitesPass ==
  Answered => \A i \in 1 .. Len(suite[published].checks) :
    holds(suite[published].checks[i])
=============================================================================
