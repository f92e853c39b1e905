# VEX-CORE in TLA+

A verification project for the matching core of VEX: TLA+ modules translated
from the Rust source, TLC configurations that check them on small instances, and
TLAPS proofs of the properties that matter most for every instance.
`PROJECT.json` maps every definition to the source lines it models.

## The system

Gateways send order commands over Aeron. The core decodes each one into a slot
of a ring buffer (the `disruptor` crate) and five stages of handler threads visit
the slots in order:

    gateways -> ring buffer -> journaling + R1 (4 shards) -> matching (4 routers)
                            -> R2 (4 shards) -> events -> Kafka, gateways

| part | state | operations | interacts with |
|---|---|---|---|
| ingress (`networking/src/server/cmd_handler.rs`) | none | decode a fragment, `try_publish` | ring |
| pipeline (`server/src/engine.rs`, `utils.rs`) | producer sequence, one cursor per handler | publish, handle | every handler |
| journaling (`processors/src/journaling.rs`, `common/src/snowflake.rs`) | last tick, sequence, replay flag | give the command an id, offer it to the archive | archive; races R1 on the slot |
| risk engine (`processors/src/risk_engine.rs`, `common/src/user_profile.rs`) | per shard: available and locked funds per user and asset, behind a mutex | R1: price market buys, lock, deposit, withdraw. R2: settle, refund, release | price cache; R1 and R2 share the store |
| order book (`orderbook/src/lib.rs`, `tree.rs`) | price levels with FIFO queues and volumes, id index | place (GTC, IOC, FOK, market), match, cancel, snapshot | price cache, events on the command |
| price cache (`common/src/order.rs`) | best bid and ask per market, atomics | update, read | matching writes, R1 reads |
| events (`processors/src/events.rs`) | none | publish to seven Kafka topics, answer the gateway | gateway publications, everybody who reads the topics |
| recovery (`networking/src/server/mod.rs`, `replay.rs`, `server/src/lib.rs`, `engine.rs`) | replay position, replay flag, recording | replay the archive through the ring, extend, join or start a recording | all of the above |
| integration suites (`xtask/src/scenarios`) | noted balances | send a command, wait, assert | the running server, the topics as they arrive in Redis |
| gateway sessions (`gateway_manager.rs`, `duologue.rs`, `client/mod.rs`) | slots, ports, sessions, publications | handshake, allocate, clean up | ingress, responses |

What is hard here: R1 of later commands runs while matching and R2 of earlier
ones are unfinished and reads a price that may be stale; maker and taker of one
trade are settled by different threads; journaling and R1 write the same slot at
the same time; several balance operations make one settlement and any may fail;
costs are rounded down piece by piece; the matching loop edits queues, volumes,
index and events while it scans; ids must keep increasing across exhausted
sequences, panics and restarts; a full ring loses commands; sessions are torn
down by callbacks of another thread, on channels that close asynchronously, while
gateways crash and come back; messages are published by tasks of their own and say
how things were when a copy was taken, not when they are read; a replay runs through
the live pipeline and ends when its last command has been published, not when it has
been processed.

What makes each part correct: the ring never lets two stages share a slot nor
reuses one in use, and lets every command through; ids increase; the book never
stays crossed between users, keeps price-time priority, honours FOK, finds what
it must cancel, and tells the truth in events, volumes and views; what R1 locks
covers all that R2 later does, nothing stays locked without an order, and funds
are neither made nor lost; a gateway has one session, nobody else's, until it is
lost, and everything the session held is given back; a reader of the topics ends up
with the orders, trades, balances and levels the core has; after a crash what was
answered is in the books again, once, in the same order.

## Modules

| module | models | proofs |
|---|---|---|
| `OrderBook` | one market's book, a step per level opened, own order skipped, maker filled | `OrderBookProofs` |
| `Pipeline` | ring positions and barriers of all handlers | `PipelineProofs` |
| `Exchange` | `Pipeline` and `OrderBook` composed with journaling, R1, R2 and the balance stores | `ExchangeProofs`, `FundsProofs` |
| `Snowflake` | the id generator in the journaling thread, with time, panic and restart | `SnowflakeProofs` |
| `GatewaySessions` | server loop, image callbacks and gateways: handshake, ports and sessions, clean-up, shutdown | `GatewaySessionsProofs` |
| `Events` | `Exchange` with the balance copies a command carries, and what the events handler makes of it on every topic | `ExchangeProofs` |
| `Scenarios` | the six integration suites of `xtask`, command by command, against `Events` | - |
| `Recovery` | the server process around the archive, on the ring of `Pipeline` | `RecoveryProofs` |
| `Sums` | no part of the system: what a sum over a finite set does when one member changes | itself |
| `MCOrderBook`, `MCExchange`, `MCEvents`, `MCScenarios`, `MCGatewaySessions` | model values and inputs for TLC | |

**OrderBook.** `book`, `volume` and `orders` are the two `BookSide` trees, the
`total_volume` fields and the `HashMap` index; a level exists in the code exactly
when its queue is not empty. `place_order` starts a command, `open_level`,
`skip_own_order` and `fill_maker` are the iterations of `match_order`,
`finish_place` is everything after it (resting a GTC rest, status, snapshot,
price cache), `cancel_order` is one step, `deliver` hands the command on. A filled
maker leaves its queue at once; the code removes it when it leaves the level and
does not look at it before. Market orders arrive with price 0 (sell) or the price
R1 has put in (buy).

**Pipeline.** `cursor[h]` counts the slots handler `h` has finished, `published`
what the producers have. `Stage` follows the order of `handle_events_with` and
`and_then` in `build_disruptor_pipeline`: there is no `and_then` between
journaling and R1, so they share a stage. The disruptor crate is external; its
barrier and its refusal to publish into a full ring are modelled from how the code
uses them.

**Exchange.** Handler threads interleave at critical sections of the balance
store's mutex: one `lock_funds`, one settlement, one release is a step; R1's read
of the price cache is a step before it takes the mutex. `settle_trade` keeps what
was done before an error, as the code does. u64 additions that are not checked
wrap; `calculate_quote_cost` rounds down and truncates. The prices market orders reach
the book with are 0 and what `conservative_price` makes of a limit price. `failed`, `net_deposits`,
`fees` and `inexact` are history variables; `inexact` counts, per user, the bids
settled in pieces whose rounded costs add up to less than the rounded whole, so that
`EscrowMatchesBook` can say exactly how far escrow and book may differ. The settlements
of a command are numbered along its chain of events, maker before taker (`Place`); each
shard does those of its users in this order (`Due`, `settled`). `Pipe` and `Book` are instances of the other
two modules on the same variables, and the run checks that the composition
implements both specifications (`PipelineProtocol`, `BookProtocol`): what is proved
of them carries over.

**Snowflake.** `clock` moves at any time; each read of it in `generate` and
`wait_next_tick` is a step. An error is unwrapped by `journal_command` and panics
the thread. The deadline is kept in nanoseconds in the code, so within its tick
it may or may not have passed. The or of the shifted fields is written as a sum,
which is the same as long as the fields keep to their widths (`TypeOK`).

**GatewaySessions.** `channels` are the duologues ever created, in order; `slots` and
`publications` hold a number into them. The server thread's steps are the parts of
`start`, `process_handshake_message` and `remove_gateway_session` between which the
conductor thread (image callbacks, end of an asynchronous close) or the events
thread (reads `publications`) can see a difference; the slots and the port allocator
belong to the server thread alone. A random draw may give any value that passes its
test, and an allocation may always fail: before it has created anything
(`AllocationFails`: draws, Aeron refuses the publication), or when the publication is
there and Aeron refuses the subscription (`SubscriptionFails`). In that case the
publication is dropped and closes on its own (`leftover`, until `PublicationClosed`),
and its port is in no slot and not cooling. A close may fail twice, in `close` and in
`Drop`, which only logs it; the subscription then stays open for good (`stuck`).
`recently_freed` keeps, per port, whether its cooldown runs or is over. A close that was
asked for is assumed to take less than the cooldown, which is what the cooldown is for;
an `add_subscription` that fails is assumed to leave nothing bound itself. A gateway may stop at any
time and start again; its reply may be lost, since it waits for its publication but
not for its subscription to connect. Aeron is external: an image comes and goes while
the gateway has the channel open (`flaps` counts losses then), goes when it has not,
and may or may not be reported once more by a close.

**Events.** Extends `Exchange`: each step of a handler also takes the balance copy or
the L2 snapshot the code takes there (`transfer_copied` in R1, `settle_copied` and
`finish_copied` in R2, `match_attached`), and `events_handler` is the whole of
`handle_processed_command`: the early return for an unprocessed command, the order,
maker, trade, cancel, order book, balance and transfer messages, and the response.
A task of its own publishes each message, so arrival order means nothing; a feed keeps,
per key, the messages with the newest timestamp, which is all a reader can go by. A
copy is taken in the step it follows; in the code all but the maker's lock the store
a second time and may see a little more, which only adds to what `stale_balance` shows.
Messages that cannot be encoded or delivered are logged and left out.

**Scenarios.** A suite is a sequence of steps: a command of `OrderBuilder` and the
assertions of the verifiers once it is answered. `execute_command` sends the next
command when the pipeline is quiet (the client waits for the response, then for
Redis); the handlers of one command interleave. Each suite starts on a fresh server.
The suites compute a bid's cost as `price * size`; the market of the test server has
scales (base 10^8, quote 10^6), so these amounts are scaled before they are compared
(`amount_of`).

**Recovery.** `start`, `start_replay`, `replay_fragment`, `replay_completed`,
`start_recording`, `server_created`, `server_failed` and `server_shutdown` are the
server thread from `main` to its end; `process_ends` is an exit or a crash at any
point; `journal_command` and `handle_processed_command` read the replay flag when they
reach a command. A command is its number. Archive and media driver are external:
they survive the server, close a recording some time after its writer is gone, keep the
subscriptions they were asked to record under (so a recording may begin that this server
did not ask for), and
cut the log into terms whose end is padded; an offer that meets the end of a term
fails (`ADMIN_ACTION`) and is not repeated by the code. `ActiveRecordingReader` takes a
recording for active when its stop position is 0, so one that was closed before anything
was recorded is joined although nobody records it (`TakenForActive`); if no older
subscription does either, the server waits for its archive publication for good, shutdown
included (phase `waiting`, which only a crash leaves). Left out: the preloaded
balances of test builds, a server without archive channels, and what the archived
copy of a command contains (journaling takes it while R1 may be rewriting price and
status).

## Runs

| run | bounds | shows |
|---|---|---|
| `orderbook` | 2 users, 2 limit prices, market prices 0 and 3, sizes 1-2, 4 ids, snapshot depth 1; users symmetric | all book invariants and that a cancel removes only its target |
| `pipeline` | 2 shards, 2 routers, 3 slots, 7 commands | barriers, exclusivity, no overwrite, every command served |
| `exchange` | 2 users on 2 shards, 3 commands out of 9, 2 slots, costs halved and rounded down, 50% fees, 100% slippage | types, settlement never fails, escrow matches the book up to rounding, funds conserved, both protocols, no deadlock |
| `events` | as `exchange` with exact costs, 4 commands out of 7 | the newest messages say which orders are open and how far filled, trades add up to fills, the book on the topic is the book |
| `scenarios` | 3 users on 4 shards, up to 47 commands, the market of the test server at a hundredth of its scale | every assertion of the integration suites |
| `recovery` | 3 starts, 2 commands, 2 slots, 1 shard, 1 router, terms of 3 frames and a rest | answered commands are in the books again, in order; none is recorded twice if the pipeline is drained when the flag is cleared |
| `snowflake` | 2 gateways, 3 steps per tick, 7 ticks and 2 beyond, 2 polls | ids increase and read back, waits end |
| `gateways` | 2 gateways, 4 ports, 2 session ids, 2 handshakes, 2 channels, 1 flap; all symmetric | no port shared by two sessions, responses to the current session, no leak, no premature release, clean-ups neither misdirected nor lost, no deadlock |
| `uncancellable_ask` | as `orderbook`, 2 ids | a resting ask whose cancel is rejected |
| `stale_balance` | as `events`, 3 commands | the newest balance message is wrong for good |
| `replay_hangs` | 2 starts, 2 commands, terms of 1 frame and a rest; fair replay loop | a replay that never ends |
| `abandoned_session` | 1 gateway, 1 handshake, fair threads | a session nobody will ever free |

Why the bounds are enough. Four ids give two makers at one level and one at
another with a taker that skips its own order, fills one, and fills another in
part, or three orders and a cancel; size 2 gives partial fills. Seven commands
wrap a ring of three slots twice. Three commands are a maker, a taker and a third
that competes for the same funds in R1 while the first two settle; a fee of 50%
and a slippage of 100% make both visible at sizes 1 to 3. `U64MAX` is above every
amount, so wrap-around at the real width does not occur in the runs. Four commands in
`events` are a bid, two makers of one user that trade with it and a cancel or a
deposit in between. Two commands and three starts in `recovery` give a command answered before
and one after a crash, a recording extended twice, a joined one, and a replay that
meets a full ring; three commands with three starts and two with four hold as well
(2.3 and 6.4 million states). A term of a frame and a rest is the shortest in which
the second command meets a term's end. Two channels
are the least for a stale clean-up, a port bound twice or a port drawn while it
cools, and two handshakes are a gateway that comes back, or one that comes while the
other is connected; four ports are exactly two gateways' worth, so the allocator runs
out. The theorems have no such bounds.

`CHECK_DEADLOCK` is off where a behaviour ends only because its bound is reached
(`pipeline`, whose liveness property covers stuck handlers, `snowflake`, and
`recovery`, where starts run out). In
`Exchange` the drained pipeline is an explicit step, so any other stop is a
deadlock TLC reports. Since the bounded state graph has no cycle among handler
steps, this also says that every published command is served.

**Fairness.** Handlers are threads that busy-spin on their barrier, so each step a
barrier allows is taken (weak fairness per handler). In `Snowflake`, time passes
and a spinning thread runs. In `Recovery` the replay loop spins on its subscription.
In `GatewaySessions` the server thread spins, and the
conductor reports the image of a gateway that has gone and finishes a close it was asked
for or began when a publication was dropped. Nothing
is assumed of gateways, crashes or restarts.

### Disagreements with the documentation

The four violation runs each refute a sentence of `ARCHITECTURE.md` or of a module's
documentation or comments; `PROJECT.json` quotes them under `findings`. All are defects.

- `uncancellable_ask`: with a bid and an ask of one user at one price, which
  self-trade prevention allows, the ask cannot be cancelled and its funds stay locked
  until it trades.
- `stale_balance`: R1 copies the balance of a deposit or withdrawal before R2 has
  settled earlier commands of the user; the later timestamp makes it the newest.
- `replay_hangs`: the loop counts frames, the stop position also counts padding, so
  a recording longer than one term is never replayed to its end.
- `abandoned_session`: a gateway that stops between its HELLO and the opening of its
  channel is refused as "already connected" until the core restarts.

Where code and documentation differ in a way the model takes from the code, no run
refutes the sentence:

- There is no barrier between journaling and R1 (`ARCHITECTURE.md:537-539` has one).
- A command that meets a full ring is lost, live or replayed (`:1424`).
- Fees leave the balances and are credited to nobody (`:454-457`).
- An exhausted sequence that outlasts the deadline is an error the caller unwraps, so
  the journaling thread panics (`:248` describes a wait).
- The replay flag is cleared when the last fragment has been published
  (`server/src/engine.rs:441`); commands still in the ring are then journaled again,
  under new ids, and answered a second time (`:265`, `:1238`). This is why
  `RecordedOnceIfDrained` has its condition: without it TLC finds the tail of a
  recording recorded twice.
- Slots and cooldown are meant to cover every port that may still be bound
  (`gateway_manager.rs:545`, `utils.rs:263`). They do not cover the publication left over
  when the subscription of a new session fails (`gateway_manager.rs:464`) nor, once its
  cooldown is over, a subscription whose close failed: `PortsBoundOnce` is not an
  invariant. One gateway with two ports, one session id, two handshakes and two channels
  shows it: the second handshake draws the port the first one's publication still has.
  What does hold is `SessionPortsExclusive`: no two sessions share a port, from the draw
  to the end of the close that was asked for.
- A recording still open when the server starts is skipped by the replay
  (`replay.rs` takes those with a stop position), and a server without `--replay`
  joins it.
- The suites' `price * size` (`xtask/src/scenarios/gtc.rs:56`) is the amount before the
  market's scales.

`LiveSessionKept` has a condition, `flaps = 0`: a clean-up request names only the
gateway, and if an image comes back and is lost again while its channel is closing,
the second request removes the session the gateway has opened since.

## Proofs

All constants are arbitrary within the named assumptions of the modules; the numbers of
users, prices, orders, commands, slots, gateways, ports and restarts are not bounded.

- `OrderBookProofs`. The invariants are not inductive alone: priority needs to
  know that every level already passed holds only the taker's own orders, and
  every position already passed in the open level too; no crossing needs
  the same at the moment a GTC rest is added; sortedness needs every resting id
  to be at most `last_id`; the index needs each id to rest only once. `IInv` joins
  these facts about the loop with the invariants; one lemma per action shows
  that it is kept. From it follow `TypeOK`, `NoCrossBetweenUsers`,
  `PriceTimePriority`, `QueuesSortedById`, `IndexSound` and `RestingBidsIndexed`.
  Its second part adds the sums: by `Totals`, each level's volume is
  that of its queue; the events so far and the remaining size make the size the
  command came with; for an FOK order that passed `can_fill_completely`, the volume of
  other users still ahead of the loop covers the remaining size (this is what makes all
  or nothing hold at the end of the loop, and it needs that the loop never leaves such
  volume behind); every order but the ones the command filled is what it was before;
  snapshot and cache show the book whenever no command is in it. It gives `VolumeIsSum`,
  `FokAllOrNothing`, `EventsMatchBook` (for which `EventsFair` adds that the open level is
  one the taker accepts and no event names the taker as its maker), `ViewsAgree` (the snapshot needs at least one
  level, `L2SIZE >= 1`) and the action property `CancelOnlyRemovesTarget`.
- `PipelineProofs`. `PInv` is the type invariant with neighbouring stages ordered;
  it gives `BarrierOrder`, `StageExclusive` and `NoOverwrite` for any number of
  shards, routers and slots.
- `ExchangeProofs`. The composition implements its parts: `BookRefined` and
  `PipelineRefined` are the two protocols the `exchange` run checks, for any number of
  commands and shards. The mapping is the identity on the variables of book and ring;
  what is to show is that every input the handlers give the book is one the book's
  specification allows: a fresh id above all earlier ones although R1 and journaling
  race on the slot, a market buy with a price R1 has put in, no command twice. `XInv`
  says which stage each slot's command is at and what it must look like there
  (`RingSound`), that ids follow the slots (`IdsAhead`) and that the cache holds real
  prices (`CacheSound`), together with the invariants of book and ring.
  `BookSafeInExchange` carries the book's theorems over. The assumptions are about
  inputs: commands are well formed as `place_order` requires, and opening balances fit
  their type.
  The second part is about `Events`. `EventsRefineExchange` is the refinement: with
  copies and feeds hidden, every step is a step of `Exchange` or leaves it alone, so all
  that is proved of `Exchange` holds here. The properties of the feeds speak of the
  drained pipeline and of feeds that are folds over all earlier messages; nothing in them
  is inductive, and a feed lags behind the book by every command between matching and
  the events handler. `EInv` closes that gap without a history variable: it says what
  the feed is going to be. The newest word about an order (`Heard`) is what the command
  being matched says of it so far, else what the last slot on its way to the events
  handler says that mentions it, else what the feed holds; and that word is true at
  every moment (`Truthful`: at most one message, open exactly if the order rests, with
  its owner, price, side and remaining size; its filled size is what the trades told so
  far, `Traded`, add up to). The invariant is about the middle of a match, too: after
  each maker filled, the trade has one message more for maker and taker alike, and the
  book one order less or a smaller one (`TellsFill`). Two facts make one message an
  order per command: a maker is met once, and an order is not its own maker
  (`MakerUnsaid`, `TradeIsNew`). When the pipeline is drained the newest word is the
  feed, and `OrderFeedMatchesBook`, `FilledIsSumOfTrades` and `BookFeedCurrent` follow.
  The third part is the arithmetic of the funds, for any balances and any claims on
  them: costs rounded down piece by piece never exceed the rounded whole and lose at
  most two units per purchase; a `Ledger` of balances, resting orders and claims stays
  balanced when funds are reserved, a trade turns one hold into two settlements, a
  settlement is done, a rest is released or put on the book.
- `FundsProofs`. `SettlementNeverFails`, `EscrowMatchesBook`, `FundsConserved` and
  `TypeOK` of `Exchange`. None is inductive: they speak of drained pipelines or of an
  operation that has failed already, and between R1 and R2 funds are on their way. `MInv`
  says where they are in every state. Each slot of the ring has its claims on locked
  funds (`ItemsAt`): nothing before R1, the hold of the whole order until matching, the
  hold of the rest and two settlements per event while it is matched, and then the
  settlements and the release each shard has still to do. `Money` is the ledger of these
  claims: for every user and asset, what the resting orders need and what is claimed is
  locked, up to what rounding left behind; and what users have, plus what they will get,
  minus what they will pay, plus fees, is what was deposited. `Side` has the facts
  about the slots this rests on, such as that a command with trades is not rejected and
  that the levels matching opens are within the taker's limit. One lemma per step shows
  that it makes, changes or meets the claims of one slot; the fill of a maker is the
  hard one (`YFill`): the taker's hold pays for the trade at the maker's price, the refund
  and the rest, and the maker's part of the book's needs becomes his settlement.
  The theorems have one hypothesis, `AmountsFit`: in no state of the behaviour does the
  cost of an order, the deposits of an asset or the funds of one user in it exceed 64
  bits. It cannot be dropped: `calculate_quote_cost` truncates, and `lock_funds` and
  `unlock_funds` add without a check. It holds in every state of the instance the
  `exchange` run checks (whose `U64MAX` is above every amount; adding it to
  `MCExchange.cfg` as an invariant shows it). The product of a trade and its fee may wrap
  all the same: the fee is then too small, never more than the trade.
- `GatewaySessionsProofs`. `IInv` says what a channel may look like for each place that
  refers to it: every open channel belongs to exactly one of a slot, the session being
  allocated or the one being removed; publications are those of the slots, but for the
  session the server is at work on; ports of a channel that is open, or whose close
  was asked for and has not finished, are in a slot or cooling; a queued clean-up is for
  a session whose image was lost. All eight
  invariants of the run follow; the exact count of ports needs that used and cooling
  ports are disjoint and come in pairs.
- `RecoveryProofs`. `RInv` relates ring, archive and books: the books are the commands
  matching has passed, in order; a recording holds what journaling offered while it was
  open; during a replay the ring carries the recording's commands in order, with gaps
  where a full ring dropped one; an answered command has passed the journal. It gives
  `AnsweredSurvive` and `RecordedOnceIfDrained` for any number of starts, commands,
  slots and shards.
- `SnowflakeProofs`. `Recent` relates the last id to the generator: its tick and
  at most its sequence, or a tick the clock has left (after a restart the generator
  knows nothing). With the arithmetic of `create_id` this gives `IdsIncrease` and
  `IdRoundTrip` for any field widths, number of polls and deadline. The assumption
  that matters is external: a restarted process reads a wall clock ahead of the
  old one's.
- `Sums`. Volumes, fills and port counts are sums over finite sets. The library's
  induction theorems cannot be instantiated by the installed provers, so the facts
  about `SumFunction` (split off one member, change one value, compare, disjoint union)
  are proved from its definition by looking at a least counterexample among the
  subsets of a finite set.

Only model-checked: liveness (`EveryCommandServed`, `WaitEnds`), which needs fairness and
`ENABLED`; and `SuitesPass`, whose subject is a finite list of runs with constants of
their own, so that nothing is left to quantify over. The violation runs show what does
not hold; nothing is proved about them.

## Open questions

For the model: two markets on two routers sharing a quote asset; what
happens beyond `AmountsFit`, the amount of a fee whose product has wrapped included; whether a replay decides every
command as the live run did (a property of two runs: acceptance depends on how far R2
had come, and on which price the archived copy of a market buy carries). For the proofs:
when the newest balance message is right. `stale_balance` shows that it may not be; what
is missing is a condition on the commands of a user that rules this out.

## Not modelled

- The SBE codec (generated) and the protobuf messages: conversions of data without state.
- `vex-config`: read once at start-up.
- Docker, process and benchmark tooling in `xtask/src/main.rs`, verifiers no suite
  calls, and the unit tests inside the modules.
- Aeron, Kafka, Redis and the disruptor crate beyond what the code relies on.
- The gateway client after its handshake: it offers and polls, and keeps no state the
  core depends on.
