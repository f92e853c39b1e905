CONSTANTS
  u1 = u1
  u2 = u2
  Users = {u1, u2}
  Prices = {1, 2}
  Sizes = {1, 2, 3}
  L2SIZE = 1
  U64MAX = 100000
  RiskShards = {0, 1}
  BUFFER_SIZE = 2
  MaxSeq = 4
  ShardOf <- MCShardOf
  Inputs <- EventInputs
  Opening <- MCOpening
  QUOTE_NATIVE_SCALE = 1
  BASE_NATIVE_SCALE = 1
  QUOTE_SCALE_K = 1
  TAKER_FEE = 5000
  MAKER_FEE = 5000
  SLIPPAGE = 10000
SPECIFICATION EventsSpec
INVARIANTS
  OrderFeedMatchesBook
  FilledIsSumOfTrades
  BookFeedCurrent
