CONSTANTS
  Users = {1, 2, 3}
  Prices = {38000, 40000, 42000, 45000, 48000, 49000, 50000, 51000, 52000,
            53000, 54000, 55000, 58000, 60000, 65000, 66000, 67000}
  Sizes = {1}
  L2SIZE = 10
  U64MAX = 2000000000
  RiskShards = {0, 1, 2, 3}
  BUFFER_SIZE = 1
  MaxSeq = 48
  ShardOf <- MCShardOf
  Inputs = {}
  Opening <- MCOpening
  QUOTE_NATIVE_SCALE = 1
  BASE_NATIVE_SCALE = 100
  QUOTE_SCALE_K = 1
  TAKER_FEE = 0
  MAKER_FEE = 0
  SLIPPAGE = 150
SPECIFICATION ScenarioSpec
INVARIANT
  SuitesPass
