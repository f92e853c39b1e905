---------------------------- MODULE MCScenarios ----------------------------
(* Scenarios with the users of the suites, who live in three of the four   *)
(* risk shards, and the market of the test server.                         *)
EXTENDS Scenarios

(* user_id & shard_mask for four shards.                                   *)
MCShardOf == [u \in Users |-> u % 4]

MCOpening ==
  [u \in Users |-> [a \in Assets |-> [available |-> 0, locked |-> 0]]]
=============================================================================
