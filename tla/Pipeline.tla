------------------------------ MODULE Pipeline ------------------------------
(***************************************************************************)
(* The ring buffer and the dependency graph of its handlers, as            *)
(* build_disruptor_pipeline (server/src/engine.rs) wires them with the     *)
(* disruptor crate: gateway fragments are published into slots, each       *)
(* handler is a thread that visits the slots in order, and and_then() puts *)
(* a barrier between the handlers registered before it and those after it. *)
(*                                                                         *)
(* Only positions are modelled here; what the handlers do to a command is  *)
(* in Exchange.  A handler may be at work on the slot after its cursor     *)
(* whenever its barrier lets it through.                                   *)
(***************************************************************************)
EXTENDS Integers

CONSTANTS
  RiskShards,   \* shards of the R1 and R2 risk engines
  Routers,      \* matching engine routers
  BUFFER_SIZE,  \* slots in the ring
  MaxSeq        \* bound: commands published in one behaviour

ASSUME ShardsAssumption == RiskShards # {} /\ Routers # {}
ASSUME BufferAssumption == BUFFER_SIZE \in Nat \ {0} /\ MaxSeq \in Nat

VARIABLES
  published,    \* commands published so far: the producers' sequence
  cursor,       \* per handler, how many commands it has finished
  dropped       \* some command found the ring full and was lost

pipeVars == <<published, cursor, dropped>>

Journaling == <<"journaling", 0>>
R1(s)      == <<"r1", s>>
Matching(m) == <<"matching", m>>
R2(s)      == <<"r2", s>>
Events     == <<"events", 0>>

Handlers == {Journaling, Events} \cup {R1(s) : s \in RiskShards}
              \cup {Matching(m) : m \in Routers} \cup {R2(s) : s \in RiskShards}

(* Mutant: no and_then between the matching engines and R2.                *)
Stage_joined(h) ==
  CASE h[1] \in {"journaling", "r1"} -> 1
    [] h[1] \in {"matching", "r2"}   -> 2
    [] OTHER                         -> 3

(* The stage a handler is registered in.  There is no and_then between the *)
(* journaling handler and the R1 handlers, so they share the first one.    *)
Stage(h) ==
  CASE h[1] \in {"journaling", "r1"} -> 1
    [] h[1] = "matching"             -> 2
    [] h[1] = "r2"                   -> 3
    [] OTHER                         -> 4

(* Mutant: one handler of the previous stage is enough.                    *)
available_one(h) ==
  /\ cursor[h] < published
  /\ \E g \in Handlers : Stage(g) + 1 = Stage(h) /\ cursor[h] < cursor[g]

(* The barrier of h lets it work on its next slot: the slot is published   *)
(* and every handler of the stage before has finished with it.             *)
available(h) ==
  /\ cursor[h] < published
  /\ \A g \in Handlers : Stage(g) + 1 = Stage(h) => cursor[h] < cursor[g]

(* Mutant: the ring is taken to have one slot more than it has.            *)
has_slot_late == published - cursor[Events] < BUFFER_SIZE + 1

(* A slot is free once the last stage has finished with it.                *)
has_slot == published - cursor[Events] < BUFFER_SIZE

Init ==
  /\ published = 0
  /\ cursor = [h \in Handlers |-> 0]
  /\ dropped = FALSE

(* try_publish of a decoded fragment.                                      *)
publish ==
  /\ published < MaxSeq
  /\ has_slot
  /\ published' = published + 1
  /\ UNCHANGED cursor /\ dropped' = dropped

(* try_publish fails on a full ring: the error is logged, the command gone.*)
drop ==
  /\ ~has_slot
  /\ dropped' = TRUE
  /\ UNCHANGED <<published, cursor>>

(* Mutant: the cursor runs ahead of the work by one slot.                  *)
handle_two(h) ==
  /\ available(h)
  /\ cursor' = [cursor EXCEPT ![h] = @ + 2]
  /\ UNCHANGED published /\ dropped' = dropped

(* Handler h finishes its next slot.                                       *)
handle(h) ==
  /\ available(h)
  /\ cursor' = [cursor EXCEPT ![h] = @ + 1]
  /\ UNCHANGED published /\ dropped' = dropped

Next == publish \/ drop \/ \E h \in Handlers : handle(h)

Safety == Init /\ [][Next]_pipeVars

(* Every handler thread busy-spins on its barrier, so it takes every step  *)
(* its barrier lets it take.  Nothing is assumed of the producers.         *)
Fairness == \A h \in Handlers : WF_pipeVars(handle(h))

Spec == Safety /\ Fairness

-----------------------------------------------------------------------------
TypeOK ==
  /\ published \in 0 .. MaxSeq
  /\ cursor \in [Handlers -> 0 .. MaxSeq]
  /\ dropped \in BOOLEAN

(* Barriers 2 to 4 of ARCHITECTURE.md:541-551: no handler gets ahead of a  *)
(* handler of any earlier stage, or of the producers, and the producers    *)
(* never get more than a ring ahead of the events handler.                 *)
BarrierOrder ==
  /\ \A g, h \in Handlers : Stage(g) < Stage(h) => cursor[h] <= cursor[g]
  /\ \A h \in Handlers : cursor[h] <= published
  /\ published <= cursor[Events] + BUFFER_SIZE

(* Two handlers may be at work on the same command only if both are        *)
(* matching engines, both are R2, or both come before matching: elsewhere  *)
(* the &mut OrderCommand of a slot is exclusive.                           *)
StageExclusive ==
  \A g, h \in Handlers :
    available(g) /\ available(h) /\ cursor[g] = cursor[h] =>
      \/ g[1] = h[1]
      \/ {g[1], h[1]} = {"journaling", "r1"}

(* A producer never writes into a slot a handler may still be working on:  *)
(* the sequence it is free to publish and the one the handler is at are    *)
(* less than a ring apart, so they are different slots.                    *)
NoOverwrite ==
  \A h \in Handlers :
    has_slot /\ available(h) =>
      (published + 1) - (cursor[h] + 1) \in 1 .. BUFFER_SIZE - 1

(* Every published command gets through all stages to the events handler:  *)
(* the barriers never make the handlers wait for each other in a circle.   *)
EveryCommandServed ==
  \A n \in 1 .. MaxSeq : published >= n ~> cursor[Events] >= n
=============================================================================
