--------------------------- MODULE PipelineProofs ---------------------------
(***************************************************************************)
(* TLAPS proofs about Pipeline, for any number of shards, routers and      *)
(* slots.                                                                  *)
(***************************************************************************)
EXTENDS Pipeline, TLAPS

(* BarrierOrder is inductive on its own, given the types.                  *)
PInv == TypeOK /\ BarrierOrder

(* Every handler has a stage, there is a handler in each of the four, and  *)
(* the events handler is alone in the last.                                *)
LEMMA StageFacts ==
  /\ \A h \in Handlers : Stage(h) \in 1 .. 4
  /\ \A k \in 1 .. 4 : \E h \in Handlers : Stage(h) = k
  /\ Events \in Handlers
  /\ \A h \in Handlers : Stage(h) = 4 => h = Events
<1>1. Events \in Handlers /\ Journaling \in Handlers
  BY DEF Handlers
<1>2. PICK s \in RiskShards : TRUE
  BY ShardsAssumption
<1>3. PICK m \in Routers : TRUE
  BY ShardsAssumption
<1>4. R2(s) \in Handlers /\ Matching(m) \in Handlers
  BY DEF Handlers
<1>5. /\ Stage(Journaling) = 1 /\ Stage(Matching(m)) = 2
      /\ Stage(R2(s)) = 3 /\ Stage(Events) = 4
  BY DEF Stage, Journaling, Matching, R2, Events
<1>6. \A h \in Handlers : Stage(h) \in 1 .. 4
  BY DEF Stage
<1>7. \A h \in Handlers : Stage(h) = 4 => h = Events
  BY DEF Stage, Handlers, Journaling, R1, Matching, R2
<1>8. \A k \in 1 .. 4 : \E h \in Handlers : Stage(h) = k
  <2> TAKE k \in 1 .. 4
  <2>1. k = 1 \/ k = 2 \/ k = 3 \/ k = 4
    OBVIOUS
  <2> QED
    BY <1>1, <1>4, <1>5, <2>1
<1> QED
  BY <1>1, <1>6, <1>7, <1>8

(* What a barrier let through, every earlier stage has finished with.      *)
LEMMA AvailableMeansDone ==
  ASSUME PInv, NEW g \in Handlers, NEW h \in Handlers,
         Stage(g) < Stage(h), available(h)
  PROVE  cursor[h] < cursor[g]
<1>1. Stage(g) \in 1 .. 4 /\ Stage(h) \in 1 .. 4
  BY StageFacts
<1>2. Stage(h) - 1 \in 1 .. 4
  BY <1>1
<1>3. PICK k \in Handlers : Stage(k) = Stage(h) - 1
  BY <1>2, StageFacts
<1>4. cursor[h] < cursor[k]
  BY <1>1, <1>3 DEF available
<1>5. cursor[g] \in Nat /\ cursor[h] \in Nat /\ cursor[k] \in Nat
  BY BufferAssumption DEF PInv, TypeOK
<1>6. CASE Stage(g) = Stage(k)
  BY <1>1, <1>3, <1>6 DEF available
<1>7. CASE Stage(g) < Stage(k)
  <2>1. cursor[k] <= cursor[g]
    BY <1>7 DEF PInv, BarrierOrder
  <2> QED
    BY <2>1, <1>4, <1>5
<1> QED
  BY <1>1, <1>3, <1>6, <1>7

LEMMA PInit == Init => PInv
<1> SUFFICES ASSUME Init PROVE PInv
  OBVIOUS
<1>1. TypeOK
  <2>1. 0 \in 0 .. MaxSeq
    BY BufferAssumption
  <2>2. cursor \in [Handlers -> 0 .. MaxSeq]
    BY <2>1 DEF Init
  <2> QED
    BY <2>1, <2>2 DEF Init, TypeOK
<1>2. \A h \in Handlers : cursor[h] = 0
  BY DEF Init
<1>3. Events \in Handlers
  BY StageFacts
<1>4. \A g, h \in Handlers : cursor[h] <= cursor[g]
  BY <1>2
<1>5. published = 0 /\ published <= cursor[Events] + BUFFER_SIZE
  BY <1>2, <1>3, BufferAssumption DEF Init
<1>6. BarrierOrder
  BY <1>2, <1>4, <1>5 DEF BarrierOrder
<1> QED
  BY <1>1, <1>6 DEF PInv

LEMMA PHandle ==
  ASSUME PInv, NEW h \in Handlers, handle(h)
  PROVE  PInv'
<1>1. /\ available(h) /\ published' = published /\ dropped' = dropped
      /\ cursor' = [cursor EXCEPT ![h] = @ + 1]
  BY DEF handle
<1>2. /\ cursor \in [Handlers -> 0 .. MaxSeq] /\ published \in 0 .. MaxSeq
      /\ MaxSeq \in Nat /\ Events \in Handlers
  BY BufferAssumption, StageFacts DEF PInv, TypeOK
<1>3. /\ cursor'[h] = cursor[h] + 1 /\ cursor[h] < published
      /\ \A g \in Handlers : g # h => cursor'[g] = cursor[g]
      /\ \A g \in Handlers : cursor[g] \in Nat
  BY <1>1, <1>2 DEF available
<1>4. TypeOK'
  <2>1. cursor[h] + 1 \in 0 .. MaxSeq
    BY <1>2, <1>3
  <2> QED
    BY <1>1, <1>2, <2>1 DEF PInv, TypeOK
<1>5. \A g \in Handlers : cursor'[g] <= published
  BY <1>2, <1>3 DEF PInv, BarrierOrder
<1>6. published <= cursor'[Events] + BUFFER_SIZE
  BY <1>2, <1>3, BufferAssumption DEF PInv, BarrierOrder
<1>7. ASSUME NEW g \in Handlers, NEW k \in Handlers, Stage(g) < Stage(k)
      PROVE  cursor'[k] <= cursor'[g]
  <2>1. cursor[k] <= cursor[g]
    BY <1>7 DEF PInv, BarrierOrder
  <2>2. CASE k = h
    <3>1. cursor[k] < cursor[g] /\ g # h
      BY <1>1, <1>7, <2>2, AvailableMeansDone, StageFacts
    <3> QED
      BY <3>1, <2>2, <1>3
  <2>3. CASE k # h
    BY <2>1, <2>3, <1>3
  <2> QED
    BY <2>2, <2>3
<1>8. BarrierOrder'
  BY <1>1, <1>5, <1>6, <1>7 DEF BarrierOrder, Stage
<1> QED
  BY <1>4, <1>8 DEF PInv

LEMMA PNext == PInv /\ [Next]_pipeVars => PInv'
<1> SUFFICES ASSUME PInv, [Next]_pipeVars PROVE PInv'
  OBVIOUS
<1>0. /\ published \in Nat /\ MaxSeq \in Nat /\ cursor[Events] \in Nat
      /\ \A h \in Handlers : cursor[h] \in Nat
  BY BufferAssumption, StageFacts DEF PInv, TypeOK
<1>1. CASE publish
  <2>1. /\ published < MaxSeq /\ published' = published + 1
        /\ published - cursor[Events] < BUFFER_SIZE
        /\ cursor' = cursor /\ dropped' = dropped
    BY <1>1 DEF publish, has_slot
  <2>2. TypeOK'
    BY <1>0, <2>1 DEF PInv, TypeOK
  <2>3. BarrierOrder'
    BY <1>0, <2>1, BufferAssumption DEF PInv, BarrierOrder
  <2> QED
    BY <2>2, <2>3 DEF PInv
<1>2. CASE drop
  BY <1>2 DEF drop, PInv, TypeOK, BarrierOrder
<1>3. CASE \E h \in Handlers : handle(h)
  BY <1>3, PHandle
<1>4. CASE UNCHANGED pipeVars
  BY <1>4 DEF pipeVars, PInv, TypeOK, BarrierOrder
<1> QED
  BY <1>1, <1>2, <1>3, <1>4 DEF Next

LEMMA PInductive == Safety => []PInv
<1> QED
  BY PInit, PNext, PTL DEF Safety

-----------------------------------------------------------------------------
(* Cursors stay within the commands published.                             *)
THEOREM PipelineTypes == Safety => []TypeOK
<1>1. PInv => TypeOK
  BY DEF PInv
<1> QED
  BY <1>1, PInductive, PTL

(* The wiring of build_disruptor_pipeline keeps barriers 2 to 4 and the    *)
(* ring bound, whatever the number of shards, routers and slots.           *)
THEOREM Barriers == Safety => []BarrierOrder
<1>1. PInv => BarrierOrder
  BY DEF PInv
<1> QED
  BY <1>1, PInductive, PTL

(* Handlers of different stages never share a slot.                        *)
THEOREM Exclusive == Safety => []StageExclusive
<1>1. PInv => StageExclusive
  <2>0. ASSUME NEW g \in Handlers, NEW h \in Handlers, Stage(g) = Stage(h)
        PROVE  g[1] = h[1] \/ {g[1], h[1]} = {"journaling", "r1"}
    <3>1. g[1] \in {"journaling", "r1", "matching", "r2", "events"}
          /\ h[1] \in {"journaling", "r1", "matching", "r2", "events"}
      BY DEF Handlers, Journaling, R1, Matching, R2, Events
    <3> QED BY <2>0, <3>1 DEF Stage
  <2> SUFFICES ASSUME PInv, NEW g \in Handlers, NEW h \in Handlers,
                      available(g), available(h), cursor[g] = cursor[h],
                      Stage(g) # Stage(h)
               PROVE  FALSE
    BY <2>0 DEF StageExclusive
  <2>1. Stage(g) < Stage(h) \/ Stage(h) < Stage(g)
    BY StageFacts
  <2>2. cursor[g] \in Nat /\ cursor[h] \in Nat
    BY BufferAssumption DEF PInv, TypeOK
  <2>3. CASE Stage(g) < Stage(h)
    <3>1. cursor[h] < cursor[g]
      BY <2>3, AvailableMeansDone
    <3> QED
      BY <3>1, <2>2
  <2>4. CASE Stage(h) < Stage(g)
    <3>1. cursor[g] < cursor[h]
      BY <2>4, AvailableMeansDone
    <3> QED
      BY <3>1, <2>2
  <2> QED
    BY <2>1, <2>3, <2>4
<1> QED
  BY <1>1, PInductive, PTL

(* A slot is reused only when no handler can be at work on it.             *)
THEOREM SlotsSafe == Safety => []NoOverwrite
<1>1. PInv => NoOverwrite
  <2> SUFFICES ASSUME PInv, NEW h \in Handlers, has_slot, available(h)
               PROVE  (published + 1) - (cursor[h] + 1) \in 1 .. BUFFER_SIZE - 1
    BY DEF NoOverwrite
  <2>1. /\ published \in Nat /\ cursor[h] \in Nat /\ cursor[Events] \in Nat
        /\ BUFFER_SIZE \in Nat
    BY BufferAssumption, StageFacts DEF PInv, TypeOK
  <2>2. cursor[Events] <= cursor[h]
    <3>1. CASE h = Events
      BY <3>1, <2>1
    <3>2. CASE h # Events
      <4>1. Stage(h) < Stage(Events)
        <5>1. Stage(h) \in 1 .. 4 /\ Stage(h) # 4
          BY <3>2, StageFacts
        <5>2. Stage(Events) = 4
          BY DEF Stage, Events
        <5> QED
          BY <5>1, <5>2
      <4> QED
        BY <4>1, StageFacts DEF PInv, BarrierOrder
    <3> QED
      BY <3>1, <3>2
  <2> QED
    BY <2>1, <2>2 DEF has_slot, available
<1> QED
  BY <1>1, PInductive, PTL
=============================================================================
