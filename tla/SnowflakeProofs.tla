--------------------------- MODULE SnowflakeProofs ---------------------------
(***************************************************************************)
(* Ids increase and read back, for every width of the fields, every        *)
(* deadline and every number of polls.                                     *)
(***************************************************************************)
EXTENDS Snowflake, TLAPS

(* What an issued id must be compared with: the generator still holds its  *)
(* tick and a sequence at least as large, or the clock has left its tick   *)
(* and the generator's tick behind (a restart resets the generator).       *)
Recent ==
  \/ issued.tick = last_tick /\ issued.step <= sequence
  \/ issued.tick < clock /\ last_tick < clock

IInv ==
  /\ TypeOK
  /\ last_tick <= clock
  /\ issued.id = create_id(issued.tick, issued.step, issued.node)
  /\ Recent

-----------------------------------------------------------------------------
(* n multiples of m and a rest below m stay below n + 1 multiples: the     *)
(* step of every comparison of two ids.                                    *)
LEMMA Below ==
  ASSUME NEW m \in Nat, NEW a \in Nat, NEW b \in Nat, NEW r \in Nat,
         a < b, r < m
  PROVE  a * m + r < b * m
<1>1. PICK d \in Nat : b = a + 1 + d
  <2>1. b - a - 1 \in Nat
    OBVIOUS
  <2>2. b = a + 1 + (b - a - 1)
    OBVIOUS
  <2> QED BY <2>1, <2>2
<1>2. b * m = a * m + m + d * m
  BY <1>1
<1>3. d * m \in Nat /\ a * m \in Nat /\ b * m \in Nat
  BY <1>1
<1> QED BY <1>2, <1>3

(* Quotient and remainder of such a sum are its parts.                     *)
LEMMA Split ==
  ASSUME NEW m \in Nat \ {0}, NEW a \in Nat, NEW r \in Nat, r < m
  PROVE  (a * m + r) \div m = a /\ (a * m + r) % m = r
<1> DEFINE n == a * m + r
           q == n \div m
           k == n % m
<1>1. n \in Nat
  <2>1. a * m \in Nat
    OBVIOUS
  <2> QED BY <2>1
<1>2. q \in Nat /\ k \in Nat /\ k < m /\ n = q * m + k
  BY <1>1
<1>3. q = a
  <2> HIDE DEF q, k
  <2>1. ~(q < a)
    BY <1>2, Below
  <2>2. ~(a < q)
    BY <1>2, Below
  <2> QED BY <1>2, <2>1, <2>2
<1>4. k = r
  <2> HIDE DEF q, k
  <2>1. n = a * m + k
    BY <1>2, <1>3
  <2>2. a * m \in Nat
    OBVIOUS
  <2> QED BY <1>2, <2>1, <2>2
<1> QED BY <1>3, <1>4

(* create_id orders ids by tick, then by step, whatever the gateways.      *)
LEMMA CreateIdMonotone ==
  ASSUME NEW t1 \in Nat, NEW t2 \in Nat,
         NEW s1 \in 0 .. STEP_MAX, NEW s2 \in 0 .. STEP_MAX,
         NEW g1 \in 0 .. NODE_MAX, NEW g2 \in 0 .. NODE_MAX,
         t1 < t2 \/ (t1 = t2 /\ s1 < s2)
  PROVE  create_id(t1, s1, g1) < create_id(t2, s2, g2)
<1> DEFINE x1 == t1 * STEPS + s1
           x2 == t2 * STEPS + s2
<1>0. STEPS \in Nat /\ NODES \in Nat /\ s1 < STEPS /\ g1 < NODES
  BY FieldsAssumption DEF STEPS, NODES
<1>1. t1 * STEPS \in Nat /\ t2 * STEPS \in Nat
  BY <1>0
<1>2. x1 \in Nat /\ x2 \in Nat
  BY <1>1, FieldsAssumption
<1>3. x1 < x2
  <2>1. CASE t1 < t2
    <3>1. x1 < t2 * STEPS
      BY <1>0, <2>1, Below, FieldsAssumption
    <3> QED BY <1>1, <1>2, <3>1, FieldsAssumption
  <2>2. CASE t1 = t2 /\ s1 < s2
    BY <1>1, <2>2, FieldsAssumption
  <2> QED BY <2>1, <2>2
<1> HIDE DEF x1, x2
<1>4. x1 * NODES + g1 < x2 * NODES
  BY <1>0, <1>2, <1>3, Below, FieldsAssumption
<1>5. x1 * NODES \in Nat /\ x2 * NODES \in Nat
  BY <1>0, <1>2
<1>6. x1 * NODES + g1 < x2 * NODES + g2
  BY <1>4, <1>5, FieldsAssumption
<1> QED BY <1>6 DEF create_id, x1, x2

(* parse_id and gateway_from_id invert create_id.                          *)
LEMMA ParseCreate ==
  ASSUME NEW t \in Nat, NEW s \in 0 .. STEP_MAX, NEW g \in 0 .. NODE_MAX
  PROVE  /\ parse_id(create_id(t, s, g)) = [tick |-> t, step |-> s, node |-> g]
         /\ gateway_from_id(create_id(t, s, g)) = g
<1> DEFINE x == t * STEPS + s
<1>0. /\ STEPS \in Nat \ {0} /\ NODES \in Nat \ {0}
      /\ s \in Nat /\ g \in Nat /\ s < STEPS /\ g < NODES
  BY FieldsAssumption DEF STEPS, NODES
<1>1. x \in Nat
  <2>1. t * STEPS \in Nat
    BY <1>0
  <2> QED BY <1>0, <2>1
<1>2. x \div STEPS = t /\ x % STEPS = s
  BY <1>0, Split
<1> HIDE DEF x
<1>3. (x * NODES + g) \div NODES = x /\ (x * NODES + g) % NODES = g
  BY <1>0, <1>1, Split
<1>4. create_id(t, s, g) = x * NODES + g
  BY DEF create_id, x
<1> QED BY <1>2, <1>3, <1>4 DEF parse_id, gateway_from_id

-----------------------------------------------------------------------------
(* An id returned from state IInv for a tick that is reached, with a       *)
(* larger (tick, step), is well-formed and larger than the last.           *)
LEMMA ReturnStep ==
  ASSUME IInv,
         NEW t \in 0 .. TIMESTAMP_MAX, t = clock,
         NEW s \in 0 .. STEP_MAX, NEW g \in 0 .. NODE_MAX,
         issued.tick < t \/ (issued.tick = t /\ issued.step < s),
         Return(t, s, g)
  PROVE  IInv' /\ issued'.id > issued.id
<1> USE FieldsAssumption
<1>1. create_id(t, s, g) \in Nat
  <2>1. STEPS \in Nat /\ NODES \in Nat
    BY DEF STEPS, NODES
  <2>2. t * STEPS + s \in Nat
    <3>1. t * STEPS \in Nat
      BY <2>1
    <3> QED BY <3>1
  <2>3. (t * STEPS + s) * NODES \in Nat
    BY <2>1, <2>2
  <2> QED BY <2>3 DEF create_id
<1>2. TypeOK'
  BY <1>1, WaitAssumption DEF IInv, TypeOK, Return, call
<1>3. (last_tick <= clock)' /\ Recent'
  BY DEF Recent, Return
<1>4. (issued.id = create_id(issued.tick, issued.step, issued.node))'
  BY DEF Return, create_id, STEPS, NODES
<1>5. create_id(issued.tick, issued.step, issued.node) < create_id(t, s, g)
  <2>1. issued.tick \in Nat /\ issued.step \in 0 .. STEP_MAX
        /\ issued.node \in 0 .. NODE_MAX
    BY DEF IInv, TypeOK
  <2> QED BY <2>1, CreateIdMonotone, SMTT(30)
<1>6. issued'.id > issued.id
  <2>1. issued'.id = create_id(t, s, g)
    BY DEF Return
  <2>2. issued.id \in Nat
    BY DEF IInv, TypeOK
  <2> QED BY <1>1, <1>5, <2>1, <2>2 DEF IInv
<1> QED BY <1>2, <1>3, <1>4, <1>6 DEF IInv

(* Every step keeps the invariant and issues only larger ids.              *)
LEMMA StepIncreases ==
  ASSUME IInv, [Next]_vars
  PROVE  IInv' /\ (issued' # issued => issued'.id > issued.id)
<1> USE FieldsAssumption, WaitAssumption
<1>0. IInv /\ UNCHANGED <<issued, last_tick, sequence>> /\ TypeOK' /\ clock <= clock'
        => IInv' /\ (issued' # issued => issued'.id > issued.id)
  BY DEF IInv, TypeOK, Recent, create_id, STEPS, NODES
<1>1. CASE UNCHANGED vars
  BY <1>0, <1>1 DEF vars, call, IInv, TypeOK
<1>2. CASE Tick
  BY <1>0, <1>2 DEF Tick, call, IInv, TypeOK
<1>3. CASE generate_timestamp_overflow
  BY <1>0, <1>3 DEF generate_timestamp_overflow, Panic, call, IInv, TypeOK, Errors
<1>4. ASSUME NEW g \in Gateways, generate_new_tick(g)
      PROVE  IInv' /\ (issued' # issued => issued'.id > issued.id)
  <2>1. clock \in 0 .. TIMESTAMP_MAX /\ issued.tick < clock /\ Return(clock, 0, g)
    BY <1>4 DEF generate_new_tick, IInv, TypeOK, Recent
  <2>2. g \in 0 .. NODE_MAX /\ 0 \in 0 .. STEP_MAX
    BY DEF Gateways
  <2> QED BY <2>1, <2>2, ReturnStep
<1>5. ASSUME NEW g \in Gateways, generate_same_tick(g)
      PROVE  IInv' /\ (issued' # issued => issued'.id > issued.id)
  <2>1. clock \in 0 .. TIMESTAMP_MAX /\ Return(clock, sequence + 1, g)
    BY <1>5 DEF generate_same_tick, IInv, TypeOK
  <2>2. issued.tick = clock /\ issued.step < sequence + 1
    BY <1>5 DEF generate_same_tick, IInv, TypeOK, Recent
  <2>3. g \in 0 .. NODE_MAX /\ sequence + 1 \in 0 .. STEP_MAX
    BY <1>5 DEF Gateways, generate_same_tick, IInv, TypeOK
  <2> QED BY <2>1, <2>2, <2>3, ReturnStep
<1>6. ASSUME NEW g \in Gateways, generate_exhausted(g)
      PROVE  IInv' /\ (issued' # issued => issued'.id > issued.id)
  <2>1. TypeOK'
    BY <1>6 DEF generate_exhausted, IInv, TypeOK, Gateways
  <2>2. Recent'
    BY <1>6 DEF generate_exhausted, IInv, TypeOK, Recent
  <2>3. issued' = issued /\ last_tick' = last_tick /\ clock' = clock
    BY <1>6 DEF generate_exhausted
  <2> QED BY <2>1, <2>2, <2>3 DEF IInv, create_id, STEPS, NODES
<1>7. CASE spin_poll
  BY <1>0, <1>7 DEF spin_poll, IInv, TypeOK
<1>8. CASE spin_next_tick
  <2>1. clock \in 0 .. TIMESTAMP_MAX /\ issued.tick < clock
        /\ Return(clock, 0, gateway)
    BY <1>8 DEF spin_next_tick, IInv, TypeOK, Recent
  <2>2. gateway \in 0 .. NODE_MAX /\ 0 \in 0 .. STEP_MAX
    BY DEF IInv, TypeOK
  <2> QED BY <2>1, <2>2, ReturnStep
<1>9. CASE spin_timestamp_overflow
  BY <1>0, <1>9 DEF spin_timestamp_overflow, Panic, call, IInv, TypeOK, Errors
<1>10. CASE spin_deadline
  BY <1>0, <1>10 DEF spin_deadline, Panic, call, IInv, TypeOK, Errors
<1>11. CASE spin_yield
  BY <1>0, <1>11 DEF spin_yield, IInv, TypeOK
<1>12. CASE Restart
  <2>1. TypeOK'
    BY <1>12 DEF Restart, call, IInv, TypeOK, Errors
  <2>2. (last_tick <= clock)' /\ Recent' /\ issued' = issued
    BY <1>12 DEF Restart, IInv, TypeOK, Recent
  <2> QED BY <2>1, <2>2 DEF IInv, create_id, STEPS, NODES
<1> QED BY <1>1, <1>2, <1>3, <1>4, <1>5, <1>6, <1>7, <1>8, <1>9, <1>10, <1>11,
           <1>12 DEF Next, generate, wait_next_tick

LEMMA InitInv == Init => IInv
<1> SUFFICES ASSUME Init PROVE IInv
  OBVIOUS
<1> USE FieldsAssumption, WaitAssumption
<1>1. TypeOK /\ last_tick <= clock /\ Recent
  BY DEF Init, TypeOK, Recent, Errors
<1>2. create_id(0, 0, 0) = 0
  <2>1. STEPS \in Nat /\ NODES \in Nat
    BY DEF STEPS, NODES
  <2>2. (0 * STEPS + 0) = 0
    BY <2>1
  <2>3. 0 * NODES + 0 = 0
    BY <2>1
  <2> QED BY <2>2, <2>3 DEF create_id
<1> QED BY <1>1, <1>2 DEF Init, IInv

-----------------------------------------------------------------------------
(* The strengthened invariant holds throughout.                            *)
THEOREM GeneratorInductive == Safety => []IInv
<1>1. IInv /\ [Next]_vars => IInv'
  BY StepIncreases
<1> QED BY <1>1, InitInv, PTL DEF Safety

(* The generator's state and the fields it issues stay within their        *)
(* widths.                                                                 *)
THEOREM GeneratorTypes == Safety => []TypeOK
<1>1. IInv => TypeOK
  BY DEF IInv
<1> QED BY <1>1, GeneratorInductive, PTL

(* Ids issued by the journaling thread increase, across restarts too: what *)
(* remove_order's binary search in a level rests on.                       *)
THEOREM IdsAlwaysIncrease == Safety => IdsIncrease
<1>1. IInv /\ [Next]_vars => [issued' # issued => issued'.id > issued.id]_vars
  BY StepIncreases
<1> QED BY <1>1, GeneratorInductive, PTL DEF Safety, IdsIncrease

(* Every id names the tick, step and gateway it was made of.               *)
THEOREM IdsReadBack == Safety => []IdRoundTrip
<1>1. IInv => IdRoundTrip
  <2> SUFFICES ASSUME IInv PROVE IdRoundTrip
    OBVIOUS
  <2>1. issued.tick \in Nat /\ issued.step \in 0 .. STEP_MAX
        /\ issued.node \in 0 .. NODE_MAX
        /\ issued.id = create_id(issued.tick, issued.step, issued.node)
    BY FieldsAssumption DEF IInv, TypeOK
  <2> QED BY <2>1, ParseCreate DEF IdRoundTrip
<1> QED BY <1>1, GeneratorInductive, PTL
=============================================================================
