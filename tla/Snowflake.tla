----------------------------- MODULE Snowflake -----------------------------
(***************************************************************************)
(* The order-id generator (common/src/snowflake.rs) as the journaling      *)
(* thread drives it (processors/src/journaling.rs): ids are a time tick, a *)
(* sequence number within the tick and the gateway, from high bits to low. *)
(* The book relies on the ids increasing: it finds an order in its level   *)
(* by binary search.                                                       *)
(*                                                                         *)
(* Time passes between any two reads of it.  A failing generate() panics   *)
(* the journaling thread (unwrap); the process may crash and start again   *)
(* at any point.                                                           *)
(***************************************************************************)
EXTENDS Integers

CONSTANTS
  NODE_MAX, STEP_MAX, TIMESTAMP_MAX,  \* largest value of each field
  SPINS,     \* polls of the clock between two looks at the deadline (64)
  DEADLINE,  \* how many ticks to wait for the next tick (100 us)
  MaxClock   \* bound: ticks of wall-clock time in one behaviour

ASSUME FieldsAssumption ==
  NODE_MAX \in Nat /\ STEP_MAX \in Nat /\ TIMESTAMP_MAX \in Nat
ASSUME WaitAssumption ==
  SPINS \in Nat \ {0} /\ DEADLINE \in Nat /\ MaxClock \in Nat \ {0}

VARIABLES
  clock,      \* the time, in ticks since the epoch
  last_tick,
  sequence,
  pc,         \* "idle", "spin": in wait_next_tick, "panicked"
  gateway,    \* argument of the generate() that spins
  deadline,   \* of that call
  polls,      \* clock polls left before it looks at the deadline
  error,      \* what the thread panicked with
  issued      \* history: [id, tick, step, node] of the last id returned

vars == <<clock, last_tick, sequence, pc, gateway, deadline, polls, error,
          issued>>
call == <<gateway, deadline, polls>>

(* The gateway manager admits gateways 0 .. MAX_GATEWAYS - 1, which is     *)
(* NODE_MAX: generate() never sees one that is out of range.               *)
Gateways == 0 .. NODE_MAX

NODES == NODE_MAX + 1
STEPS == STEP_MAX + 1

(* Mutant: the sequence takes the low bits and the gateway the middle.     *)
create_id_swapped(t, s, g) == (t * STEPS + g) * NODES + s

(* The fields never overlap (issued ids keep to their widths), so shifting *)
(* and or-ing them together is this sum.                                   *)
create_id(t, s, g) == (t * STEPS + s) * NODES + g

parse_id(id) == [tick |-> (id \div NODES) \div STEPS,
                 step |-> (id \div NODES) % STEPS,
                 node |-> id % NODES]

gateway_from_id(id) == id % NODES

-----------------------------------------------------------------------------
(* The first process starts some time after the epoch.                     *)
Init ==
  /\ clock = 1
  /\ last_tick = 0 /\ sequence = 0
  /\ pc = "idle"
  /\ gateway = 0 /\ deadline = 0 /\ polls = 0
  /\ error = "none"
  /\ issued = [id |-> 0, tick |-> 0, step |-> 0, node |-> 0]

(* External: time goes by.                                                 *)
Tick ==
  /\ clock < MaxClock
  /\ clock' = clock + 1
  /\ UNCHANGED <<last_tick, sequence, pc, call, error, issued>>

(* generate() returns Ok(create_id(t, s, g)).                              *)
Return(t, s, g) ==
  /\ pc' = "idle"
  /\ last_tick' = t
  /\ sequence' = s
  /\ issued' = [id |-> create_id(t, s, g), tick |-> t, step |-> s, node |-> g]
  /\ UNCHANGED <<clock, call, error>>

(* generate() returns Err(e), which journal_command unwraps.               *)
Panic(e) ==
  /\ pc' = "panicked"
  /\ error' = e
  /\ UNCHANGED <<clock, last_tick, call, issued>>

generate_timestamp_overflow ==
  /\ pc = "idle"
  /\ clock > TIMESTAMP_MAX
  /\ Panic("TimestampOverflow") /\ UNCHANGED sequence

(* The clock is in a later tick than the last id.                          *)
generate_new_tick(g) ==
  /\ pc = "idle"
  /\ clock <= TIMESTAMP_MAX
  /\ clock # last_tick
  /\ Return(clock, 0, g)

(* Mutant: one step too many is taken for still in range.                  *)
generate_same_tick_late(g) ==
  /\ pc = "idle"
  /\ clock <= TIMESTAMP_MAX
  /\ clock = last_tick
  /\ sequence <= STEP_MAX
  /\ Return(clock, sequence + 1, g)

(* Same tick, and the sequence still fits.                                 *)
generate_same_tick(g) ==
  /\ pc = "idle"
  /\ clock <= TIMESTAMP_MAX
  /\ clock = last_tick
  /\ sequence < STEP_MAX
  /\ Return(clock, sequence + 1, g)

(* Same tick, and the sequence is used up: wait_next_tick(last_tick).      *)
generate_exhausted(g) ==
  /\ pc = "idle"
  /\ clock <= TIMESTAMP_MAX
  /\ clock = last_tick
  /\ sequence >= STEP_MAX
  /\ sequence' = sequence + 1
  /\ pc' = "spin"
  /\ gateway' = g
  /\ deadline' = clock + DEADLINE
  /\ polls' = SPINS
  /\ UNCHANGED <<clock, last_tick, error, issued>>

-----------------------------------------------------------------------------
(* wait_next_tick: one poll of the clock ...                               *)
spin_poll ==
  /\ pc = "spin"
  /\ polls > 0
  /\ clock <= TIMESTAMP_MAX
  /\ clock <= last_tick
  /\ polls' = polls - 1
  /\ UNCHANGED <<clock, last_tick, sequence, pc, gateway, deadline, error,
                 issued>>

(* Mutant: the tick the wait began in counts as the next one.              *)
spin_next_tick_early ==
  /\ pc = "spin"
  /\ polls > 0
  /\ clock <= TIMESTAMP_MAX
  /\ clock >= last_tick
  /\ Return(clock, 0, gateway)

spin_next_tick ==
  /\ pc = "spin"
  /\ polls > 0
  /\ clock <= TIMESTAMP_MAX
  /\ clock > last_tick
  /\ Return(clock, 0, gateway)

spin_timestamp_overflow ==
  /\ pc = "spin"
  /\ polls > 0
  /\ clock > TIMESTAMP_MAX
  /\ Panic("TimestampOverflow") /\ UNCHANGED sequence

(* ... and, after a round of polls, a look at the deadline.  It is kept in *)
(* nanoseconds: within its tick it may or may not have passed.             *)
spin_deadline ==
  /\ pc = "spin"
  /\ polls = 0
  /\ clock >= deadline
  /\ Panic("SequenceOverflow") /\ UNCHANGED sequence

(* Mutant: a round sets a new deadline instead of polling anew.            *)
spin_yield_stuck ==
  /\ pc = "spin"
  /\ polls = 0
  /\ clock <= deadline
  /\ deadline' = clock + DEADLINE
  /\ UNCHANGED <<clock, last_tick, sequence, pc, gateway, polls, error, issued>>

spin_yield ==
  /\ pc = "spin"
  /\ polls = 0
  /\ clock <= deadline
  /\ polls' = SPINS
  /\ UNCHANGED <<clock, last_tick, sequence, pc, gateway, deadline, error,
                 issued>>

-----------------------------------------------------------------------------
(* The process crashes, or its panic ends it, and Snowflake::new starts    *)
(* over.  External: the wall clock of the new process is ahead of the old  *)
(* one's; it is read once and must fit the timestamp.                      *)
Restart ==
  /\ clock < MaxClock
  /\ \E t \in clock + 1 .. MaxClock :
       /\ clock' = t
       /\ pc' = IF t > TIMESTAMP_MAX THEN "panicked" ELSE "idle"
       /\ error' = IF t > TIMESTAMP_MAX THEN "EpochTooOld" ELSE "none"
  /\ last_tick' = 0 /\ sequence' = 0
  /\ UNCHANGED <<call, issued>>

generate ==
  \/ generate_timestamp_overflow
  \/ \E g \in Gateways :
       \/ generate_new_tick(g)
       \/ generate_same_tick(g)
       \/ generate_exhausted(g)

wait_next_tick ==
  \/ spin_poll
  \/ spin_next_tick
  \/ spin_timestamp_overflow
  \/ spin_deadline
  \/ spin_yield

Next == Tick \/ Restart \/ generate \/ wait_next_tick

Safety == Init /\ [][Next]_vars

(* Time goes on and a thread that spins gets the processor.  Nothing makes *)
(* commands arrive, or the process restart.                                *)
Spec == Safety /\ WF_vars(Tick) /\ WF_vars(wait_next_tick)

-----------------------------------------------------------------------------
Errors == {"none", "TimestampOverflow", "SequenceOverflow", "EpochTooOld"}

(* Issued fields keep to their widths.  The sequence passes STEP_MAX only  *)
(* while a call spins, or for good once the thread has panicked.           *)
TypeOK ==
  /\ clock \in 0 .. MaxClock
  /\ last_tick \in 0 .. TIMESTAMP_MAX
  /\ sequence \in 0 .. STEP_MAX + 1
  /\ sequence > STEP_MAX => pc # "idle"
  /\ pc \in {"idle", "spin", "panicked"}
  /\ gateway \in 0 .. NODE_MAX
  /\ deadline \in 0 .. MaxClock + DEADLINE
  /\ polls \in 0 .. SPINS
  /\ error \in Errors
  /\ issued \in [id: Nat, tick: 0 .. TIMESTAMP_MAX, step: 0 .. STEP_MAX,
                 node: 0 .. NODE_MAX]

(* Every id is larger than the one before, whatever gateways they are for, *)
(* across ticks, exhausted sequences, panics and restarts.                 *)
IdsIncrease == [][issued' # issued => issued'.id > issued.id]_vars

(* The fields read back from an id are the ones it was made of: they never *)
(* overlap, whatever tick, step and gateway the id is for.                 *)
IdRoundTrip ==
  /\ parse_id(issued.id) = [tick |-> issued.tick, step |-> issued.step,
                            node |-> issued.node]
  /\ gateway_from_id(issued.id) = issued.node

(* A call that waits for the next tick comes back.                         *)
WaitEnds == pc = "spin" ~> pc # "spin"
=============================================================================
