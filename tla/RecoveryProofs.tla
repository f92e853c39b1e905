--------------------------- MODULE RecoveryProofs ---------------------------
(***************************************************************************)
(* TLAPS proofs about Recovery: what the archive holds after any number of *)
(* starts, replays, crashes and failures, for any sizes of the ring, of    *)
(* the terms of the log and of the pipeline.                               *)
(*                                                                         *)
(* The ring's barriers are taken from PipelineProofs through INSTANCE.     *)
(***************************************************************************)
EXTENDS Recovery, Sums

PP == INSTANCE PipelineProofs

Pos       == Nat \ {0}
Recording == [log : Seq(Pos), stop_position : Nat, open : BOOLEAN]
Response  == [command : Pos, live : BOOLEAN, boot : Nat, recording : Nat]

(* The server has not yet polled a gateway.                                *)
Booting == {"starting", "replaying", "recording", "waiting", "ready"}

Log(r) == archive[r].log

(* Command c is in recording r, among its first n frames.                  *)
Within(r, n, c) == \E f \in 1 .. n : Log(r)[f] = c
Recorded(r, c)  == Within(r, Len(Log(r)), c)

-----------------------------------------------------------------------------
(* The parts of the inductive invariant.                                   *)

Typed ==
  /\ published \in Nat /\ ring \in Seq(Pos \X BOOLEAN)
  /\ Len(ring) = published
  /\ archive \in Seq(Recording) /\ answered \in Seq(Response)
  /\ target \in 0 .. Len(archive) /\ attached \in 0 .. Len(archive)
  /\ frames \in Nat /\ next_command \in Pos
  /\ next_command <= MaxCommands + 1
  /\ boots \in 0 .. MaxBoots /\ phase \in Phases
  /\ shutdown \in BOOLEAN /\ replay_enabled \in BOOLEAN
  /\ owned \in BOOLEAN /\ undrained \in BOOLEAN

(* What the server thread has done by the phase it is in.                  *)
Control ==
  /\ phase = "down" => published = 0 /\ target = 0
  /\ phase = "starting" => target = 0 /\ frames = 0
  /\ phase = "replaying" => target # 0
  /\ phase \in {"starting", "replaying", "recording", "waiting"} => attached = 0
  /\ phase \in Booting /\ target = 0 => published = 0
  /\ phase \in Booting /\ ~replay_enabled => target = 0
  /\ replay_enabled => phase \in Booting
  /\ target # 0 /\ attached # 0 => attached = target
  /\ phase \in Booting => \A i \in 1 .. published : ~ring[i][2]

(* A command that is not a repetition is newer than all before it.         *)
InOrder(s) ==
  \A f \in 1 .. Len(s) :
    \/ \A g \in 1 .. f - 1 : s[g] < s[f]
    \/ \E g \in 1 .. f - 1 : s[g] = s[f]

(* A recording holds whole frames, of commands already sent and in the     *)
(* order they came.                                                        *)
LogSound ==
  \A r \in 1 .. Len(archive) :
    /\ Len(Log(r)) * FRAMESIZE <= archive[r].stop_position
    /\ \A f \in 1 .. Len(Log(r)) : Log(r)[f] < next_command
    /\ InOrder(Log(r))

(* The ring holds replayed commands, then live ones.                       *)
RingSound ==
  \A j \in 1 .. published :
    /\ ring[j][1] < next_command
    /\ \A i \in 1 .. j - 1 : ring[i][2] => ring[j][2]
    /\ ring[j][2] => \A i \in 1 .. j - 1 : ring[i][1] < ring[j][1]
    /\ \/ ring[j][1] \in missed
       \/ \A i \in 1 .. j - 1 : ring[i][1] < ring[j][1]
       \/ \E i \in 1 .. j - 1 : ring[i][1] = ring[j][1]

(* The replayed commands are those of the frames polled, but for the ones  *)
(* a full ring refused.                                                    *)
ReplaySound ==
  /\ target # 0 => frames <= Len(Log(target))
  /\ \A i \in 1 .. published :
       ~ring[i][2] => target # 0 /\ Within(target, frames, ring[i][1])
  /\ target # 0 =>
       \A f \in 1 .. frames :
         \/ Log(target)[f] \in missed
         \/ \E i \in 1 .. published :
              ring[i][1] = Log(target)[f] /\ ~ring[i][2]

(* What the journaling handler has finished with is recorded, what it has  *)
(* still to record is newer than anything recorded.                        *)
JournalSound ==
  /\ attached # 0 =>
       \A i \in 1 .. cursor[Pipe!Journaling] :
         ring[i][1] \in unarchived \/ Recorded(attached, ring[i][1])
  /\ \A i \in cursor[Pipe!Journaling] + 1 .. published :
       ring[i][2] => \A r \in 1 .. Len(archive) :
                       \A f \in 1 .. Len(Log(r)) : Log(r)[f] < ring[i][1]

(* No duplicates, and none to come, while every replay was drained.        *)
OnceSound ==
  ~undrained =>
    /\ ~replay_enabled =>
         \A i \in cursor[Pipe!Journaling] + 1 .. published : ring[i][2]
    /\ RecordedOnceIfDrained

(* A response is sent for what is recorded, live commands in their order.  *)
AnswersSound ==
  \A k \in 1 .. Len(answered) :
    /\ answered[k].command < next_command
    /\ answered[k].recording <= Len(archive)
    /\ answered[k].recording # 0 =>
         \/ answered[k].command \in unarchived
         \/ Recorded(answered[k].recording, answered[k].command)
    /\ answered[k].live =>
         /\ \A l \in 1 .. k - 1 :
              answered[l].live => answered[l].command < answered[k].command
         /\ \A i \in cursor[Pipe!Events] + 1 .. published :
              ring[i][2] => answered[k].command < ring[i][1]

(* A replay that ran to its end has polled what earlier servers answered.  *)
ReplayComplete ==
  target # 0 /\ phase \in {"recording", "ready", "serving"} /\ ~shutdown =>
    \A k \in 1 .. Len(answered) :
      answered[k].recording = target /\ answered[k].boot < boots =>
        \/ answered[k].command \in unarchived
        \/ Within(target, frames, answered[k].command)

RInv ==
  /\ PP!PInv /\ Typed /\ Control /\ LogSound /\ RingSound /\ ReplaySound
  /\ JournalSound /\ OnceSound /\ AnswersSound /\ ReplayComplete

-----------------------------------------------------------------------------
(* The ring.                                                               *)

(* The pipeline Recovery runs is the one PipelineProofs is about.          *)
LEMMA SamePipeline ==
  /\ PP!Handlers = Pipe!Handlers /\ PP!Journaling = Pipe!Journaling
  /\ PP!Events = Pipe!Events
  /\ PP!publish = Pipe!publish /\ PP!drop = Pipe!drop
  /\ \A h : PP!handle(h) = Pipe!handle(h)
  /\ PP!Init = Pipe!Init
  BY DEF PP!Handlers, PP!Journaling, PP!Events, PP!R1, PP!R2, PP!Matching,
         Pipe!Handlers, Pipe!Journaling, Pipe!Events, Pipe!R1, Pipe!R2,
         Pipe!Matching, PP!publish, Pipe!publish, PP!drop, Pipe!drop,
         PP!has_slot, Pipe!has_slot, PP!handle, Pipe!handle, PP!available,
         Pipe!available, PP!Stage, Pipe!Stage, PP!Init, Pipe!Init

(* The cursors are ordered as the barriers order the handlers.             *)
LEMMA Cursors ==
  ASSUME PP!PInv
  PROVE  /\ Pipe!Journaling \in Pipe!Handlers /\ Pipe!Events \in Pipe!Handlers
         /\ \A h \in Pipe!Handlers : cursor[h] \in Nat /\ cursor[h] <= published
         /\ cursor[Pipe!Events] <= cursor[Pipe!Journaling]
         /\ \A m \in Routers : Pipe!Matching(m) \in Pipe!Handlers
         /\ published \in Nat
<1>1. /\ Pipe!Journaling \in Pipe!Handlers /\ Pipe!Events \in Pipe!Handlers
      /\ \A m \in Routers : Pipe!Matching(m) \in Pipe!Handlers
  BY DEF Pipe!Handlers
<1>2. /\ \A h \in Pipe!Handlers : cursor[h] \in Nat
      /\ published \in Nat
  BY RingAssumption, SamePipeline DEF PP!PInv, PP!TypeOK
<1>3. \A h \in Pipe!Handlers : cursor[h] <= published
  BY SamePipeline DEF PP!PInv, PP!BarrierOrder
<1>4. PP!Stage(Pipe!Journaling) < PP!Stage(Pipe!Events)
  BY DEF PP!Stage, Pipe!Journaling, Pipe!Events
<1>5. cursor[Pipe!Events] <= cursor[Pipe!Journaling]
  BY <1>1, <1>4, SamePipeline DEF PP!PInv, PP!BarrierOrder
<1> QED
  BY <1>1, <1>2, <1>3, <1>5

(* The events handler comes to a command after journaling is done with it. *)
LEMMA EventsAfterJournaling ==
  ASSUME PP!PInv, Pipe!handle(Pipe!Events)
  PROVE  cursor[Pipe!Events] < cursor[Pipe!Journaling]
<1>1. PP!handle(PP!Events)
  BY SamePipeline
<1>2. PP!available(PP!Events)
  BY <1>1 DEF PP!handle
<1>3. PP!Stage(PP!Journaling) < PP!Stage(PP!Events)
  BY DEF PP!Stage, PP!Journaling, PP!Events
<1>4. PP!Journaling \in PP!Handlers /\ PP!Events \in PP!Handlers
  BY DEF PP!Handlers
<1>5. cursor[PP!Events] < cursor[PP!Journaling]
  BY <1>2, <1>3, <1>4, PP!AvailableMeansDone, RingAssumption
<1> QED
  BY <1>5, SamePipeline

(* Every step on the ring is a step of the pipeline.                       *)
LEMMA PipeStep ==
  ASSUME PP!PInv,
         \/ Pipe!publish \/ Pipe!drop
         \/ \E h \in Pipe!Handlers : Pipe!handle(h)
         \/ UNCHANGED pipeVars
  PROVE  PP!PInv'
<1>1. [PP!Next]_(PP!pipeVars)
  BY SamePipeline DEF PP!Next, PP!pipeVars, pipeVars
<1> QED
  BY <1>1, PP!PNext, RingAssumption

(* A new process has an empty pipeline.                                    *)
LEMMA PipeReset ==
  ASSUME EmptyRing PROVE PP!PInv'
<1>1. published' = 0 /\ cursor' = [h \in PP!Handlers |-> 0] /\ dropped' = FALSE
  BY SamePipeline DEF EmptyRing
<1>2. PP!Events \in PP!Handlers /\ 0 \in 0 .. MaxSeq /\ BUFFER_SIZE \in Nat
  BY RingAssumption DEF PP!Handlers
<1>3. cursor' \in [PP!Handlers -> 0 .. MaxSeq]
  BY <1>1, <1>2
<1>4. PP!TypeOK'
  BY <1>1, <1>2, <1>3 DEF PP!TypeOK
<1>5. \A h \in PP!Handlers : cursor'[h] = 0
  BY <1>1
<1>6. PP!BarrierOrder'
  BY <1>1, <1>2, <1>5 DEF PP!BarrierOrder
<1> QED
  BY <1>4, <1>6 DEF PP!PInv

(* What a handler's step does to the cursors.                              *)
LEMMA HandleFacts ==
  ASSUME PP!PInv, NEW h \in Pipe!Handlers, Pipe!handle(h)
  PROVE  /\ cursor'[h] = cursor[h] + 1 /\ cursor[h] < published
         /\ \A g \in Pipe!Handlers : g # h => cursor'[g] = cursor[g]
         /\ published' = published
<1>1. cursor \in [Pipe!Handlers -> 0 .. MaxSeq]
  BY SamePipeline DEF PP!PInv, PP!TypeOK
<1> QED
  BY <1>1 DEF Pipe!handle, Pipe!available

-----------------------------------------------------------------------------
(* Steps that leave some of the state alone.                               *)

(* Recordings only grow, and none is lost.                                 *)
LogsGrow ==
  /\ Len(archive') \in Nat /\ Len(archive) <= Len(archive')
  /\ \A r \in 1 .. Len(archive) :
       /\ Len(archive'[r].log) \in Nat
       /\ Len(archive[r].log) <= Len(archive'[r].log)
       /\ \A f \in 1 .. Len(archive[r].log) :
            archive'[r].log[f] = archive[r].log[f]

(* Recordings are at most opened or closed.                                *)
SameLogs ==
  /\ Len(archive') = Len(archive)
  /\ \A r \in 1 .. Len(archive) :
       /\ archive'[r].log = archive[r].log
       /\ archive'[r].stop_position = archive[r].stop_position

(* Lengths and positions are natural numbers.                              *)
LEMMA Lengths ==
  ASSUME Typed
  PROVE  /\ Len(archive) \in Nat /\ Len(answered) \in Nat
         /\ DOMAIN archive = 1 .. Len(archive)
         /\ \A r \in 1 .. Len(archive) :
              /\ archive[r] \in Recording
              /\ archive[r].stop_position \in Nat
              /\ archive[r].log \in Seq(Pos)
              /\ Len(archive[r].log) \in Nat
              /\ \A f \in 1 .. Len(archive[r].log) : archive[r].log[f] \in Pos
         /\ \A i \in 1 .. published :
              ring[i][1] \in Pos /\ ring[i][2] \in BOOLEAN
         /\ \A k \in 1 .. Len(answered) :
              /\ answered[k].command \in Pos /\ answered[k].live \in BOOLEAN
              /\ answered[k].boot \in Nat /\ answered[k].recording \in Nat
<1>1. /\ archive \in Seq(Recording) /\ answered \in Seq(Response)
      /\ ring \in Seq(Pos \X BOOLEAN) /\ Len(ring) = published
  BY DEF Typed
<1>2. \A r \in 1 .. Len(archive) :
        /\ archive[r] \in Recording
        /\ archive[r].stop_position \in Nat
        /\ archive[r].log \in Seq(Pos)
  <2> SUFFICES ASSUME NEW r \in 1 .. Len(archive)
               PROVE  /\ archive[r] \in Recording
                      /\ archive[r].stop_position \in Nat
                      /\ archive[r].log \in Seq(Pos)
    OBVIOUS
  <2>1. archive[r] \in Recording
    BY <1>1
  <2> QED
    BY <2>1 DEF Recording
<1>3. \A r \in 1 .. Len(archive) :
        /\ Len(archive[r].log) \in Nat
        /\ \A f \in 1 .. Len(archive[r].log) : archive[r].log[f] \in Pos
  BY <1>2
<1>4. \A i \in 1 .. published : ring[i] \in Pos \X BOOLEAN
  BY <1>1
<1>5. \A k \in 1 .. Len(answered) : answered[k] \in Response
  BY <1>1
<1>6. \A k \in 1 .. Len(answered) :
        /\ answered[k].command \in Pos /\ answered[k].live \in BOOLEAN
        /\ answered[k].boot \in Nat /\ answered[k].recording \in Nat
  BY <1>5 DEF Response
<1> QED
  BY <1>1, <1>2, <1>3, <1>4, <1>6

LEMMA SameGrow ==
  ASSUME Typed, SameLogs PROVE LogsGrow
  BY Lengths DEF SameLogs, LogsGrow

(* What is recorded stays recorded, in the same frame.                     *)
LEMMA StaysWithin ==
  ASSUME Typed, LogsGrow
  PROVE  /\ \A r \in 1 .. Len(archive) : \A n \in Nat : \A c :
              n <= Len(archive[r].log) /\ Within(r, n, c) =>
                \E f \in 1 .. n : archive'[r].log[f] = c
         /\ \A r \in 1 .. Len(archive) : \A c :
              Recorded(r, c) =>
                \E f \in 1 .. Len(archive'[r].log) : archive'[r].log[f] = c
<1> SUFFICES ASSUME NEW r \in 1 .. Len(archive), NEW c
             PROVE  /\ \A n \in Nat :
                         n <= Len(archive[r].log) /\ Within(r, n, c) =>
                           \E f \in 1 .. n : archive'[r].log[f] = c
                    /\ Recorded(r, c) =>
                         \E f \in 1 .. Len(archive'[r].log) :
                           archive'[r].log[f] = c
  OBVIOUS
<1>1. /\ Len(archive[r].log) \in Nat /\ Len(archive'[r].log) \in Nat
      /\ Len(archive[r].log) <= Len(archive'[r].log)
      /\ \A f \in 1 .. Len(archive[r].log) :
           archive'[r].log[f] = archive[r].log[f]
  BY Lengths DEF LogsGrow
<1>2. ASSUME NEW n \in Nat, n <= Len(archive[r].log), Within(r, n, c)
      PROVE  \E f \in 1 .. n : archive'[r].log[f] = c
  BY <1>1, <1>2 DEF Within, Log
<1>3. ASSUME Recorded(r, c)
      PROVE  \E f \in 1 .. Len(archive'[r].log) : archive'[r].log[f] = c
  <2>1. PICK f \in 1 .. Len(archive[r].log) : archive[r].log[f] = c
    BY <1>3 DEF Recorded, Within, Log
  <2>2. f \in 1 .. Len(archive'[r].log)
    BY <1>1, <2>1
  <2> QED
    BY <1>1, <2>1, <2>2
<1> QED
  BY <1>2, <1>3

LEMMA LogKept ==
  ASSUME Typed, LogSound, SameLogs, next_command' \in Nat,
         next_command <= next_command'
  PROVE  LogSound'
<1>1. \A r \in 1 .. Len(archive) : \A f \in 1 .. Len(archive[r].log) :
        archive[r].log[f] < next_command'
  BY Lengths DEF LogSound, Log, Typed, Pos
<1> QED
  BY <1>1 DEF LogSound, Log, SameLogs

LEMMA RingKept ==
  ASSUME RingSound, UNCHANGED <<published, ring, next_command, missed>>
  PROVE  RingSound'
  BY DEF RingSound

LEMMA ReplayKept ==
  ASSUME Typed, ReplaySound, LogsGrow,
         UNCHANGED <<published, ring, target, frames, missed>>
  PROVE  ReplaySound'
<1>1. CASE target = 0
  BY <1>1 DEF ReplaySound
<1>2. CASE target # 0
  <2>1. target \in 1 .. Len(archive) /\ frames \in Nat
        /\ frames <= Len(archive[target].log)
    BY <1>2 DEF Typed, ReplaySound, Log
  <2>2. \A f \in 1 .. frames : archive'[target].log[f] = archive[target].log[f]
    BY <2>1, Lengths DEF LogsGrow
  <2>3. frames <= Len(archive'[target].log)
    BY <2>1, Lengths DEF LogsGrow
  <2> QED
    BY <2>2, <2>3, <1>2 DEF ReplaySound, Within, Log
<1> QED
  BY <1>1, <1>2

LEMMA JournalKept ==
  ASSUME Typed, JournalSound, SameLogs,
         cursor'[Pipe!Journaling] = cursor[Pipe!Journaling],
         UNCHANGED <<published, ring, attached>>, unarchived \subseteq unarchived'
  PROVE  JournalSound'
<1>1. CASE attached = 0
  BY <1>1 DEF JournalSound, SameLogs, Log
<1>2. CASE attached # 0
  <2>1. attached \in 1 .. Len(archive)
    BY <1>2 DEF Typed
  <2>2. archive'[attached].log = archive[attached].log
    BY <2>1 DEF SameLogs
  <2>3. \A i \in 1 .. cursor'[Pipe!Journaling] :
          ring'[i][1] \in unarchived'
            \/ \E f \in 1 .. Len(archive'[attached'].log) :
                 archive'[attached'].log[f] = ring'[i][1]
    BY <1>2, <2>2 DEF JournalSound, Recorded, Within, Log
  <2> QED
    BY <2>3 DEF JournalSound, Recorded, Within, Log, SameLogs
<1> QED
  BY <1>1, <1>2

LEMMA OnceLogs ==
  ASSUME Typed, Typed', RecordedOnceIfDrained, Len(archive') = Len(archive),
         \A r \in 1 .. Len(archive) : archive'[r].log = archive[r].log,
         UNCHANGED undrained
  PROVE  RecordedOnceIfDrained'
<1>1. DOMAIN archive = 1 .. Len(archive) /\ DOMAIN archive' = 1 .. Len(archive')
  BY DEF Typed
<1> QED
  BY <1>1 DEF RecordedOnceIfDrained

LEMMA OnceKept ==
  ASSUME Typed, Typed', OnceSound, SameLogs,
         cursor'[Pipe!Journaling] = cursor[Pipe!Journaling],
         UNCHANGED <<published, ring, replay_enabled, undrained>>
  PROVE  OnceSound'
<1>1. CASE undrained
  BY <1>1 DEF OnceSound
<1>2. CASE ~undrained
  <2>1. RecordedOnceIfDrained
    BY <1>2 DEF OnceSound
  <2>2. RecordedOnceIfDrained'
    BY <2>1, OnceLogs DEF SameLogs
  <2> QED
    BY <1>2, <2>2 DEF OnceSound
<1> QED
  BY <1>1, <1>2

LEMMA AnswersKept ==
  ASSUME Typed, AnswersSound, LogsGrow, unarchived \subseteq unarchived',
         next_command' \in Nat, next_command <= next_command',
         cursor'[Pipe!Events] = cursor[Pipe!Events],
         UNCHANGED <<published, ring, answered>>
  PROVE  AnswersSound'
<1> SUFFICES ASSUME NEW k \in 1 .. Len(answered)
             PROVE  /\ answered[k].command < next_command'
                    /\ answered[k].recording <= Len(archive')
                    /\ answered[k].recording # 0 =>
                         \/ answered[k].command \in unarchived'
                         \/ \E f \in 1 .. Len(archive'[answered[k].recording].log) :
                              archive'[answered[k].recording].log[f]
                                = answered[k].command
  BY DEF AnswersSound, Recorded, Within, Log
<1>1. /\ answered[k].command \in Nat /\ answered[k].recording \in Nat
      /\ Len(archive) \in Nat
  BY Lengths DEF Pos
<1>2. answered[k].command < next_command'
  BY <1>1 DEF AnswersSound, Typed, Pos
<1>3. answered[k].recording <= Len(archive')
  BY <1>1 DEF AnswersSound, LogsGrow
<1>4. ASSUME answered[k].recording # 0, answered[k].command \notin unarchived'
      PROVE  \E f \in 1 .. Len(archive'[answered[k].recording].log) :
               archive'[answered[k].recording].log[f] = answered[k].command
  <2>1. answered[k].recording \in 1 .. Len(archive)
    BY <1>1, <1>4 DEF AnswersSound
  <2>2. Recorded(answered[k].recording, answered[k].command)
    BY <1>4 DEF AnswersSound
  <2> QED
    BY <2>1, <2>2, StaysWithin
<1> QED
  BY <1>2, <1>3, <1>4

LEMMA CompleteKept ==
  ASSUME Typed, ReplaySound, ReplayComplete, LogsGrow,
         unarchived \subseteq unarchived',
         phase' \in {"recording", "ready", "serving"} /\ ~shutdown' =>
           phase \in {"recording", "ready", "serving"} /\ ~shutdown,
         UNCHANGED <<target, frames, boots, answered>>
  PROVE  ReplayComplete'
<1> SUFFICES ASSUME target # 0, phase' \in {"recording", "ready", "serving"},
                    ~shutdown', NEW k \in 1 .. Len(answered),
                    answered[k].recording = target, answered[k].boot < boots,
                    answered[k].command \notin unarchived'
             PROVE  \E f \in 1 .. frames :
                      archive'[target].log[f] = answered[k].command
  BY DEF ReplayComplete, Within, Log
<1>1. target \in 1 .. Len(archive) /\ frames \in Nat
      /\ frames <= Len(archive[target].log)
  BY DEF Typed, ReplaySound, Log
<1>2. Within(target, frames, answered[k].command)
  BY DEF ReplayComplete
<1> QED
  BY <1>1, <1>2, StaysWithin

-----------------------------------------------------------------------------
(* The process and the server thread.                                      *)

(* A process that starts or ends leaves the archive as it is.              *)
LEMMA RProcess ==
  ASSUME RInv, EmptyRing, phase' \in {"down", "starting"},
         target' = 0, frames' = 0, attached' = 0, owned' = FALSE,
         shutdown' = FALSE, replay_enabled' \in BOOLEAN,
         replay_enabled' => phase' = "starting", boots' \in 0 .. MaxBoots,
         UNCHANGED <<archive, next_command, answered, unarchived, undrained>>
  PROVE  RInv'
<1>1. PP!PInv'
  BY PipeReset
<1>2. published' = 0 /\ ring' = <<>> /\ missed' = {}
  BY DEF EmptyRing
<1>3. /\ cursor'[Pipe!Journaling] = 0 /\ cursor'[Pipe!Events] = 0
  BY DEF EmptyRing, Pipe!Handlers
<1>4. Typed /\ LogSound /\ OnceSound /\ AnswersSound
  BY DEF RInv
<1>5. Typed'
  <2>1. ring' \in Seq(Pos \X BOOLEAN) /\ Len(ring') = 0
    BY <1>2
  <2>2. phase' \in Phases /\ 0 \in 0 .. Len(archive)
    BY <1>4, Lengths DEF Phases
  <2> QED
    BY <1>2, <1>4, <2>1, <2>2 DEF Typed
<1>6. Control'
  BY <1>2 DEF Control, Booting
<1>7. LogSound' /\ RingSound' /\ ReplaySound' /\ ReplayComplete'
  <2>1. LogSound'
    BY <1>4 DEF LogSound, Log
  <2> QED
    BY <1>2, <2>1 DEF RingSound, ReplaySound, ReplayComplete
<1>8. JournalSound'
  BY <1>2, <1>3 DEF JournalSound
<1>9. OnceSound'
  BY <1>2, <1>3, <1>4 DEF OnceSound, RecordedOnceIfDrained
<1>10. AnswersSound'
  BY <1>2, <1>3, <1>4 DEF AnswersSound, Recorded, Within, Log
<1> QED
  BY <1>1, <1>5, <1>6, <1>7, <1>8, <1>9, <1>10 DEF RInv

LEMMA RStart ==
  ASSUME RInv, NEW replay \in BOOLEAN, start(replay) PROVE RInv'
<1>1. boots + 1 \in 0 .. MaxBoots
  BY CountAssumption DEF RInv, Typed, start
<1> QED
  BY <1>1, RProcess DEF start

LEMMA REnds ==
  ASSUME RInv, process_ends PROVE RInv'
<1>1. boots \in 0 .. MaxBoots
  BY DEF RInv, Typed
<1> QED
  BY <1>1, RProcess DEF process_ends

(* A step of the server thread that leaves the ring, the replay and the    *)
(* recordings' contents alone.                                             *)
Quiet ==
  /\ UNCHANGED <<pipeVars, ring, target, frames, boots, next_command,
                 answered, unarchived, missed>>
  /\ SameLogs

LEMMA RQuiet ==
  ASSUME RInv, Quiet, Typed', Control', JournalSound', OnceSound',
         phase' \in {"recording", "ready", "serving"} /\ ~shutdown' =>
           phase \in {"recording", "ready", "serving"} /\ ~shutdown
  PROVE  RInv'
<1>1. /\ Typed /\ LogSound /\ RingSound /\ ReplaySound /\ AnswersSound
      /\ ReplayComplete /\ PP!PInv
  BY DEF RInv
<1>2. /\ UNCHANGED pipeVars /\ SameLogs
      /\ UNCHANGED <<published, cursor, ring, target, frames, boots,
                     next_command, answered, unarchived, missed>>
  BY DEF Quiet, pipeVars
<1>3. PP!PInv'
  BY <1>1, <1>2, PipeStep
<1>4. LogsGrow
  BY <1>1, <1>2, SameGrow
<1>5. next_command' \in Nat /\ next_command <= next_command'
  BY <1>1, <1>2 DEF Typed, Pos
<1>6. LogSound'
  BY <1>1, <1>2, <1>5, LogKept
<1>7. RingSound'
  BY <1>1, <1>2, RingKept
<1>8. ReplaySound'
  BY <1>1, <1>2, <1>4, ReplayKept
<1>9. AnswersSound'
  BY <1>1, <1>2, <1>4, <1>5, AnswersKept
<1>10. ReplayComplete'
  BY <1>1, <1>2, <1>4, CompleteKept
<1> QED
  BY <1>3, <1>6, <1>7, <1>8, <1>9, <1>10 DEF RInv

(* The same, when the handlers' part is untouched too.                     *)
LEMMA RQuieter ==
  ASSUME RInv, Quiet, Typed', Control',
         UNCHANGED <<attached, replay_enabled, undrained>>,
         phase' \in {"recording", "ready", "serving"} /\ ~shutdown' =>
           phase \in {"recording", "ready", "serving"} /\ ~shutdown
  PROVE  RInv'
<1>1. Typed /\ JournalSound /\ OnceSound
  BY DEF RInv
<1>2. /\ SameLogs
      /\ UNCHANGED <<published, cursor, ring, unarchived>>
  BY DEF Quiet, pipeVars
<1>3. JournalSound'
  BY <1>1, <1>2, JournalKept
<1>4. OnceSound'
  BY <1>1, <1>2, OnceKept
<1> QED
  BY <1>3, <1>4, RQuiet

LEMMA RSignal ==
  ASSUME RInv, shutdown_signal PROVE RInv'
<1>1. Typed /\ Control
  BY DEF RInv
<1>2. Quiet
  BY DEF shutdown_signal, Quiet, SameLogs, historyVars
<1>3. Typed'
  BY <1>1 DEF Typed, shutdown_signal, pipeVars, historyVars
<1>4. Control'
  BY <1>1 DEF Control, shutdown_signal, pipeVars
<1> QED
  BY <1>2, <1>3, <1>4, RQuieter DEF shutdown_signal, historyVars

(* The recording chosen is one of the archive, and nothing of it has been  *)
(* polled.                                                                 *)
LEMMA RStartReplay ==
  ASSUME RInv, start_replay PROVE RInv'
<1>1. /\ PP!PInv /\ Typed /\ Control /\ LogSound /\ RingSound /\ ReplaySound
      /\ JournalSound /\ OnceSound /\ AnswersSound
  BY DEF RInv
<1>2. /\ phase = "starting" /\ frames = 0 /\ target = 0 /\ attached = 0
      /\ published = 0
  BY <1>1 DEF start_replay, Control, Booting
<1>3. /\ UNCHANGED pipeVars
      /\ UNCHANGED <<published, cursor, ring, shutdown, replay_enabled, frames,
                     attached, owned, boots, archive, next_command, answered,
                     unarchived, missed, undrained>>
  BY DEF start_replay, pipeVars, historyVars
<1>4. /\ target' \in 0 .. Len(archive)
      /\ ~replay_enabled => target' = 0
      /\ phase' = IF target' = 0 THEN "recording" ELSE "replaying"
  <2>1. phase' = IF target' = 0 THEN "recording" ELSE "replaying"
    BY DEF start_replay
  <2>2. CASE replay_enabled /\ Replayable # {}
    <3> DEFINE best == CHOOSE r \in Replayable : \A q \in Replayable : q <= r
    <3>1. Replayable \subseteq 1 .. Len(archive)
      BY <1>1, Lengths DEF Replayable
    <3>2. \E r \in Replayable : \A q \in Replayable : q <= r
      <4>1. Len(archive) \in Nat
        BY <1>1, Lengths
      <4>2. IsFiniteSet(1 .. Len(archive))
        BY <4>1, FS_Interval
      <4>3. IsFiniteSet(Replayable)
        BY <3>1, <4>2, FS_Subset
      <4>4. \A r \in Replayable : r \in Nat
        BY <3>1
      <4> QED
        BY <2>2, <4>3, <4>4, Extremes
    <3>3. best \in Replayable
      BY <3>2
    <3>4. target' = best
      BY <2>2 DEF start_replay
    <3>5. Len(archive) \in Nat
      BY <1>1, Lengths
    <3> HIDE DEF best
    <3>6. best \in 1 .. Len(archive)
      BY <3>1, <3>3
    <3>7. target' \in 0 .. Len(archive)
      BY <3>4, <3>5, <3>6
    <3> QED
      BY <2>1, <2>2, <3>7
  <2>3. CASE ~(replay_enabled /\ Replayable # {})
    <3>1. target' = 0
      BY <2>3 DEF start_replay
    <3> QED
      BY <1>1, <2>1, <3>1, Lengths
  <2> QED
    BY <2>2, <2>3
<1>5. PP!PInv'
  BY <1>1, <1>3, PipeStep
<1>6. Typed'
  <2>1. phase' \in Phases
    BY <1>4 DEF Phases
  <2> QED
    BY <1>1, <1>3, <1>4, <2>1 DEF Typed
<1>7. Control'
  BY <1>1, <1>2, <1>3, <1>4 DEF Control, Booting
<1>8. LogSound' /\ RingSound' /\ JournalSound' /\ ReplayComplete'
  <2>1. LogSound' /\ RingSound'
    BY <1>1, <1>3 DEF LogSound, RingSound, Log
  <2>2. JournalSound'
    BY <1>1, <1>2, <1>3 DEF JournalSound, Log
  <2>3. ReplayComplete'
    BY <1>4 DEF ReplayComplete
  <2> QED
    BY <2>1, <2>2, <2>3
<1>9. ReplaySound'
  <2>1. target' # 0 => 0 <= Len(archive'[target'].log)
    BY <1>1, <1>3, <1>4, Lengths
  <2> QED
    BY <1>2, <1>3, <2>1 DEF ReplaySound, Log
<1>10. OnceSound' /\ AnswersSound'
  BY <1>1, <1>3 DEF OnceSound, RecordedOnceIfDrained, AnswersSound, Recorded,
                    Within, Log
<1> QED
  BY <1>5, <1>6, <1>7, <1>8, <1>9, <1>10 DEF RInv

(* A replay that was not cut short has polled the whole recording.         *)
LEMMA WholeFrames ==
  ASSUME NEW a \in Nat, NEW b \in Nat, NEW p \in Nat,
         a * FRAMESIZE >= p, b * FRAMESIZE <= p
  PROVE  b <= a
<1>1. FRAMESIZE \in Nat \ {0}
  BY TermAssumption
<1>2. a * FRAMESIZE \in Nat /\ b * FRAMESIZE \in Nat
  BY <1>1
<1>3. b * FRAMESIZE <= a * FRAMESIZE
  BY <1>2
<1> QED
  BY <1>1, <1>3

LEMMA RCompleted ==
  ASSUME RInv, replay_completed PROVE RInv'
<1>1. /\ PP!PInv /\ Typed /\ Control /\ LogSound /\ RingSound /\ ReplaySound
      /\ JournalSound /\ OnceSound /\ AnswersSound
  BY DEF RInv
<1>2. /\ phase = "replaying" /\ phase' = "recording" /\ ReplayOver
      /\ UNCHANGED pipeVars
      /\ UNCHANGED <<published, cursor, ring, shutdown, replay_enabled, target,
                     frames, attached, owned, boots, archive, next_command,
                     answered, unarchived, missed, undrained>>
  BY DEF replay_completed, pipeVars, historyVars
<1>3. target \in 1 .. Len(archive)
  BY <1>1, <1>2 DEF Control, Typed
<1>4. Typed'
  BY <1>1, <1>2 DEF Typed, Phases
<1>5. Control'
  BY <1>1, <1>2 DEF Control, Booting
<1>6. ReplayComplete'
  <2> SUFFICES ASSUME ~shutdown, NEW k \in 1 .. Len(answered),
                      answered[k].recording = target,
                      answered[k].command \notin unarchived
               PROVE  Within(target, frames, answered[k].command)
    BY <1>2 DEF ReplayComplete, Within, Log
  <2>1. frames * FRAMESIZE >= archive[target].stop_position
    BY <1>2 DEF ReplayOver, position
  <2>2. Len(archive[target].log) * FRAMESIZE <= archive[target].stop_position
    BY <1>1, <1>3 DEF LogSound, Log
  <2>3. Len(archive[target].log) <= frames
    <3>1. /\ frames \in Nat /\ Len(archive[target].log) \in Nat
          /\ archive[target].stop_position \in Nat
      BY <1>1, <1>3, Lengths DEF Typed
    <3> QED
      BY <2>1, <2>2, <3>1, WholeFrames
  <2>4. Recorded(target, answered[k].command)
    BY <1>1, <1>3 DEF AnswersSound
  <2> QED
    BY <1>1, <1>3, <2>3, <2>4, Lengths DEF Recorded, Within, Log, Typed
<1>7. LogSound' /\ RingSound' /\ ReplaySound' /\ JournalSound'
  BY <1>1, <1>2 DEF LogSound, RingSound, ReplaySound, JournalSound, Recorded,
                    Within, Log
<1>8. OnceSound' /\ AnswersSound'
  BY <1>1, <1>2 DEF OnceSound, RecordedOnceIfDrained, AnswersSound, Recorded,
                    Within, Log
<1>9. PP!PInv'
  BY <1>1, <1>2, PipeStep
<1> QED
  BY <1>4, <1>5, <1>6, <1>7, <1>8, <1>9 DEF RInv

(* Recordings that are at most opened or closed.                           *)
LEMMA Toggled ==
  ASSUME Typed, NEW r \in 1 .. Len(archive), NEW b \in BOOLEAN,
         archive' = [archive EXCEPT ![r].open = b]
  PROVE  SameLogs /\ archive' \in Seq(Recording)
<1>1. archive \in Seq(Recording) /\ r \in DOMAIN archive
  BY DEF Typed
<1>2. archive[r] \in Recording
  BY <1>1
<1>3. [archive[r] EXCEPT !.open = b] \in Recording
  BY <1>2 DEF Recording
<1>4. archive' = [archive EXCEPT ![r] = [archive[r] EXCEPT !.open = b]]
  BY <1>1
<1>5. archive' \in Seq(Recording) /\ Len(archive') = Len(archive)
  BY <1>1, <1>3, <1>4
<1>6. \A q \in 1 .. Len(archive) :
        /\ archive'[q].log = archive[q].log
        /\ archive'[q].stop_position = archive[q].stop_position
  BY <1>1, <1>2, <1>4 DEF Recording
<1> QED
  BY <1>5, <1>6 DEF SameLogs

LEMMA RClosed ==
  ASSUME RInv, recording_closed PROVE RInv'
<1>1. Typed /\ Control
  BY DEF RInv
<1>2. PICK r \in DOMAIN archive : archive' = [archive EXCEPT ![r].open = FALSE]
  BY DEF recording_closed
<1>3. SameLogs /\ archive' \in Seq(Recording)
  BY <1>1, <1>2, Toggled, Lengths
<1>4. /\ UNCHANGED <<pipeVars, ring, serverVars, next_command, historyVars>>
      /\ UNCHANGED <<published, ring, phase, shutdown, replay_enabled, target,
                     frames, attached, owned, boots, next_command, answered,
                     unarchived, missed, undrained>>
  BY DEF recording_closed, pipeVars, serverVars, historyVars
<1>5. Quiet
  BY <1>3, <1>4 DEF Quiet
<1>6. Typed'
  BY <1>1, <1>3, <1>4 DEF Typed, SameLogs
<1>7. Control'
  BY <1>1, <1>4 DEF Control
<1> QED
  BY <1>4, <1>5, <1>6, <1>7, RQuieter

LEMMA RShutdown ==
  ASSUME RInv, server_shutdown PROVE RInv'
<1>1. Typed /\ Control
  BY DEF RInv
<1>2. SameLogs /\ archive' \in Seq(Recording)
  <2>1. CASE archive' = archive
    BY <2>1, <1>1 DEF SameLogs, Typed
  <2>2. CASE archive' # archive
    <3>1. archive' = [archive EXCEPT ![attached].open = FALSE]
      BY <2>2 DEF server_shutdown
    <3>2. attached \in 1 .. Len(archive)
      <4>1. attached \in DOMAIN archive
        <5>1. archive = [i \in DOMAIN archive |-> archive[i]]
          BY <1>1 DEF Typed
        <5> SUFFICES ASSUME attached \notin DOMAIN archive PROVE FALSE
          OBVIOUS
        <5>2. archive' = archive
          BY <3>1, <5>1
        <5> QED
          BY <2>2, <5>2
      <4> QED
        BY <4>1, <1>1, Lengths
    <3> QED
      BY <1>1, <3>1, <3>2, Toggled
  <2> QED
    BY <2>1, <2>2
<1>3. /\ UNCHANGED <<pipeVars, ring, target, frames, boots, next_command,
                     historyVars>>
      /\ UNCHANGED <<published, ring, shutdown, replay_enabled, target,
                     frames, attached, owned, boots, next_command, answered,
                     unarchived, missed, undrained>>
      /\ phase = "serving" /\ phase' = "stopping"
  BY DEF server_shutdown, pipeVars, historyVars
<1>4. Quiet
  BY <1>2, <1>3 DEF Quiet
<1>5. Typed'
  BY <1>1, <1>2, <1>3 DEF Typed, SameLogs, Phases
<1>6. Control'
  BY <1>1, <1>3 DEF Control, Booting
<1> QED
  BY <1>3, <1>4, <1>5, <1>6, RQuieter

(* Clearing the replay flag: what journaling has not come to counts as     *)
(* undrained.                                                              *)
LEMMA RDisabled ==
  ASSUME RInv, NEW p \in {"serving", "stopping"},
         phase \in Booting, p = "serving" => phase = "ready", replay_disabled(p)
  PROVE  RInv'
<1>1. Typed /\ Control /\ JournalSound /\ OnceSound /\ PP!PInv
  BY DEF RInv
<1>2. /\ UNCHANGED <<pipeVars, ring, target, frames, boots, archive,
                     next_command, answered, unarchived, missed>>
      /\ UNCHANGED <<published, cursor, ring, shutdown, target, frames,
                     attached, owned, boots, archive, next_command, answered,
                     unarchived, missed>>
      /\ phase' = p /\ replay_enabled' = FALSE
      /\ undrained' = (undrained \/ Undrained)
  BY DEF replay_disabled, pipeVars
<1>3. SameLogs /\ Quiet
  BY <1>2 DEF Quiet, SameLogs
<1>4. undrained' \in BOOLEAN
  BY <1>2
<1>5. Typed'
  BY <1>1, <1>2, <1>4 DEF Typed, Phases
<1>6. Control'
  BY <1>1, <1>2 DEF Control, Booting
<1>7. JournalSound'
  BY <1>1, <1>2, <1>3, JournalKept
<1>8. OnceSound'
  <2> SUFFICES ASSUME ~undrained'
               PROVE  /\ \A i \in cursor[Pipe!Journaling] + 1 .. published : ring[i][2]
                      /\ RecordedOnceIfDrained'
    BY <1>2 DEF OnceSound
  <2>1. ~undrained /\ ~Undrained
    BY <1>2
  <2>2. RecordedOnceIfDrained
    BY <1>1, <2>1 DEF OnceSound
  <2>3. RecordedOnceIfDrained'
    BY <2>1, <2>2, <1>2 DEF RecordedOnceIfDrained
  <2>4. CASE replay_enabled
    <3>1. ~(cursor[Pipe!Journaling] < published)
      BY <2>1, <2>4 DEF Undrained
    <3>2. cursor[Pipe!Journaling] \in Nat /\ published \in Nat
      BY <1>1, Cursors
    <3> QED
      BY <2>3, <3>1, <3>2
  <2>5. CASE ~replay_enabled
    BY <1>1, <2>1, <2>3, <2>5 DEF OnceSound
  <2> QED
    BY <2>4, <2>5
<1> QED
  BY <1>2, <1>3, <1>5, <1>6, <1>7, <1>8, RQuiet

LEMMA RCreated ==
  ASSUME RInv, server_created PROVE RInv'
  BY RDisabled DEF server_created, Booting

LEMMA RFailed ==
  ASSUME RInv, server_failed PROVE RInv'
  BY RDisabled DEF server_failed, Booting

-----------------------------------------------------------------------------
(* The recording that is extended, joined or started.                      *)

LEMMA RRecording ==
  ASSUME RInv, start_recording PROVE RInv'
<1>1. /\ PP!PInv /\ Typed /\ Control /\ LogSound /\ RingSound /\ ReplaySound
      /\ JournalSound /\ OnceSound /\ AnswersSound /\ ReplayComplete
  BY DEF RInv
<1>2. /\ phase = "recording" /\ phase' \in {"ready", "waiting"}
      /\ phase' = "waiting" => target = 0 /\ attached' = 0
      /\ UNCHANGED pipeVars
      /\ UNCHANGED <<published, cursor, ring, shutdown, replay_enabled, target,
                     frames, boots, next_command, answered, unarchived, missed,
                     undrained>>
  BY DEF start_recording, pipeVars, historyVars
<1>3. /\ archive \in Seq(Recording) /\ DOMAIN archive = 1 .. Len(archive)
      /\ Len(archive) \in Nat /\ target \in 0 .. Len(archive)
  BY <1>1, Lengths DEF Typed
<1>4. /\ cursor[Pipe!Journaling] \in Nat
      /\ cursor[Pipe!Journaling] <= published /\ published \in Nat
  BY <1>1, Cursors
<1>5. CASE target # 0
  <2>1. /\ attached' = target /\ owned' = TRUE /\ phase' = "ready"
        /\ archive' = [archive EXCEPT ![target].open = TRUE]
    BY <1>5 DEF start_recording
  <2>2. target \in 1 .. Len(archive)
    BY <1>3, <1>5
  <2>3. SameLogs /\ archive' \in Seq(Recording)
    BY <1>1, <2>1, <2>2, Toggled
  <2>4. Quiet
    BY <1>2, <2>3 DEF Quiet
  <2>5. Typed'
    BY <1>1, <1>2, <2>1, <2>3 DEF Typed, SameLogs, Phases
  <2>6. Control'
    BY <1>1, <1>2, <2>1 DEF Control, Booting
  <2>7. JournalSound'
    <3>1. \A i \in 1 .. published : Within(target, frames, ring[i][1])
      BY <1>1, <1>2 DEF Control, Booting, ReplaySound
    <3>2. /\ frames \in Nat /\ frames <= Len(archive[target].log)
          /\ Len(archive[target].log) \in Nat
      BY <1>1, <1>5, <2>2, Lengths DEF Typed, ReplaySound, Log
    <3>3. \A i \in 1 .. published : Recorded(target, ring[i][1])
      BY <3>1, <3>2 DEF Recorded, Within, Log
    <3>4. archive'[target].log = archive[target].log
      BY <2>2, <2>3 DEF SameLogs
    <3>5. \A i \in 1 .. cursor[Pipe!Journaling] : Recorded(target, ring[i][1])
      BY <1>4, <3>3
    <3>6. \A i \in 1 .. cursor[Pipe!Journaling] : Recorded(attached, ring[i][1])'
      BY <1>2, <2>1, <3>4, <3>5 DEF Recorded, Within, Log
    <3> QED
      BY <1>1, <1>2, <2>3, <3>6 DEF JournalSound, SameLogs, Log
  <2>8. OnceSound'
    BY <1>1, <1>2, <2>3, <2>5, OnceKept
  <2> QED
    BY <1>2, <2>4, <2>5, <2>6, <2>7, <2>8, RQuiet
<1>6. CASE target = 0
  <2>1. published = 0 /\ cursor[Pipe!Journaling] = 0
    BY <1>1, <1>2, <1>4, <1>6 DEF Control, Booting
  <2>2. CASE /\ \/ \E r \in DOMAIN archive : archive[r].open /\ attached' = r
                \/ attached' = 0
             /\ owned' = FALSE
             /\ UNCHANGED archive
    <3>1. attached' \in 0 .. Len(archive) /\ archive' = archive /\ owned' = FALSE
      BY <1>3, <2>2
    <3>2. SameLogs /\ Quiet
      BY <1>2, <3>1 DEF Quiet, SameLogs
    <3>3. Typed'
      BY <1>1, <1>2, <3>1 DEF Typed, Phases
    <3>4. Control'
      BY <1>1, <1>2, <1>6 DEF Control, Booting
    <3>5. JournalSound'
      BY <1>2, <2>1 DEF JournalSound
    <3>6. OnceSound'
      BY <1>1, <1>2, <3>2, <3>3, OnceKept
    <3> QED
      BY <1>2, <3>2, <3>3, <3>4, <3>5, <3>6, RQuiet
  <2>3. CASE /\ archive' = Append(archive, EmptyRecording)
             /\ attached' = Len(archive')
             /\ owned' \in BOOLEAN
    <3>1. EmptyRecording \in Recording /\ EmptyRecording.log = <<>>
          /\ EmptyRecording.stop_position = 0
      BY DEF EmptyRecording, Recording
    <3>2. /\ archive' \in Seq(Recording) /\ Len(archive') = Len(archive) + 1
          /\ \A r \in 1 .. Len(archive) : archive'[r] = archive[r]
          /\ archive'[Len(archive) + 1].log = <<>>
          /\ archive'[Len(archive) + 1].stop_position = 0
      BY <1>3, <2>3, <3>1
    <3>3. LogsGrow
      BY <1>1, <3>2, Lengths DEF LogsGrow
    <3>4. Typed'
      BY <1>1, <1>2, <1>3, <1>6, <2>3, <3>2 DEF Typed, Phases
    <3>5. Control'
      BY <1>1, <1>2, <1>6 DEF Control, Booting
    <3>6. LogSound'
      <4>1. \A r \in 1 .. Len(archive') :
              r \in 1 .. Len(archive) \/ archive'[r].log = <<>>
        BY <1>3, <3>2
      <4>2. \A r \in 1 .. Len(archive') :
              /\ Len(archive'[r].log) * FRAMESIZE <= archive'[r].stop_position
              /\ \A f \in 1 .. Len(archive'[r].log) :
                   archive'[r].log[f] < next_command
              /\ InOrder(archive'[r].log)
        <5> SUFFICES ASSUME NEW r \in 1 .. Len(archive')
                     PROVE  /\ Len(archive'[r].log) * FRAMESIZE
                                 <= archive'[r].stop_position
                            /\ \A f \in 1 .. Len(archive'[r].log) :
                                 archive'[r].log[f] < next_command
                            /\ InOrder(archive'[r].log)
          OBVIOUS
        <5>1. CASE r \in 1 .. Len(archive)
          BY <1>1, <3>2, <5>1 DEF LogSound, Log
        <5>2. CASE r = Len(archive) + 1
          <6>1. archive'[r].log = <<>> /\ archive'[r].stop_position = 0
            BY <3>2, <5>2
          <6>2. 0 * FRAMESIZE = 0
            BY TermAssumption
          <6> QED
            BY <6>1, <6>2 DEF InOrder
        <5> QED
          BY <1>3, <3>2, <5>1, <5>2
      <4> QED
        BY <1>2, <4>2 DEF LogSound, Log
    <3>7. RingSound' /\ ReplaySound' /\ JournalSound'
      BY <1>2, <1>6, <2>1 DEF RingSound, ReplaySound, JournalSound
    <3>8. OnceSound'
      <4>1. \A q \in DOMAIN archive' : \A i \in DOMAIN archive'[q].log :
              q \in DOMAIN archive /\ archive'[q].log = archive[q].log
        <5> SUFFICES ASSUME NEW q \in DOMAIN archive', NEW i \in DOMAIN archive'[q].log
                     PROVE  q \in DOMAIN archive /\ archive'[q].log = archive[q].log
          OBVIOUS
        <5>1. q \in 1 .. Len(archive) + 1
          BY <3>2
        <5>2. q # Len(archive) + 1
          BY <3>2
        <5> QED
          BY <1>3, <3>2, <5>1, <5>2
      <4>2. RecordedOnceIfDrained => RecordedOnceIfDrained'
        BY <1>2, <4>1 DEF RecordedOnceIfDrained
      <4> QED
        BY <1>1, <1>2, <2>1, <4>2 DEF OnceSound
    <3>9. AnswersSound'
      <4>1. next_command' \in Nat /\ next_command <= next_command'
        BY <1>1, <1>2 DEF Typed, Pos
      <4> QED
        BY <1>1, <1>2, <3>3, <4>1, AnswersKept
    <3>10. ReplayComplete'
      BY <1>2, <1>6 DEF ReplayComplete
    <3>11. PP!PInv'
      BY <1>1, <1>2, PipeStep
    <3> QED
      BY <3>4, <3>5, <3>6, <3>7, <3>8, <3>9, <3>10, <3>11 DEF RInv
  <2> QED
    BY <1>6, <2>2, <2>3 DEF start_recording
<1> QED
  BY <1>5, <1>6

-----------------------------------------------------------------------------
(* Commands enter the ring.                                                *)

(* What publishing c does to the ring.                                     *)
LEMMA Published ==
  ASSUME Typed, NEW c \in Pos, NEW live \in BOOLEAN,
         ring' = Append(ring, <<c, live>>), published' = published + 1
  PROVE  /\ ring' \in Seq(Pos \X BOOLEAN) /\ Len(ring') = published'
         /\ published' \in Nat /\ published + 1 \in 1 .. published'
         /\ \A i \in 1 .. published : i \in 1 .. published' /\ ring'[i] = ring[i]
         /\ ring'[published + 1] = <<c, live>>
         /\ \A i \in 1 .. published' : i \in 1 .. published \/ i = published + 1
<1>1. ring \in Seq(Pos \X BOOLEAN) /\ Len(ring) = published /\ published \in Nat
  BY DEF Typed
<1>2. <<c, live>> \in Pos \X BOOLEAN
  OBVIOUS
<1>3. ring' \in Seq(Pos \X BOOLEAN) /\ Len(ring') = published + 1
  BY <1>1, <1>2
<1>4. \A i \in 1 .. published : ring'[i] = ring[i]
  BY <1>1, <1>2
<1>5. ring'[published + 1] = <<c, live>>
  BY <1>1, <1>2
<1> QED
  BY <1>1, <1>3, <1>4, <1>5

(* A live command is newer than everything sent, archived or answered.     *)
LEMMA RGateway ==
  ASSUME RInv, gateway_fragment PROVE RInv'
<1>1. /\ PP!PInv /\ Typed /\ Control /\ LogSound /\ RingSound /\ ReplaySound
      /\ JournalSound /\ OnceSound /\ AnswersSound /\ ReplayComplete
  BY DEF RInv
<1>2. /\ phase = "serving" /\ next_command <= MaxCommands
      /\ next_command' = next_command + 1
      /\ UNCHANGED <<phase, shutdown, replay_enabled, target, frames,
                     attached, owned, boots, archive, answered, unarchived,
                     missed, undrained>>
  BY DEF gateway_fragment, serverVars, historyVars
<1>3. /\ next_command \in Pos /\ next_command' \in Pos
      /\ next_command \in Nat /\ next_command' \in Nat
      /\ next_command <= next_command' /\ next_command' <= MaxCommands + 1
  BY <1>1, <1>2, CountAssumption DEF Typed, Pos
<1>4. SameLogs /\ LogsGrow
  BY <1>1, <1>2, SameGrow DEF SameLogs
<1>5. LogSound'
  BY <1>1, <1>3, <1>4, LogKept
<1>6. ReplayComplete'
  BY <1>1, <1>2, <1>4, CompleteKept
<1>7. PP!PInv'
  BY <1>1, PipeStep DEF gateway_fragment
<1>8. CASE Pipe!drop /\ UNCHANGED ring
  <2>1. UNCHANGED <<published, cursor, ring>>
    BY <1>8 DEF Pipe!drop
  <2>2. Typed' /\ Control'
    <3>1. Typed'
      BY <1>1, <1>2, <1>3, <2>1 DEF Typed
    <3>2. Control'
      BY <1>1, <1>2, <2>1 DEF Control
    <3> QED
      BY <3>1, <3>2
  <2>3. RingSound'
    <3>1. \A j \in 1 .. published : ring[j][1] < next_command'
      BY <1>1, <1>3, Lengths DEF RingSound, Pos
    <3> QED
      BY <1>1, <1>2, <2>1, <3>1 DEF RingSound
  <2>4. ReplaySound' /\ JournalSound' /\ OnceSound'
    BY <1>1, <1>2, <1>4, <2>1, <2>2, ReplayKept, JournalKept, OnceKept
  <2>5. AnswersSound'
    BY <1>1, <1>2, <1>3, <1>4, <2>1, AnswersKept
  <2> QED
    BY <1>5, <1>6, <1>7, <2>2, <2>3, <2>4, <2>5 DEF RInv
<1>9. CASE Pipe!publish /\ ring' = Append(ring, <<next_command, TRUE>>)
  <2>1. published' = published + 1 /\ cursor' = cursor
    BY <1>9 DEF Pipe!publish
  <2>2. PICK c \in Pos : c = next_command
    BY <1>3
  <2>3. /\ ring' \in Seq(Pos \X BOOLEAN) /\ Len(ring') = published'
        /\ published' \in Nat /\ published + 1 \in 1 .. published'
        /\ \A i \in 1 .. published : i \in 1 .. published' /\ ring'[i] = ring[i]
        /\ ring'[published + 1] = <<c, TRUE>>
        /\ \A i \in 1 .. published' : i \in 1 .. published \/ i = published + 1
    BY <1>1, <1>9, <2>1, <2>2, Published
  <2>4. ring'[published + 1][1] = c /\ ring'[published + 1][2]
    BY <2>3
  <2>5. /\ published \in Nat /\ cursor[Pipe!Journaling] \in Nat
        /\ cursor[Pipe!Events] \in Nat
        /\ cursor[Pipe!Journaling] <= published
        /\ cursor[Pipe!Events] <= published
    BY <1>1, Cursors
  <2>6. /\ \A i \in 1 .. published : ring[i][1] \in Nat /\ ring[i][1] < c
        /\ \A r \in 1 .. Len(archive) : \A f \in 1 .. Len(Log(r)) :
             Log(r)[f] < c
        /\ \A k \in 1 .. Len(answered) : answered[k].command < c
    BY <1>1, <2>2, Lengths DEF RingSound, LogSound, AnswersSound, Pos
  <2>7. Typed'
    BY <1>1, <1>2, <1>3, <2>3 DEF Typed
  <2>8. Control'
    BY <1>1, <1>2 DEF Control, Booting
  <2>9. RingSound'
    <3> SUFFICES ASSUME NEW j \in 1 .. published'
                 PROVE  /\ ring'[j][1] < next_command'
                        /\ \A i \in 1 .. j - 1 : ring'[i][2] => ring'[j][2]
                        /\ ring'[j][2] =>
                             \A i \in 1 .. j - 1 : ring'[i][1] < ring'[j][1]
                        /\ \/ ring'[j][1] \in missed'
                           \/ \A i \in 1 .. j - 1 : ring'[i][1] < ring'[j][1]
                           \/ \E i \in 1 .. j - 1 : ring'[i][1] = ring'[j][1]
      BY DEF RingSound
    <3>1. CASE j \in 1 .. published
      <4>1. \A i \in 1 .. j : i \in 1 .. published /\ ring'[i] = ring[i]
        BY <2>3, <2>5, <3>1
      <4>2. \A i \in 1 .. j - 1 : i \in 1 .. j
        BY <2>5, <3>1
      <4>3. ring[j][1] < next_command'
        BY <1>1, <1>3, <2>6, <3>1 DEF RingSound
      <4> QED
        BY <1>1, <1>2, <3>1, <4>1, <4>2, <4>3 DEF RingSound
    <3>2. CASE j = published + 1
      <4>1. \A i \in 1 .. j - 1 : i \in 1 .. published
        BY <2>5, <3>2
      <4>2. c < next_command'
        BY <1>2, <1>3, <2>2
      <4> QED
        BY <2>3, <2>4, <2>6, <3>2, <4>1, <4>2
    <3> QED
      BY <2>3, <3>1, <3>2
  <2>10. ReplaySound'
    <3>1. \A i \in 1 .. published' : ~ring'[i][2] => i \in 1 .. published
      BY <2>3, <2>4
    <3> QED
      BY <1>1, <1>2, <2>3, <3>1 DEF ReplaySound, Within, Log
  <2>11. JournalSound'
    <3>1. \A i \in 1 .. cursor[Pipe!Journaling] : i \in 1 .. published
      BY <2>5
    <3>2. \A i \in cursor[Pipe!Journaling] + 1 .. published' :
            i \in cursor[Pipe!Journaling] + 1 .. published \/ i = published + 1
      BY <2>1, <2>5
    <3>3. \A i \in cursor[Pipe!Journaling] + 1 .. published : i \in 1 .. published
      BY <2>5
    <3>4. attached # 0 =>
            \A i \in 1 .. cursor[Pipe!Journaling] :
              ring'[i][1] \in unarchived \/ Recorded(attached, ring'[i][1])
      BY <1>1, <2>3, <3>1 DEF JournalSound
    <3>5. \A i \in cursor[Pipe!Journaling] + 1 .. published' :
            ring'[i][2] => \A r \in 1 .. Len(archive) :
                             \A f \in 1 .. Len(Log(r)) : Log(r)[f] < ring'[i][1]
      <4> SUFFICES ASSUME NEW i \in cursor[Pipe!Journaling] + 1 .. published',
                          ring'[i][2]
                   PROVE  \A r \in 1 .. Len(archive) :
                            \A f \in 1 .. Len(Log(r)) : Log(r)[f] < ring'[i][1]
        OBVIOUS
      <4>1. CASE i \in cursor[Pipe!Journaling] + 1 .. published
        BY <1>1, <2>3, <3>3, <4>1 DEF JournalSound
      <4>2. CASE i = published + 1
        BY <2>4, <2>6, <4>2
      <4> QED
        BY <3>2, <4>1, <4>2
    <3> QED
      BY <1>2, <2>1, <3>4, <3>5 DEF JournalSound, Recorded, Within, Log
  <2>12. OnceSound'
    <3>1. \A i \in cursor[Pipe!Journaling] + 1 .. published' :
            i \in cursor[Pipe!Journaling] + 1 .. published \/ i = published + 1
      BY <2>1, <2>5
    <3>2. \A i \in cursor[Pipe!Journaling] + 1 .. published : i \in 1 .. published
      BY <2>5
    <3>3. RecordedOnceIfDrained => RecordedOnceIfDrained'
      BY <1>2 DEF RecordedOnceIfDrained
    <3> QED
      BY <1>1, <1>2, <2>1, <2>3, <2>4, <3>1, <3>2, <3>3 DEF OnceSound
  <2>13. AnswersSound'
    <3>1. \A i \in cursor[Pipe!Events] + 1 .. published' :
            i \in cursor[Pipe!Events] + 1 .. published \/ i = published + 1
      BY <2>1, <2>5
    <3>2. \A i \in cursor[Pipe!Events] + 1 .. published : i \in 1 .. published
      BY <2>5
    <3>3. \A k \in 1 .. Len(answered) : answered[k].command < next_command'
      BY <1>1, <1>3, Lengths DEF AnswersSound, Pos
    <3>4. \A k \in 1 .. Len(answered) :
            answered[k].live =>
              \A i \in cursor[Pipe!Events] + 1 .. published' :
                ring'[i][2] => answered[k].command < ring'[i][1]
      BY <1>1, <2>3, <2>4, <2>6, <3>1, <3>2 DEF AnswersSound
    <3> QED
      BY <1>1, <1>2, <2>1, <3>3, <3>4 DEF AnswersSound, Recorded, Within, Log
  <2> QED
    BY <1>5, <1>6, <1>7, <2>7, <2>8, <2>9, <2>10, <2>11, <2>12, <2>13 DEF RInv
<1> QED
  BY <1>8, <1>9 DEF gateway_fragment

(* A frame that is replayed comes after those polled before it.            *)
LEMMA RFragment ==
  ASSUME RInv, replay_fragment PROVE RInv'
<1>1. /\ PP!PInv /\ Typed /\ Control /\ LogSound /\ RingSound /\ ReplaySound
      /\ JournalSound /\ OnceSound /\ AnswersSound
  BY DEF RInv
<1>2. /\ phase = "replaying" /\ frames < Len(archive[target].log)
      /\ frames' = frames + 1
      /\ UNCHANGED <<phase, shutdown, replay_enabled, target, attached, owned,
                     boots, archive, next_command, answered, unarchived,
                     undrained>>
  BY DEF replay_fragment
<1>3. /\ target \in 1 .. Len(archive) /\ target # 0 /\ attached = 0
      /\ replay_enabled
      /\ \A i \in 1 .. published : ~ring[i][2]
  BY <1>1, <1>2 DEF Control, Typed, Booting
<1>4. /\ frames \in Nat /\ frames' \in Nat
      /\ Len(archive[target].log) \in Nat
      /\ frames' \in 1 .. Len(archive[target].log)
  BY <1>1, <1>2, <1>3, Lengths DEF Typed
<1>5. PICK c \in Pos : c = archive[target].log[frames + 1]
  BY <1>1, <1>2, <1>3, <1>4, Lengths
<1>6. /\ c < next_command
      /\ \/ \A g \in 1 .. frames : archive[target].log[g] < c
         \/ \E g \in 1 .. frames : archive[target].log[g] = c
  <2>1. InOrder(archive[target].log)
        /\ \A f \in 1 .. Len(archive[target].log) :
             archive[target].log[f] < next_command
    BY <1>1, <1>3 DEF LogSound, Log
  <2>2. frames' - 1 = frames
    BY <1>2, <1>4
  <2> QED
    BY <1>2, <1>4, <1>5, <2>1, <2>2 DEF InOrder
<1>7. PP!PInv'
  BY <1>1, PipeStep DEF replay_fragment
<1>8. LogSound' /\ ReplayComplete'
  BY <1>1, <1>2 DEF LogSound, Log, ReplayComplete
<1>9. \A f \in 1 .. frames' : f \in 1 .. frames \/ f = frames + 1
  BY <1>2, <1>4
<1>10. /\ published \in Nat /\ cursor[Pipe!Journaling] \in Nat
       /\ cursor[Pipe!Events] \in Nat
       /\ cursor[Pipe!Journaling] <= published
       /\ cursor[Pipe!Events] <= published
  BY <1>1, Cursors
<1>11. CASE /\ Pipe!drop
            /\ missed' = missed \cup {archive[target].log[frames + 1]}
            /\ UNCHANGED ring
  <2>1. UNCHANGED <<published, cursor, ring>> /\ missed' = missed \cup {c}
    BY <1>5, <1>11 DEF Pipe!drop
  <2>2. Typed'
    BY <1>1, <1>2, <1>4, <2>1 DEF Typed
  <2>3. Control'
    BY <1>1, <1>2, <2>1 DEF Control
  <2>4. RingSound'
    BY <1>1, <1>2, <2>1 DEF RingSound
  <2>5. ReplaySound'
    <3>1. \A i \in 1 .. published : \E f \in 1 .. frames' :
            archive[target].log[f] = ring[i][1]
      <4>1. \A f \in 1 .. frames : f \in 1 .. frames'
        BY <1>2, <1>4
      <4> QED
        BY <1>1, <1>3, <4>1 DEF ReplaySound, Within, Log
    <3>2. \A f \in 1 .. frames' :
            \/ archive[target].log[f] \in missed'
            \/ \E i \in 1 .. published :
                 ring[i][1] = archive[target].log[f] /\ ~ring[i][2]
      BY <1>1, <1>3, <1>5, <1>9, <2>1 DEF ReplaySound, Log
    <3>3. frames' <= Len(archive[target].log)
      BY <1>4
    <3> QED
      BY <1>2, <1>3, <2>1, <3>1, <3>2, <3>3 DEF ReplaySound, Within, Log
  <2>6. JournalSound' /\ OnceSound' /\ AnswersSound'
    <3>1. JournalSound'
      BY <1>1, <1>2, <2>1 DEF JournalSound, Recorded, Within, Log
    <3>2. OnceSound'
      BY <1>1, <1>2, <2>1 DEF OnceSound, RecordedOnceIfDrained
    <3>3. AnswersSound'
      BY <1>1, <1>2, <2>1 DEF AnswersSound, Recorded, Within, Log
    <3> QED
      BY <3>1, <3>2, <3>3
  <2> QED
    BY <1>7, <1>8, <2>2, <2>3, <2>4, <2>5, <2>6 DEF RInv
<1>12. CASE /\ Pipe!publish
            /\ ring' = Append(ring, <<archive[target].log[frames + 1], FALSE>>)
            /\ UNCHANGED missed
  <2>1. /\ published' = published + 1 /\ cursor' = cursor /\ missed' = missed
        /\ ring' = Append(ring, <<c, FALSE>>)
    BY <1>5, <1>12 DEF Pipe!publish
  <2>2. /\ ring' \in Seq(Pos \X BOOLEAN) /\ Len(ring') = published'
        /\ published' \in Nat /\ published + 1 \in 1 .. published'
        /\ \A i \in 1 .. published : i \in 1 .. published' /\ ring'[i] = ring[i]
        /\ ring'[published + 1] = <<c, FALSE>>
        /\ \A i \in 1 .. published' : i \in 1 .. published \/ i = published + 1
    BY <1>1, <2>1, Published
  <2>3. ring'[published + 1][1] = c /\ ~ring'[published + 1][2]
    BY <2>2
  <2>4. \A i \in 1 .. published' : ~ring'[i][2]
    BY <1>3, <2>2, <2>3
  <2>5. Typed'
    BY <1>1, <1>2, <1>4, <2>2 DEF Typed
  <2>6. Control'
    BY <1>1, <1>2, <1>3, <2>4 DEF Control, Booting
  <2>7. RingSound'
    <3> SUFFICES ASSUME NEW j \in 1 .. published'
                 PROVE  /\ ring'[j][1] < next_command
                        /\ \/ ring'[j][1] \in missed
                           \/ \A i \in 1 .. j - 1 : ring'[i][1] < ring'[j][1]
                           \/ \E i \in 1 .. j - 1 : ring'[i][1] = ring'[j][1]
      <4>1. \A j \in 1 .. published' : \A i \in 1 .. j - 1 : i \in 1 .. published'
        BY <2>2
      <4> QED
        BY <1>2, <2>1, <2>4, <4>1 DEF RingSound
    <3>1. CASE j \in 1 .. published
      <4>1. \A i \in 1 .. j : i \in 1 .. published /\ ring'[i] = ring[i]
        BY <2>2, <1>10, <3>1
      <4>2. \A i \in 1 .. j - 1 : i \in 1 .. j
        BY <1>10, <3>1
      <4> QED
        BY <1>1, <3>1, <4>1, <4>2 DEF RingSound
    <3>2. CASE j = published + 1
      <4>1. \A i \in 1 .. published : i \in 1 .. j - 1
        BY <1>10, <3>2
      <4>2. \A i \in 1 .. j - 1 : i \in 1 .. published
        BY <1>10, <3>2
      <4>3. ring'[j][1] = c
        BY <2>3, <3>2
      <4>4. CASE \A g \in 1 .. frames : archive[target].log[g] < c
        <5>1. \A i \in 1 .. published : ring[i][1] < c
          BY <1>1, <1>3, <4>4 DEF ReplaySound, Within, Log
        <5> QED
          BY <1>6, <2>2, <4>2, <4>3, <5>1
      <4>5. CASE \E g \in 1 .. frames : archive[target].log[g] = c
        <5>1. c \in missed \/ \E i \in 1 .. published : ring[i][1] = c
          BY <1>1, <1>3, <4>5 DEF ReplaySound, Log
        <5> QED
          BY <1>6, <2>2, <4>1, <4>3, <5>1
      <4> QED
        BY <1>6, <4>4, <4>5
    <3> QED
      BY <2>2, <3>1, <3>2
  <2>8. ReplaySound'
    <3>1. \A f \in 1 .. frames : f \in 1 .. frames'
      BY <1>2, <1>4
    <3>2. \A i \in 1 .. published' : \E f \in 1 .. frames' :
            archive[target].log[f] = ring'[i][1]
      <4> SUFFICES ASSUME NEW i \in 1 .. published'
                   PROVE  \E f \in 1 .. frames' :
                            archive[target].log[f] = ring'[i][1]
        OBVIOUS
      <4>1. CASE i \in 1 .. published
        BY <1>1, <1>3, <2>2, <3>1, <4>1 DEF ReplaySound, Within, Log
      <4>2. CASE i = published + 1
        <5>1. frames + 1 \in 1 .. frames'
          BY <1>2, <1>4
        <5> QED
          BY <1>5, <2>3, <4>2, <5>1
      <4> QED
        BY <2>2, <4>1, <4>2
    <3>3. \A f \in 1 .. frames' :
            \/ archive[target].log[f] \in missed
            \/ \E i \in 1 .. published' :
                 ring'[i][1] = archive[target].log[f] /\ ~ring'[i][2]
      <4> SUFFICES ASSUME NEW f \in 1 .. frames',
                          archive[target].log[f] \notin missed
                   PROVE  \E i \in 1 .. published' :
                            ring'[i][1] = archive[target].log[f] /\ ~ring'[i][2]
        OBVIOUS
      <4>1. CASE f \in 1 .. frames
        BY <1>1, <1>3, <2>2, <4>1 DEF ReplaySound, Log
      <4>2. CASE f = frames + 1
        BY <1>5, <2>2, <2>3, <4>2
      <4> QED
        BY <1>9, <4>1, <4>2
    <3>4. frames' <= Len(archive[target].log)
      BY <1>4
    <3> QED
      BY <1>2, <1>3, <2>1, <3>2, <3>3, <3>4 DEF ReplaySound, Within, Log
  <2>9. JournalSound'
    <3>1. \A i \in cursor[Pipe!Journaling] + 1 .. published' : i \in 1 .. published'
      BY <1>10, <2>2
    <3> QED
      BY <1>2, <1>3, <2>1, <2>4, <3>1 DEF JournalSound
  <2>10. OnceSound'
    BY <1>1, <1>2, <1>3 DEF OnceSound, RecordedOnceIfDrained
  <2>11. AnswersSound'
    <3>1. \A i \in cursor[Pipe!Events] + 1 .. published' : ~ring'[i][2]
      BY <1>10, <2>2, <2>4
    <3> QED
      BY <1>1, <1>2, <2>1, <3>1 DEF AnswersSound, Recorded, Within, Log
  <2> QED
    BY <1>7, <1>8, <2>5, <2>6, <2>7, <2>8, <2>9, <2>10, <2>11 DEF RInv
<1> QED
  BY <1>11, <1>12 DEF replay_fragment

-----------------------------------------------------------------------------
(* Commands go through the handlers.                                       *)

LEMMA RProcessed ==
  ASSUME RInv, NEW h \in Pipe!Handlers, process_command(h) PROVE RInv'
<1>1. /\ PP!PInv /\ Typed /\ Control /\ LogSound /\ RingSound /\ ReplaySound
      /\ JournalSound /\ OnceSound /\ AnswersSound /\ ReplayComplete
  BY DEF RInv
<1>2. /\ Pipe!handle(h) /\ h # Pipe!Journaling /\ h # Pipe!Events
      /\ UNCHANGED <<ring, phase, shutdown, replay_enabled, target, frames,
                     attached, owned, boots, archive, next_command, answered,
                     unarchived, missed, undrained>>
  BY DEF process_command, serverVars, historyVars
<1>3. /\ published' = published
      /\ cursor'[Pipe!Journaling] = cursor[Pipe!Journaling]
      /\ cursor'[Pipe!Events] = cursor[Pipe!Events]
  BY <1>1, <1>2, HandleFacts, Cursors
<1>4. PP!PInv'
  BY <1>1, <1>2, PipeStep
<1>5. Typed'
  BY <1>1, <1>2, <1>3 DEF Typed
<1>6. Control'
  BY <1>1, <1>2, <1>3 DEF Control
<1>7. LogSound' /\ RingSound' /\ ReplaySound' /\ ReplayComplete'
  BY <1>1, <1>2, <1>3 DEF LogSound, RingSound, ReplaySound, ReplayComplete,
                          Within, Log
<1>8. JournalSound' /\ OnceSound' /\ AnswersSound'
  <2>1. JournalSound'
    BY <1>1, <1>2, <1>3 DEF JournalSound, Recorded, Within, Log
  <2>2. OnceSound'
    BY <1>1, <1>2, <1>3 DEF OnceSound, RecordedOnceIfDrained
  <2>3. AnswersSound'
    BY <1>1, <1>2, <1>3 DEF AnswersSound, Recorded, Within, Log
  <2> QED
    BY <2>1, <2>2, <2>3
<1> QED
  BY <1>4, <1>5, <1>6, <1>7, <1>8 DEF RInv

(* A response is sent for a command journaling has finished with, and a    *)
(* live one is newer than every live one answered before.                  *)
LEMMA REvents ==
  ASSUME RInv, handle_processed_command PROVE RInv'
<1>1. /\ PP!PInv /\ Typed /\ Control /\ LogSound /\ RingSound /\ ReplaySound
      /\ JournalSound /\ OnceSound /\ AnswersSound /\ ReplayComplete
  BY DEF RInv
<1>2. /\ Pipe!handle(Pipe!Events)
      /\ UNCHANGED <<ring, phase, shutdown, replay_enabled, target, frames,
                     attached, owned, boots, archive, next_command,
                     unarchived, missed, undrained>>
  BY DEF handle_processed_command, serverVars
<1>3. /\ published' = published
      /\ cursor'[Pipe!Journaling] = cursor[Pipe!Journaling]
      /\ cursor'[Pipe!Events] = cursor[Pipe!Events] + 1
      /\ cursor[Pipe!Events] \in Nat /\ cursor[Pipe!Journaling] \in Nat
      /\ published \in Nat /\ cursor[Pipe!Journaling] <= published
      /\ cursor[Pipe!Events] < cursor[Pipe!Journaling]
  <2>1. Pipe!Journaling # Pipe!Events
    BY DEF Pipe!Journaling, Pipe!Events
  <2> QED
    BY <1>1, <1>2, <2>1, HandleFacts, Cursors, EventsAfterJournaling
<1>4. PP!PInv'
  BY <1>1, <1>2, Cursors, PipeStep
<1>5. PICK k \in 1 .. published : k = cursor[Pipe!Events] + 1
  BY <1>3
<1>6. /\ k \in 1 .. cursor[Pipe!Journaling]
      /\ k \in cursor[Pipe!Events] + 1 .. published
      /\ \A i \in cursor'[Pipe!Events] + 1 .. published :
           /\ i \in cursor[Pipe!Events] + 1 .. published
           /\ i \in 1 .. published /\ k \in 1 .. i - 1
  BY <1>3, <1>5
<1>7. Control'
  BY <1>1, <1>2, <1>3 DEF Control
<1>8. LogSound' /\ RingSound' /\ ReplaySound'
  BY <1>1, <1>2, <1>3 DEF LogSound, RingSound, ReplaySound, Within, Log
<1>9. JournalSound' /\ OnceSound'
  <2>1. JournalSound'
    BY <1>1, <1>2, <1>3 DEF JournalSound, Recorded, Within, Log
  <2>2. OnceSound'
    BY <1>1, <1>2, <1>3 DEF OnceSound, RecordedOnceIfDrained
  <2> QED
    BY <2>1, <2>2
<1>10. CASE replay_enabled
  <2>1. answered' = answered
    BY <1>10 DEF handle_processed_command
  <2>2. Typed'
    BY <1>1, <1>2, <1>3, <2>1 DEF Typed
  <2>3. AnswersSound'
    BY <1>1, <1>2, <1>3, <1>6, <2>1 DEF AnswersSound, Recorded, Within, Log
  <2>4. ReplayComplete'
    BY <1>1, <1>2, <2>1 DEF ReplayComplete, Within, Log
  <2> QED
    BY <1>4, <1>7, <1>8, <1>9, <2>2, <2>3, <2>4 DEF RInv
<1>11. CASE ~replay_enabled
  <2> DEFINE a == [command |-> ring[k][1], live |-> ring[k][2], boot |-> boots,
                   recording |-> attached]
             n == Len(answered)
  <2>1. answered' = Append(answered, a)
    <3>1. cursor'[Pipe!Events] = k
      BY <1>3, <1>5
    <3> QED
      BY <1>11, <3>1 DEF handle_processed_command
  <2>2. a \in Response
    <3>1. ring[k][1] \in Pos /\ ring[k][2] \in BOOLEAN
      BY <1>1, Lengths
    <3>2. boots \in Nat /\ attached \in Nat
      BY <1>1, CountAssumption DEF Typed
    <3> QED
      BY <3>1, <3>2 DEF Response
  <2>3. /\ a.command = ring[k][1] /\ a.live = ring[k][2] /\ a.boot = boots
        /\ a.recording = attached
    OBVIOUS
  <2> HIDE DEF a
  <2>4. answered \in Seq(Response) /\ n \in Nat
    BY <1>1 DEF Typed
  <2>5. /\ answered' \in Seq(Response) /\ Len(answered') = n + 1
        /\ \A l \in 1 .. n : answered'[l] = answered[l]
        /\ answered'[n + 1] = a
    BY <2>1, <2>2, <2>4
  <2> HIDE DEF n
  <2>6. \A l \in 1 .. Len(answered') : l \in 1 .. n \/ l = n + 1
    BY <2>4, <2>5
  <2>7. Typed'
    BY <1>1, <1>2, <1>3, <2>5 DEF Typed
  <2>8. AnswersSound'
    <3> SUFFICES ASSUME NEW l \in 1 .. n + 1
                 PROVE  /\ answered'[l].command < next_command
                        /\ answered'[l].recording <= Len(archive)
                        /\ answered'[l].recording # 0 =>
                             \/ answered'[l].command \in unarchived
                             \/ Recorded(answered'[l].recording,
                                         answered'[l].command)
                        /\ answered'[l].live =>
                             /\ \A m \in 1 .. l - 1 : answered'[m].live =>
                                  answered'[m].command < answered'[l].command
                             /\ \A i \in cursor'[Pipe!Events] + 1 .. published :
                                  ring[i][2] => answered'[l].command < ring[i][1]
      BY <1>2, <1>3, <2>5 DEF AnswersSound, Recorded, Within, Log
    <3>1. CASE l \in 1 .. n
      <4>1. \A m \in 1 .. l - 1 : m \in 1 .. n /\ answered'[m] = answered[m]
        BY <2>4, <2>5, <3>1
      <4>2. answered'[l] = answered[l]
        BY <2>5, <3>1
      <4> QED
        BY <1>1, <1>6, <3>1, <4>1, <4>2 DEF AnswersSound, n
    <3>2. CASE l = n + 1
      <4>1. \A m \in 1 .. l - 1 : m \in 1 .. n /\ answered'[m] = answered[m]
        BY <2>4, <2>5, <3>2
      <4>2. answered'[l] = a
        BY <2>5, <3>2
      <4>3. a.command < next_command
        BY <1>1, <2>3 DEF RingSound
      <4>4. a.recording <= Len(archive)
        BY <1>1, <2>3 DEF Typed
      <4>5. a.recording # 0 =>
              a.command \in unarchived \/ Recorded(a.recording, a.command)
        BY <1>1, <1>6, <2>3 DEF JournalSound
      <4>6. a.live => \A m \in 1 .. n : answered[m].live =>
                        answered[m].command < a.command
        BY <1>1, <1>6, <2>3 DEF AnswersSound, n
      <4>7. \A i \in cursor'[Pipe!Events] + 1 .. published :
              ring[i][2] => a.command < ring[i][1]
        BY <1>1, <1>6, <2>3 DEF RingSound
      <4> QED
        BY <4>1, <4>2, <4>3, <4>4, <4>5, <4>6, <4>7
    <3> QED
      BY <2>5, <2>6, <3>1, <3>2
  <2>9. ReplayComplete'
    <3>1. boots \in Nat
      BY <1>1, CountAssumption DEF Typed
    <3>2. ~(a.boot < boots)
      BY <2>3, <3>1
    <3> QED
      BY <1>1, <1>2, <2>5, <2>6, <3>2 DEF ReplayComplete, Within, Log, n
  <2> QED
    BY <1>4, <1>7, <1>8, <1>9, <2>7, <2>8, <2>9 DEF RInv
<1> QED
  BY <1>10, <1>11

(* The end of a term is not before a position in it.                       *)
LEMMA TermEndAfter ==
  ASSUME NEW s \in Nat PROVE TermEnd(s) \in Nat /\ s <= TermEnd(s)
<1>1. TERM_LENGTH \in Nat \ {0}
  BY TermAssumption
<1> DEFINE q == s \div TERM_LENGTH
           m == s % TERM_LENGTH
<1>2. q \in Nat /\ m \in Nat /\ m < TERM_LENGTH /\ s = TERM_LENGTH * q + m
  BY <1>1
<1> HIDE DEF q, m
<1>3. TermEnd(s) = (q + 1) * TERM_LENGTH
  BY DEF TermEnd, q
<1>4. (q + 1) * TERM_LENGTH = TERM_LENGTH * q + TERM_LENGTH
  BY <1>1, <1>2
<1>5. TERM_LENGTH * q \in Nat
  BY <1>1, <1>2
<1> QED
  BY <1>1, <1>2, <1>3, <1>4, <1>5

(* What an offer does to the archive: the command is appended to the       *)
(* recording attached, or it is lost and at most the term is padded.       *)
LEMMA Offered ==
  ASSUME Typed, LogSound, NEW c \in Pos, publish_to_archive(c)
  PROVE  \/ /\ unarchived' = unarchived \cup {c}
            /\ archive' \in Seq(Recording) /\ Len(archive') = Len(archive)
            /\ \A r \in 1 .. Len(archive) :
                 /\ archive'[r].log = archive[r].log
                 /\ archive'[r].stop_position \in Nat
                 /\ archive[r].stop_position <= archive'[r].stop_position
         \/ /\ unarchived' = unarchived /\ attached \in 1 .. Len(archive)
            /\ archive' \in Seq(Recording) /\ Len(archive') = Len(archive)
            /\ \A r \in 1 .. Len(archive) : r # attached => archive'[r] = archive[r]
            /\ archive'[attached].log = Append(archive[attached].log, c)
            /\ archive'[attached].stop_position
                 = archive[attached].stop_position + FRAMESIZE
<1>1. archive \in Seq(Recording) /\ attached \in 0 .. Len(archive)
      /\ DOMAIN archive = 1 .. Len(archive)
  BY Lengths DEF Typed
<1>2. FRAMESIZE \in Nat
  BY TermAssumption
<1>3. CASE UNCHANGED archive /\ unarchived' = unarchived \cup {c}
  BY <1>1, <1>3, Lengths
<1>4. CASE /\ attached # 0
           /\ archive' = [archive EXCEPT ![attached].stop_position = TermEnd(@)]
           /\ unarchived' = unarchived \cup {c}
  <2>1. attached \in 1 .. Len(archive)
    BY <1>1, <1>4
  <2> DEFINE rec == [archive[attached] EXCEPT !.stop_position
                       = TermEnd(archive[attached].stop_position)]
  <2>2. archive[attached] \in Recording /\ archive[attached].stop_position \in Nat
    BY <2>1, Lengths
  <2>3. /\ rec \in Recording /\ rec.log = archive[attached].log
        /\ rec.stop_position \in Nat
        /\ archive[attached].stop_position <= rec.stop_position
    BY <2>2, TermEndAfter DEF Recording
  <2>4. archive' = [archive EXCEPT ![attached] = rec]
    BY <1>4, <2>1
  <2> HIDE DEF rec
  <2>5. archive' \in Seq(Recording) /\ Len(archive') = Len(archive)
    BY <1>1, <2>1, <2>3, <2>4
  <2>6. \A r \in 1 .. Len(archive) :
          archive'[r] = IF r = attached THEN rec ELSE archive[r]
    BY <1>1, <2>4
  <2>7. \A r \in 1 .. Len(archive) :
          /\ archive'[r].log = archive[r].log
          /\ archive'[r].stop_position \in Nat
          /\ archive[r].stop_position <= archive'[r].stop_position
    BY <2>3, <2>6, Lengths
  <2> QED
    BY <1>4, <2>5, <2>7
<1>5. CASE /\ attached # 0
           /\ archive' = [archive EXCEPT
                            ![attached].log = Append(@, c),
                            ![attached].stop_position = @ + FRAMESIZE]
           /\ UNCHANGED unarchived
  <2>1. attached \in 1 .. Len(archive)
    BY <1>1, <1>5
  <2> DEFINE rec == [archive[attached] EXCEPT
                       !.log = Append(archive[attached].log, c),
                       !.stop_position = archive[attached].stop_position
                                           + FRAMESIZE]
  <2>2. /\ archive[attached] \in Recording
        /\ archive[attached].stop_position \in Nat
        /\ archive[attached].log \in Seq(Pos)
    BY <2>1, Lengths
  <2>3. Append(archive[attached].log, c) \in Seq(Pos)
        /\ archive[attached].stop_position + FRAMESIZE \in Nat
    BY <1>2, <2>2
  <2>4. /\ rec \in Recording /\ rec.log = Append(archive[attached].log, c)
        /\ rec.stop_position = archive[attached].stop_position + FRAMESIZE
    BY <2>2, <2>3 DEF Recording
  <2>5. archive' = [archive EXCEPT ![attached] = rec]
    BY <1>1, <1>5, <2>1, <2>2 DEF Recording
  <2> HIDE DEF rec
  <2>6. archive' \in Seq(Recording) /\ Len(archive') = Len(archive)
    BY <1>1, <2>1, <2>4, <2>5
  <2>7. \A r \in 1 .. Len(archive) :
          archive'[r] = IF r = attached THEN rec ELSE archive[r]
    BY <1>1, <2>5
  <2> QED
    BY <1>5, <2>1, <2>4, <2>6, <2>7
<1> QED
  BY <1>3, <1>4, <1>5 DEF publish_to_archive

(* Journaling records a live command behind all older ones, and repeats a  *)
(* replayed one only in the recording it came from.                        *)
LEMMA RJournal ==
  ASSUME RInv, journal_command PROVE RInv'
<1>1. /\ PP!PInv /\ Typed /\ Control /\ LogSound /\ RingSound /\ ReplaySound
      /\ JournalSound /\ OnceSound /\ AnswersSound /\ ReplayComplete
  BY DEF RInv
<1>2. /\ Pipe!handle(Pipe!Journaling)
      /\ UNCHANGED <<ring, phase, shutdown, replay_enabled, target, frames,
                     attached, owned, boots, next_command, answered, missed,
                     undrained>>
  BY DEF journal_command, serverVars
<1>3. /\ published' = published
      /\ cursor'[Pipe!Journaling] = cursor[Pipe!Journaling] + 1
      /\ cursor'[Pipe!Events] = cursor[Pipe!Events]
      /\ cursor[Pipe!Events] \in Nat /\ cursor[Pipe!Journaling] \in Nat
      /\ published \in Nat /\ cursor[Pipe!Journaling] < published
  <2>1. Pipe!Journaling # Pipe!Events
    BY DEF Pipe!Journaling, Pipe!Events
  <2> QED
    BY <1>1, <1>2, <2>1, HandleFacts, Cursors
<1>4. PP!PInv'
  BY <1>1, <1>2, Cursors, PipeStep
<1>5. PICK k \in 1 .. published : k = cursor[Pipe!Journaling] + 1
  BY <1>3
<1>6. /\ k \in cursor[Pipe!Journaling] + 1 .. published
      /\ \A i \in 1 .. cursor'[Pipe!Journaling] :
           i \in 1 .. cursor[Pipe!Journaling] \/ i = k
      /\ \A i \in cursor'[Pipe!Journaling] + 1 .. published :
           /\ i \in cursor[Pipe!Journaling] + 1 .. published
           /\ i \in 1 .. published /\ k \in 1 .. i - 1
  BY <1>3, <1>5
<1>7. PICK c \in Pos : c = ring[k][1]
  BY <1>1, Lengths
<1>8. Control' /\ RingSound'
  <2>1. Control'
    BY <1>1, <1>2, <1>3 DEF Control
  <2>2. RingSound'
    BY <1>1, <1>2, <1>3, RingKept
  <2> QED
    BY <2>1, <2>2
<1>9. ASSUME ~ring[k][2], attached # 0
      PROVE  /\ attached = target /\ attached \in 1 .. Len(archive)
             /\ Recorded(attached, c)
  <2>1. target # 0 /\ Within(target, frames, c)
    BY <1>1, <1>7, <1>9 DEF ReplaySound
  <2>2. attached = target /\ target \in 1 .. Len(archive)
    BY <1>1, <1>9, <2>1 DEF Control, Typed
  <2>3. /\ frames \in Nat /\ frames <= Len(archive[target].log)
        /\ Len(archive[target].log) \in Nat
    BY <1>1, <2>1, <2>2, Lengths DEF Typed, ReplaySound, Log
  <2> QED
    BY <2>1, <2>2, <2>3 DEF Recorded, Within, Log
<1>10. next_command' \in Nat /\ next_command <= next_command'
  BY <1>1, <1>2 DEF Typed, Pos
<1>11. CASE replay_enabled /\ UNCHANGED <<archive, unarchived>>
  <2>1. Typed'
    BY <1>1, <1>2, <1>3, <1>11 DEF Typed
  <2>2. LogSound' /\ ReplaySound' /\ ReplayComplete'
    BY <1>1, <1>2, <1>3, <1>11 DEF LogSound, ReplaySound, ReplayComplete,
                                   Within, Log
  <2>3. AnswersSound'
    BY <1>1, <1>2, <1>3, <1>11 DEF AnswersSound, Recorded, Within, Log
  <2>4. ~ring[k][2]
    BY <1>1, <1>11 DEF Control
  <2>5. JournalSound'
    <3>1. attached # 0 =>
            \A i \in 1 .. cursor'[Pipe!Journaling] :
              ring[i][1] \in unarchived \/ Recorded(attached, ring[i][1])
      BY <1>1, <1>6, <1>7, <1>9, <2>4 DEF JournalSound
    <3> QED
      BY <1>1, <1>2, <1>3, <1>6, <1>11, <3>1
         DEF JournalSound, Recorded, Within, Log
  <2>6. OnceSound'
    BY <1>1, <1>2, <1>11 DEF OnceSound, RecordedOnceIfDrained
  <2> QED
    BY <1>4, <1>8, <2>1, <2>2, <2>3, <2>5, <2>6 DEF RInv
<1>12. CASE ~replay_enabled /\ publish_to_archive(c)
  <2>1. CASE /\ unarchived' = unarchived \cup {c}
             /\ archive' \in Seq(Recording) /\ Len(archive') = Len(archive)
             /\ \A r \in 1 .. Len(archive) :
                  /\ archive'[r].log = archive[r].log
                  /\ archive'[r].stop_position \in Nat
                  /\ archive[r].stop_position <= archive'[r].stop_position
    <3>1. Typed'
      BY <1>1, <1>2, <1>3, <2>1 DEF Typed
    <3>2. LogsGrow /\ unarchived \subseteq unarchived'
      BY <1>1, <2>1, Lengths DEF LogsGrow
    <3>3. LogSound'
      <4> SUFFICES ASSUME NEW r \in 1 .. Len(archive)
                   PROVE  /\ Len(archive[r].log) * FRAMESIZE
                               <= archive'[r].stop_position
                          /\ \A f \in 1 .. Len(archive[r].log) :
                               archive[r].log[f] < next_command
                          /\ InOrder(archive[r].log)
        BY <1>2, <2>1 DEF LogSound, Log
      <4>1. /\ Len(archive[r].log) * FRAMESIZE <= archive[r].stop_position
            /\ \A f \in 1 .. Len(archive[r].log) :
                 archive[r].log[f] < next_command
            /\ InOrder(archive[r].log)
        BY <1>1 DEF LogSound, Log
      <4>2. Len(archive[r].log) * FRAMESIZE \in Nat
        BY <1>1, Lengths, TermAssumption
      <4>3. /\ archive[r].stop_position \in Nat
            /\ archive'[r].stop_position \in Nat
            /\ archive[r].stop_position <= archive'[r].stop_position
        BY <1>1, <2>1, Lengths
      <4>4. Len(archive[r].log) * FRAMESIZE <= archive'[r].stop_position
        BY <4>1, <4>2, <4>3
      <4> QED
        BY <4>1, <4>4
    <3>4. ReplaySound' /\ ReplayComplete' /\ AnswersSound'
      <4>1. ReplaySound'
        BY <1>1, <1>2, <1>3, <3>2, ReplayKept
      <4>2. ReplayComplete'
        BY <1>1, <1>2, <3>2, CompleteKept
      <4>3. AnswersSound'
        BY <1>1, <1>2, <1>3, <1>10, <3>2, AnswersKept
      <4> QED
        BY <4>1, <4>2, <4>3
    <3>5. JournalSound'
      <4>1. ASSUME attached # 0, NEW i \in 1 .. cursor'[Pipe!Journaling],
                   ring[i][1] \notin unarchived'
            PROVE  \E f \in 1 .. Len(archive'[attached].log) :
                     archive'[attached].log[f] = ring[i][1]
        <5>1. attached \in 1 .. Len(archive)
          BY <1>1, <4>1 DEF Typed
        <5>2. i # k
          BY <1>7, <2>1, <4>1
        <5>3. Recorded(attached, ring[i][1])
          BY <1>1, <1>6, <3>2, <4>1, <5>2 DEF JournalSound
        <5> QED
          BY <2>1, <5>1, <5>3 DEF Recorded, Within, Log
      <4>2. \A i \in cursor'[Pipe!Journaling] + 1 .. published :
              ring[i][2] =>
                \A r \in 1 .. Len(archive') :
                  \A f \in 1 .. Len(archive'[r].log) :
                    archive'[r].log[f] < ring[i][1]
        BY <1>1, <1>6, <2>1 DEF JournalSound, Log
      <4> QED
        BY <1>2, <1>3, <4>1, <4>2 DEF JournalSound, Recorded, Within, Log
    <3>6. OnceSound'
      <4> SUFFICES ASSUME ~undrained'
                   PROVE  /\ \A i \in cursor'[Pipe!Journaling] + 1 .. published :
                               ring[i][2]
                          /\ RecordedOnceIfDrained'
        BY <1>2, <1>3 DEF OnceSound
      <4>1. RecordedOnceIfDrained
            /\ \A i \in cursor[Pipe!Journaling] + 1 .. published : ring[i][2]
        BY <1>1, <1>2, <1>12 DEF OnceSound
      <4>2. RecordedOnceIfDrained'
        BY <1>1, <1>2, <2>1, <3>1, <4>1, OnceLogs
      <4> QED
        BY <1>6, <4>1, <4>2
    <3> QED
      BY <1>4, <1>8, <3>1, <3>3, <3>4, <3>5, <3>6 DEF RInv
  <2>2. CASE /\ unarchived' = unarchived /\ attached \in 1 .. Len(archive)
             /\ archive' \in Seq(Recording) /\ Len(archive') = Len(archive)
             /\ \A r \in 1 .. Len(archive) :
                  r # attached => archive'[r] = archive[r]
             /\ archive'[attached].log = Append(archive[attached].log, c)
             /\ archive'[attached].stop_position
                  = archive[attached].stop_position + FRAMESIZE
    <3> DEFINE s == archive[attached].log
               t == archive'[attached].log
               n == Len(archive[attached].log)
    <3>1. Typed'
      BY <1>1, <1>2, <1>3, <2>2 DEF Typed
    <3>2. s \in Seq(Pos) /\ n \in Nat /\ archive[attached].stop_position \in Nat
          /\ \A f \in 1 .. n : s[f] \in Pos
      BY <1>1, <2>2, Lengths
    <3>3. /\ Len(t) = n + 1 /\ t[n + 1] = c
          /\ \A f \in 1 .. n : t[f] = s[f]
      BY <2>2, <3>2
    <3>4. \A f \in 1 .. n + 1 : f \in 1 .. n \/ f = n + 1
      BY <3>2
    <3>5. LogsGrow
      <4> SUFFICES ASSUME NEW r \in 1 .. Len(archive)
                   PROVE  /\ Len(archive'[r].log) \in Nat
                          /\ Len(archive[r].log) <= Len(archive'[r].log)
                          /\ \A f \in 1 .. Len(archive[r].log) :
                               archive'[r].log[f] = archive[r].log[f]
        BY <1>1, <2>2, Lengths DEF LogsGrow
      <4>1. CASE r = attached
        BY <3>2, <3>3, <4>1
      <4>2. CASE r # attached
        BY <1>1, <2>2, <4>2, Lengths
      <4> QED
        BY <4>1, <4>2
    <3>6. /\ n * FRAMESIZE <= archive[attached].stop_position
          /\ \A f \in 1 .. n : s[f] < next_command
          /\ InOrder(s)
      BY <1>1, <2>2 DEF LogSound, Log
    <3>7. \/ ring[k][2] /\ \A f \in 1 .. n : s[f] < c
          \/ ~ring[k][2] /\ \E f \in 1 .. n : s[f] = c
      <4>1. CASE ring[k][2]
        BY <1>1, <1>6, <1>7, <2>2, <4>1 DEF JournalSound, Log
      <4>2. CASE ~ring[k][2]
        <5>1. attached # 0
          BY <2>2
        <5> QED
          BY <1>9, <4>2, <5>1 DEF Recorded, Within, Log
      <4> QED
        BY <4>1, <4>2
    <3> HIDE DEF s, t, n
    <3>8. InOrder(t)
      <4> SUFFICES ASSUME NEW f \in 1 .. n + 1
                   PROVE  \/ \A g \in 1 .. f - 1 : t[g] < t[f]
                          \/ \E g \in 1 .. f - 1 : t[g] = t[f]
        BY <3>3 DEF InOrder
      <4>1. CASE f \in 1 .. n
        <5>1. \A g \in 1 .. f - 1 : g \in 1 .. n /\ t[g] = s[g]
          BY <3>2, <3>3, <4>1
        <5>2. t[f] = s[f]
          BY <3>3, <4>1
        <5>3. \/ \A g \in 1 .. f - 1 : s[g] < s[f]
              \/ \E g \in 1 .. f - 1 : s[g] = s[f]
          BY <3>6, <4>1 DEF InOrder, n, s
        <5> QED
          BY <5>1, <5>2, <5>3
      <4>2. CASE f = n + 1
        <5>1. f - 1 = n
          BY <3>2, <4>2
        <5> QED
          BY <3>3, <3>7, <4>2, <5>1
      <4> QED
        BY <3>4, <4>1, <4>2
    <3>9. LogSound'
      <4>1. c < next_command
        BY <1>1, <1>7 DEF RingSound
      <4>2. \A f \in 1 .. n + 1 : t[f] < next_command
        BY <3>3, <3>4, <3>6, <4>1
      <4>3. (n + 1) * FRAMESIZE <= archive'[attached].stop_position
        <5>1. FRAMESIZE \in Nat /\ n * FRAMESIZE \in Nat
          BY <3>2, TermAssumption
        <5>2. (n + 1) * FRAMESIZE = n * FRAMESIZE + FRAMESIZE
          BY <3>2, <5>1
        <5> QED
          BY <2>2, <3>2, <3>6, <5>1, <5>2
      <4>4. \A r \in 1 .. Len(archive) :
              /\ Len(archive'[r].log) * FRAMESIZE <= archive'[r].stop_position
              /\ \A f \in 1 .. Len(archive'[r].log) :
                   archive'[r].log[f] < next_command
              /\ InOrder(archive'[r].log)
        <5> SUFFICES ASSUME NEW r \in 1 .. Len(archive)
                     PROVE  /\ Len(archive'[r].log) * FRAMESIZE
                                 <= archive'[r].stop_position
                            /\ \A f \in 1 .. Len(archive'[r].log) :
                                 archive'[r].log[f] < next_command
                            /\ InOrder(archive'[r].log)
          OBVIOUS
        <5>1. CASE r = attached
          BY <3>3, <3>8, <4>2, <4>3, <5>1 DEF t
        <5>2. CASE r # attached
          BY <1>1, <2>2, <5>2 DEF LogSound, Log
        <5> QED
          BY <5>1, <5>2
      <4> QED
        BY <1>2, <2>2, <4>4 DEF LogSound, Log
    <3>10. ReplaySound' /\ ReplayComplete' /\ AnswersSound'
      <4>1. ReplaySound'
        BY <1>1, <1>2, <1>3, <3>5, ReplayKept
      <4>2. ReplayComplete'
        BY <1>1, <1>2, <2>2, <3>5, CompleteKept
      <4>3. AnswersSound'
        BY <1>1, <1>2, <1>3, <1>10, <2>2, <3>5, AnswersKept
      <4> QED
        BY <4>1, <4>2, <4>3
    <3>11. JournalSound'
      <4>1. ASSUME NEW i \in 1 .. cursor'[Pipe!Journaling],
                   ring[i][1] \notin unarchived
            PROVE  \E f \in 1 .. Len(archive'[attached].log) :
                     archive'[attached].log[f] = ring[i][1]
        <5>1. CASE i = k
          <6>1. n + 1 \in 1 .. Len(t)
            BY <3>2, <3>3
          <6> QED
            BY <1>7, <3>3, <5>1, <6>1 DEF t
        <5>2. CASE i # k
          <6>1. Recorded(attached, ring[i][1])
            BY <1>1, <1>6, <2>2, <4>1, <5>2 DEF JournalSound
          <6> QED
            BY <1>1, <2>2, <3>5, <6>1, StaysWithin
        <5> QED
          BY <5>1, <5>2
      <4>2. ASSUME NEW i \in cursor'[Pipe!Journaling] + 1 .. published,
                   ring[i][2], NEW r \in 1 .. Len(archive),
                   NEW f \in 1 .. Len(archive'[r].log)
            PROVE  archive'[r].log[f] < ring[i][1]
        <5>1. \A g \in 1 .. Len(archive[r].log) : archive[r].log[g] < ring[i][1]
          BY <1>1, <1>6, <4>2 DEF JournalSound, Log
        <5>2. c < ring[i][1]
          BY <1>1, <1>6, <1>7, <4>2 DEF RingSound
        <5>3. CASE r = attached
          BY <3>3, <3>4, <4>2, <5>1, <5>2, <5>3 DEF s, t, n
        <5>4. CASE r # attached
          BY <2>2, <4>2, <5>1, <5>4
        <5> QED
          BY <5>3, <5>4
      <4> QED
        BY <1>2, <1>3, <2>2, <4>1, <4>2 DEF JournalSound, Recorded, Within, Log
    <3>12. OnceSound'
      <4> SUFFICES ASSUME ~undrained'
                   PROVE  /\ \A i \in cursor'[Pipe!Journaling] + 1 .. published :
                               ring[i][2]
                          /\ RecordedOnceIfDrained'
        BY <1>2, <1>3 DEF OnceSound
      <4>1. RecordedOnceIfDrained /\ ~undrained
            /\ \A i \in cursor[Pipe!Journaling] + 1 .. published : ring[i][2]
        BY <1>1, <1>2, <1>12 DEF OnceSound
      <4>2. \A r \in 1 .. Len(archive) : \A f \in 1 .. Len(archive[r].log) :
              archive[r].log[f] < c
        BY <1>1, <1>6, <1>7, <4>1 DEF JournalSound, Log
      <4>3. \A r \in 1 .. Len(archive) : \A f \in 1 .. Len(archive[r].log) :
              archive[r].log[f] \in Nat /\ c \in Nat
        BY <1>1, Lengths DEF Pos
      <4>4. /\ DOMAIN archive = 1 .. Len(archive)
            /\ DOMAIN archive' = 1 .. Len(archive)
            /\ \A r \in 1 .. Len(archive) :
                 /\ DOMAIN archive[r].log = 1 .. Len(archive[r].log)
                 /\ DOMAIN archive'[r].log = 1 .. Len(archive'[r].log)
        <5>1. \A r \in 1 .. Len(archive) :
                archive[r] \in Recording /\ archive'[r] \in Recording
          BY <1>1, <2>2 DEF Typed
        <5>2. \A r \in 1 .. Len(archive) :
                archive[r].log \in Seq(Pos) /\ archive'[r].log \in Seq(Pos)
          BY <5>1 DEF Recording
        <5> QED
          BY <1>1, <2>2, <5>2, Lengths
      \* A frame after the step is a frame from before it, or the new one.
      <4>5. \A r \in 1 .. Len(archive) : \A f \in 1 .. Len(archive'[r].log) :
              \/ f \in 1 .. Len(archive[r].log)
                 /\ archive'[r].log[f] = archive[r].log[f]
              \/ r = attached /\ f = n + 1 /\ archive'[r].log[f] = c
        <5> SUFFICES ASSUME NEW r \in 1 .. Len(archive),
                            NEW f \in 1 .. Len(archive'[r].log)
                     PROVE  \/ f \in 1 .. Len(archive[r].log)
                               /\ archive'[r].log[f] = archive[r].log[f]
                            \/ r = attached /\ f = n + 1 /\ archive'[r].log[f] = c
          OBVIOUS
        <5>1. CASE r = attached
          BY <3>3, <3>4, <5>1 DEF s, t, n
        <5>2. CASE r # attached
          BY <2>2, <5>2
        <5> QED
          BY <5>1, <5>2
      <4>6. RecordedOnceIfDrained'
        <5>0. ASSUME NEW q \in 1 .. Len(archive), NEW r \in 1 .. Len(archive),
                     NEW i \in 1 .. Len(archive'[q].log),
                     NEW j \in 1 .. Len(archive'[r].log),
                     archive'[q].log[i] = archive'[r].log[j]
              PROVE  q = r /\ i = j
          <6> DEFINE OldI == i \in 1 .. Len(archive[q].log)
                               /\ archive'[q].log[i] = archive[q].log[i]
                     OldJ == j \in 1 .. Len(archive[r].log)
                               /\ archive'[r].log[j] = archive[r].log[j]
                     NewI == q = attached /\ i = n + 1 /\ archive'[q].log[i] = c
                     NewJ == r = attached /\ j = n + 1 /\ archive'[r].log[j] = c
          <6>1. OldI \/ NewI
            BY <4>5
          <6>2. OldJ \/ NewJ
            BY <4>5
          <6>3. CASE OldI /\ OldJ
            <7>1. archive[q].log[i] = archive[r].log[j]
              BY <5>0, <6>3
            <7>2. /\ q \in DOMAIN archive /\ r \in DOMAIN archive
                  /\ i \in DOMAIN archive[q].log /\ j \in DOMAIN archive[r].log
              BY <4>4, <6>3
            <7> QED
              BY <4>1, <7>1, <7>2 DEF RecordedOnceIfDrained
          <6>4. CASE NewI /\ OldJ
            <7>1. archive[r].log[j] = c /\ j \in 1 .. Len(archive[r].log)
              BY <5>0, <6>4
            <7>2. c < c /\ c \in Nat
              BY <4>2, <4>3, <7>1
            <7> QED
              BY <7>2
          <6>5. CASE OldI /\ NewJ
            <7>1. archive[q].log[i] = c /\ i \in 1 .. Len(archive[q].log)
              BY <5>0, <6>5
            <7>2. c < c /\ c \in Nat
              BY <4>2, <4>3, <7>1
            <7> QED
              BY <7>2
          <6>6. CASE NewI /\ NewJ
            BY <6>6
          <6> HIDE DEF OldI, OldJ, NewI, NewJ
          <6> QED
            BY <6>1, <6>2, <6>3, <6>4, <6>5, <6>6
        <5>1. \A q, r \in DOMAIN archive' :
                \A i \in DOMAIN archive'[q].log, j \in DOMAIN archive'[r].log :
                  archive'[q].log[i] = archive'[r].log[j] => q = r /\ i = j
          <6> SUFFICES ASSUME NEW q \in DOMAIN archive', NEW r \in DOMAIN archive',
                              NEW i \in DOMAIN archive'[q].log,
                              NEW j \in DOMAIN archive'[r].log,
                              archive'[q].log[i] = archive'[r].log[j]
                       PROVE  q = r /\ i = j
            OBVIOUS
          <6>1. q \in 1 .. Len(archive) /\ r \in 1 .. Len(archive)
            BY <4>4
          <6>2. i \in 1 .. Len(archive'[q].log) /\ j \in 1 .. Len(archive'[r].log)
            BY <4>4, <6>1
          <6> QED
            BY <5>0, <6>1, <6>2
        <5> QED
          BY <5>1 DEF RecordedOnceIfDrained
      <4> QED
        BY <1>6, <4>1, <4>6
    <3> QED
      BY <1>4, <1>8, <3>1, <3>9, <3>10, <3>11, <3>12 DEF RInv
  <2> QED
    BY <1>1, <1>12, <2>1, <2>2, Offered
<1> QED
  <2>1. cursor'[Pipe!Journaling] = k
    BY <1>3, <1>5
  <2> QED
    BY <1>7, <1>11, <1>12, <2>1 DEF journal_command

-----------------------------------------------------------------------------
LEMMA RInit == Init => RInv
<1> SUFFICES ASSUME Init PROVE RInv
  OBVIOUS
<1>1. PP!PInv
  BY SamePipeline, PP!PInit, RingAssumption DEF Init
<1>2. /\ published = 0 /\ ring = <<>> /\ archive = <<>> /\ answered = <<>>
      /\ target = 0 /\ attached = 0 /\ frames = 0 /\ next_command = 1
      /\ boots = 0 /\ phase = "down" /\ ~replay_enabled /\ ~undrained
      /\ shutdown = FALSE /\ owned = FALSE
  BY DEF Init, Pipe!Init
<1>3. Typed
  <2>1. Len(archive) = 0 /\ Len(ring) = 0
    BY <1>2
  <2>2. /\ ring \in Seq(Pos \X BOOLEAN) /\ archive \in Seq(Recording)
        /\ answered \in Seq(Response)
    BY <1>2
  <2>3. replay_enabled = FALSE /\ undrained = FALSE
    BY DEF Init
  <2>4. 0 \in 0 .. 0 /\ 0 \in 0 .. MaxBoots /\ 1 \in Pos /\ 1 <= MaxCommands + 1
    BY CountAssumption DEF Pos
  <2> QED
    BY <1>2, <2>1, <2>2, <2>3, <2>4 DEF Typed, Phases
<1>4. Control /\ ReplayComplete
  BY <1>2 DEF Control, Booting, ReplayComplete
<1>5. LogSound /\ RingSound /\ ReplaySound /\ AnswersSound
  BY <1>2 DEF LogSound, RingSound, ReplaySound, AnswersSound
<1>6. cursor[Pipe!Journaling] \in Nat
  BY <1>1, Cursors
<1>7. JournalSound
  BY <1>2, <1>6 DEF JournalSound
<1>8. OnceSound
  BY <1>2, <1>6 DEF OnceSound, RecordedOnceIfDrained
<1> QED
  BY <1>1, <1>3, <1>4, <1>5, <1>7, <1>8 DEF RInv

LEMMA RNext == RInv /\ [Next]_vars => RInv'
<1> SUFFICES ASSUME RInv, [Next]_vars PROVE RInv'
  OBVIOUS
<1>1. CASE Next
  BY <1>1, RStart, REnds, RSignal, RStartReplay, RFragment, RCompleted,
     RRecording, RCreated, RFailed, RShutdown, RGateway, RJournal, REvents,
     RProcessed, RClosed DEF Next
<1>2. CASE UNCHANGED vars
  <2>1. /\ PP!PInv /\ Typed /\ Control /\ LogSound /\ RingSound /\ ReplaySound
        /\ JournalSound /\ OnceSound /\ AnswersSound /\ ReplayComplete
    BY DEF RInv
  <2>2. /\ UNCHANGED pipeVars
        /\ UNCHANGED <<published, cursor, ring, phase, shutdown, replay_enabled,
                       target, frames, attached, owned, boots, archive,
                       next_command, answered, unarchived, missed, undrained>>
    BY <1>2 DEF vars, pipeVars, serverVars, historyVars
  <2>3. Typed' /\ Control'
    BY <2>1, <2>2 DEF Typed, Control
  <2>4. Quiet
    BY <2>2 DEF Quiet, SameLogs
  <2> QED
    BY <2>2, <2>3, <2>4, RQuieter
<1> QED
  BY <1>1, <1>2

(* The invariant the theorems below rest on.                               *)
THEOREM RecoveryInvariant == Spec => []RInv
<1> QED
  BY RInit, RNext, PTL DEF Spec

(* A function on 1 .. n is a sequence of length n.                         *)
LEMMA ArrayIsSeq ==
  ASSUME NEW S, NEW n \in Nat, NEW s \in [1 .. n -> S]
  PROVE  s \in Seq(S) /\ Len(s) = n
  OBVIOUS

(* Whatever starts, fails, crashes or is lost, the ring, the recordings    *)
(* and the server's positions in them keep their types, and a replay never *)
(* polls beyond the frames of its recording.                               *)
THEOREM RecoveryTypes == Spec => []TypeOK
<1>1. RInv => TypeOK
  <2> SUFFICES ASSUME RInv PROVE TypeOK
    OBVIOUS
  <2>1. /\ PP!PInv /\ Typed /\ LogSound /\ ReplaySound
    BY DEF RInv
  <2>2. /\ DOMAIN archive = 1 .. Len(archive) /\ Len(archive) \in Nat
    BY <2>1, Lengths
  <2>3. next_command \in 1 .. MaxCommands + 1
    BY <2>1, CountAssumption DEF Typed, Pos
  <2>4. ASSUME NEW r \in DOMAIN archive
        PROVE  /\ archive[r].log \in Seq(1 .. MaxCommands)
               /\ Len(archive[r].log) * FRAMESIZE <= archive[r].stop_position
    <3>1. /\ archive[r].log \in Seq(Pos)
          /\ \A f \in 1 .. Len(archive[r].log) : archive[r].log[f] \in Pos
      BY <2>1, <2>2, Lengths
    <3>2. \A f \in 1 .. Len(archive[r].log) :
            archive[r].log[f] \in 1 .. MaxCommands
      BY <2>1, <2>2, <2>3, <3>1, CountAssumption DEF LogSound, Log, Pos
    <3>3. archive[r].log \in Seq(1 .. MaxCommands)
      <4>1. /\ Len(archive[r].log) \in Nat
            /\ archive[r].log \in [1 .. Len(archive[r].log) -> 1 .. MaxCommands]
        BY <3>1, <3>2
      <4> QED
        BY <4>1, ArrayIsSeq
    <3> QED
      BY <2>1, <2>2, <3>3 DEF LogSound, Log
  <2>5. target \in {0} \cup DOMAIN archive /\ attached \in {0} \cup DOMAIN archive
    BY <2>1, <2>2 DEF Typed
  <2>6. target # 0 => frames \in 0 .. Len(archive[target].log)
    BY <2>1, <2>2, <2>5, Lengths DEF Typed, ReplaySound, Log
  <2>7. Len(ring) = published /\ cursor \in [Pipe!Handlers -> 0 .. published]
    <3>1. cursor \in [Pipe!Handlers -> 0 .. MaxSeq]
      BY <2>1, SamePipeline DEF PP!PInv, PP!TypeOK
    <3>2. \A h \in Pipe!Handlers : cursor[h] \in 0 .. published
      BY <2>1, Cursors
    <3> QED
      BY <2>1, <3>1, <3>2 DEF Typed
  <2>8. /\ phase \in Phases /\ shutdown \in BOOLEAN /\ owned \in BOOLEAN
        /\ replay_enabled \in BOOLEAN /\ boots \in 0 .. MaxBoots
    BY <2>1 DEF Typed
  <2> QED
    BY <2>3, <2>4, <2>5, <2>6, <2>7, <2>8 DEF TypeOK
<1> QED
  BY <1>1, RecoveryInvariant, PTL

(* No command is recorded twice, over any number of replays, joined and    *)
(* extended recordings, while the pipeline was drained whenever the replay *)
(* flag was cleared.                                                       *)
THEOREM RecordedOnce == Spec => []RecordedOnceIfDrained
<1>1. RInv => RecordedOnceIfDrained
  BY DEF RInv, OnceSound, RecordedOnceIfDrained
<1> QED
  BY <1>1, RecoveryInvariant, PTL

(* A value that occurs in a sequence has a first occurrence.               *)
LEMMA FirstIs ==
  ASSUME NEW n \in Nat, NEW s, DOMAIN s = 1 .. n, NEW i \in 1 .. n,
         NEW x, s[i] = x
  PROVE  /\ First(s, x) \in 1 .. n /\ s[First(s, x)] = x
         /\ \A j \in 1 .. First(s, x) - 1 : s[j] # x
<1> DEFINE S == {j \in 1 .. n : s[j] = x}
<1>1. IsFiniteSet(S)
  <2>1. IsFiniteSet(1 .. n)
    BY FS_Interval
  <2> QED
    BY <2>1, FS_Subset
<1>2. S # {} /\ \A j \in S : j \in Nat
  OBVIOUS
<1>3. PICK m \in S : \A j \in S : m <= j
  <2> HIDE DEF S
  <2> QED
    BY <1>1, <1>2, Extremes
<1>4. m \in DOMAIN s /\ s[m] = x /\ \A j \in 1 .. m - 1 : s[j] # x
  BY <1>3
<1>5. First(s, x) = CHOOSE j \in DOMAIN s : s[j] = x /\ \A l \in 1 .. j - 1 : s[l] # x
  BY DEF First
<1> HIDE DEF S
<1>6. /\ First(s, x) \in DOMAIN s /\ s[First(s, x)] = x
      /\ \A j \in 1 .. First(s, x) - 1 : s[j] # x
  BY <1>4, <1>5
<1> QED
  BY <1>6

(* After a crash and a replay, the books have seen every command answered  *)
(* before it that reached the archive and the ring, in the order of the    *)
(* answers and before any live command.                                    *)
THEOREM AnswersSurvive == Spec => []AnsweredSurvive
<1>1. RInv => AnsweredSurvive
  <2> SUFFICES ASSUME RInv, Recovered PROVE AnsweredSurvive
    BY DEF AnsweredSurvive
  <2> DEFINE order == [i \in DOMAIN answered |->
                         IF answered[i].live THEN answered[i].command ELSE 0]
             n == cursor[Pipe!Matching(CHOOSE m \in Routers : TRUE)]
             N == Len(answered)
  <2>1. /\ PP!PInv /\ Typed /\ RingSound /\ ReplaySound /\ AnswersSound
        /\ ReplayComplete
    BY DEF RInv
  <2>2. n \in Nat /\ n <= published /\ published \in Nat
    <3>1. (CHOOSE m \in Routers : TRUE) \in Routers
      BY RingAssumption
    <3> QED
      BY <2>1, <3>1, Cursors
  <2>3. Applied = [i \in 1 .. n |-> ring[i][1]]
    BY DEF Applied
  <2>4. /\ target # 0 /\ phase = "serving" /\ ~shutdown
        /\ \A i \in n + 1 .. published : ring[i][2]
    <3>1. Applied \in [1 .. n -> {ring[i][1] : i \in 1 .. n}]
      BY <2>3
    <3>2. Len(Applied) = n
      <4> HIDE DEF n
      <4> QED
        BY <2>2, <3>1, ArrayIsSeq
    <3> QED
      BY <3>2 DEF Recovered
  <2>5. /\ DOMAIN Applied = 1 .. n /\ \A i \in 1 .. n : Applied[i] = ring[i][1]
    BY <2>3
  <2>6. /\ DOMAIN answered = 1 .. N /\ N \in Nat
        /\ DOMAIN order = 1 .. N
        /\ \A i \in 1 .. N :
             order[i] = IF answered[i].live THEN answered[i].command ELSE 0
    BY <2>1, Lengths DEF Typed
  <2> HIDE DEF order, n, N
  <2>7. ASSUME NEW d \in Durable
        PROVE  /\ d \notin missed /\ d \in Nat \ {0}
               /\ \E i \in 1 .. n : Applied[i] = d
    <3>1. PICK k \in DOMAIN answered :
            /\ answered[k].recording = target /\ answered[k].boot < boots
            /\ answered[k].command = d /\ d \notin unarchived /\ d \notin missed
      BY DEF Durable
    <3>2. k \in 1 .. Len(answered)
      BY <2>6, <3>1 DEF N
    <3>3. d \in Nat \ {0}
      BY <2>1, <3>1, <3>2, Lengths DEF Pos
    <3>4. Within(target, frames, d)
      BY <2>1, <2>4, <3>1, <3>2 DEF ReplayComplete
    <3>5. PICK i \in 1 .. published : ring[i][1] = d /\ ~ring[i][2]
      BY <2>1, <2>4, <3>1, <3>4 DEF ReplaySound, Within, Log
    <3>6. i \in 1 .. n
      BY <2>2, <2>4, <3>5
    <3> QED
      BY <2>5, <3>1, <3>3, <3>5, <3>6
  <2>8. Durable \subseteq ToSet(Applied)
    BY <2>5, <2>7 DEF ToSet
  <2>9. ASSUME NEW c \in Durable \cap ToSet(order), NEW d \in Durable \cap ToSet(order),
               First(order, c) < First(order, d)
        PROVE  First(Applied, c) < First(Applied, d)
    <3>1. PICK k \in 1 .. N : order[k] = c
      BY <2>6, <2>9 DEF ToSet
    <3>2. PICK l \in 1 .. N : order[l] = d
      BY <2>6, <2>9 DEF ToSet
    <3>3. /\ First(order, c) \in 1 .. N /\ order[First(order, c)] = c
      BY <2>6, <3>1, FirstIs
    <3>4. /\ First(order, d) \in 1 .. N /\ order[First(order, d)] = d
      BY <2>6, <3>2, FirstIs
    <3>5. c < d
      <4>1. c # 0 /\ d # 0
        BY <2>7, <2>9
      <4>2. /\ answered[First(order, c)].live
            /\ answered[First(order, c)].command = c
            /\ answered[First(order, d)].live
            /\ answered[First(order, d)].command = d
        BY <2>6, <3>3, <3>4, <4>1
      <4>3. First(order, c) \in 1 .. First(order, d) - 1
        BY <2>6, <2>9, <3>3, <3>4
      <4> QED
        BY <2>1, <3>4, <4>2, <4>3 DEF AnswersSound, N
    <3>6. PICK i \in 1 .. n : Applied[i] = c
      BY <2>7, <2>9
    <3>7. PICK j \in 1 .. n : Applied[j] = d
      BY <2>7, <2>9
    <3>8. /\ First(Applied, c) \in 1 .. n /\ Applied[First(Applied, c)] = c
          /\ \A m \in 1 .. First(Applied, c) - 1 : Applied[m] # c
      <4>1. n \in Nat /\ DOMAIN Applied = 1 .. n /\ i \in 1 .. n /\ Applied[i] = c
        BY <2>2, <2>5, <3>6
      <4> QED
        BY ONLY <4>1, FirstIs
    <3>9. /\ First(Applied, d) \in 1 .. n /\ Applied[First(Applied, d)] = d
      BY <2>2, <2>5, <3>7, FirstIs
    <3>10. PICK p \in 1 .. n : p = First(Applied, c)
      BY <3>8
    <3>11. PICK q \in 1 .. n : q = First(Applied, d)
      BY <3>9
    <3>12. /\ ring[p][1] = c /\ ring[q][1] = d
           /\ \A m \in 1 .. p - 1 : ring[m][1] # c
      <4>1. \A m \in 1 .. p - 1 : m \in 1 .. n
        BY <2>2, <3>10
      <4> QED
        BY <2>5, <3>8, <3>9, <3>10, <3>11, <4>1
    <3>13. c \in Nat /\ d \in Nat /\ c \notin missed
      BY <2>7, <2>9
    <3>14. \A m \in 1 .. p - 1 : ring[m][1] < c
      <4>1. p \in 1 .. published
        BY <2>2, <3>10
      <4> QED
        BY <2>1, <3>12, <3>13, <4>1 DEF RingSound
    <3>15. ~(q < p) /\ q # p
      BY <2>2, <3>5, <3>12, <3>13, <3>14
    <3> QED
      BY <2>2, <3>10, <3>11, <3>15
  <2>10. \A i, j \in 1 .. published : ring[i][2] /\ i < j => ring[j][2]
    <3>1. \A i, j \in 1 .. published : i < j => i \in 1 .. j - 1
      BY <2>2
    <3> QED
      BY <2>1, <3>1 DEF RingSound
  <2> QED
    BY <2>8, <2>9, <2>10 DEF AnsweredSurvive, order
<1> QED
  BY <1>1, RecoveryInvariant, PTL
=============================================================================
