------------------------------ MODULE Recovery ------------------------------
(***************************************************************************)
(* Life and death of the server process around the archive: start-up with  *)
(* or without --replay, the replay of the last recording through the       *)
(* pipeline, the recording that is then extended, joined or started, live  *)
(* commands, shutdown, crashes, and failures of each.                      *)
(*                                                                         *)
(* A command is a number; what it does to the books is in Exchange and     *)
(* which id it gets in Snowflake.  The ring is that of Pipeline.  Archive  *)
(* and media driver are external: they outlive the server, record what is  *)
(* offered, and close a recording some time after its writer is gone.      *)
(***************************************************************************)
EXTENDS Integers, Sequences, SequencesExt

CONSTANTS
  RiskShards, Routers, BUFFER_SIZE, MaxSeq,   \* see Pipeline
  FRAMESIZE,      \* bytes of a command in the log, header included
  TERM_LENGTH,    \* bytes of a term of the log
  MaxCommands,    \* bound: live commands in one behaviour
  MaxBoots        \* bound: starts of the server

ASSUME TermAssumption ==
  /\ FRAMESIZE \in Nat \ {0} /\ TERM_LENGTH \in Nat
  /\ FRAMESIZE <= TERM_LENGTH
  /\ TERM_LENGTH % FRAMESIZE # 0    \* 96 divides no power of two

ASSUME RingAssumption ==      \* those of Pipeline
  /\ RiskShards # {} /\ Routers # {}
  /\ BUFFER_SIZE \in Nat \ {0} /\ MaxSeq \in Nat

ASSUME CountAssumption == MaxCommands \in Nat /\ MaxBoots \in Nat

VARIABLES
  published, cursor, dropped,   \* the ring's positions, see Pipeline
  ring,            \* the commands published: <<command, came from a gateway>>
  phase,           \* what the server thread is doing
  shutdown,        \* the shutdown flag of main
  replay_enabled,  \* the flag in ReplayControl
  target,          \* the recording replayed, 0 for none
  frames,          \* fragments of it polled
  attached,        \* the recording the archive publication goes to, or 0
  owned,           \* subscription_id is not 0
  archive,         \* external: the recordings
  next_command,    \* the next live command
  boots,           \* starts so far
  answered,        \* history: responses, in order
  unarchived,      \* history: commands whose offer failed
  missed,          \* history: commands this replay lost on a full ring
  undrained        \* history: some replay ended before its last command
                   \*          had been through the pipeline

pipeVars    == <<published, cursor, dropped>>
serverVars  == <<phase, shutdown, replay_enabled, target, frames, attached,
                 owned, boots>>
historyVars == <<answered, unarchived, missed, undrained>>
vars == <<pipeVars, ring, serverVars, archive, next_command, historyVars>>

Pipe == INSTANCE Pipeline

Phases == {"down", "starting", "replaying", "recording", "waiting", "ready",
           "serving", "stopping"}

(* A recording: its commands, the position of its end, and whether it is   *)
(* still being recorded.                                                   *)
EmptyRecording == [log |-> <<>>, stop_position |-> 0, open |-> TRUE]

-----------------------------------------------------------------------------
(* The process.                                                            *)

EmptyRing ==
  /\ published' = 0
  /\ cursor' = [h \in Pipe!Handlers |-> 0]
  /\ dropped' = FALSE
  /\ ring' = <<>>
  /\ missed' = {}

(* main and start: the pipeline is built and the server thread spawned,    *)
(* with the replay flag as the command line says.                          *)
start(replay) ==
  /\ phase = "down" /\ boots < MaxBoots
  /\ EmptyRing
  /\ phase' = "starting"
  /\ shutdown' = FALSE
  /\ replay_enabled' = replay
  /\ target' = 0 /\ frames' = 0 /\ attached' = 0 /\ owned' = FALSE
  /\ boots' = boots + 1
  /\ UNCHANGED <<archive, next_command, answered, unarchived, undrained>>

(* The process exits after the server thread has returned, or dies.        *)
process_ends ==
  /\ phase # "down"
  /\ EmptyRing
  /\ phase' = "down"
  /\ shutdown' = FALSE /\ replay_enabled' = FALSE
  /\ target' = 0 /\ frames' = 0 /\ attached' = 0 /\ owned' = FALSE
  /\ UNCHANGED <<boots, archive, next_command, answered, unarchived, undrained>>

(* The signal handler sets the flag.                                       *)
shutdown_signal ==
  /\ phase \notin {"down", "stopping"} /\ ~shutdown
  /\ shutdown' = TRUE
  /\ UNCHANGED <<pipeVars, ring, phase, replay_enabled, target, frames,
                 attached, owned, boots, archive, next_command, historyVars>>

-----------------------------------------------------------------------------
(* VexCoreServer::new.                                                     *)

(* Recordings RecorderDescriptorReader accepts: closed and not empty.      *)
Replayable ==
  {r \in DOMAIN archive : ~archive[r].open /\ archive[r].stop_position > 0}

(* start_replay: the reader keeps the last recording listed.               *)
start_replay ==
  /\ phase = "starting"
  /\ target' = IF replay_enabled /\ Replayable # {}
               THEN CHOOSE r \in Replayable : \A q \in Replayable : q <= r
               ELSE 0
  /\ phase' = IF target' = 0 THEN "recording" ELSE "replaying"
  /\ UNCHANGED <<pipeVars, ring, shutdown, replay_enabled, frames, attached,
                 owned, boots, archive, next_command, historyVars>>

(* The position the loop of start_replay has counted up to.                *)
position == frames * FRAMESIZE

ReplayOver == shutdown \/ position >= archive[target].stop_position

(* ReplayFragmentHandler: one fragment is polled and published, or lost    *)
(* when the ring is full; the position moves on either way.                *)
replay_fragment ==
  LET c == archive[target].log[frames + 1]
  IN /\ phase = "replaying" /\ ~ReplayOver
     /\ frames < Len(archive[target].log)
     /\ frames' = frames + 1
     /\ \/ /\ Pipe!publish
           /\ ring' = Append(ring, <<c, FALSE>>)
           /\ UNCHANGED missed
        \/ /\ Pipe!drop
           /\ missed' = missed \cup {c}
           /\ UNCHANGED ring
     /\ UNCHANGED <<phase, shutdown, replay_enabled, target, attached, owned,
                    boots, archive, next_command, answered, unarchived,
                    undrained>>

(* Mutant: the loop stops at the last frame, not behind it.                *)
replay_completed_early ==
  /\ phase = "replaying"
  /\ shutdown \/ position + FRAMESIZE >= archive[target].stop_position
  /\ phase' = "recording"
  /\ UNCHANGED <<pipeVars, ring, shutdown, replay_enabled, target, frames,
                 attached, owned, boots, archive, next_command, historyVars>>

replay_completed ==
  /\ phase = "replaying" /\ ReplayOver
  /\ phase' = "recording"
  /\ UNCHANGED <<pipeVars, ring, shutdown, replay_enabled, target, frames,
                 attached, owned, boots, archive, next_command, historyVars>>

(* Recordings ActiveRecordingReader takes for active ones, but are not:    *)
(* closed before anything was recorded, at stop position 0.                *)
TakenForActive ==
  {r \in DOMAIN archive : ~archive[r].open /\ archive[r].stop_position = 0}

(* start_recording, and the wait for the archive publication to connect.   *)
(* A replayed recording is extended.  Otherwise one that is open is        *)
(* joined.  If there is none, a recording begins: the one asked for here,  *)
(* or, when the archive answers that the recording exists or one is taken  *)
(* for active, one of an older subscription of the archive's.  When nobody *)
(* asks for one and there is no such subscription, the wait never ends,    *)
(* shutdown or not.                                                        *)
start_recording ==
  /\ phase = "recording"
  /\ \/ /\ target # 0
        /\ phase' = "ready"
        /\ attached' = target /\ owned' = TRUE
        /\ archive' = [archive EXCEPT ![target].open = TRUE]
     \/ /\ target = 0
        /\ phase' = "ready"
        /\ \E r \in DOMAIN archive : archive[r].open /\ attached' = r
        /\ owned' = FALSE
        /\ UNCHANGED archive
     \/ /\ target = 0
        /\ \A r \in DOMAIN archive : ~archive[r].open
        /\ phase' = "ready"
        /\ archive' = Append(archive, EmptyRecording)
        /\ attached' = Len(archive')
        /\ owned' \in IF TakenForActive = {} THEN BOOLEAN ELSE {FALSE}
     \/ /\ target = 0
        /\ \A r \in DOMAIN archive : ~archive[r].open
        /\ TakenForActive # {}
        /\ phase' = "waiting"
        /\ attached' = 0 /\ owned' = FALSE
        /\ UNCHANGED archive
  /\ UNCHANGED <<pipeVars, ring, shutdown, replay_enabled, target, frames,
                 boots, next_command, historyVars>>

(* Replayed commands are still on their way to the journaling handler.     *)
Undrained == replay_enabled /\ cursor[Pipe!Journaling] < published

(* run: new has returned, replay_control.disable() is called, and the      *)
(* server polls its gateways if new succeeded.                             *)
replay_disabled(next_phase) ==
  /\ phase' = next_phase
  /\ replay_enabled' = FALSE
  /\ undrained' = (undrained \/ Undrained)
  /\ UNCHANGED <<pipeVars, ring, shutdown, target, frames, attached, owned,
                 boots, archive, next_command, answered, unarchived, missed>>

server_created == phase = "ready" /\ replay_disabled("serving")

server_failed ==
  /\ phase \in {"starting", "replaying", "recording", "ready"}
  /\ replay_disabled("stopping")

(* VexCoreServer::shutdown: a recording of its own is stopped, unless an   *)
(* earlier step of the shutdown fails.                                     *)
server_shutdown ==
  /\ phase = "serving" /\ shutdown
  /\ phase' = "stopping"
  /\ archive' \in {archive} \cup
       (IF owned THEN {[archive EXCEPT ![attached].open = FALSE]} ELSE {})
  /\ UNCHANGED <<pipeVars, ring, shutdown, replay_enabled, target, frames,
                 attached, owned, boots, next_command, historyVars>>

-----------------------------------------------------------------------------
(* Commands.                                                               *)

(* FragmentHandler: polled only while the server serves.                   *)
gateway_fragment ==
  /\ phase = "serving" /\ ~shutdown
  /\ next_command <= MaxCommands
  /\ next_command' = next_command + 1
  /\ \/ /\ Pipe!publish
        /\ ring' = Append(ring, <<next_command, TRUE>>)
     \/ /\ Pipe!drop
        /\ UNCHANGED ring
  /\ UNCHANGED <<serverVars, archive, historyVars>>

(* The end of the term a log is in.                                        *)
TermEnd(stop_position) ==
  (stop_position \div TERM_LENGTH + 1) * TERM_LENGTH

(* The rest of the term is too short for another frame.                    *)
Trips(r) ==
  /\ archive[r].stop_position % TERM_LENGTH # 0
  /\ archive[r].stop_position + FRAMESIZE > TermEnd(archive[r].stop_position)

(* publish_to_archive: the offer is made once; a result below zero is only *)
(* logged.  An offer that does not fit the term pads it and has to be made *)
(* again; one may also fail for other reasons, and does without a          *)
(* publication or a recording behind it.                                   *)
publish_to_archive(c) ==
  \/ /\ attached # 0 /\ archive[attached].open /\ ~Trips(attached)
     /\ archive' = [archive EXCEPT
                      ![attached].log = Append(@, c),
                      ![attached].stop_position = @ + FRAMESIZE]
     /\ UNCHANGED unarchived
  \/ /\ attached # 0 /\ archive[attached].open /\ Trips(attached)
     /\ archive' = [archive EXCEPT ![attached].stop_position = TermEnd(@)]
     /\ unarchived' = unarchived \cup {c}
  \/ /\ UNCHANGED archive
     /\ unarchived' = unarchived \cup {c}

(* Mutant: the replay flag is not looked at.                               *)
journal_command_always ==
  /\ phase # "down"
  /\ Pipe!handle(Pipe!Journaling)
  /\ publish_to_archive(ring[cursor'[Pipe!Journaling]][1])
  /\ UNCHANGED <<ring, serverVars, next_command, answered, missed, undrained>>

journal_command ==
  /\ phase # "down"
  /\ Pipe!handle(Pipe!Journaling)
  /\ \/ replay_enabled /\ UNCHANGED <<archive, unarchived>>
     \/ ~replay_enabled /\ publish_to_archive(ring[cursor'[Pipe!Journaling]][1])
  /\ UNCHANGED <<ring, serverVars, next_command, answered, missed, undrained>>

(* R1, matching and R2 work on a replayed command as on any other.         *)
process_command(h) ==
  /\ phase # "down"
  /\ h \notin {Pipe!Journaling, Pipe!Events}
  /\ Pipe!handle(h)
  /\ UNCHANGED <<ring, serverVars, archive, next_command, historyVars>>

(* The events handler: silent while the replay flag is set.                *)
handle_processed_command ==
  LET c == ring[cursor'[Pipe!Events]]
  IN /\ phase # "down"
     /\ Pipe!handle(Pipe!Events)
     /\ answered' = IF replay_enabled THEN answered
                    ELSE Append(answered,
                           [command |-> c[1], live |-> c[2], boot |-> boots,
                            recording |-> attached])
     /\ UNCHANGED <<ring, serverVars, archive, next_command, unarchived,
                    missed, undrained>>

(* External: the archive closes a recording nobody writes to.              *)
recording_closed ==
  /\ \E r \in DOMAIN archive :
       /\ archive[r].open /\ r # attached
       /\ archive' = [archive EXCEPT ![r].open = FALSE]
  /\ UNCHANGED <<pipeVars, ring, serverVars, next_command, historyVars>>

-----------------------------------------------------------------------------
Init ==
  /\ Pipe!Init
  /\ ring = <<>>
  /\ phase = "down" /\ shutdown = FALSE /\ replay_enabled = FALSE
  /\ target = 0 /\ frames = 0 /\ attached = 0 /\ owned = FALSE
  /\ boots = 0
  /\ archive = <<>>
  /\ next_command = 1
  /\ answered = <<>> /\ unarchived = {} /\ missed = {} /\ undrained = FALSE

Next ==
  \/ \E replay \in BOOLEAN : start(replay)
  \/ process_ends \/ shutdown_signal
  \/ start_replay \/ replay_fragment \/ replay_completed
  \/ start_recording \/ server_created \/ server_failed \/ server_shutdown
  \/ gateway_fragment
  \/ journal_command \/ handle_processed_command
  \/ \E h \in Pipe!Handlers : process_command(h)
  \/ recording_closed

(* The replay loop busy-spins on its subscription.                         *)
Spec == Init /\ [][Next]_vars /\ WF_vars(replay_fragment \/ replay_completed)

-----------------------------------------------------------------------------
TypeOK ==
  /\ phase \in Phases
  /\ shutdown \in BOOLEAN /\ replay_enabled \in BOOLEAN /\ owned \in BOOLEAN
  /\ boots \in 0 .. MaxBoots
  /\ next_command \in 1 .. MaxCommands + 1
  /\ \A r \in DOMAIN archive :
       /\ archive[r].log \in Seq(1 .. MaxCommands)
       /\ Len(archive[r].log) * FRAMESIZE <= archive[r].stop_position
  /\ target \in {0} \cup DOMAIN archive
  /\ attached \in {0} \cup DOMAIN archive
  /\ target # 0 => frames \in 0 .. Len(archive[target].log)
  /\ Len(ring) = published /\ cursor \in [Pipe!Handlers -> 0 .. published]

(* The commands the order books of this process have seen.                 *)
Applied ==
  [i \in 1 .. cursor[Pipe!Matching(CHOOSE m \in Routers : TRUE)] |-> ring[i][1]]

First(s, x) == CHOOSE i \in DOMAIN s : s[i] = x /\ \A j \in 1 .. i - 1 : s[j] # x

(* The replay has run to its end and matching has caught up with it.       *)
Recovered ==
  /\ target # 0 /\ phase = "serving" /\ ~shutdown
  /\ \A i \in Len(Applied) + 1 .. published : ring[i][2]

(* Commands answered by earlier processes that wrote to the recording.     *)
Durable ==
  {answered[i].command : i \in
     {j \in DOMAIN answered : /\ answered[j].recording = target
                              /\ answered[j].boot < boots}}
    \ (unarchived \cup missed)

(* A command that was answered survives a crash: once a server has         *)
(* replayed a recording, its books have seen every command answered by the *)
(* servers that wrote it, in the order the gateways got the answers and    *)
(* before any live command, except those whose offer to the archive failed *)
(* and those the replay itself lost on a full ring.  (The barriers make    *)
(* the handlers archive before they answer, journaling and matching see    *)
(* the same order, and the recording is extended by every later server     *)
(* that replays it.  A command a gateway never got an answer to may be     *)
(* answered late, by a server that replays it: see Undrained.)             *)
AnsweredSurvive ==
  Recovered =>
    LET order == [i \in DOMAIN answered |->
                    IF answered[i].live THEN answered[i].command ELSE 0]
    IN /\ Durable \subseteq ToSet(Applied)
       /\ \A c, d \in Durable \cap ToSet(order) :
            First(order, c) < First(order, d)
              => First(Applied, c) < First(Applied, d)
       /\ \A i, j \in 1 .. published : ring[i][2] /\ i < j => ring[j][2]

(* Journaling is skipped "during replay to avoid re-persisting [...]       *)
(* already recorded events" (ARCHITECTURE.md:1238): no command is recorded *)
(* twice, over any number of replays, joined and extended recordings, as   *)
(* long as the pipeline was drained whenever the flag was cleared, which   *)
(* nothing in the code waits for.                                          *)
RecordedOnceIfDrained ==
  ~undrained =>
    \A q, r \in DOMAIN archive :
      \A i \in DOMAIN archive[q].log, j \in DOMAIN archive[r].log :
        archive[q].log[i] = archive[r].log[j] => q = r /\ i = j

(* "After replay completes, calls extend_recording()"                      *)
(* (ARCHITECTURE.md:1236): the loop that polls the replay comes to an end. *)
ReplayEnds == phase = "replaying" ~> phase # "replaying"
=============================================================================
