-------------------------- MODULE GatewaySessions --------------------------
(***************************************************************************)
(* The life of a gateway's session with the core (networking/src): the     *)
(* HELLO handshake, the allocation of a session id and two UDP ports, the  *)
(* dedicated channel (a "duologue"), its loss, its clean-up, and shutdown. *)
(*                                                                         *)
(* Four threads take part.  The server thread runs the loop of             *)
(* VexCoreServer::start: it polls handshakes, then drains the clean-up     *)
(* channel, and is the only one to touch the slots and the port allocator. *)
(* The Aeron conductor thread runs the image callbacks and finishes the    *)
(* asynchronous close of a subscription.  The events thread reads          *)
(* `publications' to route responses.  Each gateway is a client process.   *)
(*                                                                         *)
(* Assumed: an add_subscription that fails leaves nothing bound itself.    *)
(*                                                                         *)
(* Abstracted: the text of the messages and malformed HELLOs (a REJECT and *)
(* nothing else); authentication, which always succeeds; the session id's  *)
(* XOR with the gateway's key, undone by the gateway with the same key;    *)
(* order traffic, which Pipeline models.  Time is the action Elapse.       *)
(***************************************************************************)
EXTENDS Naturals, Sequences, FiniteSets, Functions

CONSTANTS
  Gateways,      \* gateway ids below MAX_GATEWAYS
  Ports,         \* the allocator's range, config.max_gateways ports
  Sessions,      \* reserved_session_id_low .. reserved_session_id_high - 1
  MaxAttempts,   \* bound: calls of VexGateway::start, over all gateways
  MaxChannels,   \* bound: duologues the core ever creates
  MaxFlaps,      \* bound: images lost while their gateway is still there
  None           \* Option::None

ASSUME ConstantsAssumption ==
  /\ IsFiniteSet(Ports) /\ IsFiniteSet(Gateways) /\ IsFiniteSet(Sessions)
  /\ MaxAttempts \in Nat /\ MaxChannels \in Nat /\ MaxFlaps \in Nat
  /\ None \notin Nat

VARIABLES
  slots,         \* Session.slots: the duologue of each gateway, or None
  publications,  \* Publications.gateways: where a gateway's responses go
  recently_freed,\* PortAllocator: "free", "cooling" or "expired" per port
  cleanup,       \* the mpsc channel of gateway ids to clean up
  channels,      \* the duologues created so far, numbered in order
  server,        \* where the server thread is, and on what
  shutdown,      \* the shared shutdown flag
  hellos,        \* handshake fragments the core has not polled yet
  client,        \* each gateway: its phase, its attempt, its channel
  reply,         \* the core's reply to the gateway's current attempt
  flaps          \* how often an image was lost with its gateway still there

core  == <<slots, publications, recently_freed, server>>
peers == <<hellos, client, reply>>
vars  == <<core, cleanup, channels, shutdown, peers, flaps>>

\* A duologue: the gateway it was made for, its session id and ports (data,
\* control), how far its subscription's close has got, whether an image is
\* up, whether one was ever lost, and whether the handlers of its callbacks
\* are still allocated.  Two states are of failures: "stuck", a subscription
\* nobody will close any more, and "leftover", the publication of an
\* allocation that found no subscription, on its way to being closed.
Channel ==
  [gateway : Gateways, session : Sessions, ports : Ports \X Ports,
   state : {"open", "closing", "stuck", "leftover", "closed"},
   image : BOOLEAN, lost : BOOLEAN, handlers : {"live", "released"}]

Server ==
  [pc : {"top", "handshake", "accept", "cleanup", "close", "shutdown",
         "stopped"},
   on : Gateways \cup Nat \cup {None},   \* gateway or channel in hand
   attempt : Nat,                        \* the HELLO being answered
   ret : {"handshake", "cleanup", "shutdown"}]

Replies == [kind : {"ACCEPT"}, channel : Nat]
           \cup [kind : {"REJECT"}, channel : {None}]

(* Every variable has its type; the port allocator forgets no port.        *)
TypeOK ==
  /\ channels \in Seq(Channel) /\ Len(channels) <= MaxChannels
  /\ slots \in [Gateways -> (1 .. Len(channels)) \cup {None}]
  /\ publications \in [Gateways -> (1 .. Len(channels)) \cup {None}]
  /\ recently_freed \in [Ports -> {"free", "cooling", "expired"}]
  /\ cleanup \in Seq(Gateways)
  /\ server \in Server
  /\ shutdown \in BOOLEAN
  /\ hellos \subseteq [gateway : Gateways, attempt : 1 .. MaxAttempts]
  /\ client \in [Gateways ->
                   [phase : {"idle", "waiting", "joining", "joined"},
                    attempt : 0 .. MaxAttempts,
                    channel : (1 .. Len(channels)) \cup {None}]]
  /\ reply \in [Gateways -> Replies \cup {None}]
  /\ flaps \in 0 .. MaxFlaps

Init ==
  /\ slots = [g \in Gateways |-> None]
  /\ publications = [g \in Gateways |-> None]
  /\ recently_freed = [p \in Ports |-> "free"]
  /\ cleanup = << >> /\ channels = << >>
  /\ server = [pc |-> "top", on |-> None, attempt |-> 0, ret |-> "handshake"]
  /\ shutdown = FALSE
  /\ hellos = {}
  /\ client = [g \in Gateways |->
                 [phase |-> "idle", attempt |-> 0, channel |-> None]]
  /\ reply = [g \in Gateways |-> None]
  /\ flaps = 0

-----------------------------------------------------------------------------
(* The allocators, which keep no list of their own: the slots are the      *)
(* source of truth for what is in use.                                     *)

Connected == {g \in Gateways : slots[g] # None}

PortsOf(n) == {channels[n].ports[1], channels[n].ports[2]}

get_ports_in_use == UNION {PortsOf(slots[g]) : g \in Connected}

get_sessions_in_use == {channels[slots[g]].session : g \in Connected}

\* mark_freed: (re)starts the cooldown of some ports.
mark_freed(ports) ==
  [p \in Ports |-> IF p \in ports THEN "cooling" ELSE recently_freed[p]]

\* cleanup_expired_ports: forgets the ports whose cooldown is over.
cleanup_expired_ports ==
  [p \in Ports |-> IF recently_freed[p] = "expired" THEN "free"
                                                    ELSE recently_freed[p]]

\* The keys left in recently_freed_ports once allocate has cleaned it.
InCooldown == {p \in Ports : cleanup_expired_ports[p] # "free"}

\* Mutant: the draw forgets the ports in cooldown.
AllocatableIgnoringCooldown ==
  {ports \in Ports \X Ports :
     /\ 2 + Cardinality(get_ports_in_use) + Cardinality(InCooldown)
          <= Cardinality(Ports)
     /\ ports[1] # ports[2]
     /\ \A i \in 1 .. 2 : ports[i] \notin get_ports_in_use}

\* PortAllocator::allocate(2, ..): what may be returned.  The draw is random,
\* so any two distinct ports that pass the test may come out.
AllocatablePorts ==
  {ports \in Ports \X Ports :
     /\ 2 + Cardinality(get_ports_in_use) + Cardinality(InCooldown)
          <= Cardinality(Ports)
     /\ ports[1] # ports[2]
     /\ \A i \in 1 .. 2 : ports[i] \notin get_ports_in_use \cup InCooldown}

\* SessionAllocator::allocate: any id not in use.
AllocatableSessions ==
  {s \in Sessions :
     /\ Cardinality(get_sessions_in_use) < Cardinality(Sessions)
     /\ s \notin get_sessions_in_use}

-----------------------------------------------------------------------------
(* The server thread.                                                      *)

At(pc) == server.pc = pc
Goto(pc) ==
  server' = [pc |-> pc, on |-> None, attempt |-> 0, ret |-> "handshake"]

\* The head of the loop: leave it on shutdown, else poll the handshakes.
LoopTop ==
  /\ At("top")
  /\ Goto(IF shutdown THEN "shutdown" ELSE "handshake")
  /\ UNCHANGED <<slots, publications, recently_freed, cleanup, channels,
                 shutdown, peers, flaps>>

\* A reply to an attempt its gateway has given up is ignored there
\* (parse_core_response compares the session), so it is not kept.
Answer(g, a, r) ==
  reply' = IF client[g].phase = "waiting" /\ client[g].attempt = a
             THEN [reply EXCEPT ![g] = r]
             ELSE reply

\* check_duplicate_connection finds the gateway's slot taken.
RejectDuplicate(h) ==
  /\ At("handshake") /\ h \in hellos
  /\ slots[h.gateway] # None
  /\ hellos' = hellos \ {h}
  /\ Answer(h.gateway, h.attempt, [kind |-> "REJECT", channel |-> None])
  /\ UNCHANGED <<core, cleanup, channels, shutdown, client, flaps>>

\* allocate_gateway_session returns an error before it has created anything:
\* too few ports or ids, no luck in the draws, or Aeron refuses the
\* publication.  The gateway is told nothing.
AllocationFails(h) ==
  /\ At("handshake") /\ h \in hellos
  /\ slots[h.gateway] = None
  /\ hellos' = hellos \ {h}
  /\ recently_freed' = cleanup_expired_ports
  /\ UNCHANGED <<slots, publications, server, cleanup, channels, shutdown,
                 client, reply, flaps>>

NewChannel(g, ports, s, state) ==
  [gateway |-> g, session |-> s, ports |-> ports, state |-> state,
   image |-> FALSE, lost |-> FALSE, handlers |-> "live"]

\* allocate_gateway_session has its publication, on the control port, when
\* Aeron refuses the subscription.  Dropping the publication closes it
\* asynchronously; its port is in no slot and mark_freed never hears of it.
\* The gateway is told nothing.
SubscriptionFails(h, ports, s) ==
  /\ At("handshake") /\ h \in hellos
  /\ slots[h.gateway] = None
  /\ Len(channels) < MaxChannels
  /\ ports \in AllocatablePorts /\ s \in AllocatableSessions
  /\ channels' = Append(channels, NewChannel(h.gateway, ports, s, "leftover"))
  /\ recently_freed' = cleanup_expired_ports
  /\ hellos' = hellos \ {h}
  /\ UNCHANGED <<slots, publications, server, cleanup, shutdown, client, reply,
                 flaps>>

\* Mutant: no check for a duplicate connection.
AllocateUnchecked(h, ports, s) ==
  LET g == h.gateway
      n == Len(channels) + 1
  IN  /\ At("handshake") /\ h \in hellos
      /\ n <= MaxChannels
      /\ ports \in AllocatablePorts /\ s \in AllocatableSessions
      /\ channels' = Append(channels, NewChannel(g, ports, s, "open"))
      /\ publications' = [publications EXCEPT ![g] = n]
      /\ slots' = [slots EXCEPT ![g] = n]
      /\ recently_freed' = cleanup_expired_ports
      /\ hellos' = hellos \ {h}
      /\ server' = [pc |-> "accept", on |-> g, attempt |-> h.attempt,
                    ret |-> "handshake"]
      /\ UNCHANGED <<cleanup, shutdown, client, reply, flaps>>

\* allocate_gateway_session succeeds: a publication on the control port, a
\* subscription on the data port, and the slot that owns them.
AllocateSession(h, ports, s) ==
  LET g == h.gateway
      n == Len(channels) + 1
  IN  /\ At("handshake") /\ h \in hellos
      /\ slots[g] = None
      /\ n <= MaxChannels
      /\ ports \in AllocatablePorts /\ s \in AllocatableSessions
      /\ channels' = Append(channels, NewChannel(g, ports, s, "open"))
      /\ publications' = [publications EXCEPT ![g] = n]
      /\ slots' = [slots EXCEPT ![g] = n]
      /\ recently_freed' = cleanup_expired_ports
      /\ hellos' = hellos \ {h}
      /\ server' = [pc |-> "accept", on |-> g, attempt |-> h.attempt,
                    ret |-> "handshake"]
      /\ UNCHANGED <<cleanup, shutdown, client, reply, flaps>>

\* The ACCEPT was offered to the handshake publication: the handshake is
\* over, whether or not the gateway ever reads it.
AcceptSent ==
  /\ At("accept")
  /\ Answer(server.on, server.attempt,
            [kind |-> "ACCEPT", channel |-> slots[server.on]])
  /\ Goto("handshake")
  /\ UNCHANGED <<slots, publications, recently_freed, cleanup, channels,
                 shutdown, hellos, client, flaps>>

\* Mutant: the publication is left behind.
TakeSessionOnly(g, ret) ==
  /\ IF slots[g] = None
       THEN Goto(ret)
       ELSE server' = [pc |-> "close", on |-> slots[g], attempt |-> 0,
                       ret |-> ret]
  /\ slots' = [slots EXCEPT ![g] = None]
  /\ UNCHANGED <<publications, recently_freed, channels, shutdown, flaps>>

\* remove_gateway_session, first half: the slot and the publication go.
\* Without a session it only logs, and the caller carries on.
TakeSession(g, ret) ==
  /\ IF slots[g] = None
       THEN Goto(ret)
       ELSE server' = [pc |-> "close", on |-> slots[g], attempt |-> 0,
                       ret |-> ret]
  /\ slots' = [slots EXCEPT ![g] = None]
  /\ publications' = IF slots[g] = None
                       THEN publications
                       ELSE [publications EXCEPT ![g] = None]
  /\ UNCHANGED <<recently_freed, channels, shutdown, flaps>>

\* The publication stayed unconnected for 5 s, or five offers failed.
AcceptFailed ==
  /\ At("accept")
  /\ TakeSession(server.on, "handshake")
  /\ UNCHANGED <<cleanup, peers>>

\* Mutants: the ports do not cool; the subscription is not closed; the
\* handlers are released at once.
CloseWithoutCooldown(state) ==
  /\ At("close")
  /\ channels' = [channels EXCEPT ![server.on].state = state]
  /\ Goto(server.ret)
  /\ UNCHANGED <<slots, publications, recently_freed, cleanup, shutdown, peers,
                 flaps>>

CloseForgotten(state) ==
  /\ At("close")
  /\ recently_freed' = mark_freed(PortsOf(server.on))
  /\ Goto(server.ret)
  /\ UNCHANGED <<slots, publications, cleanup, channels, shutdown, peers,
                 flaps>>

CloseReleasesAtOnce(state) ==
  /\ At("close")
  /\ channels' = [channels EXCEPT ![server.on].state = state,
                                  ![server.on].handlers = "released"]
  /\ recently_freed' = mark_freed(PortsOf(server.on))
  /\ Goto(server.ret)
  /\ UNCHANGED <<slots, publications, cleanup, shutdown, peers, flaps>>

\* remove_gateway_session, second half.  Duologue::close asks for an
\* asynchronous close and leaves the handlers to its notification; when the
\* request fails, Drop asks again (without a notification: the handlers are
\* then never released, which no property minds); when that fails too, it is
\* logged and the subscription is stuck.  The ports start to cool in any case.
CloseSession(state) ==
  /\ At("close")
  /\ channels' = [channels EXCEPT ![server.on].state = state]
  /\ recently_freed' = mark_freed(PortsOf(server.on))
  /\ Goto(server.ret)
  /\ UNCHANGED <<slots, publications, cleanup, shutdown, peers, flaps>>

\* The poll of the handshake subscription is over.
HandshakesPolled ==
  /\ At("handshake")
  /\ Goto("cleanup")
  /\ UNCHANGED <<slots, publications, recently_freed, cleanup, channels,
                 shutdown, peers, flaps>>

\* Mutant: the channel is drained and only its first request served.
CleanupFirstOnly ==
  /\ At("cleanup") /\ cleanup # << >>
  /\ cleanup' = << >>
  /\ TakeSession(Head(cleanup), "cleanup")
  /\ UNCHANGED peers

\* process_cleanup_requests takes one gateway id off the channel.
CleanupRequest ==
  /\ At("cleanup") /\ cleanup # << >>
  /\ cleanup' = Tail(cleanup)
  /\ TakeSession(Head(cleanup), "cleanup")
  /\ UNCHANGED peers

\* The channel is empty: poll the duologues (Pipeline) and loop.
CleanupDone ==
  /\ At("cleanup") /\ cleanup = << >>
  /\ Goto("top")
  /\ UNCHANGED <<slots, publications, recently_freed, cleanup, channels,
                 shutdown, peers, flaps>>

\* shutdown_all_gateways, one gateway at a time.
ShutdownGateway(g) ==
  /\ At("shutdown") /\ slots[g] # None
  /\ TakeSession(g, "shutdown")
  /\ UNCHANGED <<cleanup, peers>>

ShutdownComplete ==
  /\ At("shutdown") /\ Connected = {}
  /\ Goto("stopped")
  /\ UNCHANGED <<slots, publications, recently_freed, cleanup, channels,
                 shutdown, peers, flaps>>

ServerStep ==
  \/ LoopTop
  \/ \E h \in hellos : RejectDuplicate(h) \/ AllocationFails(h)
  \/ \E h \in hellos, ports \in AllocatablePorts, s \in AllocatableSessions :
       AllocateSession(h, ports, s) \/ SubscriptionFails(h, ports, s)
  \/ AcceptSent \/ AcceptFailed
  \/ \E state \in {"closing", "stuck"} : CloseSession(state)
  \/ HandshakesPolled \/ CleanupRequest \/ CleanupDone
  \/ \E g \in Gateways : ShutdownGateway(g)
  \/ ShutdownComplete

-----------------------------------------------------------------------------
(* The Aeron conductor thread.                                             *)

\* The gateway of channel n has it open on its side.
Holds(n) ==
  LET c == client[channels[n].gateway]
  IN  c.channel = n /\ c.phase \in {"joining", "joined"}

\* The gateway's publication reaches the subscription.  The callback logs.
ImageAvailable(n) ==
  /\ channels[n].state # "closed" /\ ~channels[n].image /\ Holds(n)
  /\ channels' = [channels EXCEPT ![n].image = TRUE]
  /\ UNCHANGED <<core, cleanup, shutdown, peers, flaps>>

\* Mutant: the callback sends the session's id instead of the gateway's.
ImageUnavailableBySession(n) ==
  /\ channels[n].state # "closed" /\ channels[n].image
  /\ Holds(n) => flaps < MaxFlaps
  /\ flaps' = IF Holds(n) THEN flaps + 1 ELSE flaps
  /\ channels' = [channels EXCEPT ![n].image = FALSE, ![n].lost = TRUE]
  /\ cleanup' = Append(cleanup, channels[n].session)
  /\ UNCHANGED <<core, shutdown, peers>>

\* The image times out or its publication closes: the callback puts the
\* gateway's id, and nothing that names the session, on the channel.
ImageUnavailable(n) ==
  /\ channels[n].state # "closed" /\ channels[n].image
  /\ Holds(n) => flaps < MaxFlaps
  /\ flaps' = IF Holds(n) THEN flaps + 1 ELSE flaps
  /\ channels' = [channels EXCEPT ![n].image = FALSE, ![n].lost = TRUE]
  /\ cleanup' = Append(cleanup, channels[n].gateway)
  /\ UNCHANGED <<core, shutdown, peers>>

\* The close is finished: no callback runs from here on, and the close
\* notification releases the handlers.  An image still up
\* may be reported unavailable first (told).
SubscriptionClosed(n, told) ==
  /\ channels[n].state = "closing"
  /\ told => channels[n].image
  /\ cleanup' = IF told THEN Append(cleanup, channels[n].gateway) ELSE cleanup
  /\ channels' = [channels EXCEPT
       ![n].state = "closed", ![n].image = FALSE, ![n].lost = @ \/ told,
       ![n].handlers = "released"]
  /\ UNCHANGED <<core, shutdown, peers, flaps>>

\* The close of a leftover publication is finished.
PublicationClosed(n) ==
  /\ channels[n].state = "leftover"
  /\ channels' = [channels EXCEPT ![n].state = "closed"]
  /\ UNCHANGED <<core, cleanup, shutdown, peers, flaps>>

\* What the allocator is meant to know of: a channel in a slot, in the
\* server's hand, or closing as it was asked to.
Tracked(n) == channels[n].state \in {"open", "closing"}

\* PORT_COOLDOWN_SECONDS pass for the two ports of a channel, which mark_freed
\* gave one timestamp.  They are there to let the ports' bindings go first:
\* a close that was asked for takes less than the cooldown.
Elapse(n) ==
  /\ \A m \in 1 .. Len(channels) :
       Tracked(m) => PortsOf(m) \cap PortsOf(n) = {}
  /\ \A i \in 1 .. 2 : recently_freed[channels[n].ports[i]] = "cooling"
  /\ recently_freed' =
       [p \in Ports |-> IF p \in PortsOf(n) THEN "expired"
                                           ELSE recently_freed[p]]
  /\ UNCHANGED <<slots, publications, server, cleanup, channels, shutdown,
                 peers, flaps>>

Conductor ==
  \E n \in 1 .. Len(channels) :
    \/ ImageAvailable(n) \/ ImageUnavailable(n)
    \/ \E told \in BOOLEAN : SubscriptionClosed(n, told)
    \/ PublicationClosed(n)
    \/ Elapse(n)

-----------------------------------------------------------------------------
(* A gateway (networking/src/client) and the outside world.                *)

Attempts == SumFunction([g \in Gateways |-> client[g].attempt])

\* VexGateway::start, up to the HELLO.  A fresh handshake publication gives
\* each attempt its own session, hence the number.
Hello(g) ==
  /\ client[g].phase = "idle" /\ Attempts < MaxAttempts
  /\ client' = [client EXCEPT
       ![g] = [phase |-> "waiting", attempt |-> @.attempt + 1,
               channel |-> None]]
  /\ hellos' = hellos \cup {[gateway |-> g, attempt |-> client[g].attempt + 1]}
  /\ UNCHANGED <<core, cleanup, channels, shutdown, reply, flaps>>

\* wait_for_core_response returns: open the dedicated channel, or give up.
CoreResponse(g) ==
  /\ client[g].phase = "waiting" /\ reply[g] # None
  /\ client' = [client EXCEPT
       ![g].phase = IF reply[g].kind = "ACCEPT" THEN "joining" ELSE "idle",
       ![g].channel = reply[g].channel]
  /\ reply' = [reply EXCEPT ![g] = None]
  /\ UNCHANGED <<core, cleanup, channels, shutdown, hellos, flaps>>

\* The gateway's subscription was not yet connected when the core replied:
\* it waits for its publication only, so the reply is gone.
ReplyLost(g) ==
  /\ reply[g] # None
  /\ reply' = [reply EXCEPT ![g] = None]
  /\ UNCHANGED <<core, cleanup, channels, shutdown, hellos, client, flaps>>

\* wait_for_channel_connections returns: start() succeeds.
ChannelReady(g) ==
  /\ client[g].phase = "joining"
  /\ channels[client[g].channel].image
  /\ publications[g] = client[g].channel
  /\ client' = [client EXCEPT ![g].phase = "joined"]
  /\ UNCHANGED <<core, cleanup, channels, shutdown, hellos, reply, flaps>>

\* CONNECT_TIMEOUT passes, the gateway is shut down, or it crashes.
GiveUp(g) ==
  /\ client[g].phase # "idle"
  /\ client' = [client EXCEPT ![g].phase = "idle", ![g].channel = None]
  /\ reply' = [reply EXCEPT ![g] = None]
  /\ UNCHANGED <<core, cleanup, channels, shutdown, hellos, flaps>>

ShutdownRequested ==
  /\ ~shutdown /\ shutdown' = TRUE
  /\ UNCHANGED <<core, cleanup, channels, peers, flaps>>

Peer ==
  \/ \E g \in Gateways :
       Hello(g) \/ CoreResponse(g) \/ ReplyLost(g) \/ ChannelReady(g)
         \/ GiveUp(g)
  \/ ShutdownRequested

\* Nothing is left to do once the server has stopped.
Stopped == At("stopped") /\ UNCHANGED vars

Next == ServerStep \/ Conductor \/ Peer \/ Stopped

\* The server thread spins and never waits for another; the conductor
\* reports a dead image and finishes a close in bounded time.
Fairness ==
  /\ WF_vars(ServerStep)
  /\ \A n \in 1 .. MaxChannels :
       /\ WF_vars(n <= Len(channels) /\ ~Holds(n) /\ ImageUnavailable(n))
       /\ WF_vars(/\ n <= Len(channels)
                  /\ \E told \in BOOLEAN : SubscriptionClosed(n, told))
       /\ WF_vars(n <= Len(channels) /\ PublicationClosed(n))

Spec == Init /\ [][Next]_vars /\ Fairness

-----------------------------------------------------------------------------
(* The ports a channel has bound: both, until its close has finished; the  *)
(* data port of a stuck subscription, whose publication is gone; the       *)
(* control port of a leftover publication, until it is closed.             *)
Bound(n) ==
  CASE Tracked(n) -> PortsOf(n)
    [] channels[n].state = "stuck" -> {channels[n].ports[1]}
    [] channels[n].state = "leftover" -> {channels[n].ports[2]}
    [] OTHER -> {}

(* No two sessions, a closing one included, share a UDP port: from the     *)
(* draw until the close that was asked for has finished, the slots and the *)
(* cooldown together cover what PortAllocator must not draw.  They do not  *)
(* cover what nobody asks to close, which PortsBoundOnce is about.         *)
SessionPortsExclusive ==
  \A m, n \in 1 .. Len(channels) :
    m # n /\ Tracked(m) /\ Tracked(n) => PortsOf(m) \cap PortsOf(n) = {}

(* No UDP port is ever bound twice: "Mark ports as recently freed to avoid *)
(* OS-level port binding race conditions" (gateway_manager.rs), "avoiding  *)
(* the ports already in use and recently freed ports" (utils.rs).  NOT an  *)
(* invariant: SubscriptionFails leaves a port bound that may be drawn at   *)
(* once, a stuck close one that may be drawn when its cooldown is over.    *)
PortsBoundOnce ==
  \A m, n \in 1 .. Len(channels) : m # n => Bound(m) \cap Bound(n) = {}

(* allocate's test on counts (total - used - in_cooldown) refuses only     *)
(* when two ports really are not free: no port in use is also counted as   *)
(* cooling, and no two gateways share one.  (A port left over from a       *)
(* failure is counted nowhere, and may be drawn: see PortsBoundOnce.)      *)
CapacityCountExact ==
  2 * Cardinality(Connected) + Cardinality(InCooldown)
    = Cardinality(get_ports_in_use \cup InCooldown)

(* Responses are routed to the session the gateway has now, and to it      *)
(* alone: whenever the events thread loads a publication, it belongs to    *)
(* the open channel in that gateway's slot, every slot has one, and no     *)
(* other gateway's channel has its session id.                             *)
ResponsesGoToTheSlot ==
  \A g \in Gateways :
    /\ publications[g] = slots[g]
    /\ slots[g] # None =>
         /\ channels[slots[g]].gateway = g
         /\ channels[slots[g]].state = "open"
         /\ \A h \in Connected \ {g} :
              channels[slots[h]].session # channels[slots[g]].session

(* Every open channel is in a slot, or is the one remove_gateway_session   *)
(* is about to ask to close: no error path forgets a subscription.  (One   *)
(* whose two close requests failed is stuck; nothing else stays open.)     *)
NoOrphanChannel ==
  \A n \in 1 .. Len(channels) :
    channels[n].state = "open" =>
      \/ slots[channels[n].gateway] = n
      \/ At("close") /\ server.on = n

(* The conductor may run an image callback until the close of the          *)
(* subscription has finished, and its handler is allocated until then.     *)
HandlersOutliveCallbacks ==
  \A n \in 1 .. Len(channels) :
    channels[n].state # "closed" => channels[n].handlers = "live"

(* A joined gateway keeps its session while its image is up: a clean-up    *)
(* request, though it names only the gateway, removes no session but the   *)
(* one that was lost.  This needs images not to come back once lost on the *)
(* same channel (flaps = 0).                                               *)
LiveSessionKept ==
  \A g \in Gateways :
    (/\ client[g].phase = "joined" /\ ~channels[client[g].channel].lost
     /\ flaps = 0 /\ ~shutdown)
      => slots[g] = client[g].channel

(* No clean-up is lost: as long as a session whose image went away keeps  *)
(* its slot, and so has its gateway refused as a duplicate, a request for  *)
(* that gateway is waiting on the channel.                                 *)
LostSessionQueued ==
  \A g \in Gateways :
    slots[g] # None /\ channels[slots[g]].lost =>
      \E i \in 1 .. Len(cleanup) : cleanup[i] = g

(* "Automatic resource cleanup": the session of a gateway that has gone    *)
(* away is removed in the end.                                             *)
AbandonedSessionFreed ==
  \A g \in Gateways, n \in 1 .. MaxChannels :
    (slots[g] = n /\ client[g].phase = "idle")
      ~> (slots[g] # n \/ client[g].phase # "idle")
=============================================================================
