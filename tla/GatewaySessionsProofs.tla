----------------------- MODULE GatewaySessionsProofs -----------------------
(***************************************************************************)
(* The invariants of GatewaySessions, for every number of gateways, ports, *)
(* session ids, attempts and channels.                                     *)
(*                                                                         *)
(* None of them is inductive alone.  Sessions share no port because the    *)
(* slots, the server's hand and the cooldown cover every session between   *)
(* them until its close has finished (CooldownCovers, NoOrphanChannel) -   *)
(* though not a stuck subscription or a leftover publication; a live       *)
(* session is kept because, as long as no image flaps, the clean-up        *)
(* channel holds no request but for a lost channel still in its slot       *)
(* (Steady).  IInv joins them.                                             *)
(***************************************************************************)
EXTENDS GatewaySessions, Sums

(* What the server thread has in hand is what its program counter says.    *)
ServerInHand ==
  /\ At("accept") => server.on \in Gateways /\ slots[server.on] # None
  /\ At("close") =>
       /\ server.on \in 1 .. Len(channels)
       /\ channels[server.on].state = "open"
       /\ slots[channels[server.on].gateway] # server.on
       /\ server.ret = "shutdown" => shutdown
  /\ At("shutdown") => shutdown

(* A reply is for a gateway that waits, and an ACCEPT names a channel that *)
(* was made for it; so does the channel a gateway has opened.              *)
RepliesFit ==
  \A g \in Gateways :
    /\ reply[g] # None => client[g].phase = "waiting"
    /\ reply[g] # None /\ reply[g].kind = "ACCEPT" =>
         /\ reply[g].channel \in 1 .. Len(channels)
         /\ channels[reply[g].channel].gateway = g
    /\ client[g].phase \in {"joining", "joined"} =>
         /\ client[g].channel \in 1 .. Len(channels)
         /\ channels[client[g].channel].gateway = g

(* The cooldown takes over where the slot lets go: the ports of an open    *)
(* channel are not cooling, those of a closing one are.                    *)
CooldownCovers ==
  \A n \in 1 .. Len(channels) :
    /\ channels[n].ports[1] # channels[n].ports[2]
    /\ channels[n].state = "open" =>
         \A p \in PortsOf(n) : recently_freed[p] = "free"
    /\ channels[n].state = "closing" =>
         \A p \in PortsOf(n) : recently_freed[p] = "cooling"

(* As long as no image was lost with its gateway there and no shutdown was *)
(* asked for:                                                              *)
(*  - an image is up only on the channel in its gateway's slot, and was    *)
(*    never lost;                                                          *)
(*  - a gateway that has a channel open, or is about to, has the one in    *)
(*    its slot, it was never lost, and its ACCEPT is out (it has no image  *)
(*    yet when the gateway has still to read the ACCEPT);                  *)
(*  - a clean-up request is for the lost channel in its gateway's slot,    *)
(*    and there is one request at most.                                    *)
Steady ==
  /\ \A n \in 1 .. Len(channels) : channels[n].image =>
       slots[channels[n].gateway] = n /\ ~channels[n].lost
  /\ \A g \in Gateways : client[g].phase \in {"joining", "joined"} =>
       /\ slots[g] = client[g].channel
       /\ ~channels[client[g].channel].lost
       /\ ~(At("accept") /\ server.on = g)
  /\ \A g \in Gateways : reply[g] # None /\ reply[g].kind = "ACCEPT" =>
       /\ slots[g] = reply[g].channel
       /\ ~channels[reply[g].channel].lost
       /\ ~channels[reply[g].channel].image
       /\ ~(At("accept") /\ server.on = g)
  /\ At("accept") => ~channels[slots[server.on]].lost
                     /\ ~channels[slots[server.on]].image
  /\ \A i \in 1 .. Len(cleanup) :
       /\ slots[cleanup[i]] # None
       /\ channels[slots[cleanup[i]]].lost
       /\ \A j \in 1 .. Len(cleanup) : cleanup[j] = cleanup[i] => j = i

IInv ==
  /\ TypeOK /\ ServerInHand /\ RepliesFit
  /\ ResponsesGoToTheSlot /\ NoOrphanChannel /\ HandlersOutliveCallbacks
  /\ CooldownCovers /\ SessionPortsExclusive /\ LostSessionQueued
  /\ flaps = 0 /\ ~shutdown => Steady

(* Replacing a channel by a channel leaves the others as they are.         *)
LEMMA ChannelUpdate ==
  ASSUME NEW s \in Seq(Channel), NEW n \in 1 .. Len(s), NEW c \in Channel,
         NEW d, d = [s EXCEPT ![n] = c]
  PROVE  /\ d \in Seq(Channel)
         /\ Len(d) = Len(s)
         /\ d[n] = c
         /\ \A m \in 1 .. Len(s) : m # n => d[m] = s[m]
  OBVIOUS

(* What the type of the channels says of one of them.                      *)
LEMMA ChannelFacts ==
  ASSUME TypeOK, NEW n \in 1 .. Len(channels)
  PROVE  /\ n \in Nat /\ n # None
         /\ channels[n] \in Channel
         /\ channels[n].gateway \in Gateways
         /\ channels[n].state \in
             {"open", "closing", "stuck", "leftover", "closed"}
         /\ PortsOf(n) \subseteq Ports
  <1>1. channels[n] \in Channel /\ n \in Nat /\ n # None
    BY ConstantsAssumption DEF TypeOK
  <1>2. channels[n].ports \in Ports \X Ports
    BY <1>1 DEF Channel
  <1>3. QED
    BY <1>1, <1>2 DEF Channel, PortsOf

(* The initial state satisfies the invariant.                              *)
LEMMA InitInv == Init => IInv
  <1> SUFFICES ASSUME Init PROVE IInv
    OBVIOUS
  <1>1. TypeOK
    <2>1. server \in Server
      BY DEF Init, Server
    <2>2. channels \in Seq(Channel) /\ cleanup \in Seq(Gateways)
      BY DEF Init
    <2>3. Len(channels) = 0 /\ shutdown \in BOOLEAN /\ hellos = {}
      BY DEF Init
    <2>4. client \in [Gateways ->
                       [phase : {"idle", "waiting", "joining", "joined"},
                        attempt : 0 .. MaxAttempts,
                        channel : (1 .. Len(channels)) \cup {None}]]
      BY ConstantsAssumption DEF Init
    <2>5. QED
      BY <2>1, <2>2, <2>3, <2>4, ConstantsAssumption DEF Init, TypeOK
  <1>2. /\ ServerInHand /\ RepliesFit /\ ResponsesGoToTheSlot
        /\ NoOrphanChannel /\ HandlersOutliveCallbacks /\ CooldownCovers
        /\ SessionPortsExclusive /\ LostSessionQueued
    BY DEF Init, ServerInHand, RepliesFit, ResponsesGoToTheSlot,
           NoOrphanChannel, HandlersOutliveCallbacks, CooldownCovers,
           SessionPortsExclusive, LostSessionQueued, At
  <1>3. Steady
    BY DEF Init, Steady, At
  <1>4. QED
    BY <1>1, <1>2, <1>3 DEF IInv

(* What a step can disturb only by changing the channels, the ports in     *)
(* cooldown or the slots.                                                  *)
LEMMA ChannelsUntouched ==
  ASSUME IInv, UNCHANGED <<channels, recently_freed, slots, publications,
                           cleanup>>
  PROVE  /\ ResponsesGoToTheSlot' /\ HandlersOutliveCallbacks'
         /\ CooldownCovers' /\ SessionPortsExclusive' /\ LostSessionQueued'
  <1>1. ResponsesGoToTheSlot'
    BY DEF IInv, ResponsesGoToTheSlot, Connected
  <1>2. HandlersOutliveCallbacks'
    BY DEF IInv, HandlersOutliveCallbacks
  <1>3. CooldownCovers'
    BY DEF IInv, CooldownCovers, PortsOf
  <1>4. SessionPortsExclusive'
    BY DEF IInv, SessionPortsExclusive, Tracked, PortsOf
  <1>5. LostSessionQueued'
    BY DEF IInv, LostSessionQueued
  <1>6. QED
    BY <1>1, <1>2, <1>3, <1>4, <1>5

(* The steps of the server thread that change only its program counter.    *)
LEMMA MovesKeep ==
  ASSUME IInv, LoopTop \/ HandshakesPolled \/ CleanupDone \/ ShutdownComplete
  PROVE  IInv'
  <1>1. /\ UNCHANGED <<slots, publications, recently_freed, cleanup, channels,
                       shutdown, hellos, client, reply, flaps>>
        /\ server' \in Server
        /\ ~At("close") /\ ~At("close")' /\ ~At("accept")'
        /\ At("shutdown")' => shutdown
    BY DEF LoopTop, HandshakesPolled, CleanupDone, ShutdownComplete, Goto, At,
           peers, Server
  <1>2. TypeOK'
    BY <1>1 DEF IInv, TypeOK
  <1>3. ServerInHand'
    BY <1>1 DEF ServerInHand
  <1>4. NoOrphanChannel'
    BY <1>1 DEF IInv, NoOrphanChannel
  <1>5. (flaps = 0 /\ ~shutdown => Steady)'
    BY <1>1 DEF IInv, Steady
  <1>6. RepliesFit'
    BY <1>1 DEF IInv, RepliesFit
  <1>7. QED
    BY <1>1, <1>2, <1>3, <1>4, <1>5, <1>6, ChannelsUntouched DEF IInv

(* The steps of a gateway, and the REJECT it is sent, leave the core and   *)
(* the channels alone.                                                     *)
LEMMA PeerKeeps ==
  ASSUME IInv,
         \/ \E g \in Gateways : Hello(g) \/ CoreResponse(g) \/ ReplyLost(g)
                                  \/ ChannelReady(g) \/ GiveUp(g)
         \/ \E h \in hellos : RejectDuplicate(h)
  PROVE  IInv'
  <1> DEFINE Client == [phase : {"idle", "waiting", "joining", "joined"},
                        attempt : 0 .. MaxAttempts,
                        channel : (1 .. Len(channels)) \cup {None}]
             HelloType == [gateway : Gateways, attempt : 1 .. MaxAttempts]
             Good == /\ hellos' \subseteq HelloType
                     /\ client' \in [Gateways -> Client]
                     /\ reply' \in [Gateways -> Replies \cup {None}]
                     /\ RepliesFit'
                     /\ flaps = 0 /\ ~shutdown => Steady'
  <1>0. TypeOK /\ RepliesFit /\ (flaps = 0 /\ ~shutdown => Steady)
    BY DEF IInv
  <1>1. UNCHANGED <<slots, publications, recently_freed, server, cleanup,
                    channels, shutdown, flaps>>
    BY DEF Hello, CoreResponse, ReplyLost, ChannelReady, GiveUp,
           RejectDuplicate, core
  <1>2. ASSUME Good PROVE IInv'
    <2>1. TypeOK'
      BY <1>0, <1>1, <1>2 DEF TypeOK
    <2>2. ServerInHand' /\ NoOrphanChannel'
      BY <1>1 DEF IInv, ServerInHand, NoOrphanChannel, At
    <2>3. QED
      BY <1>1, <1>2, <2>1, <2>2, ChannelsUntouched DEF IInv
  <1>3. /\ client \in [Gateways -> Client]
        /\ hellos \subseteq HelloType
        /\ reply \in [Gateways -> Replies \cup {None}]
    BY <1>0 DEF TypeOK
  <1>4. ASSUME NEW g \in Gateways, Hello(g) PROVE Good
    <2>1. client[g].attempt + 1 \in 1 .. MaxAttempts
      <3> DEFINE f == [x \in Gateways |-> client[x].attempt]
      <3>1. client[g].attempt <= SumFunctionOnSet(f, Gateways)
        <4>1. \A x \in Gateways : f[x] \in Nat
          BY <1>3
        <4>2. f[g] <= SumFunctionOnSet(f, Gateways)
          <5> HIDE DEF f
          <5> QED BY <4>1, ConstantsAssumption, SumAtLeast
        <4>3. QED
          BY <4>2
      <3>2. Attempts = SumFunctionOnSet(f, Gateways)
        BY DEF Attempts, SumFunction
      <3>3. Attempts \in Nat
        BY <1>3, <3>2, ConstantsAssumption, SumNat
      <3>4. client[g].attempt \in Nat
        BY <1>3
      <3>5. QED
        BY <1>4, <3>1, <3>2, <3>3, <3>4, ConstantsAssumption DEF Hello
    <2>2. hellos' \subseteq HelloType
      BY <1>3, <1>4, <2>1 DEF Hello
    <2>3. client' \in [Gateways -> Client] /\ reply' = reply
      BY <1>3, <1>4, <2>1 DEF Hello
    <2>4. RepliesFit'
      BY <1>0, <1>1, <1>3, <1>4 DEF Hello, RepliesFit
    <2>5. flaps = 0 /\ ~shutdown => Steady'
      BY <1>0, <1>1, <1>3, <1>4 DEF Hello, Steady, At
    <2>6. QED
      BY <1>3, <2>2, <2>3, <2>4, <2>5
  <1>5. ASSUME NEW g \in Gateways, CoreResponse(g) PROVE Good
    <2>1. /\ hellos' = hellos
          /\ reply' \in [Gateways -> Replies \cup {None}]
      BY <1>3, <1>5 DEF CoreResponse
    <2>2. client' \in [Gateways -> Client]
      <3>1. reply[g].channel \in (1 .. Len(channels)) \cup {None}
        BY <1>0, <1>3, <1>5 DEF CoreResponse, RepliesFit, Replies
      <3>2. PICK phase \in {"joining", "idle"} :
              client' = [client EXCEPT ![g].phase = phase,
                                       ![g].channel = reply[g].channel]
        BY <1>5 DEF CoreResponse
      <3>3. QED
        BY <1>3, <3>1, <3>2
    <2>3. RepliesFit'
      BY <1>0, <1>1, <1>3, <1>5 DEF CoreResponse, RepliesFit
    <2>4. flaps = 0 /\ ~shutdown => Steady'
      BY <1>0, <1>1, <1>3, <1>5 DEF CoreResponse, Steady, At
    <2>5. QED
      BY <1>3, <2>1, <2>2, <2>3, <2>4
  <1>6. ASSUME NEW g \in Gateways, ReplyLost(g) PROVE Good
    <2>1. /\ hellos' = hellos /\ client' = client
          /\ reply' \in [Gateways -> Replies \cup {None}]
      BY <1>3, <1>6 DEF ReplyLost
    <2>2. RepliesFit'
      BY <1>0, <1>1, <1>3, <1>6 DEF ReplyLost, RepliesFit
    <2>3. flaps = 0 /\ ~shutdown => Steady'
      <3>1. \A x \in Gateways : reply'[x] # None => reply'[x] = reply[x]
        BY <1>3, <1>6 DEF ReplyLost
      <3>2. QED
        BY <1>0, <1>1, <2>1, <3>1 DEF Steady, At
    <2>4. QED
      BY <1>3, <2>1, <2>2, <2>3
  <1>7. ASSUME NEW g \in Gateways, ChannelReady(g) PROVE Good
    <2>1. /\ hellos' = hellos /\ reply' = reply
          /\ client' \in [Gateways -> Client]
      BY <1>3, <1>7 DEF ChannelReady
    <2>2. RepliesFit'
      BY <1>0, <1>1, <1>3, <1>7 DEF ChannelReady, RepliesFit
    <2>3. flaps = 0 /\ ~shutdown => Steady'
      BY <1>0, <1>1, <1>3, <1>7 DEF ChannelReady, Steady, At
    <2>4. QED
      BY <1>3, <2>1, <2>2, <2>3
  <1>8. ASSUME NEW g \in Gateways, GiveUp(g) PROVE Good
    <2>1. /\ hellos' = hellos
          /\ reply' \in [Gateways -> Replies \cup {None}]
          /\ client' \in [Gateways -> Client]
      BY <1>3, <1>8 DEF GiveUp
    <2>2. RepliesFit'
      BY <1>0, <1>1, <1>3, <1>8 DEF GiveUp, RepliesFit
    <2>3. flaps = 0 /\ ~shutdown => Steady'
      BY <1>0, <1>1, <1>3, <1>8 DEF GiveUp, Steady, At
    <2>4. QED
      BY <1>3, <2>1, <2>2, <2>3
  <1>9. ASSUME NEW h \in hellos, RejectDuplicate(h) PROVE Good
    <2>1. /\ hellos' \subseteq HelloType /\ client' = client
          /\ h.gateway \in Gateways
          /\ reply' \in [Gateways -> Replies \cup {None}]
      BY <1>3, <1>9 DEF RejectDuplicate, Answer, Replies
    <2>2. RepliesFit'
      BY <1>0, <1>1, <1>3, <1>9, <2>1 DEF RejectDuplicate, Answer, RepliesFit
    <2>3. flaps = 0 /\ ~shutdown => Steady'
      BY <1>0, <1>1, <1>3, <1>9, <2>1 DEF RejectDuplicate, Answer, Steady, At
    <2>4. QED
      BY <1>3, <2>1, <2>2, <2>3
  <1>10. QED
    BY <1>2, <1>4, <1>5, <1>6, <1>7, <1>8, <1>9

-----------------------------------------------------------------------------
(* The steps of the server thread that change the slots.                   *)

(* allocate cleans the list of cooling ports even when it then fails.      *)
LEMMA AllocationFailsKeeps ==
  ASSUME IInv, NEW h \in hellos, AllocationFails(h)
  PROVE  IInv'
  <1>1. UNCHANGED <<slots, publications, server, cleanup, channels, shutdown,
                    client, reply, flaps>>
    BY DEF AllocationFails
  <1>2. /\ recently_freed' \in [Ports -> {"free", "cooling", "expired"}]
        /\ \A p \in Ports : recently_freed[p] \in {"free", "cooling"} =>
             recently_freed'[p] = recently_freed[p]
    BY DEF AllocationFails, cleanup_expired_ports, IInv, TypeOK
  <1>3. TypeOK'
    BY <1>1, <1>2 DEF AllocationFails, IInv, TypeOK
  <1>4. CooldownCovers'
    <2>1. \A n \in 1 .. Len(channels) : PortsOf(n) \subseteq Ports
      BY ChannelFacts DEF IInv
    <2>2. \A n \in 1 .. Len(channels) : PortsOf(n)' = PortsOf(n)
      BY <1>1 DEF PortsOf
    <2>3. QED
      BY <1>1, <1>2, <2>1, <2>2 DEF IInv, CooldownCovers
  <1>5. ServerInHand' /\ NoOrphanChannel'
    BY <1>1 DEF IInv, ServerInHand, NoOrphanChannel, At
  <1>6. RepliesFit' /\ HandlersOutliveCallbacks' /\ LostSessionQueued'
    BY <1>1 DEF IInv, RepliesFit, HandlersOutliveCallbacks, LostSessionQueued
  <1>7. ResponsesGoToTheSlot'
    BY <1>1 DEF IInv, ResponsesGoToTheSlot, Connected
  <1>8. SessionPortsExclusive'
    BY <1>1 DEF IInv, SessionPortsExclusive, Tracked, PortsOf
  <1>9. (flaps = 0 /\ ~shutdown => Steady)'
    BY <1>1 DEF IInv, Steady, At
  <1>10. QED
    BY <1>3, <1>4, <1>5, <1>6, <1>7, <1>8, <1>9 DEF IInv

(* An allocation that fails half-way leaves a publication behind that no   *)
(* invariant of a session is about, and an image never comes up on it.     *)
LEMMA SubscriptionFailsKeeps ==
  ASSUME IInv, NEW h \in hellos, NEW ports \in AllocatablePorts,
         NEW s \in AllocatableSessions, SubscriptionFails(h, ports, s)
  PROVE  IInv'
  <1> USE ConstantsAssumption
  <1>n. PICK n : n = Len(channels) + 1
    OBVIOUS
  <1> DEFINE c == NewChannel(h.gateway, ports, s, "leftover")
  <1>0. /\ TypeOK /\ ServerInHand /\ RepliesFit /\ ResponsesGoToTheSlot
        /\ NoOrphanChannel /\ CooldownCovers
    BY DEF IInv
  <1>1. /\ h.gateway \in Gateways /\ ports \in Ports \X Ports
        /\ s \in Sessions /\ ports[1] # ports[2]
        /\ n \in Nat /\ n <= MaxChannels
    BY <1>n, <1>0 DEF TypeOK, SubscriptionFails, AllocatablePorts,
                      AllocatableSessions
  <1>2. /\ c \in Channel /\ c.state = "leftover" /\ c.ports = ports
        /\ c.handlers = "live" /\ ~c.image
    BY <1>1 DEF Channel, NewChannel
  <1>3. /\ channels' \in Seq(Channel)
        /\ Len(channels') = n /\ channels'[n] = c
        /\ \A m \in 1 .. Len(channels) : channels'[m] = channels[m]
        /\ 1 .. n = (1 .. Len(channels)) \cup {n}
        /\ Len(channels) \in Nat
    <2>1. channels \in Seq(Channel) /\ channels' = Append(channels, c)
      BY <1>0 DEF TypeOK, SubscriptionFails
    <2> HIDE DEF c
    <2>2. QED
      BY <1>n, <1>2, <2>1
  <1>4. /\ recently_freed' = cleanup_expired_ports /\ hellos' = hellos \ {h}
        /\ UNCHANGED <<slots, publications, server, cleanup, shutdown, client,
                       reply, flaps>>
    BY DEF SubscriptionFails
  <1> HIDE DEF c
  <1>5. TypeOK'
    <2>1. recently_freed' \in [Ports -> {"free", "cooling", "expired"}]
      BY <1>0, <1>4 DEF TypeOK, cleanup_expired_ports
    <2>2. /\ slots' \in [Gateways -> (1 .. n) \cup {None}]
          /\ publications' \in [Gateways -> (1 .. n) \cup {None}]
      BY <1>0, <1>3, <1>4 DEF TypeOK
    <2>3. client' \in [Gateways ->
                         [phase : {"idle", "waiting", "joining", "joined"},
                          attempt : 0 .. MaxAttempts,
                          channel : (1 .. n) \cup {None}]]
      BY <1>0, <1>3, <1>4 DEF TypeOK
    <2>4. QED
      BY <1>0, <1>1, <1>3, <1>4, <2>1, <2>2, <2>3 DEF TypeOK
  <1>6. ServerInHand'
    BY <1>0, <1>3, <1>4 DEF ServerInHand, At
  <1>7. RepliesFit'
    BY <1>0, <1>3, <1>4 DEF RepliesFit
  <1>8. \A g \in Gateways : slots[g] # None =>
          slots[g] \in 1 .. Len(channels) /\ channels'[slots[g]] = channels[slots[g]]
    BY <1>0, <1>3 DEF TypeOK
  <1>9. ResponsesGoToTheSlot'
    BY <1>0, <1>4, <1>8 DEF ResponsesGoToTheSlot, Connected
  <1>10. NoOrphanChannel' /\ HandlersOutliveCallbacks'
    BY <1>2, <1>3, <1>4 DEF IInv, NoOrphanChannel, HandlersOutliveCallbacks, At
  <1>11. \A m \in 1 .. Len(channels) :
           /\ PortsOf(m)' = PortsOf(m) /\ PortsOf(m) \subseteq Ports
           /\ Tracked(m)' <=> Tracked(m)
    BY <1>0, <1>3, ChannelFacts DEF PortsOf, Tracked
  <1>12. CooldownCovers'
    <2>1. \A p \in Ports : recently_freed[p] \in {"free", "cooling"} =>
            recently_freed'[p] = recently_freed[p]
      BY <1>4 DEF cleanup_expired_ports
    <2>2. ASSUME NEW m \in 1 .. Len(channels)
          PROVE  /\ channels'[m].ports[1] # channels'[m].ports[2]
                 /\ channels'[m].state = "open" =>
                      \A p \in PortsOf(m)' : recently_freed'[p] = "free"
                 /\ channels'[m].state = "closing" =>
                      \A p \in PortsOf(m)' : recently_freed'[p] = "cooling"
      BY <1>0, <1>3, <1>11, <2>1 DEF CooldownCovers
    <2>3. c.ports[1] # c.ports[2] /\ c.state = "leftover"
      BY <1>1, <1>2
    <2>4. QED
      BY <1>3, <2>2, <2>3 DEF CooldownCovers
  <1>13. SessionPortsExclusive'
    <2>1. ~Tracked(n)'
      BY <1>2, <1>3 DEF Tracked
    <2>2. QED
      BY <1>3, <1>11, <2>1 DEF IInv, SessionPortsExclusive
  <1>14. LostSessionQueued'
    BY <1>4, <1>8 DEF IInv, LostSessionQueued
  <1>15. (flaps = 0 /\ ~shutdown => Steady)'
    <2> SUFFICES ASSUME flaps = 0, ~shutdown PROVE Steady'
      BY <1>4
    <2>0. Steady
      BY DEF IInv
    <2>1. \A m \in 1 .. n : channels'[m].image =>
            slots'[channels'[m].gateway] = m /\ ~channels'[m].lost
      BY <1>2, <1>3, <1>4, <2>0 DEF Steady
    <2>2. /\ \A x \in Gateways : client[x].phase \in {"joining", "joined"} =>
               ~channels'[client[x].channel].lost
          /\ \A x \in Gateways : reply[x] # None /\ reply[x].kind = "ACCEPT" =>
               /\ ~channels'[reply[x].channel].lost
               /\ ~channels'[reply[x].channel].image
      BY <1>0, <1>3, <2>0 DEF Steady, RepliesFit
    <2>3. At("accept") => ~channels'[slots[server.on]].lost
                          /\ ~channels'[slots[server.on]].image
      BY <1>0, <1>8, <2>0 DEF Steady, ServerInHand
    <2>4. \A i \in 1 .. Len(cleanup) : channels'[slots[cleanup[i]]].lost
      <3>1. \A i \in 1 .. Len(cleanup) : cleanup[i] \in Gateways
        BY <1>0 DEF TypeOK
      <3>2. QED
        BY <1>8, <2>0, <3>1 DEF Steady
    <2>5. QED
      BY <1>3, <1>4, <2>0, <2>1, <2>2, <2>3, <2>4 DEF Steady, At
  <1>16. QED
    BY <1>5, <1>6, <1>7, <1>9, <1>10, <1>12, <1>13, <1>14, <1>15 DEF IInv

(* The ports drawn for a new session belong to no other session: an open   *)
(* one is in a slot while handshakes are polled, a closing one is cooling. *)
LEMMA DrawnPortsFree ==
  ASSUME TypeOK, NoOrphanChannel, CooldownCovers, At("handshake"),
         NEW ports,
         \A i \in 1 .. 2 : ports[i] \notin get_ports_in_use \cup InCooldown,
         NEW m \in 1 .. Len(channels), Tracked(m)
  PROVE  PortsOf(m) \cap {ports[1], ports[2]} = {}
  <1>1. /\ channels[m].gateway \in Gateways /\ m # None
        /\ PortsOf(m) \subseteq Ports
    BY ChannelFacts
  <1>2. CASE channels[m].state = "open"
    <2>1. slots[channels[m].gateway] = m
      BY <1>2 DEF NoOrphanChannel, At
    <2>2. channels[m].gateway \in Connected
      BY <1>1, <2>1 DEF Connected
    <2>3. PortsOf(m) \subseteq get_ports_in_use
      BY <2>1, <2>2 DEF get_ports_in_use
    <2>4. QED
      BY <2>3
  <1>3. CASE channels[m].state = "closing"
    <2>1. PortsOf(m) \subseteq InCooldown
      BY <1>1, <1>3 DEF CooldownCovers, InCooldown, cleanup_expired_ports
    <2>2. QED
      BY <2>1
  <1>4. QED
    BY <1>2, <1>3 DEF Tracked

(* A new session leaves the invariant in place: its ports and its id are   *)
(* no other session's.                                                     *)
LEMMA AllocateKeeps ==
  ASSUME IInv, NEW h \in hellos, NEW ports \in AllocatablePorts,
         NEW s \in AllocatableSessions, AllocateSession(h, ports, s)
  PROVE  IInv'
  <1> USE ConstantsAssumption
  <1>n. PICK n : n = Len(channels) + 1
    OBVIOUS
  <1> DEFINE g == h.gateway
             c == [gateway |-> g, session |-> s, ports |-> ports,
                   state |-> "open", image |-> FALSE, lost |-> FALSE,
                   handlers |-> "live"]
  <1>0. /\ TypeOK /\ ServerInHand /\ RepliesFit /\ ResponsesGoToTheSlot
        /\ NoOrphanChannel /\ CooldownCovers
    BY DEF IInv
  <1>1. /\ g \in Gateways /\ h.attempt \in Nat
        /\ ports \in Ports \X Ports /\ s \in Sessions
        /\ slots[g] = None /\ n <= MaxChannels
        /\ ports[1] # ports[2] /\ n \in Nat
        /\ \A i \in 1 .. 2 : ports[i] \notin get_ports_in_use \cup InCooldown
        /\ s \notin get_sessions_in_use
    BY <1>n, <1>0
       DEF TypeOK, AllocateSession, AllocatablePorts, AllocatableSessions
  <1>2. c \in Channel
    BY <1>1 DEF Channel
  <1>3. /\ channels' \in Seq(Channel)
        /\ Len(channels') = n /\ channels'[n] = c
        /\ \A m \in 1 .. Len(channels) : channels'[m] = channels[m]
        /\ 1 .. n = (1 .. Len(channels)) \cup {n}
        /\ n \notin 1 .. Len(channels)
    BY <1>n, <1>0, <1>2 DEF TypeOK, AllocateSession, NewChannel
  <1>4. /\ slots' = [slots EXCEPT ![g] = n]
        /\ publications' = [publications EXCEPT ![g] = n]
        /\ recently_freed' = cleanup_expired_ports
        /\ hellos' = hellos \ {h}
        /\ server' = [pc |-> "accept", on |-> g, attempt |-> h.attempt,
                      ret |-> "handshake"]
        /\ UNCHANGED <<cleanup, shutdown, client, reply, flaps>>
        /\ server.pc = "handshake"
    BY <1>n DEF AllocateSession, At
  <1> HIDE DEF g, c
  <1>5. TypeOK'
    <2>1. server' \in Server
      BY <1>1, <1>4 DEF Server
    <2>2. recently_freed' \in [Ports -> {"free", "cooling", "expired"}]
      BY <1>0, <1>4 DEF TypeOK, cleanup_expired_ports
    <2>3. /\ slots' \in [Gateways -> (1 .. n) \cup {None}]
          /\ publications' \in [Gateways -> (1 .. n) \cup {None}]
      BY <1>0, <1>1, <1>3, <1>4 DEF TypeOK
    <2>4. client' \in [Gateways ->
                         [phase : {"idle", "waiting", "joining", "joined"},
                          attempt : 0 .. MaxAttempts,
                          channel : (1 .. n) \cup {None}]]
      BY <1>0, <1>3, <1>4 DEF TypeOK
    <2>5. hellos' \subseteq [gateway : Gateways, attempt : 1 .. MaxAttempts]
      BY <1>0, <1>4 DEF TypeOK
    <2>6. /\ cleanup' \in Seq(Gateways) /\ shutdown' \in BOOLEAN
          /\ reply' \in [Gateways -> Replies \cup {None}]
          /\ flaps' \in 0 .. MaxFlaps
      BY <1>0, <1>4 DEF TypeOK
    <2>7. QED
      BY <1>1, <1>3, <2>1, <2>2, <2>3, <2>4, <2>5, <2>6 DEF TypeOK
  <1>6. ServerInHand'
    BY <1>0, <1>1, <1>4 DEF TypeOK, ServerInHand, At
  <1>7. RepliesFit'
    BY <1>0, <1>3, <1>4 DEF TypeOK, RepliesFit
  <1>a. /\ \A x \in Gateways : slots'[x] # None /\ x # g =>
             /\ slots'[x] = slots[x] /\ slots[x] \in 1 .. Len(channels)
             /\ channels'[slots[x]] = channels[slots[x]]
             /\ channels[slots[x]].session # s
        /\ slots'[g] = n /\ channels'[n] = c
    BY <1>0, <1>1, <1>3, <1>4
       DEF TypeOK, get_sessions_in_use, Connected
  <1>8. ResponsesGoToTheSlot'
    <2>1. \A x \in Gateways : publications'[x] = slots'[x]
      BY <1>0, <1>1, <1>4 DEF TypeOK, ResponsesGoToTheSlot
    <2>2. ASSUME NEW x \in Gateways, slots'[x] # None
          PROVE  /\ channels'[slots'[x]].gateway = x
                 /\ channels'[slots'[x]].state = "open"
      BY <1>0, <1>a, <2>2 DEF ResponsesGoToTheSlot, c
    <2>3. ASSUME NEW x \in Gateways, slots'[x] # None,
                 NEW y \in Gateways, slots'[y] # None, y # x
          PROVE  channels'[slots'[y]].session # channels'[slots'[x]].session
      <3>1. CASE x = g
        BY <1>a, <2>3, <3>1 DEF c
      <3>2. CASE y = g
        BY <1>a, <2>3, <3>2 DEF c
      <3>3. CASE x # g /\ y # g
        BY <1>0, <1>a, <2>3, <3>3 DEF ResponsesGoToTheSlot, Connected
      <3>4. QED
        BY <3>1, <3>2, <3>3
    <2>4. QED
      BY <2>1, <2>2, <2>3 DEF ResponsesGoToTheSlot, Connected
  <1>9. NoOrphanChannel'
    <2>1. ASSUME NEW m \in 1 .. Len(channels), channels[m].state = "open"
          PROVE  slots'[channels[m].gateway] = m
      <3>1. slots[channels[m].gateway] = m
        BY <1>0, <1>4, <2>1 DEF NoOrphanChannel, At
      <3>2. channels[m].gateway \in Gateways /\ m # None
        BY <1>0, ChannelFacts
      <3>3. QED
        BY <1>0, <1>1, <1>4, <3>1, <3>2 DEF TypeOK
    <2>2. slots'[c.gateway] = n
      BY <1>0, <1>1, <1>4 DEF TypeOK, c
    <2>3. QED
      BY <1>3, <2>1, <2>2 DEF NoOrphanChannel
  <1>10. HandlersOutliveCallbacks'
    BY <1>3 DEF IInv, HandlersOutliveCallbacks, c
  <1>b. /\ \A m \in 1 .. Len(channels) :
             PortsOf(m)' = PortsOf(m) /\ (Tracked(m)' <=> Tracked(m))
        /\ PortsOf(n)' = {ports[1], ports[2]}
    <2>1. ASSUME NEW m \in 1 .. Len(channels)
          PROVE  PortsOf(m)' = PortsOf(m) /\ (Tracked(m)' <=> Tracked(m))
      BY <1>3 DEF PortsOf, Tracked
    <2>2. c.ports = ports
      BY DEF c
    <2>3. PortsOf(n)' = {ports[1], ports[2]}
      BY <1>3, <2>2 DEF PortsOf
    <2>4. QED
      BY <2>1, <2>3
  <1>11. CooldownCovers'
    <2>1. \A p \in {ports[1], ports[2]} : recently_freed'[p] = "free"
      BY <1>1, <1>4 DEF InCooldown
    <2>2. \A p \in Ports : recently_freed[p] \in {"free", "cooling"} =>
             recently_freed'[p] = recently_freed[p]
      BY <1>4 DEF cleanup_expired_ports
    <2>3. \A m \in 1 .. Len(channels) : PortsOf(m) \subseteq Ports
      BY <1>0, ChannelFacts
    <2>4. c.ports[1] # c.ports[2] /\ c.state = "open"
      BY <1>1 DEF c
    <2>5. ASSUME NEW m \in 1 .. Len(channels)
          PROVE  /\ channels'[m].ports[1] # channels'[m].ports[2]
                 /\ channels'[m].state = "open" =>
                      \A p \in PortsOf(m)' : recently_freed'[p] = "free"
                 /\ channels'[m].state = "closing" =>
                      \A p \in PortsOf(m)' : recently_freed'[p] = "cooling"
      BY <1>0, <1>3, <1>b, <2>2, <2>3 DEF CooldownCovers
    <2>6. QED
      BY <1>3, <1>b, <2>1, <2>4, <2>5 DEF CooldownCovers
  <1>12. SessionPortsExclusive'
    <2>1. ASSUME NEW m \in 1 .. Len(channels), Tracked(m)
          PROVE  PortsOf(m) \cap {ports[1], ports[2]} = {}
      BY <1>0, <1>1, <1>4, <2>1, DrawnPortsFree DEF At
    <2>2. ASSUME NEW m \in 1 .. n, NEW k \in 1 .. n, m # k,
                 Tracked(m)', Tracked(k)'
          PROVE  PortsOf(m)' \cap PortsOf(k)' = {}
      <3>1. CASE m = n
        BY <1>3, <1>b, <2>1, <2>2, <3>1
      <3>2. CASE k = n
        BY <1>3, <1>b, <2>1, <2>2, <3>2
      <3>3. CASE m # n /\ k # n
        BY <1>3, <1>b, <2>2, <3>3 DEF IInv, SessionPortsExclusive
      <3>4. QED
        BY <3>1, <3>2, <3>3
    <2>3. QED
      BY <1>3, <2>2 DEF SessionPortsExclusive
  <1>13. LostSessionQueued'
    <2>1. ~c.lost
      BY DEF c
    <2>2. QED
      BY <1>4, <1>a, <2>1 DEF IInv, LostSessionQueued
  <1>14. (flaps = 0 /\ ~shutdown => Steady)'
    <2> SUFFICES ASSUME flaps = 0, ~shutdown PROVE Steady'
      BY <1>4
    <2>0. Steady
      BY DEF IInv
    <2>1. ~c.lost /\ ~c.image
      BY DEF c
    <2>2. \A m \in 1 .. n : channels'[m].image =>
            slots'[channels'[m].gateway] = m /\ ~channels'[m].lost
      <3>1. ASSUME NEW m \in 1 .. Len(channels), channels[m].image
            PROVE  slots'[channels[m].gateway] = m /\ ~channels[m].lost
        <4>1. /\ slots[channels[m].gateway] = m /\ ~channels[m].lost
              /\ channels[m].gateway \in Gateways /\ m # None
          BY <1>0, <2>0, <3>1, ChannelFacts DEF Steady
        <4>2. QED
          BY <1>0, <1>1, <1>4, <4>1 DEF TypeOK
      <3>2. QED
        BY <1>3, <2>1, <3>1
    <2>3. ASSUME NEW x \in Gateways, client[x].phase \in {"joining", "joined"}
          PROVE  /\ x # g /\ slots'[x] = client[x].channel
                 /\ ~channels'[client[x].channel].lost
      <3>1. /\ client[x].channel \in 1 .. Len(channels)
            /\ slots[x] = client[x].channel
            /\ ~channels[client[x].channel].lost
        BY <1>0, <2>0, <2>3 DEF RepliesFit, Steady
      <3>2. QED
        BY <1>0, <1>1, <1>3, <1>4, <3>1 DEF TypeOK
    <2>4. ASSUME NEW x \in Gateways, reply[x] # None,
                 reply[x].kind = "ACCEPT"
          PROVE  /\ x # g /\ slots'[x] = reply[x].channel
                 /\ ~channels'[reply[x].channel].lost
                 /\ ~channels'[reply[x].channel].image
      <3>1. /\ reply[x].channel \in 1 .. Len(channels)
            /\ slots[x] = reply[x].channel
            /\ ~channels[reply[x].channel].lost
            /\ ~channels[reply[x].channel].image
        BY <1>0, <2>0, <2>4 DEF RepliesFit, Steady
      <3>2. QED
        BY <1>0, <1>1, <1>3, <1>4, <3>1 DEF TypeOK
    <2>5. ASSUME NEW i \in 1 .. Len(cleanup)
          PROVE  /\ slots'[cleanup[i]] # None
                 /\ channels'[slots'[cleanup[i]]].lost
                 /\ \A j \in 1 .. Len(cleanup) :
                      cleanup[j] = cleanup[i] => j = i
      <3>0. cleanup \in Seq(Gateways)
        BY <1>0 DEF TypeOK
      <3>1. /\ cleanup[i] \in Gateways
            /\ slots[cleanup[i]] # None /\ channels[slots[cleanup[i]]].lost
            /\ \A j \in 1 .. Len(cleanup) : cleanup[j] = cleanup[i] => j = i
        <4>1. cleanup[i] \in Gateways
          BY ONLY <2>5, <3>0
        <4>2. /\ slots[cleanup[i]] # None /\ channels[slots[cleanup[i]]].lost
              /\ \A j \in 1 .. Len(cleanup) : cleanup[j] = cleanup[i] => j = i
          BY ONLY <2>0, <2>5 DEF Steady
        <4>3. QED
          BY <4>1, <4>2
      <3>2. cleanup[i] # g /\ slots[cleanup[i]] \in 1 .. Len(channels)
        BY <1>0, <1>1, <3>1 DEF TypeOK
      <3>3. slots'[cleanup[i]] = slots[cleanup[i]]
        BY <1>0, <1>4, <3>1, <3>2 DEF TypeOK
      <3>4. channels'[slots[cleanup[i]]] = channels[slots[cleanup[i]]]
        BY <1>3, <3>2
      <3>5. QED
        BY <3>1, <3>3, <3>4
    <2>6. QED
      BY <1>1, <1>3, <1>4, <1>a, <2>1, <2>2, <2>3, <2>4, <2>5
         DEF Steady, At
  <1>15. QED
    BY <1>5, <1>6, <1>7, <1>8, <1>9, <1>10, <1>11, <1>12, <1>13, <1>14
       DEF IInv

(* The ACCEPT leaves while the slot still holds the session it names.      *)
LEMMA AcceptSentKeeps ==
  ASSUME IInv, AcceptSent
  PROVE  IInv'
  <1> USE ConstantsAssumption
  <1> DEFINE g == server.on
  <1>0. /\ TypeOK /\ ServerInHand /\ RepliesFit /\ ResponsesGoToTheSlot
        /\ g \in Gateways /\ slots[g] \in 1 .. Len(channels)
        /\ channels[slots[g]].gateway = g
    BY DEF IInv, TypeOK, ServerInHand, AcceptSent, ResponsesGoToTheSlot
  <1>1. /\ UNCHANGED <<slots, publications, recently_freed, cleanup, channels,
                       shutdown, hellos, client, flaps>>
        /\ server' \in Server /\ server.pc = "accept"
        /\ ~At("close") /\ ~At("close")' /\ ~At("accept")'
        /\ ~At("shutdown")'
    BY DEF AcceptSent, Goto, At, Server
  <1>2. \/ reply' = reply
        \/ /\ client[g].phase = "waiting"
           /\ reply' = [reply EXCEPT ![g] = [kind |-> "ACCEPT",
                                             channel |-> slots[g]]]
    BY DEF AcceptSent, Answer
  <1> HIDE DEF g
  <1>3. reply' \in [Gateways -> Replies \cup {None}]
    <2>1. [kind |-> "ACCEPT", channel |-> slots[g]] \in Replies
      BY <1>0 DEF Replies
    <2>2. QED
      BY <1>0, <1>2, <2>1 DEF TypeOK
  <1>4. TypeOK'
    BY <1>0, <1>1, <1>3 DEF TypeOK
  <1>5. ServerInHand' /\ NoOrphanChannel'
    BY <1>1 DEF IInv, ServerInHand, NoOrphanChannel
  <1>6. RepliesFit'
    BY <1>0, <1>1, <1>2 DEF TypeOK, RepliesFit
  <1>7. (flaps = 0 /\ ~shutdown => Steady)'
    <2> SUFFICES ASSUME flaps = 0, ~shutdown PROVE Steady'
      BY <1>1
    <2>1. Steady /\ ~channels[slots[g]].lost /\ ~channels[slots[g]].image
      BY <1>1 DEF IInv, Steady, At, g
    <2>2. \A x \in Gateways : reply'[x] # None /\ reply'[x].kind = "ACCEPT" =>
            /\ slots[x] = reply'[x].channel
            /\ ~channels[reply'[x].channel].lost
            /\ ~channels[reply'[x].channel].image
      <3>1. CASE reply' = reply
        BY <2>1, <3>1 DEF Steady
      <3>2. CASE reply' = [reply EXCEPT ![g] = [kind |-> "ACCEPT",
                                                channel |-> slots[g]]]
        <4>1. \A x \in Gateways \ {g} : reply'[x] = reply[x]
          BY <1>0, <3>2 DEF TypeOK
        <4>2. reply'[g].channel = slots[g]
          BY <1>0, <3>2 DEF TypeOK
        <4>3. QED
          BY <2>1, <4>1, <4>2 DEF Steady
      <3>3. QED
        BY <1>2, <3>1, <3>2
    <2>3. QED
      BY <1>1, <2>1, <2>2 DEF Steady
  <1>8. QED
    BY <1>1, <1>4, <1>5, <1>6, <1>7, ChannelsUntouched DEF IInv

(* Taking a session out of its slot: the channel goes from the slot to the *)
(* server's hand.                                                          *)
LEMMA TakeSessionKeeps ==
  ASSUME IInv, NEW g \in Gateways,
         NEW ret \in {"handshake", "cleanup", "shutdown"},
         TakeSession(g, ret), ~At("close"), ret = "shutdown" => shutdown,
         UNCHANGED <<client, reply>>
  PROVE  /\ server' \in Server /\ ~At("accept")'
         /\ slots' \in [Gateways -> (1 .. Len(channels)) \cup {None}]
         /\ publications' \in [Gateways -> (1 .. Len(channels)) \cup {None}]
         /\ slots' = [slots EXCEPT ![g] = None]
         /\ ServerInHand' /\ RepliesFit' /\ ResponsesGoToTheSlot'
         /\ NoOrphanChannel' /\ HandlersOutliveCallbacks'
         /\ CooldownCovers' /\ SessionPortsExclusive'
  <1> USE ConstantsAssumption
  <1>0. /\ TypeOK /\ ServerInHand /\ RepliesFit /\ ResponsesGoToTheSlot
        /\ NoOrphanChannel
    BY DEF IInv
  <1>1. /\ slots' = [slots EXCEPT ![g] = None]
        /\ UNCHANGED <<recently_freed, channels, shutdown, flaps>>
    BY DEF TakeSession
  <1>2. slots' \in [Gateways -> (1 .. Len(channels)) \cup {None}]
    BY <1>0, <1>1 DEF TypeOK
  <1>3. publications' \in [Gateways -> (1 .. Len(channels)) \cup {None}]
    BY <1>0 DEF TypeOK, TakeSession
  <1>4. \/ /\ slots[g] = None
           /\ server' = [pc |-> ret, on |-> None, attempt |-> 0,
                         ret |-> "handshake"]
        \/ /\ slots[g] \in 1 .. Len(channels)
           /\ server' = [pc |-> "close", on |-> slots[g], attempt |-> 0,
                         ret |-> ret]
    BY <1>0 DEF TypeOK, TakeSession, Goto
  <1>5. server' \in Server /\ ~At("accept")'
    BY <1>4 DEF Server, At
  <1>6. ServerInHand'
    <2>1. CASE server'.pc = ret
      BY <1>1, <2>1 DEF ServerInHand, At
    <2>2. CASE /\ slots[g] \in 1 .. Len(channels)
               /\ server' = [pc |-> "close", on |-> slots[g], attempt |-> 0,
                             ret |-> ret]
      <3>1. /\ channels[slots[g]].state = "open"
            /\ channels[slots[g]].gateway = g
        BY <1>0, <2>2 DEF ResponsesGoToTheSlot
      <3>2. slots'[g] # slots[g]
        BY <1>0, <1>1, <2>2 DEF TypeOK
      <3>3. QED
        BY <1>1, <2>2, <3>1, <3>2 DEF ServerInHand, At
    <2>3. QED
      BY <1>4, <2>1, <2>2
  <1>7. RepliesFit'
    BY <1>0, <1>1 DEF RepliesFit
  <1>8. ResponsesGoToTheSlot'
    <2>1. \A x \in Gateways : publications'[x] = slots'[x]
      BY <1>0, <1>1 DEF TypeOK, TakeSession, ResponsesGoToTheSlot
    <2>2. \A x \in Gateways :
            slots'[x] # None => slots'[x] = slots[x] /\ slots[x] # None
      BY <1>0, <1>1 DEF TypeOK
    <2>3. QED
      BY <1>0, <1>1, <2>1, <2>2 DEF ResponsesGoToTheSlot, Connected
  <1>9. NoOrphanChannel'
    <2> SUFFICES ASSUME NEW n \in 1 .. Len(channels),
                        channels[n].state = "open"
                 PROVE  slots'[channels[n].gateway] = n
                        \/ (At("close")' /\ server'.on = n)
      BY <1>1 DEF NoOrphanChannel
    <2>1. slots[channels[n].gateway] = n /\ n # None
      BY <1>0, ChannelFacts DEF NoOrphanChannel
    <2>2. channels[n].gateway \in Gateways
      BY <1>0, ChannelFacts
    <2>3. CASE channels[n].gateway = g
      BY <1>4, <2>1, <2>3 DEF At
    <2>4. CASE channels[n].gateway # g
      BY <1>0, <1>1, <2>1, <2>2, <2>4 DEF TypeOK
    <2>5. QED
      BY <2>3, <2>4
  <1>10. HandlersOutliveCallbacks'
    BY <1>1 DEF IInv, HandlersOutliveCallbacks
  <1>11. CooldownCovers'
    BY <1>1 DEF IInv, CooldownCovers, PortsOf
  <1>12. SessionPortsExclusive'
    BY <1>1 DEF IInv, SessionPortsExclusive, Tracked, PortsOf
  <1>13. QED
    BY <1>1, <1>2, <1>3, <1>5, <1>6, <1>7, <1>8, <1>9, <1>10, <1>11, <1>12

(* The three callers of remove_gateway_session.  With images that do not   *)
(* flap, a clean-up request only ever takes the lost session it was sent   *)
(* for, and a failed ACCEPT one that its gateway has not heard of.         *)
LEMMA RemovalKeeps ==
  ASSUME IInv, \/ AcceptFailed \/ CleanupRequest
               \/ \E g \in Gateways : ShutdownGateway(g)
  PROVE  IInv'
  <1> USE ConstantsAssumption
  <1>0. TypeOK /\ ServerInHand /\ RepliesFit /\ LostSessionQueued
        /\ ResponsesGoToTheSlot
    BY DEF IInv
  <1>1. PICK g \in Gateways, ret \in {"handshake", "cleanup", "shutdown"} :
          /\ TakeSession(g, ret) /\ ~At("close")
          /\ ret = "shutdown" => shutdown
          /\ \/ At("accept") /\ server.on = g /\ cleanup' = cleanup
             \/ /\ cleanup # << >> /\ g = Head(cleanup)
                /\ cleanup' = Tail(cleanup)
             \/ shutdown /\ cleanup' = cleanup
    <2>1. CASE AcceptFailed
      BY <1>0, <2>1 DEF AcceptFailed, ServerInHand, At
    <2>2. CASE CleanupRequest
      <3>1. Head(cleanup) \in Gateways
        BY <1>0, <2>2 DEF TypeOK, CleanupRequest
      <3>2. QED
        BY <2>2, <3>1 DEF CleanupRequest, At
    <2>3. ASSUME NEW g \in Gateways, ShutdownGateway(g)
          PROVE  TakeSession(g, "shutdown") /\ ~At("close") /\ shutdown
                 /\ cleanup' = cleanup
      BY <1>0, <2>3 DEF ShutdownGateway, ServerInHand, At
    <2>4. QED
      BY <2>1, <2>2, <2>3
  <1>2. UNCHANGED <<hellos, client, reply, recently_freed, channels, shutdown,
                    flaps>>
    BY DEF AcceptFailed, CleanupRequest, ShutdownGateway, TakeSession, peers
  <1>3. /\ server' \in Server /\ ~At("accept")'
        /\ slots' \in [Gateways -> (1 .. Len(channels)) \cup {None}]
        /\ publications' \in [Gateways -> (1 .. Len(channels)) \cup {None}]
        /\ slots' = [slots EXCEPT ![g] = None]
        /\ ServerInHand' /\ RepliesFit' /\ ResponsesGoToTheSlot'
        /\ NoOrphanChannel' /\ HandlersOutliveCallbacks'
        /\ CooldownCovers' /\ SessionPortsExclusive'
    BY <1>1, <1>2, TakeSessionKeeps
  <1>4. cleanup' \in Seq(Gateways)
    <2>1. cleanup \in Seq(Gateways)
      BY <1>0 DEF TypeOK
    <2>2. CASE cleanup # << >> /\ cleanup' = Tail(cleanup)
      BY <2>1, <2>2
    <2>3. QED
      BY <1>1, <2>1, <2>2
  <1>5. TypeOK'
    BY <1>0, <1>2, <1>3, <1>4 DEF TypeOK
  <1>6. \A x \in Gateways \ {g} : slots'[x] = slots[x]
    BY <1>0, <1>3 DEF TypeOK
  <1>7. slots'[g] = None
    BY <1>0, <1>3 DEF TypeOK
  <1>8. LostSessionQueued'
    <2> SUFFICES ASSUME NEW x \in Gateways, slots'[x] # None,
                        channels[slots'[x]].lost
                 PROVE  \E i \in 1 .. Len(cleanup') : cleanup'[i] = x
      BY <1>2 DEF LostSessionQueued
    <2>1. x # g /\ slots'[x] = slots[x]
      BY <1>6, <1>7
    <2>2. PICK i \in 1 .. Len(cleanup) : cleanup[i] = x
      BY <1>0, <2>1 DEF LostSessionQueued
    <2>3. CASE cleanup' = cleanup
      BY <2>2, <2>3
    <2>4. CASE /\ cleanup # << >> /\ g = Head(cleanup)
               /\ cleanup' = Tail(cleanup)
      <3>1. i # 1
        BY <1>0, <2>1, <2>2, <2>4 DEF TypeOK
      <3>2. /\ Len(cleanup') = Len(cleanup) - 1 /\ i - 1 \in 1 .. Len(cleanup')
            /\ cleanup'[i - 1] = cleanup[i]
        BY <1>0, <2>2, <2>4, <3>1 DEF TypeOK
      <3>3. QED
        BY <2>2, <3>2
    <2>5. QED
      BY <1>1, <2>3, <2>4
  <1>9. (flaps = 0 /\ ~shutdown => Steady)'
    <2> SUFFICES ASSUME flaps = 0, ~shutdown PROVE Steady'
      BY <1>2
    <2>0. Steady
      BY DEF IInv
    <2>1. CASE slots[g] = None
      <3>1. slots' = slots
        BY <1>0, <1>3, <2>1 DEF TypeOK
      <3>2. cleanup' = cleanup
        <4>1. SUFFICES ASSUME cleanup # << >>, g = Head(cleanup) PROVE FALSE
          BY <1>1, <4>1
        <4>2. 1 \in 1 .. Len(cleanup) /\ cleanup[1] = g
          BY <1>0, <4>1 DEF TypeOK
        <4>3. QED
          BY <2>0, <2>1, <4>2 DEF Steady
      <3>3. QED
        BY <1>2, <1>3, <2>0, <3>1, <3>2 DEF Steady
    <2>2. CASE slots[g] # None
      <3>1. /\ ~channels[slots[g]].image
            /\ client[g].phase \notin {"joining", "joined"}
            /\ ~(reply[g] # None /\ reply[g].kind = "ACCEPT")
        <4>1. CASE At("accept") /\ server.on = g
          BY <2>0, <4>1 DEF Steady
        <4>2. CASE cleanup # << >> /\ g = Head(cleanup)
          <5>1. 1 \in 1 .. Len(cleanup) /\ cleanup[1] = g
            BY <1>0, <4>2 DEF TypeOK
          <5>2. channels[slots[g]].lost /\ slots[g] \in 1 .. Len(channels)
            BY <1>0, <2>0, <2>2, <5>1 DEF Steady, TypeOK
          <5>3. QED
            BY <2>0, <5>2 DEF Steady
        <4>3. QED
          BY <1>1, <4>1, <4>2
      <3>2. \A n \in 1 .. Len(channels) : channels[n].image =>
              slots'[channels[n].gateway] = n /\ ~channels[n].lost
        BY <1>0, <1>6, <2>0, <3>1, ChannelFacts DEF Steady
      <3>3. /\ \A x \in Gateways : client[x].phase \in {"joining", "joined"} =>
                 /\ slots'[x] = client[x].channel
                 /\ ~channels[client[x].channel].lost
            /\ \A x \in Gateways : reply[x] # None /\ reply[x].kind = "ACCEPT" =>
                 /\ slots'[x] = reply[x].channel
                 /\ ~channels[reply[x].channel].lost
                 /\ ~channels[reply[x].channel].image
        BY <1>6, <2>0, <3>1 DEF Steady
      <3>4. ASSUME NEW i \in 1 .. Len(cleanup')
            PROVE  /\ slots'[cleanup'[i]] # None
                   /\ channels[slots'[cleanup'[i]]].lost
                   /\ \A j \in 1 .. Len(cleanup') :
                        cleanup'[j] = cleanup'[i] => j = i
        <4>1. CASE At("accept") /\ server.on = g /\ cleanup' = cleanup
          <5>1. cleanup[i] # g
            BY <2>0, <4>1 DEF Steady
          <5>2. cleanup[i] \in Gateways
            BY <1>0, <4>1 DEF TypeOK
          <5>3. QED
            BY <1>6, <2>0, <4>1, <5>1, <5>2 DEF Steady
        <4>2. CASE /\ cleanup # << >> /\ g = Head(cleanup)
                   /\ cleanup' = Tail(cleanup)
          <5>1. /\ Len(cleanup') = Len(cleanup) - 1 /\ Len(cleanup) \in Nat
                /\ \A j \in 1 .. Len(cleanup') :
                     j + 1 \in 1 .. Len(cleanup) /\ cleanup'[j] = cleanup[j + 1]
                /\ 1 \in 1 .. Len(cleanup) /\ cleanup[1] = g
            BY <1>0, <4>2 DEF TypeOK
          <5>2. cleanup[i + 1] # g /\ cleanup[i + 1] \in Gateways
            BY <1>0, <2>0, <5>1 DEF Steady, TypeOK
          <5>3. \A j \in 1 .. Len(cleanup') : cleanup'[j] = cleanup'[i] => j = i
            BY <2>0, <5>1 DEF Steady
          <5>4. QED
            BY <1>6, <2>0, <5>1, <5>2, <5>3 DEF Steady
        <4>3. QED
          BY <1>1, <4>1, <4>2
      <3>5. QED
        BY <1>2, <1>3, <3>2, <3>3, <3>4 DEF Steady
    <2>3. QED
      BY <2>1, <2>2
  <1>10. QED
    BY <1>3, <1>5, <1>8, <1>9 DEF IInv

(* The channel goes from the server's hand to the cooldown.                *)
LEMMA CloseSessionKeeps ==
  ASSUME IInv, NEW state \in {"closing", "stuck"}, CloseSession(state)
  PROVE  IInv'
  <1> USE ConstantsAssumption
  <1>0. /\ TypeOK /\ ServerInHand /\ RepliesFit /\ ResponsesGoToTheSlot
        /\ NoOrphanChannel /\ CooldownCovers /\ SessionPortsExclusive
    BY DEF IInv
  <1>1. PICK n \in 1 .. Len(channels) : n = server.on
    BY <1>0 DEF CloseSession, ServerInHand
  <1> DEFINE c == [channels[n] EXCEPT !.state = state]
  <1>2. /\ channels[n].state = "open" /\ slots[channels[n].gateway] # n
        /\ server.ret = "shutdown" => shutdown
    BY <1>0, <1>1 DEF CloseSession, ServerInHand
  <1>3. c \in Channel /\ c.state = state /\ c.gateway = channels[n].gateway
        /\ c.session = channels[n].session /\ c.ports = channels[n].ports
        /\ c.image = channels[n].image /\ c.lost = channels[n].lost
        /\ c.handlers = channels[n].handlers
    BY <1>0, ChannelFacts DEF Channel
  <1>4. /\ channels' \in Seq(Channel) /\ Len(channels') = Len(channels)
        /\ channels'[n] = c
        /\ \A m \in 1 .. Len(channels) : m # n => channels'[m] = channels[m]
    <2>1. channels' = [channels EXCEPT ![n] = c] /\ channels \in Seq(Channel)
      BY <1>0, <1>1 DEF CloseSession, TypeOK
    <2> HIDE DEF c
    <2>2. QED
      BY <1>3, <2>1, ChannelUpdate
  <1>5. /\ UNCHANGED <<slots, publications, cleanup, shutdown, hellos, client,
                       reply, flaps>>
        /\ recently_freed' = mark_freed(PortsOf(n))
        /\ server' \in Server /\ At("close")
        /\ ~At("close")' /\ ~At("accept")' /\ (At("shutdown")' => shutdown)
    BY <1>0, <1>1, <1>2 DEF CloseSession, Goto, peers, TypeOK, Server, At
  <1> HIDE DEF c
  <1>6. \A m \in 1 .. Len(channels) :
          /\ channels'[m].gateway = channels[m].gateway
          /\ channels'[m].session = channels[m].session
          /\ channels'[m].ports = channels[m].ports
          /\ channels'[m].image = channels[m].image
          /\ channels'[m].lost = channels[m].lost
          /\ channels'[m].handlers = channels[m].handlers
    BY <1>3, <1>4
  <1>7. TypeOK'
    <2>1. recently_freed' \in [Ports -> {"free", "cooling", "expired"}]
      BY <1>0, <1>5 DEF TypeOK, mark_freed
    <2>2. QED
      BY <1>0, <1>4, <1>5, <2>1 DEF TypeOK
  <1>8. ServerInHand'
    BY <1>5 DEF ServerInHand
  <1>9. RepliesFit'
    BY <1>0, <1>4, <1>5, <1>6 DEF RepliesFit
  <1>a. \A g \in Gateways : slots[g] # None =>
          /\ slots[g] \in 1 .. Len(channels) /\ slots[g] # n
          /\ channels'[slots[g]] = channels[slots[g]]
    BY <1>0, <1>2, <1>4 DEF TypeOK, ResponsesGoToTheSlot
  <1>10. ResponsesGoToTheSlot'
    BY <1>0, <1>5, <1>a DEF ResponsesGoToTheSlot, Connected
  <1>11. NoOrphanChannel'
    BY <1>0, <1>1, <1>3, <1>4, <1>5 DEF NoOrphanChannel
  <1>12. HandlersOutliveCallbacks'
    <2>1. \A m \in 1 .. Len(channels) :
            channels'[m].state # "closed" => channels[m].state # "closed"
      BY <1>2, <1>4
    <2>2. QED
      BY <1>4, <1>6, <2>1 DEF IInv, HandlersOutliveCallbacks
  <1>b. \A m \in 1 .. Len(channels) :
          /\ PortsOf(m)' = PortsOf(m) /\ (Tracked(m)' => Tracked(m))
          /\ PortsOf(m) \subseteq Ports
    <2> SUFFICES ASSUME NEW m \in 1 .. Len(channels)
                 PROVE  /\ PortsOf(m)' = PortsOf(m)
                        /\ Tracked(m)' => Tracked(m)
                        /\ PortsOf(m) \subseteq Ports
      OBVIOUS
    <2>1. PortsOf(m)' = PortsOf(m)
      BY <1>6 DEF PortsOf
    <2>2. Tracked(m)' => Tracked(m)
      BY <1>2, <1>4 DEF Tracked
    <2>3. QED
      BY <1>0, <2>1, <2>2, ChannelFacts
  <1>13. CooldownCovers'
    <2>1. \A p \in PortsOf(n) : recently_freed'[p] = "cooling"
      BY <1>5, <1>b DEF mark_freed
    <2>2. ASSUME NEW m \in 1 .. Len(channels), m # n, Tracked(m)
          PROVE  \A p \in PortsOf(m) : recently_freed'[p] = recently_freed[p]
      <3>1. PortsOf(m) \cap PortsOf(n) = {}
        BY <1>0, <1>2, <2>2 DEF SessionPortsExclusive, Tracked
      <3>2. QED
        BY <1>5, <1>b, <3>1 DEF mark_freed
    <2>3. ASSUME NEW m \in 1 .. Len(channels)
          PROVE  /\ channels'[m].ports[1] # channels'[m].ports[2]
                 /\ channels'[m].state = "open" =>
                      \A p \in PortsOf(m) : recently_freed'[p] = "free"
                 /\ channels'[m].state = "closing" =>
                      \A p \in PortsOf(m) : recently_freed'[p] = "cooling"
      <3>1. channels'[m].ports[1] # channels'[m].ports[2]
        BY <1>0, <1>6 DEF CooldownCovers
      <3>2. CASE m = n
        BY <1>3, <1>4, <2>1, <3>1, <3>2
      <3>3. CASE m # n
        BY <1>0, <1>4, <2>2, <3>1, <3>3 DEF CooldownCovers, Tracked
      <3>4. QED
        BY <3>2, <3>3
    <2>4. QED
      BY <1>4, <1>b, <2>3 DEF CooldownCovers
  <1>14. SessionPortsExclusive'
    BY <1>0, <1>4, <1>b DEF SessionPortsExclusive
  <1>15. LostSessionQueued'
    BY <1>5, <1>6, <1>a DEF IInv, LostSessionQueued
  <1>16. (flaps = 0 /\ ~shutdown => Steady)'
    <2> SUFFICES ASSUME flaps = 0, ~shutdown PROVE Steady'
      BY <1>5
    <2>0. Steady
      BY DEF IInv
    <2>1. \A m \in 1 .. Len(channels') : channels'[m].image =>
            slots'[channels'[m].gateway] = m /\ ~channels'[m].lost
      BY <1>4, <1>5, <1>6, <2>0 DEF Steady
    <2>2. /\ \A g \in Gateways : client'[g].phase \in {"joining", "joined"} =>
               /\ slots'[g] = client'[g].channel
               /\ ~channels'[client'[g].channel].lost
          /\ \A g \in Gateways : reply'[g] # None /\ reply'[g].kind = "ACCEPT" =>
               /\ slots'[g] = reply'[g].channel
               /\ ~channels'[reply'[g].channel].lost
               /\ ~channels'[reply'[g].channel].image
      BY <1>0, <1>5, <1>6, <2>0 DEF Steady, RepliesFit
    <2>3. \A i \in 1 .. Len(cleanup') :
            /\ slots'[cleanup'[i]] # None
            /\ channels'[slots'[cleanup'[i]]].lost
            /\ \A j \in 1 .. Len(cleanup') : cleanup'[j] = cleanup'[i] => j = i
      <3>1. \A i \in 1 .. Len(cleanup) : cleanup[i] \in Gateways
        BY <1>0 DEF TypeOK
      <3>2. QED
        BY <1>5, <1>a, <2>0, <3>1 DEF Steady
    <2>4. QED
      BY <1>5, <2>1, <2>2, <2>3 DEF Steady
  <1>17. QED
    BY <1>7, <1>8, <1>9, <1>10, <1>11, <1>12, <1>13, <1>14, <1>15, <1>16
       DEF IInv

-----------------------------------------------------------------------------
(* The conductor's steps.                                                  *)

(* What a callback of the conductor, which changes one channel's image,    *)
(* loss or close and may queue its gateway for clean-up, cannot disturb: a *)
(* channel that is not closed keeps its handlers, ports and owner.         *)
LEMMA CallbackKeeps ==
  ASSUME IInv, NEW n \in 1 .. Len(channels), NEW c \in Channel,
         channels' = [channels EXCEPT ![n] = c],
         c.gateway = channels[n].gateway, c.session = channels[n].session,
         c.ports = channels[n].ports,
         \/ c.state = channels[n].state /\ c.handlers = channels[n].handlers
         \/ c.state = "closed" /\ channels[n].state \in {"closing", "leftover"},
         c.lost /\ ~channels[n].lost =>
           cleanup' = Append(cleanup, channels[n].gateway),
         cleanup' \in {cleanup, Append(cleanup, channels[n].gateway)},
         flaps' \in 0 .. MaxFlaps,
         UNCHANGED <<core, shutdown, peers>>
  PROVE  /\ TypeOK' /\ ServerInHand' /\ RepliesFit' /\ ResponsesGoToTheSlot'
         /\ NoOrphanChannel' /\ HandlersOutliveCallbacks' /\ CooldownCovers'
         /\ SessionPortsExclusive' /\ LostSessionQueued'
         /\ Len(channels') = Len(channels) /\ channels'[n] = c
         /\ \A m \in 1 .. Len(channels) : m # n => channels'[m] = channels[m]
         /\ cleanup' \in Seq(Gateways)
  <1> USE ConstantsAssumption
  <1>0. /\ TypeOK /\ ServerInHand /\ RepliesFit /\ ResponsesGoToTheSlot
        /\ NoOrphanChannel /\ CooldownCovers /\ SessionPortsExclusive
        /\ HandlersOutliveCallbacks /\ LostSessionQueued
    BY DEF IInv
  <1>1. /\ channels' \in Seq(Channel) /\ Len(channels') = Len(channels)
        /\ channels'[n] = c
        /\ \A m \in 1 .. Len(channels) : m # n => channels'[m] = channels[m]
    <2>1. channels \in Seq(Channel)
      BY <1>0 DEF TypeOK
    <2>2. QED
      BY <2>1, ChannelUpdate
  <1>2. UNCHANGED <<slots, publications, recently_freed, server, shutdown,
                    hellos, client, reply>>
    BY DEF core, peers
  <1>3. \A m \in 1 .. Len(channels) :
          /\ channels'[m].gateway = channels[m].gateway
          /\ channels'[m].session = channels[m].session
          /\ channels'[m].ports = channels[m].ports
          /\ channels[m].state = "open" <=> channels'[m].state = "open"
          /\ channels'[m].state = "closing" => channels[m].state = "closing"
          /\ channels'[m].state # "closed" =>
               /\ channels[m].state # "closed"
               /\ channels'[m].handlers = channels[m].handlers
    BY <1>1
  <1>4. cleanup' \in Seq(Gateways)
    <2>1. channels[n].gateway \in Gateways
      BY <1>0, ChannelFacts
    <2>2. cleanup \in Seq(Gateways)
      BY <1>0 DEF TypeOK
    <2>3. Append(cleanup, channels[n].gateway) \in Seq(Gateways)
      BY <2>1, <2>2
    <2>4. QED
      BY <2>2, <2>3
  <1>5. TypeOK'
    BY <1>0, <1>1, <1>2, <1>4 DEF TypeOK
  <1>6. ServerInHand'
    BY <1>0, <1>1, <1>2, <1>3 DEF ServerInHand, At
  <1>7. RepliesFit'
    BY <1>0, <1>1, <1>2, <1>3 DEF RepliesFit
  <1>8. ResponsesGoToTheSlot'
    <2>1. \A g \in Gateways : slots[g] # None => slots[g] \in 1 .. Len(channels)
      BY <1>0 DEF TypeOK
    <2>2. QED
      BY <1>0, <1>2, <1>3, <2>1 DEF ResponsesGoToTheSlot, Connected
  <1>9. NoOrphanChannel'
    BY <1>0, <1>1, <1>2, <1>3 DEF NoOrphanChannel, At
  <1>10. HandlersOutliveCallbacks'
    BY <1>0, <1>1, <1>3 DEF HandlersOutliveCallbacks
  <1>11. \A m \in 1 .. Len(channels) :
           PortsOf(m)' = PortsOf(m) /\ (Tracked(m)' => Tracked(m))
    <2> SUFFICES ASSUME NEW m \in 1 .. Len(channels)
                 PROVE  PortsOf(m)' = PortsOf(m) /\ (Tracked(m)' => Tracked(m))
      OBVIOUS
    <2>1. PortsOf(m)' = PortsOf(m)
      BY <1>3 DEF PortsOf
    <2>2. QED
      BY <1>3, <2>1 DEF Tracked
  <1>12. CooldownCovers'
    BY <1>0, <1>1, <1>2, <1>3, <1>11 DEF CooldownCovers
  <1>13. SessionPortsExclusive'
    BY <1>0, <1>1, <1>11 DEF SessionPortsExclusive
  <1>14. LostSessionQueued'
    <2> SUFFICES ASSUME NEW g \in Gateways, slots[g] # None,
                        channels'[slots[g]].lost
                 PROVE  \E i \in 1 .. Len(cleanup') : cleanup'[i] = g
      BY <1>2 DEF LostSessionQueued
    <2>0. /\ slots[g] \in 1 .. Len(channels) /\ cleanup \in Seq(Gateways)
          /\ channels[slots[g]].gateway = g
      BY <1>0 DEF TypeOK, ResponsesGoToTheSlot
    <2>1. CASE channels[slots[g]].lost
      <3>1. PICK i \in 1 .. Len(cleanup) : cleanup[i] = g
        BY <1>0, <2>1 DEF LostSessionQueued
      <3>2. i \in 1 .. Len(cleanup') /\ cleanup'[i] = cleanup[i]
        BY <2>0
      <3>3. QED
        BY <3>1, <3>2
    <2>2. CASE ~channels[slots[g]].lost
      <3>1. slots[g] = n
        BY <1>1, <2>0, <2>2
      <3>2. cleanup' = Append(cleanup, g)
        BY <1>1, <2>0, <2>2, <3>1
      <3>3. Len(cleanup) + 1 \in 1 .. Len(cleanup')
            /\ cleanup'[Len(cleanup) + 1] = g
        BY <2>0, <3>2
      <3>4. QED
        BY <3>3
    <2>3. QED
      BY <2>1, <2>2
  <1>15. QED
    BY <1>1, <1>4, <1>5, <1>6, <1>7, <1>8, <1>9, <1>10, <1>12, <1>13, <1>14

(* An image comes up: only on a channel its gateway holds, hence, while    *)
(* images do not flap, on the one in the slot.                             *)
LEMMA ImageAvailableKeeps ==
  ASSUME IInv, NEW n \in 1 .. Len(channels), ImageAvailable(n)
  PROVE  IInv'
  <1> DEFINE c == [channels[n] EXCEPT !.image = TRUE]
             g == channels[n].gateway
  <1>0. TypeOK /\ RepliesFit /\ channels[n] \in Channel /\ g \in Gateways
    BY ChannelFacts DEF IInv
  <1>1. /\ c \in Channel /\ c.gateway = channels[n].gateway
        /\ c.session = channels[n].session /\ c.ports = channels[n].ports
        /\ c.state = channels[n].state /\ c.lost = channels[n].lost
        /\ c.handlers = channels[n].handlers
    BY <1>0 DEF Channel
  <1>2. /\ channels' = [channels EXCEPT ![n] = c] /\ cleanup' = cleanup
        /\ flaps' = flaps /\ flaps \in 0 .. MaxFlaps
        /\ UNCHANGED <<core, shutdown, peers>>
    BY <1>0 DEF ImageAvailable, TypeOK
  <1>3. client[g].channel = n /\ client[g].phase \in {"joining", "joined"}
    BY DEF ImageAvailable, Holds
  <1> HIDE DEF c, g
  <1>4. /\ TypeOK' /\ ServerInHand' /\ RepliesFit' /\ ResponsesGoToTheSlot'
        /\ NoOrphanChannel' /\ HandlersOutliveCallbacks' /\ CooldownCovers'
        /\ SessionPortsExclusive' /\ LostSessionQueued'
        /\ Len(channels') = Len(channels) /\ channels'[n] = c
        /\ \A m \in 1 .. Len(channels) : m # n => channels'[m] = channels[m]
    BY <1>1, <1>2, CallbackKeeps
  <1>5. (flaps = 0 /\ ~shutdown => Steady)'
    <2> SUFFICES ASSUME flaps = 0, ~shutdown PROVE Steady'
      BY <1>2
    <2>0. /\ Steady
          /\ UNCHANGED <<slots, server, client, reply, cleanup>>
      BY <1>2 DEF IInv, core, peers
    <2>1. slots[g] = n /\ ~channels[n].lost /\ ~(At("accept") /\ server.on = g)
      BY <1>0, <1>3, <2>0 DEF Steady
    <2>2. \A m \in 1 .. Len(channels) :
            /\ channels'[m].gateway = channels[m].gateway
            /\ channels'[m].lost = channels[m].lost
            /\ channels'[m].image => channels[m].image \/ m = n
      BY <1>1, <1>4
    <2>3. \A x \in Gateways : slots[x] # None =>
            /\ slots[x] \in 1 .. Len(channels)
            /\ slots[x] = n => x = g
      BY DEF IInv, TypeOK, ResponsesGoToTheSlot, g
    <2>4. \A m \in 1 .. Len(channels') : channels'[m].image =>
            slots'[channels'[m].gateway] = m /\ ~channels'[m].lost
      BY <1>4, <2>0, <2>1, <2>2 DEF Steady, g
    <2>5. /\ \A x \in Gateways : client'[x].phase \in {"joining", "joined"} =>
               /\ slots'[x] = client'[x].channel
               /\ ~channels'[client'[x].channel].lost
               /\ ~(At("accept") /\ server.on = x)'
          /\ \A x \in Gateways : reply'[x] # None /\ reply'[x].kind = "ACCEPT" =>
               /\ slots'[x] = reply'[x].channel
               /\ ~channels'[reply'[x].channel].lost
               /\ ~channels'[reply'[x].channel].image
               /\ ~(At("accept") /\ server.on = x)'
      <3>1. \A x \in Gateways : reply[x] # None => x # g
        BY <1>0, <1>3 DEF RepliesFit
      <3>2. \A x \in Gateways : reply[x] # None /\ reply[x].kind = "ACCEPT" =>
              reply[x].channel # n
        BY <1>0, <3>1 DEF RepliesFit, g
      <3>3. QED
        BY <1>0, <2>0, <2>2, <3>2 DEF Steady, RepliesFit, At
    <2>6. At("accept")' => /\ ~channels'[slots'[server'.on]].lost
                           /\ ~channels'[slots'[server'.on]].image
      <3> SUFFICES ASSUME At("accept")
                   PROVE  /\ ~channels'[slots[server.on]].lost
                          /\ ~channels'[slots[server.on]].image
        BY <2>0 DEF At
      <3>1. server.on \in Gateways /\ slots[server.on] # None
        BY DEF IInv, ServerInHand
      <3>2. server.on # g
        BY <2>1
      <3>3. QED
        BY <2>0, <2>2, <2>3, <3>1, <3>2 DEF Steady
    <2>7. \A i \in 1 .. Len(cleanup') :
            /\ slots'[cleanup'[i]] # None
            /\ channels'[slots'[cleanup'[i]]].lost
            /\ \A j \in 1 .. Len(cleanup') : cleanup'[j] = cleanup'[i] => j = i
      <3>1. \A i \in 1 .. Len(cleanup) : cleanup[i] \in Gateways
        BY <1>0 DEF TypeOK
      <3>2. QED
        BY <2>0, <2>2, <2>3, <3>1 DEF Steady
    <2>8. QED
      BY <2>4, <2>5, <2>6, <2>7 DEF Steady
  <1>6. QED
    BY <1>4, <1>5 DEF IInv

(* An image goes away.  While images do not flap its gateway has given the *)
(* channel up before; the request that follows is the only one for it.     *)
LEMMA ImageUnavailableKeeps ==
  ASSUME IInv, NEW n \in 1 .. Len(channels), ImageUnavailable(n)
  PROVE  IInv'
  <1> DEFINE c == [channels[n] EXCEPT !.image = FALSE, !.lost = TRUE]
             g == channels[n].gateway
  <1>0. TypeOK /\ RepliesFit /\ channels[n] \in Channel /\ g \in Gateways
    BY ChannelFacts DEF IInv
  <1>1. /\ c \in Channel /\ c.gateway = channels[n].gateway
        /\ c.session = channels[n].session /\ c.ports = channels[n].ports
        /\ c.state = channels[n].state /\ c.lost /\ ~c.image
        /\ c.handlers = channels[n].handlers
    BY <1>0 DEF Channel
  <1>2. /\ channels' = [channels EXCEPT ![n] = c]
        /\ cleanup' = Append(cleanup, g)
        /\ channels[n].image
        /\ UNCHANGED <<core, shutdown, peers>>
    BY <1>0 DEF ImageUnavailable
  <1>3. flaps' \in 0 .. MaxFlaps /\ (flaps' = 0 => flaps = 0 /\ ~Holds(n))
    BY <1>0, ConstantsAssumption DEF ImageUnavailable, TypeOK
  <1>4. /\ TypeOK' /\ ServerInHand' /\ RepliesFit' /\ ResponsesGoToTheSlot'
        /\ NoOrphanChannel' /\ HandlersOutliveCallbacks' /\ CooldownCovers'
        /\ SessionPortsExclusive' /\ LostSessionQueued'
        /\ Len(channels') = Len(channels) /\ channels'[n] = c
        /\ \A m \in 1 .. Len(channels) : m # n => channels'[m] = channels[m]
    <2> HIDE DEF c
    <2> QED BY <1>1, <1>2, <1>3, CallbackKeeps
  <1> HIDE DEF c, g
  <1>5. (flaps = 0 /\ ~shutdown => Steady)'
    <2> SUFFICES ASSUME flaps = 0, ~shutdown, ~Holds(n) PROVE Steady'
      BY <1>2, <1>3
    <2>0. Steady /\ UNCHANGED <<slots, server, client, reply>>
      BY <1>2 DEF IInv, core, peers
    <2>1. slots[g] = n /\ ~channels[n].lost
      BY <1>2, <2>0 DEF Steady, g
    <2>2. \A m \in 1 .. Len(channels) :
            /\ channels'[m].gateway = channels[m].gateway
            /\ m # n => channels'[m].lost = channels[m].lost
            /\ channels'[m].image => channels[m].image /\ m # n
      BY <1>1, <1>4
    <2>3. \A x \in Gateways : slots[x] # None =>
            /\ slots[x] \in 1 .. Len(channels)
            /\ slots[x] = n => x = g
      BY DEF IInv, TypeOK, ResponsesGoToTheSlot, g
    <2>4. \A m \in 1 .. Len(channels') : channels'[m].image =>
            slots'[channels'[m].gateway] = m /\ ~channels'[m].lost
      BY <1>4, <2>0, <2>2 DEF Steady
    <2>a. ~(At("accept") /\ server.on = g)
      BY <1>2, <2>0, <2>1 DEF Steady
    <2>b. \A x \in Gateways :
            /\ client[x].phase \in {"joining", "joined"} =>
                 client[x].channel \in 1 .. Len(channels) \ {n}
            /\ reply[x] # None /\ reply[x].kind = "ACCEPT" =>
                 reply[x].channel \in 1 .. Len(channels) \ {n}
      BY <1>0, <1>2, <2>0 DEF RepliesFit, Steady, Holds, g
    <2>5. /\ \A x \in Gateways : client'[x].phase \in {"joining", "joined"} =>
               /\ slots'[x] = client'[x].channel
               /\ ~channels'[client'[x].channel].lost
               /\ ~(At("accept") /\ server.on = x)'
          /\ \A x \in Gateways : reply'[x] # None /\ reply'[x].kind = "ACCEPT" =>
               /\ slots'[x] = reply'[x].channel
               /\ ~channels'[reply'[x].channel].lost
               /\ ~channels'[reply'[x].channel].image
               /\ ~(At("accept") /\ server.on = x)'
      BY <2>0, <2>2, <2>b DEF Steady, At
    <2>6. At("accept")' => /\ ~channels'[slots'[server'.on]].lost
                           /\ ~channels'[slots'[server'.on]].image
      <3> SUFFICES ASSUME At("accept")
                   PROVE  /\ ~channels'[slots[server.on]].lost
                          /\ ~channels'[slots[server.on]].image
        BY <2>0 DEF At
      <3>1. server.on \in Gateways /\ slots[server.on] # None
        BY DEF IInv, ServerInHand
      <3>2. QED
        BY <2>0, <2>2, <2>3, <2>a, <3>1 DEF Steady
    <2>7. ASSUME NEW i \in 1 .. Len(cleanup')
          PROVE  /\ slots'[cleanup'[i]] # None
                 /\ channels'[slots'[cleanup'[i]]].lost
                 /\ \A j \in 1 .. Len(cleanup') :
                      cleanup'[j] = cleanup'[i] => j = i
      <3>0. cleanup \in Seq(Gateways) /\ Len(cleanup) \in Nat
        BY <1>0 DEF TypeOK
      <3>1. /\ Len(cleanup') = Len(cleanup) + 1
            /\ cleanup'[Len(cleanup) + 1] = g
            /\ \A j \in 1 .. Len(cleanup) :
                 cleanup'[j] = cleanup[j] /\ cleanup[j] \in Gateways
        BY <1>0, <1>2, <3>0
      <3>2. \A j \in 1 .. Len(cleanup) : cleanup[j] # g
        BY <2>0, <2>1 DEF Steady
      <3>3. \A j \in 1 .. Len(cleanup') : cleanup'[j] = cleanup'[i] => j = i
        BY <2>0, <3>0, <3>1, <3>2 DEF Steady
      <3>4. CASE i \in 1 .. Len(cleanup)
        <4>1. slots[cleanup[i]] # None /\ channels[slots[cleanup[i]]].lost
          BY <2>0, <3>4 DEF Steady
        <4>2. slots[cleanup[i]] \in 1 .. Len(channels) \ {n}
          BY <2>3, <3>1, <3>2, <3>4, <4>1
        <4>3. QED
          BY <2>0, <2>2, <3>1, <3>3, <3>4, <4>1, <4>2
      <3>5. CASE i = Len(cleanup) + 1
        <4>1. n # None
          BY <1>0, ChannelFacts
        <4>2. QED
          BY <1>1, <1>4, <2>0, <2>1, <3>1, <3>3, <3>5, <4>1
      <3>6. QED
        BY <3>0, <3>1, <3>4, <3>5
    <2>8. QED
      BY <2>4, <2>5, <2>6, <2>7 DEF Steady
  <1>6. QED
    BY <1>4, <1>5 DEF IInv

(* The close of a channel finishes.  Until images flap no image is up on a *)
(* closing channel, so nothing is queued.                                  *)
LEMMA SubscriptionClosedKeeps ==
  ASSUME IInv, NEW n \in 1 .. Len(channels), NEW told \in BOOLEAN,
         SubscriptionClosed(n, told)
  PROVE  IInv'
  <1> DEFINE c == [channels[n] EXCEPT !.state = "closed", !.image = FALSE,
                     !.lost = @ \/ told, !.handlers = "released"]
             g == channels[n].gateway
  <1>0. TypeOK /\ RepliesFit /\ channels[n] \in Channel /\ g \in Gateways
    BY ChannelFacts DEF IInv
  <1>1. /\ c \in Channel /\ c.gateway = channels[n].gateway
        /\ c.session = channels[n].session /\ c.ports = channels[n].ports
        /\ c.state = "closed" /\ c.lost = (channels[n].lost \/ told)
        /\ ~c.image
    BY <1>0 DEF Channel
  <1>2. /\ channels' = [channels EXCEPT ![n] = c]
        /\ told => cleanup' = Append(cleanup, g) /\ channels[n].image
        /\ ~told => cleanup' = cleanup
        /\ channels[n].state = "closing" /\ flaps' = flaps
        /\ flaps \in 0 .. MaxFlaps
        /\ UNCHANGED <<core, shutdown, peers>>
    BY <1>0 DEF SubscriptionClosed, TypeOK
  <1> HIDE DEF c, g
  <1>3. /\ c.lost /\ ~channels[n].lost =>
             cleanup' = Append(cleanup, channels[n].gateway)
        /\ cleanup' \in {cleanup, Append(cleanup, channels[n].gateway)}
    BY <1>1, <1>2 DEF g
  <1>4. /\ TypeOK' /\ ServerInHand' /\ RepliesFit' /\ ResponsesGoToTheSlot'
        /\ NoOrphanChannel' /\ HandlersOutliveCallbacks' /\ CooldownCovers'
        /\ SessionPortsExclusive' /\ LostSessionQueued'
        /\ Len(channels') = Len(channels) /\ channels'[n] = c
        /\ \A m \in 1 .. Len(channels) : m # n => channels'[m] = channels[m]
    BY <1>1, <1>2, <1>3, CallbackKeeps
  <1>5. (flaps = 0 /\ ~shutdown => Steady)'
    <2> SUFFICES ASSUME flaps = 0, ~shutdown PROVE Steady'
      BY <1>2
    <2>0. Steady /\ UNCHANGED <<slots, server, client, reply>>
      BY <1>2 DEF IInv, core, peers
    <2>1. slots[g] # n
      BY <1>0, <1>2, ChannelFacts DEF IInv, ResponsesGoToTheSlot
    <2>2. ~channels[n].image /\ ~told /\ cleanup' = cleanup
      BY <1>2, <2>0, <2>1 DEF Steady, g
    <2>3. \A m \in 1 .. Len(channels) :
            /\ channels'[m].gateway = channels[m].gateway
            /\ channels'[m].lost = channels[m].lost
            /\ channels'[m].image <=> channels[m].image
      <3>1. c.lost = channels[n].lost
        BY <1>0, <1>1, <2>2 DEF Channel
      <3>2. QED
        BY <1>1, <1>4, <2>2, <3>1
    <2>4. \A x \in Gateways : slots[x] # None => slots[x] \in 1 .. Len(channels)
      BY <1>0 DEF TypeOK
    <2>5. \A i \in 1 .. Len(cleanup) : cleanup[i] \in Gateways
      BY <1>0 DEF TypeOK
    <2>6. \A m \in 1 .. Len(channels') : channels'[m].image =>
            slots'[channels'[m].gateway] = m /\ ~channels'[m].lost
      BY <1>4, <2>0, <2>3 DEF Steady
    <2>7. /\ \A x \in Gateways : client'[x].phase \in {"joining", "joined"} =>
               /\ slots'[x] = client'[x].channel
               /\ ~channels'[client'[x].channel].lost
               /\ ~(At("accept") /\ server.on = x)'
          /\ \A x \in Gateways : reply'[x] # None /\ reply'[x].kind = "ACCEPT" =>
               /\ slots'[x] = reply'[x].channel
               /\ ~channels'[reply'[x].channel].lost
               /\ ~channels'[reply'[x].channel].image
               /\ ~(At("accept") /\ server.on = x)'
      BY <1>0, <2>0, <2>3 DEF Steady, RepliesFit, At
    <2>8. At("accept")' => /\ ~channels'[slots'[server'.on]].lost
                           /\ ~channels'[slots'[server'.on]].image
      BY <2>0, <2>3, <2>4 DEF IInv, ServerInHand, Steady, At
    <2>9. \A i \in 1 .. Len(cleanup') :
            /\ slots'[cleanup'[i]] # None
            /\ channels'[slots'[cleanup'[i]]].lost
            /\ \A j \in 1 .. Len(cleanup') : cleanup'[j] = cleanup'[i] => j = i
      BY <2>0, <2>2, <2>3, <2>4, <2>5 DEF Steady
    <2>10. QED
      BY <2>6, <2>7, <2>8, <2>9 DEF Steady
  <1>6. QED
    BY <1>4, <1>5 DEF IInv

(* The close of a leftover publication finishes.                           *)
LEMMA PublicationClosedKeeps ==
  ASSUME IInv, NEW n \in 1 .. Len(channels), PublicationClosed(n)
  PROVE  IInv'
  <1> DEFINE c == [channels[n] EXCEPT !.state = "closed"]
  <1>0. TypeOK /\ RepliesFit /\ channels[n] \in Channel
    BY ChannelFacts DEF IInv
  <1>1. /\ c \in Channel /\ c.gateway = channels[n].gateway
        /\ c.session = channels[n].session /\ c.ports = channels[n].ports
        /\ c.state = "closed" /\ c.lost = channels[n].lost
        /\ c.image = channels[n].image
    BY <1>0 DEF Channel
  <1>2. /\ channels' = [channels EXCEPT ![n] = c] /\ cleanup' = cleanup
        /\ channels[n].state = "leftover"
        /\ flaps' = flaps /\ flaps \in 0 .. MaxFlaps
        /\ UNCHANGED <<core, shutdown, peers>>
    BY <1>0 DEF PublicationClosed, TypeOK
  <1> HIDE DEF c
  <1>3. /\ TypeOK' /\ ServerInHand' /\ RepliesFit' /\ ResponsesGoToTheSlot'
        /\ NoOrphanChannel' /\ HandlersOutliveCallbacks' /\ CooldownCovers'
        /\ SessionPortsExclusive' /\ LostSessionQueued'
        /\ Len(channels') = Len(channels) /\ channels'[n] = c
        /\ \A m \in 1 .. Len(channels) : m # n => channels'[m] = channels[m]
    BY <1>1, <1>2, CallbackKeeps
  <1>4. (flaps = 0 /\ ~shutdown => Steady)'
    <2> SUFFICES ASSUME flaps = 0, ~shutdown PROVE Steady'
      BY <1>2
    <2>0. Steady /\ UNCHANGED <<slots, server, client, reply, cleanup>>
      BY <1>2 DEF IInv, core, peers
    <2>1. \A m \in 1 .. Len(channels) :
            /\ channels'[m].gateway = channels[m].gateway
            /\ channels'[m].lost = channels[m].lost
            /\ channels'[m].image = channels[m].image
      BY <1>1, <1>3
    <2>2. /\ \A x \in Gateways : slots[x] # None =>
               slots[x] \in 1 .. Len(channels)
          /\ \A i \in 1 .. Len(cleanup) : cleanup[i] \in Gateways
      BY <1>0 DEF TypeOK
    <2>3. \A m \in 1 .. Len(channels') : channels'[m].image =>
            slots'[channels'[m].gateway] = m /\ ~channels'[m].lost
      BY <1>3, <2>0, <2>1 DEF Steady
    <2>4. /\ \A x \in Gateways : client'[x].phase \in {"joining", "joined"} =>
               /\ slots'[x] = client'[x].channel
               /\ ~channels'[client'[x].channel].lost
               /\ ~(At("accept") /\ server.on = x)'
          /\ \A x \in Gateways : reply'[x] # None /\ reply'[x].kind = "ACCEPT" =>
               /\ slots'[x] = reply'[x].channel
               /\ ~channels'[reply'[x].channel].lost
               /\ ~channels'[reply'[x].channel].image
               /\ ~(At("accept") /\ server.on = x)'
      BY <1>0, <2>0, <2>1 DEF Steady, RepliesFit, At
    <2>5. At("accept")' => /\ ~channels'[slots'[server'.on]].lost
                           /\ ~channels'[slots'[server'.on]].image
      BY <2>0, <2>1, <2>2 DEF IInv, ServerInHand, Steady, At
    <2>6. \A i \in 1 .. Len(cleanup') :
            /\ slots'[cleanup'[i]] # None
            /\ channels'[slots'[cleanup'[i]]].lost
            /\ \A j \in 1 .. Len(cleanup') : cleanup'[j] = cleanup'[i] => j = i
      BY <2>0, <2>1, <2>2 DEF Steady
    <2>7. QED
      BY <2>3, <2>4, <2>5, <2>6 DEF Steady
  <1>5. QED
    BY <1>3, <1>4 DEF IInv

(* A cooldown runs out only once the ports' sessions have closed.          *)
LEMMA ElapseKeeps ==
  ASSUME IInv, NEW n \in 1 .. Len(channels), Elapse(n)
  PROVE  IInv'
  <1>1. UNCHANGED <<slots, publications, server, cleanup, channels, shutdown,
                    hellos, client, reply, flaps>>
    BY DEF Elapse, peers
  <1>2. /\ recently_freed' \in [Ports -> {"free", "cooling", "expired"}]
        /\ \A p \in Ports \ PortsOf(n) : recently_freed'[p] = recently_freed[p]
    BY DEF Elapse, IInv, TypeOK
  <1>3. TypeOK'
    BY <1>1, <1>2 DEF IInv, TypeOK
  <1>4. CooldownCovers'
    <2>1. ASSUME NEW m \in 1 .. Len(channels), Tracked(m)
          PROVE  \A p \in PortsOf(m) : recently_freed'[p] = recently_freed[p]
      <3>1. PortsOf(m) \cap PortsOf(n) = {}
        BY <2>1 DEF Elapse
      <3>2. PortsOf(m) \subseteq Ports
        BY ChannelFacts DEF IInv
      <3>3. QED
        BY <1>2, <3>1, <3>2
    <2>2. \A m \in 1 .. Len(channels) : PortsOf(m)' = PortsOf(m)
      BY <1>1 DEF PortsOf
    <2>3. QED
      BY <1>1, <2>1, <2>2 DEF IInv, CooldownCovers, Tracked
  <1>5. ServerInHand' /\ NoOrphanChannel'
    BY <1>1 DEF IInv, ServerInHand, NoOrphanChannel, At
  <1>6. RepliesFit' /\ HandlersOutliveCallbacks' /\ LostSessionQueued'
    BY <1>1 DEF IInv, RepliesFit, HandlersOutliveCallbacks, LostSessionQueued
  <1>7. ResponsesGoToTheSlot'
    BY <1>1 DEF IInv, ResponsesGoToTheSlot, Connected
  <1>8. SessionPortsExclusive'
    BY <1>1 DEF IInv, SessionPortsExclusive, Tracked, PortsOf
  <1>9. (flaps = 0 /\ ~shutdown => Steady)'
    BY <1>1 DEF IInv, Steady, At
  <1>10. QED
    BY <1>3, <1>4, <1>5, <1>6, <1>7, <1>8, <1>9 DEF IInv

-----------------------------------------------------------------------------
(* Every step preserves the invariant.                                     *)
LEMMA NextInv == IInv /\ [Next]_vars => IInv'
  <1> SUFFICES ASSUME IInv, [Next]_vars PROVE IInv'
    OBVIOUS
  <1>1. CASE UNCHANGED vars
    <2>1. /\ UNCHANGED <<slots, publications, recently_freed, cleanup, channels,
                         shutdown, hellos, client, reply, flaps, server>>
      BY <1>1 DEF vars, core, peers
    <2>2. TypeOK' /\ RepliesFit'
      BY <2>1 DEF IInv, TypeOK, RepliesFit
    <2>3. ServerInHand' /\ NoOrphanChannel'
      BY <2>1 DEF IInv, ServerInHand, NoOrphanChannel, At
    <2>4. (flaps = 0 /\ ~shutdown => Steady)'
      BY <2>1 DEF IInv, Steady, At
    <2>5. QED
      BY <2>1, <2>2, <2>3, <2>4, ChannelsUntouched DEF IInv
  <1>2. CASE ServerStep
    BY <1>2, MovesKeep, PeerKeeps, AllocationFailsKeeps,
       SubscriptionFailsKeeps, AllocateKeeps, AcceptSentKeeps, RemovalKeeps,
       CloseSessionKeeps DEF ServerStep
  <1>3. CASE Conductor
    BY <1>3, ImageAvailableKeeps, ImageUnavailableKeeps,
       SubscriptionClosedKeeps, PublicationClosedKeeps, ElapseKeeps
       DEF Conductor
  <1>4. CASE ShutdownRequested
    <2>1. UNCHANGED <<slots, publications, recently_freed, cleanup, channels,
                      hellos, client, reply, flaps, server>> /\ shutdown'
      BY <1>4 DEF ShutdownRequested, core, peers
    <2>2. TypeOK'
      BY <1>4, <2>1 DEF ShutdownRequested, IInv, TypeOK
    <2>3. ServerInHand' /\ NoOrphanChannel' /\ RepliesFit'
      BY <2>1 DEF IInv, ServerInHand, NoOrphanChannel, At, RepliesFit
    <2>4. QED
      BY <2>1, <2>2, <2>3, ChannelsUntouched DEF IInv
  <1>5. CASE Peer
    BY <1>4, <1>5, PeerKeeps DEF Peer
  <1>6. QED
    BY <1>1, <1>2, <1>3, <1>5 DEF Next, Stopped

(* IInv is an invariant of the specification.                              *)
THEOREM IInvInvariant == Spec => []IInv
  BY InitInv, NextInv, PTL DEF Spec

(* Every variable of the session layer keeps its type; in particular no    *)
(* gateway makes more attempts than there are, whichever gateways make     *)
(* them.                                                                   *)
THEOREM TypeCorrect == Spec => []TypeOK
  <1>1. IInv => TypeOK
    BY DEF IInv
  <1>2. QED
    BY <1>1, IInvInvariant, PTL

(* No two sessions share a UDP port, for any number of gateways and ports: *)
(* the slots and the cooldown cover a session's ports from the draw until  *)
(* the close that was asked for has finished.  Nothing is said of what no  *)
(* close was asked for: such a port can be drawn (PortsBoundOnce).         *)
THEOREM PortsSafe == Spec => []SessionPortsExclusive
  <1>1. IInv => SessionPortsExclusive
    BY DEF IInv
  <1>2. QED
    BY <1>1, IInvInvariant, PTL

(* A response goes to the open channel its gateway has now.                *)
THEOREM RoutingCorrect == Spec => []ResponsesGoToTheSlot
  <1>1. IInv => ResponsesGoToTheSlot
    BY DEF IInv
  <1>2. QED
    BY <1>1, IInvInvariant, PTL

(* No error path of remove_gateway_session or of the handshake forgets an  *)
(* open channel: it is in a slot, or its close is being asked for.         *)
THEOREM NoLeak == Spec => []NoOrphanChannel
  <1>1. IInv => NoOrphanChannel
    BY DEF IInv
  <1>2. QED
    BY <1>1, IInvInvariant, PTL

(* The handlers of Duologue's callbacks are there as long as the conductor *)
(* may call them.                                                          *)
THEOREM CallbacksSafe == Spec => []HandlersOutliveCallbacks
  <1>1. IInv => HandlersOutliveCallbacks
    BY DEF IInv
  <1>2. QED
    BY <1>1, IInvInvariant, PTL

(* A lost session that keeps its slot has a clean-up request waiting.      *)
THEOREM NoCleanupLost == Spec => []LostSessionQueued
  <1>1. IInv => LostSessionQueued
    BY DEF IInv
  <1>2. QED
    BY <1>1, IInvInvariant, PTL

(* A joined gateway whose image never went away keeps its slot, whatever   *)
(* the requests that name it, while images do not flap.                    *)
THEOREM LiveSessionsKept == Spec => []LiveSessionKept
  <1>1. IInv => LiveSessionKept
    BY DEF IInv, LiveSessionKept, Steady
  <1>2. QED
    BY <1>1, IInvInvariant, PTL

(* Two ports for each connected gateway are in use, and none is cooling.   *)
LEMMA CountExact ==
  ASSUME IInv
  PROVE  CapacityCountExact
  <1> DEFINE S == Connected \X (1 .. 2)
             f == [x \in S |-> channels[slots[x[1]]].ports[x[2]]]
  <1>0. TypeOK /\ ResponsesGoToTheSlot /\ CooldownCovers /\ SessionPortsExclusive
    BY DEF IInv
  <1>1. /\ IsFiniteSet(Connected)
        /\ IsFiniteSet(S) /\ Cardinality(S) = 2 * Cardinality(Connected)
    <2>1. IsFiniteSet(Connected)
      BY ConstantsAssumption, FS_Subset DEF Connected
    <2>2. IsFiniteSet(1 .. 2) /\ Cardinality(1 .. 2) = 2
      <3>1. /\ IsFiniteSet(1 .. 2)
            /\ Cardinality(1 .. 2) = IF 1 > 2 THEN 0 ELSE 2 - 1 + 1
        BY FS_Interval, 1 \in Int, 2 \in Int
      <3>2. QED
        BY <3>1
    <2>3. Cardinality(Connected) \in Nat
      BY <2>1, FS_CardinalityType
    <2>4. IsFiniteSet(S) /\ Cardinality(S) = Cardinality(Connected) * 2
      BY <2>1, <2>2, FS_Product
    <2>5. QED
      BY <2>1, <2>3, <2>4
  <1>2. ASSUME NEW g \in Connected
        PROVE  /\ slots[g] \in 1 .. Len(channels)
               /\ channels[slots[g]].gateway = g
               /\ channels[slots[g]].state = "open"
               /\ Tracked(slots[g])
               /\ PortsOf(slots[g]) \subseteq Ports
    <2>1. slots[g] \in 1 .. Len(channels)
      BY <1>0 DEF TypeOK, Connected
    <2>2. QED
      BY <1>0, <2>1, ChannelFacts DEF ResponsesGoToTheSlot, Connected, Tracked
  <1>3. f \in Bijection(S, get_ports_in_use)
    <2>1. \A x \in S : /\ x[1] \in Connected /\ x[2] \in {1, 2}
                       /\ f[x] \in PortsOf(slots[x[1]])
      BY DEF PortsOf
    <2>2. f \in [S -> get_ports_in_use]
      BY <2>1 DEF get_ports_in_use
    <2>3. ASSUME NEW x \in S, NEW y \in S, f[x] = f[y]
          PROVE  x = y
      <3>1. x[1] = y[1]
        <4> SUFFICES ASSUME x[1] # y[1] PROVE FALSE
          OBVIOUS
        <4>1. slots[x[1]] # slots[y[1]]
          BY <1>2, <2>1
        <4>2. PortsOf(slots[x[1]]) \cap PortsOf(slots[y[1]]) = {}
          BY <1>0, <1>2, <2>1, <4>1 DEF SessionPortsExclusive
        <4>3. QED
          BY <1>2, <2>1, <2>3, <4>2
      <3>2. x[2] = y[2]
        BY <1>0, <1>2, <2>1, <2>3, <3>1 DEF CooldownCovers
      <3>3. QED
        BY <3>1, <3>2
    <2>4. ASSUME NEW p \in get_ports_in_use
          PROVE  \E x \in S : f[x] = p
      <3>1. PICK g \in Connected : p \in PortsOf(slots[g])
        BY DEF get_ports_in_use
      <3>2. PICK i \in 1 .. 2 : p = channels[slots[g]].ports[i]
        BY <3>1 DEF PortsOf
      <3>3. <<g, i>> \in S /\ f[<<g, i>>] = p
        BY <3>2
      <3>4. QED
        BY <3>3
    <2>5. QED
      <3> HIDE DEF f, S
      <3> QED BY <2>2, <2>3, <2>4, Fun_IsBij
  <1>4. /\ IsFiniteSet(get_ports_in_use)
        /\ Cardinality(get_ports_in_use) = 2 * Cardinality(Connected)
    BY <1>1, <1>3, FS_Bijection DEF ExistsBijection
  <1>5. get_ports_in_use \cap InCooldown = {}
    BY <1>0, <1>2 DEF get_ports_in_use, InCooldown, cleanup_expired_ports,
                      CooldownCovers
  <1>6. IsFiniteSet(InCooldown) /\ Cardinality(InCooldown) \in Nat
    BY ConstantsAssumption, FS_Subset, FS_CardinalityType DEF InCooldown
  <1>7. Cardinality(get_ports_in_use \cup InCooldown)
          = Cardinality(get_ports_in_use) + Cardinality(InCooldown) - 0
    BY <1>4, <1>5, <1>6, FS_Union, FS_EmptySet
  <1>8. Cardinality(Connected) \in Nat
    BY <1>1, FS_CardinalityType
  <1>9. QED
    BY <1>4, <1>6, <1>7, <1>8 DEF CapacityCountExact

(* PortAllocator::allocate never refuses for want of ports that are there: *)
(* its sum of counts is the number of ports it must not draw.              *)
THEOREM CapacityCorrect == Spec => []CapacityCountExact
  <1>1. IInv => CapacityCountExact
    BY CountExact
  <1>2. QED
    BY <1>1, IInvInvariant, PTL

=============================================================================
