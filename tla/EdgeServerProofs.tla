--------------------------- MODULE EdgeServerProofs ----------------------------
(***************************************************************************)
(* Proofs about a stream on an SRS edge, for any sets of players and        *)
(* publishers and any length of the queue.                                  *)
(***************************************************************************)
EXTENDS EdgeServer, TLAPS

\* A player never does what a publisher does.
Roles ==
  /\ \A p \in Players : client[p] \in {"out", "starting", "playing", "joining", "unpublishing"}
  /\ \A q \in Publishers : client[q] \in {"out", "connecting", "publishing", "joining"}

Leaving(p) == client[p] \in {"joining", "unpublishing"}
Fed == Alive(ingester) /\ ~ingester.intr

\* The first player is alone until its coroutine runs; the edge is stopping as
\* long as its last player has not left, which waits for the coroutine.
PlayerInv ==
  /\ \A p \in Players : client[p] \in {"starting", "playing"} => Pulls
  /\ \A p \in Players : client[p] = "starting" =>
       /\ ~Alive(ingester)
       /\ \A o \in Players \ {p} : client[o] \notin {"starting", "playing"}
  /\ \A p \in Players : client[p] = "playing" => Fed
  /\ \A p, o \in Players : Leaving(p) => play = "stopping" /\ (Leaving(o) => o = p)
  /\ \A p \in Players : client[p] = "unpublishing" => ~Alive(ingester)

\* An edge that pulls has a coroutine or a player who is about to start it.
PullInv ==
  /\ Pulls => live /\ (Fed \/ \E p \in Players : client[p] = "starting")
  /\ Fed => Pulls
  /\ play = "init" => ~live /\ ~Alive(ingester)

\* The publisher is alone, and its coroutine runs from when it is connected.
PushInv ==
  /\ \A q, o \in Publishers : client[q] # "out" => push = "publish" /\ (client[o] # "out" => o = q)
  /\ \A q \in Publishers : client[q] = "connecting" => ~Alive(forwarder) /\ queued = 0
  /\ push = "init" => ~Alive(forwarder) /\ queued = 0

IInv == TypeOK /\ Roles /\ PlayerInv /\ PullInv /\ PushInv

\* What the initial state and the types of the coroutines need.
Ingesters == [at : {"none", "connecting", "reading", "sleeping"}, intr : BOOLEAN]
Forwarders == [at : {"none", "forwarding", "deaf"}, intr : BOOLEAN]

LEMMA InitIInv == Init => IInv
<1> SUFFICES ASSUME Init PROVE IInv OBVIOUS
<1> USE EdgeAssumption DEF Init, Trd0, Alive
<1>1. TypeOK
  <2>1. ingester \in Ingesters /\ forwarder \in Forwarders BY DEF Ingesters, Forwarders
  <2>2. queued \in 0..MaxQueued OBVIOUS
  <2> QED BY <2>1, <2>2 DEF TypeOK, Ingesters, Forwarders
<1>2. \A c \in Players \cup Publishers : client[c] = "out" BY DEF Clients
<1>3. Roles /\ PlayerInv BY <1>2 DEF Roles, PlayerInv, Leaving
<1>4. PullInv /\ PushInv BY <1>2 DEF PullInv, PushInv, Pulls, Fed
<1> QED BY <1>1, <1>3, <1>4 DEF IInv

-----------------------------------------------------------------------------
(* Types and roles.                                                        *)

LEMMA GoesPlayer ==
  ASSUME TypeOK, Roles, NEW p \in Players,
         NEW at \in {"out", "starting", "playing", "joining", "unpublishing"}, Goes(p, at)
  PROVE  /\ client' \in [Clients -> {"out", "starting", "playing", "joining", "unpublishing",
                                      "connecting", "publishing"}]
         /\ kicked' \subseteq Clients /\ Roles'
         /\ client'[p] = at /\ \A o \in Clients \ {p} : client'[o] = client[o]
BY EdgeAssumption DEF TypeOK, Roles, Goes, Clients

LEMMA GoesPublisher ==
  ASSUME TypeOK, Roles, NEW q \in Publishers,
         NEW at \in {"out", "connecting", "publishing", "joining"}, Goes(q, at)
  PROVE  /\ client' \in [Clients -> {"out", "starting", "playing", "joining", "unpublishing",
                                      "connecting", "publishing"}]
         /\ kicked' \subseteq Clients /\ Roles'
         /\ client'[q] = at /\ \A o \in Clients \ {q} : client'[o] = client[o]
BY EdgeAssumption DEF TypeOK, Roles, Goes, Clients

\* Who does not touch the players' side keeps what holds of it, and likewise for
\* the publishers' side.
LEMMA PullKept ==
  ASSUME PlayerInv, PullInv, UNCHANGED pulling, \A p \in Players : client'[p] = client[p]
  PROVE  PlayerInv' /\ PullInv'
BY DEF PlayerInv, PullInv, pulling, Pulls, Fed, Leaving, Alive

LEMMA PushKept ==
  ASSUME PushInv, UNCHANGED pushing, \A q \in Publishers : client'[q] = client[q]
  PROVE  PushInv'
BY DEF PushInv, pushing, Alive

LEMMA TypedCoroutines ==
  ASSUME TypeOK
  PROVE  /\ Interrupted(ingester) \in Ingesters /\ Interrupted(forwarder) \in Forwarders
         /\ Interrupted(ingester).at = ingester.at /\ Interrupted(forwarder).at = forwarder.at
         /\ Interrupted(ingester).intr = Alive(ingester)
         /\ Trd0 \in Ingesters /\ Trd0 \in Forwarders /\ ~Alive(Trd0)
         /\ Started("connecting") \in Ingesters
         /\ Started("forwarding") \in Forwarders /\ Started("deaf") \in Forwarders
BY DEF TypeOK, Interrupted, Ingesters, Forwarders, Trd0, Started, Alive

-----------------------------------------------------------------------------
(* Players.                                                                *)

LEMMA PlayerStep ==
  ASSUME IInv, ~HubWaits, NEW p \in Players,
         \/ FirstPlays(p) \/ Plays(p) \/ StartFails(p) \/ Starts(p)
         \/ StopsPlaying(p) \/ Joined(p) \/ Unpublished(p)
  PROVE  IInv'
<1> USE DEF IInv
<1>p. p \in Clients BY DEF Clients
<1>1. PushInv'
  <2>1. UNCHANGED pushing
    BY DEF FirstPlays, Plays, StartFails, Starts, StopsPlaying, Joined, Unpublished
  <2>2. \A q \in Publishers : client'[q] = client[q]
    BY EdgeAssumption DEF FirstPlays, Plays, StartFails, Starts, StopsPlaying, Joined, Unpublished,
       Leaves, Goes, TypeOK, Clients
  <2> QED BY <2>1, <2>2, PushKept
<1>2. ASSUME FirstPlays(p) PROVE IInv'
  <2>1. Goes(p, "starting") /\ play = "init" /\ play' = "play" /\ live' = TRUE
        /\ UNCHANGED <<ingester, pushing>>
    BY <1>2 DEF FirstPlays
  <2>2. TypeOK' /\ Roles' BY <2>1, GoesPlayer DEF TypeOK, pushing
  <2>3. PlayerInv' /\ PullInv'
    BY <2>1, <1>p, GoesPlayer DEF PlayerInv, PullInv, Pulls, Fed, Leaving, Alive, Clients
  <2> QED BY <1>1, <2>2, <2>3
<1>3. ASSUME Plays(p) PROVE IInv'
  <2>1. Goes(p, "playing") /\ Pulls /\ UNCHANGED <<pulling, pushing>> /\ client[p] = "out"
        /\ \A q \in Players : client[q] # "starting"
    BY <1>3 DEF Plays
  <2>2. TypeOK' /\ Roles' BY <2>1, GoesPlayer DEF TypeOK, pushing, pulling
  <2>3. PlayerInv' /\ PullInv'
    BY <2>1, <1>p, GoesPlayer DEF PlayerInv, PullInv, Pulls, Fed, Leaving, Alive, Clients, pulling
  <2> QED BY <1>1, <2>2, <2>3
<1>4. ASSUME StartFails(p) \/ StopsPlaying(p) PROVE IInv'
  <2>1. Leaves(p) /\ client[p] \in {"starting", "playing"} /\ UNCHANGED <<live, pushing>>
    BY <1>4 DEF StartFails, StopsPlaying
  <2>2. CASE Consumers = {p} /\ Pulls
    <3>1. play' = "stopping" /\ ingester' = Interrupted(ingester) /\ Goes(p, "joining")
      BY <2>1, <2>2 DEF Leaves
    <3>2. TypeOK' /\ Roles'
      BY <2>1, <3>1, GoesPlayer, TypedCoroutines DEF TypeOK, pushing, Ingesters
    <3>3. \A o \in Players \ {p} : client[o] \notin {"starting", "playing", "joining", "unpublishing"}
      BY <2>2 DEF Consumers, PlayerInv, Pulls, Leaving
    <3>4. PlayerInv'
      BY <3>1, <3>3, <1>p, GoesPlayer DEF PlayerInv, Leaving, Clients
    <3>5. ~Fed' BY <3>1, TypedCoroutines DEF Fed, Alive
    <3>6. PullInv' BY <3>1, <3>5 DEF PullInv, Pulls
    <3> QED BY <1>1, <3>2, <3>4, <3>6
  <2>3. CASE ~(Consumers = {p} /\ Pulls)
    <3>1. UNCHANGED <<play, ingester>> /\ Goes(p, "out") BY <2>1, <2>3 DEF Leaves
    <3>2. TypeOK' /\ Roles' BY <2>1, <3>1, GoesPlayer DEF TypeOK, pushing
    <3>3. client[p] = "playing" /\ Fed
      <4>1. Pulls BY <2>1 DEF PlayerInv
      <4>2. ASSUME client[p] = "starting" PROVE FALSE
        BY <4>1, <4>2, <2>3 DEF Consumers, PlayerInv
      <4> QED BY <2>1, <4>2 DEF PlayerInv
    <3>4. PlayerInv' /\ PullInv'
      BY <2>1, <3>1, <3>3, <1>p, GoesPlayer
      DEF PlayerInv, PullInv, Pulls, Fed, Leaving, Alive, Clients
    <3> QED BY <1>1, <3>2, <3>4
  <2> QED BY <2>2, <2>3
<1>5. ASSUME Starts(p) PROVE IInv'
  <2>1. Goes(p, "playing") /\ client[p] = "starting" /\ ingester' = Started("connecting")
        /\ UNCHANGED <<play, live, pushing>>
    BY <1>5 DEF Starts
  <2>2. TypeOK' /\ Roles' BY <2>1, GoesPlayer, TypedCoroutines DEF TypeOK, pushing, Ingesters
  <2>3. Fed' /\ Pulls' BY <2>1 DEF Fed, Alive, Started, PlayerInv, Pulls
  <2>4. PlayerInv' /\ PullInv'
    BY <2>1, <2>3, <1>p, GoesPlayer DEF PlayerInv, PullInv, Pulls, Leaving, Clients
  <2> QED BY <1>1, <2>2, <2>4
<1>6. ASSUME Joined(p) PROVE IInv'
  <2>1. Goes(p, "unpublishing") /\ client[p] = "joining" /\ ~Alive(ingester)
        /\ UNCHANGED <<pulling, pushing>>
    BY <1>6 DEF Joined
  <2>2. TypeOK' /\ Roles' BY <2>1, GoesPlayer DEF TypeOK, pushing, pulling
  <2>3. PlayerInv' /\ PullInv'
    BY <2>1, <1>p, GoesPlayer DEF PlayerInv, PullInv, Pulls, Fed, Leaving, Alive, Clients, pulling
  <2> QED BY <1>1, <2>2, <2>3
<1>7. ASSUME Unpublished(p) PROVE IInv'
  <2>1. Goes(p, "out") /\ client[p] = "unpublishing" /\ live' = FALSE /\ play' = "init"
        /\ UNCHANGED <<ingester, pushing>>
    BY <1>7 DEF Unpublished
  <2>2. TypeOK' /\ Roles' BY <2>1, GoesPlayer DEF TypeOK, pushing
  <2>3. PlayerInv' /\ PullInv'
    BY <2>1, <1>p, GoesPlayer DEF PlayerInv, PullInv, Pulls, Fed, Leaving, Alive, Clients
  <2> QED BY <1>1, <2>2, <2>3
<1> QED BY <1>2, <1>3, <1>4, <1>5, <1>6, <1>7

-----------------------------------------------------------------------------
(* The coroutine that pulls.                                               *)

LEMMA IngesterStep ==
  ASSUME IInv, IngestConnects \/ Ingester
  PROVE  IInv'
<1> USE DEF IInv
<1>1. UNCHANGED <<live, pushing, client, kicked>>
  BY DEF IngestConnects, Ingester, IngestRedirects, IngestFails, IngestRetries, IngestEnds, Ingesting
<1>2. PushInv' /\ Roles' BY <1>1, PushKept DEF Roles
<1>3. CASE IngestEnds
  <2>1. play' = play /\ ingester' = Trd0 /\ ingester.intr BY <1>3 DEF IngestEnds
  <2>2. TypeOK' BY <2>1, <1>1, TypedCoroutines DEF TypeOK, pushing, Ingesters
  <2>3. ~Fed /\ ~Fed' /\ ~Alive(ingester)' BY <2>1, TypedCoroutines DEF Fed, Alive, Trd0
  <2>4. PlayerInv' BY <2>1, <2>3, <1>1 DEF PlayerInv, Pulls, Leaving
  <2>5. PullInv' BY <2>1, <2>3, <1>1 DEF PullInv, Pulls
  <2> QED BY <1>2, <2>2, <2>4, <2>5
<1>4. CASE IngestConnects \/ IngestRedirects \/ IngestFails \/ IngestRetries
  <2>1. Fed /\ Fed' /\ ingester' \in Ingesters
    BY <1>4 DEF IngestConnects, IngestRedirects, IngestFails, IngestRetries, Ingesting, Fed, Alive,
       TypeOK, Ingesters
  <2>2. play' = play \/ play' = "connected"
    BY <1>4 DEF IngestConnects, IngestRedirects, IngestFails, IngestRetries
  <2>3. Pulls /\ Pulls' BY <2>1, <2>2 DEF PullInv, Pulls
  <2>4. TypeOK' BY <2>1, <2>2, <1>1 DEF TypeOK, pushing, Ingesters
  <2>5. PlayerInv' BY <2>1, <2>3, <1>1 DEF PlayerInv, Leaving, Fed, Pulls
  <2>6. PullInv' BY <2>1, <2>3, <1>1 DEF PullInv, Pulls
  <2> QED BY <1>2, <2>4, <2>5, <2>6
<1> QED BY <1>3, <1>4 DEF Ingester

-----------------------------------------------------------------------------
(* Publishers.                                                             *)

LEMMA PublisherStep ==
  ASSUME IInv, NEW q \in Publishers,
         \/ Acquires(q) \/ ConnectFails(q) \/ ConnectWorks(q) \/ Proxies(q)
         \/ StopsPublishing(q) \/ Releases(q)
  PROVE  IInv'
<1> USE DEF IInv
<1>p. q \in Clients /\ MaxQueued \in Nat BY EdgeAssumption DEF Clients
<1>1. PlayerInv' /\ PullInv'
  <2>1. UNCHANGED pulling
    BY DEF Acquires, ConnectFails, ConnectWorks, Proxies, StopsPublishing, Releases
  <2>2. \A p \in Players : client'[p] = client[p]
    BY EdgeAssumption DEF Acquires, ConnectFails, ConnectWorks, Proxies, StopsPublishing, Releases,
       Goes, TypeOK, Clients
  <2> QED BY <2>1, <2>2, PullKept
<1>2. CASE Acquires(q)
  <2>1. Goes(q, "connecting") /\ push = "init" /\ push' = "publish"
        /\ UNCHANGED <<pulling, forwarder, queued>>
    BY <1>2 DEF Acquires
  <2>2. TypeOK' /\ Roles' BY <2>1, GoesPublisher DEF TypeOK, pulling
  <2>3. PushInv' BY <2>1, <1>p, GoesPublisher DEF PushInv, Alive, Clients
  <2> QED BY <1>1, <2>2, <2>3
<1>3. CASE ConnectFails(q)
  <2>1. Goes(q, "out") /\ client[q] = "connecting" /\ push' = "init"
        /\ UNCHANGED <<pulling, forwarder, queued>>
    BY <1>3 DEF ConnectFails
  <2>2. TypeOK' /\ Roles' BY <2>1, GoesPublisher DEF TypeOK, pulling
  <2>3. PushInv' BY <2>1, <1>p, GoesPublisher DEF PushInv, Alive, Clients
  <2> QED BY <1>1, <2>2, <2>3
<1>4. CASE ConnectWorks(q)
  <2>1. Goes(q, "publishing") /\ client[q] = "connecting" /\ forwarder' = Started("forwarding")
        /\ UNCHANGED <<pulling, push, queued>>
    BY <1>4 DEF ConnectWorks
  <2>2. TypeOK' /\ Roles' BY <2>1, GoesPublisher, TypedCoroutines DEF TypeOK, pulling, Forwarders
  <2>3. PushInv' BY <2>1, <1>p, GoesPublisher DEF PushInv, Alive, Clients
  <2> QED BY <1>1, <2>2, <2>3
<1>5. CASE Proxies(q)
  <2>1. client[q] = "publishing" /\ queued' \in 0..MaxQueued
        /\ UNCHANGED <<pulling, push, forwarder, client, kicked>>
    BY <1>5, <1>p DEF Proxies, TypeOK
  <2>2. TypeOK' /\ Roles' BY <2>1 DEF TypeOK, Roles, pulling
  <2>3. PushInv' BY <2>1 DEF PushInv, Alive
  <2> QED BY <1>1, <2>2, <2>3
<1>6. CASE StopsPublishing(q)
  <2>1. Goes(q, "joining") /\ client[q] = "publishing" /\ forwarder' = Interrupted(forwarder)
        /\ UNCHANGED <<pulling, push, queued>>
    BY <1>6 DEF StopsPublishing
  <2>2. TypeOK' /\ Roles' BY <2>1, GoesPublisher, TypedCoroutines DEF TypeOK, pulling, Forwarders
  <2>3. PushInv' BY <2>1, <1>p, GoesPublisher, TypedCoroutines DEF PushInv, Alive, Clients
  <2> QED BY <1>1, <2>2, <2>3
<1>7. CASE Releases(q)
  <2>1. Goes(q, "out") /\ client[q] = "joining" /\ ~Alive(forwarder) /\ push' = "init"
        /\ queued' = 0 /\ UNCHANGED <<pulling, forwarder>>
    BY <1>7 DEF Releases
  <2>2. TypeOK' /\ Roles' BY <2>1, <1>p, GoesPublisher DEF TypeOK, pulling
  <2>3. PushInv' BY <2>1, <1>p, GoesPublisher DEF PushInv, Alive, Clients
  <2> QED BY <1>1, <2>2, <2>3
<1> QED BY <1>2, <1>3, <1>4, <1>5, <1>6, <1>7

LEMMA ForwarderStep ==
  ASSUME IInv, Forwards \/ OriginLost \/ ForwardEnds
  PROVE  IInv'
<1> USE DEF IInv
<1>1. UNCHANGED <<pulling, push, client, kicked>> BY DEF Forwards, OriginLost, ForwardEnds
<1>2. PlayerInv' /\ PullInv' /\ Roles' BY <1>1, PullKept DEF Roles
<1>4. queued' \in {0, queued} /\ forwarder' \in Forwarders
  BY TypedCoroutines DEF Forwards, OriginLost, ForwardEnds, TypeOK, Forwarders
<1>5. TypeOK' BY <1>1, <1>4, EdgeAssumption DEF TypeOK, pulling, Forwarders
<1>6. PushInv'
  <2>1. CASE ForwardEnds
    BY <2>1, <1>1, <1>4, TypedCoroutines DEF ForwardEnds, PushInv, Alive
  <2>2. CASE Forwards \/ OriginLost
    <3>1. Alive(forwarder) BY <2>2 DEF Forwards, OriginLost, Started, Alive
    <3> QED BY <3>1, <1>1, <1>4 DEF PushInv
  <2> QED BY <2>1, <2>2
<1> QED BY <1>2, <1>5, <1>6

-----------------------------------------------------------------------------
(* Every step keeps the invariant.                                         *)

LEMMA NextIInv == ASSUME IInv, ~HubWaits, [Next]_vars PROVE IInv'
<1>1. CASE \E c \in Clients : Kick(c)
  <2>1. UNCHANGED <<pulling, pushing, client>> /\ kicked' \subseteq Clients
    BY <1>1 DEF Kick, IInv, TypeOK
  <2>2. TypeOK' /\ Roles' BY <2>1 DEF IInv, TypeOK, Roles, pulling, pushing
  <2> QED BY <2>1, <2>2, PullKept, PushKept DEF IInv
<1>2. CASE UNCHANGED vars
  <2>1. UNCHANGED <<pulling, pushing, client, kicked>> BY <1>2 DEF vars, pulling, pushing
  <2>2. TypeOK' /\ Roles' BY <2>1 DEF IInv, TypeOK, Roles, pulling, pushing
  <2> QED BY <2>1, <2>2, PullKept, PushKept DEF IInv
<1> QED BY <1>1, <1>2, PlayerStep, IngesterStep, PublisherStep, ForwarderStep DEF Next

LEMMA IInvImplies ==
  ASSUME IInv
  PROVE  TypeOK /\ PlayersAreFed /\ PlayStateHolds /\ RestsClean
<1> USE DEF IInv, PlayerInv, PullInv, PushInv, Fed
<1>1. PlayersAreFed BY DEF PlayersAreFed
<1>2. PlayStateHolds BY DEF PlayStateHolds, Alive
<1>3. RestsClean BY DEF RestsClean, Consumers, Pulls
<1> QED BY <1>1, <1>2, <1>3

\* If publishing the source does not wait for a hook (SrsEdgeIngester::start), the
\* state keeps its types and what the parts of the invariant say.
THEOREM EdgeInvariant == ~HubWaits /\ Spec => []IInv
<1> SUFFICES ASSUME ~HubWaits PROVE Spec => []IInv OBVIOUS
<1>1. IInv /\ [Next]_vars => IInv' BY NextIInv
<1> QED BY InitIInv, <1>1, PTL DEF Spec

\* Who is let in to play is fed (SrsPlayEdge::on_client_play).
THEOREM EdgeFeedsPlayers == ~HubWaits /\ Spec => []PlayersAreFed
<1>1. IInv => PlayersAreFed BY IInvImplies
<1> QED BY EdgeInvariant, <1>1, PTL

\* The assertion of on_ingest_play never fails.
THEOREM EdgePlayStateHolds == ~HubWaits /\ Spec => []PlayStateHolds
<1>1. IInv => PlayStateHolds BY IInvImplies
<1> QED BY EdgeInvariant, <1>1, PTL

\* An edge at rest has left nothing behind (on_all_client_stop,
\* on_proxy_unpublish).
THEOREM EdgeRestsClean == ~HubWaits /\ Spec => []RestsClean
<1>1. IInv => RestsClean BY IInvImplies
<1> QED BY EdgeInvariant, <1>1, PTL
===============================================================================
