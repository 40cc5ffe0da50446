------------------------------ MODULE EdgeServer ------------------------------
(***************************************************************************)
(* A stream on an SRS edge.  Players make the edge pull the stream from its *)
(* origin: SrsPlayEdge keeps the state, SrsEdgeIngester is the coroutine    *)
(* that pulls, started by the first player and joined by the last.  A       *)
(* publisher makes it push: SrsPublishEdge keeps the state, and             *)
(* SrsEdgeForwarder is the coroutine that pushes what the publisher sent.   *)
(*                                                                          *)
(* An action is the code of one coroutine between two points where it may   *)
(* be switched.  The HTTP API may expire a client, which interrupts its     *)
(* coroutine wherever it waits.                                             *)
(***************************************************************************)
EXTENDS Naturals, FiniteSets

CONSTANTS
  Players, Publishers,  \* RTMP connections
  MaxQueued,            \* bound: messages waiting to be pushed
  HubWaits              \* publishing the source waits for a hook (forward.backend)

ASSUME EdgeAssumption ==
  /\ Players \cap Publishers = {} /\ MaxQueued \in Nat
  /\ HubWaits \in BOOLEAN

VARIABLES
  play,      \* state of SrsPlayEdge
  ingester,  \* its coroutine: what it does, and whether it is interrupted
  live,      \* the source is published: can_publish() is false
  push,      \* state of SrsPublishEdge
  forwarder, \* its coroutine; "deaf": it only sleeps, for send_error_code is set
  queued,    \* messages in the forwarder's queue
  client,    \* where each connection is
  kicked     \* the clients that were expired

vars == <<play, ingester, live, push, forwarder, queued, client, kicked>>
pulling == <<play, ingester, live>>
pushing == <<push, forwarder, queued>>

Clients == Players \cup Publishers
Trd0 == [at |-> "none", intr |-> FALSE]
Started(at) == [at |-> at, intr |-> FALSE]
Alive(trd) == trd.at # "none"

Init ==
  /\ play = "init" /\ ingester = Trd0 /\ live = FALSE
  /\ push = "init" /\ forwarder = Trd0 /\ queued = 0
  /\ client = [c \in Clients |-> "out"]
  /\ kicked = {}

\* The consumers of the source, and whether the edge pulls for them.
Consumers == {p \in Players : client[p] \in {"starting", "playing"}}
Pulls == play \in {"play", "connected"}

Goes(c, at) ==
  /\ client' = [client EXCEPT ![c] = at]
  /\ kicked' = IF at = "out" THEN kicked \ {c} ELSE kicked

\* Mutant: a coroutine that only sleeps is not interrupted.
InterruptedAwake(trd) == IF trd.at \in {"sleeping", "deaf"} THEN trd ELSE [trd EXCEPT !.intr = Alive(trd)]

\* SrsFastCoroutine::interrupt leaves a coroutine that has ended as it is.
Interrupted(trd) == [trd EXCEPT !.intr = Alive(trd)]
-----------------------------------------------------------------------------
(* Players.                                                                *)

\* create_consumer and on_client_play: the first player publishes the source.  If
\* the hub waits for the hook that names the forwarding destinations, others come
\* meanwhile.
FirstPlays(p) ==
  /\ client[p] = "out" /\ play = "init"
  /\ play' = "play" /\ live' = TRUE
  /\ Goes(p, "starting")
  /\ UNCHANGED <<ingester, pushing>>

\* Others have nothing to start.  While the edge is stopping a player is
\* refused, without any effect on the edge.
Plays(p) ==
  /\ client[p] = "out" /\ Pulls
  /\ HubWaits \/ \A q \in Players : client[q] # "starting"
  /\ Goes(p, "playing")
  /\ UNCHANGED <<pulling, pushing>>

\* on_consumer_destroy and on_all_client_stop: the last player interrupts the
\* ingester and waits for its end; a coroutine that is not there ends at once.
Leaves(p) ==
  IF Consumers = {p} /\ Pulls
    THEN play' = "stopping" /\ ingester' = Interrupted(ingester) /\ Goes(p, "joining")
    ELSE UNCHANGED <<play, ingester>> /\ Goes(p, "out")

\* Mutant: a player who could not start leaves without a word.
StartFailsQuietly(p) ==
  /\ client[p] = "starting"
  /\ Goes(p, "out")
  /\ UNCHANGED <<pulling, pushing>>

\* SrsEdgeIngester::start: the hook failed.  The state stays as it is.
StartFails(p) ==
  /\ client[p] = "starting"
  /\ Leaves(p)
  /\ UNCHANGED <<live, pushing>>

\* Or the source is published and the coroutine created.
Starts(p) ==
  /\ client[p] = "starting"
  /\ ingester' = Started("connecting")
  /\ Goes(p, "playing")
  /\ UNCHANGED <<play, live, pushing>>

StopsPlaying(p) ==
  /\ client[p] = "playing"
  /\ Leaves(p)
  /\ UNCHANGED <<live, pushing>>

\* SrsEdgeIngester::stop goes on when the coroutine has ended: the upstream is
\* closed and the source unpublished, which stops what the hub had started.
Joined(p) ==
  /\ client[p] = "joining" /\ p \in Players /\ ~Alive(ingester)
  /\ Goes(p, "unpublishing")
  /\ UNCHANGED <<pulling, pushing>>

Unpublished(p) ==
  /\ client[p] = "unpublishing"
  /\ live' = FALSE /\ play' = "init"
  /\ Goes(p, "out")
  /\ UNCHANGED <<ingester, pushing>>
-----------------------------------------------------------------------------
(* The coroutine that pulls.                                               *)

Ingesting(from, to) ==
  /\ ingester.at = from /\ ~ingester.intr
  /\ ingester' = [ingester EXCEPT !.at = to]
  /\ UNCHANGED <<live, pushing, client, kicked>>

\* upstream->connect succeeds and on_ingest_play tells the edge.
IngestConnects == Ingesting("connecting", "reading") /\ play' = "connected"
\* A redirect connects again at once.
IngestRedirects == Ingesting("reading", "connecting") /\ UNCHANGED play
\* Mutant: an error ends the coroutine.
IngestFailsForGood ==
  /\ ingester.at \in {"connecting", "reading"} /\ ~ingester.intr
  /\ ingester' = Trd0
  /\ UNCHANGED <<play, live, pushing, client, kicked>>
\* An error to connect, or the origin has gone: the coroutine sleeps 3 s.
IngestFails ==
  \E from \in {"connecting", "reading"} : Ingesting(from, "sleeping") /\ UNCHANGED play
IngestRetries == Ingesting("sleeping", "connecting") /\ UNCHANGED play

\* Whatever an interrupted coroutine waits for fails, and trd->pull ends it.
IngestEnds ==
  /\ ingester.intr /\ ingester' = Trd0
  /\ UNCHANGED <<play, live, pushing, client, kicked>>
-----------------------------------------------------------------------------
(* Publishers.                                                             *)

\* acquire_publish and on_client_publish: one publisher, from before the
\* forwarder connects; another one finds the stream busy.
Acquires(q) ==
  /\ client[q] = "out" /\ push = "init"
  /\ push' = "publish"
  /\ Goes(q, "connecting")
  /\ UNCHANGED <<pulling, forwarder, queued>>

\* The origin cannot be reached: the state is reverted, and release_publish
\* finds nothing to stop.
ConnectFails(q) ==
  /\ client[q] = "connecting"
  /\ push' = "init"
  /\ Goes(q, "out")
  /\ UNCHANGED <<pulling, forwarder, queued>>

ConnectWorks(q) ==
  /\ client[q] = "connecting"
  /\ forwarder' = Started("forwarding")
  /\ Goes(q, "publishing")
  /\ UNCHANGED <<pulling, push, queued>>

\* SrsEdgeForwarder::proxy of a message.
Proxies(q) ==
  /\ client[q] = "publishing" /\ forwarder.at # "deaf" /\ queued < MaxQueued
  /\ queued' = queued + 1
  /\ UNCHANGED <<pulling, push, forwarder, client, kicked>>

\* The publisher leaves, times out, is expired, or a message finds the error of
\* the forwarder: on_proxy_unpublish interrupts the coroutine and joins it.
StopsPublishing(q) ==
  /\ client[q] = "publishing"
  /\ forwarder' = Interrupted(forwarder)
  /\ Goes(q, "joining")
  /\ UNCHANGED <<pulling, push, queued>>

\* Mutant: the queue is not cleared.
ReleasesLate(q) ==
  /\ client[q] = "joining" /\ q \in Publishers /\ ~Alive(forwarder)
  /\ push' = "init"
  /\ Goes(q, "out")
  /\ UNCHANGED <<pulling, forwarder, queued>>

Releases(q) ==
  /\ client[q] = "joining" /\ q \in Publishers /\ ~Alive(forwarder)
  /\ push' = "init" /\ queued' = 0
  /\ Goes(q, "out")
  /\ UNCHANGED <<pulling, forwarder>>

\* SrsEdgeForwarder::do_cycle sends what is queued.
Forwards ==
  /\ forwarder = Started("forwarding") /\ queued > 0
  /\ queued' = 0
  /\ UNCHANGED <<pulling, push, forwarder, client, kicked>>

\* An error when receiving from the origin is kept for the publisher; an error
\* when sending ends the coroutine.
OriginLost ==
  /\ forwarder = Started("forwarding")
  /\ forwarder' \in {Started("deaf"), Trd0}
  /\ UNCHANGED <<pulling, push, queued, client, kicked>>

ForwardEnds ==
  /\ forwarder.intr /\ forwarder' = Trd0
  /\ UNCHANGED <<pulling, push, queued, client, kicked>>

\* SrsRtmpConn::expire.  One that meets a client while it joins a coroutine makes
\* the join fail, and the assertion of SrsFastCoroutine::stop ends the process.
Kick(c) ==
  /\ client[c] \in {"playing", "publishing"}
  /\ kicked' = kicked \cup {c}
  /\ UNCHANGED <<pulling, pushing, client>>
-----------------------------------------------------------------------------
Ingester == IngestRedirects \/ IngestFails \/ IngestRetries \/ IngestEnds
Hears(q) == (forwarder.at = "deaf" \/ q \in kicked) /\ StopsPublishing(q)
Next ==
  \/ \E p \in Players :
       \/ FirstPlays(p) \/ Plays(p) \/ StartFails(p) \/ Starts(p)
       \/ StopsPlaying(p) \/ Joined(p) \/ Unpublished(p)
  \/ \E q \in Publishers :
       \/ Acquires(q) \/ ConnectFails(q) \/ ConnectWorks(q) \/ Proxies(q)
       \/ StopsPublishing(q) \/ Releases(q)
  \/ IngestConnects \/ Ingester
  \/ Forwards \/ OriginLost \/ ForwardEnds
  \/ \E c \in Clients : Kick(c)

Spec == Init /\ [][Next]_vars

\* Coroutines that can run do so, an expired client leaves, a connection attempt
\* ends, a publisher goes on sending and so hears of an error (or is timed out);
\* and an origin that is tried again and again answers in the end.
FairSpec ==
  /\ Spec
  /\ WF_vars(IngestEnds) /\ WF_vars(IngestRetries) /\ SF_vars(IngestConnects)
  /\ WF_vars(ForwardEnds)
  /\ \A p \in Players :
       /\ WF_vars(Starts(p) \/ StartFails(p)) /\ WF_vars(Joined(p)) /\ WF_vars(Unpublished(p))
       /\ WF_vars(p \in kicked /\ StopsPlaying(p))
  /\ \A q \in Publishers :
       /\ WF_vars(ConnectWorks(q) \/ ConnectFails(q)) /\ WF_vars(Hears(q)) /\ WF_vars(Releases(q))
-----------------------------------------------------------------------------
(* Properties.                                                             *)

\* The state keeps its types.
TypeOK ==
  /\ play \in {"init", "play", "connected", "stopping"}
  /\ ingester \in [at : {"none", "connecting", "reading", "sleeping"}, intr : BOOLEAN]
  /\ live \in BOOLEAN
  /\ push \in {"init", "publish"}
  /\ forwarder \in [at : {"none", "forwarding", "deaf"}, intr : BOOLEAN]
  /\ queued \in 0..MaxQueued
  /\ client \in [Clients -> {"out", "starting", "playing", "joining", "unpublishing",
                             "connecting", "publishing"}]
  /\ kicked \subseteq Clients

\* A player that is let in has a coroutine that pulls for it, and one that is
\* not about to end (SrsPlayEdge::on_client_play, srs_app_edge.cpp:974, against
\* on_all_client_stop, which waits for the ingester's end).
PlayersAreFed ==
  (\E p \in Players : client[p] = "playing") =>
    /\ Pulls /\ live
    /\ (Alive(ingester) /\ ~ingester.intr) \/ \E p \in Players : client[p] = "starting"

\* A coroutine that may still tell the edge that it is connected finds it playing:
\* the assertion of on_ingest_play (srs_app_edge.cpp:1030) never fails, although
\* the coroutine goes on after the edge has begun to stop.
PlayStateHolds ==
  ingester.at # "none" /\ ~ingester.intr => Pulls /\ live

\* An edge that is at rest has left nothing behind: no coroutine, no published
\* source, no message of a former publisher for the next one, no player.
RestsClean ==
  /\ play = "init" => ~Alive(ingester) /\ ~live /\ Consumers = {}
  /\ push = "init" => ~Alive(forwarder) /\ queued = 0

\* A player that stays comes to see the edge read from the origin, whoever else comes
\* and goes, and again after each loss of the origin: play stays "connected" then
\* (srs_app_edge.cpp:1026), so it is the ingester that tells.
PlayersGetStream ==
  \A p \in Players :
    client[p] = "playing" ~> client[p] # "playing" \/ (ingester.at = "reading" /\ ~ingester.intr)

\* Without players the edge stops pulling, so its source can die.
StopsPulling == Consumers = {} ~> Consumers # {} \/ (play = "init" /\ ~Alive(ingester))

\* A publisher is told when receiving from the origin fails, and its forwarder,
\* which only sleeps from then on (srs_app_edge.cpp:872), is got rid of.
PublisherHears ==
  \A q \in Publishers :
    (client[q] = "publishing" /\ forwarder.at = "deaf") ~> client[q] = "out"
=============================================================================
