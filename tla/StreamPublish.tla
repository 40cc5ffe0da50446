---------------------------- MODULE StreamPublish ----------------------------
(***************************************************************************)
(* Who may publish one stream URL, through which of the three protocols of *)
(* the SRS server.  Each protocol keeps its own pool of sources            *)
(* (SrsLiveSourceManager, SrsRtcSourceManager, SrsSrtSourceManager); a     *)
(* publisher must find all three sources free, claims its own and, through *)
(* a stream bridge, publishes into the others.  A 3 s timer of each        *)
(* manager drops the source nobody uses.                                   *)
(*                                                                         *)
(* SRS is a single thread of coroutines: an action is the code from one    *)
(* point where the coroutine may be switched (an HTTP hook, a forwarder or *)
(* a transcoder started or stopped, the DTLS handshake) to the next.       *)
(***************************************************************************)
EXTENDS Naturals, FiniteSets

CONSTANTS
  Conns,            \* connections: publishers and players of the URL
  Sources,          \* the identities a source object of a kind can have
  None,             \* no source, no connection, no kind
  Configs,          \* the sets of bridges (of Bridges) a vhost may switch on
  MaxMishaps        \* bound: how often each of Mishaps happens

Kinds == {"live", "rtc", "srt"}
Bridges == {"rtc_from_rtmp", "rtc_to_rtmp", "srt_to_rtmp"}

ASSUME StreamAssumption ==
  /\ None \notin Conns \cup Sources \cup Kinds
  /\ Configs \subseteq SUBSET Bridges
  /\ MaxMishaps \in Nat

VARIABLES
  conf,    \* the bridges this vhost has on
  pool,    \* the source each manager has for the URL
  owner,   \* for whom a source publishes: None when can_publish()
  bridge,  \* bridge_: the sources a source's frames are bridged to
  warm,    \* it died less than SRS_*_SOURCE_CLEANUP ago (pooled sources only)
  conn,    \* where each connection is, in which protocol, with which source
  mishaps  \* history: how often each of Mishaps has happened

vars == <<conf, pool, owner, bridge, warm, conn, mishaps>>

\* What the code lets happen and its invariants do not survive: a timer drops a
\* source that a connection has fetched, or that a bridge leads to; a stream is
\* claimed while an RTC or SRT publisher waits in on_unpublish; the on_publish of
\* an SRT publisher fails after it has claimed, and nobody releases the claims.
Mishaps == {"evicted", "overtaken", "unreleased"}

Idle == [at |-> "idle", kind |-> None, src |-> None]
Ending == {"stopping", "failing", "unmounting"}  \* in a live source's on_unpublish
Publishing == {"hub", "halfway", "created", "publishing"}

Pooled == Sources \cup {None}
Objects == Kinds \X Sources
Init ==
  /\ conf \in Configs
  /\ pool = [k \in Kinds |-> None]
  /\ owner = [o \in Objects |-> None]
  /\ bridge = [o \in Objects |-> {}]
  /\ warm = [k \in Kinds |-> FALSE]
  /\ conn = [c \in Conns |-> Idle]
  /\ mishaps = [m \in Mishaps |-> 0]

Own(c) == <<conn[c].kind, conn[c].src>>
Held(o) == pool[o[1]] = o[2] \/ \E c \in Conns : Own(c) = o
Referenced(o) ==
  \/ \E c \in Conns : Own(c) = o
  \/ \E p \in Objects : o \in bridge[p] /\ Held(p)
\* An identity that no live object has.
Unborn(o) == ~Held(o) /\ ~Referenced(o) /\ owner[o] = None /\ bridge[o] = {}
Consumers(o) == {c \in Conns : Own(c) = o /\ conn[c].at = "playing"}

\* fetch_or_create of the manager of kind k gives s, a new object if the manager
\* has none: which identity that gets makes no difference.
Fetches(k, s) ==
  LET new == {x \in Sources : Unborn(<<k, x>>)} IN
  s \in Sources /\ (s = pool[k] \/ (pool[k] = None /\ s \in new /\ s = CHOOSE x \in new : TRUE))
\* Mutant: no protocol looks at the SRT source.
CanPublishNoSrt(k, s) == k = "srt" \/ owner[<<k, s>>] = None

CanPublish(k, s) == owner[<<k, s>>] = None

Happens(m, what) ==
  IF what THEN mishaps[m] < MaxMishaps /\ mishaps' = [mishaps EXCEPT ![m] = @ + 1]
  ELSE UNCHANGED mishaps
Never(ms) == \A m \in ms : mishaps[m] = 0
\* An RTC or SRT publisher is in the on_unpublish of the live source it bridges to.
BridgeWaits == \E d \in Conns : conn[d].at \in Ending /\ conn[d].kind # "live"

Goes(c, at) == conn' = [conn EXCEPT ![c].at = at]
Quits(c) == conn' = [conn EXCEPT ![c] = Idle]

\* The live source a connection publishes into, and the RTC source behind its
\* bridge.
Reach(c) == {Own(c)} \cup bridge[Own(c)]
LiveOf(c) == {o \in Reach(c) : o[1] = "live"}
RtcBehind(c) == {o \in bridge[Own(c)] : o[1] = "rtc"}
-----------------------------------------------------------------------------
(* A connection finds its source, before the hooks of its protocol.        *)

\* SrsRtmpConn::stream_service_cycle and SrsMpegtsSrtConn::do_cycle fetch the
\* source; the hooks, and starting the RTMP stream, switch coroutines.
Fetch(c, k, s) ==
  /\ conn[c].at = "idle" /\ k \in {"live", "srt"} /\ Fetches(k, s)
  /\ pool' = [pool EXCEPT ![k] = s]
  /\ \E at \in {"fetched", "joining"} :
       conn' = [conn EXCEPT ![c] = [at |-> at, kind |-> k, src |-> s]]
  /\ UNCHANGED <<conf, owner, bridge, warm, mishaps>>

\* A WebRTC player fetches its source when its session is created and attaches
\* its consumer when the DTLS handshake is done.
RtcJoin(c, s) ==
  /\ conn[c].at = "idle" /\ Fetches("rtc", s)
  /\ pool' = [pool EXCEPT !["rtc"] = s]
  /\ conn' = [conn EXCEPT ![c] = [at |-> "joining", kind |-> "rtc", src |-> s]]
  /\ UNCHANGED <<conf, owner, bridge, warm, mishaps>>

\* A hook refuses the client, or the client has gone: no claim was made.
GivesUp(c) ==
  /\ conn[c].at \in {"fetched", "joining"}
  /\ Quits(c)
  /\ UNCHANGED <<conf, pool, owner, bridge, warm, mishaps>>

\* create_consumer resets the die time.
Play(c) ==
  /\ conn[c].at = "joining"
  /\ Goes(c, "playing")
  /\ warm' = [warm EXCEPT ![conn[c].kind] = @ /\ pool[conn[c].kind] # conn[c].src]
  /\ UNCHANGED <<conf, pool, owner, bridge, mishaps>>

\* on_consumer_destroy: the last consumer of an unpublished source sets it.
StopsPlaying(c) ==
  /\ conn[c].at = "playing"
  /\ Quits(c)
  /\ warm' = [warm EXCEPT ![conn[c].kind] =
       @ \/ (pool[conn[c].kind] = conn[c].src
              /\ Consumers(Own(c)) = {c} /\ owner[Own(c)] = None)]
  /\ UNCHANGED <<conf, pool, owner, bridge, mishaps>>
-----------------------------------------------------------------------------
(* Claiming the stream.                                                    *)

\* Mutant: the connection that found the stream busy releases it.
RefusedReleases(c) ==
  Quits(c) /\ owner' = [owner EXCEPT ![Own(c)] = None] /\ UNCHANGED <<bridge, mishaps>>

\* The error of a busy stream: nothing was claimed and nothing is released.
Refused(c) == Quits(c) /\ UNCHANGED <<owner, bridge, mishaps>>

\* SrsRtmpConn::acquire_publish up to the hub's on_publish: the live source is
\* checked, then the RTC and SRT sources are made or found and checked; the
\* bridge is set and the live source claimed.  A busy stream is not released.
RtmpAcquire(c, r, t) ==
  LET l == conn[c].src IN
  /\ conn[c].at = "fetched" /\ conn[c].kind = "live"
  /\ IF ~CanPublish("live", l)
       THEN r = pool["rtc"] /\ t = pool["srt"] /\ Refused(c)
     ELSE IF Fetches("rtc", r) /\ ~CanPublish("rtc", r)
       THEN t = pool["srt"] /\ Refused(c)
     ELSE /\ Fetches("rtc", r) /\ Fetches("srt", t)
          /\ \/ Refused(c)        \* the SRT stream is busy, or the bridge fails
             \/ /\ CanPublish("srt", t)
                /\ owner' = [owner EXCEPT ![<<"live", l>>] = c]
                /\ bridge' = [bridge EXCEPT ![<<"live", l>>] =
                                IF "rtc_from_rtmp" \in conf THEN {<<"rtc", r>>} ELSE {}]
                /\ Goes(c, "hub") /\ Happens("overtaken", BridgeWaits)
  /\ pool' = [pool EXCEPT !["rtc"] = r, !["srt"] = t]
  /\ UNCHANGED <<conf, warm>>

\* SrsMpegtsSrtConn::acquire_publish: the SRT source, the live source if there
\* is one, then the RTC source; with srt_to_rtmp the live source is published
\* before the RTC source.
SrtAcquire(c, l, r) ==
  LET t == conn[c].src IN
  /\ conn[c].at = "fetched" /\ conn[c].kind = "srt"
  /\ IF ~CanPublish("srt", t) \/ (pool["live"] # None /\ ~CanPublish("live", pool["live"]))
       THEN l = pool["live"] /\ r = pool["rtc"] /\ Refused(c)
     ELSE /\ Fetches("live", l) /\ Fetches("rtc", r)
          /\ \/ Refused(c)        \* the RTC stream is busy, or the bridge fails
             \/ /\ CanPublish("rtc", r)
                /\ LET to == IF "srt_to_rtmp" \notin conf THEN {}
                             ELSE {<<"live", l>>} \cup
                                  (IF "rtc_from_rtmp" \in conf THEN {<<"rtc", r>>} ELSE {})
                   IN /\ bridge' = [bridge EXCEPT ![<<"srt", t>>] = to]
                      /\ owner' = [o \in Objects |->
                           IF o = <<"srt", t>> \/ (o \in to /\ o[1] = "live") THEN c ELSE owner[o]]
                      /\ Goes(c, IF to = {} THEN "publishing" ELSE "hub")
                      /\ Happens("overtaken", BridgeWaits)
  /\ pool' = [pool EXCEPT !["live"] = l, !["rtc"] = r]
  /\ UNCHANGED <<conf, warm>>

\* SrsRtcServer::create_session, and add_publisher again, want the RTC source
\* free; a busy one refuses the session and nothing changes.
RtcMayCreate(c, r) ==
  /\ conn[c].at = "idle"
  /\ Fetches("rtc", r) /\ CanPublish("rtc", r)

\* add_publisher sets the RTC source created; then the publish stream finds the
\* live source busy, or makes or finds the SRT source and that is busy: it is
\* destroyed at once and unpublishes the RTC source.
LiveBusy == pool["live"] # None /\ ~CanPublish("live", pool["live"])
RtcUndone(c, r, t) ==
  /\ RtcMayCreate(c, r)
  /\ IF LiveBusy THEN t = pool["srt"] ELSE Fetches("srt", t) /\ ~CanPublish("srt", t)
  /\ pool' = [pool EXCEPT !["rtc"] = r, !["srt"] = t]
  /\ warm' = [warm EXCEPT !["rtc"] = Consumers(<<"rtc", r>>) = {} \/ @]
  /\ UNCHANGED <<conf, owner, bridge, conn, mishaps>>

\* SrsRtcPublishStream::initialize: all three are free, and the live source l is
\* made or found for the bridge.
RtcCreate(c, r, t, l) ==
  /\ RtcMayCreate(c, r) /\ ~LiveBusy
  /\ Fetches("srt", t) /\ CanPublish("srt", t)
  /\ IF "rtc_to_rtmp" \in conf
       THEN /\ Fetches("live", l)
            /\ bridge' = [bridge EXCEPT ![<<"rtc", r>>] = {<<"live", l>>}]
       ELSE l = pool["live"] /\ UNCHANGED bridge
  /\ pool' = [live |-> l, rtc |-> r, srt |-> t]
  /\ owner' = [owner EXCEPT ![<<"rtc", r>>] = c]
  /\ conn' = [conn EXCEPT ![c] = [at |-> "created", kind |-> "rtc", src |-> r]]
  /\ Happens("overtaken", BridgeWaits)
  /\ UNCHANGED <<conf, warm>>

\* SrsRtcPublishStream::start when DTLS is done: SrsRtcSource::on_publish, and
\* through the bridge the live source's.
RtcStart(c) ==
  /\ conn[c].at = "created"
  /\ owner' = [o \in Objects |-> IF o \in Reach(c) THEN c ELSE owner[o]]
  /\ Goes(c, IF bridge[Own(c)] = {} THEN "publishing" ELSE "hub")
  /\ UNCHANGED <<conf, pool, bridge, warm, mishaps>>

\* SrsLiveSource::on_publish goes on after hub->on_publish: the HTTP streams
\* are mounted and the bridge published, last the RTC source behind it.
HubPublished(c) ==
  LET targets == UNION {bridge[o] : o \in Reach(c)} IN
  /\ conn[c].at = "hub"
  /\ owner' = [o \in Objects |-> IF o \in targets THEN c ELSE owner[o]]
  /\ Goes(c, "publishing")
  /\ UNCHANGED <<conf, pool, bridge, warm, mishaps>>

\* hub->on_publish or the handler fails before the HTTP streams are mounted,
\* or then the RTC source behind the bridge does, already claimed.  RTMP
\* releases what it has (issue 474), an RTC session keeps it until it is
\* disposed of, an SRT connection ends without releasing anything.
HubFails(c) ==
  /\ conn[c].at = "hub"
  /\ \E mounted \in {RtcBehind(c) # {}, FALSE} :
       /\ owner' = [o \in Objects |-> IF mounted /\ o \in RtcBehind(c) THEN c ELSE owner[o]]
       /\ \/ conn[c].kind = "live" /\ Goes(c, IF mounted THEN "stopping" ELSE "failing")
          \/ conn[c].kind = "rtc" /\ Goes(c, "halfway")
          \/ conn[c].kind = "srt" /\ Quits(c)
  /\ Happens("unreleased", conn[c].kind = "srt")
  /\ UNCHANGED <<conf, pool, bridge, warm>>
-----------------------------------------------------------------------------
(* Releasing the stream.                                                   *)

\* Sources that die with no consumer start the delay.
Dies(os) == warm' = [k \in Kinds |->
                       warm[k] \/ \E o \in os : /\ o = <<k, pool[k]>>
                                              /\ Consumers(o) = {}]

\* SrsRtmpConn::release_publish: the hub of the live source stops the forwarders
\* and the transcoder.  A source that is not published is left as it is.
ReleaseLive(c) ==
  /\ conn[c].at = "publishing" /\ conn[c].kind = "live"
  /\ IF owner[Own(c)] = None THEN Quits(c) ELSE Goes(c, "stopping")
  /\ UNCHANGED <<conf, pool, owner, bridge, warm, mishaps>>

\* An RTC or SRT source is free from here on, and the bridge unpublishes the
\* live source, whose hub stops in the same way.
ReleaseBridged(c) ==
  /\ conn[c].at \in {"created", "halfway", "publishing"} /\ conn[c].kind # "live"
  /\ \E o \in LiveOf(c) : owner[o] # None
  /\ owner' = [owner EXCEPT ![Own(c)] = None]
  /\ Goes(c, IF conn[c].at = "halfway" THEN "failing" ELSE "stopping")
  /\ UNCHANGED <<conf, pool, bridge, warm, mishaps>>

\* There is no bridge, or the live source is not published.
ReleaseAlone(c) ==
  /\ conn[c].at \in {"created", "halfway", "publishing"} /\ conn[c].kind # "live"
  /\ \A o \in LiveOf(c) : owner[o] = None
  /\ owner' = [owner EXCEPT ![Own(c)] = None]
  /\ bridge' = [bridge EXCEPT ![Own(c)] = {}]
  /\ Dies({Own(c)}) /\ Quits(c)
  /\ UNCHANGED <<conf, pool, mishaps>>

\* The live source can be published again; the HTTP streams are unmounted,
\* which waits for their players.
HubStopped(c) ==
  /\ conn[c].at = "stopping"
  /\ owner' = [o \in Objects |-> IF o \in LiveOf(c) THEN None ELSE owner[o]]
  /\ Goes(c, "unmounting")
  /\ UNCHANGED <<conf, pool, bridge, warm, mishaps>>

\* Then the RTC source behind is unpublished, the bridges are freed, and each
\* source that has no consumer dies.
Freed(c) == bridge' = [bridge EXCEPT ![Own(c)] = {}] /\ Dies(Reach(c)) /\ Quits(c)
Unmounted(c) ==
  /\ conn[c].at = "unmounting"
  /\ owner' = [o \in Objects |-> IF o \in RtcBehind(c) THEN None ELSE owner[o]]
  /\ Freed(c)
  /\ UNCHANGED <<conf, pool, mishaps>>

\* Mutant: what failed half-way is not released.
FailedHubKept(c) ==
  /\ conn[c].at = "failing"
  /\ Freed(c)
  /\ UNCHANGED <<conf, pool, owner, mishaps>>

\* Nothing was mounted: all that in one step.
FailedHubStopped(c) ==
  /\ conn[c].at = "failing"
  /\ owner' = [o \in Objects |-> IF o \in LiveOf(c) \cup RtcBehind(c) THEN None ELSE owner[o]]
  /\ Freed(c)
  /\ UNCHANGED <<conf, pool, mishaps>>
-----------------------------------------------------------------------------
(* The 3 s timer of a manager.                                             *)

\* Mutant: the clock of the live sources is the only one that runs.
CoolsLive(k) ==
  /\ k = "live" /\ warm[k] /\ warm' = [warm EXCEPT ![k] = FALSE]
  /\ UNCHANGED <<conf, pool, owner, bridge, conn, mishaps>>

Cools(k) ==
  /\ warm[k] /\ warm' = [warm EXCEPT ![k] = FALSE]
  /\ UNCHANGED <<conf, pool, owner, bridge, conn, mishaps>>

\* Mutant: the players of a source are not looked at.
TimerCleansPlayed(k) ==
  LET o == <<k, pool[k]>> IN
  /\ pool[k] # None /\ ~warm[k] /\ owner[o] = None
  /\ pool' = [pool EXCEPT ![k] = None]
  /\ Happens("evicted", Referenced(o) /\ Consumers(o) = {})
  /\ UNCHANGED <<conf, owner, bridge, warm, conn>>

\* stream_is_dead, and notify erases it: who has fetched the source and not yet
\* claimed it does not count, and the die time of a new source is 0, long ago.
TimerCleans(k) ==
  LET o == <<k, pool[k]>> IN
  /\ pool[k] # None /\ ~warm[k] /\ owner[o] = None /\ Consumers(o) = {}
  /\ pool' = [pool EXCEPT ![k] = None]
  /\ Happens("evicted", Referenced(o))
  /\ UNCHANGED <<conf, owner, bridge, warm, conn>>
-----------------------------------------------------------------------------
Next ==
  \/ \E c \in Conns :
       \/ \E k \in Kinds, s \in Sources : Fetch(c, k, s)
       \/ \E s \in Sources : RtcJoin(c, s)
       \/ \E s, t \in Pooled : RtmpAcquire(c, s, t)
       \/ \E s, t \in Pooled : SrtAcquire(c, s, t)
       \/ \E r \in Sources, t \in Pooled : RtcUndone(c, r, t)
       \/ \E r, t \in Sources, l \in Pooled : RtcCreate(c, r, t, l)
       \/ GivesUp(c) \/ Play(c) \/ StopsPlaying(c) \/ RtcStart(c)
       \/ HubPublished(c) \/ HubFails(c)
       \/ ReleaseLive(c) \/ ReleaseBridged(c) \/ ReleaseAlone(c)
       \/ HubStopped(c) \/ Unmounted(c) \/ FailedHubStopped(c)
  \/ \E k \in Kinds : Cools(k) \/ TimerCleans(k)

Spec == Init /\ [][Next]_vars

\* The hourglasses of the managers tick every 3 s, whatever the clients do.
FairSpec ==
  Spec /\ \A k \in Kinds : WF_vars(Cools(k)) /\ WF_vars(TimerCleans(k))
-----------------------------------------------------------------------------
(* Properties.                                                             *)

\* The state keeps its types.
TypeOK ==
  /\ conf \in Configs
  /\ pool \in [Kinds -> Pooled]
  /\ owner \in [Objects -> Conns \cup {None}]
  /\ bridge \in [Objects -> SUBSET Objects]
  /\ warm \in [Kinds -> BOOLEAN]
  /\ conn \in [Conns -> [at : {"idle", "fetched", "joining", "playing"}
                                \cup Publishing \cup Ending,
                          kind : Kinds \cup {None}, src : Pooled]]
  /\ mishaps \in [Mishaps -> 0..MaxMishaps]

\* Until a timer drops a source somebody uses, or a claim overtakes an
\* on_unpublish that waits, at most one connection publishes the URL, over all
\* three protocols and whatever bridges are on: acquire_publish
\* (srs_app_rtmp_conn.cpp:1076, srs_app_srt_conn.cpp:358) and add_publisher
\* (srs_app_rtc_conn.cpp:1935) each check the sources of the other protocols, in
\* an order of their own; players, refused and failed publishers come between.
OnePublisher ==
  Never({"evicted", "overtaken"}) =>
    \A c, d \in Conns :
      conn[c].at \in Publishing /\ conn[d].at \in Publishing => c = d

\* As long, nobody unpublishes another one's source: from the claim to its own
\* release a publisher has its source, then the live source, then all it bridges
\* to, while others fail half-way, leave their claims behind or clean up
\* (SrsLiveSource::on_unpublish, srs_app_source.cpp:2616).
KeepsItsSources ==
  Never({"evicted", "overtaken"}) =>
    \A c \in Conns :
      /\ conn[c].at \in Publishing => owner[Own(c)] = c
      /\ conn[c].at \in {"hub", "halfway", "publishing", "stopping", "failing"} =>
           \A o \in LiveOf(c) : owner[o] = c
      /\ conn[c].at = "publishing" => \A o \in Reach(c) : owner[o] = c

\* A source is busy only for a publisher that is there and reaches it, also when
\* publishing failed in the middle (issue 474, srs_app_rtmp_conn.cpp:959); each
\* of the three mishaps can leave one busy for nobody, the last always does.
BusyIsHeld ==
  Never(Mishaps) =>
    \A o \in Objects :
      owner[o] # None => /\ conn[owner[o]].at \in Publishing \cup Ending
                         /\ o \in Reach(owner[o])

\* A source with a publisher or a player is the one the manager gives to the
\* next client of the URL (SrsLiveSourceManager::notify, srs_app_source.cpp:1848),
\* unless a timer once took a source between its fetch and its use.
UsedIsPooled ==
  Never({"evicted"}) =>
    \A o \in Objects :
      owner[o] # None \/ Consumers(o) # {} => pool[o[1]] = o[2]

\* Once every client has gone, the three managers forget the URL, unless a mishap
\* left a source busy.
StreamIsForgotten ==
  <>[](Never(Mishaps) /\ \A c \in Conns : conn[c] = Idle)
    => <>[](\A k \in Kinds : pool[k] = None)
=============================================================================
