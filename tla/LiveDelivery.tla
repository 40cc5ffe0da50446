---------------------------- MODULE LiveDelivery -----------------------------
(***************************************************************************)
(* How the messages of a live stream reach one RTMP player: SrsLiveSource  *)
(* with its metadata and GOP caches, the SrsLiveConsumer with its queue,   *)
(* the coroutine of the player (SrsRtmpConn::do_playing) that sleeps on    *)
(* the consumer's condition variable, and the receiving coroutine          *)
(* (SrsQueueRecvThread) that takes the player's control messages.          *)
(*                                                                         *)
(* A message is a record: its kind, its timestamp in ticks, the number ver *)
(* of the video sequence header it carries or is coded with (0: none), and *)
(* its ordinal n among the frames of the stream (0 when it is no frame).   *)
(* ATC and mix_correct are off, the GOP cache is on, the codec is H.264.   *)
(***************************************************************************)
EXTENDS Integers, Sequences, FiniteSetsExt

CONSTANTS
  MaxMsgs,       \* bound: messages the encoders send
  MaxVer,        \* bound: changes of the video sequence header
  Steps,         \* by how much a timestamp may grow from frame to frame
  MaxQueue,      \* queue_length, in ticks; 0 is no limit
  MwMsgs,        \* mw_msgs: a player waits for more messages than this
  MwSleep,       \* mw_sleep: and for a longer duration than this
  OneByOne,      \* send_min_interval is set: one message is sent at a time
  MaxJitter, FrameTime, \* CONST_MAX_JITTER_MS, DEFAULT_FRAME_TIME_MS
  PureAudio,     \* SRS_PURE_AUDIO_GUESS_COUNT
  MaxFrames,     \* gop_cache_max_frames; 0 is no limit
  ReduceHeaders, \* reduce_sequence_header
  Metadata       \* encoders send metadata in the middle of the stream

ASSUME DeliveryAssumption ==
  /\ MaxMsgs \in Nat /\ MaxVer \in Nat /\ Steps \subseteq Nat
  /\ MaxQueue \in Nat /\ MwMsgs \in Nat /\ MwSleep \in Nat /\ OneByOne \in BOOLEAN
  /\ MaxJitter \in Nat /\ FrameTime \in Nat /\ PureAudio \in Nat /\ MaxFrames \in Nat
  /\ ReduceHeaders \in BOOLEAN /\ Metadata \in BOOLEAN

VARIABLES
  src,   \* the publisher and SrsMetaCache
  gop,   \* SrsGopCache: the cached frames and its two counters
  con,   \* the consumer and its player
  recv   \* SrsQueueRecvThread: control messages and recv_error

vars == <<src, gop, con, recv>>

Frames == {"key", "inter", "audio"}
Headers == {"vsh", "ash"}
Msg(k, ts, ver, n) == [k |-> k, ts |-> ts, ver |-> ver, n |-> n]
IsAv(m) == m.k # "meta"
IsVideo(m) == m.k \in {"vsh", "key", "inter"}
Gop0 == [frames |-> <<>>, videos |-> 0, audios |-> 0]
Absent == [at |-> "none", paused |-> FALSE, waiting |-> FALSE, msgs |-> <<>>,
           start |-> -1, end |-> -1, pkt |-> 0, fixed |-> -1,
           out |-> <<>>, ver |-> 0, n |-> 0, cut |-> FALSE]
Recv0 == [ctl |-> <<>>, err |-> FALSE, stop |-> FALSE]

Init ==
  /\ src = [on |-> FALSE, ts |-> 0, sent |-> 0, n |-> 0, ver |-> 0,
            meta |-> FALSE, vsh |-> 0, vshTs |-> 0, ash |-> FALSE, ashTs |-> 0,
            prev |-> 0, prevAsh |-> FALSE]
  /\ gop = Gop0
  /\ con = Absent
  /\ recv = Recv0
-----------------------------------------------------------------------------
(* The queue of a consumer.                                                *)

\* SrsRtmpJitter::correct, the full algorithm: metadata has time 0, other
\* messages go on from the last corrected time.
Corrected(c, m) ==
  LET d == m.ts - c.pkt
      delta == IF d < -MaxJitter \/ d > MaxJitter THEN FrameTime ELSE d
      fixed == IF c.fixed + delta < 0 THEN 0 ELSE c.fixed + delta
  IN IF IsAv(m) THEN [c |-> [c EXCEPT !.pkt = m.ts, !.fixed = fixed],
                      m |-> [m EXCEPT !.ts = fixed]]
                ELSE [c |-> c, m |-> [m EXCEPT !.ts = 0]]

\* SrsMessageQueue::shrink keeps the last header of each kind, the video's first.
LastOf(msgs, k) ==
  LET of == {i \in DOMAIN msgs : msgs[i].k = k}
  IN IF of = {} THEN <<>> ELSE <<msgs[Max(of)]>>
\* Mutant: a shrunk queue keeps nothing.
ShrunkAll(c) == [c EXCEPT !.start = c.end, !.cut = TRUE, !.msgs = <<>>]

Shrunk(c) ==
  LET keep == LastOf(c.msgs, "vsh") \o LastOf(c.msgs, "ash")
  IN [c EXCEPT !.start = c.end, !.cut = TRUE,
               !.msgs = [i \in DOMAIN keep |-> [keep[i] EXCEPT !.ts = c.end]]]

\* Mutant: the queue always starts at its last message.
StoredLast(c, m) == [c EXCEPT !.msgs = Append(@, m), !.start = m.ts, !.end = m.ts]

\* SrsMessageQueue::enqueue: time 0 does not move the bounds.
Stored(c, m) ==
  LET timed == IsAv(m) /\ m.ts # 0
      q == [c EXCEPT !.msgs = Append(@, m),
                     !.start = IF timed /\ @ = -1 THEN m.ts ELSE @,
                     !.end = IF timed THEN m.ts ELSE @]
  IN IF MaxQueue > 0 /\ q.end - q.start > MaxQueue THEN Shrunk(q) ELSE q

\* SrsLiveConsumer::wakeup signals the condition when the player waits on it.
Woken(c) ==
  IF c.waiting THEN [c EXCEPT !.waiting = FALSE, !.at = IF @ = "asleep" THEN "dumping" ELSE @]
               ELSE c

\* Whether the player should not wait for more.
Enough(c) == Len(c.msgs) > MwMsgs /\ c.end - c.start > MwSleep

\* Mutant: whether there is enough is looked up before the message is stored.
EnqueuedLate(c, m) ==
  LET j == Corrected(c, m)
      q == Stored(j.c, j.m)
  IN IF Enough(c) THEN Woken(q) ELSE q

\* SrsLiveConsumer::enqueue.
Enqueued(c, m) ==
  LET j == Corrected(c, m)
      q == Stored(j.c, j.m)
  IN IF Enough(q) THEN Woken(q) ELSE q

\* The consumer once it has got all of ms, one after the other.
EnqueuedAll(c, ms) ==
  LET upTo[i \in 0..Len(ms)] == IF i = 0 THEN c ELSE Enqueued(upTo[i - 1], ms[i])
  IN upTo[Len(ms)]

ToConsumer(m) == con' = IF con.at = "none" THEN con ELSE Enqueued(con, m)
-----------------------------------------------------------------------------
(* The publisher.                                                          *)

\* Mutant: a full GOP cache drops the new frame.
CachedFull(g, m) ==
  LET kept == IF m.k = "key" THEN <<m>> ELSE Append(g.frames, m)
  IN IF Len(kept) > MaxFrames THEN g ELSE [g EXCEPT !.frames = kept]

\* SrsGopCache::cache.
Cached(g, m) ==
  LET video == IsVideo(m)
      videos == IF video THEN g.videos + 1 ELSE g.videos
      audios == IF video THEN 0 ELSE g.audios + 1
      kept == IF m.k = "key" THEN <<m>> ELSE Append(g.frames, m)
  IN IF videos = 0 THEN g
     ELSE IF audios > PureAudio THEN Gop0
     ELSE IF MaxFrames > 0 /\ Len(kept) > MaxFrames THEN Gop0
     ELSE [frames |-> kept, videos |-> IF m.k = "key" THEN 1 ELSE videos,
           audios |-> audios]

\* on_publish and on_unpublish of the source: the headers are forgotten at the
\* next publish, the GOP at once; what they were stays for reduce_sequence_header.
\* The clock of an encoder starts at 0.
Publish ==
  /\ ~src.on /\ src.sent < MaxMsgs
  /\ src' = [src EXCEPT !.on = TRUE, !.ts = 0, !.meta = FALSE,
                        !.vsh = 0, !.vshTs = 0, !.ash = FALSE, !.ashTs = 0]
  /\ UNCHANGED <<gop, con, recv>>

Unpublish ==
  /\ src.on
  /\ src' = [src EXCEPT !.on = FALSE, !.prev = src.vsh, !.prevAsh = src.ash]
  /\ gop' = Gop0
  /\ UNCHANGED <<con, recv>>

Sends == src.on /\ src.sent < MaxMsgs

\* on_meta_data: with reduce_sequence_header nobody gets it, the cache does.
OnMetaData ==
  /\ Sends /\ Metadata
  /\ src' = [src EXCEPT !.sent = @ + 1, !.meta = TRUE]
  /\ IF ReduceHeaders THEN UNCHANGED con ELSE ToConsumer(Msg("meta", src.ts, 0, 0))
  /\ UNCHANGED <<gop, recv>>

\* on_video_imp of a sequence header, the one before or a new one.  Whether it
\* is a duplicate is looked up before the cache is updated.
OnVideoHeader(ver) ==
  /\ Sends /\ ver \in {src.ver, src.ver + 1} \cap 1..MaxVer
  /\ src' = [src EXCEPT !.sent = @ + 1, !.ver = ver, !.vsh = ver, !.vshTs = src.ts, !.prev = ver]
  /\ IF ReduceHeaders /\ src.prev = ver THEN UNCHANGED con
     ELSE ToConsumer(Msg("vsh", src.ts, ver, 0))
  /\ UNCHANGED <<gop, recv>>

\* on_audio_imp of a sequence header: all have the same content.
OnAudioHeader ==
  /\ Sends
  /\ src' = [src EXCEPT !.sent = @ + 1, !.ash = TRUE, !.ashTs = src.ts, !.prevAsh = TRUE]
  /\ IF ReduceHeaders /\ src.prevAsh THEN UNCHANGED con
     ELSE ToConsumer(Msg("ash", src.ts, 0, 0))
  /\ UNCHANGED <<gop, recv>>

\* A frame: every consumer gets it, then the GOP cache.  An encoder sends the
\* AAC header before audio.
OnFrame(k, d) ==
  LET m == Msg(k, src.ts + d, src.vsh, src.n + 1) IN
  /\ Sends /\ (k = "audio" => src.ash)
  /\ src' = [src EXCEPT !.sent = @ + 1, !.n = @ + 1, !.ts = m.ts]
  /\ ToConsumer(m)
  /\ gop' = Cached(gop, m)
  /\ UNCHANGED recv
-----------------------------------------------------------------------------
(* The player.                                                             *)

\* Mutant: the sequence headers are for the cached frames only.
DumpsForFrames ==
  IF gop.frames = <<>> THEN <<>>
  ELSE <<Msg("ash", src.ashTs, 0, 0), Msg("vsh", src.vshTs, src.vsh, 0)>> \o gop.frames

\* create_consumer and consumer_dumps: with the source active, metadata, the
\* audio header, the video header and the cached frames, each with the time it
\* came with.
Dumps ==
  (IF src.meta THEN <<Msg("meta", 0, 0, 0)>> ELSE <<>>)
  \o (IF src.ash THEN <<Msg("ash", src.ashTs, 0, 0)>> ELSE <<>>)
  \o (IF src.vsh > 0 THEN <<Msg("vsh", src.vshTs, src.vsh, 0)>> ELSE <<>>)
  \o gop.frames
Play ==
  /\ con.at = "none" /\ ~recv.err
  /\ con' = LET c == [Absent EXCEPT !.at = "loop",
                        !.n = IF gop.frames = <<>> THEN src.n ELSE gop.frames[1].n - 1]
            IN IF src.on THEN EnqueuedAll(c, Dumps) ELSE c
  /\ UNCHANGED <<src, gop, recv>>

\* The player stops: the receiving coroutine with it, and the consumer goes.
Quit == con' = Absent /\ recv' = Recv0 /\ UNCHANGED <<src, gop>>

\* trd->pull at the head of the loop.
Pulled ==
  /\ con.at = "loop" /\ recv.stop
  /\ Quit

\* One control message; closing the stream ends the loop.
TakesControl ==
  /\ con.at = "loop" /\ ~recv.stop /\ recv.ctl # <<>>
  /\ \/ /\ Head(recv.ctl) = "close" /\ Quit
     \/ /\ Head(recv.ctl) # "close"
        /\ con' = [con EXCEPT !.paused = Head(recv.ctl) = "pause"]
        /\ recv' = [recv EXCEPT !.ctl = Tail(@)]
        /\ UNCHANGED <<src, gop>>

SeesError ==
  /\ con.at = "loop" /\ ~recv.stop /\ recv.ctl = <<>> /\ recv.err
  /\ Quit

\* SrsLiveConsumer::wait: a paused player sleeps for a while; one with enough to
\* send goes on; otherwise it waits on the condition.
Waits ==
  /\ con.at = "loop" /\ ~recv.stop /\ recv.ctl = <<>> /\ ~recv.err
  /\ con' = IF con.paused THEN [con EXCEPT !.at = "napping"]
            ELSE IF Enough(con) THEN [con EXCEPT !.at = "dumping"]
            ELSE [con EXCEPT !.at = "asleep", !.waiting = TRUE]
  /\ UNCHANGED <<src, gop, recv>>

WakesFromNap ==
  /\ con.at = "napping"
  /\ con' = [con EXCEPT !.at = "dumping"]
  /\ UNCHANGED <<src, gop, recv>>

\* dump_packets: a paused consumer gives nothing; the queue now starts at the
\* time of the last message taken.
DumpsPackets ==
  LET all == Len(con.msgs)
      count == IF con.paused THEN 0 ELSE IF OneByOne /\ all > 0 THEN 1 ELSE all
  IN
  /\ con.at = "dumping"
  /\ con' = IF count = 0 THEN [con EXCEPT !.at = "loop"]
            ELSE [con EXCEPT !.at = "sending", !.out = SubSeq(con.msgs, 1, count),
                             !.msgs = SubSeq(con.msgs, count + 1, all),
                             !.start = con.msgs[count].ts]
  /\ UNCHANGED <<src, gop, recv>>

\* send_and_free_messages, and the interval between two sends.
Delivers ==
  LET seen == {con.out[i].ver : i \in {j \in DOMAIN con.out : con.out[j].k = "vsh"}}
      frames == {i \in DOMAIN con.out : con.out[i].k \in Frames}
  IN
  /\ con.at = "sending"
  /\ con' = [con EXCEPT !.at = "loop", !.out = <<>>,
                        !.ver = Max(seen \cup {@}),
                        !.n = IF frames = {} THEN @ ELSE con.out[Max(frames)].n]
  /\ UNCHANGED <<src, gop, recv>>

SendFails == con.at = "sending" /\ Quit

\* SrsRecvThread::do_cycle receives the next message when the last has been
\* taken; each one, and an error, wakes the player.
Receives(ctl) ==
  /\ con.at # "none" /\ recv.ctl = <<>> /\ ~recv.err
  /\ recv' = [recv EXCEPT !.ctl = <<ctl>>]
  /\ con' = Woken(con)
  /\ UNCHANGED <<src, gop>>

\* Mutant: the error is noted and nobody is woken.
PeerGoneQuietly ==
  /\ con.at # "none" /\ recv.ctl = <<>> /\ ~recv.err
  /\ recv' = [recv EXCEPT !.err = TRUE]
  /\ UNCHANGED <<src, gop, con>>

PeerGone ==
  /\ con.at # "none" /\ recv.ctl = <<>> /\ ~recv.err
  /\ recv' = [recv EXCEPT !.err = TRUE]
  /\ con' = Woken(con)
  /\ UNCHANGED <<src, gop>>

\* The connection is expired: its coroutine is interrupted where it sleeps.
Expire ==
  /\ con.at # "none" /\ ~recv.stop
  /\ recv' = [recv EXCEPT !.stop = TRUE]
  /\ con' = [con EXCEPT !.at = IF @ \in {"asleep", "napping"} THEN "dumping" ELSE @]
  /\ UNCHANGED <<src, gop>>
-----------------------------------------------------------------------------
Runs ==
  \/ Pulled \/ TakesControl \/ SeesError \/ Waits \/ WakesFromNap
  \/ DumpsPackets \/ Delivers
Next ==
  \/ Publish \/ Unpublish \/ OnMetaData \/ OnAudioHeader
  \/ \E v \in 1..MaxVer : OnVideoHeader(v)
  \/ \E k \in Frames, d \in Steps : OnFrame(k, d)
  \/ Play \/ Runs \/ SendFails \/ PeerGone \/ Expire
  \/ \E ctl \in {IF con.paused THEN "play" ELSE "pause", "close"} : Receives(ctl)

Spec == Init /\ [][Next]_vars

\* The player's coroutine runs when it can; a send ends, for the socket has a
\* timeout.
FairSpec == Spec /\ WF_vars(Runs)
-----------------------------------------------------------------------------
(* Properties.                                                             *)

Message == [k : Frames \cup Headers \cup {"meta"}, ts : Nat, ver : 0..MaxVer, n : Nat]

Consumers ==
  [at : {"none", "loop", "napping", "asleep", "dumping", "sending"},
   paused : BOOLEAN, waiting : BOOLEAN, msgs : Seq(Message), out : Seq(Message),
   start : Nat \cup {-1}, end : Nat \cup {-1}, pkt : Nat, fixed : Nat \cup {-1},
   ver : 0..MaxVer, n : Nat, cut : BOOLEAN]

\* The state keeps its types.
TypeOK ==
  /\ src \in [on : BOOLEAN, ts : Nat, sent : 0..MaxMsgs, n : 0..MaxMsgs, ver : 0..MaxVer,
              meta : BOOLEAN, vsh : 0..MaxVer, vshTs : Nat, ash : BOOLEAN, ashTs : Nat,
              prev : 0..MaxVer, prevAsh : BOOLEAN]
  /\ gop \in [frames : Seq({m \in Message : m.k \in Frames}), videos : Nat, audios : Nat]
  /\ con \in Consumers
  /\ recv \in [ctl : Seq({"pause", "play", "close"}), err : BOOLEAN, stop : BOOLEAN]

\* No wake-up is lost: a player sleeps on the condition only when there is
\* nothing to do, and then the next enqueue, control message or error will
\* signal it (SrsLiveConsumer::wait, srs_app_source.cpp:520).
NoLostWakeup ==
  con.at = "asleep" =>
    con.waiting /\ recv.ctl = <<>> /\ ~recv.err /\ ~recv.stop /\ ~Enough(con)

\* The messages that move the bounds of the queue.
Timed(ms) == {i \in DOMAIN ms : IsAv(ms[i]) /\ ms[i].ts # 0}
Span(ms) == IF Timed(ms) = {} THEN 0 ELSE ms[Max(Timed(ms))].ts - ms[Min(Timed(ms))].ts

\* Once a message is in the queue of a slow or paused player, what waits there
\* never spans more time than queue_length and the step back the jitter lets
\* through, however often the clock of the stream starts again
\* (SrsMessageQueue::enqueue, srs_app_source.cpp:254).
QueueIsBounded ==
  [][MaxQueue > 0 /\ con'.msgs # con.msgs /\ con'.out = con.out
       => Span(con'.msgs) <= MaxQueue + MaxJitter]_vars

\* What a player has got and is about to get.
Stream == con.out \o con.msgs

\* A player that has the header ver has, or gets before the i-th message of ms,
\* the header v or a newer one.
Known(ms, i, ver, v) ==
  ver >= v \/ \E j \in DOMAIN ms : j < i /\ ms[j].k = "vsh" /\ ms[j].ver >= v

\* No video frame reaches a player before the sequence header it needs, or a
\* newer one: not when it joins in the middle, not after the publisher has
\* changed, not when the queue was shrunk.
HeaderFirst ==
  \A i \in DOMAIN Stream :
    Stream[i].k \in {"key", "inter"} => Known(Stream, i, con.ver, Stream[i].ver)

\* From the frame it started with a player gets every frame once and in order,
\* cached or live, through pauses and changes of the publisher, as long as its
\* queue was not shrunk.
EveryFrameOnce ==
  LET frames == {i \in DOMAIN Stream : Stream[i].k \in Frames} IN
  con.at # "none" /\ ~con.cut =>
    /\ {Stream[i].n : i \in frames} = (con.n + 1)..src.n
    /\ \A i, j \in frames : i < j => Stream[i].n < Stream[j].n

\* A player has, or will get, the sequence header of the frames to come, also
\* when it joined between two publishers or two frames (consumer_dumps and
\* on_video_imp, srs_app_source.cpp:2684 and 2418).
HeaderIsKnown ==
  con.at # "none" /\ src.on => Known(Stream, Len(Stream) + 1, con.ver, src.vsh)

\* A player whose client has gone leaves, and so it lets the source die.
GoneLeaves == recv.err ~> con.at = "none"

\* A message that finds no other waiting is not shrunk away: shrinking is for a
\* queue that overflows ("drop the keyframes even if there is not overflow
\* packets in queue", srs_app_source.cpp:260).
ShrinksOnOverflow ==
  [][con.at # "none" /\ con'.at # "none" /\ con'.end # con.end /\ con'.msgs = <<>> =>
       \E i \in DOMAIN con.msgs : IsAv(con.msgs[i])]_vars
=============================================================================
