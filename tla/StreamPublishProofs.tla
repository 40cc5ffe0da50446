------------------------ MODULE StreamPublishProofs -------------------------
(***************************************************************************)
(* Proofs about StreamPublish, for any connections, source identities,     *)
(* vhosts and number of mishaps.  The inductive invariant holds until a    *)
(* timer drops a source somebody uses or a claim overtakes a waiting       *)
(* on_unpublish; an SRT publisher that fails and leaves its claims behind  *)
(* is part of it.                                                          *)
(***************************************************************************)
EXTENDS StreamPublish, TLAPS

\* No timer has taken a source in use, no claim overtaken an on_unpublish; no SRT
\* publisher has left its claims.
Sound == Never({"evicted", "overtaken"})
Complete == Never({"unreleased"})

Active(c) == conn[c].at \in Publishing \cup Ending

\* A connection that is not idle has a source, and the manager of its protocol
\* has the same one.
ConnOK(c) ==
  \/ conn[c] = Idle
  \/ /\ conn[c].at # "idle" /\ conn[c].kind \in Kinds /\ conn[c].src \in Sources
     /\ pool[conn[c].kind] = conn[c].src
     /\ conn[c].at = "fetched" => conn[c].kind # "rtc"
     /\ conn[c].at \in {"created", "halfway"} => conn[c].kind = "rtc"

\* Only the source of a publisher, or one that an SRT publisher has left busy, has
\* a bridge, to sources the managers have.
BridgeOK(p) ==
  /\ bridge[p] # {} =>
      (\E c \in Conns : Active(c) /\ Own(c) = p) \/ (p[1] = "srt" /\ owner[p] # None)
  /\ bridge[p] \subseteq {<<"live", pool["live"]>>, <<"rtc", pool["rtc"]>>}
  /\ p[1] = "live" => <<"live", pool["live"]>> \notin bridge[p]
  /\ p[1] = "rtc" => <<"rtc", pool["rtc"]>> \notin bridge[p]
  /\ p[1] # "rtc" /\ bridge[p] # {} /\ "rtc_from_rtmp" \notin conf =>
       p[1] = "srt" /\ <<"rtc", pool["rtc"]>> \notin bridge[p]
  /\ p[1] = "srt" /\ bridge[p] # {} =>
       /\ <<"live", pool["live"]>> \in bridge[p]
       /\ "rtc_from_rtmp" \in conf => <<"rtc", pool["rtc"]>> \in bridge[p]

\* What a publisher has claimed, and not yet released.
Claims(c) ==
  /\ conn[c].at \in Publishing => owner[Own(c)] = c
  /\ conn[c].at \in {"hub", "halfway", "publishing", "stopping", "failing"} =>
       \A o \in LiveOf(c) : owner[o] = c
  /\ conn[c].at = "publishing" => \A o \in Reach(c) : owner[o] = c
  /\ conn[c].at = "created" => \A o \in LiveOf(c) : owner[o] = None
  /\ conn[c].at \in {"stopping", "unmounting"} /\ conn[c].kind = "live" =>
       \A o \in RtcBehind(c) : owner[o] = c
  /\ conn[c].at = "unmounting" => \A o \in LiveOf(c) : owner[o] # c
  /\ conn[c].at \in Ending /\ conn[c].kind # "live" => owner[Own(c)] = None

\* Nobody else has what a publisher may claim through its bridges; an RTMP
\* publisher that unmounts the HTTP streams has given up its live source.
Exclusive(c) ==
  Active(c) =>
    \A o \in Reach(c) :
      \/ owner[o] \in {None, c}
      \/ conn[c].at = "unmounting" /\ conn[c].kind = "live" /\ o = Own(c)

\* An RTMP publisher is bridged to the RTC source when the vhost says so.
LiveFeeds(c) ==
  Active(c) /\ conn[c].kind = "live" /\ "rtc_from_rtmp" \in conf =>
    <<"rtc", pool["rtc"]>> \in bridge[Own(c)]

\* A bridged source that is being unpublished has no publisher beside it.
Alone(c) ==
  conn[c].at \in Ending /\ conn[c].kind # "live" =>
    \A d \in Conns \ {c} : Active(d) => conn[d].at \in Ending /\ conn[d].kind = "live"

Single ==
  \A c, d \in Conns : conn[c].at \in Publishing /\ conn[d].at \in Publishing => c = d
BusyHeld ==
  \A o \in Objects : owner[o] # None => Active(owner[o]) /\ o \in Reach(owner[o])
BusyPooled ==
  \A o \in Objects : owner[o] # None => pool[o[1]] = o[2]

IInv ==
  /\ TypeOK
  /\ \A c \in Conns : ConnOK(c)
  /\ \A p \in Objects : BridgeOK(p)
  /\ \A c \in Conns : Claims(c)
  /\ \A c \in Conns : Exclusive(c)
  /\ \A c \in Conns : LiveFeeds(c)
  /\ \A c \in Conns : Alone(c)
  /\ BusyPooled
  /\ Complete => BusyHeld
  /\ Single

\* What has happened has happened.
Remembers == \A m \in Mishaps : mishaps'[m] = 0 => mishaps[m] = 0

Obj(k) == <<k, pool[k]>>
-----------------------------------------------------------------------------
(* What the invariant says of one connection.                              *)

LEMMA Pairs ==
  ASSUME NEW o \in Objects
  PROVE  o = <<o[1], o[2]>> /\ o[1] \in Kinds /\ o[2] \in Sources
BY DEF Objects

\* A publisher reaches the sources the managers have: its own and, over its
\* bridge, the live and the RTC source.
LEMMA Views ==
  ASSUME IInv, NEW c \in Conns, Active(c)
  PROVE  /\ conn[c].kind \in Kinds /\ conn[c].src \in Sources
         /\ Own(c) = Obj(conn[c].kind) /\ Own(c) \in Objects
         /\ bridge[Own(c)] \subseteq {Obj("live"), Obj("rtc")} \cap Objects
         /\ Reach(c) \subseteq Objects
         /\ conn[c].kind = "live" => LiveOf(c) = {Own(c)}
         /\ conn[c].kind # "live" => LiveOf(c) = bridge[Own(c)] \cap {Obj("live")}
         /\ RtcBehind(c) = bridge[Own(c)] \cap {Obj("rtc")}
         /\ conn[c].kind = "rtc" => RtcBehind(c) = {}
         /\ conn[c].kind = "live" => bridge[Own(c)] \subseteq {Obj("rtc")}
         /\ conn[c].at # "idle"
<1>1. ConnOK(c) /\ TypeOK
  BY DEF IInv
<1>2. conn[c].at # "idle"
  BY DEF Active, Publishing, Ending
<1>3. /\ conn[c].kind \in Kinds /\ conn[c].src \in Sources
      /\ Own(c) = Obj(conn[c].kind) /\ Own(c) \in Objects
  BY <1>1, <1>2 DEF ConnOK, Idle, Own, Obj, Objects
<1>4. BridgeOK(Own(c)) /\ bridge[Own(c)] \in SUBSET Objects
  BY <1>1, <1>3 DEF IInv, TypeOK
<1>5. Own(c)[1] = conn[c].kind
  BY DEF Own
<1>6. bridge[Own(c)] \subseteq {Obj("live"), Obj("rtc")} \cap Objects
  BY <1>4 DEF BridgeOK, Obj
<1>7. Obj("live")[1] = "live" /\ Obj("rtc")[1] = "rtc"
  BY DEF Obj
<1>8. RtcBehind(c) = bridge[Own(c)] \cap {Obj("rtc")}
  BY <1>6, <1>7 DEF RtcBehind
<1>9. conn[c].kind = "rtc" => Obj("rtc") \notin bridge[Own(c)]
  BY <1>4, <1>5 DEF BridgeOK, Obj
<1>10. conn[c].kind = "live" => Obj("live") \notin bridge[Own(c)]
  BY <1>4, <1>5 DEF BridgeOK, Obj
<1>11. conn[c].kind = "live" => LiveOf(c) = {Own(c)}
  BY <1>5, <1>6, <1>7, <1>10 DEF LiveOf, Reach
<1>12. conn[c].kind # "live" => LiveOf(c) = bridge[Own(c)] \cap {Obj("live")}
  BY <1>5, <1>6, <1>7 DEF LiveOf, Reach
<1> QED
  BY <1>2, <1>3, <1>6, <1>8, <1>9, <1>10, <1>11, <1>12 DEF Reach

\* Two RTMP clients that both have a part of the stream are not bridged.
LEMMA Unique ==
  ASSUME IInv, NEW c \in Conns, NEW d \in Conns, c # d, Active(c), Active(d),
         conn[c].kind = "live", conn[d].kind = "live"
  PROVE  bridge[Own(c)] = {}
<1> SUFFICES ASSUME bridge[Own(c)] # {} PROVE FALSE
  OBVIOUS
<1>1. Own(c) = Obj("live") /\ Own(d) = Obj("live") /\ Obj("rtc") # Obj("live")
  BY Views DEF Obj
<1>2. RtcBehind(c) = {Obj("rtc")} /\ RtcBehind(d) = {Obj("rtc")}
  BY <1>1, Views
<1>3. Obj("rtc") \in Reach(c) /\ Obj("rtc") \in Reach(d)
  BY <1>2 DEF RtcBehind, Reach
<1>4. Claims(c) /\ Claims(d) /\ Exclusive(c) /\ Exclusive(d)
  BY DEF IInv
<1>5. LiveOf(c) = {Obj("live")} /\ LiveOf(d) = {Obj("live")}
  BY <1>1, Views
<1>6. owner[Obj("rtc")] \in {None, c} /\ owner[Obj("rtc")] \in {None, d}
  BY <1>1, <1>3, <1>4 DEF Exclusive
<1>7. c # None /\ d # None
  BY StreamAssumption
<1>8. conn[c].at \notin {"stopping", "unmounting"} /\ conn[d].at \notin {"stopping", "unmounting"}
  BY <1>2, <1>4, <1>6, <1>7 DEF Claims
<1>9. owner[Obj("live")] = c /\ owner[Obj("live")] = d
  BY <1>1, <1>4, <1>5, <1>8 DEF Claims, Active, Publishing, Ending
<1> QED
  BY <1>9

\* A publisher shares with an RTMP client that still cleans up at most the live
\* source, when that client has given it up.
LEMMA Separate ==
  ASSUME IInv, NEW c \in Conns, NEW d \in Conns, c # d, conn[c].at \in Publishing,
         conn[d].at \in Ending, conn[d].kind = "live", NEW o \in Reach(c) \cap Reach(d)
  PROVE  o = Own(d) /\ conn[d].at = "unmounting"
<1>1. Active(c) /\ Active(d) /\ c # None /\ d # None /\ conn[c].at \notin Ending
  BY StreamAssumption DEF Active, Publishing, Ending
<1>2. Claims(c) /\ Claims(d) /\ Exclusive(c) /\ Exclusive(d)
  BY DEF IInv
<1>3. Own(d) = Obj("live") /\ LiveOf(d) = {Obj("live")}
  BY <1>1, Views
<1>4. \A p \in Reach(c) : owner[p] \in {None, c}
  BY <1>1, <1>2 DEF Exclusive, Ending, Publishing
<1>5. conn[d].at # "unmounting" => owner[Obj("live")] = d
  BY <1>2, <1>3 DEF Claims, Ending
<1>6. Obj("live") \in Reach(c) => conn[d].at = "unmounting"
  BY <1>1, <1>4, <1>5
<1>7. o \in {Obj("live"), Obj("rtc")}
  BY <1>1, <1>3, Views DEF Reach
<1>8. CASE o = Obj("live")
  BY <1>3, <1>6, <1>8
<1>9. CASE o = Obj("rtc") /\ o # Obj("live")
  <2>1. RtcBehind(d) = {Obj("rtc")}
    BY <1>1, <1>3, <1>9, Views DEF Reach
  <2>2. owner[Obj("rtc")] \in {None, d} /\ owner[Obj("rtc")] \in {None, c}
    BY <1>1, <1>2, <1>3, <1>4, <1>9 DEF Exclusive
  <2>3. conn[d].at = "failing"
    BY <1>1, <1>2, <2>1, <2>2 DEF Claims, Ending
  <2>4. Obj("live") \notin Reach(c)
    BY <1>6, <2>3
  <2>5. conn[c].kind # "live"
    BY <1>1, <2>4, Views DEF Reach
  <2>6. CASE conn[c].kind = "rtc"
    BY <1>1, <1>2, <2>2, <2>6, Views DEF Claims
  <2>7. CASE conn[c].kind = "srt"
    <3>1. Own(c) = Obj("srt") /\ Own(c)[1] = "srt" /\ BridgeOK(Own(c))
      BY <1>1, <2>7, Views DEF IInv, Obj
    <3>2. Own(c) # Obj("rtc") /\ Own(c) # Obj("live")
      BY <3>1 DEF Obj
    <3>3. Obj("rtc") \in bridge[Own(c)]
      BY <3>2, <1>9 DEF Reach
    <3>4. Obj("live") \in bridge[Own(c)]
      BY <3>1, <3>3 DEF BridgeOK, Obj
    <3> QED BY <2>4, <3>4 DEF Reach
  <2> QED BY <1>1, <2>5, <2>6, <2>7, Views DEF Kinds
<1> QED
  BY <1>7, <1>8, <1>9

\* When the sources the managers have are free, nothing is claimed and no bridge
\* is up; at most RTMP clients that were not bridged still unmount.
LEMMA Free ==
  ASSUME IInv, NEW c \in Conns, ~BridgeWaits, ~Active(c),
         \A k \in Kinds : pool[k] # None => owner[Obj(k)] = None
  PROVE  /\ \A o \in Objects : owner[o] = None /\ bridge[o] = {}
         /\ \A d \in Conns : Active(d) => /\ conn[d].at = "unmounting" /\ conn[d].kind = "live"
                                         /\ "rtc_from_rtmp" \notin conf
<1>1. TypeOK
  BY DEF IInv
<1>2. \A d \in Conns : d # None
  BY StreamAssumption
<1>4. \A o \in Objects : owner[o] = None
  <2> SUFFICES ASSUME NEW o \in Objects, owner[o] # None PROVE FALSE
    OBVIOUS
  <2>1. pool[o[1]] = o[2] /\ o = Obj(o[1]) /\ o[1] \in Kinds /\ o[2] # None
    BY Pairs, StreamAssumption DEF IInv, BusyPooled, Obj
  <2> QED BY <2>1
<1>5. ASSUME NEW d \in Conns, Active(d)
      PROVE  conn[d].at = "unmounting" /\ conn[d].kind = "live" /\ bridge[Own(d)] = {}
  <2>1. c # d /\ Claims(d) /\ LiveFeeds(d) /\ Own(d) \in Objects
    BY <1>5, Views DEF IInv
  <2>2. conn[d].at \notin Publishing
    BY <1>2, <1>4, <2>1 DEF Claims
  <2>3. conn[d].kind = "live"
    BY <2>1, <2>2, <1>5 DEF BridgeWaits, Active
  <2>4. LiveOf(d) = {Own(d)} /\ RtcBehind(d) = bridge[Own(d)] /\ bridge[Own(d)] \subseteq Objects
    BY <1>5, <2>3, Views
  <2>5. conn[d].at = "unmounting"
    BY <1>2, <1>4, <1>5, <2>1, <2>2, <2>4 DEF Claims, Active, Ending
  <2>6. \A o \in bridge[Own(d)] : owner[o] = d
    BY <2>1, <2>3, <2>4, <2>5 DEF Claims
  <2> QED BY <1>2, <1>4, <2>3, <2>4, <2>5, <2>6
<1>6. ASSUME NEW d \in Conns, Active(d) PROVE "rtc_from_rtmp" \notin conf
  BY <1>5, <1>6 DEF IInv, LiveFeeds
<1>7. \A p \in Objects : bridge[p] = {}
  BY <1>4, <1>5 DEF IInv, BridgeOK
<1> QED
  BY <1>4, <1>5, <1>6, <1>7
-----------------------------------------------------------------------------
(* What a step preserves, by the kind of step.                             *)

\* Another connection keeps its claims when what it has stays, or the actor
\* releases something.
LEMMA OtherKeeps ==
  ASSUME NEW d \in Conns, Claims(d), Exclusive(d),
         conn'[d] = conn[d], bridge'[Own(d)] \subseteq bridge[Own(d)],
         \A o \in Reach(d) :
           \/ owner'[o] = owner[o]
           \/ owner[o] # d /\ owner'[o] = None
           \/ conn[d].at = "unmounting" /\ conn[d].kind = "live" /\ o = Own(d) /\ owner'[o] # d
  PROVE  Claims(d)' /\ Exclusive(d)'
<1>1. d # None
  BY StreamAssumption
<1>2. Own(d)' = Own(d) /\ Own(d)[1] = conn[d].kind
  BY DEF Own
<1>3. Reach(d)' \subseteq Reach(d) /\ LiveOf(d)' \subseteq LiveOf(d) /\ RtcBehind(d)' \subseteq RtcBehind(d)
  BY <1>2 DEF Reach, LiveOf, RtcBehind
<1>4. /\ Own(d) \in Reach(d) /\ LiveOf(d) \subseteq Reach(d) /\ RtcBehind(d) \subseteq Reach(d)
      /\ conn[d].kind = "live" => Own(d) \notin RtcBehind(d)
  BY <1>2 DEF Reach, LiveOf, RtcBehind
<1>5. Claims(d)'
  <2>1. (conn[d].at \in Publishing => owner[Own(d)] = d)'
    BY <1>1, <1>2, <1>4 DEF Claims, Publishing
  <2>2. (conn[d].at \in {"hub", "halfway", "publishing", "stopping", "failing"} =>
           \A o \in LiveOf(d) : owner[o] = d)'
    BY <1>1, <1>3, <1>4 DEF Claims
  <2>3. (conn[d].at = "publishing" => \A o \in Reach(d) : owner[o] = d)'
    BY <1>1, <1>3 DEF Claims
  <2>4. (conn[d].at = "created" => \A o \in LiveOf(d) : owner[o] = None)'
    BY <1>3, <1>4 DEF Claims
  <2>5. (conn[d].at \in {"stopping", "unmounting"} /\ conn[d].kind = "live" =>
           \A o \in RtcBehind(d) : owner[o] = d)'
    BY <1>1, <1>3, <1>4 DEF Claims
  <2>6. (conn[d].at = "unmounting" => \A o \in LiveOf(d) : owner[o] # d)'
    BY <1>1, <1>3, <1>4 DEF Claims
  <2>7. (conn[d].at \in Ending /\ conn[d].kind # "live" => owner[Own(d)] = None)'
    BY <1>2, <1>4 DEF Claims
  <2> QED BY <2>1, <2>2, <2>3, <2>4, <2>5, <2>6, <2>7 DEF Claims
<1>6. Exclusive(d)'
  BY <1>2, <1>3 DEF Exclusive, Active
<1> QED
  BY <1>5, <1>6

\* Nobody who has claims moves, and no source behind a bridge changes.
LEMMA Calm ==
  ASSUME IInv, TypeOK', Remembers, \A d \in Conns : ConnOK(d)',
         conf' = conf, owner' = owner, bridge' = bridge,
         \A d \in Conns : conn'[d] = conn[d] \/ (~Active(d) /\ ~Active(d)'),
         \A p \in Objects : \A o \in bridge[p] : pool'[o[1]] = pool[o[1]],
         \A o \in Objects : owner[o] # None => pool'[o[1]] = pool[o[1]]
  PROVE  IInv'
<1>1. \A d \in Conns : Active(d) => conn'[d] = conn[d] /\ Active(d)' /\ Own(d)' = Own(d)
  BY DEF Active, Own
<1>2. \A d \in Conns : Active(d)' => Active(d) /\ conn'[d] = conn[d] /\ Own(d)' = Own(d) /\ Own(d) \in Objects
  BY <1>1, Views DEF Active, Own
<1>3. \A d \in Conns : Claims(d)' /\ Exclusive(d)'
  <2> SUFFICES ASSUME NEW d \in Conns PROVE Claims(d)' /\ Exclusive(d)'
    OBVIOUS
  <2>1. CASE Active(d)
    <3>1. \A o \in Reach(d) : owner'[o] = owner[o]
      OBVIOUS
    <3> QED BY <1>1, <2>1, <3>1, OtherKeeps DEF IInv
  <2>2. CASE ~Active(d)
    <3>1. conn'[d].at \notin Publishing \cup Ending
      BY <1>1, <2>2 DEF Active
    <3>2. Claims(d)'
      BY <3>1 DEF Claims, Publishing, Ending
    <3> QED BY <3>1, <3>2 DEF Exclusive, Active
  <2> QED BY <2>1, <2>2
<1>4. \A p \in Objects : \A k \in {"live", "rtc"} : <<k, pool'[k]>> \in bridge[p] <=> Obj(k) \in bridge[p]
  <2> SUFFICES ASSUME NEW p \in Objects, NEW k \in {"live", "rtc"}
               PROVE  <<k, pool'[k]>> \in bridge[p] <=> Obj(k) \in bridge[p]
    OBVIOUS
  <2>1. bridge[p] \subseteq {<<"live", pool["live"]>>, <<"rtc", pool["rtc"]>>}
    BY DEF IInv, BridgeOK
  <2>2. \A o \in bridge[p] : o = <<o[1], pool[o[1]]>>
    BY <2>1
  <2>3. ASSUME Obj(k) \in bridge[p] PROVE pool'[k] = pool[k]
    BY <2>3 DEF Obj
  <2>4. ASSUME <<k, pool'[k]>> \in bridge[p] PROVE pool'[k] = pool[k]
    BY <2>2, <2>4
  <2> QED BY <2>3, <2>4 DEF Obj
<1>5. ASSUME NEW p \in Objects PROVE BridgeOK(p)'
  <2>1. BridgeOK(p)
    BY DEF IInv
  <2>2. bridge[p] # {} =>
      (\E c \in Conns : Active(c)' /\ Own(c)' = p) \/ (p[1] = "srt" /\ owner'[p] # None)
    BY <1>1, <2>1 DEF BridgeOK
  <2>3. \A k \in {"live", "rtc"} : <<k, pool'[k]>> \in bridge[p] <=> <<k, pool[k]>> \in bridge[p]
    BY <1>4 DEF Obj
  <2>4. bridge[p] \subseteq {<<"live", pool'["live"]>>, <<"rtc", pool'["rtc"]>>}
    <3>1. \A k \in {"live", "rtc"} : <<k, pool[k]>> \in bridge[p] => pool'[k] = pool[k]
      OBVIOUS
    <3> QED BY <3>1, <2>1 DEF BridgeOK
  <2> QED BY <2>1, <2>2, <2>3, <2>4 DEF BridgeOK
<1>6. \A d \in Conns : LiveFeeds(d)'
  BY <1>2, <1>4 DEF IInv, LiveFeeds, Obj
<1>7. \A d \in Conns : Alone(d)'
  <2> SUFFICES ASSUME NEW d \in Conns, (conn[d].at \in Ending)', (conn[d].kind # "live")',
                      NEW e \in Conns \ {d}, Active(e)'
               PROVE  (conn[e].at \in Ending /\ conn[e].kind = "live")'
    BY DEF Alone
  <2>1. conn'[d] = conn[d] /\ conn'[e] = conn[e] /\ Active(e)
    BY <1>2 DEF Active
  <2> QED BY <2>1 DEF IInv, Alone
<1>8. (Complete => BusyHeld)'
  <2>1. ASSUME Complete', NEW o \in Objects, NEW d \in Conns, owner'[o] = d
        PROVE  Active(d)' /\ o \in Reach(d)'
    <3>1. d # None /\ BusyHeld
      BY <2>1, StreamAssumption DEF IInv, Remembers, Complete, Never, Mishaps
    <3>2. Active(d) /\ o \in Reach(d)
      BY <2>1, <3>1 DEF BusyHeld
    <3> QED BY <1>1, <3>2 DEF Reach
  <2> QED BY <2>1 DEF BusyHeld, TypeOK, Active, Reach, Own
<1>9. Single'
  BY <1>2 DEF IInv, Single, Active
<1>10. BusyPooled'
  BY DEF IInv, BusyPooled
<1> QED
  BY <1>3, <1>5, <1>6, <1>7, <1>8, <1>9, <1>10 DEF IInv

\* A publisher goes on: it claims more, in what its bridges reach, or releases.
LEMMA Moves ==
  ASSUME IInv, TypeOK', NEW c \in Conns, Remembers, Active(c), Active(c)',
         conf' = conf, pool' = pool, bridge' = bridge,
         \A d \in Conns \ {c} : conn'[d] = conn[d],
         conn'[c].kind = conn[c].kind, conn'[c].src = conn[c].src,
         conn[c].at \in Ending => conn'[c].at \in Ending,
         conn'[c].at \in {"created", "halfway"} => conn[c].kind = "rtc",
         Claims(c)', Exclusive(c)',
         \A o \in Objects :
           \/ owner'[o] = owner[o]
           \/ o \in Reach(c) /\ owner[o] = c /\ owner'[o] = None
           \/ o \in Reach(c) /\ conn[c].at \in Publishing /\ owner'[o] = c
  PROVE  IInv'
<1>1. \A d \in Conns : Own(d)' = Own(d) /\ Reach(d)' = Reach(d) /\ (Active(d)' <=> Active(d))
  BY DEF Own, Reach, Active
<1>2. \A d \in Conns \ {c} : Active(d) /\ conn[c].at \in Publishing =>
        conn[d].at \in Ending /\ conn[d].kind = "live"
  BY DEF IInv, Single, Active, Alone, Publishing, Ending
<1>3. ASSUME NEW d \in Conns \ {c} PROVE Claims(d)' /\ Exclusive(d)'
  <2>1. CASE Active(d)
    <3>1. ASSUME NEW o \in Reach(d)
          PROVE  \/ owner'[o] = owner[o]
                 \/ owner[o] # d /\ owner'[o] = None
                 \/ conn[d].at = "unmounting" /\ conn[d].kind = "live" /\ o = Own(d) /\ owner'[o] # d
      <4>1. o \in Objects
        BY <2>1, <3>1, Views
      <4>2. CASE o \in Reach(c) /\ conn[c].at \in Publishing /\ owner'[o] = c
        BY <1>2, <2>1, <3>1, <4>2, Separate
      <4> QED BY <4>1, <4>2
    <3> QED BY <3>1, OtherKeeps DEF IInv
  <2>2. CASE ~Active(d)
    <3>1. conn'[d].at \notin Publishing \cup Ending
      BY <2>2 DEF Active
    <3>2. Claims(d)'
      BY <3>1 DEF Claims, Publishing, Ending
    <3> QED BY <3>1, <3>2 DEF Exclusive, Active
  <2> QED BY <2>1, <2>2
<1>4. \A d \in Conns : ConnOK(d)'
  <2>1. \A d \in Conns \ {c} : ConnOK(d)'
    BY DEF IInv, ConnOK
  <2>2. conn'[c].at # "idle" /\ conn'[c].at # "fetched"
    BY DEF Active, Publishing, Ending
  <2>3. ConnOK(c)'
    BY <2>2, Views DEF IInv, ConnOK, Idle, Active, Publishing, Ending
  <2> QED BY <2>1, <2>3
<1>5. ASSUME NEW p \in Objects PROVE BridgeOK(p)'
  <2>1. BridgeOK(p)
    BY DEF IInv
  <2>2. bridge'[p] # {} =>
      (\E d \in Conns : Active(d)' /\ Own(d)' = p) \/ (p[1] = "srt" /\ owner'[p] # None)
    <3> SUFFICES ASSUME p[1] = "srt", owner[p] # None, owner'[p] = None
                 PROVE  \E d \in Conns : Active(d)' /\ Own(d)' = p
      BY <1>1, <2>1 DEF BridgeOK
    <3>1. p \in Reach(c)
      OBVIOUS
    <3>2. p = Own(c)
      BY <3>1, Views DEF Reach, Obj
    <3> QED BY <1>1, <3>2
  <2> QED BY <2>1, <2>2 DEF BridgeOK
<1>6. \A d \in Conns : LiveFeeds(d)'
  BY <1>1 DEF IInv, LiveFeeds
<1>7. \A d \in Conns : Alone(d)'
  <2> SUFFICES ASSUME NEW d \in Conns, (conn[d].at \in Ending)', (conn[d].kind # "live")',
                      NEW e \in Conns \ {d}, Active(e)'
               PROVE  (conn[e].at \in Ending /\ conn[e].kind = "live")'
    BY DEF Alone
  <2>1. Active(e) /\ Active(d)
    BY <1>1 DEF Active
  <2>2. CASE d = c
    <3>1. conn[c].at \in Publishing => conn[e].at \in Ending /\ conn[e].kind = "live"
      BY <1>2, <2>1, <2>2
    <3>2. conn[c].at \in Ending => conn[e].at \in Ending /\ conn[e].kind = "live"
      BY <2>1, <2>2 DEF IInv, Alone
    <3> QED BY <2>1, <2>2, <3>1, <3>2 DEF Active
  <2>3. CASE d # c
    <3>1. conn[e].at \in Ending /\ conn[e].kind = "live"
      BY <2>1, <2>3 DEF IInv, Alone
    <3> QED BY <3>1
  <2> QED BY <2>2, <2>3
<1>8. (Complete => BusyHeld)'
  <2>1. ASSUME Complete', NEW o \in Objects, NEW d \in Conns, owner'[o] = d
        PROVE  Active(d)' /\ o \in Reach(d)'
    <3>1. d # None /\ TypeOK /\ BusyHeld
      BY <2>1, StreamAssumption DEF IInv, Remembers, Complete, Never, Mishaps
    <3>2. CASE owner'[o] = owner[o]
      BY <1>1, <2>1, <3>1, <3>2 DEF BusyHeld
    <3>3. CASE o \in Reach(c) /\ owner'[o] = c
      BY <1>1, <2>1, <3>3
    <3> QED BY <2>1, <3>1, <3>2, <3>3
  <2> QED BY <2>1 DEF BusyHeld, TypeOK, Active, Reach, Own
<1>9. Single'
  <2>1. \A d \in Conns : conn'[d].at \in Publishing => conn[d].at \in Publishing
    BY <1>1 DEF Active, Publishing, Ending
  <2> QED BY <2>1 DEF IInv, Single
<1>10. BusyPooled'
  <2>1. \A o \in Reach(c) : pool[o[1]] = o[2]
    BY Views DEF Reach, Obj
  <2> QED BY <2>1 DEF IInv, BusyPooled
<1> QED
  BY <1>3, <1>4, <1>5, <1>6, <1>7, <1>8, <1>9, <1>10 DEF IInv

\* A publisher ends, and what its bridges reach is no longer its.
LEMMA Ends ==
  ASSUME IInv, TypeOK', NEW c \in Conns, Remembers, Active(c),
         conf' = conf, pool' = pool, bridge' = [bridge EXCEPT ![Own(c)] = {}],
         conn' = [conn EXCEPT ![c] = Idle],
         \A o \in Objects :
           owner'[o] = owner[o] \/ (o \in Reach(c) /\ owner[o] = c /\ owner'[o] = None),
         \A o \in Reach(c) : owner'[o] # c
  PROVE  IInv'
<1>1. Own(c) \in Objects /\ c # None /\ TypeOK
  BY Views, StreamAssumption DEF IInv
<1>2. /\ \A d \in Conns \ {c} : conn'[d] = conn[d] /\ Own(d)' = Own(d) /\ (Active(d)' <=> Active(d))
      /\ conn'[c] = Idle /\ ~Active(c)'
  BY <1>1 DEF Own, Active, TypeOK, Idle, Publishing, Ending
<1>3. \A p \in Objects : bridge'[p] = IF p = Own(c) THEN {} ELSE bridge[p]
  BY <1>1 DEF TypeOK
<1>4. ASSUME NEW d \in Conns \ {c}, Active(d), Own(d) = Own(c)
      PROVE  bridge[Own(c)] = {} /\ conn[d].kind = "live"
  <2>1. conn[d].kind = conn[c].kind
    BY <1>4 DEF Own
  <2>2. conn[c].kind = "live"
    <3> SUFFICES ASSUME conn[c].kind # "live" PROVE FALSE
      OBVIOUS
    <3>1. conn[c].at \notin Ending /\ conn[d].at \notin Ending
      BY <1>4, <2>1 DEF IInv, Alone
    <3> QED BY <1>4, <3>1 DEF IInv, Single, Active
  <2> QED BY <1>4, <2>1, <2>2, Unique
<1>5. ASSUME NEW d \in Conns PROVE Claims(d)' /\ Exclusive(d)'
  <2>1. CASE d # c /\ Active(d)
    <3>1. \A o \in Reach(d) : owner'[o] = owner[o] \/ (owner[o] # d /\ owner'[o] = None)
      BY <2>1, Views
    <3>2. bridge'[Own(d)] \subseteq bridge[Own(d)] /\ conn'[d] = conn[d]
      BY <1>2, <1>3, <2>1, Views
    <3>3. Claims(d) /\ Exclusive(d)
      BY DEF IInv
    <3> QED BY <3>1, <3>2, <3>3, OtherKeeps
  <2>2. CASE d = c \/ ~Active(d)
    <3>1. conn'[d].at \notin Publishing \cup Ending
      BY <1>2, <2>2 DEF Active
    <3>2. Claims(d)'
      BY <3>1 DEF Claims, Publishing, Ending
    <3> QED BY <3>1, <3>2 DEF Exclusive, Active
  <2> QED BY <2>1, <2>2
<1>6. \A d \in Conns : ConnOK(d)'
  BY <1>2 DEF IInv, ConnOK
<1>7. ASSUME NEW p \in Objects PROVE BridgeOK(p)'
  <2>1. CASE p = Own(c)
    <3>1. bridge'[p] = {}
      BY <1>3, <2>1
    <3> QED BY <3>1 DEF BridgeOK
  <2>2. CASE p # Own(c)
    <3>1. bridge'[p] = bridge[p] /\ BridgeOK(p)
      BY <1>3, <2>2 DEF IInv
    <3>2. bridge[p] # {} =>
      (\E d \in Conns \ {c} : Active(d) /\ Own(d) = p) \/ (p[1] = "srt" /\ owner[p] # None)
      BY <2>2, <3>1 DEF BridgeOK
    <3>3. p[1] = "srt" /\ owner[p] # None => owner'[p] # None
      BY <2>2, Views DEF Reach, Obj
    <3>4. bridge[p] # {} =>
      (\E d \in Conns : Active(d)' /\ Own(d)' = p) \/ (p[1] = "srt" /\ owner'[p] # None)
      BY <1>2, <3>2, <3>3
    <3> QED BY <3>1, <3>4 DEF BridgeOK
  <2> QED BY <2>1, <2>2
<1>8. ASSUME NEW d \in Conns PROVE LiveFeeds(d)'
  <2> SUFFICES ASSUME Active(d)', (conn[d].kind = "live")', "rtc_from_rtmp" \in conf
               PROVE  <<"rtc", pool["rtc"]>> \in bridge'[Own(d)']
    BY DEF LiveFeeds
  <2>1. d # c /\ Active(d) /\ conn[d].kind = "live" /\ Own(d)' = Own(d) /\ Own(d) \in Objects
    BY <1>2, Views
  <2>2. <<"rtc", pool["rtc"]>> \in bridge[Own(d)]
    BY <2>1 DEF IInv, LiveFeeds
  <2>3. Own(d) # Own(c)
    BY <1>4, <2>1, <2>2
  <2> QED BY <1>3, <2>1, <2>2, <2>3
<1>9. \A d \in Conns : Alone(d)'
  <2> SUFFICES ASSUME NEW d \in Conns, (conn[d].at \in Ending)', (conn[d].kind # "live")',
                      NEW e \in Conns \ {d}, Active(e)'
               PROVE  (conn[e].at \in Ending /\ conn[e].kind = "live")'
    BY DEF Alone
  <2>1. d # c /\ e # c
    BY <1>2 DEF Active
  <2> QED BY <1>2, <2>1 DEF IInv, Alone
<1>10. (Complete => BusyHeld)'
  <2>1. ASSUME Complete', NEW o \in Objects, NEW d \in Conns, owner'[o] = d
        PROVE  Active(d)' /\ o \in Reach(d)'
    <3>1. d # None /\ BusyHeld
      BY <2>1, StreamAssumption DEF IInv, Remembers, Complete, Never, Mishaps
    <3>2. owner[o] = d
      BY <2>1, <3>1
    <3>3. Active(d) /\ o \in Reach(d)
      BY <3>1, <3>2 DEF BusyHeld
    <3>4. d # c
      BY <2>1, <3>3
    <3>5. bridge'[Own(d)] = bridge[Own(d)]
      BY <1>3, <1>4, <3>3, <3>4, Views
    <3>6. Reach(d)' = Reach(d)
      BY <1>2, <3>4, <3>5 DEF Reach
    <3> QED BY <1>2, <3>3, <3>4, <3>6
  <2> QED BY <2>1 DEF BusyHeld, TypeOK, Active, Reach, Own
<1>11. Single'
  BY <1>2 DEF IInv, Single, Active
<1>12. BusyPooled'
  BY DEF IInv, BusyPooled
<1> QED
  BY <1>5, <1>6, <1>7, <1>8, <1>9, <1>10, <1>11, <1>12 DEF IInv

\* A client claims the sources, all of which are free.
LEMMA Claiming ==
  ASSUME IInv, TypeOK', NEW c \in Conns, ~BridgeWaits, ~Active(c),
         \A k \in Kinds : pool[k] # None => owner[Obj(k)] = None,
         conf' = conf, \A d \in Conns : ConnOK(d)',
         \A d \in Conns \ {c} : conn'[d] = conn[d],
         conn'[c].at \in {"hub", "created", "publishing"},
         \A o \in Objects : owner'[o] = None \/ (owner'[o] = c /\ o \in Reach(c)'),
         \A p \in Objects : BridgeOK(p)' /\ (bridge'[p] = {} \/ p = Own(c)'),
         Claims(c)', LiveFeeds(c)'
  PROVE  IInv'
<1>1. \A d \in Conns \ {c} : Own(d)' = Own(d) /\ (Active(d)' <=> Active(d))
  BY DEF Own, Active
<1>2. \A d \in Conns \ {c} : Active(d) => /\ conn[d].at = "unmounting" /\ conn[d].kind = "live"
                                       /\ "rtc_from_rtmp" \notin conf
  BY Free
<1>3. c # None /\ conn'[c].at \in Publishing /\ conn'[c].at \notin Ending
  BY StreamAssumption DEF Publishing, Ending
<1>4. ASSUME NEW d \in Conns \ {c} PROVE Claims(d)' /\ Exclusive(d)'
  <2>1. CASE Active(d)
    <3>1. conn'[d].at = "unmounting" /\ conn'[d].kind = "live" /\ Own(d)' = Own(d) /\ Own(d) \in Objects
      BY <1>1, <1>2, <2>1, Views
    <3>2. bridge'[Own(d)] = {}
      <4>1. PICK p \in Objects : p = Own(d) /\ p[1] = "live"
        BY <3>1 DEF Own
      <4>2. BridgeOK(p)' /\ "rtc_from_rtmp" \notin conf'
        BY <1>2, <2>1
      <4> QED BY <4>1, <4>2 DEF BridgeOK
    <3>3. Reach(d)' = {Own(d)} /\ RtcBehind(d)' = {}
      BY <3>1, <3>2 DEF Reach, RtcBehind
    <3>4. owner'[Own(d)] # d
      BY <3>1, StreamAssumption
    <3>5. Claims(d)'
      BY <3>1, <3>3, <3>4 DEF Claims, LiveOf, Publishing
    <3> QED BY <3>1, <3>3, <3>5 DEF Exclusive
  <2>2. CASE ~Active(d)
    <3>1. conn'[d].at \notin Publishing \cup Ending
      BY <2>2 DEF Active
    <3>2. Claims(d)'
      BY <3>1 DEF Claims, Publishing, Ending
    <3> QED BY <3>1, <3>2 DEF Exclusive, Active
  <2> QED BY <2>1, <2>2
<1>5. Exclusive(c)'
  <2>1. Active(c)' /\ conn'[c].at # "idle"
    BY <1>3 DEF Active, Publishing
  <2>2. ConnOK(c)'
    OBVIOUS
  <2>3. Own(c)' \in Objects
    BY <2>1, <2>2 DEF ConnOK, Idle, Own, Objects
  <2>4. Reach(c)' \subseteq Objects
    BY <2>3 DEF Reach, TypeOK
  <2> QED BY <2>4 DEF Exclusive
<1>6. \A d \in Conns : LiveFeeds(d)'
  <2>1. \A d \in Conns \ {c} : LiveFeeds(d)'
    BY <1>1, <1>2 DEF LiveFeeds
  <2> QED BY <2>1
<1>7. \A d \in Conns : Alone(d)'
  BY <1>1, <1>2, <1>3 DEF Alone, Active
<1>8. BusyHeld'
  <2>1. ASSUME NEW o \in Objects, NEW d \in Conns, owner'[o] = d
        PROVE  Active(d)' /\ o \in Reach(d)'
    BY <1>3, <2>1, StreamAssumption DEF Active
  <2> QED BY <2>1 DEF BusyHeld, TypeOK, Active, Reach, Own
<1>9. Single'
  <2>1. \A d \in Conns \ {c} : conn'[d].at \notin Publishing
    BY <1>1, <1>2 DEF Active, Publishing
  <2> QED BY <2>1 DEF Single
<1>10. BusyPooled'
  <2>1. ConnOK(c)' /\ conn'[c].at # "idle"
    BY <1>3 DEF Publishing
  <2>2. Own(c)' \in Objects /\ pool'[Own(c)'[1]] = Own(c)'[2]
    BY <2>1 DEF ConnOK, Idle, Own, Objects
  <2>3. \A o \in bridge'[Own(c)'] : pool'[o[1]] = o[2]
    BY <2>2 DEF BridgeOK
  <2> QED BY <2>2, <2>3 DEF BusyPooled, Reach
<1> QED
  BY <1>4, <1>5, <1>6, <1>7, <1>8, <1>9, <1>10 DEF IInv
-----------------------------------------------------------------------------
(* The types.                                                              *)

ConnType ==
  [at : {"idle", "fetched", "joining", "playing"} \cup Publishing \cup Ending,
   kind : Kinds \cup {None}, src : Pooled]

\* A connection gets another state, a new record or none.
LEMMA ConnStep ==
  ASSUME conn \in [Conns -> ConnType], NEW c \in Conns
  PROVE  /\ \A at \in {"idle", "fetched", "joining", "playing"} \cup Publishing \cup Ending :
              Goes(c, at) => conn' \in [Conns -> ConnType]
         /\ Quits(c) => conn' \in [Conns -> ConnType]
<1>1. Idle \in ConnType
  BY DEF Idle, ConnType, Pooled
<1>2. \A r \in ConnType : [conn EXCEPT ![c] = r] \in [Conns -> ConnType]
  OBVIOUS
<1>3. ASSUME NEW at \in {"idle", "fetched", "joining", "playing"} \cup Publishing \cup Ending
      PROVE  [conn EXCEPT ![c].at = at] \in [Conns -> ConnType]
  BY DEF ConnType
<1> QED
  BY <1>1, <1>2, <1>3 DEF Goes, Quits

\* A mishap happens or not.
LEMMA MishapStep ==
  ASSUME TypeOK, [Next]_vars
  PROVE  mishaps' \in [Mishaps -> 0..MaxMishaps] /\ Remembers
<1> DEFINE Counts == \/ mishaps' = mishaps
                     \/ \E m \in Mishaps : /\ mishaps[m] < MaxMishaps
                                           /\ mishaps' = [mishaps EXCEPT ![m] = @ + 1]
<1>1. ASSUME NEW c \in Conns, NEW r, NEW t, NEW l,
             \/ RtmpAcquire(c, r, t) \/ SrtAcquire(c, l, r) \/ RtcCreate(c, r, t, l) \/ HubFails(c)
      PROVE  Counts
  <2>1. CASE RtmpAcquire(c, r, t)
    BY <2>1 DEF RtmpAcquire, Refused, Happens, Mishaps
  <2>2. CASE SrtAcquire(c, l, r)
    <3>1. Refused(c) \/ Happens("overtaken", BridgeWaits)
      BY <2>2 DEF SrtAcquire
    <3> QED BY <3>1 DEF Refused, Happens, Mishaps
  <2>3. CASE RtcCreate(c, r, t, l)
    BY <2>3 DEF RtcCreate, Happens, Mishaps
  <2>4. CASE HubFails(c)
    BY <2>4 DEF HubFails, Happens, Mishaps
  <2> QED BY <1>1, <2>1, <2>2, <2>3, <2>4
<1>2. ASSUME NEW k \in Kinds, TimerCleans(k) PROVE Counts
  BY <1>2 DEF TimerCleans, Happens, Mishaps
<1>3. ASSUME NEW c \in Conns, NEW k, NEW s, NEW t,
             \/ Fetch(c, k, s) \/ RtcJoin(c, s) \/ RtcUndone(c, s, t) \/ Cools(k)
             \/ GivesUp(c) \/ Play(c) \/ StopsPlaying(c) \/ RtcStart(c) \/ HubPublished(c)
             \/ ReleaseLive(c) \/ ReleaseBridged(c) \/ ReleaseAlone(c)
             \/ HubStopped(c) \/ Unmounted(c) \/ FailedHubStopped(c)
      PROVE  Counts
  BY <1>3 DEF Fetch, RtcJoin, RtcUndone, Cools, GivesUp, Play, StopsPlaying, RtcStart, HubPublished,
              ReleaseLive, ReleaseBridged, ReleaseAlone, HubStopped, Unmounted, FailedHubStopped
<1>4. ASSUME NEW k, Cools(k) PROVE Counts
  BY <1>4 DEF Cools
<1>5. Counts
  BY <1>1, <1>2, <1>3, <1>4 DEF Next, vars
<1>6. mishaps \in [Mishaps -> 0..MaxMishaps] /\ MaxMishaps \in Nat
  BY StreamAssumption DEF TypeOK
<1> QED
  BY <1>5, <1>6 DEF Remembers

\* While none is counted, it has not happened.
LEMMA Excluded ==
  ASSUME TypeOK, NEW m \in Mishaps, NEW what, Happens(m, what), mishaps'[m] = 0
  PROVE  ~what
BY DEF TypeOK, Happens

LEMMA TypeStep ==
  ASSUME TypeOK, [Next]_vars
  PROVE  TypeOK'
<1>1. conn \in [Conns -> ConnType]
  BY DEF TypeOK, ConnType
<1>2. mishaps' \in [Mishaps -> 0..MaxMishaps]
  BY MishapStep
<1>3. \A k \in Kinds : \A s : Fetches(k, s) => s \in Sources /\ s \in Pooled
  BY DEF Fetches, Pooled
<1>4. {"idle", "fetched", "joining", "playing", "hub", "halfway", "created", "publishing",
       "stopping", "failing", "unmounting"}
        = {"idle", "fetched", "joining", "playing"} \cup Publishing \cup Ending
  BY DEF Publishing, Ending
<1>5. \A os : Dies(os) => warm' \in [Kinds -> BOOLEAN]
  BY DEF Dies, TypeOK
<1>6. ASSUME NEW c \in Conns, NEW k \in Kinds, NEW s \in Sources, Fetch(c, k, s) PROVE TypeOK'
  <2>1. pool' \in [Kinds -> Pooled]
    BY <1>6 DEF Fetch, TypeOK, Pooled
  <2>2. conn' \in [Conns -> ConnType]
    BY <1>1, <1>6 DEF Fetch, ConnType, Pooled
  <2> QED BY <1>2, <1>6, <2>1, <2>2 DEF Fetch, TypeOK, ConnType
<1>7. ASSUME NEW c \in Conns, NEW s \in Sources, RtcJoin(c, s) PROVE TypeOK'
  <2>1. pool' \in [Kinds -> Pooled]
    BY <1>7 DEF RtcJoin, TypeOK, Pooled, Kinds
  <2>2. conn' \in [Conns -> ConnType]
    BY <1>1, <1>7 DEF RtcJoin, ConnType, Pooled, Kinds
  <2> QED BY <1>2, <1>7, <2>1, <2>2 DEF RtcJoin, TypeOK, ConnType
<1>8. ASSUME NEW c \in Conns, NEW r \in Pooled, NEW t \in Pooled, RtmpAcquire(c, r, t) PROVE TypeOK'
  <2>1. pool' \in [Kinds -> Pooled]
    BY <1>8 DEF RtmpAcquire, TypeOK
  <2>2. CASE Refused(c)
    <3>1. conn' \in [Conns -> ConnType]
      BY <1>1, <2>2, ConnStep DEF Refused
    <3> QED BY <1>2, <1>8, <2>1, <2>2, <3>1 DEF RtmpAcquire, Refused, TypeOK, ConnType
  <2>3. CASE ~Refused(c)
    <3>1. /\ r \in Sources /\ Goes(c, "hub")
          /\ owner' = [owner EXCEPT ![<<"live", conn[c].src>>] = c]
          /\ bridge' = [bridge EXCEPT ![<<"live", conn[c].src>>] =
                          IF "rtc_from_rtmp" \in conf THEN {<<"rtc", r>>} ELSE {}]
          /\ UNCHANGED <<conf, warm>>
      BY <1>3, <1>8, <2>3 DEF RtmpAcquire, Kinds
    <3>2. conn' \in [Conns -> ConnType]
      BY <1>1, <1>4, <3>1, ConnStep
    <3>3. <<"rtc", r>> \in Objects
      BY <3>1 DEF Objects, Kinds
    <3>4. owner' \in [Objects -> Conns \cup {None}]
      BY <3>1 DEF TypeOK
    <3>5. bridge' \in [Objects -> SUBSET Objects]
      BY <3>1, <3>3 DEF TypeOK
    <3> QED BY <1>2, <2>1, <3>1, <3>2, <3>4, <3>5 DEF TypeOK, ConnType
  <2> QED BY <2>2, <2>3
<1>9. ASSUME NEW c \in Conns, NEW l \in Pooled, NEW r \in Pooled, SrtAcquire(c, l, r) PROVE TypeOK'
  <2>1. pool' \in [Kinds -> Pooled]
    BY <1>9 DEF SrtAcquire, TypeOK
  <2>2. CASE Refused(c)
    <3>1. conn' \in [Conns -> ConnType]
      BY <1>1, <2>2, ConnStep DEF Refused
    <3> QED BY <1>2, <1>9, <2>1, <2>2, <3>1 DEF SrtAcquire, Refused, TypeOK, ConnType
  <2>3. CASE ~Refused(c)
    <3> DEFINE to == IF "srt_to_rtmp" \notin conf THEN {}
                     ELSE {<<"live", l>>} \cup
                          (IF "rtc_from_rtmp" \in conf THEN {<<"rtc", r>>} ELSE {})
    <3>1. /\ r \in Sources /\ l \in Sources /\ Goes(c, IF to = {} THEN "publishing" ELSE "hub")
          /\ owner' = [o \in Objects |->
               IF o = <<"srt", conn[c].src>> \/ (o \in to /\ o[1] = "live") THEN c ELSE owner[o]]
          /\ bridge' = [bridge EXCEPT ![<<"srt", conn[c].src>>] = to]
          /\ UNCHANGED <<conf, warm>>
      BY <1>3, <1>9, <2>3 DEF SrtAcquire, Kinds
    <3>2. conn' \in [Conns -> ConnType]
      BY <1>1, <1>4, <3>1, ConnStep
    <3>3. to \subseteq Objects
      BY <3>1 DEF Objects, Kinds
    <3> HIDE DEF to
    <3>4. owner' \in [Objects -> Conns \cup {None}]
      BY <3>1 DEF TypeOK
    <3>5. bridge' \in [Objects -> SUBSET Objects]
      BY <3>1, <3>3 DEF TypeOK
    <3> QED BY <1>2, <2>1, <3>1, <3>2, <3>4, <3>5 DEF TypeOK, ConnType
  <2> QED BY <2>2, <2>3
<1>10. ASSUME NEW c \in Conns, NEW r \in Sources, NEW t \in Pooled, RtcUndone(c, r, t) PROVE TypeOK'
  <2>1. pool' \in [Kinds -> Pooled]
    BY <1>10 DEF RtcUndone, TypeOK, Pooled
  <2>2. warm' \in [Kinds -> BOOLEAN]
    BY <1>10 DEF RtcUndone, TypeOK
  <2> QED BY <1>2, <1>10, <2>1, <2>2 DEF RtcUndone, TypeOK
<1>11. ASSUME NEW c \in Conns, NEW r \in Sources, NEW t \in Sources, NEW l \in Pooled,
              RtcCreate(c, r, t, l)
       PROVE  TypeOK'
  <2>1. pool' \in [Kinds -> Pooled]
    BY <1>11 DEF RtcCreate, TypeOK, Pooled, Kinds
  <2>2. owner' \in [Objects -> Conns \cup {None}]
    BY <1>11 DEF RtcCreate, TypeOK
  <2>3. bridge' \in [Objects -> SUBSET Objects]
    <3>1. CASE "rtc_to_rtmp" \in conf
      <4>1. {<<"live", l>>} \subseteq Objects
        BY <1>3, <1>11, <3>1 DEF RtcCreate, Objects, Kinds
      <4>2. bridge' = [bridge EXCEPT ![<<"rtc", r>>] = {<<"live", l>>}]
        BY <1>11, <3>1 DEF RtcCreate
      <4>3. bridge \in [Objects -> SUBSET Objects]
        BY DEF TypeOK
      <4> QED BY <4>1, <4>2, <4>3
    <3>2. CASE "rtc_to_rtmp" \notin conf
      <4>1. bridge' = bridge
        BY <1>11, <3>2 DEF RtcCreate
      <4> QED BY <4>1 DEF TypeOK
    <3> QED BY <3>1, <3>2
  <2>4. conn' \in [Conns -> ConnType]
    BY <1>1, <1>4, <1>11 DEF RtcCreate, ConnType, Pooled, Kinds
  <2> QED BY <1>2, <1>11, <2>1, <2>2, <2>3, <2>4 DEF RtcCreate, TypeOK, ConnType
<1>12. ASSUME NEW c \in Conns, GivesUp(c) \/ Play(c) \/ StopsPlaying(c) PROVE TypeOK'
  <2>1. Quits(c) \/ Goes(c, "playing")
    BY <1>12 DEF GivesUp, Play, StopsPlaying
  <2>2. conn' \in [Conns -> ConnType]
    BY <1>1, <1>4, <2>1, ConnStep
  <2>3. warm' \in [Kinds -> BOOLEAN]
    BY <1>12 DEF GivesUp, Play, StopsPlaying, TypeOK
  <2> QED BY <1>2, <1>12, <2>2, <2>3 DEF GivesUp, Play, StopsPlaying, TypeOK, ConnType
<1>13. ASSUME NEW c \in Conns,
              RtcStart(c) \/ HubPublished(c) \/ HubFails(c) \/ ReleaseLive(c) \/ ReleaseBridged(c) \/ HubStopped(c)
       PROVE  TypeOK'
  <2>1. Quits(c) \/ \E at \in {"publishing", "hub", "stopping", "failing", "halfway", "unmounting"} : Goes(c, at)
    <3>1. CASE HubFails(c)
      <4>1. conn[c].kind \in {"live", "rtc", "srt"}
        BY <3>1, StreamAssumption DEF HubFails, Kinds
      <4> QED BY <3>1, <4>1 DEF HubFails
    <3>2. CASE ~HubFails(c)
      BY <1>13, <3>2 DEF RtcStart, HubPublished, ReleaseLive, ReleaseBridged, HubStopped
    <3> QED BY <3>1, <3>2
  <2>2. conn' \in [Conns -> ConnType]
    BY <1>1, <1>4, <2>1, ConnStep
  <2>3. owner' \in [Objects -> Conns \cup {None}]
    BY <1>13 DEF RtcStart, HubPublished, HubFails, ReleaseLive, ReleaseBridged, HubStopped, TypeOK
  <2> QED BY <1>2, <1>13, <2>2, <2>3
      DEF RtcStart, HubPublished, HubFails, ReleaseLive, ReleaseBridged, HubStopped, TypeOK, ConnType
<1>14. ASSUME NEW c \in Conns, ReleaseAlone(c) \/ Unmounted(c) \/ FailedHubStopped(c) PROVE TypeOK'
  <2>1. Quits(c) /\ UNCHANGED <<conf, pool>> /\ bridge' = [bridge EXCEPT ![Own(c)] = {}]
        /\ \E os : Dies(os)
    BY <1>14 DEF ReleaseAlone, Unmounted, FailedHubStopped, Freed
  <2>2. conn' \in [Conns -> ConnType] /\ warm' \in [Kinds -> BOOLEAN]
    BY <1>1, <1>5, <2>1, ConnStep
  <2>3. owner' \in [Objects -> Conns \cup {None}]
    BY <1>14 DEF ReleaseAlone, Unmounted, FailedHubStopped, TypeOK
  <2>4. bridge' \in [Objects -> SUBSET Objects]
    BY <2>1 DEF TypeOK
  <2> QED BY <1>2, <2>1, <2>2, <2>3, <2>4 DEF TypeOK, ConnType
<1>15. ASSUME NEW k \in Kinds, Cools(k) \/ TimerCleans(k) PROVE TypeOK'
  BY <1>2, <1>15 DEF Cools, TimerCleans, TypeOK, Pooled
<1>16. CASE UNCHANGED vars
  BY <1>2, <1>16 DEF vars, TypeOK
<1> QED
  BY <1>6, <1>7, <1>8, <1>9, <1>10, <1>11, <1>12, <1>13, <1>14, <1>15, <1>16 DEF Next
-----------------------------------------------------------------------------
(* The steps.                                                              *)

LEMMA InitIInv ==
  ASSUME Init
  PROVE  IInv
<1>1. TypeOK
  BY StreamAssumption DEF Init, TypeOK, Idle, Pooled
<1>2. \A c \in Conns : conn[c] = Idle /\ conn[c].at = "idle" /\ ~Active(c)
  BY DEF Init, Idle, Active, Publishing, Ending
<1>3. \A p \in Objects : bridge[p] = {} /\ owner[p] = None
  BY DEF Init
<1>4. \A c \in Conns : conn[c].at \notin Publishing \cup Ending
  BY <1>2 DEF Publishing, Ending
<1>5. \A c \in Conns : Claims(c)
  BY <1>4 DEF Claims, Publishing, Ending
<1>6. \A p \in Objects : BridgeOK(p)
  BY <1>3 DEF BridgeOK
<1> QED
  BY <1>1, <1>2, <1>3, <1>4, <1>5, <1>6
  DEF IInv, ConnOK, Exclusive, LiveFeeds, Alone, BusyPooled, BusyHeld, Single

\* A source behind a bridge is the one its manager has.
LEMMA Behind ==
  ASSUME IInv, NEW p \in Objects, NEW o \in bridge[p]
  PROVE  o[1] \in Kinds /\ pool[o[1]] = o[2] /\ pool[o[1]] # None
<1>1. o \in Objects
  BY DEF IInv, TypeOK
<1>2. o \in {<<"live", pool["live"]>>, <<"rtc", pool["rtc"]>>}
  BY DEF IInv, BridgeOK
<1> QED
  BY <1>1, <1>2, StreamAssumption DEF Objects

\* A client without claims moves, and the managers get sources they had not.
LEMMA CalmGrows ==
  ASSUME IInv, TypeOK', Remembers, NEW c \in Conns, ~Active(c), ~Active(c)', ConnOK(c)',
         conf' = conf, owner' = owner, bridge' = bridge,
         \A d \in Conns \ {c} : conn'[d] = conn[d],
         \A k \in Kinds : pool'[k] = pool[k] \/ pool[k] = None
  PROVE  IInv'
<1>1. \A d \in Conns \ {c} : ConnOK(d)'
  BY StreamAssumption DEF IInv, ConnOK
<1>2. \A p \in Objects : \A o \in bridge[p] : pool'[o[1]] = pool[o[1]]
  BY Behind
<1>3. ASSUME NEW o \in Objects, owner[o] # None PROVE pool'[o[1]] = pool[o[1]]
  BY <1>3, Pairs, StreamAssumption DEF IInv, BusyPooled
<1> QED
  BY <1>1, <1>2, <1>3, Calm

LEMMA FetchStep ==
  ASSUME IInv, TypeOK', Remembers, NEW c \in Conns, NEW k \in Kinds, NEW s \in Sources,
         Fetch(c, k, s) \/ RtcJoin(c, s)
  PROVE  IInv'
<1>1. TypeOK /\ ~Active(c)
  BY DEF IInv, Fetch, RtcJoin, Active, Publishing, Ending
<1>2. PICK at \in {"fetched", "joining"}, j \in Kinds :
        /\ Fetches(j, s) /\ (at = "fetched" => j # "rtc")
        /\ pool' = [pool EXCEPT ![j] = s]
        /\ conn' = [conn EXCEPT ![c] = [at |-> at, kind |-> j, src |-> s]]
        /\ UNCHANGED <<conf, owner, bridge>>
  BY DEF Fetch, RtcJoin, Kinds
<1>3. \A i \in Kinds : pool'[i] = pool[i] \/ pool[i] = None
  BY <1>1, <1>2 DEF Fetches, TypeOK
<1>4. conn'[c] = [at |-> at, kind |-> j, src |-> s] /\ pool'[j] = s
  BY <1>1, <1>2 DEF TypeOK
<1>5. ConnOK(c)' /\ ~Active(c)'
  BY <1>2, <1>4 DEF ConnOK, Active, Publishing, Ending
<1>6. \A d \in Conns \ {c} : conn'[d] = conn[d]
  BY <1>1, <1>2 DEF TypeOK
<1> QED
  BY <1>1, <1>2, <1>3, <1>5, <1>6, CalmGrows

LEMMA IdleStep ==
  ASSUME IInv, TypeOK', Remembers, NEW c \in Conns, GivesUp(c) \/ Play(c) \/ StopsPlaying(c)
  PROVE  IInv'
<1>1. TypeOK /\ ConnOK(c) /\ ~Active(c) /\ conn[c].at # "idle"
  BY DEF IInv, GivesUp, Play, StopsPlaying, Active, Publishing, Ending
<1>2. UNCHANGED <<conf, pool, owner, bridge>>
  BY DEF GivesUp, Play, StopsPlaying
<1>3. \A d \in Conns \ {c} : conn'[d] = conn[d]
  BY <1>1 DEF GivesUp, Play, StopsPlaying, Goes, Quits, TypeOK
<1>4. conn'[c] = Idle \/ conn'[c] = [conn[c] EXCEPT !.at = "playing"]
  BY <1>1 DEF GivesUp, Play, StopsPlaying, Goes, Quits, TypeOK
<1>5. ~Active(c)' /\ ConnOK(c)'
  <2>1. CASE conn'[c] = Idle
    BY <2>1 DEF ConnOK, Active, Idle, Publishing, Ending
  <2>2. CASE conn'[c] = [conn[c] EXCEPT !.at = "playing"]
    <3>1. conn'[c].at = "playing" /\ conn'[c].kind = conn[c].kind /\ conn'[c].src = conn[c].src
      BY <1>1, <2>2 DEF TypeOK
    <3> QED BY <1>1, <1>2, <3>1 DEF ConnOK, Active, Idle, Publishing, Ending
  <2> QED BY <1>4, <2>1, <2>2
<1> QED
  BY <1>1, <1>2, <1>3, <1>5, CalmGrows

LEMMA UndoneStep ==
  ASSUME IInv, TypeOK', Remembers, NEW c \in Conns, NEW r \in Sources, NEW t \in Pooled, RtcUndone(c, r, t)
  PROVE  IInv'
<1>1. TypeOK /\ ConnOK(c) /\ ~Active(c) /\ conn[c].at = "idle"
  BY DEF IInv, RtcUndone, RtcMayCreate, Active, Publishing, Ending
<1>2. UNCHANGED <<conf, owner, bridge, conn>> /\ pool' = [pool EXCEPT !["rtc"] = r, !["srt"] = t]
      /\ (r = pool["rtc"] \/ pool["rtc"] = None) /\ (t = pool["srt"] \/ pool["srt"] = None)
  BY DEF RtcUndone, RtcMayCreate, Fetches
<1>3. \A i \in Kinds : pool'[i] = pool[i] \/ pool[i] = None
  BY <1>1, <1>2 DEF TypeOK, Kinds
<1>4. ~Active(c)' /\ ConnOK(c)'
  BY <1>1, <1>2 DEF ConnOK, Active
<1> QED
  BY <1>1, <1>2, <1>3, <1>4, CalmGrows

LEMMA TimerStep ==
  ASSUME IInv, Sound', TypeOK', Remembers, NEW k \in Kinds, Cools(k) \/ TimerCleans(k)
  PROVE  IInv'
<1>1. TypeOK /\ UNCHANGED <<conf, owner, bridge, conn>>
  BY DEF IInv, Cools, TimerCleans
<1>2. CASE Cools(k)
  <2>1. pool' = pool
    BY <1>2 DEF Cools
  <2>2. \A d \in Conns : ConnOK(d)'
    BY <1>1, <2>1 DEF IInv, ConnOK
  <2> QED BY <1>1, <2>1, <2>2, Calm
<1>3. CASE TimerCleans(k)
  <2>1. pool[k] # None /\ ~Referenced(Obj(k)) /\ pool' = [pool EXCEPT ![k] = None]
    BY <1>1, <1>3, Excluded DEF TimerCleans, Sound, Never, Mishaps, Obj
  <2>2. \A d \in Conns : Own(d) # Obj(k)
    BY <2>1 DEF Referenced
  <2>3. \A d \in Conns : ConnOK(d)'
    <3> SUFFICES ASSUME NEW d \in Conns, conn[d] # Idle PROVE ConnOK(d)'
      BY <1>1 DEF ConnOK
    <3>1. ConnOK(d) /\ conn[d].kind \in Kinds /\ pool[conn[d].kind] = conn[d].src
      BY DEF IInv, ConnOK
    <3>2. conn[d].kind # k
      BY <2>2, <3>1 DEF Own, Obj
    <3>3. pool'[conn[d].kind] = pool[conn[d].kind]
      BY <1>1, <2>1, <3>1, <3>2 DEF TypeOK
    <3> QED BY <1>1, <3>1, <3>3 DEF ConnOK
  <2>4. ASSUME NEW p \in Objects, NEW o \in bridge[p] PROVE pool'[o[1]] = pool[o[1]]
    <3>1. o \in Objects /\ o[1] \in Kinds /\ pool[o[1]] = o[2]
      BY <1>1, <2>4, Behind DEF TypeOK
    <3>2. (\E c \in Conns : Own(c) = p) \/ owner[p] # None
      BY <2>4 DEF IInv, BridgeOK
    <3>3. Held(p)
      BY <3>2 DEF Held, IInv, BusyPooled
    <3>4. o # Obj(k)
      BY <2>1, <2>4, <3>3 DEF Referenced
    <3>5. o[1] # k
      BY <3>1, <3>4, Pairs DEF Obj
    <3> QED BY <1>1, <2>1, <3>1, <3>5 DEF TypeOK
  <2>5. ASSUME NEW o \in Objects, owner[o] # None PROVE pool'[o[1]] = pool[o[1]]
    <3>1. pool[o[1]] = o[2] /\ o # Obj(k) /\ o = <<o[1], o[2]>> /\ o[1] \in Kinds
      BY <1>3, <2>5, Pairs DEF IInv, BusyPooled, TimerCleans, Obj
    <3>2. o[1] # k
      BY <3>1 DEF Obj
    <3> QED BY <1>1, <2>1, <3>1, <3>2 DEF TypeOK
  <2> QED BY <1>1, <2>3, <2>4, <2>5, Calm
<1> QED
  BY <1>2, <1>3

\* Nothing is claimed: the records of all but the client stay good while the
\* managers get sources they had not.
LEMMA OthersOK ==
  ASSUME IInv, NEW c \in Conns, \A d \in Conns \ {c} : conn'[d] = conn[d],
         \A k \in Kinds : pool'[k] = pool[k] \/ pool[k] = None
  PROVE  \A d \in Conns \ {c} : ConnOK(d)'
BY StreamAssumption DEF IInv, ConnOK

LEMMA RtmpStep ==
  ASSUME IInv, Sound', TypeOK', Remembers, NEW c \in Conns, NEW r \in Pooled, NEW t \in Pooled,
         RtmpAcquire(c, r, t)
  PROVE  IInv'
<1> DEFINE l == conn[c].src
<1>1. /\ TypeOK /\ ConnOK(c) /\ ~Active(c) /\ conn[c].at = "fetched" /\ conn[c].kind = "live"
      /\ UNCHANGED conf
  BY DEF IInv, RtmpAcquire, Active, Publishing, Ending
<1>2. l \in Sources /\ pool["live"] = l /\ l # None
  BY <1>1, StreamAssumption DEF ConnOK, Idle
<1>3. pool' = [pool EXCEPT !["rtc"] = r, !["srt"] = t]
      /\ (r = pool["rtc"] \/ pool["rtc"] = None) /\ (t = pool["srt"] \/ pool["srt"] = None)
  BY DEF RtmpAcquire, Fetches
<1>4. /\ \A i \in Kinds : pool'[i] = pool[i] \/ pool[i] = None
      /\ pool'["live"] = l /\ pool'["rtc"] = r /\ pool'["srt"] = t
  BY <1>1, <1>2, <1>3 DEF TypeOK, Kinds
<1>5. CASE Refused(c)
  <2>1. UNCHANGED <<owner, bridge>> /\ conn' = [conn EXCEPT ![c] = Idle]
    BY <1>5 DEF Refused, Quits
  <2>2. conn'[c] = Idle /\ \A d \in Conns \ {c} : conn'[d] = conn[d]
    BY <1>1, <2>1 DEF TypeOK
  <2>3. ~Active(c)' /\ ConnOK(c)'
    BY <2>2 DEF Active, ConnOK, Idle, Publishing, Ending
  <2> QED BY <1>1, <1>4, <2>1, <2>2, <2>3, CalmGrows
<1>6. CASE ~Refused(c)
  <2>0. ~BridgeWaits
    <3>1. Happens("overtaken", BridgeWaits)
      BY <1>6 DEF RtmpAcquire
    <3> QED BY <1>1, <3>1, Excluded DEF Sound, Never, Mishaps
  <2> DEFINE to == IF "rtc_from_rtmp" \in conf THEN {<<"rtc", r>>} ELSE {}
  <2>1. /\ CanPublish("live", l) /\ Fetches("rtc", r) /\ CanPublish("rtc", r)
        /\ Fetches("srt", t) /\ CanPublish("srt", t)
        /\ owner' = [owner EXCEPT ![<<"live", l>>] = c]
        /\ bridge' = [bridge EXCEPT ![<<"live", l>>] = to]
        /\ conn' = [conn EXCEPT ![c].at = "hub"]
    BY <1>6 DEF RtmpAcquire, Goes
  <2>2. \A k \in Kinds : pool[k] # None => owner[Obj(k)] = None
    BY <1>2, <1>3, <2>1 DEF CanPublish, Fetches, Obj, Kinds
  <2>3. \A o \in Objects : owner[o] = None /\ bridge[o] = {}
    BY <1>1, <2>0, <2>2, Free
  <2>4. Own(c) = <<"live", l>> /\ Own(c)' = <<"live", l>> /\ <<"live", l>> \in Objects
    BY <1>1, <1>2, <2>1 DEF Own, TypeOK, Objects, Kinds
  <2>5. conn'[c].at = "hub" /\ conn'[c].kind = "live" /\ conn'[c].src = l
        /\ \A d \in Conns \ {c} : conn'[d] = conn[d]
    BY <1>1, <2>1 DEF TypeOK
  <2>6. \A d \in Conns : ConnOK(d)'
    <3>1. ConnOK(c)'
      BY <1>2, <1>4, <2>5 DEF ConnOK, Kinds
    <3> QED BY <1>4, <2>5, <3>1, OthersOK
  <2>7. \A o \in Objects : owner'[o] = IF o = <<"live", l>> THEN c ELSE None
    BY <1>1, <2>1, <2>3, <2>4 DEF TypeOK
  <2>8. \A p \in Objects : bridge'[p] = IF p = <<"live", l>> THEN to ELSE {}
    BY <1>1, <2>1, <2>3, <2>4 DEF TypeOK
  <2>9. /\ Reach(c)' = {<<"live", l>>} \cup to
        /\ LiveOf(c)' = {<<"live", l>>}
    BY <2>4, <2>8 DEF Reach, LiveOf
  <2>10. Active(c)' /\ Claims(c)'
    BY <2>4, <2>5, <2>7, <2>9 DEF Claims, Active, Publishing, Ending
  <2>11. LiveFeeds(c)'
    BY <1>1, <1>4, <2>4, <2>8 DEF LiveFeeds
  <2>12. ASSUME NEW p \in Objects PROVE BridgeOK(p)'
    <3>1. CASE p = <<"live", l>>
      <4>1. bridge'[p] = to /\ p[1] = "live" /\ Own(c)' = p
        BY <2>4, <2>8, <3>1
      <4>2. to \subseteq {<<"rtc", pool'["rtc"]>>} /\ (to # {} => "rtc_from_rtmp" \in conf')
        BY <1>1, <1>4
      <4> QED BY <2>10, <4>1, <4>2 DEF BridgeOK
    <3>2. CASE p # <<"live", l>>
      BY <2>8, <3>2 DEF BridgeOK
    <3> QED BY <3>1, <3>2
  <2> QED BY <1>1, <2>0, <2>2, <2>4, <2>5, <2>6, <2>7, <2>8, <2>9, <2>10, <2>11, <2>12, Claiming
<1> QED
  BY <1>5, <1>6

LEMMA SrtStep ==
  ASSUME IInv, Sound', TypeOK', Remembers, NEW c \in Conns, NEW l \in Pooled, NEW r \in Pooled,
         SrtAcquire(c, l, r)
  PROVE  IInv'
<1> DEFINE t == conn[c].src
<1>1. /\ TypeOK /\ ConnOK(c) /\ ~Active(c) /\ conn[c].at = "fetched" /\ conn[c].kind = "srt"
      /\ UNCHANGED conf
  BY DEF IInv, SrtAcquire, Active, Publishing, Ending
<1>2. t \in Sources /\ pool["srt"] = t /\ t # None
  BY <1>1, StreamAssumption DEF ConnOK, Idle
<1>3. pool' = [pool EXCEPT !["live"] = l, !["rtc"] = r]
      /\ (l = pool["live"] \/ pool["live"] = None) /\ (r = pool["rtc"] \/ pool["rtc"] = None)
  BY DEF SrtAcquire, Fetches
<1>4. /\ \A i \in Kinds : pool'[i] = pool[i] \/ pool[i] = None
      /\ pool'["live"] = l /\ pool'["rtc"] = r /\ pool'["srt"] = t
  BY <1>1, <1>2, <1>3 DEF TypeOK, Kinds
<1>5. CASE Refused(c)
  <2>1. UNCHANGED <<owner, bridge>> /\ conn' = [conn EXCEPT ![c] = Idle]
    BY <1>5 DEF Refused, Quits
  <2>2. conn'[c] = Idle /\ \A d \in Conns \ {c} : conn'[d] = conn[d]
    BY <1>1, <2>1 DEF TypeOK
  <2>3. ~Active(c)' /\ ConnOK(c)'
    BY <2>2 DEF Active, ConnOK, Idle, Publishing, Ending
  <2> QED BY <1>1, <1>4, <2>1, <2>2, <2>3, CalmGrows
<1>6. CASE ~Refused(c)
  <2>0. ~BridgeWaits
    <3>1. Happens("overtaken", BridgeWaits)
      BY <1>6 DEF SrtAcquire
    <3> QED BY <1>1, <3>1, Excluded DEF Sound, Never, Mishaps
  <2> DEFINE to == IF "srt_to_rtmp" \notin conf THEN {}
                   ELSE {<<"live", l>>} \cup
                        (IF "rtc_from_rtmp" \in conf THEN {<<"rtc", r>>} ELSE {})
  <2> DEFINE at == IF to = {} THEN "publishing" ELSE "hub"
  <2>1. /\ CanPublish("srt", t) /\ (pool["live"] # None => CanPublish("live", pool["live"]))
        /\ Fetches("live", l) /\ Fetches("rtc", r) /\ CanPublish("rtc", r)
        /\ owner' = [o \in Objects |->
              IF o = <<"srt", t>> \/ (o \in to /\ o[1] = "live") THEN c ELSE owner[o]]
        /\ bridge' = [bridge EXCEPT ![<<"srt", t>>] = to]
        /\ conn' = [conn EXCEPT ![c].at = at]
    BY <1>6 DEF SrtAcquire, Goes
  <2>2. \A k \in Kinds : pool[k] # None => owner[Obj(k)] = None
    BY <1>2, <1>3, <2>1 DEF CanPublish, Fetches, Obj, Kinds
  <2>3. \A o \in Objects : owner[o] = None /\ bridge[o] = {}
    BY <1>1, <2>0, <2>2, Free
  <2>4. Own(c) = <<"srt", t>> /\ Own(c)' = <<"srt", t>> /\ <<"srt", t>> \in Objects
    BY <1>1, <1>2, <2>1 DEF Own, TypeOK, Objects, Kinds
  <2>5. conn'[c].at = at /\ conn'[c].kind = "srt" /\ conn'[c].src = t
        /\ \A d \in Conns \ {c} : conn'[d] = conn[d]
    BY <1>1, <2>1 DEF TypeOK
  <2>6. at \in {"hub", "publishing"}
    OBVIOUS
  <2>7. \A d \in Conns : ConnOK(d)'
    <3>1. ConnOK(c)'
      BY <1>2, <1>4, <2>5, <2>6 DEF ConnOK, Kinds
    <3> QED BY <1>4, <2>5, <3>1, OthersOK
  <2>8. \A o \in Objects : owner'[o] = IF o = <<"srt", t>> \/ (o \in to /\ o[1] = "live") THEN c ELSE None
    BY <2>1, <2>3
  <2>9. \A p \in Objects : bridge'[p] = IF p = <<"srt", t>> THEN to ELSE {}
    BY <1>1, <2>1, <2>3, <2>4 DEF TypeOK
  <2>10. to \subseteq Objects /\ Reach(c)' = {<<"srt", t>>} \cup to
         /\ LiveOf(c)' = {o \in to : o[1] = "live"}
    BY <2>1, <2>4, <2>9 DEF Reach, LiveOf, Fetches, Objects, Kinds
  <2>11. Active(c)' /\ Claims(c)'
    <3>1. conn'[c].at \in Publishing /\ owner'[Own(c)'] = c
      BY <2>4, <2>5, <2>6, <2>8 DEF Publishing
    <3>2. \A o \in LiveOf(c)' : owner'[o] = c
      BY <2>8, <2>10
    <3>3. conn'[c].at = "publishing" => \A o \in Reach(c)' : owner'[o] = c
      BY <2>4, <2>5, <2>8, <2>10
    <3>4. conn'[c].at \in {"hub", "publishing"}
      BY <2>5, <2>6
    <3> QED BY <3>1, <3>2, <3>3, <3>4 DEF Claims, Active, Ending
  <2>12. LiveFeeds(c)'
    BY <2>5 DEF LiveFeeds
  <2>13. ASSUME NEW p \in Objects PROVE BridgeOK(p)'
    <3>1. CASE p = <<"srt", t>>
      <4>1. bridge'[p] = to /\ p[1] = "srt" /\ Own(c)' = p
        BY <2>4, <2>9, <3>1
      <4>2. /\ to \subseteq {<<"live", pool'["live"]>>, <<"rtc", pool'["rtc"]>>}
            /\ "rtc_from_rtmp" \notin conf' => <<"rtc", pool'["rtc"]>> \notin to
            /\ to # {} => <<"live", pool'["live"]>> \in to
            /\ to # {} /\ "rtc_from_rtmp" \in conf' => <<"rtc", pool'["rtc"]>> \in to
        BY <1>1, <1>4
      <4> QED BY <2>11, <4>1, <4>2 DEF BridgeOK
    <3>2. CASE p # <<"srt", t>>
      BY <2>9, <3>2 DEF BridgeOK
    <3> QED BY <3>1, <3>2
  <2>14. \A o \in Objects : owner'[o] = None \/ (owner'[o] = c /\ o \in Reach(c)')
    BY <2>8, <2>10
  <2>15. \A p \in Objects : bridge'[p] = {} \/ p = Own(c)'
    BY <2>4, <2>9
  <2> QED BY <1>1, <2>0, <2>2, <2>5, <2>6, <2>7, <2>11, <2>12, <2>13, <2>14, <2>15, Claiming
<1> QED
  BY <1>5, <1>6

LEMMA CreateStep ==
  ASSUME IInv, Sound', TypeOK', Remembers, NEW c \in Conns, NEW r \in Sources, NEW t \in Sources,
         NEW l \in Pooled, RtcCreate(c, r, t, l)
  PROVE  IInv'
<1> DEFINE to == IF "rtc_to_rtmp" \in conf THEN {<<"live", l>>} ELSE {}
<1>1. /\ TypeOK /\ ~Active(c) /\ UNCHANGED conf
      /\ Fetches("rtc", r) /\ CanPublish("rtc", r) /\ Fetches("srt", t) /\ CanPublish("srt", t)
      /\ (pool["live"] # None => CanPublish("live", pool["live"]))
      /\ ("rtc_to_rtmp" \in conf => Fetches("live", l))
      /\ pool' = [live |-> l, rtc |-> r, srt |-> t]
      /\ owner' = [owner EXCEPT ![<<"rtc", r>>] = c]
      /\ conn' = [conn EXCEPT ![c] = [at |-> "created", kind |-> "rtc", src |-> r]]
  BY DEF IInv, RtcCreate, RtcMayCreate, LiveBusy, Active, Publishing, Ending
<1>2. (r = pool["rtc"] \/ pool["rtc"] = None) /\ (t = pool["srt"] \/ pool["srt"] = None)
      /\ (l = pool["live"] \/ pool["live"] = None)
  BY <1>1 DEF RtcCreate, Fetches
<1>3. /\ \A i \in Kinds : pool'[i] = pool[i] \/ pool[i] = None
      /\ pool'["live"] = l /\ pool'["rtc"] = r
  BY <1>1, <1>2 DEF Kinds
<1>4. \A k \in Kinds : pool[k] # None => owner[Obj(k)] = None
  BY <1>1, <1>2 DEF CanPublish, Obj, Kinds
<1>18. ~BridgeWaits
  BY <1>1, Excluded DEF RtcCreate, Sound, Never, Mishaps
<1>5. \A o \in Objects : owner[o] = None /\ bridge[o] = {}
  BY <1>1, <1>4, <1>18, Free
<1>6. <<"rtc", r>> \in Objects /\ ("rtc_to_rtmp" \in conf => <<"live", l>> \in Objects)
  BY <1>1 DEF Objects, Kinds, Fetches
<1>7. conn'[c].at = "created" /\ conn'[c].kind = "rtc" /\ conn'[c].src = r
      /\ \A d \in Conns \ {c} : conn'[d] = conn[d]
  BY <1>1 DEF TypeOK
<1>8. Own(c)' = <<"rtc", r>>
  BY <1>7 DEF Own
<1>9. \A d \in Conns : ConnOK(d)'
  <2>1. ConnOK(c)'
    BY <1>3, <1>7 DEF ConnOK, Kinds
  <2> QED BY <1>3, <1>7, <2>1, OthersOK
<1>10. \A o \in Objects : owner'[o] = IF o = <<"rtc", r>> THEN c ELSE None
  BY <1>1, <1>5, <1>6 DEF TypeOK
<1>11. \A p \in Objects : bridge'[p] = IF p = <<"rtc", r>> THEN to ELSE {}
  BY <1>1, <1>5, <1>6 DEF RtcCreate, TypeOK
<1>12. Reach(c)' = {<<"rtc", r>>} \cup to /\ LiveOf(c)' = to /\ to \subseteq Objects
  BY <1>6, <1>8, <1>11 DEF Reach, LiveOf
<1>13. Active(c)' /\ Claims(c)'
  <2>1. owner'[Own(c)'] = c
    BY <1>6, <1>8, <1>10
  <2>2. \A o \in LiveOf(c)' : owner'[o] = None
    BY <1>10, <1>12
  <2> QED BY <1>7, <2>1, <2>2 DEF Claims, Active, Publishing, Ending
<1>14. LiveFeeds(c)'
  BY <1>7 DEF LiveFeeds
<1>15. ASSUME NEW p \in Objects PROVE BridgeOK(p)'
  <2>1. CASE p = <<"rtc", r>>
    <3>1. bridge'[p] = to /\ p[1] = "rtc" /\ Own(c)' = p
      BY <1>8, <1>11, <2>1
    <3>2. to \subseteq {<<"live", pool'["live"]>>} /\ <<"rtc", pool'["rtc"]>> \notin to
      BY <1>3
    <3> QED BY <1>13, <3>1, <3>2 DEF BridgeOK
  <2>2. CASE p # <<"rtc", r>>
    BY <1>11, <2>2 DEF BridgeOK
  <2> QED BY <2>1, <2>2
<1>16. \A o \in Objects : owner'[o] = None \/ (owner'[o] = c /\ o \in Reach(c)')
  BY <1>10, <1>12
<1>17. \A p \in Objects : bridge'[p] = {} \/ p = Own(c)'
  BY <1>8, <1>11
<1> QED
  BY <1>1, <1>4, <1>7, <1>9, <1>13, <1>14, <1>15, <1>16, <1>17, <1>18, Claiming

\* What a publisher reaches is its own source, the live and the RTC source.
LEMMA Parts ==
  ASSUME IInv, NEW c \in Conns, Active(c)
  PROVE  /\ Own(c) \in Reach(c) /\ LiveOf(c) \subseteq Reach(c) /\ RtcBehind(c) \subseteq Reach(c)
         /\ Reach(c) = {Own(c)} \cup LiveOf(c) \cup RtcBehind(c)
         /\ LiveOf(c) \cap RtcBehind(c) = {}
         /\ conn[c].kind = "live" => Own(c) \notin RtcBehind(c) /\ Own(c) \in LiveOf(c)
         /\ conn[c].kind # "live" => Own(c) \notin LiveOf(c)
         /\ conn[c].kind # "live" /\ LiveOf(c) = {} => bridge[Own(c)] = {}
<1>1. /\ \A o \in LiveOf(c) : o \in Reach(c) /\ o[1] = "live"
      /\ \A o \in RtcBehind(c) : o \in Reach(c) /\ o[1] = "rtc"
      /\ Own(c)[1] = conn[c].kind /\ Own(c) \in Reach(c)
  BY DEF LiveOf, RtcBehind, Reach, Own
<1>2. \A o \in bridge[Own(c)] : o[1] \in {"live", "rtc"}
  BY Views DEF Obj
<1>3. Reach(c) = {Own(c)} \cup LiveOf(c) \cup RtcBehind(c)
  BY <1>1, <1>2 DEF LiveOf, RtcBehind, Reach
<1>4. conn[c].kind = "live" => Own(c) \in LiveOf(c)
  BY Views
<1>5. ASSUME conn[c].kind # "live", LiveOf(c) = {} PROVE bridge[Own(c)] = {}
  <2>1. bridge[Own(c)] \subseteq {Obj("rtc")} /\ conn[c].kind \in {"rtc", "srt"}
        /\ Obj("live") \notin bridge[Own(c)]
    BY <1>5, Views DEF Kinds
  <2>2. CASE conn[c].kind = "rtc"
    BY <2>1, <2>2, Views
  <2>3. CASE conn[c].kind = "srt"
    <3>1. BridgeOK(Own(c)) /\ Own(c)[1] = "srt"
      BY <1>1, <2>3, Views DEF IInv
    <3> QED BY <2>1, <3>1 DEF BridgeOK, Obj
  <2> QED BY <2>1, <2>2, <2>3
<1> QED
  BY <1>1, <1>3, <1>4, <1>5

LEMMA StartStep ==
  ASSUME IInv, TypeOK', Remembers, NEW c \in Conns, RtcStart(c)
  PROVE  IInv'
<1> DEFINE at == IF bridge[Own(c)] = {} THEN "publishing" ELSE "hub"
<1>1. /\ TypeOK /\ ConnOK(c) /\ Active(c) /\ conn[c].at = "created"
      /\ conn[c].at \in Publishing /\ conn[c].at \notin Ending
      /\ UNCHANGED <<conf, pool, bridge>> /\ conn' = [conn EXCEPT ![c].at = at]
  BY DEF IInv, RtcStart, Goes, Active, Publishing, Ending
<1>2. conn[c].kind = "rtc" /\ conn[c].at # "idle"
  BY <1>1 DEF ConnOK, Idle
<1>3. /\ conn'[c].at = at /\ conn'[c].kind = conn[c].kind /\ conn'[c].src = conn[c].src
      /\ \A d \in Conns \ {c} : conn'[d] = conn[d]
  BY <1>1 DEF TypeOK
<1>4. at \in {"hub", "publishing"}
  OBVIOUS
<1>5. Own(c)' = Own(c) /\ Reach(c)' = Reach(c) /\ LiveOf(c)' = LiveOf(c)
  BY <1>1, <1>3 DEF Own, Reach, LiveOf
<1>6. Reach(c) \subseteq Objects /\ \A o \in Objects : owner'[o] = IF o \in Reach(c) THEN c ELSE owner[o]
  BY <1>1, Views DEF RtcStart
<1>7. \A o \in Reach(c) : owner'[o] = c
  BY <1>6
<1>8. Active(c)' /\ Claims(c)' /\ Exclusive(c)'
  BY <1>1, <1>3, <1>4, <1>5, <1>7, Parts DEF Claims, Exclusive, Active, Publishing, Ending
<1> QED
  BY <1>1, <1>3, <1>4, <1>6, <1>8, Moves

LEMMA HubStep ==
  ASSUME IInv, TypeOK', Remembers, NEW c \in Conns, HubPublished(c)
  PROVE  IInv'
<1> DEFINE targets == UNION {bridge[o] : o \in Reach(c)}
<1>1. /\ TypeOK /\ ConnOK(c) /\ Active(c) /\ conn[c].at = "hub"
      /\ conn[c].at \in Publishing /\ conn[c].at \notin Ending /\ Claims(c) /\ Exclusive(c)
      /\ UNCHANGED <<conf, pool, bridge>> /\ conn' = [conn EXCEPT ![c].at = "publishing"]
  BY DEF IInv, HubPublished, Goes, Active, Publishing, Ending
<1>2. /\ conn'[c].at = "publishing" /\ conn'[c].kind = conn[c].kind /\ conn'[c].src = conn[c].src
      /\ \A d \in Conns \ {c} : conn'[d] = conn[d]
  BY <1>1 DEF TypeOK
<1>3. Own(c)' = Own(c) /\ Reach(c)' = Reach(c) /\ LiveOf(c)' = LiveOf(c)
  BY <1>1, <1>2 DEF Own, Reach, LiveOf
<1>4. ASSUME NEW o \in Reach(c), NEW q \in bridge[o] PROVE q \in Reach(c)
  <2>1. o \in Objects /\ BridgeOK(o) /\ Own(c) \in Objects /\ BridgeOK(Own(c))
        /\ Own(c)[1] = conn[c].kind /\ conn[c].kind \in Kinds /\ Own(c) = Obj(conn[c].kind)
        /\ bridge[Own(c)] \subseteq {Obj("live"), Obj("rtc")}
    BY <1>1, Views DEF IInv, Own
  <2>2. CASE o = Own(c)
    BY <1>4, <2>2 DEF Reach
  <2>3. CASE o \in bridge[Own(c)] /\ o = Obj("live")
    <3>1. o[1] = "live" /\ q = Obj("rtc") /\ "rtc_from_rtmp" \in conf
      BY <1>4, <2>1, <2>3 DEF BridgeOK, Obj
    <3>2. conn[c].kind # "live"
      BY <1>1, <2>1, <2>3, Views DEF Obj
    <3>3. CASE conn[c].kind = "rtc"
      BY <2>1, <3>1, <3>3 DEF Reach
    <3>4. CASE conn[c].kind = "srt"
      BY <2>1, <2>3, <3>1, <3>4 DEF BridgeOK, Reach, Obj
    <3> QED BY <2>1, <3>2, <3>3, <3>4 DEF Kinds
  <2>4. CASE o \in bridge[Own(c)] /\ o = Obj("rtc")
    <3>1. o[1] = "rtc" /\ q = Obj("live")
      BY <1>4, <2>1, <2>4 DEF BridgeOK, Obj
    <3>2. conn[c].kind # "rtc"
      BY <2>1, <2>4 DEF BridgeOK, Obj
    <3>3. CASE conn[c].kind = "live"
      BY <2>1, <3>1, <3>3 DEF Reach
    <3>4. CASE conn[c].kind = "srt"
      BY <2>1, <2>4, <3>1, <3>4 DEF BridgeOK, Reach, Obj
    <3> QED BY <2>1, <3>2, <3>3, <3>4 DEF Kinds
  <2> QED BY <1>4, <2>1, <2>2, <2>3, <2>4 DEF Reach
<1>5. targets \subseteq Reach(c) /\ bridge[Own(c)] \subseteq targets /\ Reach(c) \subseteq Objects
  BY <1>1, <1>4, Views, Parts
<1>6. \A o \in Objects : owner'[o] = IF o \in targets THEN c ELSE owner[o]
  BY DEF HubPublished
<1> HIDE DEF targets
<1>7. \A o \in Reach(c) : owner'[o] = c
  <2>1. owner[Own(c)] = c
    BY <1>1 DEF Claims
  <2> QED BY <1>5, <1>6, <2>1 DEF Reach
<1>8. Active(c)' /\ Claims(c)' /\ Exclusive(c)'
  BY <1>1, <1>2, <1>3, <1>7, Parts DEF Claims, Exclusive, Active, Publishing, Ending
<1>9. \A o \in Objects : owner'[o] = owner[o] \/ (o \in Reach(c) /\ owner'[o] = c)
  BY <1>5, <1>6
<1> QED
  BY <1>1, <1>2, <1>8, <1>9, Moves

\* An RTMP publisher releases, an RTC session keeps what it has.
LEMMA FailStep ==
  ASSUME IInv, TypeOK', Remembers, NEW c \in Conns, HubFails(c), conn[c].kind # "srt"
  PROVE  IInv'
<1>1. /\ TypeOK /\ ConnOK(c) /\ Active(c) /\ conn[c].at = "hub"
      /\ conn[c].at \in Publishing /\ conn[c].at \notin Ending /\ Claims(c) /\ Exclusive(c)
      /\ UNCHANGED <<conf, pool, bridge>>
  BY DEF IInv, HubFails, Active, Publishing, Ending
<1>2. conn[c].kind \in {"live", "rtc"}
  BY <1>1, Views DEF Kinds
<1>3. PICK mounted \in BOOLEAN, at \in {"stopping", "failing", "halfway"} :
        /\ \A o \in Objects : owner'[o] = IF mounted /\ o \in RtcBehind(c) THEN c ELSE owner[o]
        /\ conn' = [conn EXCEPT ![c].at = at]
        /\ at = "stopping" => mounted
        /\ IF at = "halfway" THEN conn[c].kind = "rtc" ELSE conn[c].kind = "live"
  BY <1>2 DEF HubFails, Goes
<1>4. /\ conn'[c].at = at /\ conn'[c].kind = conn[c].kind /\ conn'[c].src = conn[c].src
      /\ \A d \in Conns \ {c} : conn'[d] = conn[d]
  BY <1>1, <1>3 DEF TypeOK
<1>5. /\ Own(c)' = Own(c) /\ Reach(c)' = Reach(c) /\ LiveOf(c)' = LiveOf(c)
      /\ RtcBehind(c)' = RtcBehind(c)
  BY <1>1, <1>4 DEF Own, Reach, LiveOf, RtcBehind
<1>6. Reach(c) \subseteq Objects /\ RtcBehind(c) \subseteq Reach(c) /\ LiveOf(c) \subseteq Reach(c)
      /\ LiveOf(c) \cap RtcBehind(c) = {} /\ Own(c) \in Reach(c)
  BY <1>1, Views, Parts
<1>7. /\ owner'[Own(c)] = c
      /\ \A o \in LiveOf(c) : owner'[o] = c
      /\ \A o \in Reach(c) : owner'[o] \in {None, c}
      /\ mounted => \A o \in RtcBehind(c) : owner'[o] = c
  <2>1. owner[Own(c)] = c /\ \A o \in LiveOf(c) : owner[o] = c
    BY <1>1 DEF Claims
  <2>2. \A o \in Reach(c) : owner[o] \in {None, c}
    BY <1>1 DEF Exclusive
  <2> QED BY <1>3, <1>6, <2>1, <2>2
<1>8. Active(c)' /\ Claims(c)' /\ Exclusive(c)'
  <2>1. conn'[c].at \in {"stopping", "failing", "halfway"}
        /\ (conn'[c].at = "halfway" => conn'[c].kind = "rtc")
        /\ (conn'[c].at # "halfway" => conn'[c].kind = "live")
        /\ (conn'[c].at = "stopping" => mounted)
    BY <1>3, <1>4
  <2>2. Active(c)'
    BY <2>1 DEF Active, Publishing, Ending
  <2>3. Claims(c)'
    BY <1>5, <1>7, <2>1 DEF Claims, Publishing, Ending
  <2>4. Exclusive(c)'
    BY <1>5, <1>7 DEF Exclusive
  <2> QED BY <2>2, <2>3, <2>4
<1>9. \A o \in Objects : owner'[o] = owner[o] \/ (o \in Reach(c) /\ owner'[o] = c)
  BY <1>3, <1>6
<1>10. conn'[c].at \in {"created", "halfway"} => conn[c].kind = "rtc"
  BY <1>3, <1>4
<1> QED
  BY <1>1, <1>4, <1>8, <1>9, <1>10, Moves

\* An SRT publisher goes, and what it has claimed stays claimed.
LEMMA FailSrtStep ==
  ASSUME IInv, TypeOK', NEW c \in Conns, HubFails(c), conn[c].kind = "srt"
  PROVE  IInv'
<1>1. /\ TypeOK /\ Active(c) /\ conn[c].at = "hub" /\ conn[c].at \in Publishing
      /\ UNCHANGED <<conf, pool, bridge>> /\ conn' = [conn EXCEPT ![c] = Idle]
      /\ \A o \in Objects : owner'[o] = owner[o] \/ (o \in RtcBehind(c) /\ owner'[o] = c)
      /\ Happens("unreleased", TRUE)
  BY StreamAssumption DEF IInv, HubFails, Active, Publishing, Quits
<1>2. /\ \A d \in Conns \ {c} : conn'[d] = conn[d] /\ Own(d)' = Own(d) /\ Reach(d)' = Reach(d)
                               /\ (Active(d)' <=> Active(d))
      /\ conn'[c] = Idle /\ ~Active(c)' /\ conn'[c].at \notin Publishing
  BY <1>1 DEF Own, Reach, Active, TypeOK, Idle, Publishing, Ending
<1>3. \A d \in Conns \ {c} : Active(d) => conn[d].at \in Ending /\ conn[d].kind = "live"
  BY <1>1 DEF IInv, Single, Active, Alone, Publishing, Ending
<1>4. Own(c) \in Objects /\ Own(c)[1] = "srt" /\ owner[Own(c)] = c /\ c # None
      /\ \A o \in RtcBehind(c) : o \in Reach(c) /\ pool[o[1]] = o[2]
  <2>1. Own(c) \in Objects /\ Own(c)[1] = "srt" /\ c # None
    BY <1>1, Views, StreamAssumption DEF Own
  <2>2. owner[Own(c)] = c
    BY <1>1 DEF IInv, Claims
  <2>3. \A o \in RtcBehind(c) : o \in Reach(c) /\ o = Obj("rtc")
    BY <1>1, Views DEF RtcBehind, Reach
  <2> QED BY <2>1, <2>2, <2>3 DEF Obj
<1>5. ASSUME NEW d \in Conns PROVE Claims(d)' /\ Exclusive(d)'
  <2>1. CASE d # c /\ Active(d)
    <3>1. ASSUME NEW o \in Reach(d)
          PROVE  \/ owner'[o] = owner[o]
                 \/ conn[d].at = "unmounting" /\ conn[d].kind = "live" /\ o = Own(d) /\ owner'[o] # d
      <4>1. o \in Objects
        BY <2>1, <3>1, Views
      <4>2. CASE o \in RtcBehind(c) /\ owner'[o] = c
        BY <1>1, <1>3, <1>4, <2>1, <3>1, <4>2, Separate
      <4> QED BY <1>1, <4>1, <4>2
    <3>2. bridge'[Own(d)] \subseteq bridge[Own(d)] /\ conn'[d] = conn[d] /\ Claims(d) /\ Exclusive(d)
      BY <1>1, <1>2, <2>1 DEF IInv
    <3> QED BY <3>1, <3>2, OtherKeeps
  <2>2. CASE d = c \/ ~Active(d)
    <3>1. conn'[d].at \notin Publishing \cup Ending
      BY <1>2, <2>2 DEF Active
    <3>2. Claims(d)'
      BY <3>1 DEF Claims, Publishing, Ending
    <3> QED BY <3>1, <3>2 DEF Exclusive, Active
  <2> QED BY <2>1, <2>2
<1>6. \A d \in Conns : ConnOK(d)'
  BY <1>1, <1>2 DEF IInv, ConnOK
<1>7. ASSUME NEW p \in Objects PROVE BridgeOK(p)'
  <2>1. BridgeOK(p) /\ (owner[p] # None => owner'[p] # None)
    BY <1>1, <1>4 DEF IInv
  <2>2. bridge'[p] # {} =>
      (\E d \in Conns : Active(d)' /\ Own(d)' = p) \/ (p[1] = "srt" /\ owner'[p] # None)
    BY <1>1, <1>2, <1>4, <2>1 DEF BridgeOK
  <2> QED BY <1>1, <2>1, <2>2 DEF BridgeOK
<1>8. \A d \in Conns : LiveFeeds(d)' /\ Alone(d)'
  <2>1. ASSUME NEW d \in Conns \ {c} PROVE LiveFeeds(d)' /\ Alone(d)'
    BY <1>1, <1>2 DEF IInv, LiveFeeds, Alone
  <2>2. LiveFeeds(c)' /\ Alone(c)'
    BY <1>2 DEF LiveFeeds, Alone, Active
  <2> QED BY <2>1, <2>2
<1>9. BusyPooled' /\ Single'
  <2>1. BusyPooled'
    BY <1>1, <1>4 DEF IInv, BusyPooled
  <2>2. Single'
    BY <1>2 DEF IInv, Single
  <2> QED BY <2>1, <2>2
<1>10. ~Complete'
  BY <1>1 DEF Happens, Complete, Never, TypeOK, Mishaps
<1> QED
  BY <1>5, <1>6, <1>7, <1>8, <1>9, <1>10 DEF IInv

\* What all publishers that release something have in common.
LEMMA Releasing ==
  ASSUME IInv, NEW c \in Conns, Active(c)
  PROVE  /\ TypeOK /\ ConnOK(c) /\ Claims(c) /\ Exclusive(c) /\ c # None
         /\ Reach(c) \subseteq Objects /\ Own(c) \in Objects
         /\ \A o \in Reach(c) : conn[c].at # "unmounting" \/ o # Own(c) => owner[o] \in {None, c}
         /\ conn'[c].kind = conn[c].kind /\ conn'[c].src = conn[c].src /\ UNCHANGED bridge =>
              /\ Own(c)' = Own(c) /\ Reach(c)' = Reach(c)
              /\ LiveOf(c)' = LiveOf(c) /\ RtcBehind(c)' = RtcBehind(c)
<1>1. TypeOK /\ ConnOK(c) /\ Claims(c) /\ Exclusive(c)
  BY DEF IInv
<1>2. c # None /\ Reach(c) \subseteq Objects /\ Own(c) \in Objects
  BY Views, StreamAssumption
<1>3. \A o \in Reach(c) : conn[c].at # "unmounting" \/ o # Own(c) => owner[o] \in {None, c}
  BY <1>1 DEF Exclusive
<1> QED
  BY <1>1, <1>2, <1>3 DEF Own, Reach, LiveOf, RtcBehind

LEMMA ReleaseLiveStep ==
  ASSUME IInv, TypeOK', Remembers, NEW c \in Conns, ReleaseLive(c)
  PROVE  IInv'
<1>1. /\ Active(c) /\ conn[c].at = "publishing" /\ conn[c].kind = "live"
      /\ UNCHANGED <<conf, pool, owner, bridge>>
  BY DEF ReleaseLive, Active, Publishing
<1>2. \A o \in Reach(c) : owner[o] = c
  BY <1>1, Releasing DEF Claims
<1>3. conn' = [conn EXCEPT ![c].at = "stopping"]
  BY <1>1, <1>2, Parts, Releasing DEF ReleaseLive, Goes
<1>4. /\ conn'[c].at = "stopping" /\ conn'[c].kind = conn[c].kind /\ conn'[c].src = conn[c].src
      /\ \A d \in Conns \ {c} : conn'[d] = conn[d]
  BY <1>1, <1>3, Releasing DEF TypeOK
<1>5. /\ Own(c)' = Own(c) /\ Reach(c)' = Reach(c) /\ LiveOf(c)' = LiveOf(c) /\ RtcBehind(c)' = RtcBehind(c)
  BY <1>1, <1>4, Releasing
<1>6. LiveOf(c) \subseteq Reach(c) /\ RtcBehind(c) \subseteq Reach(c)
  BY <1>1, Parts
<1>7. Claims(c)' /\ Exclusive(c)' /\ Active(c)' /\ conn'[c].at \in Ending
  BY <1>1, <1>2, <1>4, <1>5, <1>6 DEF Claims, Exclusive, Active, Publishing, Ending
<1> QED
  BY <1>1, <1>4, <1>7, Moves

LEMMA ReleaseBridgedStep ==
  ASSUME IInv, TypeOK', Remembers, NEW c \in Conns, ReleaseBridged(c)
  PROVE  IInv'
<1> DEFINE at == IF conn[c].at = "halfway" THEN "failing" ELSE "stopping"
<1>1. /\ Active(c) /\ conn[c].at \in {"created", "halfway", "publishing"} /\ conn[c].kind # "live"
      /\ conn[c].at \in Publishing
      /\ UNCHANGED <<conf, pool, bridge>> /\ conn' = [conn EXCEPT ![c].at = at]
      /\ owner' = [owner EXCEPT ![Own(c)] = None]
      /\ \E o \in LiveOf(c) : owner[o] # None
  BY DEF ReleaseBridged, Active, Publishing, Goes
<1>2. conn[c].at # "created" /\ owner[Own(c)] = c /\ \A o \in LiveOf(c) : owner[o] = c
  BY <1>1, Releasing DEF Claims
<1>3. /\ conn'[c].at = at /\ conn'[c].kind = conn[c].kind /\ conn'[c].src = conn[c].src
      /\ \A d \in Conns \ {c} : conn'[d] = conn[d]
  BY <1>1, Releasing DEF TypeOK
<1>4. /\ Own(c)' = Own(c) /\ Reach(c)' = Reach(c) /\ LiveOf(c)' = LiveOf(c) /\ RtcBehind(c)' = RtcBehind(c)
  BY <1>1, <1>3, Releasing
<1>5. LiveOf(c) \subseteq Reach(c) /\ RtcBehind(c) \subseteq Reach(c) /\ Own(c) \notin LiveOf(c)
      /\ Own(c) \in Reach(c) /\ Reach(c) \subseteq Objects
  BY <1>1, Parts, Releasing
<1>6. \A o \in Objects : owner'[o] = IF o = Own(c) THEN None ELSE owner[o]
  BY <1>1, Releasing DEF TypeOK
<1>7. \A o \in Reach(c) : owner'[o] \in {None, c}
  BY <1>1, <1>5, <1>6, Releasing
<1>8. at \in {"failing", "stopping"}
  OBVIOUS
<1> HIDE DEF at
<1>9. Active(c)' /\ conn'[c].at \in Ending /\ Exclusive(c)'
  BY <1>3, <1>4, <1>7, <1>8 DEF Exclusive, Active, Ending
<1>10. Claims(c)'
  <2>1. conn'[c].at \in {"failing", "stopping"} /\ conn'[c].kind # "live"
    BY <1>1, <1>3, <1>8
  <2>2. owner'[Own(c)'] = None /\ \A o \in LiveOf(c)' : owner'[o] = c
    BY <1>2, <1>4, <1>5, <1>6
  <2> QED BY <2>1, <2>2 DEF Claims, Publishing
<1>11. conn'[c].at \notin {"created", "halfway"}
  BY <1>3, <1>8
<1>12. \A o \in Objects : owner'[o] = owner[o] \/ (o \in Reach(c) /\ owner[o] = c /\ owner'[o] = None)
  BY <1>2, <1>5, <1>6
<1> QED
  BY <1>1, <1>3, <1>9, <1>10, <1>11, <1>12, Moves

LEMMA HubStoppedStep ==
  ASSUME IInv, TypeOK', Remembers, NEW c \in Conns, HubStopped(c)
  PROVE  IInv'
<1>1. /\ Active(c) /\ conn[c].at = "stopping"
      /\ UNCHANGED <<conf, pool, bridge>> /\ conn' = [conn EXCEPT ![c].at = "unmounting"]
      /\ owner' = [o \in Objects |-> IF o \in LiveOf(c) THEN None ELSE owner[o]]
  BY DEF HubStopped, Active, Ending, Goes
<1>2. /\ conn'[c].at = "unmounting" /\ conn'[c].kind = conn[c].kind /\ conn'[c].src = conn[c].src
      /\ \A d \in Conns \ {c} : conn'[d] = conn[d]
  BY <1>1, Releasing DEF TypeOK
<1>3. /\ Own(c)' = Own(c) /\ Reach(c)' = Reach(c) /\ LiveOf(c)' = LiveOf(c) /\ RtcBehind(c)' = RtcBehind(c)
  BY <1>1, <1>2, Releasing
<1>4. /\ LiveOf(c) \subseteq Reach(c) /\ RtcBehind(c) \subseteq Reach(c) /\ LiveOf(c) \cap RtcBehind(c) = {}
      /\ conn[c].kind # "live" => Own(c) \notin LiveOf(c)
      /\ Own(c) \in Reach(c) /\ Reach(c) \subseteq Objects
  BY <1>1, Parts, Releasing
<1>5. \A o \in Objects : owner'[o] = IF o \in LiveOf(c) THEN None ELSE owner[o]
  BY <1>1
<1>6. \A o \in LiveOf(c) : owner[o] = c
  BY <1>1, Releasing DEF Claims
<1>7. \A o \in Reach(c) : owner'[o] \in {None, c}
  BY <1>1, <1>4, <1>5, Releasing
<1>8. Active(c)' /\ conn'[c].at \in Ending /\ Exclusive(c)'
  BY <1>2, <1>3, <1>7 DEF Exclusive, Active, Ending
<1>9. Claims(c)'
  <2>1. \A o \in LiveOf(c)' : owner'[o] # c
    BY <1>1, <1>3, <1>4, <1>5, Releasing
  <2>2. conn'[c].kind = "live" => \A o \in RtcBehind(c)' : owner'[o] = c
    <3>1. conn[c].kind = "live" => \A o \in RtcBehind(c) : owner[o] = c
      BY <1>1, Releasing DEF Claims
    <3> QED BY <1>2, <1>3, <1>4, <1>5, <3>1
  <2>3. conn'[c].kind # "live" => owner'[Own(c)'] = None
    <3>1. conn[c].kind # "live" => owner[Own(c)] = None
      BY <1>1, Releasing DEF Claims, Ending
    <3> QED BY <1>2, <1>3, <1>4, <1>5, <3>1
  <2> QED BY <1>2, <2>1, <2>2, <2>3 DEF Claims, Publishing
<1>10. \A o \in Objects : owner'[o] = owner[o] \/ (o \in Reach(c) /\ owner[o] = c /\ owner'[o] = None)
  BY <1>4, <1>5, <1>6
<1> QED
  BY <1>1, <1>2, <1>8, <1>9, <1>10, Moves

LEMMA ReleaseAloneStep ==
  ASSUME IInv, TypeOK', Remembers, NEW c \in Conns, ReleaseAlone(c)
  PROVE  IInv'
<1>1. /\ Active(c) /\ conn[c].at \in {"created", "halfway", "publishing"} /\ conn[c].kind # "live"
      /\ conn[c].at \in Publishing
      /\ UNCHANGED <<conf, pool>> /\ conn' = [conn EXCEPT ![c] = Idle]
      /\ bridge' = [bridge EXCEPT ![Own(c)] = {}]
      /\ owner' = [owner EXCEPT ![Own(c)] = None]
      /\ \A o \in LiveOf(c) : owner[o] = None
  BY DEF ReleaseAlone, Active, Publishing, Quits
<1>2. owner[Own(c)] = c
  BY <1>1, Releasing DEF Claims
<1>3. \A o \in Objects : owner'[o] = IF o = Own(c) THEN None ELSE owner[o]
  BY <1>1, Releasing DEF TypeOK
<1>4. RtcBehind(c) = {}
  <2>1. CASE conn[c].kind = "rtc"
    BY <1>1, <2>1, Views
  <2>2. CASE conn[c].kind = "srt"
    <3>1. conn[c].at = "publishing"
      BY <1>1, <2>2, Releasing DEF ConnOK, Idle
    <3>2. LiveOf(c) = {}
      BY <1>1, <3>1, Releasing DEF Claims
    <3> QED BY <1>1, <3>2, Parts DEF RtcBehind
  <2> QED BY <1>1, <2>1, <2>2, Views DEF Kinds
<1>5. Reach(c) \subseteq Objects /\ Reach(c) = {Own(c)} \cup LiveOf(c) /\ c # None
  BY <1>1, <1>4, Parts, Releasing
<1>6. \A o \in Reach(c) : owner'[o] # c
  BY <1>1, <1>3, <1>5
<1>7. \A o \in Objects : owner'[o] = owner[o] \/ (o \in Reach(c) /\ owner[o] = c /\ owner'[o] = None)
  BY <1>2, <1>3, <1>5
<1> QED
  BY <1>1, <1>6, <1>7, Ends

LEMMA UnmountedStep ==
  ASSUME IInv, TypeOK', Remembers, NEW c \in Conns, Unmounted(c) \/ FailedHubStopped(c)
  PROVE  IInv'
<1>1. /\ Active(c) /\ conn[c].at \in {"unmounting", "failing"}
      /\ UNCHANGED <<conf, pool>> /\ conn' = [conn EXCEPT ![c] = Idle]
      /\ bridge' = [bridge EXCEPT ![Own(c)] = {}]
  BY DEF Unmounted, FailedHubStopped, Freed, Active, Ending, Quits
<1>2. /\ Reach(c) = {Own(c)} \cup LiveOf(c) \cup RtcBehind(c) /\ LiveOf(c) \cap RtcBehind(c) = {}
      /\ conn[c].kind = "live" => Own(c) \in LiveOf(c) /\ Own(c) \notin RtcBehind(c)
      /\ conn[c].kind # "live" => owner[Own(c)] = None
      /\ Reach(c) \subseteq Objects /\ c # None
  BY <1>1, Parts, Releasing DEF Claims, Ending
<1>3. \A o \in RtcBehind(c) : owner[o] \in {None, c}
  <2>1. \A o \in RtcBehind(c) : o \in Reach(c) /\ (o = Own(c) => owner[o] = None)
    BY <1>2
  <2> QED BY <1>1, <2>1, Releasing
<1>4. CASE Unmounted(c)
  <2>1. \A o \in Objects : owner'[o] = IF o \in RtcBehind(c) THEN None ELSE owner[o]
    BY <1>4 DEF Unmounted
  <2>2. \A o \in LiveOf(c) : owner[o] # c
    BY <1>1, <1>4, Releasing DEF Claims, Unmounted
  <2>3. \A o \in Reach(c) : owner'[o] # c
    BY <1>2, <2>1, <2>2
  <2>4. \A o \in Objects : owner'[o] = owner[o] \/ (o \in Reach(c) /\ owner[o] = c /\ owner'[o] = None)
    BY <1>2, <1>3, <2>1
  <2> QED BY <1>1, <2>3, <2>4, Ends
<1>5. CASE FailedHubStopped(c)
  <2>1. \A o \in Objects : owner'[o] = IF o \in LiveOf(c) \cup RtcBehind(c) THEN None ELSE owner[o]
    BY <1>5 DEF FailedHubStopped
  <2>2. \A o \in LiveOf(c) : owner[o] = c
    BY <1>1, <1>5, Releasing DEF Claims, FailedHubStopped
  <2>3. \A o \in Reach(c) : owner'[o] # c
    BY <1>2, <2>1
  <2>4. \A o \in Objects : owner'[o] = owner[o] \/ (o \in Reach(c) /\ owner[o] = c /\ owner'[o] = None)
    BY <1>2, <1>3, <2>1, <2>2
  <2> QED BY <1>1, <2>3, <2>4, Ends
<1> QED
  BY <1>4, <1>5

LEMMA NextIInv ==
  ASSUME IInv, Sound', [Next]_vars
  PROVE  IInv'
<1>1. TypeOK' /\ Remembers
  BY TypeStep, MishapStep DEF IInv
<1>2. CASE UNCHANGED vars
  <2>1. UNCHANGED <<conf, pool, owner, bridge, conn>>
    BY <1>2 DEF vars
  <2>2. \A d \in Conns : ConnOK(d)'
    BY <2>1 DEF IInv, ConnOK
  <2> QED BY <1>1, <2>1, <2>2, Calm
<1>3. ASSUME NEW c \in Conns, NEW s \in Sources, (\E k \in Kinds : Fetch(c, k, s)) \/ RtcJoin(c, s)
      PROVE  IInv'
  BY <1>1, <1>3, FetchStep DEF Kinds
<1>4. ASSUME NEW c \in Conns, NEW r \in Pooled, NEW t \in Pooled, RtmpAcquire(c, r, t) PROVE IInv'
  BY <1>1, <1>4, RtmpStep
<1>5. ASSUME NEW c \in Conns, NEW l \in Pooled, NEW r \in Pooled, SrtAcquire(c, l, r) PROVE IInv'
  BY <1>1, <1>5, SrtStep
<1>6. ASSUME NEW c \in Conns, NEW r \in Sources, NEW t \in Pooled, RtcUndone(c, r, t) PROVE IInv'
  BY <1>1, <1>6, UndoneStep
<1>7. ASSUME NEW c \in Conns, NEW r \in Sources, NEW t \in Sources, NEW l \in Pooled, RtcCreate(c, r, t, l)
      PROVE  IInv'
  BY <1>1, <1>7, CreateStep
<1>8. ASSUME NEW c \in Conns, GivesUp(c) \/ Play(c) \/ StopsPlaying(c) PROVE IInv'
  BY <1>1, <1>8, IdleStep
<1>9. ASSUME NEW c \in Conns, RtcStart(c) PROVE IInv'
  BY <1>1, <1>9, StartStep
<1>10. ASSUME NEW c \in Conns, HubPublished(c) PROVE IInv'
  BY <1>1, <1>10, HubStep
<1>11. ASSUME NEW c \in Conns, HubFails(c) PROVE IInv'
  BY <1>1, <1>11, FailStep, FailSrtStep
<1>12. ASSUME NEW c \in Conns, ReleaseLive(c) PROVE IInv'
  BY <1>1, <1>12, ReleaseLiveStep
<1>13. ASSUME NEW c \in Conns, ReleaseBridged(c) PROVE IInv'
  BY <1>1, <1>13, ReleaseBridgedStep
<1>14. ASSUME NEW c \in Conns, ReleaseAlone(c) PROVE IInv'
  BY <1>1, <1>14, ReleaseAloneStep
<1>15. ASSUME NEW c \in Conns, HubStopped(c) PROVE IInv'
  BY <1>1, <1>15, HubStoppedStep
<1>16. ASSUME NEW c \in Conns, Unmounted(c) \/ FailedHubStopped(c) PROVE IInv'
  BY <1>1, <1>16, UnmountedStep
<1>17. ASSUME NEW k \in Kinds, Cools(k) \/ TimerCleans(k) PROVE IInv'
  BY <1>1, <1>17, TimerStep
<1> QED
  BY <1>2, <1>3, <1>4, <1>5, <1>6, <1>7, <1>8, <1>9, <1>10, <1>11, <1>12, <1>13, <1>14, <1>15, <1>16, <1>17
  DEF Next
-----------------------------------------------------------------------------
(* The theorems.                                                           *)

\* The sources, the bridges and what the publishers have claimed fit together
\* between any two switches of coroutines, while SrsLiveSource::on_publish and
\* on_unpublish (srs_app_source.cpp:2564, 2616) of one publisher wait for hooks
\* and others try to publish, until the first eviction of a source in use or
\* claim beside a waiting on_unpublish.
THEOREM StreamInvariant == Spec => [](Sound => IInv)
<1>1. Init => (Sound => IInv)
  BY InitIInv
<1>2. TypeOK /\ (Sound => IInv) /\ [Next]_vars => (Sound => IInv)'
  <2> SUFFICES ASSUME TypeOK, Sound => IInv, [Next]_vars, Sound' PROVE IInv'
    OBVIOUS
  <2>1. Sound
    BY MishapStep DEF Remembers, Sound, Never, Mishaps
  <2> QED BY <2>1, NextIInv
<1>3. Spec => []TypeOK
  <2>1. Init => TypeOK
    BY InitIInv DEF IInv
  <2>2. TypeOK /\ [Next]_vars => TypeOK'
    BY TypeStep
  <2> QED BY <2>1, <2>2, PTL DEF Spec
<1> QED
  BY <1>1, <1>2, <1>3, PTL DEF Spec

\* The state keeps its types, whatever happens: fetch_or_create
\* (srs_app_source.cpp:1770) gives a source of the manager's own kind, and a
\* bridge leads to sources that were made.
THEOREM StreamTypeCorrect == Spec => []TypeOK
<1>1. Init => TypeOK
  BY InitIInv DEF IInv
<1>2. TypeOK /\ [Next]_vars => TypeOK'
  BY TypeStep
<1> QED
  BY <1>1, <1>2, PTL DEF Spec

\* One publisher of the URL over the three protocols: the checks of
\* SrsRtmpConn::acquire_publish (srs_app_rtmp_conn.cpp:1076),
\* SrsMpegtsSrtConn::acquire_publish (srs_app_srt_conn.cpp:358) and
\* SrsRtcConnection::add_publisher (srs_app_rtc_conn.cpp:1935) together.  Only a
\* source evicted in use or a claim beside a waiting on_unpublish gives two.
THEOREM OnePublisherOnly == Spec => []OnePublisher
<1>1. (Sound => IInv) => OnePublisher
  BY DEF IInv, OnePublisher, Sound, Single
<1> QED
  BY <1>1, StreamInvariant, PTL

\* A publisher keeps what it claimed until it releases it itself
\* (SrsLiveSource::on_unpublish, srs_app_source.cpp:2616), also when another one
\* fails and leaves its claims behind.
THEOREM PublishersKeepTheirSources == Spec => []KeepsItsSources
<1>1. (Sound => IInv) => KeepsItsSources
  BY DEF IInv, KeepsItsSources, Sound, Claims
<1> QED
  BY <1>1, StreamInvariant, PTL

\* A source that is not free has a publisher that will release it, also after
\* an on_publish that failed in the middle (srs_app_rtmp_conn.cpp:959), until the
\* first of the three mishaps.
THEOREM BusyIsAlwaysHeld == Spec => []BusyIsHeld
<1>1. Never(Mishaps) => Sound /\ Complete
  BY DEF Never, Mishaps, Sound, Complete
<1>2. (Sound => IInv) => BusyIsHeld
  BY <1>1 DEF IInv, BusyIsHeld, BusyHeld, Active
<1> QED
  BY <1>2, StreamInvariant, PTL
-----------------------------------------------------------------------------
(* Sources in use, whatever else happens.                                  *)

\* Until a timer takes a source that somebody has fetched or is bridged to: what
\* the connections have, what is busy, and what a source that can still be found
\* is bridged to, are the sources of the managers.
PInv ==
  /\ \A c \in Conns :
       \/ conn[c] = Idle
       \/ conn[c].kind \in Kinds /\ conn[c].src \in Sources /\ pool[conn[c].kind] = conn[c].src
  /\ BusyPooled
  /\ \A p \in Objects : Held(p) => \A o \in bridge[p] : pool[o[1]] = o[2]

LEMMA InUse ==
  ASSUME TypeOK, PInv, NEW c \in Conns, conn[c].at # "idle"
  PROVE  /\ conn[c].kind \in Kinds /\ conn[c].src \in Sources /\ pool[conn[c].kind] = conn[c].src
         /\ Own(c) \in Objects /\ \A o \in Reach(c) : o \in Objects /\ pool[o[1]] = o[2]
<1>1. conn[c].kind \in Kinds /\ conn[c].src \in Sources /\ pool[conn[c].kind] = conn[c].src
  BY DEF PInv, Idle
<1>2. Own(c) \in Objects /\ pool[Own(c)[1]] = Own(c)[2] /\ Held(Own(c))
  BY <1>1 DEF Own, Objects, Held
<1>3. \A o \in bridge[Own(c)] : o \in Objects /\ pool[o[1]] = o[2]
  BY <1>2 DEF PInv, TypeOK
<1> QED
  BY <1>1, <1>2, <1>3 DEF Reach

\* The managers get sources they had not, clients fetch those the managers have,
\* and claims and bridges are made of these.
LEMMA UseKept ==
  ASSUME TypeOK, PInv,
         \A k \in Kinds : \/ pool'[k] = pool[k]
                          \/ pool[k] = None /\ bridge[<<k, pool'[k]>>] = {},
         \A c \in Conns :
           \/ conn'[c] = Idle
           \/ conn[c] # Idle /\ conn'[c].kind = conn[c].kind /\ conn'[c].src = conn[c].src
           \/ /\ conn'[c].kind \in Kinds /\ conn'[c].src \in Sources
              /\ pool'[conn'[c].kind] = conn'[c].src,
         \A o \in Objects : owner'[o] \in {owner[o], None} \/ pool'[o[1]] = o[2],
         \A p \in Objects : bridge'[p] \subseteq bridge[p] \/ \A o \in bridge'[p] : pool'[o[1]] = o[2]
  PROVE  PInv'
<1>1. \A k \in Kinds : pool[k] # None => pool'[k] = pool[k]
  OBVIOUS
<1>2. ASSUME NEW o \in Objects, pool[o[1]] = o[2] PROVE pool'[o[1]] = o[2]
  BY <1>1, <1>2, Pairs, StreamAssumption
<1>3. ASSUME NEW c \in Conns
      PROVE  \/ conn'[c] = Idle
             \/ /\ conn'[c].kind \in Kinds /\ conn'[c].src \in Sources
                /\ pool'[conn'[c].kind] = conn'[c].src
  BY <1>1, StreamAssumption DEF PInv
<1>4. BusyPooled'
  BY <1>2 DEF PInv, BusyPooled
<1>5. ASSUME NEW p \in Objects, Held(p)', NEW o \in bridge'[p] PROVE pool'[o[1]] = o[2]
  <2>1. CASE Held(p) /\ bridge'[p] \subseteq bridge[p]
    <3>1. o \in Objects /\ pool[o[1]] = o[2]
      BY <1>5, <2>1 DEF PInv, TypeOK
    <3> QED BY <1>2, <3>1
  <2>2. CASE ~Held(p) /\ bridge'[p] \subseteq bridge[p]
    <3>1. p[1] \in Kinds /\ p = <<p[1], p[2]>> /\ p[1] # None
      BY Pairs, StreamAssumption
    <3>2. pool'[p[1]] = p[2]
      <4>1. CASE \E c \in Conns : Own(c)' = p
        <5>1. PICK c \in Conns : Own(c)' = p
          BY <4>1
        <5>2. conn'[c] # Idle /\ conn'[c].kind = p[1] /\ conn'[c].src = p[2]
          BY <3>1, <5>1 DEF Own, Idle
        <5> QED BY <1>3, <5>2
      <4> QED BY <1>5, <4>1 DEF Held
    <3>3. bridge[p] = {}
      BY <2>2, <3>1, <3>2 DEF Held
    <3> QED BY <1>5, <2>2, <3>3
  <2> QED BY <1>5, <2>1, <2>2
<1> QED
  BY <1>3, <1>4, <1>5 DEF PInv

\* The same where the managers get nothing.
LEMMA UseStays ==
  ASSUME TypeOK, PInv, NEW c \in Conns, conn[c].at # "idle", pool' = pool,
         Quits(c) \/ \E at : Goes(c, at),
         \A o \in Objects : owner'[o] \in {owner[o], None} \/ pool[o[1]] = o[2],
         bridge' = bridge \/ bridge' = [bridge EXCEPT ![Own(c)] = {}]
  PROVE  PInv'
<1>1. \A d \in Conns \ {c} : conn'[d] = conn[d]
  BY DEF Goes, Quits, TypeOK
<1>2. conn'[c] = Idle \/ (conn[c] # Idle /\ conn'[c].kind = conn[c].kind /\ conn'[c].src = conn[c].src)
  BY DEF Goes, Quits, TypeOK, Idle
<1>3. \A d \in Conns : conn'[d] = Idle \/ (conn[d] # Idle /\ conn'[d].kind = conn[d].kind /\ conn'[d].src = conn[d].src)
  BY <1>1, <1>2
<1>4. \A p \in Objects : bridge'[p] \subseteq bridge[p]
  BY DEF TypeOK
<1> QED
  BY <1>3, <1>4, UseKept

LEMMA UseTimer ==
  ASSUME TypeOK, PInv, NEW k \in Kinds, TimerCleans(k), ~Referenced(<<k, pool[k]>>)
  PROVE  PInv'
<1>1. /\ UNCHANGED <<owner, bridge, conn>> /\ \A j \in Kinds : pool'[j] = IF j = k THEN None ELSE pool[j]
      /\ owner[Obj(k)] = None /\ \A c \in Conns : Own(c) # Obj(k)
      /\ \A p \in Objects : Held(p) => Obj(k) \notin bridge[p]
  BY DEF TimerCleans, TypeOK, Referenced, Obj
<1>2. ASSUME NEW c \in Conns
      PROVE  conn[c] = Idle \/ (/\ conn[c].kind \in Kinds /\ conn[c].src \in Sources
                                /\ pool'[conn[c].kind] = conn[c].src)
  BY <1>1 DEF PInv, Own, Obj
<1>3. ASSUME NEW o \in Objects, o # Obj(k), pool[o[1]] = o[2] PROVE pool'[o[1]] = o[2]
  BY <1>1, <1>3, Pairs DEF Obj
<1>4. BusyPooled'
  BY <1>1, <1>3 DEF PInv, BusyPooled
<1>5. ASSUME NEW p \in Objects, Held(p)', NEW o \in bridge[p] PROVE pool'[o[1]] = o[2]
  <2>1. Held(p)
    <3>1. pool'[p[1]] = p[2] => pool[p[1]] = p[2]
      BY <1>1, Pairs, StreamAssumption
    <3> QED BY <1>1, <1>5, <3>1 DEF Held, Own
  <2>2. o \in Objects /\ o # Obj(k) /\ pool[o[1]] = o[2]
    BY <1>1, <1>5, <2>1 DEF PInv, TypeOK
  <2> QED BY <1>3, <2>2
<1> QED
  BY <1>1, <1>2, <1>4, <1>5 DEF PInv

\* What fetch_or_create gives: the source the manager has, or a new one.
LEMMA Gets ==
  ASSUME NEW k \in Kinds, NEW s, Fetches(k, s)
  PROVE  s \in Sources /\ (s = pool[k] \/ (pool[k] = None /\ bridge[<<k, s>>] = {}))
BY DEF Fetches, Unborn

LEMMA UseFetched ==
  ASSUME TypeOK, PInv, NEW c \in Conns, NEW s \in Sources, NEW t \in Pooled,
         (\E k \in Kinds : Fetch(c, k, s)) \/ RtcJoin(c, s) \/ RtcUndone(c, s, t)
  PROVE  PInv'
<1>1. CASE (\E k \in Kinds : Fetch(c, k, s)) \/ RtcJoin(c, s)
  <2>1. PICK at \in {"fetched", "joining"}, j \in Kinds :
          /\ Fetches(j, s) /\ pool' = [pool EXCEPT ![j] = s]
          /\ conn' = [conn EXCEPT ![c] = [at |-> at, kind |-> j, src |-> s]]
          /\ UNCHANGED <<owner, bridge>>
    BY <1>1 DEF Fetch, RtcJoin, Kinds
  <2>2. \A k \in Kinds : pool'[k] = pool[k] \/ (pool[k] = None /\ bridge[<<k, pool'[k]>>] = {})
    BY <2>1, Gets DEF TypeOK
  <2>3. conn'[c].kind = j /\ conn'[c].src = s /\ pool'[j] = s
        /\ \A d \in Conns \ {c} : conn'[d] = conn[d]
    BY <2>1 DEF TypeOK
  <2>4. \A d \in Conns \ {c} : conn'[d] = Idle \/
          (conn[d] # Idle /\ conn'[d].kind = conn[d].kind /\ conn'[d].src = conn[d].src)
    BY <2>3
  <2> QED BY <2>1, <2>2, <2>3, <2>4, UseKept
<1>2. CASE RtcUndone(c, s, t)
  <2>1. /\ pool' = [pool EXCEPT !["rtc"] = s, !["srt"] = t] /\ UNCHANGED <<owner, bridge, conn>>
        /\ Fetches("rtc", s) /\ (t = pool["srt"] \/ Fetches("srt", t))
    BY <1>2 DEF RtcUndone, RtcMayCreate
  <2>2. \A k \in Kinds : pool'[k] = pool[k] \/ (pool[k] = None /\ bridge[<<k, pool'[k]>>] = {})
    BY <2>1, Gets DEF TypeOK, Kinds
  <2>3. \A d \in Conns : conn'[d] = Idle \/
          (conn[d] # Idle /\ conn'[d].kind = conn[d].kind /\ conn'[d].src = conn[d].src)
    BY <2>1
  <2> QED BY <2>1, <2>2, <2>3, UseKept
<1> QED
  BY <1>1, <1>2

LEMMA UseClaimed ==
  ASSUME TypeOK, PInv, NEW c \in Conns, NEW s \in Pooled, NEW t \in Pooled,
         RtmpAcquire(c, s, t) \/ SrtAcquire(c, s, t)
  PROVE  PInv'
<1>1. /\ conn[c].at # "idle" /\ conn[c].kind \in Kinds /\ conn[c].src \in Sources
      /\ pool[conn[c].kind] = conn[c].src /\ Own(c) \in Objects /\ conn[c] # Idle
  BY InUse DEF RtmpAcquire, SrtAcquire, Idle
<1>2. Quits(c) \/ \E at : Goes(c, at)
  BY DEF RtmpAcquire, SrtAcquire, Refused
<1>3. \A d \in Conns : conn'[d] = Idle \/
        (conn[d] # Idle /\ conn'[d].kind = conn[d].kind /\ conn'[d].src = conn[d].src)
  BY <1>1, <1>2 DEF Goes, Quits, TypeOK
<1>4. CASE RtmpAcquire(c, s, t)
  <2>1. /\ pool' = [pool EXCEPT !["rtc"] = s, !["srt"] = t] /\ conn[c].kind = "live"
        /\ (s = pool["rtc"] \/ Fetches("rtc", s)) /\ (t = pool["srt"] \/ Fetches("srt", t))
    BY <1>4 DEF RtmpAcquire
  <2>2. \A k \in Kinds : pool'[k] = pool[k] \/ (pool[k] = None /\ bridge[<<k, pool'[k]>>] = {})
    BY <2>1, Gets DEF TypeOK, Kinds
  <2>3. pool'["live"] = conn[c].src /\ pool'["rtc"] = s
    BY <1>1, <2>1 DEF TypeOK, Kinds
  <2>4. \/ UNCHANGED <<owner, bridge>>
        \/ /\ owner' = [owner EXCEPT ![<<"live", conn[c].src>>] = c]
           /\ bridge' = [bridge EXCEPT ![<<"live", conn[c].src>>] =
                           IF "rtc_from_rtmp" \in conf THEN {<<"rtc", s>>} ELSE {}]
    BY <1>4 DEF RtmpAcquire, Refused
  <2>5. \A o \in Objects : owner'[o] = owner[o] \/ pool'[o[1]] = o[2]
    BY <2>3, <2>4 DEF TypeOK
  <2>6. \A p \in Objects : bridge'[p] = bridge[p] \/ \A o \in bridge'[p] : pool'[o[1]] = o[2]
    BY <2>3, <2>4 DEF TypeOK
  <2> QED BY <1>3, <2>2, <2>5, <2>6, UseKept
<1>5. CASE SrtAcquire(c, s, t)
  <2> DEFINE to == IF "srt_to_rtmp" \notin conf THEN {}
                   ELSE {<<"live", s>>} \cup
                        (IF "rtc_from_rtmp" \in conf THEN {<<"rtc", t>>} ELSE {})
  <2>1. /\ pool' = [pool EXCEPT !["live"] = s, !["rtc"] = t] /\ conn[c].kind = "srt"
        /\ (s = pool["live"] \/ Fetches("live", s)) /\ (t = pool["rtc"] \/ Fetches("rtc", t))
    BY <1>5 DEF SrtAcquire
  <2>2. \A k \in Kinds : pool'[k] = pool[k] \/ (pool[k] = None /\ bridge[<<k, pool'[k]>>] = {})
    BY <2>1, Gets DEF TypeOK, Kinds
  <2>3. pool'["srt"] = conn[c].src /\ pool'["live"] = s /\ pool'["rtc"] = t
    BY <1>1, <2>1 DEF TypeOK, Kinds
  <2>4. \/ UNCHANGED <<owner, bridge>>
        \/ /\ bridge' = [bridge EXCEPT ![<<"srt", conn[c].src>>] = to]
           /\ owner' = [o \in Objects |->
                IF o = <<"srt", conn[c].src>> \/ (o \in to /\ o[1] = "live") THEN c ELSE owner[o]]
    BY <1>5 DEF SrtAcquire, Refused
  <2>5. \A o \in to : pool'[o[1]] = o[2]
    BY <2>3
  <2> HIDE DEF to
  <2>6. \A o \in Objects : owner'[o] = owner[o] \/ pool'[o[1]] = o[2]
    BY <2>3, <2>4, <2>5
  <2>7. \A p \in Objects : bridge'[p] = bridge[p] \/ \A o \in bridge'[p] : pool'[o[1]] = o[2]
    BY <2>3, <2>4, <2>5 DEF TypeOK
  <2> QED BY <1>3, <2>2, <2>6, <2>7, UseKept
<1> QED
  BY <1>4, <1>5

LEMMA UseCreated ==
  ASSUME TypeOK, PInv, NEW c \in Conns, NEW r \in Sources, NEW t \in Sources, NEW l \in Pooled,
         RtcCreate(c, r, t, l)
  PROVE  PInv'
<1>1. /\ Fetches("rtc", r) /\ Fetches("srt", t) /\ (l = pool["live"] \/ Fetches("live", l))
      /\ pool' = [live |-> l, rtc |-> r, srt |-> t]
      /\ owner' = [owner EXCEPT ![<<"rtc", r>>] = c]
      /\ conn' = [conn EXCEPT ![c] = [at |-> "created", kind |-> "rtc", src |-> r]]
      /\ bridge' = bridge \/ bridge' = [bridge EXCEPT ![<<"rtc", r>>] = {<<"live", l>>}]
  BY DEF RtcCreate, RtcMayCreate
<1>2. \A k \in Kinds : pool'[k] = pool[k] \/ (pool[k] = None /\ bridge[<<k, pool'[k]>>] = {})
  BY <1>1, Gets DEF Kinds
<1>3. pool'["rtc"] = r /\ pool'["live"] = l
  BY <1>1
<1>4. conn'[c].kind = "rtc" /\ conn'[c].src = r /\ \A d \in Conns \ {c} : conn'[d] = conn[d]
  BY <1>1 DEF TypeOK
<1>5. \A d \in Conns : \/ conn'[d] = Idle
                       \/ conn[d] # Idle /\ conn'[d].kind = conn[d].kind /\ conn'[d].src = conn[d].src
                       \/ /\ conn'[d].kind \in Kinds /\ conn'[d].src \in Sources
                          /\ pool'[conn'[d].kind] = conn'[d].src
  BY <1>3, <1>4 DEF Kinds
<1>6. \A o \in Objects : owner'[o] = owner[o] \/ pool'[o[1]] = o[2]
  BY <1>1, <1>3 DEF TypeOK
<1>7. ASSUME NEW p \in Objects
      PROVE  bridge'[p] = bridge[p] \/ \A o \in bridge'[p] : pool'[o[1]] = o[2]
  <2>1. bridge'[p] = bridge[p] \/ bridge'[p] = {<<"live", l>>}
    BY <1>1 DEF TypeOK
  <2> QED BY <1>3, <2>1
<1> QED
  BY <1>2, <1>5, <1>6, <1>7, UseKept

LEMMA UseMoved ==
  ASSUME TypeOK, PInv, NEW c \in Conns,
         \/ GivesUp(c) \/ Play(c) \/ StopsPlaying(c) \/ RtcStart(c) \/ HubPublished(c) \/ HubFails(c)
         \/ ReleaseLive(c) \/ ReleaseBridged(c) \/ ReleaseAlone(c)
         \/ HubStopped(c) \/ Unmounted(c) \/ FailedHubStopped(c)
  PROVE  PInv'
<1>1. conn[c].at # "idle" /\ pool' = pool
      /\ (bridge' = bridge \/ bridge' = [bridge EXCEPT ![Own(c)] = {}])
  BY DEF GivesUp, Play, StopsPlaying, RtcStart, HubPublished, HubFails, ReleaseLive, ReleaseBridged,
         ReleaseAlone, HubStopped, Unmounted, FailedHubStopped, Freed
<1>2. Quits(c) \/ \E at : Goes(c, at)
  <2>1. CASE HubFails(c)
    BY <2>1 DEF HubFails
  <2> QED BY <2>1 DEF GivesUp, Play, StopsPlaying, RtcStart, HubPublished, ReleaseLive, ReleaseBridged,
                      ReleaseAlone, HubStopped, Unmounted, FailedHubStopped, Freed
<1>3. \A o \in Reach(c) : o \in Objects /\ pool[o[1]] = o[2]
  BY <1>1, InUse
<1>4. \A o \in Objects : owner'[o] \in {owner[o], None} \/ pool[o[1]] = o[2]
  <2>1. CASE HubPublished(c)
    <3>1. ASSUME NEW o \in Reach(c), NEW q \in bridge[o] PROVE pool[q[1]] = q[2]
      BY <1>3, <3>1 DEF PInv, Held
    <3>2. \A q \in UNION {bridge[o] : o \in Reach(c)} : pool[q[1]] = q[2]
      BY <3>1
    <3> QED BY <2>1, <3>2 DEF HubPublished
  <2>2. CASE RtcStart(c)
    BY <1>3, <2>2 DEF RtcStart
  <2>3. CASE HubFails(c)
    <3>1. \A o \in RtcBehind(c) : pool[o[1]] = o[2]
      BY <1>3 DEF RtcBehind, Reach
    <3>2. \A o \in Objects : owner'[o] = owner[o] \/ o \in RtcBehind(c)
      BY <2>3 DEF HubFails
    <3> QED BY <3>1, <3>2
  <2>4. CASE ReleaseBridged(c) \/ ReleaseAlone(c)
    BY <2>4 DEF ReleaseBridged, ReleaseAlone, TypeOK
  <2>5. CASE HubStopped(c) \/ Unmounted(c) \/ FailedHubStopped(c)
    BY <2>5 DEF HubStopped, Unmounted, FailedHubStopped
  <2>6. CASE GivesUp(c) \/ Play(c) \/ StopsPlaying(c) \/ ReleaseLive(c)
    BY <2>6 DEF GivesUp, Play, StopsPlaying, ReleaseLive
  <2> QED BY <2>1, <2>2, <2>3, <2>4, <2>5, <2>6
<1> QED
  BY <1>1, <1>2, <1>4, UseStays

LEMMA NextPInv ==
  ASSUME TypeOK, PInv, (Never({"evicted"}))', [Next]_vars
  PROVE  PInv'
<1>1. CASE UNCHANGED vars
  BY <1>1 DEF vars, PInv, BusyPooled, Held, Own
<1>2. ASSUME NEW k \in Kinds, Cools(k) PROVE PInv'
  BY <1>2 DEF Cools, PInv, BusyPooled, Held, Own
<1>3. ASSUME NEW k \in Kinds, TimerCleans(k) PROVE PInv'
  <2>1. ~Referenced(<<k, pool[k]>>)
    BY <1>3, Excluded DEF TimerCleans, Never, Mishaps
  <2> QED BY <1>3, <2>1, UseTimer
<1> QED
  BY <1>1, <1>2, <1>3, UseFetched, UseClaimed, UseCreated, UseMoved DEF Next, Pooled

\* The source a client publishes or plays is the manager's, unless a timer once
\* took one between its fetch and its use (SrsLiveSourceManager::notify,
\* srs_app_source.cpp:1848): whatever overtakes an on_unpublish, whoever fails.
THEOREM UsedStaysPooled == Spec => []UsedIsPooled
<1>1. Init => (Never({"evicted"}) => PInv)
  BY DEF Init, PInv, BusyPooled
<1>2. TypeOK /\ (Never({"evicted"}) => PInv) /\ [Next]_vars => (Never({"evicted"}) => PInv)'
  <2> SUFFICES ASSUME TypeOK, Never({"evicted"}) => PInv, [Next]_vars, (Never({"evicted"}))'
               PROVE  PInv'
    OBVIOUS
  <2>1. Never({"evicted"})
    BY MishapStep DEF Remembers, Never, Mishaps
  <2> QED BY <2>1, NextPInv
<1>3. TypeOK /\ (Never({"evicted"}) => PInv) => UsedIsPooled
  <2> SUFFICES ASSUME TypeOK, PInv, NEW o \in Objects, owner[o] # None \/ Consumers(o) # {}
               PROVE  pool[o[1]] = o[2]
    BY DEF UsedIsPooled
  <2>1. ASSUME NEW c \in Consumers(o) PROVE pool[o[1]] = o[2]
    <3>1. c \in Conns /\ Own(c) = o /\ conn[c].at # "idle"
      BY DEF Consumers
    <3> QED BY <3>1, InUse DEF Own
  <2> QED BY <2>1 DEF PInv, BusyPooled
<1> QED
  BY <1>1, <1>2, <1>3, StreamTypeCorrect, PTL DEF Spec
=============================================================================
