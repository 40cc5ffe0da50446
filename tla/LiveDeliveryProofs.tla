------------------------- MODULE LiveDeliveryProofs -------------------------
(***************************************************************************)
(* What is proved of LiveDelivery for any number of messages and headers,  *)
(* any limits of the queue and of the GOP cache, and any clock.            *)
(*                                                                         *)
(* A player that joins gets the cached messages one after the other        *)
(* (EnqueuedAll, a recursive function), so what it has then is proved by   *)
(* induction: there is no least number of messages after which it fails.   *)
(***************************************************************************)
EXTENDS LiveDelivery, WellFoundedInduction, TLAPS

-----------------------------------------------------------------------------
(* Least and greatest numbers.                                             *)

\* Every set of natural numbers that is not empty has a least element.
LEMMA LeastNumber ==
  ASSUME NEW S \in SUBSET Nat, S # {}
  PROVE  \E x \in S : \A y \in S : x <= y
<1> DEFINE R == {p \in Nat \X Nat : p[1] < p[2]}
<1>1. IsWellFoundedOn(R, Nat)
  BY NatLessThanWellFounded, Zenon DEF OpToRel
<1>2. \E x \in S : \A y \in S : ~(<<y, x>> \in R)
  <2> HIDE DEF R
  <2> QED  BY <1>1, WFMin, Zenon
<1>3. PICK x \in S : \A y \in S : ~(<<y, x>> \in R)
  BY <1>2
<1>4. ASSUME NEW y \in S PROVE x <= y
  <2>1. <<y, x>> \in Nat \X Nat  OBVIOUS
  <2> QED  BY <1>3, <2>1
<1> QED  BY <1>4

\* Min and Max are what they are named for.
LEMMA MinIsLeast ==
  ASSUME NEW S \in SUBSET Nat, S # {}
  PROVE  Min(S) \in S /\ \A x \in S : Min(S) <= x
<1>1. \E x \in S : \A y \in S : x <= y
  BY LeastNumber
<1> QED  BY <1>1 DEF Min

LEMMA MaxIsGreatest ==
  ASSUME NEW b \in Nat, NEW S \in SUBSET (0..b), S # {}
  PROVE  Max(S) \in S /\ \A x \in S : x <= Max(S)
<1> DEFINE D == {d \in Nat : b - d \in S}
<1>1. \A x \in S : b - x \in D
  OBVIOUS
<1>2. D # {}
  BY <1>1
<1>3. PICK d \in D : \A e \in D : d <= e
  BY <1>2, LeastNumber
<1>4. ASSUME NEW x \in S PROVE b - d >= x
  <2>1. b - x \in D /\ x \in 0..b /\ d \in Nat  BY <1>1
  <2>2. d <= b - x  BY <1>3, <2>1
  <2> QED  BY <2>1, <2>2
<1>5. \E x \in S : \A y \in S : x >= y
  BY <1>3, <1>4
<1> QED  BY <1>5 DEF Max

-----------------------------------------------------------------------------
(* A consumer gets one message after the other.                            *)

\* How far EnqueuedAll has come after i messages.
IsRun(f, c, ms, n) ==
  f = [i \in 0..n |-> IF i = 0 THEN c ELSE Enqueued(f[i - 1], ms[i])]

LEMMA RunExtends ==
  ASSUME NEW c, NEW ms, NEW n \in Nat, NEW f, IsRun(f, c, ms, n)
  PROVE  \E g : IsRun(g, c, ms, n + 1)
<1> DEFINE g == [i \in 0..(n + 1) |-> IF i = n + 1 THEN Enqueued(f[n], ms[i]) ELSE f[i]]
<1>1. ASSUME NEW i \in 0..(n + 1)
      PROVE  g[i] = IF i = 0 THEN c ELSE Enqueued(g[i - 1], ms[i])
  <2> USE DEF IsRun
  <2>1. CASE i = 0      BY <2>1
  <2>2. CASE i = n + 1  BY <2>2
  <2>3. CASE i \in 1..n
    <3>1. f[i] = Enqueued(f[i - 1], ms[i])    BY <2>3
    <3>2. g[i] = f[i] /\ g[i - 1] = f[i - 1]  BY <2>3
    <3> QED  BY <2>3, <3>1, <3>2
  <2> QED  BY <2>1, <2>2, <2>3
<1> HIDE DEF g
<1>2. g = [i \in 0..(n + 1) |-> g[i]]
  BY DEF g
<1>3. IsRun(g, c, ms, n + 1)
  BY <1>1, <1>2 DEF IsRun
<1> QED  BY <1>3

LEMMA RunExists ==
  ASSUME NEW c, NEW ms, NEW n \in Nat
  PROVE  \E f : IsRun(f, c, ms, n)
<1> DEFINE Bad == {k \in Nat : ~\E f : IsRun(f, c, ms, k)}
<1>1. \E f : IsRun(f, c, ms, 0)
  <2>1. [i \in 0..0 |-> c] = [i \in 0..0 |-> IF i = 0 THEN c ELSE Enqueued([j \in 0..0 |-> c][i - 1], ms[i])]
    OBVIOUS
  <2> QED  BY <2>1 DEF IsRun
<1>2. CASE Bad # {}
  <2>1. PICK k \in Bad : \A j \in Bad : k <= j  BY <1>2, LeastNumber
  <2>2. k - 1 \in Nat /\ k - 1 \notin Bad       BY <1>1, <2>1
  <2>3. \E f : IsRun(f, c, ms, (k - 1) + 1)     BY <2>2, RunExtends
  <2>4. (k - 1) + 1 = k                         BY <2>1
  <2> QED  BY <2>1, <2>3, <2>4
<1> QED  BY <1>2

\* EnqueuedAll is the end of such a run.
LEMMA EnqueuedAllRuns ==
  ASSUME NEW c, NEW ms, Len(ms) \in Nat
  PROVE  \E f : IsRun(f, c, ms, Len(ms)) /\ EnqueuedAll(c, ms) = f[Len(ms)]
<1> DEFINE g == CHOOSE f : f = [i \in 0..Len(ms) |-> IF i = 0 THEN c ELSE Enqueued(f[i - 1], ms[i])]
<1>1. IsRun(g, c, ms, Len(ms))
  BY RunExists DEF IsRun
<1>2. EnqueuedAll(c, ms) = g[Len(ms)]
  BY DEF EnqueuedAll
<1> HIDE DEF g
<1> QED  BY <1>1, <1>2

-----------------------------------------------------------------------------
(* What one message does to a consumer.                                    *)

\* The bounds of the queue and the times in it: it starts at most a step back
\* of the jitter before its first timed message, ends with its last, and no
\* message is more than such a step before the one it follows.
First(ms, i) == i \in Timed(ms) /\ \A j \in Timed(ms) : i <= j
Last(ms, i) == i \in Timed(ms) /\ \A j \in Timed(ms) : j <= i
Next2(ms, i, j) ==
  i \in Timed(ms) /\ j \in Timed(ms) /\ i < j /\ \A k \in Timed(ms) : ~(i < k /\ k < j)

QueueTimes(ms, start, end) ==
  /\ \A i \in DOMAIN ms : First(ms, i) => ms[i].ts >= start - MaxJitter
  /\ \A i \in DOMAIN ms : Last(ms, i) => ms[i].ts = end
  /\ \A i, j \in DOMAIN ms : Next2(ms, i, j) => ms[j].ts >= ms[i].ts - MaxJitter
  /\ Timed(ms) = {} => start <= 0 \/ start = end
  /\ start = -1 => Timed(ms) = {}
  /\ \A i \in DOMAIN ms : ~IsAv(ms[i]) => ms[i].ts = 0

Times(c) ==
  /\ QueueTimes(c.msgs, c.start, c.end)
  /\ c.end = c.fixed \/ c.end <= MaxJitter

\* The frames of ms are those after the lo-th up to the hi-th, in order.
FramesOf(ms) == {i \in DOMAIN ms : ms[i].k \in Frames}
Contiguous(ms, lo, hi) ==
  /\ lo <= hi
  /\ \A i \in FramesOf(ms) : lo < ms[i].n /\ ms[i].n <= hi
  /\ \A x \in (lo + 1)..hi : \E i \in FramesOf(ms) : ms[i].n = x
  /\ \A i, j \in FramesOf(ms) : i < j => ms[i].n < ms[j].n

\* Headers come in the order of their versions, none newer than top, and every
\* video frame after one it can be decoded with; so may one that needs v.
VideoHeaders(ms) == {i \in DOMAIN ms : ms[i].k = "vsh"}
Decodable(ms, ver, v, top) ==
  /\ \A i \in DOMAIN ms : ms[i].k \in {"key", "inter"} => Known(ms, i, ver, ms[i].ver)
  /\ \A i, j \in VideoHeaders(ms) : i < j => ms[i].ver <= ms[j].ver
  /\ \A i \in VideoHeaders(ms) : ms[i].ver <= top
  /\ Known(ms, Len(ms) + 1, ver, v)

SameQueue(e, c) == e.msgs = c.msgs /\ e.start = c.start /\ e.end = c.end
SamePlayer(e, c) ==
  e.out = c.out /\ e.ver = c.ver /\ e.n = c.n /\ e.paused = c.paused /\ e.cut = c.cut

\* The jitter changes the time of a message and nothing else of it.
LEMMA CorrectedFacts ==
  ASSUME NEW c \in Consumers, NEW m \in Message
  PROVE  LET j == Corrected(c, m) IN
         /\ j.m \in Message /\ j.m.k = m.k /\ j.m.ver = m.ver /\ j.m.n = m.n
         /\ j.c \in Consumers
         /\ j.c.at = c.at /\ j.c.waiting = c.waiting /\ SameQueue(j.c, c) /\ SamePlayer(j.c, c)
         /\ IsAv(m) => j.m.ts = j.c.fixed /\ j.c.fixed \in Nat /\ j.c.fixed >= c.fixed - MaxJitter
         /\ ~IsAv(m) => j.m.ts = 0 /\ j.c.fixed = c.fixed
<1> DEFINE d == m.ts - c.pkt
<1> DEFINE delta == IF d < -MaxJitter \/ d > MaxJitter THEN FrameTime ELSE d
<1> DEFINE fixed == IF c.fixed + delta < 0 THEN 0 ELSE c.fixed + delta
<1>1. c.pkt \in Nat /\ c.fixed \in Nat \cup {-1} /\ m.ts \in Nat
  BY DEF Consumers, Message
<1>2. d \in Int
  BY <1>1
<1>3. delta \in Int /\ delta >= -MaxJitter
  BY <1>2, DeliveryAssumption
<1>4. fixed \in Nat /\ fixed >= c.fixed - MaxJitter
  <2> HIDE DEF delta
  <2> QED  BY <1>1, <1>3, DeliveryAssumption
<1>5. Corrected(c, m) = IF IsAv(m) THEN [c |-> [c EXCEPT !.pkt = m.ts, !.fixed = fixed],
                                         m |-> [m EXCEPT !.ts = fixed]]
                                   ELSE [c |-> c, m |-> [m EXCEPT !.ts = 0]]
  BY DEF Corrected
<1> HIDE DEF fixed
<1>6. CASE IsAv(m)
  <2>1. Corrected(c, m).c = [c EXCEPT !.pkt = m.ts, !.fixed = fixed]  BY <1>5, <1>6
  <2>2. Corrected(c, m).m = [m EXCEPT !.ts = fixed]                   BY <1>5, <1>6
  <2> QED  BY <1>1, <1>4, <1>6, <2>1, <2>2 DEF Consumers, Message, SameQueue, SamePlayer
<1>7. CASE ~IsAv(m)
  <2>1. Corrected(c, m).c = c                    BY <1>5, <1>7
  <2>2. Corrected(c, m).m = [m EXCEPT !.ts = 0]  BY <1>5, <1>7
  <2>3. Corrected(c, m).m \in Message            BY <2>2 DEF Message
  <2>4. m.k = Corrected(c, m).m.k /\ m.ver = Corrected(c, m).m.ver /\ m.n = Corrected(c, m).m.n
        /\ Corrected(c, m).m.ts = 0
    BY <2>2 DEF Message
  <2> QED  BY <1>7, <2>1, <2>3, <2>4 DEF SameQueue, SamePlayer
<1> QED  BY <1>6, <1>7

\* What shrinking keeps: headers that were in the queue, the last video header
\* first.
LEMMA LastOfFacts ==
  ASSUME NEW ms \in Seq(Message), NEW k
  PROVE  /\ LastOf(ms, k) \in Seq(Message) /\ Len(LastOf(ms, k)) <= 1
         /\ \A i \in DOMAIN LastOf(ms, k) :
              \E j \in DOMAIN ms : LastOf(ms, k)[i] = ms[j] /\ ms[j].k = k
         /\ \A j \in DOMAIN ms : ms[j].k = k =>
              \E i \in DOMAIN ms : j <= i /\ ms[i].k = k /\ LastOf(ms, k) = <<ms[i]>>
<1> DEFINE of == {i \in DOMAIN ms : ms[i].k = k}
<1>1. CASE of = {}
  <2>1. LastOf(ms, k) = << >>  BY <1>1 DEF LastOf
  <2> QED  BY <1>1, <2>1
<1>2. CASE of # {}
  <2>1. LastOf(ms, k) = <<ms[Max(of)]>>  BY <1>2 DEF LastOf
  <2>2. of \subseteq 0..Len(ms) /\ Len(ms) \in Nat  OBVIOUS
  <2>3. Max(of) \in of /\ \A x \in of : x <= Max(of)  BY <1>2, <2>2, MaxIsGreatest
  <2> HIDE DEF of
  <2>4. Max(of) \in DOMAIN ms /\ ms[Max(of)].k = k  BY <2>3 DEF of
  <2>5. \A j \in DOMAIN ms : ms[j].k = k => j <= Max(of)  BY <2>3 DEF of
  <2> QED  BY <2>1, <2>4, <2>5
<1> QED  BY <1>1, <1>2

\* The message is at the end of the queue, whose bounds have moved with it, and
\* which is not too long.
IsTimed(m) == IsAv(m) /\ m.ts # 0
Moved(c, m) == [start |-> IF IsTimed(m) /\ c.start = -1 THEN m.ts ELSE c.start,
                end |-> IF IsTimed(m) THEN m.ts ELSE c.end]
Kept(e, c, m) ==
  /\ e.msgs = Append(c.msgs, m) /\ e.cut = c.cut
  /\ e.start = Moved(c, m).start /\ e.end = Moved(c, m).end
  /\ MaxQueue > 0 => e.end - e.start <= MaxQueue

\* Or it was too long and only headers are left of it, the messages of ms.
Dropped(e, c, m, ms) ==
  /\ Len(e.msgs) = Len(ms) /\ e.cut = TRUE
  /\ \A i \in DOMAIN ms : e.msgs[i] \in Message /\ e.msgs[i] = [ms[i] EXCEPT !.ts = e.end]
  /\ e.start = e.end /\ e.end = Moved(c, m).end /\ e.end \in Nat \ {0}

Headers2(ms) == LastOf(ms, "vsh") \o LastOf(ms, "ash")

LEMMA Headers2Type ==
  ASSUME NEW ms \in Seq(Message)
  PROVE  /\ Headers2(ms) \in Seq(Message)
         /\ \A i \in DOMAIN Headers2(ms) :
              Headers2(ms)[i].k \in Headers /\ \E j \in DOMAIN ms : Headers2(ms)[i] = ms[j]
<1> DEFINE a == LastOf(ms, "vsh")
           b == LastOf(ms, "ash")
<1>1. a \in Seq(Message) /\ b \in Seq(Message)
  BY LastOfFacts
<1>2. \A i \in DOMAIN a : a[i].k \in Headers /\ \E j \in DOMAIN ms : a[i] = ms[j]
  BY LastOfFacts DEF Headers
<1>3. \A i \in DOMAIN b : b[i].k \in Headers /\ \E j \in DOMAIN ms : b[i] = ms[j]
  BY LastOfFacts DEF Headers
<1> HIDE DEF a, b
<1>4. ASSUME NEW i \in DOMAIN (a \o b)
      PROVE  \/ i \in DOMAIN a /\ (a \o b)[i] = a[i]
             \/ i - Len(a) \in DOMAIN b /\ (a \o b)[i] = b[i - Len(a)]
  BY <1>1
<1>5. a \o b \in Seq(Message)
  BY <1>1
<1>6. \A i \in DOMAIN (a \o b) :
        (a \o b)[i].k \in Headers /\ \E j \in DOMAIN ms : (a \o b)[i] = ms[j]
  BY <1>2, <1>3, <1>4
<1>7. Headers2(ms) = a \o b
  BY DEF Headers2, a, b
<1> QED  BY <1>5, <1>6, <1>7

LEMMA StoredFacts ==
  ASSUME NEW c \in Consumers, NEW m \in Message, ~IsAv(m) => m.ts = 0
  PROVE  /\ Stored(c, m) \in Consumers
         /\ Stored(c, m).at = c.at /\ Stored(c, m).waiting = c.waiting
         /\ Stored(c, m).out = c.out /\ Stored(c, m).ver = c.ver /\ Stored(c, m).n = c.n
         /\ Stored(c, m).paused = c.paused /\ Stored(c, m).fixed = c.fixed
         /\ \/ Kept(Stored(c, m), c, m)
            \/ Dropped(Stored(c, m), c, m, Headers2(Append(c.msgs, m)))
<1> DEFINE q == [c EXCEPT !.msgs = Append(@, m),
                          !.start = IF IsTimed(m) /\ @ = -1 THEN m.ts ELSE @,
                          !.end = IF IsTimed(m) THEN m.ts ELSE @]
<1>1. Stored(c, m) = IF MaxQueue > 0 /\ q.end - q.start > MaxQueue THEN Shrunk(q) ELSE q
  BY Zenon DEF Stored, IsTimed
<1>2. m.ts \in Nat /\ c.start \in Nat \cup {-1} /\ c.end \in Nat \cup {-1} /\ c.msgs \in Seq(Message)
  BY DEF Message, Consumers
<1>3. Append(c.msgs, m) \in Seq(Message)
  BY <1>2
<1>4. /\ q.msgs = Append(c.msgs, m) /\ q.start = Moved(c, m).start /\ q.end = Moved(c, m).end
      /\ q.at = c.at /\ q.waiting = c.waiting /\ q.fixed = c.fixed /\ SamePlayer(q, c)
  BY DEF Consumers, Moved, SamePlayer
<1>5. q \in Consumers
  <2>1. Moved(c, m).start \in Nat \cup {-1} /\ Moved(c, m).end \in Nat \cup {-1}
    BY <1>2 DEF Moved
  <2>2. q = [c EXCEPT !.msgs = Append(c.msgs, m), !.start = Moved(c, m).start,
                      !.end = Moved(c, m).end]
    BY DEF Moved
  <2> HIDE DEF q
  <2> QED  BY <1>3, <2>1, <2>2 DEF Consumers
<1> HIDE DEF q
<1>6. CASE ~(MaxQueue > 0 /\ q.end - q.start > MaxQueue)
  <2>1. Stored(c, m) = q  BY <1>1, <1>6
  <2>2. q.end \in Int /\ q.start \in Int  BY <1>5 DEF Consumers
  <2>3. MaxQueue > 0 => q.end - q.start <= MaxQueue  BY <1>6, <2>2, DeliveryAssumption
  <2>4. Kept(q, c, m)  BY <1>4, <2>3 DEF Kept, SamePlayer
  <2> QED  BY <1>4, <1>5, <2>1, <2>4 DEF SamePlayer
<1>7. CASE MaxQueue > 0 /\ q.end - q.start > MaxQueue
  <2> DEFINE keep == Headers2(q.msgs)
             left == [i \in DOMAIN keep |-> [keep[i] EXCEPT !.ts = q.end]]
             e == [q EXCEPT !.start = q.end, !.cut = TRUE, !.msgs = left]
  <2>1. Stored(c, m) = e  BY <1>1, <1>7 DEF Shrunk, Headers2
  <2>2. q.end \in Nat \ {0}
    BY <1>5, <1>7, DeliveryAssumption DEF Consumers
  <2>3. keep \in Seq(Message)  BY <1>3, <1>4, Headers2Type
  <2> HIDE DEF keep
  <2>4. ASSUME NEW i \in DOMAIN keep
        PROVE  left[i] \in Message /\ left[i] = [keep[i] EXCEPT !.ts = q.end]
    <3>1. keep[i] \in Message  BY <2>3
    <3>2. [keep[i] EXCEPT !.ts = q.end] \in Message  BY <2>2, <3>1 DEF Message
    <3>3. left[i] = [keep[i] EXCEPT !.ts = q.end]  OBVIOUS
    <3> QED  BY <3>2, <3>3
  <2>5. left \in Seq(Message) /\ Len(left) = Len(keep)
    <3>1. DOMAIN keep = 1..Len(keep) /\ Len(keep) \in Nat  BY <2>3
    <3>2. \A i \in 1..Len(keep) : [keep[i] EXCEPT !.ts = q.end] \in Message  BY <2>4, <3>1
    <3> QED  BY <3>1, <3>2
  <2> HIDE DEF left
  <2>6. e \in Consumers  BY <1>5, <2>2, <2>5 DEF Consumers
  <2>7. /\ e.msgs = left /\ e.start = q.end /\ e.end = q.end /\ e.cut = TRUE
        /\ e.at = q.at /\ e.waiting = q.waiting /\ e.out = q.out /\ e.ver = q.ver
        /\ e.n = q.n /\ e.paused = q.paused /\ e.fixed = q.fixed
    BY <1>5 DEF Consumers
  <2> HIDE DEF e
  <2>8. Dropped(e, c, m, keep)  BY <1>4, <2>2, <2>4, <2>5, <2>7 DEF Dropped
  <2> QED  BY <1>4, <2>1, <2>6, <2>7, <2>8 DEF keep, SamePlayer
<1> QED  BY <1>6, <1>7

\* One enqueue: the message, with its time corrected, is stored, and the player
\* woken if it waits and there is enough.
LEMMA EnqueuedFacts ==
  ASSUME NEW c \in Consumers, NEW m \in Message
  PROVE  \E f \in Message :
         LET e == Enqueued(c, m) IN
         /\ f.k = m.k /\ f.ver = m.ver /\ f.n = m.n /\ (~IsAv(f) => f.ts = 0)
         /\ e \in Consumers
         /\ e.out = c.out /\ e.ver = c.ver /\ e.n = c.n /\ e.paused = c.paused
         /\ IsAv(f) => f.ts = e.fixed /\ e.fixed >= c.fixed - MaxJitter
         /\ ~IsAv(f) => e.fixed = c.fixed
         /\ Kept(e, c, f) \/ Dropped(e, c, f, Headers2(Append(c.msgs, f)))
         /\ \/ e.at = c.at /\ e.waiting = c.waiting /\ ~(c.waiting /\ Enough(e))
            \/ c.waiting /\ ~e.waiting /\ e.at = IF c.at = "asleep" THEN "dumping" ELSE c.at
<1> DEFINE j == Corrected(c, m)
           q == Stored(j.c, j.m)
           e == Enqueued(c, m)
<1>1. /\ j.m \in Message /\ j.m.k = m.k /\ j.m.ver = m.ver /\ j.m.n = m.n
      /\ j.c \in Consumers
      /\ j.c.at = c.at /\ j.c.waiting = c.waiting /\ SameQueue(j.c, c) /\ SamePlayer(j.c, c)
      /\ IsAv(m) => j.m.ts = j.c.fixed /\ j.c.fixed \in Nat /\ j.c.fixed >= c.fixed - MaxJitter
      /\ ~IsAv(m) => j.m.ts = 0 /\ j.c.fixed = c.fixed
  BY CorrectedFacts
<1>2. e = IF Enough(q) THEN Woken(q) ELSE q
  BY DEF Enqueued
<1> HIDE DEF j
<1>3. IsAv(j.m) <=> IsAv(m)
  BY <1>1 DEF IsAv
<1>4. /\ q \in Consumers
      /\ q.at = j.c.at /\ q.waiting = j.c.waiting /\ q.out = j.c.out /\ q.ver = j.c.ver
      /\ q.n = j.c.n /\ q.paused = j.c.paused /\ q.fixed = j.c.fixed
      /\ Kept(q, j.c, j.m) \/ Dropped(q, j.c, j.m, Headers2(Append(j.c.msgs, j.m)))
  BY <1>1, <1>3, StoredFacts
<1> HIDE DEF q, e
<1>5. Moved(j.c, j.m) = Moved(c, j.m) /\ Append(j.c.msgs, j.m) = Append(c.msgs, j.m)
  BY <1>1 DEF SameQueue, Moved
<1>6. Kept(q, c, j.m) \/ Dropped(q, c, j.m, Headers2(Append(c.msgs, j.m)))
  <2>1. CASE Kept(q, j.c, j.m)
    BY <1>1, <1>5, <2>1 DEF Kept, SamePlayer
  <2>2. CASE Dropped(q, j.c, j.m, Headers2(Append(j.c.msgs, j.m)))
    <3> DEFINE hs == Headers2(Append(c.msgs, j.m))
    <3>1. Dropped(q, j.c, j.m, hs)  BY <1>5, <2>2
    <3> HIDE DEF hs
    <3>2. Dropped(q, c, j.m, hs)  BY <1>5, <3>1 DEF Dropped
    <3> QED  BY <3>2 DEF hs
  <2> QED  BY <1>4, <2>1, <2>2
<1>7. q.out = c.out /\ q.ver = c.ver /\ q.n = c.n /\ q.paused = c.paused
      /\ q.at = c.at /\ q.waiting = c.waiting
  BY <1>1, <1>4 DEF SamePlayer
<1>8. /\ e \in Consumers /\ e.msgs = q.msgs /\ e.start = q.start /\ e.end = q.end
      /\ e.cut = q.cut /\ e.fixed = q.fixed /\ e.out = q.out /\ e.ver = q.ver /\ e.n = q.n
      /\ e.paused = q.paused
      /\ \/ e.at = q.at /\ e.waiting = q.waiting /\ ~(q.waiting /\ Enough(q))
         \/ q.waiting /\ ~e.waiting /\ e.at = IF q.at = "asleep" THEN "dumping" ELSE q.at
  <2>1. CASE e = q /\ ~(q.waiting /\ Enough(q))
    BY <1>4, <2>1
  <2>2. CASE q.waiting /\ e = [q EXCEPT !.waiting = FALSE, !.at = IF @ = "asleep" THEN "dumping" ELSE @]
    BY <1>4, <2>2 DEF Consumers
  <2> QED  BY <1>2, <2>1, <2>2 DEF Woken
<1>9. Enough(e) <=> Enough(q)
  BY <1>8 DEF Enough
<1>10. Kept(e, c, j.m) \/ Dropped(e, c, j.m, Headers2(Append(c.msgs, j.m)))
  <2> DEFINE hs == Headers2(Append(c.msgs, j.m))
  <2> HIDE DEF hs
  <2>1. Kept(q, c, j.m) => Kept(e, c, j.m)                BY <1>8 DEF Kept
  <2>2. Dropped(q, c, j.m, hs) => Dropped(e, c, j.m, hs)  BY <1>8 DEF Dropped
  <2> QED  BY <1>6, <2>1, <2>2 DEF hs
<1>11. IsAv(j.m) => j.m.ts = e.fixed /\ e.fixed >= c.fixed - MaxJitter
  BY <1>1, <1>3, <1>4, <1>8
<1>12. ~IsAv(j.m) => j.m.ts = 0 /\ e.fixed = c.fixed
  BY <1>1, <1>3, <1>4, <1>8
<1> QED  BY <1>1, <1>7, <1>8, <1>9, <1>10, <1>11, <1>12 DEF e

-----------------------------------------------------------------------------
(* The bounds of the queue.                                                *)

\* Appending a message keeps the times of the queue in order.
LEMMA TimesAppend ==
  ASSUME NEW ms \in Seq(Message), NEW m \in Message, ~IsAv(m) => m.ts = 0,
         NEW start \in Nat \cup {-1}, NEW end \in Nat \cup {-1},
         QueueTimes(ms, start, end),
         IsTimed(m) => m.ts >= end - MaxJitter
  PROVE  QueueTimes(Append(ms, m), IF IsTimed(m) /\ start = -1 THEN m.ts ELSE start,
                                   IF IsTimed(m) THEN m.ts ELSE end)
<1> DEFINE n == Len(ms) + 1
           all == Append(ms, m)
<1>1. n \in Nat \ {0} /\ DOMAIN ms = 1..(n - 1) /\ DOMAIN all = 1..n
  OBVIOUS
<1>2. all[n] = m /\ \A i \in 1..(n - 1) : all[i] = ms[i]
  OBVIOUS
<1>3. \A i \in 1..(n - 1) : ms[i].ts \in Nat
  <2>1. \A i \in DOMAIN ms : ms[i] \in Message  OBVIOUS
  <2> HIDE DEF n
  <2> QED  BY <1>1, <2>1 DEF Message
<1>4. m.ts \in Nat /\ MaxJitter \in Nat
  BY DeliveryAssumption DEF Message
<1>5. \A i \in 1..n : i \in Timed(all) <=> (i \in Timed(ms) \/ (i = n /\ IsTimed(m)))
  BY <1>1, <1>2 DEF Timed, IsTimed
<1>6. Timed(ms) \subseteq 1..(n - 1) /\ Timed(all) \subseteq 1..n
  BY <1>1 DEF Timed
<1> HIDE DEF n, all
<1>7. CASE ~IsTimed(m)
  <2>1. Timed(all) = Timed(ms)
    <3>1. \A i \in 1..(n - 1) : i \in 1..n  BY <1>1
    <3> QED  BY <1>5, <1>6, <1>7, <3>1
  <2>2. \A i \in 1..n : (First(all, i) <=> First(ms, i)) /\ (Last(all, i) <=> Last(ms, i))
    BY <2>1 DEF First, Last
  <2>3. \A i, j \in 1..n : Next2(all, i, j) <=> Next2(ms, i, j)
    BY <2>1 DEF Next2
  <2>4. ~IsAv(m) => m.ts = 0
    OBVIOUS
  <2>5. \A i \in 1..n : ~IsAv(all[i]) => all[i].ts = 0
    BY <1>1, <1>2, <2>4 DEF QueueTimes
  <2>6. QueueTimes(all, start, end)
    BY <1>1, <1>2, <1>6, <2>1, <2>2, <2>3, <2>5 DEF QueueTimes, First, Last, Next2
  <2> QED  BY <1>7, <2>6 DEF all
<1>8. CASE IsTimed(m)
  <2> DEFINE from == IF start = -1 THEN m.ts ELSE start
  <2>1. n \in Timed(all)
    <3>1. n \in 1..n  BY <1>1
    <3> QED  BY <1>5, <1>8, <3>1
  <2>2. ASSUME NEW i \in 1..n, First(all, i) PROVE all[i].ts >= from - MaxJitter
    <3>1. CASE i = n
      <4>1. Timed(ms) = {}  BY <1>1, <1>5, <1>6, <2>2, <3>1 DEF First
      <4>2. start <= 0 \/ start = end  BY <4>1 DEF QueueTimes
      <4>3. CASE start = -1  BY <1>2, <1>4, <3>1, <4>3
      <4>4. CASE start # -1
        <5>1. start <= 0 \/ m.ts >= start - MaxJitter  BY <1>8, <4>2
        <5> QED  BY <1>2, <1>4, <3>1, <4>4, <5>1
      <4> QED  BY <4>3, <4>4
    <3>2. CASE i # n
      <4>1. i \in 1..(n - 1) /\ First(ms, i)  BY <1>1, <1>5, <1>6, <2>2, <3>2 DEF First
      <4>2. start # -1  BY <4>1 DEF First, QueueTimes
      <4> QED  BY <1>1, <1>2, <4>1, <4>2 DEF QueueTimes
    <3> QED  BY <3>1, <3>2
  <2>3. ASSUME NEW i \in 1..n, Last(all, i) PROVE all[i].ts = m.ts
    <3>1. i = n  BY <1>1, <2>1, <2>3 DEF Last
    <3> QED  BY <1>2, <3>1
  <2>4. ASSUME NEW i \in 1..n, NEW j \in 1..n, Next2(all, i, j)
        PROVE  all[j].ts >= all[i].ts - MaxJitter
    <3>1. i < j /\ i \in 1..(n - 1) /\ i \in Timed(ms)
      BY <1>1, <1>5, <2>4 DEF Next2
    <3>2. CASE j = n
      <4>1. Last(ms, i)  BY <1>1, <1>5, <1>6, <2>4, <3>1, <3>2 DEF Last, Next2
      <4>2. ms[i].ts = end  BY <1>1, <3>1, <4>1 DEF QueueTimes
      <4> QED  BY <1>2, <1>8, <3>1, <3>2, <4>2
    <3>3. CASE j # n
      <4>1. j \in 1..(n - 1) /\ Next2(ms, i, j)  BY <1>1, <1>5, <1>6, <2>4, <3>1, <3>3 DEF Next2
      <4> QED  BY <1>1, <1>2, <3>1, <4>1 DEF QueueTimes
    <3> QED  BY <3>2, <3>3
  <2>5. \A i \in 1..n : ~IsAv(all[i]) => all[i].ts = 0
    BY <1>1, <1>2, <1>8 DEF QueueTimes, IsTimed
  <2>6. from # -1
    BY <1>4
  <2>7. QueueTimes(all, from, m.ts)
    <3> HIDE DEF from
    <3> QED  BY <1>1, <2>1, <2>2, <2>3, <2>4, <2>5, <2>6 DEF QueueTimes
  <2> QED  BY <1>8, <2>7 DEF all
<1> QED  BY <1>7, <1>8

\* So does shrinking, after which all headers have the time of the end.
LEMMA TimesShrunk ==
  ASSUME NEW ms, NEW end \in Nat \ {0},
         \A i \in DOMAIN ms : IsAv(ms[i]) /\ ms[i].ts = end
  PROVE  QueueTimes(ms, end, end)
<1>1. MaxJitter \in Nat
  BY DeliveryAssumption
<1> QED  BY <1>1 DEF QueueTimes, Next2

\* So does an enqueue, after which the queue is not longer than it may be.
Fits(c) == MaxQueue > 0 => c.end - c.start <= MaxQueue

LEMMA EnqueuedTimes ==
  ASSUME NEW c \in Consumers, NEW m \in Message, Times(c)
  PROVE  Times(Enqueued(c, m)) /\ Fits(Enqueued(c, m))
<1> DEFINE e == Enqueued(c, m)
<1>1. PICK f \in Message :
        /\ (~IsAv(f) => f.ts = 0) /\ e \in Consumers
        /\ IsAv(f) => f.ts = e.fixed /\ e.fixed >= c.fixed - MaxJitter
        /\ ~IsAv(f) => e.fixed = c.fixed
        /\ Kept(e, c, f) \/ Dropped(e, c, f, Headers2(Append(c.msgs, f)))
  BY EnqueuedFacts
<1> HIDE DEF e
<1>2. /\ c.start \in Nat \cup {-1} /\ c.end \in Nat \cup {-1} /\ c.msgs \in Seq(Message)
      /\ c.fixed \in Nat \cup {-1} /\ e.fixed \in Nat \cup {-1} /\ f.ts \in Nat
      /\ MaxJitter \in Nat
  BY <1>1, DeliveryAssumption DEF Consumers, Message
<1>3. IsTimed(f) => f.ts >= c.end - MaxJitter
  BY <1>1, <1>2 DEF Times, IsTimed
<1>4. e.end = Moved(c, f).end
  BY <1>1 DEF Kept, Dropped
<1>5. e.end = e.fixed \/ e.end <= MaxJitter
  <2>1. CASE IsTimed(f)   BY <1>1, <1>4, <2>1 DEF IsTimed, Moved
  <2>2. CASE ~IsAv(f)     BY <1>1, <1>4, <2>2 DEF IsTimed, Moved, Times
  <2>3. CASE IsAv(f) /\ f.ts = 0
    <3>1. e.end = c.end /\ e.fixed = 0  BY <1>1, <1>4, <2>3 DEF IsTimed, Moved
    <3> QED  BY <1>1, <1>2, <2>3, <3>1 DEF Times
  <2> QED  BY <2>1, <2>2, <2>3 DEF IsTimed
<1>6. CASE Kept(e, c, f)
  <2>1. QueueTimes(e.msgs, e.start, e.end)
    BY <1>1, <1>2, <1>3, <1>6, TimesAppend DEF Kept, Moved, Times
  <2> QED  BY <1>5, <1>6, <2>1 DEF Times, Kept, Fits, e
<1>7. CASE Dropped(e, c, f, Headers2(Append(c.msgs, f)))
  <2> DEFINE hs == Headers2(Append(c.msgs, f))
  <2>1. Append(c.msgs, f) \in Seq(Message)  BY <1>2
  <2>2. hs \in Seq(Message) /\ \A i \in DOMAIN hs : hs[i].k \in Headers
    BY <2>1, Headers2Type
  <2> HIDE DEF hs
  <2>3. Dropped(e, c, f, hs)  BY <1>7 DEF hs
  <2>4. e.end \in Nat \ {0} /\ e.start = e.end  BY <2>3 DEF Dropped
  <2>5. DOMAIN e.msgs = DOMAIN hs
    BY <1>1, <2>2, <2>3 DEF Dropped, Consumers
  <2>6. ASSUME NEW i \in DOMAIN e.msgs PROVE IsAv(e.msgs[i]) /\ e.msgs[i].ts = e.end
    <3>1. hs[i] \in Message /\ hs[i].k \in Headers  BY <2>2, <2>5
    <3>2. e.msgs[i] = [hs[i] EXCEPT !.ts = e.end]  BY <2>3, <2>5 DEF Dropped
    <3>3. e.msgs[i].k = hs[i].k /\ e.msgs[i].ts = e.end  BY <3>1, <3>2 DEF Message
    <3> QED  BY <3>1, <3>3 DEF IsAv, Headers
  <2>7. QueueTimes(e.msgs, e.end, e.end)  BY <2>4, <2>6, TimesShrunk
  <2> QED  BY <1>5, <2>4, <2>7, DeliveryAssumption DEF Times, Fits, e
<1> QED  BY <1>1, <1>6, <1>7

-----------------------------------------------------------------------------
(* The frames and the headers on their way to the player.                  *)

\* Where the elements of two sequences are in the one made of both.
LEMMA ConcatIndex ==
  ASSUME NEW a \in Seq(Message), NEW b \in Seq(Message)
  PROVE  /\ a \o b \in Seq(Message) /\ Len(a \o b) = Len(a) + Len(b)
         /\ Len(a \o b) \in Nat /\ DOMAIN (a \o b) = 1..Len(a \o b)
         /\ \A i \in DOMAIN a : i \in DOMAIN (a \o b) /\ (a \o b)[i] = a[i]
         /\ \A i \in DOMAIN b : Len(a) + i \in DOMAIN (a \o b) /\ (a \o b)[Len(a) + i] = b[i]
         /\ \A i \in DOMAIN (a \o b) : i \in DOMAIN a \/ i - Len(a) \in DOMAIN b
  OBVIOUS

LEMMA ConcatAppend ==
  ASSUME NEW a \in Seq(Message), NEW b \in Seq(Message), NEW m \in Message
  PROVE  a \o b \in Seq(Message) /\ Append(b, m) \in Seq(Message)
         /\ a \o Append(b, m) = Append(a \o b, m)
  OBVIOUS

LEMMA AppendIndex ==
  ASSUME NEW ms \in Seq(Message), NEW m \in Message
  PROVE  LET all == Append(ms, m)
             n == Len(ms) + 1
         IN /\ all \in Seq(Message) /\ n \in Nat /\ Len(all) = n /\ n \notin DOMAIN ms
            /\ DOMAIN ms = 1..(n - 1) /\ DOMAIN all = 1..n /\ n \in 1..n
            /\ all[n] = m /\ \A i \in DOMAIN ms : i \in DOMAIN all /\ i < n /\ all[i] = ms[i]
            /\ \A i \in DOMAIN all : i = n \/ i \in DOMAIN ms
  OBVIOUS

\* The next frame of the stream goes on where the others end.
LEMMA ContiguousAppend ==
  ASSUME NEW ms \in Seq(Message), NEW m \in Message, NEW lo \in Nat, NEW hi \in Nat,
         Contiguous(ms, lo, hi), m.k \in Frames => m.n = hi + 1
  PROVE  Contiguous(Append(ms, m), lo, IF m.k \in Frames THEN hi + 1 ELSE hi)
<1> DEFINE all == Append(ms, m)
           n == Len(ms) + 1
<1>1. /\ n \in Nat /\ n \notin DOMAIN ms /\ DOMAIN ms = 1..(n - 1) /\ n \in DOMAIN all
      /\ all[n] = m /\ \A i \in DOMAIN ms : i \in DOMAIN all /\ i < n /\ all[i] = ms[i]
      /\ \A i \in DOMAIN all : i = n \/ i \in DOMAIN ms
  BY AppendIndex
<1>2. \A i \in DOMAIN ms : ms[i].n \in Nat
  <2>1. \A i \in DOMAIN ms : ms[i] \in Message  OBVIOUS
  <2> QED  BY <2>1 DEF Message
<1> HIDE DEF all, n
<1>3. CASE m.k \notin Frames
  <2>1. FramesOf(all) = FramesOf(ms)  BY <1>1, <1>3 DEF FramesOf
  <2>2. \A i \in FramesOf(ms) : all[i] = ms[i]  BY <1>1 DEF FramesOf
  <2> QED  BY <1>3, <2>1, <2>2 DEF Contiguous, all
<1>4. CASE m.k \in Frames
  <2>1. FramesOf(all) = FramesOf(ms) \cup {n}  BY <1>1, <1>4 DEF FramesOf
  <2>2. \A i \in FramesOf(ms) : all[i] = ms[i] /\ i < n /\ i \in DOMAIN ms  BY <1>1 DEF FramesOf
  <2>3. all[n].n = hi + 1  BY <1>1, <1>4
  <2>4. \A x \in (lo + 1)..(hi + 1) : x = hi + 1 \/ x \in (lo + 1)..hi  OBVIOUS
  <2>5. \A x \in (lo + 1)..(hi + 1) : \E i \in FramesOf(all) : all[i].n = x
    BY <2>1, <2>2, <2>3, <2>4 DEF Contiguous
  <2>6. \A i \in FramesOf(all) : lo < all[i].n /\ all[i].n <= hi + 1
    BY <1>2, <2>1, <2>2, <2>3 DEF Contiguous
  <2>7. ASSUME NEW i \in FramesOf(all), NEW j \in FramesOf(all), i < j PROVE all[i].n < all[j].n
    <3>1. i \in FramesOf(ms)  BY <1>1, <2>1, <2>2, <2>7
    <3>2. CASE j = n  BY <1>2, <2>2, <2>3, <3>1, <3>2 DEF Contiguous
    <3>3. CASE j \in FramesOf(ms)  BY <2>2, <2>7, <3>1, <3>3 DEF Contiguous
    <3> QED  BY <2>1, <3>2, <3>3
  <2>8. lo <= hi + 1  BY DEF Contiguous
  <2> QED  BY <1>4, <2>5, <2>6, <2>7, <2>8 DEF Contiguous, all
<1> QED  BY <1>3, <1>4

\* A frame after the header it needs, a header after those it replaces.
LEMMA DecodableAppend ==
  ASSUME NEW ms \in Seq(Message), NEW m \in Message, NEW ver \in Nat, NEW v \in Nat,
         NEW top \in Nat, Decodable(ms, ver, v, top),
         m.k \in {"key", "inter"} => m.ver <= v, m.k = "vsh" => m.ver >= top
  PROVE  Decodable(Append(ms, m), ver, IF m.k = "vsh" THEN m.ver ELSE v,
                                       IF m.k = "vsh" THEN m.ver ELSE top)
<1> DEFINE all == Append(ms, m)
           n == Len(ms) + 1
           w == IF m.k = "vsh" THEN m.ver ELSE v
           high == IF m.k = "vsh" THEN m.ver ELSE top
<1>1. /\ n \in Nat /\ Len(all) = n /\ n \notin DOMAIN ms /\ DOMAIN ms = 1..(n - 1)
      /\ n \in DOMAIN all
      /\ all[n] = m /\ \A i \in DOMAIN ms : i \in DOMAIN all /\ i < n /\ all[i] = ms[i]
      /\ \A i \in DOMAIN all : i = n \/ i \in DOMAIN ms
  BY AppendIndex
<1>2. \A i \in DOMAIN ms : ms[i].ver \in Nat
  <2>1. \A i \in DOMAIN ms : ms[i] \in Message  OBVIOUS
  <2> QED  BY <2>1, DeliveryAssumption DEF Message
<1>3. m.ver \in Nat
  BY DeliveryAssumption DEF Message
<1>4. w \in Nat /\ high \in Nat /\ (m.k = "vsh" => high >= top)
  BY <1>3
<1>5. \A x \in Nat, i \in DOMAIN all : Known(ms, i, ver, x) => Known(all, i, ver, x)
  BY <1>1 DEF Known
<1>6. \A x \in Nat : x <= v => Known(all, n, ver, x)
  BY <1>1, <1>2 DEF Decodable, Known
<1> HIDE DEF all, n
<1>7. ASSUME NEW i \in DOMAIN all, all[i].k \in {"key", "inter"}
      PROVE  Known(all, i, ver, all[i].ver)
  BY <1>1, <1>2, <1>3, <1>5, <1>6, <1>7 DEF Decodable
<1>8. VideoHeaders(all) = VideoHeaders(ms) \cup (IF m.k = "vsh" THEN {n} ELSE {})
  BY <1>1 DEF VideoHeaders
<1>9. \A i \in VideoHeaders(ms) : i \in DOMAIN ms /\ all[i] = ms[i] /\ i < n /\ ms[i].ver <= top
  BY <1>1 DEF VideoHeaders, Decodable
<1>10. \A i \in VideoHeaders(all) : all[i].ver <= high
  BY <1>1, <1>2, <1>3, <1>8, <1>9
<1>11. ASSUME NEW i \in VideoHeaders(all), NEW j \in VideoHeaders(all), i < j
       PROVE  all[i].ver <= all[j].ver
  <2>1. i \in VideoHeaders(ms)  BY <1>1, <1>8, <1>9, <1>11
  <2>2. CASE j \in VideoHeaders(ms)  BY <1>9, <1>11, <2>1, <2>2 DEF Decodable
  <2>3. CASE j = n /\ m.k = "vsh"
    <3>1. all[i].ver \in Nat /\ all[i].ver <= top  BY <1>2, <1>9, <2>1
    <3>2. all[j].ver = m.ver /\ m.ver >= top       BY <1>1, <2>3
    <3> QED  BY <1>3, <3>1, <3>2
  <2> QED  BY <1>8, <2>2, <2>3
<1>12. Known(all, n + 1, ver, w)
  <2>1. CASE m.k = "vsh"
    <3>1. n < n + 1 /\ all[n].k = "vsh" /\ all[n].ver >= w  BY <1>1, <1>3, <2>1
    <3> QED  BY <1>1, <3>1 DEF Known
  <2>2. CASE m.k # "vsh"
    <3>1. Known(all, n, ver, v)  BY <1>6
    <3>2. \A j \in DOMAIN all : j < n => j < n + 1  BY <1>1
    <3> QED  BY <2>2, <3>1, <3>2 DEF Known
  <2> QED  BY <2>1, <2>2
<1> HIDE DEF w, high
<1>13. Decodable(all, ver, w, high)
  BY <1>1, <1>7, <1>10, <1>11, <1>12 DEF Decodable
<1> QED  BY <1>13 DEF all, w, high

\* Shrinking the queue leaves the newest header in it, and no frame.
LEMMA DecodableShrunk ==
  ASSUME NEW out \in Seq(Message), NEW ms \in Seq(Message), NEW left \in Seq(Message),
         NEW ver \in Nat, NEW v \in Nat, NEW top \in Nat,
         Decodable(out \o ms, ver, v, top), Len(left) = Len(Headers2(ms)),
         \A i \in DOMAIN left : left[i].k = Headers2(ms)[i].k /\ left[i].ver = Headers2(ms)[i].ver
  PROVE  Decodable(out \o left, ver, v, top)
<1> DEFINE a == LastOf(ms, "vsh")
           b == LastOf(ms, "ash")
           hs == Headers2(ms)
           all == out \o ms
           new == out \o left
           n == Len(out)
<1>1. /\ a \in Seq(Message) /\ Len(a) <= 1 /\ b \in Seq(Message)
      /\ \A j \in DOMAIN ms : ms[j].k = "vsh" =>
           \E i \in DOMAIN ms : j <= i /\ ms[i].k = "vsh" /\ a = <<ms[i]>>
      /\ \A i \in DOMAIN a : \E j \in DOMAIN ms : a[i] = ms[j]
      /\ \A i \in DOMAIN b : b[i].k = "ash"
  BY LastOfFacts
<1>2. hs = a \o b
  BY DEF Headers2
<1>3. hs \in Seq(Message) /\ \A i \in DOMAIN hs : hs[i].k \in Headers
  BY Headers2Type
<1>4. n \in Nat /\ DOMAIN out = 1..n /\ out \in Seq(Message)
  OBVIOUS
<1>5. /\ all \in Seq(Message) /\ Len(all) = n + Len(ms)
      /\ \A i \in DOMAIN out : i \in DOMAIN all /\ all[i] = out[i]
      /\ \A i \in DOMAIN ms : n + i \in DOMAIN all /\ all[n + i] = ms[i]
      /\ \A i \in DOMAIN all : i \in DOMAIN out \/ i - n \in DOMAIN ms
  BY ConcatIndex
<1>6. /\ new \in Seq(Message) /\ Len(new) = n + Len(left)
      /\ \A i \in DOMAIN out : i \in DOMAIN new /\ new[i] = out[i]
      /\ \A i \in DOMAIN left : n + i \in DOMAIN new /\ new[n + i] = left[i]
      /\ \A i \in DOMAIN new : i \in DOMAIN out \/ i - n \in DOMAIN left
  BY ConcatIndex
<1>7. /\ DOMAIN left = DOMAIN hs
      /\ \A i \in DOMAIN hs : left[i].k = hs[i].k /\ left[i].ver = hs[i].ver
  BY <1>3
<1>8. /\ DOMAIN all \subseteq Nat /\ DOMAIN new \subseteq Nat /\ DOMAIN hs \subseteq Nat \ {0}
      /\ DOMAIN ms \subseteq Nat \ {0} /\ Len(all) \in Nat /\ Len(new) \in Nat
      /\ \A i \in DOMAIN all : i <= Len(all)
      /\ \A i \in DOMAIN new : i <= Len(new)
      /\ DOMAIN a \subseteq {1}
  BY <1>1, <1>3, <1>5, <1>6
<1>9. \A i \in DOMAIN all : all[i].ver \in Nat
  <2>1. \A i \in DOMAIN all : all[i] \in Message  BY <1>5
  <2> HIDE DEF all
  <2> QED  BY <2>1, DeliveryAssumption DEF Message
<1>10. \A i \in DOMAIN hs : hs[i].k = "vsh" =>
         i = 1 /\ 1 \in DOMAIN a /\ hs[1] = a[1]
  <2>1. \A i \in DOMAIN hs : (i \in DOMAIN a /\ hs[i] = a[i])
                              \/ (i - Len(a) \in DOMAIN b /\ hs[i] = b[i - Len(a)])
    BY <1>1, <1>2
  <2> HIDE DEF a, b, hs
  <2>2. ASSUME NEW i \in DOMAIN hs, hs[i].k = "vsh"
        PROVE  i = 1 /\ 1 \in DOMAIN a /\ hs[1] = a[1]
    <3>1. i \in DOMAIN a /\ hs[i] = a[i]  BY <1>1, <2>1, <2>2
    <3>2. i = 1  BY <1>8, <3>1
    <3> QED  BY <3>1, <3>2
  <2> QED  BY <2>2
<1>11. \A j \in DOMAIN ms : ms[j].k = "vsh" =>
         \E i \in DOMAIN ms : j <= i /\ ms[i].k = "vsh" /\ 1 \in DOMAIN hs /\ hs[1] = ms[i]
  <2>1. ASSUME NEW i \in DOMAIN ms, a = <<ms[i]>> PROVE 1 \in DOMAIN hs /\ hs[1] = ms[i]
    <3>1. ms[i] \in Message  OBVIOUS
    <3> HIDE DEF a, b, hs
    <3> QED  BY <1>1, <1>2, <2>1, <3>1
  <2> HIDE DEF a, b, hs
  <2> QED  BY <1>1, <2>1
<1> HIDE DEF a, b, hs, all, new, n
<1>12. \A i \in DOMAIN new : new[i].k = "vsh" =>
         \E j \in DOMAIN all : all[j].k = "vsh" /\ all[j].ver = new[i].ver
                               /\ (i \in DOMAIN out => j = i) /\ (i \notin DOMAIN out => j \notin DOMAIN out /\ i = n + 1)
  <2> SUFFICES ASSUME NEW i \in DOMAIN new, new[i].k = "vsh"
               PROVE  \E j \in DOMAIN all : all[j].k = "vsh" /\ all[j].ver = new[i].ver
                        /\ (i \in DOMAIN out => j = i) /\ (i \notin DOMAIN out => j \notin DOMAIN out /\ i = n + 1)
    OBVIOUS
  <2>1. CASE i \in DOMAIN out
    BY <1>5, <1>6, <2>1
  <2>2. CASE i \notin DOMAIN out
    <3>1. i - n \in DOMAIN left  BY <1>6, <2>2
    <3>2. i = n + (i - n)  BY <1>4, <1>8
    <3>3. new[i] = left[i - n]  BY <1>6, <3>1, <3>2
    <3>4. hs[i - n].k = "vsh" /\ hs[i - n].ver = new[i].ver  BY <1>7, <3>1, <3>3
    <3>5. i - n = 1 /\ 1 \in DOMAIN a /\ hs[1] = a[1]  BY <1>7, <1>10, <3>1, <3>4
    <3>6. PICK j \in DOMAIN ms : a[1] = ms[j]  BY <1>1, <3>5
    <3>7. n + j \in DOMAIN all /\ all[n + j] = ms[j]  BY <1>5
    <3>8. n + j \notin DOMAIN out  BY <1>4, <1>8
    <3>9. i = n + 1  BY <3>2, <3>5
    <3> QED  BY <2>2, <3>4, <3>5, <3>6, <3>7, <3>8, <3>9
  <2> QED  BY <2>1, <2>2
<1>13. ASSUME NEW i \in DOMAIN all, NEW j \in DOMAIN all, all[i].k = "vsh", all[j].k = "vsh", i < j
       PROVE  all[i].ver <= all[j].ver
  BY <1>13 DEF Decodable, VideoHeaders, all
<1>14. ASSUME NEW x \in Nat, Known(all, Len(all) + 1, ver, x)
       PROVE  Known(new, Len(new) + 1, ver, x)
  <2>1. CASE ver >= x  BY <2>1 DEF Known
  <2>2. CASE \E j \in DOMAIN all : j < Len(all) + 1 /\ all[j].k = "vsh" /\ all[j].ver >= x
    <3>1. PICK j \in DOMAIN all : all[j].k = "vsh" /\ all[j].ver >= x  BY <2>2
    <3>2. CASE j \in DOMAIN out
      <4>1. j \in DOMAIN new /\ new[j] = all[j] /\ j < Len(new) + 1  BY <1>5, <1>6, <1>8, <3>2
      <4> QED  BY <3>1, <4>1 DEF Known
    <3>3. CASE j \notin DOMAIN out
      <4>1. j - n \in DOMAIN ms  BY <1>5, <3>3
      <4>2. j = n + (j - n)  BY <1>4, <1>8
      <4>3. all[j] = ms[j - n]  BY <1>5, <4>1, <4>2
      <4>4. PICK i \in DOMAIN ms : j - n <= i /\ ms[i].k = "vsh" /\ 1 \in DOMAIN hs /\ hs[1] = ms[i]
        BY <1>11, <3>1, <4>1, <4>3
      <4>5. n + i \in DOMAIN all /\ all[n + i] = ms[i]  BY <1>5
      <4>6. j = n + i \/ j < n + i  BY <1>4, <1>8, <4>2, <4>4
      <4>7. all[j].ver <= all[n + i].ver
        BY <1>9, <1>13, <3>1, <4>4, <4>5, <4>6
      <4>8. all[n + i].ver >= x  BY <1>9, <3>1, <4>5, <4>7
      <4>9. n + 1 \in DOMAIN new /\ new[n + 1].k = "vsh" /\ new[n + 1].ver = ms[i].ver
        BY <1>6, <1>7, <4>4
      <4>10. n + 1 < Len(new) + 1  BY <1>4, <1>8, <4>9
      <4> QED  BY <4>5, <4>8, <4>9, <4>10 DEF Known
    <3> QED  BY <3>2, <3>3
  <2> QED  BY <1>14, <2>1, <2>2 DEF Known
<1>15. ASSUME NEW i \in DOMAIN new, new[i].k \in {"key", "inter"}
       PROVE  Known(new, i, ver, new[i].ver)
  <2>1. i \in DOMAIN out
    <3>1. ASSUME i - n \in DOMAIN left PROVE FALSE
      <4>1. i = n + (i - n)  BY <1>4, <1>8
      <4>2. new[i] = left[i - n]  BY <1>6, <3>1, <4>1
      <4>3. hs[i - n].k \in Headers /\ left[i - n].k = hs[i - n].k  BY <1>3, <1>7, <3>1
      <4> QED  BY <1>15, <4>2, <4>3 DEF Headers
    <3> QED  BY <1>6, <3>1
  <2>2. i \in DOMAIN all /\ all[i] = new[i]  BY <1>5, <1>6, <2>1
  <2>3. Known(all, i, ver, new[i].ver)  BY <1>15, <2>2 DEF Decodable, all
  <2>4. ASSUME NEW j \in DOMAIN all, j < i PROVE j \in DOMAIN new /\ new[j] = all[j]
    <3>1. j \in DOMAIN out  BY <1>4, <1>5, <1>8, <2>1, <2>4
    <3> QED  BY <1>5, <1>6, <3>1
  <2> QED  BY <2>3, <2>4 DEF Known
<1>16. ASSUME NEW i \in VideoHeaders(new) PROVE new[i].ver <= top
  BY <1>12 DEF VideoHeaders, Decodable, all
<1>17. ASSUME NEW i \in VideoHeaders(new), NEW j \in VideoHeaders(new), i < j
       PROVE  new[i].ver <= new[j].ver
  <2>1. i \in DOMAIN out
    <3>1. i \notin DOMAIN out => j \in DOMAIN out \/ j = n + 1  BY <1>12 DEF VideoHeaders
    <3>2. i \notin DOMAIN out => i = n + 1  BY <1>12 DEF VideoHeaders
    <3> QED  BY <1>4, <1>17, <3>1, <3>2
  <2>2. PICK k \in DOMAIN all : all[k].k = "vsh" /\ all[k].ver = new[j].ver
          /\ (j \in DOMAIN out => k = j) /\ (j \notin DOMAIN out => k \notin DOMAIN out)
    BY <1>12 DEF VideoHeaders
  <2>3. i \in DOMAIN all /\ all[i] = new[i]  BY <1>5, <1>6, <2>1
  <2>4. i < k  BY <1>4, <1>8, <1>17, <2>1, <2>2
  <2>5. i \in VideoHeaders(all) /\ k \in VideoHeaders(all)  BY <2>2, <2>3 DEF VideoHeaders
  <2> QED  BY <2>2, <2>3, <2>4, <2>5 DEF Decodable, all
<1>18. Known(new, Len(new) + 1, ver, v)
  BY <1>14 DEF Decodable, all
<1> QED  BY <1>15, <1>16, <1>17, <1>18 DEF Decodable, new

-----------------------------------------------------------------------------
(* What a player has at any time.                                          *)

\* A player of a stream whose last frame is the hi-th, whose frames need at most
\* the header v and whose newest header ever was top.
Player(c, hi, v, top) ==
  /\ c.at = "none" => c = Absent
  /\ c.at # "sending" => c.out = <<>>
  /\ Times(c)
  /\ c.at # "none" /\ ~c.cut => Contiguous(c.out \o c.msgs, c.n, hi)
  /\ c.at # "none" /\ ~ReduceHeaders => Decodable(c.out \o c.msgs, c.ver, v, top)

\* A header that is due may be older than v, and top newer.
LEMMA PlayerWeakens ==
  ASSUME NEW c \in Consumers, NEW hi, NEW v \in Nat, NEW top \in Nat, NEW w \in Nat,
         NEW high \in Nat, Player(c, hi, v, top), w <= v, top <= high
  PROVE  Player(c, hi, w, high)
<1> DEFINE s == c.out \o c.msgs
<1>1. ASSUME Decodable(s, c.ver, v, top) PROVE Decodable(s, c.ver, w, high)
  <2>1. s \in Seq(Message) /\ c.ver \in Nat  BY DeliveryAssumption DEF Consumers
  <2>2. \A i \in DOMAIN s : s[i].ver \in Nat
    <3> HIDE DEF s
    <3>1. \A i \in DOMAIN s : s[i] \in Message  BY <2>1
    <3> QED  BY <3>1, DeliveryAssumption DEF Message
  <2> HIDE DEF s
  <2>3. \A i \in VideoHeaders(s) : s[i].ver <= high
    BY <1>1, <2>2 DEF Decodable, VideoHeaders
  <2>4. Known(s, Len(s) + 1, c.ver, w)
    BY <1>1, <2>1, <2>2 DEF Decodable, Known
  <2> QED  BY <1>1, <2>3, <2>4 DEF Decodable
<1> HIDE DEF s
<1> QED  BY <1>1 DEF Player, s

\* An enqueue keeps it so.
LEMMA EnqueuedPlayer ==
  ASSUME NEW c \in Consumers, NEW m \in Message, NEW hi \in Nat, NEW v \in Nat, NEW top \in Nat,
         Player(c, hi, v, top), c.at # "none",
         m.k \in Frames => m.n = hi + 1,
         m.k \in {"key", "inter"} => m.ver <= v,
         m.k = "vsh" => m.ver >= top
  PROVE  /\ Enqueued(c, m) \in Consumers
         /\ Player(Enqueued(c, m), IF m.k \in Frames THEN hi + 1 ELSE hi,
                   IF m.k = "vsh" THEN m.ver ELSE v, IF m.k = "vsh" THEN m.ver ELSE top)
         /\ Fits(Enqueued(c, m)) /\ Enqueued(c, m).n = c.n /\ Enqueued(c, m).ver = c.ver
         /\ \/ Enqueued(c, m).at = c.at /\ Enqueued(c, m).waiting = c.waiting
               /\ ~(c.waiting /\ Enough(Enqueued(c, m)))
            \/ /\ c.waiting /\ ~Enqueued(c, m).waiting
               /\ Enqueued(c, m).at = IF c.at = "asleep" THEN "dumping" ELSE c.at
<1> DEFINE e == Enqueued(c, m)
<1>1. PICK f \in Message :
        /\ f.k = m.k /\ f.ver = m.ver /\ f.n = m.n
        /\ e \in Consumers /\ e.out = c.out /\ e.ver = c.ver /\ e.n = c.n
        /\ Kept(e, c, f) \/ Dropped(e, c, f, Headers2(Append(c.msgs, f)))
        /\ \/ e.at = c.at /\ e.waiting = c.waiting /\ ~(c.waiting /\ Enough(e))
           \/ c.waiting /\ ~e.waiting /\ e.at = IF c.at = "asleep" THEN "dumping" ELSE c.at
  BY EnqueuedFacts
<1>2. Times(e) /\ Fits(e)
  BY EnqueuedTimes DEF Player
<1> HIDE DEF e
<1>3. /\ c.msgs \in Seq(Message) /\ c.out \in Seq(Message) /\ c.ver \in Nat /\ c.n \in Nat
      /\ e.msgs \in Seq(Message)
  BY <1>1, DeliveryAssumption DEF Consumers
<1> DEFINE s == c.out \o c.msgs
           all == Append(c.msgs, f)
           up == IF m.k \in Frames THEN hi + 1 ELSE hi
           w == IF m.k = "vsh" THEN m.ver ELSE v
           high == IF m.k = "vsh" THEN m.ver ELSE top
<1>4. s \in Seq(Message) /\ all \in Seq(Message) /\ c.out \o all = Append(s, f)
  BY <1>3, ConcatAppend
<1>5. w \in Nat /\ high \in Nat
  BY DeliveryAssumption DEF Message
<1>6. e.at # "none" /\ (e.at # "sending" => e.out = <<>>)
  BY <1>1 DEF Player
<1> HIDE DEF s, all
<1>7. ~c.cut => Contiguous(Append(s, f), c.n, up)
  <2>1. ~c.cut => Contiguous(s, c.n, hi)  BY DEF Player, s
  <2> QED  BY <1>1, <1>3, <1>4, <2>1, ContiguousAppend
<1>8. ~ReduceHeaders => Decodable(Append(s, f), c.ver, w, high)
  <2>1. ~ReduceHeaders => Decodable(s, c.ver, v, top)  BY DEF Player, s
  <2> QED  BY <1>1, <1>3, <1>4, <2>1, DecodableAppend
<1> HIDE DEF up, w, high
<1>9. /\ ~e.cut => Contiguous(e.out \o e.msgs, e.n, up)
      /\ ~ReduceHeaders => Decodable(e.out \o e.msgs, e.ver, w, high)
  <2>1. CASE Kept(e, c, f)
    BY <1>1, <1>4, <1>7, <1>8, <2>1 DEF Kept, all
  <2>2. CASE Dropped(e, c, f, Headers2(Append(c.msgs, f)))
    <3> DEFINE hs == Headers2(all)
    <3>1. hs \in Seq(Message)  BY <1>4, Headers2Type
    <3>2. Dropped(e, c, f, hs)  BY <2>2 DEF all
    <3> HIDE DEF hs
    <3>3. Len(e.msgs) = Len(hs) /\ e.cut = TRUE  BY <3>2 DEF Dropped
    <3>4. ASSUME NEW i \in DOMAIN e.msgs PROVE e.msgs[i].k = hs[i].k /\ e.msgs[i].ver = hs[i].ver
      <4>1. i \in DOMAIN hs /\ hs[i] \in Message  BY <1>3, <3>1, <3>3
      <4>2. e.msgs[i] = [hs[i] EXCEPT !.ts = e.end]  BY <3>2, <4>1 DEF Dropped
      <4> QED  BY <4>1, <4>2 DEF Message
    <3>5. ~ReduceHeaders => Decodable(c.out \o e.msgs, c.ver, w, high)
      BY <1>3, <1>4, <1>5, <1>8, <3>3, <3>4, DecodableShrunk DEF hs
    <3> QED  BY <1>1, <3>3, <3>5
  <2> QED  BY <1>1, <2>1, <2>2
<1>10. Player(e, up, w, high)
  BY <1>2, <1>6, <1>9 DEF Player
<1> QED  BY <1>1, <1>2, <1>10 DEF e, up, w, high

\* What the source has for a player that joins: headers, the video's last and
\* of version v, then the frames after the lo-th.
Cache(ms, h, lo, v) ==
  /\ h \in Nat /\ h <= Len(ms)
  /\ \A i \in DOMAIN ms : i <= h =>
       ms[i].k \notin Frames /\ (ms[i].k = "vsh" => i = h /\ ms[i].ver = v)
  /\ v > 0 => h > 0 /\ ms[h].k = "vsh"
  /\ \A i \in DOMAIN ms : i > h =>
       ms[i].k \in Frames /\ ms[i].n = lo + (i - h) /\ ms[i].ver <= v

\* After it has got all of them the player is at the last frame, by induction.
LEMMA EnqueuedAllPlayer ==
  ASSUME NEW c \in Consumers, NEW ms \in Seq(Message), NEW h, NEW lo \in Nat, NEW v \in Nat,
         Cache(ms, h, lo, v), Player(c, lo, 0, 0), Fits(c), c.at = "loop", ~c.waiting
  PROVE  /\ EnqueuedAll(c, ms) \in Consumers /\ EnqueuedAll(c, ms).at = "loop"
         /\ Fits(EnqueuedAll(c, ms))
         /\ Player(EnqueuedAll(c, ms), lo + (Len(ms) - h), v, v)
<1>1. PICK f : IsRun(f, c, ms, Len(ms)) /\ EnqueuedAll(c, ms) = f[Len(ms)]
  <2>1. Len(ms) \in Nat  OBVIOUS
  <2> QED  BY <2>1, EnqueuedAllRuns
<1> DEFINE At(i) == IF i <= h THEN lo ELSE lo + (i - h)
           Ver(i) == IF i < h THEN 0 ELSE v
           Good(i) == /\ f[i] \in Consumers /\ f[i].at = "loop" /\ ~f[i].waiting /\ Fits(f[i])
                      /\ Player(f[i], At(i), Ver(i), Ver(i))
           Bad == {i \in 0..Len(ms) : ~Good(i)}
<1>2. Len(ms) \in Nat /\ h \in 0..Len(ms) /\ DOMAIN ms = 1..Len(ms)
  BY DEF Cache
<1>3. ASSUME NEW i \in 0..Len(ms) PROVE At(i) \in Nat /\ Ver(i) \in Nat
  BY <1>2
<1>4. Good(0)
  <2>1. f[0] = c  BY <1>1, <1>2 DEF IsRun
  <2>2. At(0) = lo  BY <1>2
  <2>3. Ver(0) = 0
    <3>1. CASE h = 0  BY <3>1 DEF Cache
    <3>2. CASE h # 0  BY <1>2, <3>2
    <3> QED  BY <3>1, <3>2
  <2> HIDE DEF At, Ver
  <2> QED  BY <2>1, <2>2, <2>3
<1>5. ASSUME NEW i \in 1..Len(ms), Good(i - 1) PROVE Good(i)
  <2> DEFINE m == ms[i]
             g == f[i - 1]
  <2>1. f[i] = Enqueued(g, m)  BY <1>1, <1>2 DEF IsRun
  <2>2. m \in Message  BY <1>2
  <2>3. i - 1 \in 0..Len(ms) /\ At(i - 1) \in Nat /\ Ver(i - 1) \in Nat  BY <1>2, <1>3
  <2>4. CASE i <= h
    <3>1. m.k \notin Frames /\ (m.k = "vsh" => i = h /\ m.ver = v)  BY <1>2, <2>4 DEF Cache
    <3>2. Ver(i - 1) = 0 /\ At(i - 1) = lo /\ At(i) = lo  BY <1>2, <2>4
    <3>3. Ver(i) = IF m.k = "vsh" THEN m.ver ELSE 0
      <4>1. CASE i = h /\ m.k # "vsh"
        <5>1. v = 0  BY <1>2, <4>1 DEF Cache
        <5> QED  BY <4>1, <5>1
      <4>2. CASE i = h /\ m.k = "vsh"  BY <3>1, <4>2
      <4>3. CASE i # h  BY <1>2, <2>4, <3>1, <4>3
      <4> QED  BY <4>1, <4>2, <4>3
    <3> HIDE DEF At, Ver, m, g
    <3>4. Player(g, lo, 0, 0) /\ g \in Consumers /\ g.at = "loop" /\ ~g.waiting
      BY <1>5, <3>2 DEF g
    <3>5. m.k \notin {"key", "inter"} /\ (m.k = "vsh" => m.ver >= 0)
      BY <3>1, <2>2 DEF Frames, Message
    <3>6. /\ Enqueued(g, m) \in Consumers
          /\ Player(Enqueued(g, m), lo, IF m.k = "vsh" THEN m.ver ELSE 0, IF m.k = "vsh" THEN m.ver ELSE 0)
          /\ Enqueued(g, m).at = "loop" /\ ~Enqueued(g, m).waiting /\ Fits(Enqueued(g, m))
      BY <2>2, <3>1, <3>4, <3>5, EnqueuedPlayer
    <3> QED  BY <2>1, <3>2, <3>3, <3>6
  <2>5. CASE i > h
    <3>1. m.k \in Frames /\ m.n = lo + (i - h) /\ m.ver <= v  BY <1>2, <2>5 DEF Cache
    <3>2. Ver(i - 1) = v /\ Ver(i) = v /\ At(i) = At(i - 1) + 1 /\ m.n = At(i - 1) + 1
      BY <1>2, <2>5, <3>1
    <3> HIDE DEF At, Ver, m, g
    <3>3. Player(g, At(i - 1), v, v) /\ g \in Consumers /\ g.at = "loop" /\ ~g.waiting
      BY <1>5, <3>2 DEF g
    <3>4. m.k # "vsh"  BY <3>1 DEF Frames
    <3>5. /\ Enqueued(g, m) \in Consumers
          /\ Player(Enqueued(g, m), At(i - 1) + 1, v, v)
          /\ Enqueued(g, m).at = "loop" /\ ~Enqueued(g, m).waiting /\ Fits(Enqueued(g, m))
      BY <2>2, <2>3, <3>1, <3>2, <3>3, <3>4, EnqueuedPlayer
    <3> QED  BY <2>1, <3>2, <3>5
  <2> QED  BY <1>2, <2>4, <2>5
<1> HIDE DEF Good
<1>6. CASE Bad # {}
  <2>1. Bad \subseteq Nat  BY <1>2
  <2>2. PICK k \in Bad : \A j \in Bad : k <= j  BY <1>6, <2>1, LeastNumber
  <2>3. k \in 1..Len(ms) /\ k - 1 \in 0..Len(ms) /\ ~(k <= k - 1)  BY <1>2, <1>4, <2>2
  <2>4. Good(k - 1)  BY <2>2, <2>3
  <2> QED  BY <1>5, <2>2, <2>3, <2>4
<1>7. CASE Bad = {}
  <2>1. Good(Len(ms))  BY <1>2, <1>7
  <2>2. At(Len(ms)) = lo + (Len(ms) - h) /\ Ver(Len(ms)) = v  BY <1>2
  <2> HIDE DEF At, Ver
  <2> QED  BY <1>1, <2>1, <2>2 DEF Good
<1> QED  BY <1>6, <1>7

-----------------------------------------------------------------------------
(* The inductive invariant.                                                *)

\* The cached frames are the last of the stream; there is none while nobody
\* publishes, nor before there is a video.
GopInv ==
  /\ gop.videos = 0 \/ ~src.on => gop.frames = <<>>
  /\ Len(gop.frames) <= src.n
  /\ \A i \in DOMAIN gop.frames :
       gop.frames[i].n = src.n - Len(gop.frames) + i /\ gop.frames[i].ver <= src.vsh

SrcInv == src.n <= src.sent /\ src.vsh <= src.ver

\* The header the next frame needs.
Due == IF src.on THEN src.vsh ELSE 0

IInv ==
  /\ TypeOK
  /\ SrcInv
  /\ GopInv
  /\ NoLostWakeup
  /\ Player(con, src.n, Due, src.ver)

LEMMA AbsentPlayer ==
  Absent \in Consumers /\ \A hi, v, top : Player(Absent, hi, v, top)
<1>1. Absent.msgs = <<>> /\ Absent.out = <<>> /\ Absent.start = -1 /\ Absent.end = -1
      /\ Absent.fixed = -1 /\ Absent.at = "none"
  BY DEF Absent
<1>2. Absent \in Consumers
  BY DeliveryAssumption DEF Absent, Consumers
<1>3. Times(Absent)
  BY <1>1 DEF Times, QueueTimes, Timed, First, Last, Next2
<1> QED  BY <1>1, <1>2, <1>3 DEF Player

\* Taking messages from the queue: those that stay keep their order, and the
\* last one taken is at most a step of the jitter later than the next.
LEMMA TimesTaken ==
  ASSUME NEW ms \in Seq(Message), NEW start \in Nat \cup {-1}, NEW end \in Nat \cup {-1},
         QueueTimes(ms, start, end), NEW count \in 1..Len(ms)
  PROVE  QueueTimes(SubSeq(ms, count + 1, Len(ms)), ms[count].ts, end)
<1> DEFINE left == SubSeq(ms, count + 1, Len(ms))
<1>1. Len(ms) \in Nat /\ count \in Nat /\ DOMAIN ms = 1..Len(ms) /\ MaxJitter \in Nat
  BY DeliveryAssumption
<1>2. /\ DOMAIN left = 1..(Len(ms) - count)
      /\ \A i \in DOMAIN left : left[i] = ms[count + i] /\ count + i \in DOMAIN ms
  BY <1>1
<1>3. \A i \in DOMAIN ms : ms[i].ts \in Nat
  <2>1. \A i \in DOMAIN ms : ms[i] \in Message  OBVIOUS
  <2> QED  BY <2>1 DEF Message
<1> HIDE DEF left
<1>4. \A i \in DOMAIN left : i \in Timed(left) <=> count + i \in Timed(ms)
  BY <1>2 DEF Timed
<1>5. \A j \in DOMAIN ms : j > count => j - count \in DOMAIN left /\ count + (j - count) = j
  BY <1>1, <1>2
<1>6. \A j \in Timed(ms) : j \in DOMAIN ms
  BY DEF Timed
<1>7. \A i \in Timed(left) : i \in DOMAIN left
  BY DEF Timed
<1>8. count \notin Timed(ms) => ms[count].ts = 0
  <2>1. ~IsAv(ms[count]) => ms[count].ts = 0  BY <1>1 DEF QueueTimes
  <2> QED  BY <1>1, <2>1 DEF Timed
<1>9. ASSUME NEW i \in DOMAIN left, First(left, i) PROVE left[i].ts >= ms[count].ts - MaxJitter
  <2>1. count + i \in Timed(ms)  BY <1>4, <1>9 DEF First
  <2>2. CASE count \in Timed(ms)
    <3>1. ASSUME NEW k \in Timed(ms), count < k, k < count + i PROVE FALSE
      <4>1. k - count \in Timed(left)  BY <1>4, <1>5, <1>6, <3>1
      <4>2. k - count < i  BY <1>1, <1>2, <1>6, <3>1
      <4>3. i <= k - count  BY <1>9, <4>1 DEF First
      <4> QED  BY <1>1, <1>2, <1>6, <4>2, <4>3
    <3>2. count < count + i  BY <1>1, <1>2
    <3>3. Next2(ms, count, count + i)  BY <2>1, <2>2, <3>1, <3>2 DEF Next2
    <3> QED  BY <1>1, <1>2, <3>3 DEF QueueTimes
  <2>3. CASE count \notin Timed(ms)
    <3>1. left[i].ts \in Nat  BY <1>2, <1>3
    <3> QED  BY <1>1, <1>8, <2>3, <3>1
  <2> QED  BY <2>2, <2>3
<1>10. ASSUME NEW i \in DOMAIN left, Last(left, i) PROVE left[i].ts = end
  <2>1. count + i \in Timed(ms)  BY <1>4, <1>10 DEF Last
  <2>2. ASSUME NEW k \in Timed(ms) PROVE k <= count + i
    <3>1. CASE k <= count  BY <1>1, <1>2, <1>6, <3>1
    <3>2. CASE k > count
      <4>1. k - count \in Timed(left)  BY <1>4, <1>5, <1>6, <3>2
      <4>2. k - count <= i  BY <1>10, <4>1 DEF Last
      <4> QED  BY <1>1, <1>2, <1>6, <4>2
    <3> QED  BY <1>1, <1>6, <3>1, <3>2
  <2>3. Last(ms, count + i)  BY <2>1, <2>2 DEF Last
  <2> QED  BY <1>2, <2>3 DEF QueueTimes
<1>11. ASSUME NEW i \in DOMAIN left, NEW j \in DOMAIN left, Next2(left, i, j)
       PROVE  left[j].ts >= left[i].ts - MaxJitter
  <2>1. count + i \in Timed(ms) /\ count + j \in Timed(ms) /\ count + i < count + j
    BY <1>1, <1>2, <1>4, <1>11 DEF Next2
  <2>2. ASSUME NEW k \in Timed(ms), count + i < k, k < count + j PROVE FALSE
    <3>1. k \in Nat  BY <1>1, <1>6
    <3>2. i \in Nat \ {0}  BY <1>2
    <3>3. j \in Nat \ {0}  BY <1>2
    <3>4. k > count /\ i < k - count /\ k - count < j  BY <1>1, <2>2, <3>1, <3>2, <3>3
    <3>5. k - count \in Timed(left)  BY <1>4, <1>5, <1>6, <3>4
    <3> QED  BY <1>11, <3>4, <3>5 DEF Next2
  <2>3. Next2(ms, count + i, count + j)  BY <2>1, <2>2 DEF Next2
  <2> QED  BY <1>2, <2>3 DEF QueueTimes
<1>12. ASSUME Timed(left) = {} PROVE ms[count].ts <= 0 \/ ms[count].ts = end
  <2>1. CASE count \in Timed(ms)
    <3>1. ASSUME NEW k \in Timed(ms) PROVE k <= count
      <4>1. ~(k > count)  BY <1>4, <1>5, <1>6, <1>12
      <4> QED  BY <1>1, <1>6, <4>1
    <3>2. Last(ms, count)  BY <2>1, <3>1 DEF Last
    <3> QED  BY <1>1, <3>2 DEF QueueTimes
  <2>2. CASE count \notin Timed(ms)  BY <1>8, <2>2
  <2> QED  BY <2>1, <2>2
<1>13. ms[count].ts # -1
  BY <1>1, <1>3
<1>14. \A i \in DOMAIN left : ~IsAv(left[i]) => left[i].ts = 0
  BY <1>2 DEF QueueTimes
<1> QED  BY <1>9, <1>10, <1>11, <1>12, <1>13, <1>14 DEF QueueTimes, left

\* Once out has been sent the player needs what follows its last frame.
LEMMA ContiguousSent ==
  ASSUME NEW out \in Seq(Message), NEW ms \in Seq(Message), NEW lo \in Nat, NEW hi \in Nat,
         Contiguous(out \o ms, lo, hi)
  PROVE  Contiguous(ms, IF FramesOf(out) = {} THEN lo ELSE out[Max(FramesOf(out))].n, hi)
<1> DEFINE all == out \o ms
           n == Len(out)
           lo2 == IF FramesOf(out) = {} THEN lo ELSE out[Max(FramesOf(out))].n
<1>1. /\ n \in Nat /\ DOMAIN out = 1..n /\ DOMAIN ms = 1..Len(ms) /\ Len(ms) \in Nat
      /\ all \in Seq(Message) /\ DOMAIN all = 1..(n + Len(ms))
      /\ \A i \in DOMAIN out : i \in DOMAIN all /\ all[i] = out[i]
      /\ \A i \in DOMAIN ms : n + i \in DOMAIN all /\ all[n + i] = ms[i]
      /\ \A i \in DOMAIN all : i \in DOMAIN out \/ i - n \in DOMAIN ms
  BY ConcatIndex
<1> HIDE DEF all, n
<1>2. \A i \in DOMAIN all : all[i].n \in Nat
  <2>1. \A i \in DOMAIN all : all[i] \in Message  BY <1>1
  <2> QED  BY <2>1 DEF Message
<1>3. \A i \in FramesOf(ms) : n + i \in FramesOf(all) /\ all[n + i] = ms[i] /\ i \in DOMAIN ms
  BY <1>1 DEF FramesOf
<1>4. \A i \in FramesOf(out) : i \in FramesOf(all) /\ all[i] = out[i] /\ i \in 1..n
  BY <1>1 DEF FramesOf
<1>5. \A i \in FramesOf(all) : i \in FramesOf(out) \/ (i - n \in FramesOf(ms) /\ all[i] = ms[i - n])
  <2>1. \A i \in DOMAIN all : i = n + (i - n)  BY <1>1
  <2> QED  BY <1>1, <2>1 DEF FramesOf
<1>6. /\ lo2 \in Nat /\ lo <= lo2 /\ lo2 <= hi
      /\ \A i \in FramesOf(out) : out[i].n <= lo2
      /\ \A i \in FramesOf(ms) : lo2 < ms[i].n
  <2>1. CASE FramesOf(out) = {}
    <3>1. lo2 = lo  BY <2>1
    <3>2. \A i \in FramesOf(ms) : lo < ms[i].n  BY <1>3 DEF Contiguous, all
    <3> QED  BY <2>1, <3>1, <3>2 DEF Contiguous
  <2>2. CASE FramesOf(out) # {}
    <3> DEFINE l == Max(FramesOf(out))
    <3>1. FramesOf(out) \subseteq 0..n  BY <1>1, <1>4
    <3>2. l \in FramesOf(out) /\ \A i \in FramesOf(out) : i <= l  BY <1>1, <2>2, <3>1, MaxIsGreatest
    <3>3. lo2 = out[l].n  BY <2>2
    <3> HIDE DEF l, lo2
    <3>4. l \in FramesOf(all) /\ all[l].n = lo2 /\ l \in 1..n /\ l \in DOMAIN all
      BY <1>1, <1>4, <3>2, <3>3
    <3>5. lo2 \in Nat /\ lo < lo2 /\ lo2 <= hi  BY <1>2, <3>4 DEF Contiguous, all
    <3>6. ASSUME NEW i \in FramesOf(out) PROVE out[i].n <= lo2
      <4>1. i \in FramesOf(all) /\ all[i] = out[i] /\ i <= l /\ i \in 1..n /\ i \in DOMAIN all
        BY <1>1, <1>4, <3>2
      <4>2. CASE i = l  BY <3>3, <3>5, <4>2
      <4>3. CASE i < l
        <5>1. all[i].n < all[l].n  BY <3>4, <4>1, <4>3 DEF Contiguous, all
        <5> QED  BY <1>2, <3>4, <3>5, <4>1, <5>1
      <4> QED  BY <3>4, <4>1, <4>2, <4>3
    <3>7. ASSUME NEW i \in FramesOf(ms) PROVE lo2 < ms[i].n
      <4>1. i \in DOMAIN ms  BY <1>3
      <4>2. l < n + i  BY <1>1, <3>4, <4>1
      <4>3. all[l].n < all[n + i].n  BY <1>3, <3>4, <4>2 DEF Contiguous, all
      <4> QED  BY <1>3, <3>4, <4>3
    <3> QED  BY <3>5, <3>6, <3>7
  <2> QED  BY <2>1, <2>2
<1> HIDE DEF lo2
<1>7. \A i \in FramesOf(ms) : ms[i].n <= hi
  BY <1>3 DEF Contiguous, all
<1>8. ASSUME NEW x \in (lo2 + 1)..hi PROVE \E i \in FramesOf(ms) : ms[i].n = x
  <2>1. x \in (lo + 1)..hi  BY <1>6
  <2>2. PICK i \in FramesOf(all) : all[i].n = x  BY <2>1 DEF Contiguous, all
  <2>3. i \notin FramesOf(out)
    <3>1. ASSUME i \in FramesOf(out) PROVE FALSE
      <4>1. out[i].n <= lo2 /\ out[i].n = x  BY <1>4, <1>6, <2>2, <3>1
      <4> QED  BY <1>6, <4>1
    <3> QED  BY <3>1
  <2> QED  BY <1>5, <2>2, <2>3
<1>9. ASSUME NEW i \in FramesOf(ms), NEW j \in FramesOf(ms), i < j PROVE ms[i].n < ms[j].n
  <2>1. n + i < n + j  BY <1>1, <1>3, <1>9
  <2>2. all[n + i].n < all[n + j].n  BY <1>3, <2>1 DEF Contiguous, all
  <2> QED  BY <1>3, <2>2
<1>10. Contiguous(ms, lo2, hi)
  BY <1>6, <1>7, <1>8, <1>9 DEF Contiguous
<1> QED  BY <1>10 DEF lo2

\* And it has the newest of the headers it was sent.
LEMMA DecodableSent ==
  ASSUME NEW out \in Seq(Message), NEW ms \in Seq(Message), NEW ver, NEW v \in Nat,
         NEW top, NEW new \in Nat, ver \in Nat, new >= ver,
         \A i \in VideoHeaders(out) : out[i].ver <= new,
         Decodable(out \o ms, ver, v, top)
  PROVE  Decodable(ms, new, v, top)
<1> DEFINE all == out \o ms
           n == Len(out)
<1>1. /\ n \in Nat /\ DOMAIN out = 1..n /\ DOMAIN ms = 1..Len(ms) /\ Len(ms) \in Nat
      /\ all \in Seq(Message) /\ DOMAIN all = 1..(n + Len(ms)) /\ Len(all) = n + Len(ms)
      /\ \A i \in DOMAIN out : i \in DOMAIN all /\ all[i] = out[i]
      /\ \A i \in DOMAIN ms : n + i \in DOMAIN all /\ all[n + i] = ms[i]
      /\ \A i \in DOMAIN all : i \in DOMAIN out \/ i - n \in DOMAIN ms
  BY ConcatIndex
<1> HIDE DEF all, n
<1>2. \A i \in DOMAIN all : all[i].ver \in Nat
  <2>1. \A i \in DOMAIN all : all[i] \in Message  BY <1>1
  <2> QED  BY <2>1, DeliveryAssumption DEF Message
<1>3. ASSUME NEW i \in Nat, NEW x \in Nat, Known(all, n + i, ver, x) PROVE Known(ms, i, new, x)
  <2>1. CASE ver >= x  BY <2>1 DEF Known
  <2>2. CASE ~(ver >= x)
    <3>1. PICK j \in DOMAIN all : j < n + i /\ all[j].k = "vsh" /\ all[j].ver >= x
      BY <1>3, <2>2 DEF Known
    <3>2. CASE j \in DOMAIN out
      <4>1. all[j].ver <= new /\ all[j].ver \in Nat  BY <1>1, <1>2, <3>1, <3>2 DEF VideoHeaders
      <4>2. new >= x  BY <3>1, <4>1
      <4> QED  BY <4>2 DEF Known
    <3>3. CASE j - n \in DOMAIN ms
      <4>1. j = n + (j - n) /\ j - n < i  BY <1>1, <3>1
      <4>2. all[j] = ms[j - n]  BY <1>1, <3>3, <4>1
      <4> QED  BY <3>1, <3>3, <4>1, <4>2 DEF Known
    <3> QED  BY <1>1, <3>2, <3>3
  <2> QED  BY <2>1, <2>2
<1>4. \A i \in VideoHeaders(ms) : n + i \in VideoHeaders(all) /\ all[n + i] = ms[i] /\ i \in DOMAIN ms
  BY <1>1 DEF VideoHeaders
<1>5. ASSUME NEW i \in DOMAIN ms, ms[i].k \in {"key", "inter"} PROVE Known(ms, i, new, ms[i].ver)
  <2>1. n + i \in DOMAIN all /\ all[n + i] = ms[i] /\ i \in Nat  BY <1>1
  <2>2. Known(all, n + i, ver, ms[i].ver)  BY <1>5, <2>1 DEF Decodable, all
  <2>3. ms[i].ver \in Nat  BY <1>2, <2>1
  <2> QED  BY <1>3, <2>1, <2>2, <2>3
<1>6. ASSUME NEW i \in VideoHeaders(ms), NEW j \in VideoHeaders(ms), i < j PROVE ms[i].ver <= ms[j].ver
  <2>1. n + i < n + j  BY <1>1, <1>4, <1>6
  <2> QED  BY <1>4, <2>1 DEF Decodable, all
<1>7. \A i \in VideoHeaders(ms) : ms[i].ver <= top
  BY <1>4 DEF Decodable, all
<1>8. Known(ms, Len(ms) + 1, new, v)
  <2>1. Len(all) + 1 = n + (Len(ms) + 1)  BY <1>1
  <2>2. Known(all, n + (Len(ms) + 1), ver, v)  BY <2>1 DEF Decodable, all
  <2> QED  BY <1>1, <1>3, <2>2
<1> QED  BY <1>5, <1>6, <1>7, <1>8 DEF Decodable

-----------------------------------------------------------------------------
(* The steps.                                                              *)

\* What a message from the publisher does to the player.
LEMMA ToConsumerStep ==
  ASSUME IInv, NEW m \in Message, ToConsumer(m),
         m.k \in Frames => m.n = src.n + 1,
         m.k \in {"key", "inter"} => m.ver <= Due,
         m.k = "vsh" => m.ver >= src.ver
  PROVE  /\ con' \in Consumers
         /\ Player(con', IF m.k \in Frames THEN src.n + 1 ELSE src.n,
                   IF m.k = "vsh" THEN m.ver ELSE Due, IF m.k = "vsh" THEN m.ver ELSE src.ver)
         /\ con'.at = "asleep" => con.at = "asleep" /\ con'.waiting /\ ~Enough(con')
         /\ con' = con \/ Fits(con')
<1>1. con \in Consumers /\ src.n \in Nat /\ Due \in Nat /\ src.ver \in Nat
  BY DeliveryAssumption DEF IInv, TypeOK, Due
<1>2. Player(con, src.n, Due, src.ver) /\ (con.at = "asleep" => con.waiting)
  BY DEF IInv, NoLostWakeup
<1>3. CASE con.at = "none"
  <2>1. con' = Absent /\ con' = con  BY <1>2, <1>3 DEF ToConsumer, Player
  <2> QED  BY <2>1, AbsentPlayer DEF Absent
<1>4. CASE con.at # "none"
  <2>1. con' = Enqueued(con, m)  BY <1>4 DEF ToConsumer
  <2> HIDE DEF ToConsumer
  <2> QED  BY <1>1, <1>2, <1>4, <2>1, EnqueuedPlayer
<1> QED  BY <1>3, <1>4

\* What the GOP cache does with the next frame.
LEMMA CachedStep ==
  ASSUME IInv, src.on, NEW m \in Message, m.k \in Frames, m.n = src.n + 1, m.ver <= src.vsh,
         src'.on = src.on, src'.n = src.n + 1, src'.vsh = src.vsh, gop' = Cached(gop, m)
  PROVE  /\ gop' \in [frames : Seq({x \in Message : x.k \in Frames}), videos : Nat, audios : Nat]
         /\ GopInv'
<1> DEFINE F == {x \in Message : x.k \in Frames}
           kept == IF m.k = "key" THEN <<m>> ELSE Append(gop.frames, m)
           videos == IF IsVideo(m) THEN gop.videos + 1 ELSE gop.videos
           audios == IF IsVideo(m) THEN 0 ELSE gop.audios + 1
<1>1. /\ gop.frames \in Seq(F) /\ gop.videos \in Nat /\ gop.audios \in Nat /\ src.n \in Nat
      /\ src.vsh \in Nat /\ src.on \in BOOLEAN
      /\ gop = [frames |-> gop.frames, videos |-> gop.videos, audios |-> gop.audios]
  BY DeliveryAssumption DEF IInv, TypeOK
<1>2. /\ gop.videos = 0 => gop.frames = <<>>
      /\ Len(gop.frames) <= src.n
      /\ \A i \in DOMAIN gop.frames :
           gop.frames[i].n = src.n - Len(gop.frames) + i /\ gop.frames[i].ver <= src.vsh
  BY DEF IInv, GopInv
<1>3. videos \in Nat /\ audios \in Nat /\ m \in F
  BY <1>1
<1>4. /\ kept \in Seq(F) /\ Len(kept) <= src.n + 1
      /\ \A i \in DOMAIN kept : kept[i].n = (src.n + 1) - Len(kept) + i /\ kept[i].ver <= src.vsh
  <2> HIDE DEF F
  <2>1. CASE m.k = "key"
    <3>1. kept = <<m>>  BY <2>1
    <3> HIDE DEF kept
    <3>2. kept \in Seq(F) /\ Len(kept) = 1 /\ DOMAIN kept = {1} /\ kept[1] = m  BY <1>3, <3>1
    <3> QED  BY <1>1, <3>2
  <2>2. CASE m.k # "key"
    <3>1. kept = Append(gop.frames, m)  BY <2>2
    <3> HIDE DEF kept
    <3> DEFINE l == Len(gop.frames)
    <3>2. /\ l \in Nat /\ kept \in Seq(F) /\ Len(kept) = l + 1 /\ DOMAIN kept = 1..(l + 1)
          /\ kept[l + 1] = m /\ DOMAIN gop.frames = 1..l
          /\ \A i \in 1..l : kept[i] = gop.frames[i]
      BY <1>1, <1>3, <3>1
    <3>3. \A i \in 1..l : kept[i].n = src.n - l + i /\ kept[i].ver <= src.vsh
      BY <1>2, <3>2
    <3>4. \A i \in 1..(l + 1) : i \in 1..l \/ i = l + 1  BY <3>2
    <3>5. l <= src.n  BY <1>2
    <3> HIDE DEF l
    <3>6. ASSUME NEW i \in 1..(l + 1)
          PROVE  kept[i].n = (src.n + 1) - (l + 1) + i /\ kept[i].ver <= src.vsh
      <4>1. CASE i = l + 1  BY <1>1, <3>2, <4>1
      <4>2. CASE i \in 1..l  BY <1>1, <3>2, <3>3, <4>2
      <4> QED  BY <3>4, <4>1, <4>2
    <3> QED  BY <1>1, <3>2, <3>5, <3>6
  <2> QED  BY <2>1, <2>2
<1>5. gop' = IF videos = 0 THEN gop
             ELSE IF audios > PureAudio \/ (MaxFrames > 0 /\ Len(kept) > MaxFrames) THEN Gop0
             ELSE [frames |-> kept, videos |-> IF m.k = "key" THEN 1 ELSE videos, audios |-> audios]
  BY DEF Cached
<1> HIDE DEF kept, audios, F
<1>6. CASE gop' = gop /\ videos = 0
  <2>1. gop.videos = 0  BY <1>1, <1>6
  <2> QED  BY <1>1, <1>2, <1>6, <2>1 DEF GopInv, F
<1>7. CASE gop' = Gop0
  <2>1. <<>> \in Seq(F)  OBVIOUS
  <2> QED  BY <1>1, <1>7, <2>1 DEF Gop0, GopInv, F
<1>8. CASE videos # 0 /\ gop' = [frames |-> kept, videos |-> IF m.k = "key" THEN 1 ELSE videos, audios |-> audios]
  <2>1. gop'.frames = kept /\ gop'.videos # 0 /\ gop'.videos \in Nat /\ gop'.audios = audios
    BY <1>3, <1>8
  <2> QED  BY <1>1, <1>3, <1>4, <1>8, <2>1 DEF GopInv, F
<1> QED  BY <1>5, <1>6, <1>7, <1>8

\* What the player takes from its queue it is about to get.
LEMMA DumpsStep ==
  ASSUME IInv, DumpsPackets
  PROVE  con' \in Consumers /\ Player(con', src.n, Due, src.ver) /\ con'.at # "asleep"
<1> DEFINE all == Len(con.msgs)
           count == IF con.paused THEN 0 ELSE IF OneByOne /\ all > 0 THEN 1 ELSE all
<1>1. /\ con \in Consumers /\ con.at = "dumping" /\ con.out = <<>> /\ con.msgs \in Seq(Message)
      /\ Player(con, src.n, Due, src.ver)
  BY DEF IInv, TypeOK, Player, DumpsPackets, Consumers
<1>2. all \in Nat /\ count \in 0..all
  BY <1>1
<1>3. con' = IF count = 0 THEN [con EXCEPT !.at = "loop"]
             ELSE [con EXCEPT !.at = "sending", !.out = SubSeq(con.msgs, 1, count),
                              !.msgs = SubSeq(con.msgs, count + 1, all),
                              !.start = con.msgs[count].ts]
  BY DEF DumpsPackets
<1> HIDE DEF count
<1>4. CASE count = 0
  <2>1. con' = [con EXCEPT !.at = "loop"]  BY <1>3, <1>4
  <2>2. con' \in Consumers /\ con'.at = "loop"  BY <1>1, <2>1 DEF Consumers
  <2>3. /\ con'.out = con.out /\ con'.msgs = con.msgs /\ con'.start = con.start
        /\ con'.end = con.end /\ con'.fixed = con.fixed /\ con'.cut = con.cut
        /\ con'.ver = con.ver /\ con'.n = con.n
    BY <1>1, <2>1 DEF Consumers
  <2> QED  BY <1>1, <2>2, <2>3 DEF Player, Times
<1>5. CASE count # 0
  <2> DEFINE taken == SubSeq(con.msgs, 1, count)
             left == SubSeq(con.msgs, count + 1, all)
  <2>1. count \in 1..all  BY <1>2, <1>5
  <2>2. con' = [con EXCEPT !.at = "sending", !.out = taken, !.msgs = left,
                           !.start = con.msgs[count].ts]
    BY <1>3, <1>5
  <2>3. taken \in Seq(Message) /\ left \in Seq(Message) /\ taken \o left = con.msgs
    BY <1>1, <2>1
  <2>4. con.msgs[count].ts \in Nat
    <3>1. con.msgs[count] \in Message  BY <1>1, <2>1
    <3> QED  BY <3>1 DEF Message
  <2>5. QueueTimes(left, con.msgs[count].ts, con.end)
    <3>1. QueueTimes(con.msgs, con.start, con.end)  BY <1>1 DEF Player, Times
    <3>2. con.start \in Nat \cup {-1} /\ con.end \in Nat \cup {-1}  BY <1>1 DEF Consumers
    <3> QED  BY <1>1, <2>1, <3>1, <3>2, TimesTaken
  <2> HIDE DEF taken, left
  <2>6. con' \in Consumers /\ con'.at = "sending"  BY <1>1, <2>2, <2>3, <2>4 DEF Consumers
  <2>7. /\ con'.out = taken /\ con'.msgs = left /\ con'.start = con.msgs[count].ts
        /\ con'.end = con.end /\ con'.fixed = con.fixed /\ con'.cut = con.cut
        /\ con'.ver = con.ver /\ con'.n = con.n
    BY <1>1, <2>2 DEF Consumers
  <2>8. con'.out \o con'.msgs = con.out \o con.msgs
    BY <1>1, <2>3, <2>7
  <2>9. Times(con')  BY <1>1, <2>5, <2>7 DEF Player, Times
  <2> QED  BY <1>1, <2>6, <2>7, <2>8, <2>9 DEF Player
<1> QED  BY <1>4, <1>5

\* And once it has got it, it has the last frame and the newest header of it.
LEMMA DeliversStep ==
  ASSUME IInv, Delivers
  PROVE  con' \in Consumers /\ Player(con', src.n, Due, src.ver) /\ con'.at # "asleep"
<1> DEFINE seen == {con.out[i].ver : i \in {j \in DOMAIN con.out : con.out[j].k = "vsh"}}
           new == Max(seen \cup {con.ver})
           n == IF FramesOf(con.out) = {} THEN con.n ELSE con.out[Max(FramesOf(con.out))].n
<1>1. /\ con \in Consumers /\ con.at = "sending"
      /\ Player(con, src.n, Due, src.ver)
      /\ con.msgs \in Seq(Message) /\ con.out \in Seq(Message) /\ con.ver \in 0..MaxVer
      /\ con.n \in Nat
  BY DEF IInv, TypeOK, Delivers, Consumers
<1>2. src.n \in Nat /\ Due \in Nat /\ src.ver \in Nat /\ MaxVer \in Nat
  BY DeliveryAssumption DEF IInv, TypeOK, Due
<1>3. con' = [con EXCEPT !.at = "loop", !.out = <<>>, !.ver = new, !.n = n]
  BY DEF Delivers, FramesOf
<1>4. \A i \in DOMAIN con.out : con.out[i].ver \in 0..MaxVer /\ con.out[i].n \in Nat
  <2>1. \A i \in DOMAIN con.out : con.out[i] \in Message  BY <1>1
  <2> QED  BY <2>1 DEF Message
<1>5. new \in 0..MaxVer /\ new >= con.ver /\ \A i \in VideoHeaders(con.out) : con.out[i].ver <= new
  <2>1. seen \cup {con.ver} \subseteq 0..MaxVer  BY <1>1, <1>4
  <2>2. new \in seen \cup {con.ver} /\ \A x \in seen \cup {con.ver} : x <= new
    BY <1>2, <2>1, MaxIsGreatest
  <2>3. \A i \in VideoHeaders(con.out) : con.out[i].ver \in seen  BY DEF VideoHeaders
  <2> HIDE DEF seen, new
  <2> QED  BY <1>1, <1>2, <2>1, <2>2, <2>3
<1>6. n \in Nat
  <2>1. CASE FramesOf(con.out) # {}
    <3>1. FramesOf(con.out) \subseteq 0..Len(con.out) /\ Len(con.out) \in Nat
      BY <1>1 DEF FramesOf
    <3>2. Max(FramesOf(con.out)) \in FramesOf(con.out)  BY <2>1, <3>1, MaxIsGreatest
    <3>3. Max(FramesOf(con.out)) \in DOMAIN con.out  BY <3>2 DEF FramesOf
    <3> QED  BY <1>4, <2>1, <3>3
  <2> QED  BY <1>1, <2>1
<1>7. ~con.cut => Contiguous(con.msgs, n, src.n)
  BY <1>1, <1>2, ContiguousSent DEF Player
<1> HIDE DEF seen, new, n
<1>8. ~ReduceHeaders => Decodable(con.msgs, new, Due, src.ver)
  <2>1. ~ReduceHeaders => Decodable(con.out \o con.msgs, con.ver, Due, src.ver)
    BY <1>1 DEF Player
  <2>2. con.ver \in Nat /\ new \in Nat  BY <1>1, <1>2, <1>5
  <2> QED  BY <1>1, <1>2, <1>5, <2>1, <2>2, DecodableSent
<1>9. con' \in Consumers /\ con'.at = "loop"
  <2>1. <<>> \in Seq(Message)  OBVIOUS
  <2>2. con \in Consumers /\ new \in 0..MaxVer  BY <1>1, <1>5
  <2> QED  BY <1>3, <1>6, <2>1, <2>2 DEF Consumers
<1>10. /\ con'.out = <<>> /\ con'.msgs = con.msgs /\ con'.start = con.start
       /\ con'.end = con.end /\ con'.fixed = con.fixed /\ con'.cut = con.cut
       /\ con'.ver = new /\ con'.n = n
  BY <1>1, <1>3 DEF Consumers
<1>11. con'.out \o con'.msgs = con.msgs
  BY <1>1, <1>10
<1>12. Times(con')
  BY <1>1, <1>10 DEF Player, Times
<1> QED  BY <1>7, <1>8, <1>9, <1>10, <1>11, <1>12 DEF Player

\* The cached messages a player starts with.
LEMMA DumpsCache ==
  ASSUME IInv, src.on
  PROVE  /\ Dumps \in Seq(Message)
         /\ Cache(Dumps, Len(Dumps) - Len(gop.frames), src.n - Len(gop.frames), src.vsh)
<1> DEFINE m == IF src.meta THEN <<Msg("meta", 0, 0, 0)>> ELSE <<>>
           a == IF src.ash THEN <<Msg("ash", src.ashTs, 0, 0)>> ELSE <<>>
           v == IF src.vsh > 0 THEN <<Msg("vsh", src.vshTs, src.vsh, 0)>> ELSE <<>>
           F == {x \in Message : x.k \in Frames}
           h == m \o a
<1>1. /\ src.ashTs \in Nat /\ src.vshTs \in Nat /\ src.vsh \in 0..MaxVer /\ src.n \in Nat
      /\ gop.frames \in Seq(F) /\ MaxVer \in Nat
  BY DeliveryAssumption DEF IInv, TypeOK
<1>2. /\ Msg("meta", 0, 0, 0) \in Message
      /\ Msg("ash", src.ashTs, 0, 0) \in Message
      /\ Msg("vsh", src.vshTs, src.vsh, 0) \in Message
      /\ Msg("meta", 0, 0, 0).k = "meta" /\ Msg("ash", src.ashTs, 0, 0).k = "ash"
      /\ Msg("vsh", src.vshTs, src.vsh, 0).k = "vsh" /\ Msg("vsh", src.vshTs, src.vsh, 0).ver = src.vsh
  BY <1>1 DEF Msg, Message, Headers
<1>3. m \in Seq(Message) /\ \A i \in DOMAIN m : m[i].k = "meta"
  BY <1>2
<1>4. a \in Seq(Message) /\ \A i \in DOMAIN a : a[i].k = "ash"
  BY <1>2
<1>5. /\ v \in Seq(Message) /\ DOMAIN v = IF src.vsh > 0 THEN {1} ELSE {}
      /\ Len(v) = IF src.vsh > 0 THEN 1 ELSE 0
      /\ src.vsh > 0 => v[1].k = "vsh" /\ v[1].ver = src.vsh
  BY <1>2
<1>6. gop.frames \in Seq(Message) /\ \A i \in DOMAIN gop.frames : gop.frames[i].k \in Frames
  <2>1. \A i \in DOMAIN gop.frames : gop.frames[i] \in F  BY <1>1
  <2>2. Len(gop.frames) \in Nat /\ DOMAIN gop.frames = 1..Len(gop.frames)
        /\ gop.frames = [i \in 1..Len(gop.frames) |-> gop.frames[i]]
    BY <1>1
  <2>3. \A i \in 1..Len(gop.frames) : gop.frames[i] \in Message  BY <2>1, <2>2
  <2> HIDE DEF F
  <2>4. [i \in 1..Len(gop.frames) |-> gop.frames[i]] \in Seq(Message)  BY <2>2, <2>3
  <2> QED  BY <2>1, <2>2, <2>4 DEF F
<1>7. Dumps = ((m \o a) \o v) \o gop.frames
  BY <1>3, <1>4, <1>5, <1>6 DEF Dumps
<1> HIDE DEF m, a, v, F
<1>8. /\ h \in Seq(Message) /\ Len(h) \in Nat
      /\ \A i \in DOMAIN h : h[i].k \in {"meta", "ash"}
  BY <1>3, <1>4, ConcatIndex
<1> HIDE DEF h
<1> DEFINE p == h \o v
           n == Len(p)
<1>9. /\ p \in Seq(Message) /\ Len(p) = Len(h) + Len(v) /\ DOMAIN p = 1..n /\ n \in Nat
      /\ \A i \in DOMAIN h : i \in DOMAIN p /\ p[i] = h[i]
      /\ \A i \in DOMAIN v : Len(h) + i \in DOMAIN p /\ p[Len(h) + i] = v[i]
      /\ \A i \in DOMAIN p : i \in DOMAIN h \/ i - Len(h) \in DOMAIN v
  BY <1>5, <1>8, ConcatIndex
<1> HIDE DEF p
<1>10. src.vsh > 0 => n > 0 /\ p[n].k = "vsh"
  <2>1. ASSUME src.vsh > 0 PROVE n = Len(h) + 1 /\ 1 \in DOMAIN v  BY <1>5, <1>9, <2>1
  <2> QED  BY <1>5, <1>8, <1>9, <2>1
<1>11. ASSUME NEW i \in DOMAIN p
       PROVE  p[i].k \notin Frames /\ (p[i].k = "vsh" => i = n /\ p[i].ver = src.vsh)
  <2>1. CASE i \in DOMAIN h
    <3>1. p[i].k \in {"meta", "ash"}  BY <1>8, <1>9, <2>1
    <3> QED  BY <3>1 DEF Frames
  <2>2. CASE i - Len(h) \in DOMAIN v
    <3>1. src.vsh > 0 /\ i - Len(h) = 1  BY <1>5, <2>2
    <3>2. i = n /\ i = Len(h) + 1  BY <1>5, <1>8, <1>9, <3>1
    <3>3. p[i] = v[1]  BY <1>9, <2>2, <3>1, <3>2
    <3> QED  BY <1>5, <3>1, <3>2, <3>3 DEF Frames
  <2> QED  BY <1>9, <2>1, <2>2
<1>12. /\ Dumps \in Seq(Message) /\ Len(Dumps) = n + Len(gop.frames)
       /\ \A i \in DOMAIN p : i \in DOMAIN Dumps /\ Dumps[i] = p[i]
       /\ \A i \in DOMAIN gop.frames : n + i \in DOMAIN Dumps /\ Dumps[n + i] = gop.frames[i]
       /\ \A i \in DOMAIN Dumps : i \in DOMAIN p \/ i - n \in DOMAIN gop.frames
       /\ DOMAIN Dumps = 1..Len(Dumps)
  <2> DEFINE g == gop.frames
  <2>1. Dumps = p \o g  BY <1>7 DEF p, h
  <2>2. g \in Seq(Message) /\ p \in Seq(Message)  BY <1>6, <1>9
  <2> HIDE DEF g
  <2>3. /\ p \o g \in Seq(Message) /\ Len(p \o g) = Len(p) + Len(g)
        /\ DOMAIN (p \o g) = 1..Len(p \o g)
        /\ \A i \in DOMAIN p : i \in DOMAIN (p \o g) /\ (p \o g)[i] = p[i]
        /\ \A i \in DOMAIN g : Len(p) + i \in DOMAIN (p \o g) /\ (p \o g)[Len(p) + i] = g[i]
        /\ \A i \in DOMAIN (p \o g) : i \in DOMAIN p \/ i - Len(p) \in DOMAIN g
    BY <2>2, ConcatIndex
  <2> QED  BY <2>1, <2>3 DEF g
<1> HIDE DEF n
<1>13. Len(gop.frames) \in Nat /\ DOMAIN gop.frames = 1..Len(gop.frames)
  BY <1>6
<1>14. Len(Dumps) - Len(gop.frames) = n /\ n <= Len(Dumps)
  BY <1>9, <1>12, <1>13
<1>15. ASSUME NEW i \in DOMAIN Dumps, i <= n
       PROVE  Dumps[i].k \notin Frames /\ (Dumps[i].k = "vsh" => i = n /\ Dumps[i].ver = src.vsh)
  <2>1. i \in DOMAIN p  BY <1>9, <1>12, <1>15
  <2> QED  BY <1>11, <1>12, <2>1
<1>16. ASSUME NEW i \in DOMAIN Dumps, i > n
       PROVE  /\ Dumps[i].k \in Frames /\ Dumps[i].ver <= src.vsh
              /\ Dumps[i].n = (src.n - Len(gop.frames)) + (i - n)
  <2>1. i \notin DOMAIN p /\ i = n + (i - n)  BY <1>9, <1>12, <1>16
  <2>2. i - n \in DOMAIN gop.frames  BY <1>12, <2>1
  <2>3. Dumps[i] = gop.frames[i - n]  BY <1>12, <2>1, <2>2
  <2> QED  BY <1>6, <2>2, <2>3 DEF IInv, GopInv
<1>17. src.vsh > 0 => n > 0 /\ Dumps[n].k = "vsh"
  <2>1. n > 0 => n \in DOMAIN p  BY <1>9
  <2> QED  BY <1>10, <1>12, <2>1
<1> QED  BY <1>9, <1>12, <1>14, <1>15, <1>16, <1>17 DEF Cache

LEMMA PlayStep ==
  ASSUME IInv, Play
  PROVE  con' \in Consumers /\ Player(con', src.n, Due, src.ver) /\ con'.at = "loop" /\ Fits(con')
<1> DEFINE l == Len(gop.frames)
           lo == src.n - l
           c == [Absent EXCEPT !.at = "loop", !.n = lo]
<1>1. /\ src.n \in Nat /\ src.ver \in Nat /\ src.vsh \in Nat /\ l \in Nat /\ src.on \in BOOLEAN
      /\ src.vsh <= src.ver /\ l <= src.n
  BY DeliveryAssumption DEF IInv, TypeOK, SrcInv, GopInv
<1>2. lo = IF gop.frames = <<>> THEN src.n ELSE gop.frames[1].n - 1
  <2>1. CASE gop.frames = <<>>  BY <1>1, <2>1
  <2>2. CASE gop.frames # <<>>
    <3>1. 1 \in DOMAIN gop.frames  BY <2>2 DEF IInv, TypeOK
    <3>2. gop.frames[1].n = src.n - l + 1  BY <3>1 DEF IInv, GopInv
    <3> QED  BY <1>1, <2>2, <3>2
  <2> QED  BY <2>1, <2>2
<1>3. con' = IF src.on THEN EnqueuedAll(c, Dumps) ELSE c
  BY <1>2, Zenon DEF Play
<1>4. lo \in Nat
  BY <1>1
<1>5. /\ c.at = "loop" /\ c.msgs = <<>> /\ c.out = <<>> /\ c.start = -1 /\ c.end = -1
      /\ c.fixed = -1 /\ c.ver = 0 /\ c.n = lo /\ ~c.waiting
  BY DEF Absent
<1> HIDE DEF l
<1>6. c \in Consumers
  <2>1. Absent \in Consumers  BY AbsentPlayer
  <2> HIDE DEF lo
  <2> QED  BY <1>4, <2>1 DEF Consumers
<1> HIDE DEF c, lo
<1>7. Player(c, lo, 0, 0) /\ Fits(c)
  <2>1. c.out \o c.msgs = <<>>  BY <1>5
  <2>2. Times(c)  BY <1>5 DEF Times, QueueTimes, Timed, First, Last, Next2
  <2>3. Contiguous(<<>>, lo, lo)  BY <1>4 DEF Contiguous, FramesOf
  <2>4. Decodable(<<>>, 0, 0, 0)  BY DEF Decodable, VideoHeaders, Known
  <2>5. Fits(c)  BY <1>5, DeliveryAssumption DEF Fits
  <2> QED  BY <1>5, <2>1, <2>2, <2>3, <2>4, <2>5 DEF Player
<1>8. CASE src.on
  <2> DEFINE h == Len(Dumps) - l
             e == EnqueuedAll(c, Dumps)
  <2>1. Dumps \in Seq(Message) /\ Cache(Dumps, h, lo, src.vsh)
    BY <1>8, DumpsCache DEF l, lo
  <2>2. lo + (Len(Dumps) - h) = src.n
    <3>1. Len(Dumps) \in Nat  BY <2>1
    <3> QED  BY <1>1, <3>1 DEF lo
  <2> HIDE DEF h
  <2>3. e \in Consumers /\ e.at = "loop" /\ Fits(e) /\ Player(e, lo + (Len(Dumps) - h), src.vsh, src.vsh)
    BY <1>1, <1>4, <1>5, <1>6, <1>7, <2>1, EnqueuedAllPlayer
  <2> HIDE DEF e
  <2>4. Player(e, src.n, src.vsh, src.vsh)  BY <2>2, <2>3
  <2>5. Player(e, src.n, src.vsh, src.ver)  BY <1>1, <2>3, <2>4, PlayerWeakens
  <2> QED  BY <1>3, <1>8, <2>3, <2>5 DEF e, Due
<1>9. CASE ~src.on
  <2>1. lo = src.n  BY <1>1, <1>9 DEF IInv, GopInv, lo, l
  <2>2. Player(c, src.n, 0, src.ver)  BY <1>1, <1>6, <1>7, <2>1, PlayerWeakens
  <2> QED  BY <1>3, <1>5, <1>6, <1>7, <1>9, <2>2 DEF Due
<1> QED  BY <1>8, <1>9

\* A player's own steps leave the source alone.
Recvs == [ctl : Seq({"pause", "play", "close"}), err : BOOLEAN, stop : BOOLEAN]

LEMMA PlayerMoves ==
  ASSUME IInv, src' = src, gop' = gop, con' \in Consumers, recv' \in Recvs,
         Player(con', src.n, Due, src.ver), NoLostWakeup'
  PROVE  IInv'
BY DEF IInv, TypeOK, SrcInv, GopInv, Due, Recvs

\* Where it is in its loop, and whether it is paused, is no matter of its queue.
Elsewhere(c, at, paused, waiting) == [c EXCEPT !.at = at, !.paused = paused, !.waiting = waiting]

LEMMA PlayerElsewhere ==
  ASSUME IInv, con.at # "none",
         NEW at \in {"loop", "napping", "asleep", "dumping", "sending"},
         at = "sending" <=> con.at = "sending", NEW paused \in BOOLEAN, NEW waiting \in BOOLEAN
  PROVE  /\ Elsewhere(con, at, paused, waiting) \in Consumers
         /\ Player(Elsewhere(con, at, paused, waiting), src.n, Due, src.ver)
<1> DEFINE c == [con EXCEPT !.at = at, !.paused = paused, !.waiting = waiting]
<1>1. con \in Consumers /\ Player(con, src.n, Due, src.ver)
  BY DEF IInv, TypeOK
<1>2. c \in Consumers /\ c.at = at
  BY <1>1 DEF Consumers
<1>3. /\ c.out = con.out /\ c.msgs = con.msgs /\ c.start = con.start /\ c.end = con.end
      /\ c.fixed = con.fixed /\ c.cut = con.cut /\ c.ver = con.ver /\ c.n = con.n
  BY <1>1 DEF Consumers
<1> HIDE DEF c
<1>4. at # "sending" => c.out = <<>>
  BY <1>1, <1>3 DEF Player
<1>5. Player(c, src.n, Due, src.ver)
  BY <1>1, <1>2, <1>3, <1>4 DEF Player, Times
<1> QED  BY <1>2, <1>5 DEF c, Elsewhere

LEMMA QuitStep ==
  ASSUME IInv, Quit
  PROVE  IInv'
<1>1. Recv0 \in Recvs
  <2>1. <<>> \in Seq({"pause", "play", "close"})  OBVIOUS
  <2> QED  BY <2>1 DEF Recv0, Recvs
<1>2. con' \in Consumers /\ Player(con', src.n, Due, src.ver) /\ con'.at # "asleep"
  BY AbsentPlayer DEF Quit, Absent
<1> QED  BY <1>1, <1>2, PlayerMoves DEF Quit, NoLostWakeup

LEMMA InitInv == Init => IInv
<1> SUFFICES ASSUME Init PROVE IInv
  OBVIOUS
<1>1. /\ con \in Consumers /\ Player(con, src.n, Due, src.ver) /\ con.at # "asleep"
  BY AbsentPlayer DEF Init, Absent
<1>2. /\ src.on = FALSE /\ src.n = 0 /\ src.sent = 0 /\ src.ver = 0 /\ src.vsh = 0
      /\ gop.frames = <<>> /\ gop.videos = 0
  BY DEF Init, Gop0
<1>3. TypeOK
  <2>1. <<>> \in Seq({"pause", "play", "close"}) /\ <<>> \in Seq({m \in Message : m.k \in Frames})
    OBVIOUS
  <2> QED  BY <1>1, <2>1, DeliveryAssumption DEF Init, TypeOK, Gop0, Recv0
<1> QED  BY <1>1, <1>2, <1>3 DEF IInv, SrcInv, GopInv, NoLostWakeup

\* What the publisher does leaves the receiving coroutine alone.
SrcType == [on : BOOLEAN, ts : Nat, sent : 0..MaxMsgs, n : 0..MaxMsgs, ver : 0..MaxVer,
            meta : BOOLEAN, vsh : 0..MaxVer, vshTs : Nat, ash : BOOLEAN, ashTs : Nat,
            prev : 0..MaxVer, prevAsh : BOOLEAN]
GopType == [frames : Seq({m \in Message : m.k \in Frames}), videos : Nat, audios : Nat]

LEMMA SendsFacts ==
  ASSUME IInv, Sends
  PROVE  src.sent + 1 \in 0..MaxMsgs /\ src.ts \in Nat
BY DeliveryAssumption DEF IInv, TypeOK, Sends

LEMMA PublisherMoves ==
  ASSUME IInv, src' \in SrcType, SrcInv', gop' \in GopType, GopInv', con' \in Consumers,
         Player(con', src'.n, Due', src'.ver),
         con'.at = "asleep" => con.at = "asleep" /\ con'.waiting /\ ~Enough(con'),
         UNCHANGED recv
  PROVE  IInv'
BY DEF IInv, TypeOK, SrcType, GopType, NoLostWakeup

LEMMA PublishStep ==
  ASSUME IInv, Publish \/ Unpublish
  PROVE  IInv'
<1>1. src \in SrcType /\ gop \in GopType /\ con \in Consumers /\ Player(con, src.n, Due, src.ver)
      /\ src.n \in Nat /\ src.ver \in Nat /\ Due \in Nat
  BY DeliveryAssumption DEF IInv, TypeOK, SrcType, GopType, Due
<1>2. con.at = "asleep" => con.waiting /\ ~Enough(con)
  BY DEF IInv, NoLostWakeup
<1>3. CASE Publish
  <2>1. src' \in SrcType /\ src'.n = src.n /\ src'.sent = src.sent /\ src'.ver = src.ver
        /\ src'.vsh = 0 /\ gop.frames = <<>>
    <3>1. src' = [src EXCEPT !.on = TRUE, !.ts = 0, !.meta = FALSE,
                             !.vsh = 0, !.vshTs = 0, !.ash = FALSE, !.ashTs = 0]
      BY <1>3 DEF Publish
    <3>2. 0 \in 0..MaxVer  BY DeliveryAssumption
    <3>3. src \in SrcType  BY <1>1
    <3>4. src' \in SrcType /\ src'.n = src.n /\ src'.sent = src.sent /\ src'.ver = src.ver
          /\ src'.vsh = 0
      BY <3>1, <3>2, <3>3 DEF SrcType
    <3>5. gop.frames = <<>>  BY <1>3 DEF Publish, IInv, GopInv
    <3> QED  BY <3>4, <3>5
  <2>2. Due = 0 /\ Due' = 0  BY <1>3, <2>1 DEF Publish, Due
  <2>3. SrcInv' /\ GopInv' /\ gop' \in GopType
    BY <1>1, <1>3, <2>1 DEF IInv, SrcInv, GopInv, Publish
  <2> QED  BY <1>1, <1>2, <1>3, <2>1, <2>2, <2>3, PublisherMoves DEF Publish
<1>4. CASE Unpublish
  <2>1. src' \in SrcType /\ src'.n = src.n /\ src'.sent = src.sent /\ src'.ver = src.ver
        /\ src'.vsh = src.vsh /\ ~src'.on
    BY <1>1, <1>4 DEF Unpublish, SrcType
  <2>2. Due' = 0  BY <2>1 DEF Due
  <2>3. gop' \in GopType /\ gop'.frames = <<>>
    <3>1. <<>> \in Seq({m \in Message : m.k \in Frames})  OBVIOUS
    <3> QED  BY <1>4, <3>1 DEF Unpublish, Gop0, GopType
  <2>4. SrcInv' /\ GopInv'
    BY <1>1, <2>1, <2>3 DEF IInv, SrcInv, GopInv
  <2>5. Player(con, src.n, 0, src.ver)  BY <1>1, PlayerWeakens
  <2> QED  BY <1>1, <1>2, <1>4, <2>1, <2>2, <2>3, <2>4, <2>5, PublisherMoves DEF Unpublish
<1> QED  BY <1>3, <1>4

\* A message that is reduced reaches no player.
LEMMA ReducedPlayer ==
  ASSUME ReduceHeaders, NEW c, NEW hi, NEW v, NEW top, NEW w, NEW high, Player(c, hi, v, top)
  PROVE  Player(c, hi, w, high)
BY DEF Player

LEMMA OnMetaDataStep ==
  ASSUME IInv, OnMetaData
  PROVE  IInv' /\ (con' = con \/ Fits(con'))
<1> DEFINE m == Msg("meta", src.ts, 0, 0)
<1>1. /\ src \in SrcType /\ gop \in GopType /\ con \in Consumers
      /\ Player(con, src.n, Due, src.ver) /\ MaxMsgs \in Nat
      /\ (con.at = "asleep" => con.waiting /\ ~Enough(con))
  BY DeliveryAssumption DEF IInv, TypeOK, SrcType, GopType, NoLostWakeup
<1>2. m \in Message /\ m.k = "meta"
  BY <1>1, DeliveryAssumption DEF Msg, Message, SrcType
<1>3. src' \in SrcType /\ src'.n = src.n /\ src'.sent = src.sent + 1 /\ src'.ver = src.ver
      /\ src'.vsh = src.vsh /\ src'.on = src.on /\ gop' = gop
  <2>1. src' = [src EXCEPT !.sent = @ + 1, !.meta = TRUE] /\ gop' = gop
    BY DEF OnMetaData
  <2>2. src.sent + 1 \in 0..MaxMsgs /\ src.ts \in Nat  BY SendsFacts DEF OnMetaData
  <2> QED  BY <1>1, <2>1, <2>2 DEF SrcType
<1>4. Due' = Due /\ SrcInv' /\ GopInv'
  BY <1>1, <1>3 DEF IInv, SrcInv, GopInv, Due, SrcType
<1>5. /\ con' \in Consumers /\ Player(con', src.n, Due, src.ver)
      /\ con'.at = "asleep" => con.at = "asleep" /\ con'.waiting /\ ~Enough(con')
      /\ con' = con \/ Fits(con')
  <2>1. CASE con' = con  BY <1>1, <2>1
  <2>2. CASE ToConsumer(m)
    BY <1>2, <2>2, ToConsumerStep DEF Frames
  <2> QED  BY <2>1, <2>2 DEF OnMetaData
<1> QED  BY <1>1, <1>3, <1>4, <1>5, PublisherMoves DEF OnMetaData

LEMMA OnAudioHeaderStep ==
  ASSUME IInv, OnAudioHeader
  PROVE  IInv' /\ (con' = con \/ Fits(con'))
<1> DEFINE m == Msg("ash", src.ts, 0, 0)
<1>1. /\ src \in SrcType /\ gop \in GopType /\ con \in Consumers
      /\ Player(con, src.n, Due, src.ver) /\ MaxMsgs \in Nat
      /\ (con.at = "asleep" => con.waiting /\ ~Enough(con))
  BY DeliveryAssumption DEF IInv, TypeOK, SrcType, GopType, NoLostWakeup
<1>2. m \in Message /\ m.k = "ash"
  BY <1>1, DeliveryAssumption DEF Msg, Message, SrcType, Headers
<1>3. src' \in SrcType /\ src'.n = src.n /\ src'.sent = src.sent + 1 /\ src'.ver = src.ver
      /\ src'.vsh = src.vsh /\ src'.on = src.on /\ gop' = gop
  <2>1. src' = [src EXCEPT !.sent = @ + 1, !.ash = TRUE, !.ashTs = src.ts, !.prevAsh = TRUE] /\ gop' = gop
    BY DEF OnAudioHeader
  <2>2. src.sent + 1 \in 0..MaxMsgs /\ src.ts \in Nat  BY SendsFacts DEF OnAudioHeader
  <2> QED  BY <1>1, <2>1, <2>2 DEF SrcType
<1>4. Due' = Due /\ SrcInv' /\ GopInv'
  BY <1>1, <1>3 DEF IInv, SrcInv, GopInv, Due, SrcType
<1>5. /\ con' \in Consumers /\ Player(con', src.n, Due, src.ver)
      /\ con'.at = "asleep" => con.at = "asleep" /\ con'.waiting /\ ~Enough(con')
      /\ con' = con \/ Fits(con')
  <2>1. CASE con' = con  BY <1>1, <2>1
  <2>2. CASE ToConsumer(m)
    BY <1>2, <2>2, ToConsumerStep DEF Frames
  <2> QED  BY <2>1, <2>2 DEF OnAudioHeader
<1> QED  BY <1>1, <1>3, <1>4, <1>5, PublisherMoves DEF OnAudioHeader

LEMMA OnVideoHeaderStep ==
  ASSUME IInv, NEW v \in 1..MaxVer, OnVideoHeader(v)
  PROVE  IInv' /\ (con' = con \/ Fits(con'))
<1> DEFINE m == Msg("vsh", src.ts, v, 0)
<1>1. /\ src \in SrcType /\ gop \in GopType /\ con \in Consumers
      /\ Player(con, src.n, Due, src.ver) /\ MaxMsgs \in Nat /\ MaxVer \in Nat
      /\ (con.at = "asleep" => con.waiting /\ ~Enough(con))
  BY DeliveryAssumption DEF IInv, TypeOK, SrcType, GopType, NoLostWakeup
<1>2. m \in Message /\ m.k = "vsh" /\ m.ver = v
  BY <1>1 DEF Msg, Message, SrcType, Headers
<1>3. src' \in SrcType /\ src'.n = src.n /\ src'.sent = src.sent + 1 /\ src'.ver = v
      /\ src'.vsh = v /\ src'.on = src.on /\ src.on /\ gop' = gop
  <2>1. /\ src' = [src EXCEPT !.sent = @ + 1, !.ver = v, !.vsh = v, !.vshTs = src.ts, !.prev = v]
        /\ gop' = gop /\ src.on
    BY DEF OnVideoHeader, Sends
  <2>2. src.sent + 1 \in 0..MaxMsgs /\ src.ts \in Nat  BY SendsFacts DEF OnVideoHeader
  <2>3. v \in 0..MaxVer  BY <1>1
  <2> QED  BY <1>1, <2>1, <2>2, <2>3 DEF SrcType
<1>4. v >= src.ver /\ src.ver \in Nat /\ src.vsh \in Nat
  BY <1>1 DEF OnVideoHeader, SrcType
<1>5. Due' = v /\ SrcInv' /\ GopInv'
  <2>1. src.vsh <= v  BY <1>4 DEF IInv, SrcInv
  <2>2. \A i \in DOMAIN gop.frames : gop.frames[i].ver <= v
    <3>1. \A i \in DOMAIN gop.frames : gop.frames[i].ver \in Nat
      <4> DEFINE F == {x \in Message : x.k \in Frames}
      <4>1. gop.frames \in Seq(F)  BY <1>1 DEF GopType
      <4>2. \A i \in DOMAIN gop.frames : gop.frames[i] \in F  BY <4>1
      <4> QED  BY <1>1, <4>2 DEF Message
    <3> QED  BY <1>4, <2>1, <3>1 DEF IInv, GopInv
  <2>3. Due' = v  BY <1>3 DEF Due
  <2>4. SrcInv'  BY <1>1, <1>3 DEF IInv, SrcInv, SrcType
  <2>5. GopInv'  BY <1>3, <2>2 DEF IInv, GopInv
  <2> QED  BY <2>3, <2>4, <2>5
<1>6. /\ con' \in Consumers /\ Player(con', src.n, v, v)
      /\ con'.at = "asleep" => con.at = "asleep" /\ con'.waiting /\ ~Enough(con')
      /\ con' = con \/ Fits(con')
  <2>1. CASE ReduceHeaders /\ con' = con
    BY <1>1, <2>1, ReducedPlayer
  <2>2. CASE ToConsumer(m)
    BY <1>2, <1>4, <2>2, ToConsumerStep DEF Frames
  <2> QED  BY <2>1, <2>2 DEF OnVideoHeader
<1> QED  BY <1>1, <1>3, <1>5, <1>6, PublisherMoves DEF OnVideoHeader

LEMMA OnFrameStep ==
  ASSUME IInv, NEW k \in Frames, NEW d \in Steps, OnFrame(k, d)
  PROVE  IInv' /\ (con' = con \/ Fits(con'))
<1> DEFINE m == Msg(k, src.ts + d, src.vsh, src.n + 1)
<1>1. /\ src \in SrcType /\ gop \in GopType /\ con \in Consumers /\ MaxMsgs \in Nat /\ MaxVer \in Nat
      /\ d \in Nat
  BY DeliveryAssumption DEF IInv, TypeOK, SrcType, GopType
<1>2. m \in Message /\ m.k = k /\ m.ver = src.vsh /\ m.n = src.n + 1 /\ m.ts \in Nat
  BY <1>1 DEF Msg, Message, SrcType
<1>3. src.on /\ ToConsumer(m) /\ gop' = Cached(gop, m)
      /\ src' = [src EXCEPT !.sent = @ + 1, !.n = @ + 1, !.ts = m.ts]
  BY DEF OnFrame, Sends
<1> HIDE DEF m
<1>4. src.n + 1 \in 0..MaxMsgs /\ src.sent + 1 \in 0..MaxMsgs
  BY <1>1 DEF OnFrame, Sends, SrcType, IInv, SrcInv
<1>5. src' \in SrcType /\ src'.n = src.n + 1 /\ src'.sent = src.sent + 1 /\ src'.ver = src.ver
      /\ src'.vsh = src.vsh /\ src'.on = src.on
  BY <1>1, <1>2, <1>3, <1>4 DEF SrcType
<1>6. Due = src.vsh /\ Due' = Due
  BY <1>3, <1>5 DEF Due
<1>7. SrcInv'
  BY <1>1, <1>5 DEF IInv, SrcInv, SrcType
<1>8. gop' \in GopType /\ GopInv'
  <2>1. m.ver <= src.vsh  BY <1>1, <1>2 DEF SrcType
  <2> QED  BY <1>2, <1>3, <1>5, <2>1, CachedStep DEF GopType
<1>9. /\ con' \in Consumers /\ Player(con', src.n + 1, Due, src.ver)
      /\ con'.at = "asleep" => con.at = "asleep" /\ con'.waiting /\ ~Enough(con')
      /\ con' = con \/ Fits(con')
  <2>1. m.ver <= Due  BY <1>1, <1>2, <1>6 DEF SrcType
  <2> QED  BY <1>2, <1>3, <2>1, ToConsumerStep DEF Frames
<1> QED  BY <1>5, <1>6, <1>7, <1>8, <1>9, PublisherMoves DEF OnFrame

\* The player and its receiving coroutine.
LEMMA LoopStep ==
  ASSUME IInv, Pulled \/ TakesControl \/ SeesError \/ Waits \/ WakesFromNap
  PROVE  IInv' /\ (con'.msgs = con.msgs \/ con' = Absent)
<1>1. con \in Consumers /\ recv \in Recvs /\ con.at # "none" /\ con.at # "sending"
  BY DEF IInv, TypeOK, Recvs, Pulled, TakesControl, SeesError, Waits, WakesFromNap
<1>2. CASE Quit
  BY <1>2, QuitStep DEF Quit
<1>3. CASE TakesControl /\ ~Quit
  <2> DEFINE p == Head(recv.ctl) = "pause"
  <2>1. con' = Elsewhere(con, "loop", p, con.waiting)
    BY <1>1, <1>3 DEF Elsewhere, TakesControl, Consumers
  <2>2. p \in BOOLEAN /\ con.waiting \in BOOLEAN  BY <1>1 DEF Consumers
  <2>3. recv' \in Recvs
    <3>1. Tail(recv.ctl) \in Seq({"pause", "play", "close"})  BY <1>1, <1>3 DEF TakesControl, Recvs
    <3> QED  BY <1>1, <1>3, <3>1 DEF TakesControl, Recvs
  <2> HIDE DEF p
  <2>4. con' \in Consumers /\ Player(con', src.n, Due, src.ver)
    BY <1>1, <2>1, <2>2, PlayerElsewhere
  <2>5. con'.at = "loop" /\ con'.msgs = con.msgs  BY <1>1, <2>1 DEF Elsewhere, Consumers
  <2> QED  BY <1>3, <2>3, <2>4, <2>5, PlayerMoves DEF TakesControl, NoLostWakeup
<1>4. CASE Waits
  <2> DEFINE at == IF con.paused THEN "napping" ELSE IF Enough(con) THEN "dumping" ELSE "asleep"
             waiting == IF at = "asleep" THEN TRUE ELSE con.waiting
  <2>1. con' = Elsewhere(con, at, con.paused, waiting)
    BY <1>1, <1>4 DEF Elsewhere, Waits, Consumers
  <2>2. waiting \in BOOLEAN /\ con.paused \in BOOLEAN /\ at \in {"napping", "dumping", "asleep"}
    BY <1>1 DEF Consumers
  <2>3. at = "asleep" => waiting /\ ~Enough(con)
    OBVIOUS
  <2> HIDE DEF at, waiting
  <2>4. con' \in Consumers /\ Player(con', src.n, Due, src.ver)
    BY <1>1, <2>1, <2>2, PlayerElsewhere
  <2>5. con'.at = at /\ con'.waiting = waiting /\ con'.msgs = con.msgs
        /\ con'.start = con.start /\ con'.end = con.end
    BY <1>1, <2>1 DEF Elsewhere, Consumers
  <2>6. NoLostWakeup'
    BY <1>1, <1>4, <2>3, <2>5 DEF NoLostWakeup, Waits, Enough, Recvs
  <2> QED  BY <1>1, <1>4, <2>4, <2>5, <2>6, PlayerMoves DEF Waits
<1>5. CASE WakesFromNap
  <2>1. con' = Elsewhere(con, "dumping", con.paused, con.waiting)
    BY <1>1, <1>5 DEF Elsewhere, WakesFromNap, Consumers
  <2>2. con.paused \in BOOLEAN /\ con.waiting \in BOOLEAN  BY <1>1 DEF Consumers
  <2>3. con' \in Consumers /\ Player(con', src.n, Due, src.ver)
    BY <1>1, <2>1, <2>2, PlayerElsewhere
  <2>4. con'.at = "dumping" /\ con'.msgs = con.msgs  BY <1>1, <2>1 DEF Elsewhere, Consumers
  <2> QED  BY <1>1, <1>5, <2>3, <2>4, PlayerMoves DEF WakesFromNap, NoLostWakeup
<1> QED  BY <1>2, <1>3, <1>4, <1>5 DEF Pulled, SeesError

LEMMA WokenStep ==
  ASSUME IInv, con.at # "none", con' = Woken(con)
  PROVE  /\ con' \in Consumers /\ Player(con', src.n, Due, src.ver)
         /\ con'.at # "asleep" /\ con'.msgs = con.msgs
<1>1. con \in Consumers /\ Player(con, src.n, Due, src.ver) /\ (con.at = "asleep" => con.waiting)
  BY DEF IInv, TypeOK, NoLostWakeup
<1>2. CASE ~con.waiting
  BY <1>1, <1>2 DEF Woken
<1>3. CASE con.waiting
  <2> DEFINE at == IF con.at = "asleep" THEN "dumping" ELSE con.at
  <2>1. con' = Elsewhere(con, at, con.paused, FALSE)
    BY <1>1, <1>3 DEF Elsewhere, Woken, Consumers
  <2>2. /\ con.paused \in BOOLEAN /\ at # "asleep" /\ (at = "sending" <=> con.at = "sending")
        /\ at \in {"loop", "napping", "asleep", "dumping", "sending"}
    BY <1>1 DEF Consumers
  <2> HIDE DEF at
  <2>3. con' \in Consumers /\ Player(con', src.n, Due, src.ver)
    BY <2>1, <2>2, PlayerElsewhere
  <2>4. con'.at = at /\ con'.msgs = con.msgs  BY <1>1, <2>1 DEF Elsewhere, Consumers
  <2> QED  BY <2>2, <2>3, <2>4
<1> QED  BY <1>2, <1>3

LEMMA ReceiveStep ==
  ASSUME IInv, PeerGone \/ Expire \/ \E ctl \in {"play", "pause", "close"} : Receives(ctl)
  PROVE  IInv' /\ con'.msgs = con.msgs
<1>1. con \in Consumers /\ recv \in Recvs /\ con.at # "none"
  BY DEF IInv, TypeOK, Recvs, PeerGone, Expire, Receives
<1>2. CASE PeerGone
  <2>1. recv' \in Recvs  BY <1>1, <1>2 DEF PeerGone, Recvs
  <2> QED  BY <1>1, <1>2, <2>1, WokenStep, PlayerMoves DEF PeerGone, NoLostWakeup
<1>3. ASSUME NEW ctl \in {"play", "pause", "close"}, Receives(ctl) PROVE IInv' /\ con'.msgs = con.msgs
  <2>1. recv' \in Recvs
    <3>1. <<ctl>> \in Seq({"pause", "play", "close"})  OBVIOUS
    <3> QED  BY <1>1, <1>3, <3>1 DEF Receives, Recvs
  <2> QED  BY <1>1, <1>3, <2>1, WokenStep, PlayerMoves DEF Receives, NoLostWakeup
<1>4. CASE Expire
  <2> DEFINE at == IF con.at \in {"asleep", "napping"} THEN "dumping" ELSE con.at
  <2>1. con' = Elsewhere(con, at, con.paused, con.waiting)
    BY <1>1, <1>4 DEF Elsewhere, Expire, Consumers
  <2>2. /\ con.paused \in BOOLEAN /\ con.waiting \in BOOLEAN /\ at # "asleep"
        /\ (at = "sending" <=> con.at = "sending")
        /\ at \in {"loop", "napping", "asleep", "dumping", "sending"}
    BY <1>1 DEF Consumers
  <2> HIDE DEF at
  <2>3. con' \in Consumers /\ Player(con', src.n, Due, src.ver)
    BY <1>1, <2>1, <2>2, PlayerElsewhere
  <2>4. con'.at = at /\ con'.msgs = con.msgs  BY <1>1, <2>1 DEF Elsewhere, Consumers
  <2>5. recv' \in Recvs  BY <1>1, <1>4 DEF Expire, Recvs
  <2> QED  BY <1>4, <2>2, <2>3, <2>4, <2>5, PlayerMoves DEF Expire, NoLostWakeup
<1> QED  BY <1>2, <1>3, <1>4

\* One step: the invariant is kept, and a queue that got something fits.
Bounded == con'.msgs = con.msgs \/ con'.out # con.out \/ con'.msgs = <<>> \/ Fits(con')

LEMMA NextInv == IInv /\ [Next]_vars => IInv' /\ Bounded
<1> SUFFICES ASSUME IInv, [Next]_vars PROVE IInv' /\ Bounded
  OBVIOUS
<1>1. recv \in Recvs
  BY DEF IInv, TypeOK, Recvs
<1>2. CASE Publish \/ Unpublish
  BY <1>2, PublishStep DEF Bounded, Publish, Unpublish
<1>3. CASE OnMetaData
  BY <1>3, OnMetaDataStep DEF Bounded
<1>4. CASE OnAudioHeader
  BY <1>4, OnAudioHeaderStep DEF Bounded
<1>5. ASSUME NEW v \in 1..MaxVer, OnVideoHeader(v) PROVE IInv' /\ Bounded
  BY <1>5, OnVideoHeaderStep DEF Bounded
<1>6. ASSUME NEW k \in Frames, NEW d \in Steps, OnFrame(k, d) PROVE IInv' /\ Bounded
  BY <1>6, OnFrameStep DEF Bounded
<1>7. CASE Play
  BY <1>1, <1>7, PlayStep, PlayerMoves DEF Play, NoLostWakeup, Bounded
<1>8. CASE Pulled \/ TakesControl \/ SeesError \/ Waits \/ WakesFromNap
  BY <1>8, LoopStep DEF Bounded, Absent
<1>9. CASE DumpsPackets
  <2>1. IInv'  BY <1>1, <1>9, DumpsStep, PlayerMoves DEF DumpsPackets, NoLostWakeup
  <2>2. Bounded
    <3> DEFINE all == Len(con.msgs)
               count == IF con.paused THEN 0 ELSE IF OneByOne /\ all > 0 THEN 1 ELSE all
    <3>1. con \in Consumers /\ con.out = <<>> /\ con.msgs \in Seq(Message)
      BY <1>9 DEF IInv, TypeOK, Player, DumpsPackets, Consumers
    <3>2. count \in 0..all  BY <3>1
    <3>3. CASE count = 0
      <4>1. con' = [con EXCEPT !.at = "loop"]  BY <1>9, <3>3 DEF DumpsPackets
      <4> QED  BY <3>1, <4>1 DEF Bounded, Consumers
    <3>4. CASE count # 0
      <4>1. con'.out = SubSeq(con.msgs, 1, count)
        BY <1>9, <3>1, <3>4 DEF DumpsPackets, Consumers
      <4>2. SubSeq(con.msgs, 1, count) # <<>>
        <5> HIDE DEF count
        <5> QED  BY <3>1, <3>2, <3>4
      <4> QED  BY <3>1, <4>1, <4>2 DEF Bounded
    <3> QED  BY <3>3, <3>4
  <2> QED  BY <2>1, <2>2
<1>10. CASE Delivers
  <2>1. IInv'  BY <1>1, <1>10, DeliversStep, PlayerMoves DEF Delivers, NoLostWakeup
  <2>2. con \in Consumers  BY DEF IInv, TypeOK
  <2>3. con'.msgs = con.msgs  BY <1>10, <2>2 DEF Delivers, Consumers
  <2> QED  BY <2>1, <2>3 DEF Bounded
<1>11. CASE SendFails
  BY <1>11, QuitStep DEF SendFails, Quit, Bounded, Absent
<1>12. CASE PeerGone \/ Expire \/ \E ctl \in {"play", "pause", "close"} : Receives(ctl)
  BY <1>12, ReceiveStep DEF Bounded
<1>13. CASE \E ctl \in {IF con.paused THEN "play" ELSE "pause", "close"} : Receives(ctl)
  BY <1>12, <1>13
<1>14. CASE UNCHANGED vars
  BY <1>14 DEF vars, IInv, TypeOK, SrcInv, GopInv, NoLostWakeup, Due, Bounded, Enough
<1> QED
  BY <1>2, <1>3, <1>4, <1>5, <1>6, <1>7, <1>8, <1>9, <1>10, <1>11, <1>12, <1>13, <1>14
     DEF Next, Runs

-----------------------------------------------------------------------------
(* The theorems.                                                           *)

LEMMA Invariance == Spec => []IInv
<1>1. Init => IInv
  BY InitInv
<1>2. IInv /\ [Next]_vars => IInv'
  BY NextInv
<1> QED  BY <1>1, <1>2, PTL DEF Spec

\* Every message, header and bound keeps its type whatever the publisher, the
\* player and its client do: TypeOK always holds.
THEOREM DeliveryTypeCorrect == Spec => []TypeOK
<1>1. IInv => TypeOK
  BY DEF IInv
<1> QED  BY <1>1, Invariance, PTL

\* A player sleeps on its condition only when nothing is there for it, and it
\* can be woken (SrsLiveConsumer::wait and wakeup): no interleaving with the
\* publisher and the receiving coroutine loses a wake-up.
THEOREM NoWakeupLost == Spec => []NoLostWakeup
<1>1. IInv => NoLostWakeup
  BY DEF IInv
<1> QED  BY <1>1, Invariance, PTL

\* Until its queue is shrunk, a player gets every frame once and in order,
\* whatever of it came from the GOP cache and whatever live
\* (SrsLiveSource::consumer_dumps, SrsLiveConsumer::enqueue).
THEOREM FramesOnceInOrder == Spec => []EveryFrameOnce
<1>1. ASSUME IInv PROVE EveryFrameOnce
  <2> SUFFICES ASSUME con.at # "none", ~con.cut
               PROVE  /\ {Stream[i].n : i \in FramesOf(Stream)} = (con.n + 1)..src.n
                      /\ \A i, j \in FramesOf(Stream) : i < j => Stream[i].n < Stream[j].n
    BY DEF EveryFrameOnce, FramesOf
  <2>1. Contiguous(Stream, con.n, src.n)
    BY <1>1 DEF IInv, Player, Stream
  <2>2. src.n \in Nat /\ con.n \in Nat /\ Stream \in Seq(Message)
    BY <1>1, DeliveryAssumption DEF IInv, TypeOK, Consumers, Stream
  <2>3. \A i \in FramesOf(Stream) : Stream[i].n \in (con.n + 1)..src.n
    <3>1. \A i \in DOMAIN Stream : Stream[i] \in Message  BY <2>2
    <3>2. \A i \in FramesOf(Stream) : Stream[i].n \in Nat  BY <3>1 DEF Message, FramesOf
    <3> QED  BY <2>1, <2>2, <3>2 DEF Contiguous
  <2> QED  BY <2>1, <2>3 DEF Contiguous
<1> QED  BY <1>1, Invariance, PTL

LEMMA StreamDecodable ==
  ASSUME ~ReduceHeaders, IInv, con.at # "none"
  PROVE  Decodable(Stream, con.ver, Due, src.ver)
BY DEF IInv, Player, Stream

\* Unless duplicates are reduced, no video frame reaches a player before the
\* sequence header it was coded with or a newer one, neither from the caches nor
\* after the queue was shrunk (SrsMessageQueue::shrink).
THEOREM HeadersFirst ==
  ASSUME ~ReduceHeaders
  PROVE  Spec => []HeaderFirst
<1>1. ASSUME IInv PROVE HeaderFirst
  <2>1. CASE con.at = "none"
    <3>1. Stream = <<>>  BY <1>1, <2>1 DEF IInv, Player, Stream, Absent
    <3> QED  BY <2>1, <3>1 DEF HeaderFirst
  <2>2. CASE con.at # "none"
    BY <1>1, <2>2, StreamDecodable DEF Decodable, HeaderFirst
  <2> QED  BY <2>1, <2>2
<1> QED  BY <1>1, Invariance, PTL

\* And the header of the frames to come is on its way to every player, whenever
\* it joined (SrsLiveSource::consumer_dumps and on_video_imp).
THEOREM HeadersOnTheWay ==
  ASSUME ~ReduceHeaders
  PROVE  Spec => []HeaderIsKnown
<1>1. ASSUME IInv PROVE HeaderIsKnown
  BY <1>1, StreamDecodable DEF Decodable, HeaderIsKnown, Due
<1> QED  BY <1>1, Invariance, PTL

\* A queue that fits, and whose messages keep their times, spans no more than it
\* may.
LEMMA SpanBound ==
  ASSUME NEW c \in Consumers, Times(c), Fits(c), MaxQueue > 0
  PROVE  Span(c.msgs) <= MaxQueue + MaxJitter
<1> DEFINE ms == c.msgs
<1>1. ms \in Seq(Message) /\ c.start \in Int /\ c.end \in Int /\ MaxQueue \in Nat /\ MaxJitter \in Nat
  BY DeliveryAssumption DEF Consumers
<1>2. CASE Timed(ms) = {}
  BY <1>1, <1>2 DEF Span
<1>3. CASE Timed(ms) # {}
  <2>1. Timed(ms) \subseteq 0..Len(ms) /\ Timed(ms) \subseteq Nat /\ Len(ms) \in Nat
    BY <1>1 DEF Timed
  <2>2. Last(ms, Max(Timed(ms)))
    BY <1>3, <2>1, MaxIsGreatest DEF Last
  <2>3. First(ms, Min(Timed(ms)))
    BY <1>3, <2>1, MinIsLeast DEF First
  <2> DEFINE i == Min(Timed(ms))
             j == Max(Timed(ms))
  <2>4. i \in DOMAIN ms /\ j \in DOMAIN ms
    BY <2>2, <2>3 DEF First, Last, Timed
  <2> HIDE DEF i, j
  <2>5. ms[i].ts \in Nat /\ ms[j].ts \in Nat
    <3>1. ms[i] \in Message /\ ms[j] \in Message  BY <1>1, <2>4
    <3> QED  BY <3>1 DEF Message
  <2>6. ms[j].ts = c.end /\ ms[i].ts >= c.start - MaxJitter
    BY <2>2, <2>3, <2>4 DEF i, j, Times, QueueTimes
  <2>7. Span(ms) = ms[j].ts - ms[i].ts
    BY <1>3 DEF Span, i, j
  <2>8. \A x, start, end, q, jitter \in Int :
          end - start <= q /\ x >= start - jitter => end - x <= q + jitter
    OBVIOUS
  <2>9. ms[i].ts \in Int /\ MaxQueue \in Int /\ MaxJitter \in Int  BY <1>1, <2>5
  <2> QED  BY <1>1, <2>6, <2>7, <2>8, <2>9 DEF Fits
<1> QED  BY <1>2, <1>3

\* What waits in the queue of a slow or paused player after a message has come
\* never spans more than queue_length and one step back of the jitter
\* (SrsMessageQueue::enqueue), for any clock of the encoders.
THEOREM QueueStaysBounded == Spec => QueueIsBounded
<1> DEFINE A == MaxQueue > 0 /\ con'.msgs # con.msgs /\ con'.out = con.out
                  => Span(con'.msgs) <= MaxQueue + MaxJitter
<1>1. IInv /\ IInv' /\ [Next]_vars => [A]_vars
  <2> SUFFICES ASSUME IInv, IInv', [Next]_vars, MaxQueue > 0, con'.msgs # con.msgs, con'.out = con.out
               PROVE  Span(con'.msgs) <= MaxQueue + MaxJitter
    BY DEF A
  <2>1. Bounded  BY NextInv
  <2>2. CASE con'.msgs = <<>>
    <3>1. Span(<<>>) = 0  BY DEF Span, Timed
    <3> QED  BY <2>2, <3>1, DeliveryAssumption
  <2>3. CASE Fits(con')
    <3>1. con' \in Consumers /\ Times(con')  BY DEF IInv, TypeOK, Player
    <3> QED  BY <2>3, <3>1, SpanBound
  <2> QED  BY <2>1, <2>2, <2>3 DEF Bounded
<1> QED  BY <1>1, Invariance, PTL DEF Spec, QueueIsBounded

=============================================================================
