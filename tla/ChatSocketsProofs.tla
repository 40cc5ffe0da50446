-------------------------- MODULE ChatSocketsProofs --------------------------
(***************************************************************************)
(* The two socket tables of ConnectionManager, for any number of users,    *)
(* rooms, sockets and concurrent broadcasts.                                *)
(***************************************************************************)
EXTENDS ChatSockets, TLAPS

\* While an endpoint serves, its room_id is the room it last passed to connect;
\* before connect there is none.
PlaceInv ==
  \A ws \in Sockets :
    /\ endpoint[ws].at = "serving" => endpoint[ws].room = endpoint[ws].target
    /\ endpoint[ws].at = "new" => endpoint[ws].target = None

\* The tables in relation to the endpoints.
TableInv == ListedWhereSubscribed /\ EndedIsForgotten /\ PlaceInv

IInv == TypeOK /\ TableInv

Endpoints == [at : {"new", "hello", "moving", "serving", "leaked", "ended"},
              room : Rooms \cup {None}, target : Rooms \cup {None}]
Errands == [kind : {"idle", "room", "notice", "direct"},
            room : Rooms \cup {None}, todo : SUBSET Sockets, failed : SUBSET Sockets]

\* The parts of the type invariant by name.
TablesTyped    == listed \in [Rooms -> SUBSET Sockets]
                  /\ registered \in [Users -> Sockets \cup {None}]
EndpointsTyped == endpoint \in [Sockets -> Endpoints]
SendersTyped   == /\ sender \in [Senders -> Errands] /\ lock \in Broadcasts \cup {None}
                  /\ lock # None => sender[lock].kind = "notice"
RestTyped      == peer \subseteq Sockets /\ closing \subseteq Rooms /\ blocked \in BOOLEAN

LEMMA TypeParts == TypeOK <=> TablesTyped /\ EndpointsTyped /\ SendersTyped /\ RestTyped
  BY DEF TypeOK, TablesTyped, EndpointsTyped, SendersTyped, RestTyped, Endpoints, Errands

LEMMA TypePartsNext ==
  TypeOK' <=> TablesTyped' /\ EndpointsTyped' /\ SendersTyped' /\ RestTyped'
  BY DEF TypeOK, TablesTyped, EndpointsTyped, SendersTyped, RestTyped, Endpoints, Errands

LEMMA IdleIsErrand == Idle \in Errands
  BY DEF Idle, Errands

LEMMA InitHolds == Init => IInv
<1> SUFFICES ASSUME Init PROVE IInv
  OBVIOUS
<1>1. TablesTyped     BY DEF Init, TablesTyped
<1>2. EndpointsTyped  BY DEF Init, EndpointsTyped, Fresh, Endpoints
<1>3. SendersTyped    BY IdleIsErrand DEF Init, SendersTyped
<1>4. RestTyped       BY DEF Init, RestTyped
<1>5. TableInv
  BY DEF Init, TableInv, ListedWhereSubscribed, EndedIsForgotten, PlaceInv, Fresh
<1> QED  BY <1>1, <1>2, <1>3, <1>4, <1>5, TypeParts DEF IInv

\* A change of the tables that only takes sockets out, by an actor that is not
\* an endpoint, keeps what relates tables and endpoints.
LEMMA TakingOut ==
  ASSUME TypeOK, TableInv, UNCHANGED endpoint,
         \A r \in Rooms : listed'[r] \subseteq listed[r],
         \A u \in Users : registered'[u] \in {registered[u], None}
  PROVE  TableInv'
  BY NoneIsNothing DEF TableInv, ListedWhereSubscribed, EndedIsForgotten, PlaceInv

\* What disconnect does to the tables.
LEMMA DisconnectFacts ==
  ASSUME TypeOK, NEW ws \in Sockets, NEW r \in Rooms \cup {None}, Disconnect(ws, r)
  PROVE  /\ TablesTyped'
         /\ \A x \in Rooms : listed'[x] = IF x = r THEN listed[x] \ {ws} ELSE listed[x]
         /\ \A u \in Users : registered'[u] = IF registered[u] = ws THEN None ELSE registered[u]
  BY NoneIsNothing, TypeParts DEF Disconnect, Unlisted, Unregistered, TablesTyped

\* The steps of an endpoint.
LEMMA EndpointKeeps ==
  ASSUME IInv, NEW ws \in Sockets, EndpointStep(ws) \/ ClientGone(ws)
  PROVE  IInv'
<1> USE TypeParts, TypePartsNext, NoneIsNothing DEF IInv
<1>t. /\ TypeOK /\ TableInv /\ TablesTyped /\ EndpointsTyped /\ SendersTyped /\ RestTyped
      /\ endpoint[ws] \in Endpoints
  BY DEF EndpointsTyped
<1> USE <1>t
<1>1. CASE Greeted(ws)
  <2>1. TablesTyped' /\ SendersTyped' /\ RestTyped'
    BY <1>1 DEF Greeted, TablesTyped, SendersTyped, RestTyped
  <2>2. EndpointsTyped'  BY <1>1 DEF Greeted, EndpointsTyped, Endpoints
  <2>3. TableInv'
    BY <1>1 DEF Greeted, EndpointsTyped, Endpoints, TableInv, ListedWhereSubscribed,
                EndedIsForgotten, PlaceInv
  <2> QED  BY <2>1, <2>2, <2>3
<1>2. CASE HelloFails(ws)
  <2>1. TablesTyped' /\ SendersTyped' /\ RestTyped'
    BY <1>2 DEF HelloFails, TablesTyped, SendersTyped, RestTyped
  <2>2. EndpointsTyped'  BY <1>2 DEF HelloFails, EndpointsTyped, Endpoints
  <2>3. TableInv'
    BY <1>2 DEF HelloFails, EndpointsTyped, Endpoints, TableInv, ListedWhereSubscribed,
                EndedIsForgotten, PlaceInv
  <2> QED  BY <2>1, <2>2, <2>3
<1>3. CASE MoveFails(ws)
  <2>0. endpoint[ws].room \in Rooms \cup {None}  BY DEF Endpoints
  <2>1. SendersTyped' /\ RestTyped'  BY <1>3 DEF MoveFails, SendersTyped, RestTyped
  <2>2. EndpointsTyped'  BY <1>3 DEF MoveFails, EndpointsTyped, Endpoints
  <2>3. Disconnect(ws, endpoint[ws].room)  BY <1>3 DEF MoveFails
  <2>4. /\ TablesTyped'
        /\ \A x \in Rooms : listed'[x] \subseteq listed[x]
        /\ \A u \in Users : registered'[u] \in {registered[u], None}
    BY <2>0, <2>3, DisconnectFacts
  <2>5. TableInv'
    BY <1>3, <2>4 DEF MoveFails, EndpointsTyped, Endpoints, TableInv, ListedWhereSubscribed,
                      EndedIsForgotten, PlaceInv
  <2> QED  BY <2>1, <2>2, <2>4, <2>5
<1>4. CASE EndpointEnds(ws)
  <2>0. endpoint[ws].room \in Rooms \cup {None}  BY DEF Endpoints
  <2>1. SendersTyped' /\ RestTyped'  BY <1>4 DEF EndpointEnds, SendersTyped, RestTyped
  <2>2. EndpointsTyped'  BY <1>4 DEF EndpointEnds, EndpointsTyped, Endpoints
  <2>3. Disconnect(ws, endpoint[ws].room)  BY <1>4 DEF EndpointEnds
  <2>4. /\ TablesTyped'
        /\ \A x \in Rooms : listed'[x] = IF x = endpoint[ws].room THEN listed[x] \ {ws} ELSE listed[x]
        /\ \A u \in Users : registered'[u] = IF registered[u] = ws THEN None ELSE registered[u]
    BY <2>0, <2>3, DisconnectFacts
  <2>5. endpoint[ws].room = endpoint[ws].target
    BY <1>4 DEF EndpointEnds, TableInv, PlaceInv
  <2>6. ListedWhereSubscribed'
    BY <1>4, <2>4 DEF EndpointEnds, EndpointsTyped, Endpoints, TableInv, ListedWhereSubscribed
  <2>7. EndedIsForgotten'
    <3>1. \A x \in Rooms : ws \notin listed'[x]
      BY <2>4, <2>5 DEF TableInv, ListedWhereSubscribed
    <3>2. \A u \in Users : registered'[u] # ws  BY <2>4
    <3>3. \A w \in Sockets \ {ws} : endpoint'[w] = endpoint[w]
      BY <1>4 DEF EndpointEnds, EndpointsTyped
    <3>4. /\ \A x \in Rooms : listed'[x] \subseteq listed[x]
          /\ \A u \in Users : registered'[u] \in {registered[u], None}
      BY <2>4
    <3> QED  BY <3>1, <3>2, <3>3, <3>4 DEF TableInv, EndedIsForgotten
  <2>8. PlaceInv'
    BY <1>4 DEF EndpointEnds, EndpointsTyped, Endpoints, TableInv, PlaceInv
  <2> QED  BY <2>1, <2>2, <2>4, <2>6, <2>7, <2>8 DEF TableInv
<1>5. CASE ClientGone(ws)
  <2>1. TablesTyped' /\ EndpointsTyped' /\ SendersTyped' /\ RestTyped'
    BY <1>5 DEF ClientGone, TablesTyped, EndpointsTyped, SendersTyped, RestTyped
  <2>2. TableInv'
    BY <1>5 DEF ClientGone, TableInv, ListedWhereSubscribed, EndedIsForgotten, PlaceInv
  <2> QED  BY <2>1, <2>2
<1> QED  BY <1>1, <1>2, <1>3, <1>4, <1>5 DEF EndpointStep

\* A socket enters a room.
LEMMA EntryKeeps ==
  ASSUME IInv, NEW ws \in Sockets, NEW r \in Rooms, Connect(ws, r) \/ Subscribe(ws, r)
  PROVE  IInv'
<1> USE TypeParts, TypePartsNext, NoneIsNothing DEF IInv
<1>t. /\ TypeOK /\ TableInv /\ TablesTyped /\ EndpointsTyped /\ SendersTyped /\ RestTyped
      /\ endpoint[ws] \in Endpoints /\ UserOf[ws] \in Users
  BY UserOfType DEF EndpointsTyped
<1> USE <1>t
<1>1. CASE Connect(ws, r)
  <2>1. TablesTyped'  BY <1>1 DEF Connect, TablesTyped
  <2>2. EndpointsTyped'  BY <1>1 DEF Connect, EndpointsTyped, Endpoints
  <2>3. SendersTyped' /\ RestTyped'  BY <1>1 DEF Connect, SendersTyped, RestTyped
  <2>4. ListedWhereSubscribed'
    BY <1>1 DEF Connect, TablesTyped, EndpointsTyped, TableInv, ListedWhereSubscribed, PlaceInv
  <2>5. EndedIsForgotten'
    BY <1>1 DEF Connect, TablesTyped, EndpointsTyped, TableInv, EndedIsForgotten
  <2>6. PlaceInv'  BY <1>1 DEF Connect, EndpointsTyped, TableInv, PlaceInv
  <2> QED  BY <2>1, <2>2, <2>3, <2>4, <2>5, <2>6 DEF TableInv
<1>2. CASE Subscribe(ws, r)
  <2>1. TablesTyped'  BY <1>2 DEF Subscribe, Unregistered, TablesTyped
  <2>2. EndpointsTyped'  BY <1>2 DEF Subscribe, EndpointsTyped, Endpoints
  <2>3. SendersTyped' /\ RestTyped'  BY <1>2 DEF Subscribe, SendersTyped, RestTyped
  <2>4. ListedWhereSubscribed'
    BY <1>2 DEF Subscribe, TablesTyped, EndpointsTyped, Endpoints, TableInv,
                ListedWhereSubscribed, PlaceInv
  <2>5. EndedIsForgotten'
    BY <1>2 DEF Subscribe, Unregistered, TablesTyped, EndpointsTyped, Endpoints, TableInv,
                EndedIsForgotten
  <2>6. PlaceInv'  BY <1>2 DEF Subscribe, EndpointsTyped, Endpoints, TableInv, PlaceInv
  <2> QED  BY <2>1, <2>2, <2>3, <2>4, <2>5, <2>6 DEF TableInv
<1> QED  BY <1>1, <1>2

\* The steps of a broadcast, of its thread or of a handler.
LEMMA SenderKeeps ==
  ASSUME IInv, NEW b \in Senders, SenderStep(b)
  PROVE  IInv'
<1> USE TypeParts, TypePartsNext, NoneIsNothing DEF IInv
<1>t. /\ TypeOK /\ TableInv /\ TablesTyped /\ EndpointsTyped /\ SendersTyped /\ RestTyped
      /\ sender[b] \in Errands
  BY DEF SendersTyped
<1> USE <1>t, IdleIsErrand
<1>1. ASSUME NEW ws \in Sockets, BroadcastSends(b, ws) PROVE IInv'
  <2>1. SendersTyped'
    <3> DEFINE e == [sender[b] EXCEPT !.todo = @ \ {ws},
                                      !.failed = IF ws \in peer THEN @ ELSE @ \cup {ws}]
    <3>1. e \in Errands /\ e.kind = "room"  BY <1>1 DEF BroadcastSends, Errands
    <3>2. sender' = [sender EXCEPT ![b] = e] /\ lock' = lock  BY <1>1 DEF BroadcastSends
    <3>3. lock # None => lock # b  BY <1>1 DEF BroadcastSends, SendersTyped
    <3>4. sender' \in [Senders -> Errands]  BY <3>1, <3>2 DEF SendersTyped
    <3>5. lock # None => sender'[lock] = sender[lock]
      BY <3>2, <3>3 DEF SendersTyped, Senders
    <3> HIDE DEF e
    <3> QED  BY <3>2, <3>4, <3>5 DEF SendersTyped
  <2>2. TablesTyped' /\ EndpointsTyped' /\ RestTyped'
    BY <1>1 DEF BroadcastSends, TablesTyped, EndpointsTyped, RestTyped
  <2>3. TableInv'  BY <1>1, TakingOut DEF BroadcastSends
  <2> QED  BY <2>1, <2>2, <2>3
<1>2. ASSUME NEW ws \in Sockets, NoticeSends(b, ws) PROVE IInv'
  <2>1. SendersTyped'
    <3> DEFINE e == [sender[b] EXCEPT !.todo = @ \ {ws}]
    <3>1. e \in Errands /\ e.kind = "notice"  BY <1>2 DEF NoticeSends, Errands
    <3>2. CASE sender[b].todo = {ws}
      <4>1. sender' = [sender EXCEPT ![b] = Idle] /\ lock' = None
        BY <1>2, <3>2 DEF NoticeSends
      <4> QED  BY <4>1 DEF SendersTyped
    <3>3. CASE sender[b].todo # {ws}
      <4>1. sender' = [sender EXCEPT ![b] = e] /\ lock' = lock
        BY <1>2, <3>3 DEF NoticeSends
      <4>2. sender' \in [Senders -> Errands]  BY <3>1, <4>1 DEF SendersTyped
      <4>3. lock # None => sender'[lock].kind = "notice"
        BY <3>1, <4>1 DEF SendersTyped, Senders
      <4> HIDE DEF e
      <4> QED  BY <4>1, <4>2, <4>3 DEF SendersTyped
    <3> QED  BY <3>2, <3>3
  <2>2. TablesTyped' /\ EndpointsTyped' /\ RestTyped'
    BY <1>2 DEF NoticeSends, TablesTyped, EndpointsTyped, RestTyped
  <2>3. TableInv'  BY <1>2, TakingOut DEF NoticeSends
  <2> QED  BY <2>1, <2>2, <2>3
<1>3. ASSUME NEW ws \in Sockets, NoticeFails(b, ws) PROVE IInv'
  <2>1. SendersTyped'
    <3> DEFINE e == [sender[b] EXCEPT !.todo = @ \ {ws}]
    <3>1. e \in Errands /\ e.kind = "notice"  BY <1>3 DEF NoticeFails, Errands
    <3>2. CASE sender[b].todo = {ws} \/ registered[UserOf[ws]] = None
      <4>1. sender' = [sender EXCEPT ![b] = Idle] /\ lock' = None
        BY <1>3, <3>2 DEF NoticeFails
      <4> QED  BY <4>1 DEF SendersTyped
    <3>3. CASE ~(sender[b].todo = {ws} \/ registered[UserOf[ws]] = None)
      <4>1. sender' = [sender EXCEPT ![b] = e] /\ lock' = lock
        BY <1>3, <3>3 DEF NoticeFails
      <4> QED  BY <3>1, <4>1 DEF SendersTyped, Senders
    <3> QED  BY <3>2, <3>3
  <2>2. EndpointsTyped' /\ RestTyped'
    BY <1>3 DEF NoticeFails, EndpointsTyped, RestTyped
  <2>3. /\ TablesTyped' /\ listed' = listed
        /\ \A u \in Users : registered'[u] \in {registered[u], None}
    BY <1>3 DEF NoticeFails, TablesTyped
  <2>4. TableInv'  BY <1>3, <2>3, TakingOut DEF NoticeFails
  <2> QED  BY <2>1, <2>2, <2>3, <2>4
<1>4. ASSUME NEW ws \in Sockets, DirectEnds(b, ws) PROVE IInv'
  <2>1. SendersTyped'  BY <1>4 DEF DirectEnds, SendersTyped, Idle
  <2>2. EndpointsTyped' /\ RestTyped'
    BY <1>4 DEF DirectEnds, EndpointsTyped, RestTyped
  <2>3. /\ TablesTyped' /\ listed' = listed
        /\ \A u \in Users : registered'[u] \in {registered[u], None}
    BY <1>4 DEF DirectEnds, TablesTyped
  <2>4. TableInv'  BY <1>4, <2>3, TakingOut DEF DirectEnds
  <2> QED  BY <2>1, <2>2, <2>3, <2>4
<1>5. CASE BroadcastEnds(b)
  <2>1. SendersTyped'  BY <1>5 DEF BroadcastEnds, SendersTyped
  <2>2. EndpointsTyped' /\ RestTyped'
    BY <1>5 DEF BroadcastEnds, EndpointsTyped, RestTyped
  <2>3. /\ TablesTyped'
        /\ \A r \in Rooms : listed'[r] \subseteq listed[r]
        /\ \A u \in Users : registered'[u] \in {registered[u], None}
    BY <1>5 DEF BroadcastEnds, Unregistered, TablesTyped
  <2>4. TableInv'  BY <1>5, <2>3, TakingOut DEF BroadcastEnds
  <2> QED  BY <2>1, <2>2, <2>3, <2>4
<1> QED  BY <1>1, <1>2, <1>3, <1>4, <1>5 DEF SenderStep

\* A broadcast begins.
LEMMA BeginKeeps ==
  ASSUME IInv, NEW b \in Senders,
         \/ \E r \in Rooms : BroadcastBegins(b, r)
         \/ \E u \in Users : NoticeBegins(b, u) \/ DirectBegins(b, u)
  PROVE  IInv'
<1> USE TypeParts, TypePartsNext, NoneIsNothing DEF IInv
<1>t. TypeOK /\ TableInv /\ TablesTyped /\ EndpointsTyped /\ SendersTyped /\ RestTyped
  OBVIOUS
<1>1. SendersTyped'
  <2> USE <1>t
  <2>1. ASSUME NEW r \in Rooms, BroadcastBegins(b, r) PROVE SendersTyped'
    <3>1. [kind |-> "room", room |-> r, todo |-> listed[r], failed |-> {}] \in Errands
      BY DEF Errands, TablesTyped
    <3>2. sender' \in [Senders -> Errands]
      BY <2>1, <3>1 DEF BroadcastBegins, SendersTyped
    <3>3. lock # None => lock # b  BY <2>1 DEF BroadcastBegins, SendersTyped, Idle
    <3> QED  BY <2>1, <3>2, <3>3 DEF BroadcastBegins, SendersTyped, Senders
  <2>2. ASSUME NEW u \in Users, NoticeBegins(b, u) PROVE SendersTyped'
    <3>1. PICK to \in SUBSET ({registered[v] : v \in Users \ {u}} \ {None}) :
            sender' = [sender EXCEPT ![b] = [Idle EXCEPT !.kind = "notice", !.todo = to]]
      BY <2>2 DEF NoticeBegins
    <3>2. to \subseteq Sockets  BY DEF TablesTyped
    <3>3. [Idle EXCEPT !.kind = "notice", !.todo = to] \in Errands
      BY <3>2 DEF Idle, Errands
    <3>4. b \in Broadcasts /\ lock' = b  BY <2>2 DEF NoticeBegins, Senders
    <3>5. sender' \in [Senders -> Errands] /\ sender'[b].kind = "notice"
      BY <3>1, <3>3 DEF SendersTyped, Idle
    <3> QED  BY <3>4, <3>5 DEF SendersTyped
  <2>3. ASSUME NEW u \in Users, DirectBegins(b, u) PROVE SendersTyped'
    <3>1. registered[u] \in Sockets  BY <2>3 DEF DirectBegins, TablesTyped
    <3>2. [Idle EXCEPT !.kind = "direct", !.todo = {registered[u]}] \in Errands
      BY <3>1 DEF Idle, Errands
    <3>3. sender' \in [Senders -> Errands]
      BY <2>3, <3>2 DEF DirectBegins, SendersTyped
    <3>4. lock # None => lock # b
      <4>0. sender[b] = Idle  BY ONLY <2>3 DEF DirectBegins
      <4>1. sender[b].kind = "idle"  BY ONLY <4>0 DEF Idle
      <4>2. lock # None => sender[lock].kind = "notice"  BY <1>t DEF SendersTyped
      <4> QED  BY ONLY <4>1, <4>2
    <3> QED  BY <2>3, <3>3, <3>4 DEF DirectBegins, SendersTyped, Senders
  <2> QED  BY <2>1, <2>2, <2>3
<1>2. UNCHANGED <<listed, registered, endpoint, peer, closing, blocked>>
  BY DEF BroadcastBegins, NoticeBegins, DirectBegins
<1>3. TablesTyped' /\ EndpointsTyped' /\ RestTyped'
  BY <1>t, <1>2 DEF TablesTyped, EndpointsTyped, RestTyped
<1>4. TableInv'  BY <1>t, <1>2, TakingOut
<1> QED  BY <1>1, <1>3, <1>4

\* A room is closed, or the loop stops.
LEMMA OthersKeep ==
  ASSUME IInv, (\E r \in Rooms : RoomCloses(r) \/ RoomPopped(r)) \/ LoopBlocks
  PROVE  IInv'
<1> USE TypeParts, TypePartsNext DEF IInv
<1>t. TypeOK /\ TableInv /\ TablesTyped /\ EndpointsTyped /\ SendersTyped /\ RestTyped
  OBVIOUS
<1>1. SendersTyped' /\ EndpointsTyped' /\ UNCHANGED endpoint
  BY <1>t DEF RoomCloses, RoomPopped, LoopBlocks, SendersTyped, EndpointsTyped
<1>2. RestTyped'  BY <1>t DEF RoomCloses, RoomPopped, LoopBlocks, RestTyped
<1>3. /\ TablesTyped' /\ registered' = registered
      /\ \A r \in Rooms : listed'[r] \subseteq listed[r]
  BY <1>t DEF RoomCloses, RoomPopped, LoopBlocks, TablesTyped
<1>4. TableInv'  BY <1>t, <1>1, <1>3, TakingOut
<1> QED  BY <1>1, <1>2, <1>3, <1>4

\* Every step preserves the invariant.
LEMMA StepHolds == IInv /\ [Next]_vars => IInv'
<1> SUFFICES ASSUME IInv, [Next]_vars PROVE IInv'
  OBVIOUS
<1>1. CASE UNCHANGED vars
  BY <1>1 DEF vars, IInv, TypeOK, TableInv, ListedWhereSubscribed, EndedIsForgotten, PlaceInv
<1>2. ASSUME NEW ws \in Sockets, EndpointStep(ws) \/ ClientGone(ws) PROVE IInv'
  BY <1>2, EndpointKeeps
<1>3. ASSUME NEW ws \in Sockets, NEW r \in Rooms, Connect(ws, r) \/ Subscribe(ws, r) PROVE IInv'
  BY <1>3, EntryKeeps
<1>4. ASSUME NEW b \in Senders, SenderStep(b) PROVE IInv'
  BY <1>4, SenderKeeps
<1>5. ASSUME NEW b \in Senders, NEW r \in Rooms, BroadcastBegins(b, r) PROVE IInv'
  BY <1>5, BeginKeeps
<1>6. ASSUME NEW b \in Senders, NEW u \in Users, NoticeBegins(b, u) \/ DirectBegins(b, u) PROVE IInv'
  BY <1>6, BeginKeeps
<1>7. CASE (\E r \in Rooms : RoomCloses(r) \/ RoomPopped(r)) \/ LoopBlocks
  BY <1>7, OthersKeep
<1> QED  BY <1>1, <1>2, <1>3, <1>4, <1>5, <1>6, <1>7 DEF Next

\* The inductive invariant holds in every reachable state.
THEOREM Invariance == Spec => []IInv
  BY InitHolds, StepHolds, PTL DEF Spec

\* Tables, endpoints and broadcasts keep their types, and the lock of
\* server_fastapi.py:478 is with a coroutine in the middle of an owner notice.
THEOREM SocketTypeCorrect == Spec => []TypeOK
  BY Invariance, PTL DEF IInv

\* A socket is listed only under the room it connected or subscribed to last
\* (server_fastapi.py:592-593), whatever broadcasts are under way.
THEOREM ListedOnlyWhereSubscribed == Spec => []ListedWhereSubscribed
  BY Invariance, PTL DEF IInv, TableInv

\* An endpoint that cleaned up (server_fastapi.py:596-600) stays out of both tables.
THEOREM EndedStaysForgotten == Spec => []EndedIsForgotten
  BY Invariance, PTL DEF IInv, TableInv
=============================================================================
