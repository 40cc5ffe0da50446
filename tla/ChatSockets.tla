----------------------------- MODULE ChatSockets -----------------------------
(***************************************************************************)
(* ConnectionManager and the /ws endpoint of server_fastapi.py: which      *)
(* sockets are listed under which room, which one belongs to a user, and   *)
(* the broadcasts that walk over them.                                      *)
(*                                                                          *)
(* All coroutines run on one event loop and switch only at an await.        *)
(* native_ws_lock is a threading.Lock: a coroutine that finds it taken does *)
(* not switch, it stops the loop.  The heartbeat checker is a thread with a *)
(* loop of its own.                                                         *)
(***************************************************************************)
EXTENDS Integers, FiniteSets

CONSTANTS Users, Rooms, Sockets,
          UserOf,       \* the user query parameter of each socket
          Broadcasts,   \* coroutines that send: REST handlers and commands
          Heartbeat,    \* the broadcast of the heartbeat thread
          None

ASSUME UserOfType == UserOf \in [Sockets -> Users]
ASSUME NoneIsNothing == None \notin Rooms \cup Sockets

VARIABLES listed,     \* active_connections
          registered, \* user_connections
          endpoint,   \* each /ws coroutine: where it is, its room_id, and the
                      \* room it last passed to connect
          peer,       \* sockets whose client is still there
          sender,     \* each broadcast: what it does, for which room, to whom
          closing,    \* rooms that delete_room is about to pop
          lock,       \* the coroutine that sleeps with native_ws_lock, or None
          blocked     \* the loop waits for native_ws_lock

vars == <<listed, registered, endpoint, peer, sender, closing, lock, blocked>>

Senders  == Broadcasts \cup {Heartbeat}
Fresh    == [at |-> "new", room |-> None, target |-> None]
Idle     == [kind |-> "idle", room |-> None, todo |-> {}, failed |-> {}]

Init ==
  /\ listed = [r \in Rooms |-> {}]
  /\ registered = [u \in Users |-> None]
  /\ endpoint = [ws \in Sockets |-> Fresh]
  /\ peer = Sockets
  /\ sender = [b \in Senders |-> Idle]
  /\ closing = {}
  /\ lock = None
  /\ blocked = FALSE

-----------------------------------------------------------------------------
(* The event loop and the lock *)

\* A coroutine runs a section guarded by native_ws_lock, or stops the loop.
LoopHas == ~blocked /\ lock = None
LoopBlocks ==
  /\ ~blocked
  /\ lock # None
  /\ blocked' = TRUE
  /\ UNCHANGED <<listed, registered, endpoint, peer, sender, closing, lock>>

\* The thread only waits.
CanLock(b) == IF b = Heartbeat THEN lock = None ELSE LoopHas
CanRun(b)  == b = Heartbeat \/ ~blocked

\* disconnect() as it acts on the two tables.
Unlisted(ws, r)   == IF r \in Rooms THEN [listed EXCEPT ![r] = @ \ {ws}] ELSE listed
Unregistered(wss) == [u \in Users |-> IF registered[u] \in wss THEN None ELSE registered[u]]

\* Mutant: user_connections keeps the socket.
DisconnectHalf(ws, r) ==
  /\ listed' = Unlisted(ws, r)
  /\ UNCHANGED registered

Disconnect(ws, r) ==
  /\ listed' = Unlisted(ws, r)
  /\ registered' = Unregistered({ws})

-----------------------------------------------------------------------------
(* The /ws endpoint *)

\* connect() up to its await: the socket is listed and registered.
Connect(ws, r) ==
  /\ endpoint[ws].at = "new"
  /\ LoopHas
  /\ listed' = [listed EXCEPT ![r] = @ \cup {ws}]
  /\ registered' = [registered EXCEPT ![UserOf[ws]] = ws]
  /\ endpoint' = [endpoint EXCEPT ![ws] = [at |-> "hello", room |-> r, target |-> r]]
  /\ UNCHANGED <<peer, sender, closing, lock, blocked>>

\* The greeting is sent; a subscribe also moves room_id on.
Greeted(ws) ==
  /\ endpoint[ws].at \in {"hello", "moving"}
  /\ ~blocked
  /\ ws \in peer
  /\ endpoint' = [endpoint EXCEPT ![ws].at = "serving", ![ws].room = endpoint[ws].target]
  /\ UNCHANGED <<listed, registered, peer, sender, closing, lock, blocked>>

\* The first greeting fails: connect is called outside the try, and nothing is
\* taken back.
HelloFails(ws) ==
  /\ endpoint[ws].at = "hello"
  /\ ~blocked
  /\ ws \notin peer
  /\ endpoint' = [endpoint EXCEPT ![ws].at = "leaked"]
  /\ UNCHANGED <<listed, registered, peer, sender, closing, lock, blocked>>

\* The greeting of a subscribe fails: the handler disconnects room_id, which
\* still names the old room.
MoveFails(ws) ==
  /\ endpoint[ws].at = "moving"
  /\ LoopHas
  /\ ws \notin peer
  /\ Disconnect(ws, endpoint[ws].room)
  /\ endpoint' = [endpoint EXCEPT ![ws].at = "leaked"]
  /\ UNCHANGED <<peer, sender, closing, lock, blocked>>

\* Mutant: the old room keeps the socket.
SubscribeAdds(ws, r) ==
  /\ endpoint[ws].at = "serving"
  /\ LoopHas
  /\ ws \in peer
  /\ listed' = [listed EXCEPT ![r] = @ \cup {ws}]
  /\ registered' = [registered EXCEPT ![UserOf[ws]] = ws]
  /\ endpoint' = [endpoint EXCEPT ![ws].at = "moving", ![ws].target = r]
  /\ UNCHANGED <<peer, sender, closing, lock, blocked>>

\* A subscribe message: disconnect from room_id, connect to the new room.
Subscribe(ws, r) ==
  /\ endpoint[ws].at = "serving"
  /\ LoopHas
  /\ ws \in peer
  /\ listed' = [x \in Rooms |-> IF x = r THEN listed[x] \cup {ws}
                                ELSE IF x = endpoint[ws].room THEN listed[x] \ {ws}
                                ELSE listed[x]]
  /\ registered' = [Unregistered({ws}) EXCEPT ![UserOf[ws]] = ws]
  /\ endpoint' = [endpoint EXCEPT ![ws].at = "moving", ![ws].target = r]
  /\ UNCHANGED <<peer, sender, closing, lock, blocked>>

\* receive_json raises: the endpoint cleans up and ends.
EndpointEnds(ws) ==
  /\ endpoint[ws].at = "serving"
  /\ LoopHas
  /\ ws \notin peer
  /\ Disconnect(ws, endpoint[ws].room)
  /\ endpoint' = [endpoint EXCEPT ![ws].at = "ended"]
  /\ UNCHANGED <<peer, sender, closing, lock, blocked>>

\* External: the client goes away.
ClientGone(ws) ==
  /\ ws \in peer
  /\ endpoint[ws].at # "new"
  /\ peer' = peer \ {ws}
  /\ UNCHANGED <<listed, registered, endpoint, sender, closing, lock, blocked>>

-----------------------------------------------------------------------------
(* Broadcasts *)

\* broadcast_to_room: the list is copied under the lock.
BroadcastBegins(b, r) ==
  /\ sender[b] = Idle
  /\ CanLock(b)
  /\ sender' = [sender EXCEPT ![b] = [kind |-> "room", room |-> r, todo |-> listed[r], failed |-> {}]]
  /\ UNCHANGED <<listed, registered, endpoint, peer, closing, lock, blocked>>

\* One await of it: the message goes out or the socket is noted as dead.
BroadcastSends(b, ws) ==
  /\ sender[b].kind = "room"
  /\ ws \in sender[b].todo
  /\ CanRun(b)
  /\ sender' = [sender EXCEPT ![b].todo = @ \ {ws},
                              ![b].failed = IF ws \in peer THEN @ ELSE @ \cup {ws}]
  /\ UNCHANGED <<listed, registered, endpoint, peer, closing, lock, blocked>>

\* The dead sockets are disconnected from the room that was broadcast to.
BroadcastEnds(b) ==
  /\ sender[b].kind = "room"
  /\ sender[b].todo = {}
  /\ IF sender[b].failed = {} THEN CanRun(b) ELSE CanLock(b)
  /\ listed' = [listed EXCEPT ![sender[b].room] = @ \ sender[b].failed]
  /\ registered' = Unregistered(sender[b].failed)
  /\ sender' = [sender EXCEPT ![b] = Idle]
  /\ UNCHANGED <<endpoint, peer, closing, lock, blocked>>

\* broadcast_to_room_exclude takes the lock and keeps it over its awaits.  It
\* sends to the registered sockets of those others who are members; without
\* such a socket it has no await and leaves no trace.
NoticeBegins(b, owner) ==
  /\ b # Heartbeat
  /\ sender[b] = Idle
  /\ LoopHas
  /\ \E to \in SUBSET ({registered[u] : u \in Users \ {owner}} \ {None}) :
       /\ to # {}
       /\ sender' = [sender EXCEPT ![b] = [Idle EXCEPT !.kind = "notice", !.todo = to]]
  /\ lock' = b
  /\ UNCHANGED <<listed, registered, endpoint, peer, closing, blocked>>

\* One await of it ends well; after the last one the lock is released.
NoticeSends(b, ws) ==
  /\ sender[b].kind = "notice"
  /\ ws \in sender[b].todo
  /\ ~blocked
  /\ sender' = [sender EXCEPT ![b] = IF sender[b].todo = {ws} THEN Idle
                                    ELSE [sender[b] EXCEPT !.todo = @ \ {ws}]]
  /\ lock' = IF sender[b].todo = {ws} THEN None ELSE lock
  /\ UNCHANGED <<listed, registered, endpoint, peer, closing, blocked>>

\* One await fails: the user's entry is deleted, and when it is gone already
\* the KeyError ends the whole notice.
NoticeFails(b, ws) ==
  /\ sender[b].kind = "notice"
  /\ ws \in sender[b].todo \ peer
  /\ ~blocked
  /\ IF sender[b].todo = {ws} \/ registered[UserOf[ws]] = None
     THEN sender' = [sender EXCEPT ![b] = Idle] /\ lock' = None
     ELSE sender' = [sender EXCEPT ![b].todo = @ \ {ws}] /\ UNCHANGED lock
  /\ registered' = [registered EXCEPT ![UserOf[ws]] = None]
  /\ UNCHANGED <<listed, endpoint, peer, closing, blocked>>

\* send_to_user, and the removal of whatever the user has registered when the
\* send fails.
DirectBegins(b, u) ==
  /\ b # Heartbeat
  /\ sender[b] = Idle
  /\ ~blocked
  /\ registered[u] # None
  /\ sender' = [sender EXCEPT ![b] = [Idle EXCEPT !.kind = "direct", !.todo = {registered[u]}]]
  /\ UNCHANGED <<listed, registered, endpoint, peer, closing, lock, blocked>>

DirectEnds(b, ws) ==
  /\ sender[b].kind = "direct"
  /\ ws \in sender[b].todo
  /\ ~blocked
  /\ registered' = IF ws \in peer THEN registered
                   ELSE [registered EXCEPT ![UserOf[ws]] = None]
  /\ sender' = [sender EXCEPT ![b] = Idle]
  /\ UNCHANGED <<listed, endpoint, peer, closing, lock, blocked>>

-----------------------------------------------------------------------------
(* Closing a room *)

\* delete_room closes the sockets listed now, and pops the room after that,
\* without the lock.
RoomCloses(r) ==
  /\ r \notin closing
  /\ ~blocked
  /\ peer' = peer \ listed[r]
  /\ closing' = closing \cup {r}
  /\ UNCHANGED <<listed, registered, endpoint, sender, lock, blocked>>

RoomPopped(r) ==
  /\ r \in closing
  /\ ~blocked
  /\ listed' = [listed EXCEPT ![r] = {}]
  /\ closing' = closing \ {r}
  /\ UNCHANGED <<registered, endpoint, peer, sender, lock, blocked>>

-----------------------------------------------------------------------------
EndpointStep(ws) == Greeted(ws) \/ HelloFails(ws) \/ MoveFails(ws) \/ EndpointEnds(ws)

SenderStep(b) ==
  \/ \E ws \in Sockets : BroadcastSends(b, ws) \/ NoticeSends(b, ws)
                             \/ NoticeFails(b, ws) \/ DirectEnds(b, ws)
  \/ BroadcastEnds(b)

Next ==
  \/ \E ws \in Sockets : EndpointStep(ws) \/ ClientGone(ws)
  \/ \E ws \in Sockets, r \in Rooms : Connect(ws, r) \/ Subscribe(ws, r)
  \/ \E b \in Senders : SenderStep(b)
  \/ \E b \in Senders, r \in Rooms : BroadcastBegins(b, r)
  \/ \E b \in Senders, u \in Users : NoticeBegins(b, u) \/ DirectBegins(b, u)
  \/ \E r \in Rooms : RoomCloses(r) \/ RoomPopped(r)
  \/ LoopBlocks

Spec == Init /\ [][Next]_vars

\* Started coroutines go on: asyncio resumes a coroutine whose send or receive
\* is done, and the thread is scheduled.  A send is taken to end at some time,
\* with success or an exception.
Fairness == /\ \A ws \in Sockets : WF_vars(EndpointStep(ws))
            /\ \A b \in Senders : WF_vars(SenderStep(b))

FairSpec == Spec /\ Fairness

-----------------------------------------------------------------------------
(* What must hold *)

\* Types, and the lock is with a coroutine that is in the middle of a notice.
TypeOK ==
  /\ listed \in [Rooms -> SUBSET Sockets]
  /\ registered \in [Users -> Sockets \cup {None}]
  /\ endpoint \in [Sockets -> [at : {"new", "hello", "moving", "serving", "leaked", "ended"},
                               room : Rooms \cup {None}, target : Rooms \cup {None}]]
  /\ peer \subseteq Sockets
  /\ sender \in [Senders -> [kind : {"idle", "room", "notice", "direct"},
                             room : Rooms \cup {None}, todo : SUBSET Sockets, failed : SUBSET Sockets]]
  /\ closing \subseteq Rooms
  /\ lock \in Broadcasts \cup {None}
  /\ blocked \in BOOLEAN
  /\ lock # None => sender[lock].kind = "notice"

\* A socket is only listed under the room it connected or subscribed to last,
\* whatever broadcasts, closings and moves were under way
\* (server_fastapi.py:592-593).
ListedWhereSubscribed ==
  \A ws \in Sockets, r \in Rooms : ws \in listed[r] => r = endpoint[ws].target

\* An endpoint that ended by its own clean-up is in neither table, and no late
\* broadcast puts it back; only one whose greeting failed can remain.
EndedIsForgotten ==
  \A ws \in Sockets : endpoint[ws].at = "ended" =>
    /\ \A r \in Rooms : ws \notin listed[r]
    /\ \A u \in Users : registered[u] # ws

\* broadcast_to_room_exclude comes to its end: it is to reach "all members online
\* except the named ones" (server_fastapi.py:475).
NoticesFinish ==
  \A b \in Broadcasts : sender[b].kind = "notice" ~> sender[b].kind # "notice"
=============================================================================
