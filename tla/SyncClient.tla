----------------------------- MODULE SyncClient -----------------------------
(***************************************************************************)
(* SyncClient, the connection of the chat server to the main business      *)
(* server: the reconnecting coroutine _run, the periodic and the delayed   *)
(* full reports, commands of the main server, and stop.                    *)
(*                                                                         *)
(* All of it runs on one event loop, so an action is the code from one     *)
(* suspension to the next.  A report reads the rooms in a worker thread    *)
(* and sends what it read later, in whatever order the threads answer.     *)
(* The state of all rooms is abstracted to a version and to whether there  *)
(* is any room at all, which is what _full_sync_loop tests.  Specification *)
(* and invariants are called Sync..., so that a module can extend another  *)
(* part of the server too.                                                 *)
(***************************************************************************)
EXTENDS Naturals

CONSTANTS
  MaxChanges,    \* bound: changes of the rooms
  MaxLosses      \* bound: lost connections and failed attempts

ASSUME ConstantsAssumption == MaxChanges \in Nat /\ MaxLosses \in Nat

VARIABLES
  shouldRun,  \* _should_run
  run,        \* where the coroutine _run is
  stopping,   \* where stop is
  connected,  \* the event _connected
  retrying,   \* _stats["reconnects"] > 0
  ws,         \* _ws: none, a live socket, or one whose peer or handshake is gone
  authSent,   \* whether auth went over this socket
  rooms,      \* user_manager's rooms
  task,       \* the report tasks
  snap,       \* what each report task has read
  reported,   \* what a report last put on an open socket
  losses      \* lost connections and failed attempts so far

connection == <<shouldRun, run, stopping, connected, retrying, ws, authSent, losses>>
reports == <<task, snap, reported>>
syncVars == <<connection, rooms, reports>>

RoomStates == [version : 0..MaxChanges, some : BOOLEAN]
NoRooms == [version |-> 0, some |-> FALSE]

\* _full_sync_loop, and the _flush_full scheduled by the change with that version.
Periodic == 0
Tasks == 0..MaxChanges

SyncInit ==
  /\ shouldRun = FALSE /\ run = "off" /\ stopping = "no"
  /\ connected = FALSE /\ retrying = FALSE /\ ws = "none" /\ authSent = FALSE
  /\ rooms = NoRooms /\ reported = NoRooms
  /\ task = [t \in Tasks |-> "idle"] /\ snap = [t \in Tasks |-> NoRooms]
  /\ losses = 0

-----------------------------------------------------------------------------
(* _run: turn, sleep, connect, receive, close.                             *)

\* With a secret configured; without one start returns and nothing ever runs.
Start ==
  /\ run = "off"
  /\ shouldRun' = TRUE /\ run' = "turn"
  /\ task' = [task EXCEPT ![Periodic] = "waiting"]
  /\ UNCHANGED <<stopping, connected, retrying, ws, authSent, losses, rooms, snap, reported>>

\* Mutant: a loop that does not look at _should_run.
TurnForever ==
  /\ run = "turn"
  /\ run' = IF retrying THEN "sleeping" ELSE "connecting"
  /\ UNCHANGED <<shouldRun, stopping, connected, retrying, ws, authSent, losses, rooms, reports>>

Turn ==
  /\ run = "turn"
  /\ run' = CASE ~shouldRun -> "ended"
              [] shouldRun /\ retrying -> "sleeping"
              [] OTHER -> "connecting"
  /\ UNCHANGED <<shouldRun, stopping, connected, retrying, ws, authSent, losses, rooms, reports>>

\* The sleep ends without another look at _should_run.
Wake ==
  /\ run = "sleeping" /\ run' = "connecting"
  /\ UNCHANGED <<shouldRun, stopping, connected, retrying, ws, authSent, losses, rooms, reports>>

\* _connect, the end of it, with _send_auth: _send_json drops what it is given
\* while the event is not set.  Then the event is set and _recv_loop begins,
\* which after stop returns at once, and the socket is closed.
Connect ==
  /\ run = "connecting"
  /\ ws' = "open" /\ authSent' = connected
  /\ run' = IF shouldRun THEN "receiving" ELSE "closing"
  /\ connected' = shouldRun /\ retrying' = ~shouldRun
  /\ UNCHANGED <<shouldRun, stopping, losses, rooms, reports>>

ConnectFails ==
  /\ run = "connecting" /\ losses < MaxLosses
  /\ losses' = losses + 1
  /\ run' = "turn" /\ connected' = FALSE /\ retrying' = TRUE
  /\ UNCHANGED <<shouldRun, stopping, ws, authSent, rooms, reports>>

\* The peer closes, or is gone without a word until recv times out.
LinkDies ==
  /\ ws = "open" /\ losses < MaxLosses
  /\ ws' = "dead" /\ losses' = losses + 1
  /\ UNCHANGED <<shouldRun, run, stopping, connected, retrying, authSent, rooms, reports>>

\* recv raises or times out: reconnects is counted, the event cleared, and
\* _close_ws waits for the socket.
RecvEnds ==
  /\ run = "receiving" /\ ws # "open"
  /\ run' = "closing" /\ connected' = FALSE /\ retrying' = TRUE
  /\ UNCHANGED <<shouldRun, stopping, ws, authSent, losses, rooms, reports>>

Closed ==
  /\ run = "closing"
  /\ run' = "turn" /\ ws' = "none" /\ authSent' = FALSE
  /\ UNCHANGED <<shouldRun, stopping, connected, retrying, losses, rooms, reports>>

\* stop: the periodic task is cancelled wherever it is, the socket closed.
StopBegins ==
  /\ shouldRun
  /\ shouldRun' = FALSE /\ connected' = FALSE
  /\ task' = [task EXCEPT ![Periodic] = "idle"]
  /\ stopping' = IF ws = "none" THEN "done" ELSE "closing"
  /\ ws' = IF ws = "none" THEN "none" ELSE "dead"
  /\ UNCHANGED <<run, retrying, authSent, losses, rooms, snap, reported>>

StopEnds ==
  /\ stopping = "closing"
  /\ stopping' = "done" /\ ws' = "none" /\ authSent' = FALSE
  /\ UNCHANGED <<shouldRun, run, connected, retrying, losses, rooms, reports>>

-----------------------------------------------------------------------------
(* Changes of the rooms and what reports them.                             *)

\* A change of which a handler tells the client.  Debouncer.emit schedules
\* _flush, which the class does not have, so no event is ever sent;
\* emit_full_sync schedules _flush_full.
ReportedChange ==
  /\ shouldRun /\ rooms.version < MaxChanges
  /\ rooms' = [version |-> rooms.version + 1, some |-> TRUE]
  /\ task' = [task EXCEPT ![rooms.version + 1] = "waiting"]
  /\ UNCHANGED <<connection, snap, reported>>

\* A change nobody reports: the mute of one member, a room closed by its
\* owner, possibly the last one (room_deleted emits no full report).
SilentChange ==
  /\ shouldRun /\ rooms.version < MaxChanges /\ rooms.some
  /\ \E some \in BOOLEAN : rooms' = [version |-> rooms.version + 1, some |-> some]
  /\ UNCHANGED <<connection, reports>>

\* A command of the main server, external: kick_user, mute_user and unmute_user change a
\* room, close_room deletes it and possibly the last one.
Command ==
  /\ run = "receiving" /\ ws = "open"
  /\ rooms.version < MaxChanges /\ rooms.some
  /\ \E some \in BOOLEAN : rooms' = [version |-> rooms.version + 1, some |-> some]
  /\ UNCHANGED <<connection, reports>>

-----------------------------------------------------------------------------
(* A full report: _full_sync_loop and _do_full_sync.                       *)

Rest(t) == IF t = Periodic /\ shouldRun THEN "waiting" ELSE "idle"

\* Mutant: the loop returns when it finds no connection.
DueOnce(t) ==
  /\ task[t] = "waiting"
  /\ task' = [task EXCEPT ![t] = IF connected THEN "collecting" ELSE "idle"]
  /\ UNCHANGED <<connection, rooms, snap, reported>>

\* The sleep or the 300 ms are over; without a connection nothing is reported.
Due(t) ==
  /\ task[t] = "waiting"
  /\ task' = [task EXCEPT ![t] = IF connected THEN "collecting" ELSE Rest(t)]
  /\ UNCHANGED <<connection, rooms, snap, reported>>

\* _do_collect, in a worker thread under the lock of the rooms.
Collect(t) ==
  /\ task[t] = "collecting"
  /\ task' = [task EXCEPT ![t] = "read"]
  /\ snap' = [snap EXCEPT ![t] = rooms]
  /\ UNCHANGED <<connection, rooms, reported>>

\* An empty list is not sent, and _send_json drops the report without a
\* connection; a dead socket swallows it.
Send(t) ==
  /\ task[t] = "read"
  /\ task' = [task EXCEPT ![t] = Rest(t)]
  /\ reported' = IF snap[t].some /\ connected /\ ws = "open" THEN snap[t] ELSE reported
  /\ UNCHANGED <<connection, rooms, snap>>

Report(t) == Due(t) \/ Collect(t) \/ Send(t)

SyncNext ==
  \/ Start \/ Turn \/ Wake \/ Connect \/ ConnectFails \/ LinkDies \/ RecvEnds
  \/ Closed \/ StopBegins \/ StopEnds
  \/ ReportedChange \/ SilentChange \/ Command
  \/ \E t \in Tasks : Report(t)

SyncSpec == SyncInit /\ [][SyncNext]_syncVars

\* The loop runs what is ready, sleeps and timeouts end, worker threads answer,
\* and the main server can be reached once the losses are used up.
SyncFairness ==
  /\ WF_syncVars(Turn) /\ WF_syncVars(Wake) /\ WF_syncVars(Connect) /\ WF_syncVars(RecvEnds)
  /\ WF_syncVars(Closed) /\ WF_syncVars(StopEnds)
  /\ \A t \in Tasks : WF_syncVars(Report(t))

SyncFairSpec == SyncSpec /\ SyncFairness

-----------------------------------------------------------------------------

\* Types, and stop is under way or done only with _should_run cleared.
SyncTypeOK ==
  /\ shouldRun \in BOOLEAN /\ connected \in BOOLEAN /\ retrying \in BOOLEAN
  /\ authSent \in BOOLEAN
  /\ run \in {"off", "turn", "sleeping", "connecting", "receiving", "closing", "ended"}
  /\ stopping \in {"no", "closing", "done"}
  /\ ws \in {"none", "open", "dead"}
  /\ rooms \in RoomStates /\ reported \in RoomStates
  /\ task \in [Tasks -> {"idle", "waiting", "collecting", "read"}]
  /\ snap \in [Tasks -> RoomStates]
  /\ losses \in 0..MaxLosses
  /\ stopping # "no" => ~shouldRun

\* The event _connected (sync_client.py:269-302) is set only while there is a
\* socket, whichever of stop and _run closes it, and in whatever order.
ConnectedHasSocket == connected => ws # "none" /\ run = "receiving"

\* A stop that overlaps the sleep or the connection attempt of _run
\* (sync_client.py:259-302), which it does not cancel, still leaves no socket in
\* the end, and none is opened afterwards.
StopEndsRun == stopping # "no" ~> [](run = "ended" /\ ws = "none")

\* The rooms as they are in the end go out on an open socket (sync_client.py:519),
\* through lost connections and reports sent out of order; unless there is no
\* room left, which is never reported.
ReportsCatchUp == []<>(reported = rooms \/ ~rooms.some \/ ~shouldRun)
=============================================================================
