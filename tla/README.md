# Verification of the SRS chat room

This directory holds TLA+ models of the chat-room server and of the core of the SRS media server
beside it, the TLC configurations that check them, and TLAPS proofs about them. Paths are relative
to the root of the repository; `server_fastapi.py:2345` is a line of that file, and
`srs_app_source.cpp:2616` one of a file of `trunk/src/app/`.

| module | models | checked by | proved in |
|---|---|---|---|
| `InvitationStore` | `invitation_store.py`, the invitation handlers and threads of `server_fastapi.py` | `InvitationStore.cfg`, `InvitationLive.cfg` | `InvitationStoreProofs` |
| `InvitationLifecycle` | what the store promises about an invitation (abstract) | refined in `InvitationLive.cfg` | `InvitationStoreProofs` |
| `ChatRoom` | `user_manager.py` and the room handlers of `server_fastapi.py` | `ChatRoom.cfg` | `ChatRoomProofs` |
| `ChatSockets` | `ConnectionManager` and `/ws` of `server_fastapi.py` | `ChatSockets.cfg`, `ChatSocketsNotice.cfg` | `ChatSocketsProofs` |
| `Translations` | `translation_manager.py`, the translation handlers, hooks and checker of `server_fastapi.py` | `Translations.cfg` | `ServerProofs` |
| `SyncClient` | `sync_client.py` | `SyncClient.cfg` | `ServerProofs` |
| `StreamPublish` | who publishes a stream of SRS over RTMP, WebRTC and SRT; bridges, eviction | `StreamPublish.cfg` | `StreamPublishProofs` |
| `LiveDelivery` | caches of a live source, queue and coroutines of an RTMP player | `LiveDelivery.cfg`, `LiveDeliveryShrink.cfg` | `LiveDeliveryProofs` |
| `EdgeServer` | a stream on an SRS edge, pulled from and pushed to its origin | `EdgeServer.cfg` | `EdgeServerProofs` |
| `GbSession` | a GB28181 device, its session and its connections | `GbSession.cfg` | `GbSessionProofs` |

`MC*.tla` give TLC its instances: `tlc -config ChatRoom.cfg MCChatRoom.tla`. The proofs are
checked with `tlapm ChatRoomProofs.tla`, and so on. `PROJECT.json` lists runs, mutants, the lines
each definition models, findings, hazards and theorems.

## 1. Inventory

The repository is a copy of SRS (`trunk/`, a C++ media server) with a chat-room back end in
Python at its root. The core logic of the program is in the Python server; SRS is upstream
code that it drives over HTTP hooks and the SRS API.

### The Python server

* **Rooms, members, roles** (`user_manager.py`, `server_fastapi.py:984-2000`). State: `_rooms`, each a
  `Room` with owner, owner status, status, `allow_speak`, `max_members` and a map of `User`
  records (role, status, publish flag). Operations: create, join, knock, leave, kick, set role
  or transfer, mute, mic off, unmute, mute all, delete. *Hard*: `delete_room` checks, then awaits SRS and
  a broadcast, then closes; roles, presence and ownership move together; overlapping mutes.
  *Correct if* an existing room always has its owner as a member, nobody is over the limit, a closed
  room is empty and final, the publish flag says what the status says, the owner is not silenced, and only the owner
  closes.
* **Invitations** (`invitation_store.py`, `server_fastapi.py:311-354`, `2259-2470`). State: two memory
  shards, a write queue, two files and the older `invitations.json`. Three threads: event loop,
  hourly sweeper, writer. *Hard*: crash and restart at any step, writes of one shard at a
  time, serialisation without the lock, an answer racing the sweeper, shutdown with a full
  queue. *Correct if* an invitation is in one shard, an answer is final, a user has one live pending invitation per room,
  memory reaches the files, and overdue invitations leave.
* **WebSocket connections** (`server_fastapi.py:405-490`, `560-600`). State: `active_connections` by
  room, `user_connections` by user, a `threading.Lock` used from coroutines and from the
  heartbeat thread. *Hard*: lists copied before awaits, sockets that move between rooms, failed
  sends cleaning up after the fact, a thread lock held across an await. *Correct if* a socket is listed only where
  it subscribed and an ended one is forgotten; broadcasts should end, and do not always.
* **Live translations** (`translation_manager.py`, `server_fastapi.py:2500-2700`, `2880-2946`, `3080-3147`).
  State: requests by slot and by id, child processes, their index by stream. *Hard*: a start
  that sleeps between stopping the old process and adding the new request, the checker thread,
  hooks, and processes that take seconds to shut down. *Correct if* a slot has one active request, every process
  stays within reach of the next start, and silent clients' requests stop. That a translation stream has one process
  would be right too, and is not so (section 6).
* **Synchronisation with the main server** (`sync_client.py`). State: one reconnecting WebSocket,
  the `_connected` event, delayed and periodic reports. *Hard*: reconnection, stop at any point of
  the reconnection, reports read in worker threads, lost messages. *Correct if* the event follows the
  socket, stop leaves nothing open, and the rooms as they are in the end are reported on an open connection.
* **Share links** (`share_manager.py`): a table of codes with expiry and a sweeper thread; joining by a code is `join_room`.
* **Authentication** (`auth.py`), **user names** (`user_name_resolver.py`), **speech and text
  services** (`baidu_asr_client.py`, `language_detector.py`, `tts_service.py`): functions of
  their input, a clock or an external service; no shared state that others' behaviour depends on.
* **Notification service** (`notification_service.py`) and **text publishers**
  (`translation_text_publisher*.py`): outgoing messages and ffmpeg processes.
* **Audio translation process** (`audio_translation_service_websocket.py`,
  `realtime_translation_service.py`, `baidu_realtime_translation.py`): the child process that
  `Translations` starts and stops; pipes, worker threads and an external ASR session.
* **Callback server** (`callback_server.py`), the threaded Flask predecessor of
  `server_fastapi.py` over the same `UserManager`, and the only caller of `TranslationManager`'s
  puller functions; its **relays** (`native_websocket_server.py`, `websocket_server.py`,
  `websocket_client.py`) and **pull heartbeat client**.
* **Mock main server and test clients** (`mock_main_server.py`, `quick_test_sync.py`,
  `websocket_test.py`), **supervision scripts** (`srs_watchdog.sh`, `restart_all.sh`,
  `start_all.sh`).

### SRS (upstream)

SRS is one thread of coroutines (`srs_app_st`): code runs alone from one wait to the next.

* **Coroutines and resources** (`srs_app_st`, `srs_app_conn`, `srs_app_async_call`,
  `srs_app_hourglass`): start, interrupt and join of coroutines, deferred disposal of connections in
  `SrsResourceManager`, a worker queue, timers. *Hard*: disposal while a handler holds the
  object, interruption between two waits.
* **Sources of a stream** (`srs_app_source`, `srs_app_rtc_source`, `srs_app_srt_source`,
  `srs_app_stream_bridge`; claimed in `srs_app_rtmp_conn`, `srs_app_rtc_conn`, `srs_app_srt_conn`). State: a pool
  per protocol, `can_publish`, the bridge, the die time. *Hard*: three acquire sequences that look at
  each other's sources in their own order, hooks between check and claim, failures after half of the claims,
  a timer that evicts. *Correct if* a URL has one publisher, who keeps what it claimed; nothing stays
  busy without one; what is used stays in the pool and what is not is forgotten.
* **Delivery** (`srs_app_source`, `srs_app_recv_thread`, `srs_app_rtmp_conn`). State: metadata and GOP caches, a
  consumer's queue, its condition variable. *Hard*: lost wake-ups, a queue at its limit, clocks that start again,
  changes of headers and of the publisher. *Correct if* nobody sleeps on work, the queue is bounded, a
  player gets the headers first and then each frame once.
* **Edge** (`srs_app_edge`). State: states of `SrsPlayEdge` and `SrsPublishEdge` and of their two coroutines. *Hard*: joining a coroutine
  that goes on meanwhile, clients that come during start and stop. *Correct if* players are fed, an idle
  edge is clean, and a publisher hears of a lost origin.
* **GB28181** (`srs_app_gb28181`). State: the session and its two transports with raw pointers to it. *Hard*: devices that
  reconnect either transport at any time, a session that is freed by another coroutine some time after its end.
  *Correct if* the session outlives them, an established one was answered, and a silent device is forgotten.
* **WebRTC transport** (`srs_app_rtc_*`): DTLS, NACK receiver with its window. *Hard*: sequence numbers
  that wrap, packets lost and reordered.
* **Hooks and API** (`srs_app_http_hooks`, `srs_app_http_api`), **files and counters**
  (HLS, DASH, DVR, statistics), **kernel and protocol stacks** (codecs, RTMP, HTTP, RTP).

### How the parts interact

Clients call the REST handlers and hold a `/ws` socket. Handlers change `UserManager`, then
broadcast over `ConnectionManager` and tell `SyncClient`; accepting an invitation, a knock or a share code is
`join_room`. Commands of the main server (kick, mute, close) come in over `SyncClient` and change
`UserManager` directly. SRS calls hooks that count streams (read by `delete_room`) and that stop
translations. One event loop runs all handlers and coroutines; the sweepers, the invitation
writer and the heartbeat checker are threads. Inside SRS a publisher claims sources (`StreamPublish`),
its messages reach consumers (`LiveDelivery`), the first consumer of an edge makes it pull (`EdgeServer`);
a GB28181 session publishes over RTMP to the same server.

## 2. Plan

Written so far, in this order: `InvitationStore` with `InvitationLifecycle` (the one component with
persistence and three threads), `ChatRoom`, `ChatSockets`, `Translations`, `SyncClient`, and then the
core of SRS: `StreamPublish`, `LiveDelivery`, `EdgeServer`, `GbSession`.

What would come next, in this order:

1. `SrsResource`: `SrsResourceManager` in general, with the connections of RTMP, WebRTC and SRT. `GbSession` has
   what a GB28181 session meets of it.
2. `SrsNack`: the NACK receiver and ring buffer over sequence numbers modulo 2^16.
3. `ShareLinks` (`share_manager.py`) with `ChatRoom`'s `JoinRoom`, and `CallbackRoom`, the threaded
   environment of `callback_server.py` over the same `UserManager`.

Runs and properties are kept few: a type invariant that is proved is not also run, and a disagreement
that a variant of a passing run shows is described in section 6.

## 3. Modules, state and actions

A handler that does not await between its check and its update is one action. Where it awaits,
or where another thread can come between two locked sections, it is several.

**InvitationStore.** `active` and `archive` are the shards, `queue` the write queue, `file` the two
files, `legacy` the file of the older format. `pc.loop` is where the event loop is inside one
handler, `pc.sweeper` the sweeper. `AcceptChecked` and `RejectChecked` are the handlers up to
`update_status`; `UpdateStatus` and the two `UpdateQueues...` run under the lock, so the sweeper waits
(`LockFree`) and the writer does not. `WriterSnapshots` copies references and `WriterDumps` reads
each record when it comes to it, as `json.dump` does. `Crash` loses everything but the files;
`StopBegin` is the shutdown. A record is abstracted to its status, the clock to the set `due`.

**ChatRoom.** `room` and `member` are one `Room`, `busy` what SRS would report, `closer` the `DELETE`
handler in progress (`DeleteBegins` to `DeleteEnds`, one step between two awaits). One `DELETE` runs at a
time. `DropRoom` is the main server's `close_room`. `_repair_room_if_needed` is not a step: it
would only act in a state that is proved unreachable (`~NeedsRepair` in `OwnerIsAnchored`).

**ChatSockets.** `listed` and `registered` are the two tables, `endpoint` each `/ws` coroutine with its
local `room_id`, `sender` each broadcast with the list it copied. `lock` is held across an await by
`NoticeBegins` only; `LoopBlocks` is what happens to the loop when another coroutine then
asks for it. `Heartbeat` sends from its own thread.

**Translations.** `slot` is `_requests`, `status` `_requests_by_id`, `running` the processes,
`byStream` the index of hooks. `StartFirst` and `StartReplaces` are the start handler up to its
one-second sleep, `StartWakes` the rest. A tick is 20 s, so that the 30 s timeout is more than one
tick and less than two; `Tick` waits for a start that sleeps one second. A process that was told to end is in
`ending` until it exits: it leaves its loop, stops its ffmpegs and disconnects first
(`audio_translation_service_websocket.py:1625`), which may take longer than the start sleeps. A slot is a room, a source and
a language; the name of the translated stream (`StreamName`, `translation_manager.py:534`) is without the room.
Publishing, time and the exit of a process are external.

**SyncClient.** `run` is where `_run` is, `ws` the socket (`"dead"`: the peer is gone, or a close
has begun), `task` and `snap` the reports in flight, `reported` what a report last put on an open socket. What the main
server does with it is outside: it may well ignore a client that never sent auth, as the repository's own mock does
(`mock_main_server.py:211`), and none is ever sent (section 6). `Connect` contains `_send_auth` and what `_send_json` does with it. The rooms are a version number and whether
there is any. Event messages do not appear: `Debouncer.emit` schedules `self._flush`, a method
the class lacks, so none is ever sent. The delay of a reconnection is a sleep of any length.

**StreamPublish.** One URL. `pool` is what the three managers have for it, `owner` is `_can_publish` of each source
(with the name of who made it false), `bridge` is `bridge_`, `warm` that a source died less than the clean-up delay
ago, `conn` where each client is. A source that is dropped and made again is another identity of `Sources`. `Fetch` is the way to the
protocol's hooks; `RtmpAcquire`, `SrtAcquire`, `RtcCreate` and `RtcStart` are the claims up to the first wait,
`HubPublished` or `HubFails` what follows `hub->on_publish`; `ReleaseLive` to `FailedHubStopped` are `on_unpublish`
cut at its waits. Which identity a new source gets makes no difference, so `Fetches` chooses one. Three things the code lets happen
break what it otherwise keeps; they are in the model and counted in `mishaps`: a timer drops a source that a
connection has fetched or a bridge leads to (`"evicted"`, in `TimerCleans`); a stream is claimed while an RTC or SRT publisher is
still in `on_unpublish` of the live source behind it, which waits for HTTP clients (`"overtaken"`); an SRT `on_publish` fails half-way
and leaves its claims (`"unreleased"`, in `HubFails`). `MaxMishaps` bounds how often each happens.

**LiveDelivery.** `src` is the encoder and `SrsMetaCache`, `gop` the `SrsGopCache`, `con` the consumer with its queue, its jitter
correction and where its player is, `recv` the receiving coroutine. A message is a kind, a time in ticks and the version
of the header it needs. `Enqueued` is correction, store, shrink and signal, as one call of the code;
`Waits`, `DumpsPackets` and `Delivers` are the loop of `do_playing` cut at its waits. Of the control messages, those
that change the loop are modelled (pause, play, close).

**EdgeServer.** `play` and `push` are the states of the two edge objects, `ingester` and `forwarder` the coroutines with
their interrupted flag, `client` where each connection is. `Leaves` is the stop of the last player up to the join, `Joined` what follows.
`HubWaits` says whether publishing the source waits for the forward hook. An expiry that arrives during a join makes
the join fail and an assertion end the process (section 6); `Kick` is therefore for clients that are not joining.

**GbSession.** `ses` is the session, `sip` and `media` each TCP connection with its `session_`, as a number of the sessions there
have been. `Driven` is `SrsGbSipTcpConn::drive_state`, `Drive` the session's `drive_state` every 300 ms with the end
in `cycle`. Times are abstracted to "passed". A device may have any number of connections open. A session
that ends (`Ended`) interrupts the transports it has; it is freed by the resource manager's coroutine (`Disposed`,
`srs_app_conn.cpp:320`), and a REGISTER or a packet with its SSRC still finds it in between. A media connection is
`"muxing"` while it waits inside the session's muxer, where an interrupt ends one wait and not the pack. `left` is a history of the connections that no
session is going to interrupt: those that were replaced, and those taken by a session that had ended.

## 4. Runs

| run | what it shows | bounds |
|---|---|---|
| `invitation_crash` | shards, uniqueness, durability, final answers through a crash or stop and a second start | two ids for one user, so they can collide; two starts; no failed write; no older file |
| `invitation_live` | the store implements `InvitationLifecycle`; changes, the creation included, reach the disk; overdue ones leave | one id, three starts, one failed write; no older file |
| `room` | four properties of rooms, members and roles through all handlers and commands | four users, limit three, one `DELETE`, streams that come and go |
| `sockets` | the two tables through moves, failures, closings, and a loop that stops for good | two sockets of one reconnecting user, two rooms, one broadcast and the heartbeat |
| `sockets_notice` | *violated*: a notice to all but the owner comes to its end | two users, one room, one notice |
| `translations` | one active request a slot, no process out of reach, who may feed one stream, silent clients' requests stop | three ids, two rooms, one source and language, two concurrent starts |
| `sync` | stop ends the run; the rooms are reported in the end | two changes (three reports in flight with the periodic one), two losses |
| `streams` | one publisher, who keeps its sources; nothing busy without one; used is pooled and unused forgotten; each until the mishaps that break it | two clients that publish and play, two identities a source, every choice of bridges, each mishap once |
| `delivery` | no lost wake-up, a bounded queue, headers before what needs them, each frame once, gone players leave | four messages, two versions of the header, queue and jitter of two ticks, at most two cached frames |
| `delivery_shrink` | *violated*: only a queue that overflows is shrunk | the same |
| `edge` | players are fed, rest is clean, the origin is reached again and again, pulling stops, publishers hear | three players, two publishers, one queued message |
| `gb` | which connections may outlive their session, established sessions are answered, devices that went are forgotten | two connections of each kind, two sessions, one timeout |

*Why the bounds are enough.* Every hazard here needs at most two actors and one bystander: two
invitations of one user, an owner with a new owner and a member, two sockets of one user, two sleeping
starts, two reports in different threads, a publisher and a second client, the first, a second and
the last player of an edge, a connection and its successor. A mishap need only happen once to be there; where a property survives
one, the proof covers any number. Two languages of one source, which overwrite each other in `byStream`, and migrated records are in no
run: the proofs of safety are for any languages and any older file. Users, ids and handlers are only compared for equality; the proofs remove
the bound for safety where there is one. `ChatRoom.cfg` uses symmetry over users; it
checks no liveness. Three ids of requests let a stopped request, its replacement and
a second replacement exist together, in one room or in two.

`CHECK_DEADLOCK FALSE` stands where the system may stop: the process is down for good
(both runs of `InvitationStore`), the client was stopped (`SyncClient`), the loop is blocked or every socket has ended
(both runs of `ChatSockets`), the encoder has sent all and no player is there (`LiveDelivery`), all connections of the device are used up
(`GbSession`).

*Fairness.* Weak, and only of what the code keeps running: the daemon threads of the store;
coroutines that asyncio resumes when their await is over (a send ends at some time, with or without success);
the checker that looks every ten seconds, the clock and a start whose sleep is over; `_run` and the reports of the client,
and the main server, which can be reached again after finitely many losses. In SRS: the 3 s timers of the managers
(`StreamPublish`); a player's coroutine that can run, and a send, which has a timeout (`LiveDelivery`); the two coroutines of an
edge, connections that are being made or left, expired clients that leave, and a publisher that goes on sending and so meets the error kept for it; the session's 300 ms cycle and the resource manager's coroutine, which is signalled (`GbSession`). One
fairness is strong: an origin that is tried again and again answers in the end (`IngestConnects`). No client has to call, no
user to leave, nothing to fail or stop.

*Reach of some properties.* `SettledIsDurable` speaks of the first run of the process, without a failed write
and without the older file: the code does not retry a failed write, and does not write migrated
records back; `EventuallyDurable` leaves out failed writes for the same reason. `SilentIsInactive` is about the request alone, its process may go on. `ReportsCatchUp` excludes the
empty list of rooms, which is never reported, and says nothing of what the main server keeps. `OneFeederPerRoom` states
exactly when two processes may share a stream, which is more often than the code means to. The properties of `StreamPublish` hold until the mishaps each of them names,
and not beyond: TLC finds all five violated after an eviction, `BusyIsHeld` and `StreamIsForgotten` after
each of the other two as well; after a claim has overtaken an `on_unpublish`, the code may free a bridge in use, so that nothing is said of who
publishes then. `SessionOutlives` lists the connections that do outlive their session. That the socket of a client that has
gone leaves the tables in the end depends on its endpoint ending, which is the transport's; checked is that nothing brings it back.

Each property of a passing run has a mutant in its module, an operator with the plausible mistake
(a copy instead of a move, a missing test, an event left set) with which TLC finds it violated.

## 5. Proofs

All for any number of users, ids, rooms, languages, handlers, connections and sources and any bounds, from the named
assumptions on the constants; what is assumed beyond the types of the constants is said below
(`LegacyUnique`, `~HubWaits`, `~ReduceHeaders`). Of some properties the proof takes the place of a run: the type invariants,
`PublishFollowsStatus`, `ClosedNeverReopens` (`ChatRoom`), `ConnectedHasItsSocket` (`SyncClient`) and `EdgePlayStateHolds` (`EdgeServer`).

* **InvitationStoreProofs.** `IInv` adds to `TypeOK` and `ShardsDisjoint` that the job of a handler concerns an issued id
  (`JobInv`) and that an id that was not issued is in no memory, file or temporary file (`IssuedInv`);
  without the latter, creating an invitation could find its id archived. `OneLivePending` (`UniqueInv`) needs the
  same of what the files would bring back: at most one pending invitation a user in the
  temporary file, the active file and their merge, with those live in memory. `SettledIsDurable` (`DurInv`) follows from
  an account of where each difference between memory and file is: in the queue, the batch, the
  snapshot being written, or a write about to be queued. `LegacyUnique` is assumed of the file of the older format,
  which the older code wrote under the same rule.
* **The refinement of `InvitationLifecycle`** (same module). The mapping is the status the store would answer while the process
  runs, and the one it would load while it does not (`Seen`). A start is then `Begin` and changes nothing, `CreateInvitation` is `Issue`,
  `UpdateStatus` is `Answer`, `Expire` of one invitation or, of one that the sweeper took first, a stutter; `Sweep` is `Expire` of the
  overdue ones, and all that the writer does is invisible. The hard step is `End`: what a crash leaves on disk must be a status the
  invitation has had. `BackInv` says why: neither file, nor the temporary one, is ever ahead of memory, in the order in which
  statuses follow each other; and since the archive file overrides the active one at a start, an invitation in
  both files is not further in the active one. That in turn needs that the
  writer, once the archive file names an invitation, finds it neither in its snapshot of the active shard nor in what it has written of it.
* **ChatRoomProofs.** `RoomInv` is per room: the recorded owner is a member with role owner, publish flag and status agree
  for all users, an absent room has no members and a closed one only its owner.
  `WithinCapacity` uses the cardinality lemmas of finite sets. Every action is cut into what it
  does to the records and what it leaves alone. All its properties are theorems.
* **ChatSocketsProofs.** `PlaceInv` relates the local `room_id` of a serving endpoint to the room it
  last passed to `connect`; with it the clean-up of an endpoint takes its socket out of the only
  room that can list it. Everything else that touches the tables only takes sockets out (`TakingOut`).
* **ServerProofs**, two parts of the server that share nothing. *Translations*: `ProcessIsInSlot` says that a process that nobody told to end
  works for the request its slot names, so that the next start reaches it. That a start which wakes overwrites no such process is `SleepInv`: what
  another start put there during the sleep is still active, since nothing times out within a
  second, so `add_request` refuses. `OneFeederPerRoom` follows: two processes of one room and stream that run are of one slot,
  hence one. `SlotInv` relates slots to the keys of their requests, `UnknownInv` keeps unused ids out of both tables.
  *Synchronisation*: `StopIsOver` ties the event to `_should_run`, which makes
  `ConnectedHasSocket` inductive against the two closers. `AuthNeverSent`: the first message of a
  connection is given up, in every behaviour.
* **StreamPublishProofs.** No assumption: the theorems are about the model with its mishaps. `StreamInvariant` is
  `Sound => IInv`, where `Sound` says that no source in use was evicted and no claim overtook an `on_unpublish`; since a mishap is never forgotten (`Remembers`)
  a step into a sound state starts from one. An SRT publisher that failed half-way is *inside* the invariant, its claims and its bridge left
  behind in a stream that is busy for good; only `BusyHeld` is lost with it (`Complete`). `OnePublisher` alone is far from inductive: a publisher that is
  still unmounting has given up its live source but not its bridge, so `IInv` says for each connection what it has claimed in which state
  (`Claims`), that nobody else has what its bridges reach (`Exclusive`), that bridges lead to the sources the managers have
  (`BridgeOK`), that what is busy is the manager's (`BusyPooled`), and that a bridged source is unpublished with no publisher beside it (`Alone`). `Free` is the heart of
  it: when the three sources a client has checked are free, nothing is claimed at all. Each step is then an instance of four lemmas:
  nobody with claims moves (`Calm`), a publisher goes on (`Moves`), ends (`Ends`), or claims (`Claiming`). `UsedIsPooled`
  survives more, also claims that overtake, and has a smaller invariant of its own (`PInv`), which needs only that nothing was evicted.
* **LiveDeliveryProofs.** `IInv` speaks of the caches and of the player at once. `GopInv` says that the cached frames are the last ones
  sent, without a gap, and need no header newer than the cached one. `Player` says of what a player is being sent and what waits for it, read
  as one sequence, that it has every frame since the player joined, once and in order, unless its queue was shrunk (`Contiguous`), and before
  each video frame a header it can be decoded with (`Decodable`). For the latter to be inductive the headers of the sequence must be in the order of their versions, so that
  the one a shrink keeps serves all that follows, and the header of the frames still to come (`Due`) must be in it too; that is `HeaderIsKnown`, and it is
  here that `~ReduceHeaders` is needed (section 6). Messages enter the queue through `Enqueued` alone, and a new
  player gets several at a time through the recursive function in `EnqueuedAll`; that such a function exists and that what each
  application preserves all of them preserve (`RunExists`, `EnqueuedAllRuns`, `EnqueuedAllPlayer`) is shown by taking a least
  counterexample (`LeastNumber`, from the well-foundedness of `<` on the naturals), which needs no induction theorem.
  For `QueueIsBounded`, `Times` relates the bounds of the queue to the messages in it: the start is at most one step back of the jitter after
  the first timed message, the end is the time of the last; each `Stored` compares the two with the limit (`Fits`).
  It is stated of steps that put a message into the queue: between two of them a player that takes its messages one by one may move the start to
  the lower time of a message the jitter let step back, and what remains then exceeds the limit until the next message is stored.
* **EdgeServerProofs.** Under `~HubWaits`. `PlayerInv`, `PullInv` and `PushInv`: the first player is alone until its coroutine runs, an
  edge that pulls has a coroutine that is not interrupted, and the last player's stop lasts as long as its coroutine.
* **GbSessionProofs.** However many connections are open at once and whenever an ended session is freed. `SipHeld` and `MediaHeld`: a bound connection
  that is in use is one of a session that is alive, was left behind, or has its interrupt; `SessionOutlives` follows. `SessionIs`: a session
  has a SIP connection that is bound to it; `NewIsUnbound` keeps unused connections out of former sessions.

Only model-checked: liveness (`EventuallyDurable`, `EventuallyExpired`, `SilentIsInactive`, `StopEndsRun`,
`ReportsCatchUp`, `StreamIsForgotten`, `GoneLeaves`, `PlayersGetStream`,
`StopsPulling`, `PublisherHears`, `GoneIsDisposed`), which needs fairness and is out of the prover's reach (so is ENABLED). Every other property of a passing run is a theorem;
`HeaderFirst` and `HeaderIsKnown` are proved, and run, without `ReduceHeaders`.

## 6. Disagreements between the code and what it says

Shown by a run (`PROJECT.json`, "findings"):

* The notice to all but the owner holds a thread lock over an await (`server_fastapi.py:478`). Another coroutine of the same loop that asks for the
  lock meanwhile stops the loop, and the members the docstring speaks of (475) never get it: `NoticesFinish`.
* `dump_packets` sets the start of a player's queue from the last
  message it takes, whatever that is (`srs_app_source.cpp:303`); after metadata, whose time is 0, the next frame makes the
  queue look as long as the stream has run, and it is shrunk without an overflow, which the comment of `enqueue` (260) wants to exclude:
  `ShrinksOnOverflow`.

In a passing model, as a case its properties name:

* A source has die time 0 until a first client has left it (`srs_app_source.hpp:533`), so the timer may take one that was
  fetched and not yet claimed (`srs_app_source.cpp:1965`); two publishers of one URL may then claim different objects. The mishap `"evicted"`.
* `on_unpublish` of an RTC or SRT source sets it free and then has its bridge unpublish the live source, asking "Should sync with bridge?"
  (`srs_app_stream_bridge.cpp:57`). That waits for HTTP clients (`srs_app_http_stream.cpp:1080-1087`), and a publisher that comes meanwhile loses its new
  bridge to the old one's clean-up (`srs_app_srt_source.cpp:1091`) while the live source behind it stays busy. The mishap `"overtaken"`.
* RTMP releases what an `on_publish` claimed before it failed (issue 474, `srs_app_rtmp_conn.cpp:959`), SRT does not
  (`srs_app_srt_conn.cpp:325`): the stream stays busy. The mishap `"unreleased"`.
* "Session always lives longer than SIP and media" (`srs_app_gb28181.hpp:93`) does not hold of a connection that was replaced while it
  was open (`bind_session` neither refuses nor closes the former one), of one that an ended and not yet freed session took, and of one that waits in the muxer when the session ends:
  `SessionOutlives`.
* "Kill the old translation" (`server_fastapi.py:2581`) sends `SIGTERM` and waits one second (2589), the process stops
  over several (`audio_translation_service_websocket.py:1625-1680`), and the name of its stream has no room in it
  (`translation_manager.py:534`), so two processes may feed one translation stream: `OneFeederPerRoom`.

Shown by a variant of a run, with another value of one constant:

* With `reduce_sequence_header`, meant "for some client which cannot got duplicated sequence header" (`trunk/conf/full.conf:1235`),
  `on_video_imp` compares with the last header of the source, which outlives the publisher (`srs_app_source.cpp:2418`). A player that
  joins between two publishers with the same header gets none from the cache and none from the second one: with `ReduceHeaders`,
  `HeaderIsKnown` fails.
* A first player of an edge whose hook fails leaves those who came meanwhile without a coroutine (`srs_app_edge.cpp:974`): with
  `HubWaits`, `PlayersAreFed` fails.

Read in the code and present in the models, without a run of their own:

* The writer may leave with a non-empty queue (`invitation_store.py:150`; docstrings 141 and 19 promise that the queue is
  written at shutdown).
* Who starts a `DELETE` as owner may close the room after losing it during the awaits (`server_fastapi.py:1250`, comment 1197).
* The request of a silent client is stopped, and its process goes on: the server registers no stop callback
  (`translation_manager.py:74`, comment 376), and `heartbeat_check_worker` stops none (`server_fastapi.py:2928`).
  The next start or stop of the slot reaches it (`ProcessIsInSlot`).
* The auth message is never sent, since it needs the event that is set after it (`sync_client.py:315`, 290 and 482, docstring 6):
  theorem `AuthNeverSent`.
* `update_status` overwrites an archived status (`invitation_store.py:225`; the comment at 220 says only a
  pending one may become terminal), so an invitation swept between accept's read and its update
  goes from expired to accepted. `InvitationLifecycle` allows exactly this.
* `_load` renames `invitations.json` and queues no write (`invitation_store.py:119`): a restart
  before a later write forgets the migrated records, although the migration is meant to be done once (86).
* `accept_invitation` marks the invitation accepted before `join_room`, which may raise
  (`server_fastapi.py:2386`, docstring 2347).
* `join_room` gives the role owner to a newcomer who asks for it although the room has an owner
  (`user_manager.py:283`, comment 291).
* A room that becomes busy during `delete_room`'s broadcast is closed all the same
  (`server_fastapi.py:1250`, message 1206), and a member who connects then is removed without a message
  (1243, comment 1215).
* A transfer leaves `owner_status` alone (`user_manager.py:428`, comment 37).
* An admin may mute all (`server_fastapi.py:1921`) and only the owner accepts knocks (1609-1611);
  `语音聊天室-用户管理接口文档.md` says otherwise (594 and 682, 359 and 376).
* A source that stops does not stop its translations (`server_fastapi.py:2888`, 3117; comment
  `translation_manager.py:384`); `source_stream_active` is never set, so every translation stops after 30 minutes (370);
  a fresh request has 30 s of grace, not 60 (379, comment 377); `start_translation` ignores that
  `add_request` refused (550), and answers with an id nobody knows.
* `Debouncer.emit` schedules `_flush`, which does not exist (`sync_client.py:156`, docstring 124-126): no event
  message is sent. `_reconnect_delay` is reset at each attempt (288), so the backoff does not grow (docstring 9).
  An empty list of rooms is not reported (526, 592). Reports may be sent out of order until the next periodic one.
* The corrected time of a message is said to be monotonic (`srs_app_source.cpp:113`), but a step back of up to 250 ms
  passes; `QueueIsBounded` allows for it.
* An error when the forwarder sends ends its coroutine without setting `send_error_code` (`srs_app_edge.cpp:916`, comment 830): the publisher
  goes on until its queue is shrunk again and again. `PublisherHears` speaks of receiving only.
* A client of an edge that is expired while it joins a coroutine makes the join fail (`srs_app_st.cpp:225`, note at 284) and an
  assertion end the process.
* The count of GB28181 timeouts is never reset (`srs_app_gb28181.cpp:339`), so the limit is one for the life of the session.
  The end of a SIP receiver is not told to the session, which finds out by these timeouts.

## 7. Not modelled, and why

Of the Python server: share links, `callback_server.py` with its relays and pullers, left to the plan.
Authentication, names, speech services, publishers, the notification service and the scripts have
no state that the properties of other parts depend on. The audio process is a pipeline of external
services; `Translations` has it as something that runs, exits or is terminated.

Of SRS: the models cover the files that hold the concurrency of its core, a small part of its
source. The greater part, some 170,000 lines with the unit tests and the reader of the configuration, is codecs, containers and wire formats, pure
functions that are better tested than modelled. Left to the plan are the NACK receiver and `SrsResourceManager`;
without a plan, DTLS and SDP, HTTP-FLV players, HLS, DASH, DVR, forwarders, statistics and the API, which appear only as what a
publisher waits for.

Inside the modelled parts, left out: names, timestamps, message texts, the write-only stream map and
knock table of a room, what a send from the heartbeat's foreign event loop does to the transport
itself, and the second import of `server_fastapi` that a command of the main server causes when the server was
started as a script (`sync_client.py:422`; it has a `ConnectionManager` of its own, so the broadcast
of a command reaches nobody, while `user_manager` is shared).
In SRS: ATC and mix-correct, codecs other than H.264 with AAC, the interplay of several URLs (a source is
keyed by its URL and nothing crosses it), redirection to a backup origin, and what a hook of an HTTP server answers beyond yes and no.
