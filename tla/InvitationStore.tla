-------------------------- MODULE InvitationStore --------------------------
(***************************************************************************)
(* Room invitations of the chat server (invitation_store.py and the        *)
(* invitation handlers of server_fastapi.py).                              *)
(*                                                                         *)
(* Three threads share the store: the asyncio event loop that runs the     *)
(* handlers, the hourly sweeper that expires invitations, and the writer   *)
(* that copies the two memory shards to their two files.  The first two    *)
(* take the store's lock; the writer never does.  The process may crash    *)
(* or be stopped at any time, and starts again from the files.             *)
(*                                                                         *)
(* A record is abstracted to its status; "none" means that a shard or a    *)
(* file has no record of the invitation.                                   *)
(***************************************************************************)
EXTENDS Naturals, Sequences, FiniteSets

CONSTANTS
  Ids,          \* invitation ids the generator hands out
  Users,        \* users that are invited
  Invitee,      \* the invited user of each invitation
  Legacy,       \* statuses found in a left-over invitations.json
  MaxMembers,   \* capacity of the room
  MaxStarts,    \* bound: process starts explored
  MaxFailures   \* bound: failed file writes explored

Terminal == {"accepted", "rejected", "expired"}
Status   == {"none", "pending"} \cup Terminal
Shards   == {"active", "archive"}

ASSUME InviteeType == Invitee \in [Ids -> Users]
ASSUME LegacyType  == Legacy \in [Ids -> Status]
\* The older format, too, had one pending invitation a user at most.
ASSUME LegacyUnique ==
  \A i, j \in Ids :
     Legacy[i] = "pending" /\ Legacy[j] = "pending" /\ Invitee[i] = Invitee[j] => i = j
ASSUME BoundsType  == MaxMembers \in Nat /\ MaxStarts \in Nat /\ MaxFailures \in Nat

VARIABLES
  active,    \* _active: ids of the pending invitations
  archive,   \* _archive: terminal status of the others
  issued,    \* ids used so far (they are random and never repeat)
  due,       \* ids whose expires_at has passed
  queue,     \* _write_queue: names of the shards to write
  pc,        \* where the event loop and the sweeper are
  job,       \* the update_status call the event loop is making
  writer,    \* where the writer thread is
  dirty,     \* shards its current batch has still to write
  todo,      \* ids of the snapshot it has not serialised yet
  tmp,       \* content of its temporary file
  file,      \* the two files, by shard
  legacy,    \* content of invitations.json
  room,      \* the room all invitations are for: absent, active, closed
  members,   \* invited users who are in that room
  life,      \* down, up, stopping, stopped, crashed
  starts,    \* process starts so far
  failures   \* failed writes so far

memory  == <<active, archive, issued>>
threads == <<pc, job>>
writing == <<writer, dirty, todo, tmp>>
disk    == <<file, legacy>>
rooms   == <<room, members>>
process == <<life, starts>>
vars    == <<memory, due, queue, threads, writing, disk, rooms, process, failures>>

NoRecord == [i \in Ids |-> "none"]
Idle     == [loop |-> "idle", sweeper |-> "idle"]
NoJob    == [id |-> "none", to |-> "none"]

Up == life = "up"

\* get(): the active shard first, then the archive.
StatusOf(i) == IF i \in active THEN "pending" ELSE archive[i]

\* What _load would read: the archive file overrides the active file, and
\* invitations.json only adds ids that neither has.
Loaded(i) == IF file["archive"][i] # "none" THEN file["archive"][i]
             ELSE IF file["active"][i] # "none" THEN file["active"][i]
             ELSE legacy[i]

Init ==
  /\ active = {} /\ archive = NoRecord
  /\ issued = {i \in Ids : Legacy[i] # "none"}
  /\ due = {}
  /\ queue = << >> /\ pc = Idle /\ job = NoJob
  /\ writer = "wait" /\ dirty = {} /\ todo = {} /\ tmp = NoRecord
  /\ file = [s \in Shards |-> NoRecord] /\ legacy = Legacy
  /\ room = "absent" /\ members = {}
  /\ life = "down" /\ starts = 0 /\ failures = 0

-----------------------------------------------------------------------------
(* Process life cycle *)

\* Threads, queue, temporary file and rooms go with the process.
ProcessEnds ==
  /\ queue' = << >> /\ pc' = Idle /\ job' = NoJob
  /\ writer' = "wait" /\ dirty' = {} /\ todo' = {} /\ tmp' = NoRecord
  /\ room' = "absent" /\ members' = {}

\* __init__: _load splits the merged records by status and renames
\* invitations.json; it queues no write.
Start ==
  /\ life \in {"down", "stopped", "crashed"} /\ starts < MaxStarts
  /\ active' = {i \in Ids : Loaded(i) = "pending"}
  /\ archive' = [i \in Ids |-> IF Loaded(i) = "pending" THEN "none" ELSE Loaded(i)]
  /\ legacy' = NoRecord
  /\ life' = "up" /\ starts' = starts + 1
  /\ UNCHANGED <<issued, due, queue, threads, writing, file, rooms, failures>>

\* Also the join() of stop() that times out.
Crash ==
  /\ life \in {"up", "stopping"}
  /\ life' = "crashed"
  /\ ProcessEnds
  /\ UNCHANGED <<memory, due, disk, starts, failures>>

\* Lifespan shutdown: no handler is running, the sweeper has been joined,
\* and stop() clears _writer_running.
StopBegin ==
  /\ Up /\ pc = Idle
  /\ life' = "stopping"
  /\ UNCHANGED <<memory, due, queue, threads, writing, disk, rooms, starts, failures>>

\* stop() has joined the writer and the process ends.
StopEnd ==
  /\ life = "stopping" /\ writer = "exited"
  /\ life' = "stopped"
  /\ ProcessEnds
  /\ UNCHANGED <<memory, due, disk, starts, failures>>

-----------------------------------------------------------------------------
(* Event loop: a handler runs to its first await without another handler in *)
(* between, but the sweeper and the writer run beside it.                    *)

LoopReady == Up /\ pc.loop = "idle"
LoopAt(l) == Up /\ pc.loop = l
LoopGoto(l) == /\ pc' = [pc EXCEPT !.loop = l]
               /\ job' = IF l = "idle" THEN NoJob ELSE job

\* Mutant: the comparison with expires_at is the wrong way round.
LatePending(u) == {i \in active : Invitee[i] = u /\ i \in due}

\* find_pending_for_invitee_room
LivePending(u) == {i \in active : Invitee[i] = u /\ i \notin due}

\* create_invitation and put(): the shard changes under the lock, the write
\* is queued after it.  The inviter is a member whenever the room exists.
CreateInvitation(i) ==
  /\ LoopReady /\ i \notin issued
  /\ room # "absent" /\ Invitee[i] \notin members
  /\ LivePending(Invitee[i]) = {}
  /\ active' = active \cup {i} /\ issued' = issued \cup {i}
  /\ LoopGoto("put")
  /\ UNCHANGED <<archive, due, queue, writing, disk, rooms, process, failures>>

PutQueued ==
  /\ LoopAt("put")
  /\ queue' = Append(queue, "active")
  /\ LoopGoto("idle")
  /\ UNCHANGED <<memory, due, writing, disk, rooms, process, failures>>

\* accept_invitation up to its call of update_status: an invitation that is
\* past its time, or whose room is gone, is to be expired.
AcceptOutcome(i) == IF i \in due \/ room = "absent" THEN "expired" ELSE "accepted"

AcceptChecked(i) ==
  /\ LoopReady /\ StatusOf(i) = "pending"
  /\ AcceptOutcome(i) = "accepted" => Invitee[i] \notin members
  /\ job' = [id |-> i, to |-> AcceptOutcome(i)]
  /\ pc' = [pc EXCEPT !.loop = "update"]
  /\ UNCHANGED <<memory, due, queue, writing, disk, rooms, process, failures>>

\* Mutant: reject_invitation without its status test.
RejectUnchecked(i) ==
  /\ LoopReady /\ StatusOf(i) # "none"
  /\ job' = [id |-> i, to |-> "rejected"]
  /\ pc' = [pc EXCEPT !.loop = "update"]
  /\ UNCHANGED <<memory, due, queue, writing, disk, rooms, process, failures>>

\* reject_invitation up to its call of update_status: it does not look at
\* the expiry time.
RejectChecked(i) ==
  /\ LoopReady /\ StatusOf(i) = "pending"
  /\ job' = [id |-> i, to |-> "rejected"]
  /\ pc' = [pc EXCEPT !.loop = "update"]
  /\ UNCHANGED <<memory, due, queue, writing, disk, rooms, process, failures>>

\* Mutant: the moved record is not deleted from the active shard.
UpdateCopies ==
  /\ LoopAt("update")
  /\ archive' = [archive EXCEPT ![job.id] = job.to]
  /\ LoopGoto(IF job.id \in active THEN "move" ELSE "moved")
  /\ UNCHANGED <<active, issued, due, queue, writing, disk, rooms, process, failures>>

\* update_status: a pending record moves to the archive, an archived one is
\* overwritten.  The lock is kept until both writes are queued.
UpdateStatus ==
  /\ LoopAt("update")
  /\ active' = active \ {job.id}
  /\ archive' = [archive EXCEPT ![job.id] = job.to]
  /\ LoopGoto(IF job.id \in active THEN "move" ELSE "moved")
  /\ UNCHANGED <<issued, due, queue, writing, disk, rooms, process, failures>>

UpdateQueuesActive ==
  /\ LoopAt("move")
  /\ queue' = Append(queue, "active")
  /\ LoopGoto("moved")
  /\ UNCHANGED <<memory, due, writing, disk, rooms, process, failures>>

\* Mutant: both writes of the move name the active shard.
UpdateQueuesActiveTwice ==
  /\ LoopAt("moved")
  /\ queue' = Append(queue, "active")
  /\ LoopGoto(IF job.to = "accepted" THEN "join" ELSE "idle")
  /\ UNCHANGED <<memory, due, writing, disk, rooms, process, failures>>

UpdateQueuesArchive ==
  /\ LoopAt("moved")
  /\ queue' = Append(queue, "archive")
  /\ LoopGoto(IF job.to = "accepted" THEN "join" ELSE "idle")
  /\ UNCHANGED <<memory, due, writing, disk, rooms, process, failures>>

\* join_room, which raises when the room is closed or full; the invitation
\* stays accepted.
CanJoin == room # "closed" /\ Cardinality(members) < MaxMembers

AcceptJoins ==
  /\ LoopAt("join")
  /\ IF CanJoin THEN members' = members \cup {Invitee[job.id]} /\ room' = "active"
                ELSE UNCHANGED rooms
  /\ LoopGoto("idle")
  /\ UNCHANGED <<memory, due, queue, writing, disk, process, failures>>

\* What other handlers do to the room between two invitation handlers.
RoomOpens ==
  /\ LoopReady /\ room = "absent"
  /\ room' = "active"
  /\ UNCHANGED <<memory, due, queue, threads, writing, disk, members, process, failures>>

RoomCloses ==
  /\ LoopReady /\ room = "active"
  /\ room' = "closed" /\ members' = {}
  /\ UNCHANGED <<memory, due, queue, threads, writing, disk, process, failures>>

RoomDropped ==
  /\ LoopReady /\ room # "absent"
  /\ room' = "absent" /\ members' = {}
  /\ UNCHANGED <<memory, due, queue, threads, writing, disk, process, failures>>

MemberLeaves(u) ==
  /\ LoopReady /\ u \in members
  /\ members' = members \ {u}
  /\ UNCHANGED <<memory, due, queue, threads, writing, disk, room, process, failures>>

-----------------------------------------------------------------------------
(* Time and the sweeper *)

TimePasses(i) ==
  /\ i \in issued \ due
  /\ due' = due \cup {i}
  /\ UNCHANGED <<memory, queue, threads, writing, disk, rooms, process, failures>>

\* The event loop holds the lock while update_status queues its writes.
LockFree == pc.loop \notin {"move", "moved"}

\* Mutant: the sweeper does not look at the status.
OverdueAny == issued \cap due

Overdue == active \cap due

\* Mutant: the swept records stay in the active shard.
SweepCopies ==
  /\ Up /\ pc.sweeper = "idle" /\ LockFree /\ Overdue # {}
  /\ archive' = [i \in Ids |-> IF i \in Overdue THEN "expired" ELSE archive[i]]
  /\ pc' = [pc EXCEPT !.sweeper = "move"]
  /\ UNCHANGED <<active, issued, due, queue, job, writing, disk, rooms, process, failures>>

\* sweep_expired: the records move under the lock, the writes are queued
\* after it is released.
Sweep ==
  /\ Up /\ pc.sweeper = "idle" /\ LockFree /\ Overdue # {}
  /\ active' = active \ Overdue
  /\ archive' = [i \in Ids |-> IF i \in Overdue THEN "expired" ELSE archive[i]]
  /\ pc' = [pc EXCEPT !.sweeper = "move"]
  /\ UNCHANGED <<issued, due, queue, job, writing, disk, rooms, process, failures>>

SweepQueuesActive ==
  /\ Up /\ pc.sweeper = "move"
  /\ queue' = Append(queue, "active")
  /\ pc' = [pc EXCEPT !.sweeper = "moved"]
  /\ UNCHANGED <<memory, due, job, writing, disk, rooms, process, failures>>

SweepQueuesArchive ==
  /\ Up /\ pc.sweeper = "moved"
  /\ queue' = Append(queue, "archive")
  /\ pc' = [pc EXCEPT !.sweeper = "idle"]
  /\ UNCHANGED <<memory, due, job, writing, disk, rooms, process, failures>>

-----------------------------------------------------------------------------
(* Writer thread: it stops between two batches once _writer_running is      *)
(* cleared, whatever the queue still holds.                                  *)

Running == life \in {"up", "stopping"}

\* Mutant: only the first item of a batch marks its shard.
BatchHead(n) == {queue[1]}

Batch(n) == {queue[k] : k \in 1..n}

WriterTakes(n) ==
  /\ Running /\ writer = "wait" /\ n \in 1..Len(queue)
  /\ dirty' = Batch(n)
  /\ queue' = SubSeq(queue, n + 1, Len(queue))
  /\ writer' = "next"
  /\ UNCHANGED <<memory, due, threads, todo, tmp, disk, rooms, process, failures>>

WriterExits ==
  /\ life = "stopping" /\ writer = "wait"
  /\ writer' = "exited"
  /\ UNCHANGED <<memory, due, queue, threads, dirty, todo, tmp, disk, rooms, process, failures>>

\* The active file is written before the archive file.
Current == IF "active" \in dirty THEN "active" ELSE "archive"

Records(s) == IF s = "active" THEN active ELSE {i \in Ids : archive[i] # "none"}

\* dict(self._active), taken without the lock, copies references.
WriterSnapshots ==
  /\ Running /\ writer = "next" /\ dirty # {}
  /\ todo' = Records(Current) /\ tmp' = NoRecord
  /\ writer' = "dump"
  /\ UNCHANGED <<memory, due, queue, threads, dirty, disk, rooms, process, failures>>

\* json.dump reads each record when it comes to it, not at the snapshot.
WriterDumps(i) ==
  /\ Running /\ writer = "dump" /\ i \in todo
  /\ tmp' = [tmp EXCEPT ![i] = StatusOf(i)]
  /\ todo' = todo \ {i}
  /\ UNCHANGED <<memory, due, queue, threads, writer, dirty, disk, rooms, process, failures>>

WriterReplaces ==
  /\ Running /\ writer = "dump" /\ todo = {}
  /\ file' = [file EXCEPT ![Current] = tmp]
  /\ dirty' = dirty \ {Current}
  /\ tmp' = NoRecord
  /\ writer' = "next"
  /\ UNCHANGED <<memory, due, queue, threads, todo, legacy, rooms, process, failures>>

\* _flush_to swallows the exception and drops the temporary file; the shard
\* is not marked for another try.
WriterFails ==
  /\ Running /\ writer = "dump" /\ failures < MaxFailures
  /\ failures' = failures + 1
  /\ dirty' = dirty \ {Current}
  /\ todo' = {} /\ tmp' = NoRecord
  /\ writer' = "next"
  /\ UNCHANGED <<memory, due, queue, threads, disk, rooms, process>>

WriterDone ==
  /\ Running /\ writer = "next" /\ dirty = {}
  /\ writer' = "wait"
  /\ UNCHANGED <<memory, due, queue, threads, dirty, todo, tmp, disk, rooms, process, failures>>

-----------------------------------------------------------------------------
LoopContinues == \/ PutQueued \/ UpdateStatus \/ UpdateQueuesActive
                 \/ UpdateQueuesArchive \/ AcceptJoins

SweeperContinues == SweepQueuesActive \/ SweepQueuesArchive

WriterStep == \/ \E n \in 1..Len(queue) : WriterTakes(n)
              \/ WriterExits \/ WriterSnapshots \/ WriterReplaces \/ WriterDone
              \/ \E i \in Ids : WriterDumps(i)

Next ==
  \/ Start \/ Crash \/ StopBegin \/ StopEnd
  \/ \E i \in Ids : CreateInvitation(i) \/ AcceptChecked(i) \/ RejectChecked(i)
  \/ LoopContinues
  \/ RoomOpens \/ RoomCloses \/ RoomDropped
  \/ \E u \in Users : MemberLeaves(u)
  \/ \E i \in Ids : TimePasses(i)
  \/ Sweep \/ SweeperContinues
  \/ WriterStep \/ WriterFails

Spec == Init /\ [][Next]_vars

\* The threads are daemons that keep running; nothing obliges a client to
\* call, the process to stop, or a write to fail.
Fairness ==
  /\ WF_vars(LoopContinues) /\ WF_vars(Sweep) /\ WF_vars(SweeperContinues)
  /\ WF_vars(WriterStep)

FairSpec == Spec /\ Fairness

-----------------------------------------------------------------------------
(* Properties *)

TypeOK ==
  /\ active \subseteq Ids /\ archive \in [Ids -> Status \ {"pending"}]
  /\ issued \subseteq Ids /\ due \subseteq issued
  /\ queue \in Seq(Shards)
  /\ pc \in [loop : {"idle", "put", "update", "move", "moved", "join"},
             sweeper : {"idle", "move", "moved"}]
  /\ job \in [id : Ids, to : Terminal] \cup {NoJob}
  /\ writer \in {"wait", "next", "dump", "exited"}
  /\ dirty \subseteq Shards /\ todo \subseteq Ids /\ tmp \in [Ids -> Status]
  /\ file \in [Shards -> [Ids -> Status]] /\ legacy \in [Ids -> Status]
  /\ room \in {"absent", "active", "closed"} /\ members \subseteq Users
  /\ life \in {"down", "up", "stopping", "stopped", "crashed"}
  /\ starts \in 0..MaxStarts /\ failures \in 0..MaxFailures

\* An invitation is in one shard only (invitation_store.py:57-59), whatever
\* the handlers, the sweeper and _load do.
ShardsDisjoint == \A i \in active : archive[i] = "none"

\* A user has at most one pending invitation that has not expired, although
\* a crash brings back invitations that had been answered
\* (find_pending_for_invitee_room, server_fastapi.py:2288-2306).
OneLivePending ==
  \A i, j \in active \ due : Invitee[i] = Invitee[j] => i = j

\* When no write is queued, running or about to be queued, the two files hold
\* exactly what the memory holds: the dirty marks miss no change
\* (put, update_status, sweep_expired against _writer_loop).
Settled == Up /\ pc = Idle /\ queue = << >> /\ writer = "wait"

Undisturbed == starts = 1 /\ failures = 0 /\ Legacy = NoRecord

SettledIsDurable ==
  Settled /\ Undisturbed => \A i \in Ids : Loaded(i) = StatusOf(i)

\* The answer of the invited user is final while the process runs: the
\* sweeper, a second answer or a late handler never replaces it.
AnswerIsFinal ==
  [][Up => \A i \in Ids : archive[i] \in {"accepted", "rejected"} => archive'[i] = archive[i]]_vars

\* While the process stays up and no flush fails, every change of an invitation,
\* its creation included, reaches the disk or is itself superseded.  What _load migrates from
\* invitations.json is no change: it stays in memory only.
EventuallyDurable ==
  \A i \in Ids : \A s \in Status \ {Legacy[i]} :
     (Up /\ StatusOf(i) = s) ~> (Loaded(i) = s \/ StatusOf(i) # s \/ ~Up \/ failures > 0)

\* An invitation past its time does not stay pending.
EventuallyExpired ==
  \A i \in Ids : (Up /\ i \in Overdue) ~> (i \notin active \/ ~Up)

\* The store implements the abstract life cycle of an invitation: what it
\* knows while the process runs, and what it would load while it does not.
Lifecycle == INSTANCE InvitationLifecycle WITH
  Initial <- Legacy,
  running <- Running,
  status  <- [i \in Ids |-> IF Running THEN StatusOf(i) ELSE Loaded(i)]

ImplementsLifecycle == Lifecycle!Spec
=============================================================================
