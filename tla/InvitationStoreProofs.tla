----------------------- MODULE InvitationStoreProofs -----------------------
(***************************************************************************)
(* Proofs about the invitation store, for any set of invitations and users *)
(* and any number of starts and failures.                                  *)
(***************************************************************************)
EXTENDS InvitationStore, TLAPS

\* The event loop updates an invitation that exists.
JobInv == pc.loop \in {"update", "move", "moved", "join"}
            => job \in [id : issued, to : Terminal]

\* Only ids handed out by the generator occur anywhere.
IssuedInv ==
  /\ active \subseteq issued
  /\ \A i \in Ids \ issued :
       /\ archive[i] = "none" /\ tmp[i] = "none" /\ legacy[i] = "none"
       /\ \A s \in Shards : file[s][i] = "none"

\* The inductive invariant of the two shards.
IInv == TypeOK /\ JobInv /\ IssuedInv /\ ShardsDisjoint

\* What the store reads of an invitation is a status.
LEMMA StatusType ==
  ASSUME TypeOK
  PROVE  \A i \in Ids : StatusOf(i) \in Status /\ Loaded(i) \in Status
<1> USE DEF TypeOK, Status, Terminal, Shards
<1>1. \A i \in Ids : StatusOf(i) \in Status BY DEF StatusOf
<1>2. \A i \in Ids : Loaded(i) \in Status BY DEF Loaded
<1> QED BY <1>1, <1>2

LEMMA InitIInv == Init => IInv
<1> SUFFICES ASSUME Init PROVE IInv OBVIOUS
<1> USE InviteeType, LegacyType, BoundsType
      DEF Init, NoRecord, Idle, NoJob, Shards, Status, Terminal
<1>1. TypeOK BY DEF TypeOK
<1>2. JobInv BY DEF JobInv
<1>3. IssuedInv BY DEF IssuedInv
<1>4. ShardsDisjoint BY DEF ShardsDisjoint
<1> QED BY <1>1, <1>2, <1>3, <1>4 DEF IInv

\* An id that has not been handed out is unknown in memory and on disk.
LEMMA UnissuedUnknown ==
  ASSUME IssuedInv
  PROVE  \A i \in Ids \ issued : StatusOf(i) = "none" /\ Loaded(i) = "none"
BY DEF IssuedInv, StatusOf, Loaded, Shards

\* Marking a shard dirty keeps the queue a sequence of shard names.
LEMMA QueueType ==
  ASSUME queue \in Seq(Shards), NEW s \in Shards
  PROVE  Append(queue, s) \in Seq(Shards)
OBVIOUS


LEMMA NextIInv == IInv /\ [Next]_vars => IInv'
<1> SUFFICES ASSUME IInv, [Next]_vars PROVE IInv' OBVIOUS
<1> USE InviteeType, LegacyType, BoundsType
<1> USE DEF memory, threads, writing, disk, rooms, process
<1> USE DEF IInv, TypeOK, JobInv, IssuedInv, ShardsDisjoint
<1> USE DEF Shards, Status, Terminal, NoRecord, Idle, NoJob, LoopGoto, LoopAt, LoopReady
<1>1. CASE Start
  <2>1. TypeOK' BY <1>1, StatusType DEF Start
  <2>2. JobInv' BY <1>1 DEF Start
  <2>3. IssuedInv' BY <1>1, UnissuedUnknown DEF Start
  <2>4. ShardsDisjoint' BY <1>1 DEF Start
  <2> QED BY <2>1, <2>2, <2>3, <2>4
<1>2. CASE UpdateStatus
  <2>1. job.id \in issued /\ job.id \in Ids /\ job.to \in Terminal BY <1>2 DEF UpdateStatus
  <2>2. TypeOK' BY <1>2, <2>1 DEF UpdateStatus
  <2>3. JobInv' BY <1>2 DEF UpdateStatus
  <2>4. IssuedInv' BY <1>2, <2>1 DEF UpdateStatus
  <2>5. ShardsDisjoint' BY <1>2, <2>1 DEF UpdateStatus
  <2> QED BY <2>2, <2>3, <2>4, <2>5
<1>3. CASE PutQueued \/ UpdateQueuesActive \/ UpdateQueuesArchive \/ SweepQueuesActive \/ SweepQueuesArchive
  <2>1. queue' \in Seq(Shards)
    BY <1>3, QueueType DEF PutQueued, UpdateQueuesActive, UpdateQueuesArchive, SweepQueuesActive, SweepQueuesArchive
  <2>2. JobInv'
    BY <1>3 DEF PutQueued, UpdateQueuesActive, UpdateQueuesArchive, SweepQueuesActive, SweepQueuesArchive
  <2>3. /\ pc' \in [loop : {"idle", "put", "update", "move", "moved", "join"}, sweeper : {"idle", "move", "moved"}]
        /\ job' \in [id : Ids, to : Terminal] \cup {NoJob}
        /\ UNCHANGED <<memory, due, writing, disk, rooms, process, failures>>
    BY <1>3 DEF PutQueued, UpdateQueuesActive, UpdateQueuesArchive, SweepQueuesActive, SweepQueuesArchive
  <2> QED BY <2>1, <2>2, <2>3
<1>4. CASE Crash BY <1>4, StatusType DEF Crash, ProcessEnds
<1>5. CASE StopBegin BY <1>5, StatusType DEF StopBegin
<1>6. CASE StopEnd BY <1>6, StatusType DEF StopEnd, ProcessEnds
<1>7. CASE AcceptJoins BY <1>7, StatusType DEF AcceptJoins
<1>8. CASE RoomOpens BY <1>8, StatusType DEF RoomOpens
<1>9. CASE RoomCloses BY <1>9, StatusType DEF RoomCloses
<1>10. CASE RoomDropped BY <1>10, StatusType DEF RoomDropped
<1>11. CASE WriterExits BY <1>11, StatusType DEF WriterExits
<1>12. CASE WriterSnapshots BY <1>12, StatusType DEF WriterSnapshots, Current, Records
<1>13. CASE WriterReplaces BY <1>13, StatusType DEF WriterReplaces, Current
<1>14. CASE WriterFails BY <1>14, StatusType DEF WriterFails, Current
<1>15. CASE WriterDone BY <1>15, StatusType DEF WriterDone
<1>16. CASE Sweep BY <1>16 DEF Sweep, Overdue
<1>17. ASSUME NEW i \in Ids, CreateInvitation(i) PROVE IInv' BY <1>17 DEF CreateInvitation
<1>18. ASSUME NEW i \in Ids, AcceptChecked(i) PROVE IInv' BY <1>18, UnissuedUnknown DEF AcceptChecked, AcceptOutcome
<1>19. ASSUME NEW i \in Ids, RejectChecked(i) PROVE IInv' BY <1>19, UnissuedUnknown DEF RejectChecked
<1>20. ASSUME NEW i \in Ids, TimePasses(i) PROVE IInv' BY <1>20 DEF TimePasses
<1>21. ASSUME NEW i \in Ids, WriterDumps(i) PROVE IInv'
  <2>1. TypeOK' BY <1>21, StatusType DEF WriterDumps
  <2>2. JobInv' /\ ShardsDisjoint' BY <1>21 DEF WriterDumps
  <2>3. IssuedInv' BY <1>21, UnissuedUnknown DEF WriterDumps
  <2> QED BY <2>1, <2>2, <2>3
<1>22. ASSUME NEW u \in Users, MemberLeaves(u) PROVE IInv' BY <1>22 DEF MemberLeaves
<1>23. ASSUME NEW k \in 1..Len(queue), WriterTakes(k) PROVE IInv' BY <1>23 DEF WriterTakes, Batch
<1>24. CASE UNCHANGED vars BY <1>24 DEF vars
<1> QED BY <1>1, <1>2, <1>3, <1>4, <1>5, <1>6, <1>7, <1>8, <1>9, <1>10, <1>11, <1>12, <1>13, <1>14,
            <1>15, <1>16, <1>17, <1>18, <1>19, <1>20, <1>21, <1>22, <1>23, <1>24
   DEF Next, LoopContinues, SweeperContinues, WriterStep

\* The types of the store's state hold in every reachable state.
THEOREM TypeCorrect == Spec => []TypeOK
<1>1. IInv => TypeOK BY DEF IInv
<1> QED BY InitIInv, NextIInv, <1>1, PTL DEF Spec

\* No invitation is ever in both shards: update_status, sweep_expired and
\* _load move it, they never copy it.
THEOREM OneShardOnly == Spec => []ShardsDisjoint
<1>1. IInv => ShardsDisjoint BY DEF IInv
<1> QED BY InitIInv, NextIInv, <1>1, PTL DEF Spec

-----------------------------------------------------------------------------
(* Answers are final: between a handler's read and its update only the     *)
(* sweeper can have come, and it never answers.                            *)

FinalInv ==
  /\ ~Up => pc = Idle
  /\ pc.loop = "update" => archive[job.id] \notin {"accepted", "rejected"}

LEMMA InitFinal == Init => FinalInv
BY DEF Init, FinalInv, Idle, Up

LEMMA NextFinal == IInv /\ FinalInv /\ [Next]_vars => FinalInv'
<1> SUFFICES ASSUME IInv, FinalInv, [Next]_vars PROVE FinalInv' OBVIOUS
<1> USE DEF memory, threads, writing, disk, rooms, process
<1> USE DEF FinalInv, IInv, TypeOK, JobInv, ShardsDisjoint, Up, Running, Idle, LoopGoto, LoopAt, LoopReady
<1>1. CASE Start BY <1>1 DEF Start
<1>2. CASE Crash \/ StopBegin \/ StopEnd BY <1>2 DEF Crash, StopBegin, StopEnd, ProcessEnds
<1>3. CASE LoopContinues
  BY <1>3 DEF LoopContinues, PutQueued, UpdateStatus, UpdateQueuesActive, UpdateQueuesArchive, AcceptJoins
<1>4. CASE RoomOpens \/ RoomCloses \/ RoomDropped BY <1>4 DEF RoomOpens, RoomCloses, RoomDropped
<1>5. CASE Sweep BY <1>5 DEF Sweep, Overdue
<1>6. CASE SweeperContinues BY <1>6 DEF SweeperContinues, SweepQueuesActive, SweepQueuesArchive
<1>7. ASSUME NEW i \in Ids, CreateInvitation(i) PROVE FinalInv' BY <1>7 DEF CreateInvitation
<1>8. ASSUME NEW i \in Ids, AcceptChecked(i) \/ RejectChecked(i) PROVE FinalInv'
  BY <1>8 DEF AcceptChecked, RejectChecked, StatusOf, Status, Terminal
<1>9. ASSUME NEW u \in Users, MemberLeaves(u) PROVE FinalInv' BY <1>9 DEF MemberLeaves
<1>10. ASSUME NEW i \in Ids, TimePasses(i) PROVE FinalInv' BY <1>10 DEF TimePasses
<1>11. CASE WriterStep \/ WriterFails
  BY <1>11 DEF WriterStep, WriterFails, WriterTakes, WriterExits, WriterSnapshots, WriterReplaces, WriterDone, WriterDumps
<1>12. CASE UNCHANGED vars BY <1>12 DEF vars
<1> QED BY <1>1, <1>2, <1>3, <1>4, <1>5, <1>6, <1>7, <1>8, <1>9, <1>10, <1>11, <1>12 DEF Next

\* An accepted or rejected invitation keeps its status for as long as the
\* process runs.
THEOREM AnswersAreFinal == Spec => AnswerIsFinal
<1> DEFINE Kept == Up => \A i \in Ids : archive[i] \in {"accepted", "rejected"} => archive'[i] = archive[i]
<1>1. IInv /\ FinalInv /\ [Next]_vars => [Kept]_vars
  <2> SUFFICES ASSUME IInv, FinalInv, Next PROVE Kept BY DEF vars
  <2> USE DEF memory, IInv, TypeOK, ShardsDisjoint, FinalInv, LoopAt
  <2>1. CASE UpdateStatus BY <2>1 DEF UpdateStatus
  <2>2. CASE Sweep BY <2>2 DEF Sweep, Overdue
  <2>3. CASE Start BY <2>3 DEF Start, Up
  <2>4. CASE UNCHANGED archive BY <2>4
  <2> QED BY <2>1, <2>2, <2>3, <2>4
    DEF Next, LoopContinues, SweeperContinues, WriterStep, Crash, StopBegin, StopEnd, PutQueued,
        UpdateQueuesActive, UpdateQueuesArchive, AcceptJoins, RoomOpens, RoomCloses, RoomDropped,
        SweepQueuesActive, SweepQueuesArchive, CreateInvitation, AcceptChecked, RejectChecked,
        MemberLeaves, TimePasses, WriterFails, WriterTakes, WriterExits, WriterSnapshots,
        WriterReplaces, WriterDone, WriterDumps
<1>2. AnswerIsFinal <=> [][Kept]_vars BY DEF AnswerIsFinal
<1> QED BY <1>1, <1>2, InitIInv, NextIInv, InitFinal, NextFinal, PTL DEF Spec

-----------------------------------------------------------------------------
(* One live pending invitation a user.  A crash brings the files back, so  *)
(* the same has to hold of the active file and of the one being written;   *)
(* the archive file never holds a pending record.                          *)

Distinct(S) == \A i, j \in S \ due : Invitee[i] = Invitee[j] => i = j

Pending(f) == {i \in Ids : f[i] = "pending"}

\* What the file in the making will hold as pending, if records do not change.
InTheMaking == todo \cup Pending(tmp)

UniqueInv ==
  /\ Distinct(active)
  /\ Distinct(Pending(file["active"]))
  /\ Distinct(Pending(legacy))
  /\ \A i \in Ids : file["archive"][i] # "pending"
  /\ ~Running => writer = "wait"
  /\ legacy # NoRecord => starts = 0
  /\ starts = 0 => life = "down" /\ file = [s \in Shards |-> NoRecord]
  /\ life = "down" => starts = 0
  /\ writer = "dump" => IF Current = "active" THEN Distinct(InTheMaking)
                        ELSE /\ \A i \in Ids : tmp[i] # "pending"
                             /\ \A i \in todo : archive[i] # "none"

LEMMA InitUnique == Init => UniqueInv
<1> SUFFICES ASSUME Init PROVE UniqueInv OBVIOUS
<1>1. Pending(NoRecord) = {} BY DEF Pending, NoRecord
<1>2. Distinct(Pending(legacy)) BY LegacyUnique DEF Init, Distinct, Pending
<1> QED BY <1>1, <1>2 DEF Init, UniqueInv, Distinct, Shards, NoRecord, Running

\* A start loads at most one pending invitation a user.
LEMMA LoadedDistinct ==
  ASSUME IInv, UniqueInv
  PROVE  Distinct({i \in Ids : Loaded(i) = "pending"})
<1>1. CASE legacy = NoRecord
  <2>1. \A i \in Ids : Loaded(i) = "pending" => i \in Pending(file["active"])
    BY <1>1 DEF Loaded, Pending, NoRecord, UniqueInv
  <2> QED BY <2>1 DEF Distinct, UniqueInv
<1>2. CASE legacy # NoRecord
  <2>1. \A i \in Ids : Loaded(i) = "pending" => i \in Pending(legacy)
    BY <1>2 DEF Loaded, Pending, NoRecord, UniqueInv, Shards
  <2> QED BY <2>1 DEF Distinct, UniqueInv
<1> QED BY <1>1, <1>2

LEMMA NextUnique == IInv /\ UniqueInv /\ [Next]_vars => UniqueInv'
<1> SUFFICES ASSUME IInv, UniqueInv, [Next]_vars PROVE UniqueInv' OBVIOUS
<1> USE DEF memory, threads, writing, disk, rooms, process
<1>0. TypeOK /\ ShardsDisjoint BY DEF IInv
<1>1. CASE Start
  <2>1. Distinct(active)' BY <1>1, LoadedDistinct DEF Start, Distinct
  <2>2. Pending(legacy)' = {} BY <1>1 DEF Start, Pending, NoRecord
  <2>3. starts' # 0 /\ life' = "up" BY <1>0, <1>1, BoundsType DEF Start, TypeOK
  <2>4. writer' = "wait" BY <1>1 DEF Start, UniqueInv, Running
  <2>5. UNCHANGED <<file, due>> BY <1>1 DEF Start
  <2>6. legacy' = NoRecord BY <1>1 DEF Start
  <2> QED BY <2>1, <2>2, <2>3, <2>4, <2>5, <2>6 DEF UniqueInv, Distinct, Pending
<1>2. CASE Crash \/ StopBegin \/ StopEnd
  BY <1>2 DEF Crash, StopBegin, StopEnd, ProcessEnds, UniqueInv, Distinct, Pending, Current, InTheMaking, Running, Up
<1>3. CASE PutQueued \/ UpdateQueuesActive \/ UpdateQueuesArchive \/ AcceptJoins
  BY <1>3 DEF PutQueued, UpdateQueuesActive, UpdateQueuesArchive, AcceptJoins,
              UniqueInv, Distinct, Pending, Current, InTheMaking, Running
<1>4. CASE RoomOpens \/ RoomCloses \/ RoomDropped \/ SweepQueuesActive \/ SweepQueuesArchive
  BY <1>4 DEF RoomOpens, RoomCloses, RoomDropped, SweepQueuesActive, SweepQueuesArchive,
              UniqueInv, Distinct, Pending, Current, InTheMaking, Running
<1>5. CASE UpdateStatus
  <2>1. active' \subseteq active BY <1>5 DEF UpdateStatus
  <2>2. \A i \in todo : archive[i] # "none" => archive'[i] # "none"
    BY <1>0, <1>5 DEF UpdateStatus, IInv, JobInv, LoopAt, Terminal, TypeOK
  <2> QED BY <1>5, <2>1, <2>2 DEF UpdateStatus, UniqueInv, Distinct, Pending, Current, InTheMaking, Running
<1>6. CASE Sweep
  <2>1. active' \subseteq active BY <1>6 DEF Sweep
  <2>2. \A i \in Ids : archive[i] # "none" => archive'[i] # "none" BY <1>6 DEF Sweep
  <2>3. todo \subseteq Ids BY <1>0 DEF TypeOK
  <2> QED BY <1>6, <2>1, <2>2, <2>3 DEF Sweep, UniqueInv, Distinct, Pending, Current, InTheMaking, Running
<1>7. ASSUME NEW i \in Ids, CreateInvitation(i) PROVE UniqueInv'
  <2>1. Distinct(active)' BY <1>7 DEF CreateInvitation, LivePending, Distinct, UniqueInv
  <2> QED BY <1>7, <2>1 DEF CreateInvitation, UniqueInv, Distinct, Pending, Current, InTheMaking, Running
<1>8. ASSUME NEW i \in Ids, AcceptChecked(i) \/ RejectChecked(i) PROVE UniqueInv'
  BY <1>8 DEF AcceptChecked, RejectChecked, UniqueInv, Distinct, Pending, Current, InTheMaking, Running
<1>9. ASSUME NEW u \in Users, MemberLeaves(u) PROVE UniqueInv'
  BY <1>9 DEF MemberLeaves, UniqueInv, Distinct, Pending, Current, InTheMaking, Running
<1>10. ASSUME NEW i \in Ids, TimePasses(i) PROVE UniqueInv'
  BY <1>10 DEF TimePasses, UniqueInv, Distinct, Pending, Current, InTheMaking, Running
<1>11. CASE WriterSnapshots
  <2>1. Current' = Current BY <1>11 DEF WriterSnapshots, Current
  <2>2. InTheMaking' = Records(Current) BY <1>11 DEF WriterSnapshots, InTheMaking, Pending, NoRecord
  <2>3. \A i \in Ids : tmp'[i] # "pending" BY <1>11 DEF WriterSnapshots, NoRecord
  <2>4. UNCHANGED <<active, archive, file, legacy, life, starts, due>> BY <1>11 DEF WriterSnapshots
  <2>5. todo' = Records(Current) /\ Running BY <1>11 DEF WriterSnapshots
  <2> QED BY <2>1, <2>2, <2>3, <2>4, <2>5 DEF UniqueInv, Distinct, Pending, Records, Running
<1>12. ASSUME NEW i \in Ids, WriterDumps(i) PROVE UniqueInv'
  <2>1. Current' = Current /\ writer = "dump" BY <1>12 DEF WriterDumps, Current
  <2>2. InTheMaking' \subseteq InTheMaking BY <1>0, <1>12 DEF WriterDumps, InTheMaking, Pending, TypeOK
  <2>3. archive[i] # "none" => StatusOf(i) # "pending"
    BY <1>0 DEF StatusOf, ShardsDisjoint, TypeOK
  <2>4. UNCHANGED <<active, archive, file, legacy, life, starts, due, writer>> /\ Running BY <1>12 DEF WriterDumps
  <2>5. CASE Current = "active" BY <2>1, <2>2, <2>4, <2>5 DEF UniqueInv, Distinct, Pending, Running
  <2>6. CASE Current # "active"
    BY <1>0, <1>12, <2>1, <2>3, <2>4, <2>6 DEF WriterDumps, UniqueInv, Distinct, Pending, Running, TypeOK
  <2> QED BY <2>5, <2>6
<1>13. CASE WriterReplaces
  <2>1. UNCHANGED <<active, legacy, due, life, starts>> /\ Running /\ writer' = "next"
    BY <1>13 DEF WriterReplaces
  <2>2. file' = [file EXCEPT ![Current] = tmp] /\ Current \in Shards /\ writer = "dump"
    BY <1>13 DEF WriterReplaces, Current, Shards
  <2>3. CASE Current = "active"
    <3>1. file'["active"] = tmp /\ file'["archive"] = file["archive"]
      BY <1>0, <2>2, <2>3 DEF TypeOK, Shards
    <3>2. Distinct(Pending(tmp)) BY <2>2, <2>3 DEF UniqueInv, InTheMaking, Distinct
    <3> QED BY <2>1, <3>1, <3>2 DEF UniqueInv, Distinct, Pending, Running
  <2>4. CASE Current = "archive"
    <3>1. file'["archive"] = tmp /\ file'["active"] = file["active"]
      BY <1>0, <2>2, <2>4 DEF TypeOK, Shards
    <3> QED BY <2>1, <2>2, <2>4, <3>1 DEF UniqueInv, Distinct, Pending, Running
  <2> QED BY <2>2, <2>3, <2>4 DEF Shards
<1>14. CASE WriterExits \/ WriterDone \/ WriterFails
  BY <1>14 DEF WriterExits, WriterDone, WriterFails, UniqueInv, Distinct, Pending, Running
<1>15. ASSUME NEW k \in 1..Len(queue), WriterTakes(k) PROVE UniqueInv'
  BY <1>15 DEF WriterTakes, UniqueInv, Distinct, Pending, Running
<1>16. CASE UNCHANGED vars
  BY <1>16 DEF vars, UniqueInv, Distinct, Pending, Current, InTheMaking, Running
<1> QED BY <1>1, <1>2, <1>3, <1>4, <1>5, <1>6, <1>7, <1>8, <1>9, <1>10, <1>11, <1>12,
           <1>13, <1>14, <1>15, <1>16 DEF Next, LoopContinues, SweeperContinues, WriterStep

\* Whatever crashes and stops happen, a user has at most one pending
\* invitation that has not expired.
THEOREM OneLivePendingEver == Spec => []OneLivePending
<1>1. UniqueInv => OneLivePending BY DEF UniqueInv, OneLivePending, Distinct
<1> QED BY <1>1, InitIInv, NextIInv, InitUnique, NextUnique, PTL DEF Spec

-----------------------------------------------------------------------------
(* The dirty marks miss no change: a shard whose file lags behind memory   *)
(* is named in the queue, in the batch, or by a thread about to queue it,  *)
(* unless the file in the making is up to date.                            *)

Content(s) == IF s = "active" THEN [i \in Ids |-> IF i \in active THEN "pending" ELSE "none"]
              ELSE archive

Queued(s) == \E k \in 1..Len(queue) : queue[k] = s

AboutToQueue(s) ==
  \/ s = "active" /\ (pc.loop \in {"put", "move"} \/ pc.sweeper = "move")
  \/ s = "archive" /\ (pc.loop \in {"move", "moved"} \/ pc.sweeper \in {"move", "moved"})

Dumping(s) == writer = "dump" /\ Current = s

Marked(s) == Queued(s) \/ AboutToQueue(s) \/ (s \in dirty /\ ~Dumping(s))

InStep(s) ==
  IF Dumping(s) THEN todo \subseteq Records(s) /\ \A i \in Ids \ todo : tmp[i] = Content(s)[i]
                ELSE file[s] = Content(s)

Tracked == Up /\ Undisturbed => \A s \in Shards : Marked(s) \/ InStep(s)

DurInv ==
  /\ Tracked
  /\ legacy \in {Legacy, NoRecord}
  /\ writer = "wait" => dirty = {}
  /\ writer = "dump" => Current \in dirty

LEMMA InitDur == Init => DurInv
BY DEF Init, DurInv, Tracked, Up

\* Appending a name to the queue queues it and keeps the others queued.
LEMMA QueuedAppend ==
  ASSUME queue \in Seq(Shards), NEW s \in Shards, queue' = Append(queue, s)
  PROVE  Queued(s)' /\ \A t \in Shards : Queued(t) => Queued(t)'
<1>1. Len(queue') = Len(queue) + 1 /\ Len(queue) \in Nat OBVIOUS
<1>2. queue'[Len(queue) + 1] = s OBVIOUS
<1>3. \A k \in 1..Len(queue) : queue'[k] = queue[k] OBVIOUS
<1>4. Queued(s)' BY <1>1, <1>2 DEF Queued
<1>5. ASSUME NEW t \in Shards, Queued(t) PROVE Queued(t)' BY <1>1, <1>3, <1>5 DEF Queued
<1> QED BY <1>4, <1>5

\* A batch takes names from the head of the queue and loses none.
LEMMA QueuedTake ==
  ASSUME queue \in Seq(Shards), NEW n \in 1..Len(queue),
         queue' = SubSeq(queue, n + 1, Len(queue)), NEW s \in Shards, Queued(s)
  PROVE  s \in Batch(n) \/ Queued(s)'
<1>1. PICK k \in 1..Len(queue) : queue[k] = s BY DEF Queued
<1>2. CASE k \in 1..n BY <1>1, <1>2 DEF Batch
<1>3. CASE k \notin 1..n
  <2>1. Len(queue') = Len(queue) - n OBVIOUS
  <2>2. k - n \in 1..Len(queue') BY <1>3, <2>1
  <2>3. queue'[k - n] = queue[k] BY <1>3, <2>1, <2>2
  <2> QED BY <1>1, <2>2, <2>3 DEF Queued
<1> QED BY <1>2, <1>3

\* A step that leaves memory, files and writer alone disturbs only marks.
LEMMA InStepFrame ==
  ASSUME UNCHANGED <<active, archive, file, writer, dirty, todo, tmp>>
  PROVE  \A s \in Shards : (InStep(s) <=> InStep(s)') /\ (Dumping(s) <=> Dumping(s)')
BY DEF InStep, Dumping, Current, Content, Records

LEMMA NextDur == IInv /\ UniqueInv /\ DurInv /\ [Next]_vars => DurInv'
<1> SUFFICES ASSUME IInv, UniqueInv, DurInv, [Next]_vars PROVE DurInv' OBVIOUS
<1> USE DEF memory, threads, writing, disk, rooms, process
<1>0. TypeOK /\ ShardsDisjoint BY DEF IInv
<1>0a. TypeOK' BY NextIInv DEF IInv
<1>1. CASE Start
  <2>1. writer = "wait" /\ dirty = {} BY <1>1 DEF Start, UniqueInv, Running, DurInv
  <2>2. Undisturbed' => \A i \in Ids : Loaded(i) = "none"
    <3>1. Undisturbed' => starts = 0 /\ Legacy = NoRecord
      BY <1>0, <1>1 DEF Start, Undisturbed, TypeOK, NoRecord
    <3>2. starts = 0 => file = [s \in Shards |-> NoRecord] BY DEF UniqueInv
    <3> QED BY <3>1, <3>2 DEF DurInv, Loaded, NoRecord, Shards
  <2>3. Undisturbed' => file' = [s \in Shards |-> NoRecord]
    BY <1>0, <1>1 DEF Start, Undisturbed, TypeOK, UniqueInv
  <2>4. Undisturbed' => active' = {} /\ archive' = NoRecord
    BY <1>1, <2>2 DEF Start, NoRecord
  <2>5. Tracked'
    BY <1>1, <2>1, <2>3, <2>4 DEF Start, Tracked, InStep, Dumping, Content, NoRecord, Shards
  <2> QED BY <1>1, <2>1, <2>5 DEF Start, DurInv
<1>2. CASE Crash \/ StopBegin \/ StopEnd \/ WriterExits
  BY <1>2 DEF Crash, StopBegin, StopEnd, WriterExits, ProcessEnds, DurInv, Tracked, Up, Current
<1>3. CASE PutQueued \/ UpdateQueuesActive \/ SweepQueuesActive
  <2>1. queue' = Append(queue, "active") /\ UNCHANGED <<memory, writing, disk, life, starts, failures>>
    BY <1>3 DEF PutQueued, UpdateQueuesActive, SweepQueuesActive
  <2>2. AboutToQueue("archive") => AboutToQueue("archive")'
    BY <1>0, <1>3 DEF PutQueued, UpdateQueuesActive, SweepQueuesActive, AboutToQueue, LoopAt, LoopGoto, TypeOK
  <2>3. Queued("active")' /\ (Queued("archive") => Queued("archive")')
    BY <1>0, <2>1, QueuedAppend DEF TypeOK, Shards
  <2> QED BY <2>1, <2>2, <2>3, InStepFrame
    DEF DurInv, Tracked, Marked, Undisturbed, Up, Shards, Current
<1>4. CASE UpdateQueuesArchive \/ SweepQueuesArchive
  <2>1. queue' = Append(queue, "archive") /\ UNCHANGED <<memory, writing, disk, life, starts, failures>>
    BY <1>4 DEF UpdateQueuesArchive, SweepQueuesArchive
  <2>2. AboutToQueue("active") => AboutToQueue("active")'
    BY <1>0, <1>4 DEF UpdateQueuesArchive, SweepQueuesArchive, AboutToQueue, LoopAt, LoopGoto, TypeOK
  <2>3. Queued("archive")' /\ (Queued("active") => Queued("active")')
    BY <1>0, <2>1, QueuedAppend DEF TypeOK, Shards
  <2> QED BY <2>1, <2>2, <2>3, InStepFrame
    DEF DurInv, Tracked, Marked, Undisturbed, Up, Shards, Current
<1>5. CASE UpdateStatus
  <2>1. UNCHANGED <<writing, disk, queue, life, starts, failures>> BY <1>5 DEF UpdateStatus
  <2>2. AboutToQueue("archive")' BY <1>0, <1>5 DEF UpdateStatus, AboutToQueue, LoopAt, LoopGoto, TypeOK
  <2>3. CASE job.id \in active
    <3>1. AboutToQueue("active")' BY <1>0, <1>5, <2>3 DEF UpdateStatus, AboutToQueue, LoopAt, LoopGoto, TypeOK
    <3> QED BY <2>1, <2>2, <3>1 DEF DurInv, Tracked, Marked, Shards, Current
  <2>4. CASE job.id \notin active
    <3>1. active' = active BY <1>5, <2>4 DEF UpdateStatus
    <3>2. InStep("active") <=> InStep("active")'
      BY <2>1, <3>1 DEF InStep, Dumping, Current, Content, Records
    <3>3. Marked("active") => Marked("active")'
      BY <1>0, <1>5, <2>1, <3>1 DEF UpdateStatus, Marked, Queued, AboutToQueue, Dumping, Current, LoopAt, LoopGoto, TypeOK
    <3> QED BY <2>1, <2>2, <3>2, <3>3 DEF DurInv, Tracked, Marked, Shards, Undisturbed, Up, Current
  <2> QED BY <2>3, <2>4
<1>6. CASE Sweep
  <2>1. UNCHANGED <<writing, disk, queue, life, starts, failures>> BY <1>6 DEF Sweep
  <2>2. \A s \in Shards : AboutToQueue(s)' BY <1>0, <1>6 DEF Sweep, AboutToQueue, TypeOK, Shards
  <2> QED BY <2>1, <2>2 DEF DurInv, Tracked, Marked, Current
<1>7. ASSUME NEW i \in Ids, CreateInvitation(i) PROVE DurInv'
  <2>1. UNCHANGED <<archive, writing, disk, queue, life, starts, failures>> BY <1>7 DEF CreateInvitation
  <2>2. AboutToQueue("active")' BY <1>0, <1>7 DEF CreateInvitation, AboutToQueue, LoopReady, LoopGoto, TypeOK
  <2>3. InStep("archive") <=> InStep("archive")' BY <2>1 DEF InStep, Dumping, Current, Content, Records
  <2>4. Marked("archive") => Marked("archive")'
    BY <1>0, <1>7, <2>1 DEF CreateInvitation, Marked, Queued, AboutToQueue, Dumping, Current, LoopReady, LoopGoto, TypeOK
  <2> QED BY <2>1, <2>2, <2>3, <2>4 DEF DurInv, Tracked, Marked, Shards, Undisturbed, Up, Current
<1>8. CASE \/ \E i \in Ids : AcceptChecked(i) \/ RejectChecked(i) \/ TimePasses(i)
           \/ AcceptJoins \/ RoomOpens \/ RoomCloses \/ RoomDropped
           \/ \E u \in Users : MemberLeaves(u)
           \/ UNCHANGED vars
  <2>1. UNCHANGED <<memory, writing, disk, queue, life, starts, failures>>
    BY <1>8 DEF AcceptChecked, RejectChecked, TimePasses, AcceptJoins, RoomOpens, RoomCloses,
                RoomDropped, MemberLeaves, vars
  <2>2. \A s \in Shards : AboutToQueue(s) => AboutToQueue(s)'
    BY <1>0, <1>8 DEF AcceptChecked, RejectChecked, TimePasses, AcceptJoins, RoomOpens, RoomCloses,
                RoomDropped, MemberLeaves, vars, AboutToQueue, LoopReady, LoopAt, LoopGoto, TypeOK
  <2> QED BY <2>1, <2>2, InStepFrame DEF DurInv, Tracked, Marked, Queued, Undisturbed, Up, Current
<1>9. ASSUME NEW n \in 1..Len(queue), WriterTakes(n) PROVE DurInv'
  <2>1. /\ UNCHANGED <<memory, pc, disk, life, starts, failures>>
        /\ dirty = {} /\ dirty' = Batch(n) /\ writer = "wait" /\ writer' = "next"
        /\ queue' = SubSeq(queue, n + 1, Len(queue))
    BY <1>9 DEF WriterTakes, DurInv
  <2>2. \A s \in Shards : Queued(s) => s \in dirty' \/ Queued(s)'
    BY <1>0, <2>1, QueuedTake DEF TypeOK
  <2> QED BY <2>1, <2>2
    DEF DurInv, Tracked, Marked, AboutToQueue, Dumping, InStep, Content, Records, Undisturbed, Up
<1>10. CASE WriterSnapshots
  <2>1. /\ UNCHANGED <<memory, pc, disk, life, starts, failures, queue, dirty>>
        /\ writer = "next" /\ writer' = "dump" /\ todo' = Records(Current) /\ tmp' = NoRecord
        /\ dirty # {}
    BY <1>10 DEF WriterSnapshots
  <2>2. Current' = Current /\ Current \in dirty BY <1>0, <2>1 DEF Current, TypeOK, Shards
  <2>3. InStep(Current)'
    BY <1>0, <2>1, <2>2 DEF InStep, Dumping, Content, Records, NoRecord, Current, TypeOK
  <2>4. \A s \in Shards \ {Current} : (Marked(s) => Marked(s)') /\ (InStep(s) => InStep(s)')
    BY <2>1, <2>2 DEF Marked, InStep, Queued, AboutToQueue, Dumping, Content, Records
  <2> QED BY <2>1, <2>2, <2>3, <2>4 DEF DurInv, Tracked, Undisturbed, Up
<1>11. ASSUME NEW i \in Ids, WriterDumps(i) PROVE DurInv'
  <2>1. /\ UNCHANGED <<memory, pc, disk, life, starts, failures, queue, dirty, writer>>
        /\ writer = "dump" /\ i \in todo /\ todo' = todo \ {i}
        /\ tmp' = [tmp EXCEPT ![i] = StatusOf(i)]
    BY <1>11 DEF WriterDumps
  <2>2. Current' = Current BY <2>1 DEF Current
  <2>3. \A s \in Shards : Marked(s) => Marked(s)'
    BY <2>1, <2>2 DEF Marked, Queued, AboutToQueue, Dumping
  <2>4. i \in Records(Current) => StatusOf(i) = Content(Current)[i]
    BY <1>0 DEF Records, StatusOf, Content, Current, ShardsDisjoint, TypeOK
  <2>5. InStep(Current) => InStep(Current)'
    <3>1. Dumping(Current) /\ Dumping(Current)' BY <2>1, <2>2 DEF Dumping
    <3>2. Content(Current)' = Content(Current) /\ Records(Current)' = Records(Current)
      BY <2>1, <2>2 DEF Content, Records
    <3> QED BY <1>0, <2>1, <2>4, <3>1, <3>2 DEF InStep, TypeOK
  <2>6. \A s \in Shards \ {Current} : InStep(s) => InStep(s)'
    BY <2>1, <2>2 DEF InStep, Dumping, Content, Records
  <2> QED BY <2>1, <2>2, <2>3, <2>5, <2>6 DEF DurInv, Tracked, Undisturbed, Up
<1>12. CASE WriterReplaces
  <2>1. /\ UNCHANGED <<memory, pc, life, starts, failures, queue, legacy>>
        /\ writer = "dump" /\ writer' = "next" /\ todo = {}
        /\ file' = [file EXCEPT ![Current] = tmp] /\ dirty' = dirty \ {Current}
    BY <1>12 DEF WriterReplaces
  <2>2. Current \in Shards BY DEF Current, Shards
  <2>3. \A s \in Shards : ~Dumping(s)' BY <2>1 DEF Dumping
  <2>4. \A s \in Shards \ {Current} : (Marked(s) => Marked(s)') /\ (InStep(s) => InStep(s)')
    BY <1>0, <2>1, <2>3 DEF Marked, InStep, Queued, AboutToQueue, Dumping, Content, Records, TypeOK
  <2>5. Marked(Current) => Queued(Current) \/ AboutToQueue(Current) BY <2>1 DEF Marked, Dumping
  <2>6. Queued(Current) \/ AboutToQueue(Current) => Marked(Current)
    BY DEF Marked
  <2>7. ASSUME NEW s \in Shards, s = Current, InStep(s) PROVE file'[s] = Content(s)'
    <3>1. \A i \in Ids : tmp[i] = Content(s)[i] BY <2>1, <2>7 DEF InStep, Dumping
    <3>2. Content(s) \in [Ids -> Status] /\ tmp \in [Ids -> Status]
      BY <1>0 DEF Content, TypeOK, Status
    <3>3. tmp = Content(s) BY <3>1, <3>2
    <3>4. file'[s] = tmp BY <1>0, <2>1, <2>7 DEF TypeOK
    <3> QED BY <2>1, <3>3, <3>4 DEF Content
  <2>8. ASSUME NEW s \in Shards, s = Current PROVE (Marked(s) => Marked(s)') /\ (InStep(s) => InStep(s)')
    <3>1. Marked(s) => Marked(s)' BY <2>1, <2>5, <2>8 DEF Marked, Queued, AboutToQueue
    <3>2. InStep(s) => InStep(s)' BY <2>3, <2>7, <2>8 DEF InStep
    <3> QED BY <3>1, <3>2
  <2> QED BY <2>1, <2>4, <2>8 DEF DurInv, Tracked, Undisturbed, Up
<1>13. CASE WriterFails
  BY <1>0, <1>13 DEF WriterFails, TypeOK, DurInv, Tracked, Undisturbed
<1>14. CASE WriterDone
  <2>1. writer' = "wait" /\ writer = "next" /\ dirty = {}
        /\ UNCHANGED <<memory, due, queue, threads, dirty, todo, tmp, disk, rooms, process, failures>>
    BY <1>14 DEF WriterDone
  <2> QED BY <2>1 DEF DurInv, Tracked, Marked, Queued, AboutToQueue, Dumping, InStep, Content, Undisturbed, Up
<1> QED BY <1>1, <1>2, <1>3, <1>4, <1>5, <1>6, <1>7, <1>8, <1>9, <1>10, <1>11, <1>12, <1>13, <1>14
  DEF Next, LoopContinues, SweeperContinues, WriterStep

\* In the first run of a process whose writes succeed, the files hold what
\* the memory holds whenever nothing is left to write.
THEOREM SettledStoreIsDurable == Spec => []SettledIsDurable
<1>1. IInv /\ DurInv => SettledIsDurable
  <2> SUFFICES ASSUME IInv, DurInv, Settled, Undisturbed, NEW i \in Ids
               PROVE  Loaded(i) = StatusOf(i)
    BY DEF SettledIsDurable
  <2>1. \A s \in Shards : ~Marked(s) /\ ~Dumping(s)
    BY DEF Settled, Marked, Queued, AboutToQueue, Idle, Dumping, DurInv
  <2>2. file["active"] = Content("active") /\ file["archive"] = Content("archive")
    BY <2>1 DEF DurInv, Tracked, InStep, Settled, Shards
  <2>3. legacy = NoRecord BY DEF DurInv, Undisturbed
  <2> QED BY <2>2, <2>3 DEF Loaded, StatusOf, Content, NoRecord, IInv, ShardsDisjoint, TypeOK
<1> QED BY <1>1, InitIInv, NextIInv, InitUnique, NextUnique, InitDur, NextDur, PTL DEF Spec

-----------------------------------------------------------------------------
(* The store implements the life cycle of an invitation.  A crash gives    *)
(* back what the files hold, so no file, nor the one in the making, may be *)
(* ahead of memory, nor the active file ahead of the archive file, which   *)
(* overrides it at the next start.                                         *)

NotAhead(s, t) == Lifecycle!EarlierOrSame(s, t)

BackInv ==
  /\ pc.loop = "update" => StatusOf(job.id) # "none"
  /\ \A i \in Ids : file["archive"][i] # "none" => NotAhead(file["active"][i], file["archive"][i])
  /\ Running => \A i \in Ids, s \in Shards : NotAhead(file[s][i], StatusOf(i))
  /\ writer = "dump" => \A i \in Ids :
       /\ NotAhead(tmp[i], StatusOf(i))
       /\ Current = "active" /\ file["archive"][i] # "none" => i \notin todo /\ tmp[i] = "none"
       /\ Current = "archive" /\ tmp[i] # "none" => NotAhead(file["active"][i], tmp[i])

LEMMA NotAheadFacts ==
  /\ \A s \in Status : NotAhead(s, s) /\ NotAhead("none", s)
  /\ \A s \in Terminal : NotAhead("pending", s) /\ NotAhead("expired", s)
  /\ \A s, t, u \in Status : NotAhead(s, t) /\ NotAhead(t, u) => NotAhead(s, u)
  /\ \A s \in Terminal : ~NotAhead(s, "pending")
BY DEF NotAhead, Lifecycle!EarlierOrSame, Lifecycle!Before, Lifecycle!Status, Lifecycle!Terminal,
       Lifecycle!Answers, Status, Terminal

\* No clause of BackInv is lost when memory goes forward and the files stay.
LEMMA MemoryForward ==
  ASSUME TypeOK, TypeOK', BackInv, Running' => Running,
         UNCHANGED <<writer, dirty, todo, tmp, file>>,
         \A i \in Ids : NotAhead(StatusOf(i), StatusOf(i)'),
         pc'.loop = "update" => StatusOf(job.id)' # "none",
         writer = "dump" => Running
  PROVE  BackInv'
<1>1. \A i \in Ids : /\ StatusOf(i) \in Status /\ StatusOf(i)' \in Status /\ tmp[i] \in Status
                     /\ \A s \in Shards : file[s][i] \in Status
  <2>1. \A i \in Ids : StatusOf(i)' \in Status
    <3>1. archive' \in [Ids -> Status] BY DEF TypeOK
    <3>2. "pending" \in Status BY DEF Status
    <3> QED BY <3>1, <3>2 DEF StatusOf
  <2> QED BY <2>1, StatusType DEF TypeOK
<1>2. Current' = Current BY DEF Current
<1>3. ASSUME NEW i \in Ids, NEW r \in Status, NotAhead(r, StatusOf(i)) PROVE NotAhead(r, StatusOf(i)')
  BY <1>1, <1>3, NotAheadFacts
<1>4. Running' => \A i \in Ids, s \in Shards : NotAhead(file[s][i], StatusOf(i)')
  BY <1>1, <1>3 DEF BackInv
<1>5. writer = "dump" => \A i \in Ids : NotAhead(tmp[i], StatusOf(i)')
  BY <1>1, <1>3 DEF BackInv
<1> QED BY <1>2, <1>4, <1>5 DEF BackInv

LEMMA InitBack == Init => BackInv
<1> SUFFICES ASSUME Init PROVE BackInv OBVIOUS
<1>1. pc.loop = "idle" /\ writer = "wait" /\ ~Running BY DEF Init, Idle, Running
<1>2. \A i \in Ids : file["archive"][i] = "none" BY DEF Init, NoRecord, Shards
<1> QED BY <1>1, <1>2 DEF BackInv

\* While the process runs, nothing is left of invitations.json, and what a
\* start would load is not ahead of memory.
LEMMA LoadedNotAhead ==
  ASSUME TypeOK, UniqueInv, BackInv, Running
  PROVE  \A i \in Ids : NotAhead(Loaded(i), StatusOf(i))
<1>1. legacy = NoRecord BY DEF UniqueInv, Running
<1>2. \A i \in Ids : NotAhead("none", StatusOf(i)) BY StatusType, NotAheadFacts
<1> QED BY <1>1, <1>2 DEF Loaded, NoRecord, BackInv, Shards

\* A start brings back to memory just what it loads.
LEMMA StartLoads ==
  ASSUME TypeOK, Start
  PROVE  \A i \in Ids : StatusOf(i)' = Loaded(i)
BY DEF Start, StatusOf

\* An invitation on the archive file has left the active shard.
LEMMA ArchivedHasLeft ==
  ASSUME TypeOK, UniqueInv, BackInv, Running, NEW i \in Ids, file["archive"][i] # "none"
  PROVE  i \notin active
<1>1. file["archive"][i] \in Terminal BY DEF UniqueInv, TypeOK, Shards, Status
<1>2. NotAhead(file["archive"][i], StatusOf(i)) BY DEF BackInv, Shards
<1>3. StatusOf(i) # "pending" BY <1>1, <1>2, NotAheadFacts
<1> QED BY <1>3 DEF StatusOf

LEMMA NextBack == IInv /\ FinalInv /\ UniqueInv /\ BackInv /\ [Next]_vars => BackInv'
<1> SUFFICES ASSUME IInv, FinalInv, UniqueInv, BackInv, [Next]_vars PROVE BackInv' OBVIOUS
<1> USE DEF memory, threads, writing, disk, rooms, process
<1>0. TypeOK /\ IssuedInv /\ JobInv BY DEF IInv
<1>0a. TypeOK' BY NextIInv DEF IInv
<1>0b. writer = "dump" => Running BY DEF UniqueInv
<1>0c. \A i \in Ids : StatusOf(i) \in Status /\ Loaded(i) \in Status BY <1>0, StatusType
\* Steps that leave memory and files alone, and start no update.
<1>1. ASSUME UNCHANGED <<active, archive, writer, dirty, todo, tmp, file>>, Running' => Running,
             pc'.loop = "update" => pc.loop = "update" /\ job' = job
      PROVE  BackInv'
  <2>1. \A i : StatusOf(i)' = StatusOf(i) BY <1>1 DEF StatusOf
  <2>2. \A i \in Ids : NotAhead(StatusOf(i), StatusOf(i)') BY <1>0c, <2>1, NotAheadFacts
  <2>3. pc'.loop = "update" => StatusOf(job.id)' # "none"
    <3> SUFFICES ASSUME pc'.loop = "update" PROVE StatusOf(job.id)' # "none" OBVIOUS
    <3>1. StatusOf(job.id) # "none" /\ job' = job BY <1>1 DEF BackInv
    <3> QED BY <1>1, <3>1 DEF StatusOf
  <2> QED BY <1>0, <1>0a, <1>0b, <1>1, <2>2, <2>3, MemoryForward
<1>2. CASE Start
  <2>1. \A i \in Ids : StatusOf(i)' = Loaded(i) BY <1>0, <1>2, StartLoads
  <2>2. UNCHANGED file /\ writer' = "wait" /\ pc'.loop = "idle"
    BY <1>2 DEF Start, UniqueInv, FinalInv, Running, Up, Idle
  <2>3. \A i \in Ids, s \in Shards : NotAhead(file[s][i], Loaded(i))
    <3> SUFFICES ASSUME NEW i \in Ids, NEW s \in Shards PROVE NotAhead(file[s][i], Loaded(i)) OBVIOUS
    <3>1. file["archive"][i] \in Status /\ file["active"][i] \in Status BY <1>0 DEF TypeOK, Shards
    <3>2. CASE file["archive"][i] # "none"
      BY <3>1, <3>2, NotAheadFacts DEF Loaded, BackInv, Shards
    <3>3. CASE file["archive"][i] = "none"
      BY <1>0c, <3>1, <3>3, NotAheadFacts DEF Loaded, Shards
    <3> QED BY <3>2, <3>3
  <2> QED BY <2>1, <2>2, <2>3 DEF BackInv
<1>3. CASE Crash \/ StopEnd
  <2>1. ~Running' /\ pc'.loop = "idle" /\ writer' = "wait" /\ UNCHANGED file
    BY <1>3 DEF Crash, StopEnd, ProcessEnds, Running, Idle
  <2> QED BY <2>1 DEF BackInv
<1>4. CASE StopBegin
  BY <1>1, <1>4 DEF StopBegin, Running, Up
<1>5. CASE PutQueued \/ UpdateQueuesActive \/ UpdateQueuesArchive \/ AcceptJoins
  BY <1>0, <1>1, <1>5 DEF PutQueued, UpdateQueuesActive, UpdateQueuesArchive, AcceptJoins, LoopGoto, TypeOK, Running
<1>6. CASE SweepQueuesActive \/ SweepQueuesArchive \/ RoomOpens \/ RoomCloses \/ RoomDropped
  BY <1>0, <1>1, <1>6 DEF SweepQueuesActive, SweepQueuesArchive, RoomOpens, RoomCloses, RoomDropped, TypeOK, Running
<1>7. ASSUME NEW i \in Ids, TimePasses(i) PROVE BackInv' BY <1>1, <1>7 DEF TimePasses, Running
<1>8. ASSUME NEW u \in Users, MemberLeaves(u) PROVE BackInv' BY <1>1, <1>8 DEF MemberLeaves, Running
<1>9. ASSUME NEW i \in Ids, AcceptChecked(i) \/ RejectChecked(i) PROVE BackInv'
  <2>1. /\ UNCHANGED <<active, archive, writer, dirty, todo, tmp, file, life>>
        /\ StatusOf(i) = "pending" /\ job'.id = i
    BY <1>9 DEF AcceptChecked, RejectChecked
  <2>2. \A k : StatusOf(k)' = StatusOf(k) BY <2>1 DEF StatusOf
  <2>3. \A k \in Ids : NotAhead(StatusOf(k), StatusOf(k)') BY <1>0c, <2>2, NotAheadFacts
  <2>4. StatusOf(job.id)' # "none" BY <2>1 DEF StatusOf
  <2> QED BY <1>0, <1>0a, <1>0b, <2>1, <2>3, <2>4, MemoryForward DEF Running
<1>10. ASSUME NEW i \in Ids, CreateInvitation(i) PROVE BackInv'
  <2>1. /\ UNCHANGED <<archive, writer, dirty, todo, tmp, file, life>> /\ active' = active \cup {i}
        /\ pc'.loop = "put" /\ i \notin issued
    BY <1>0, <1>10 DEF CreateInvitation, LoopGoto, TypeOK
  <2>2. StatusOf(i) = "none" BY <1>0, <2>1, UnissuedUnknown
  <2>3. \A k \in Ids \ {i} : StatusOf(k)' = StatusOf(k) BY <2>1 DEF StatusOf
  <2>4. NotAhead("none", StatusOf(i)')
    BY <2>1, NotAheadFacts DEF StatusOf, Status
  <2>5. \A k \in Ids : NotAhead(StatusOf(k), StatusOf(k)')
    BY <1>0c, <2>2, <2>3, <2>4, NotAheadFacts
  <2> QED BY <1>0, <1>0a, <1>0b, <2>1, <2>5, MemoryForward DEF Running
<1>11. CASE UpdateStatus
  <2>1. /\ UNCHANGED <<writer, dirty, todo, tmp, file, life>>
        /\ active' = active \ {job.id} /\ archive' = [archive EXCEPT ![job.id] = job.to]
        /\ pc.loop = "update" /\ pc'.loop # "update"
    BY <1>0, <1>11 DEF UpdateStatus, LoopAt, LoopGoto, TypeOK
  <2>2. job.id \in Ids /\ job.to \in Terminal BY <1>0, <2>1 DEF JobInv, TypeOK
  <2>3. StatusOf(job.id) \in {"pending", "expired"}
    BY <1>0c, <2>1, <2>2 DEF StatusOf, BackInv, FinalInv, Status, Terminal
  <2>4. \A k \in Ids : archive'[k] = IF k = job.id THEN job.to ELSE archive[k]
    BY <1>0, <2>1, <2>2 DEF TypeOK
  <2>5. \A k \in Ids \ {job.id} : StatusOf(k)' = StatusOf(k) BY <2>1, <2>4 DEF StatusOf
  <2>6. \A k \in Ids : k = job.id => StatusOf(k)' = job.to BY <2>1, <2>2, <2>4 DEF StatusOf
  <2>7. \A k \in Ids : NotAhead(StatusOf(k), StatusOf(k)')
    BY <1>0c, <2>2, <2>3, <2>5, <2>6, NotAheadFacts
  <2> QED BY <1>0, <1>0a, <1>0b, <2>1, <2>7, MemoryForward DEF Running
<1>12. CASE Sweep
  <2>1. /\ UNCHANGED <<writer, dirty, todo, tmp, file, life, job>> /\ pc'.loop = pc.loop
        /\ active' = active \ Overdue /\ Overdue \subseteq active
        /\ archive' = [i \in Ids |-> IF i \in Overdue THEN "expired" ELSE archive[i]]
    BY <1>0, <1>12 DEF Sweep, Overdue, TypeOK
  <2>2. \A k \in Ids : StatusOf(k)' = IF k \in Overdue THEN "expired" ELSE StatusOf(k)
    BY <2>1 DEF StatusOf
  <2>3. \A k \in Overdue : StatusOf(k) = "pending" BY <2>1 DEF StatusOf
  <2>4. \A k \in Ids : NotAhead(StatusOf(k), StatusOf(k)')
    BY <1>0c, <2>2, <2>3, NotAheadFacts DEF Terminal
  <2>5. pc'.loop = "update" => StatusOf(job.id)' # "none"
    <3> SUFFICES ASSUME pc'.loop = "update" PROVE StatusOf(job.id)' # "none" OBVIOUS
    <3>1. job.id \in Ids /\ StatusOf(job.id) # "none" /\ job' = job BY <1>0, <2>1 DEF JobInv, TypeOK, BackInv
    <3>2. StatusOf(job.id)' = IF job.id \in Overdue THEN "expired" ELSE StatusOf(job.id)
      BY <2>1, <3>1 DEF StatusOf
    <3> QED BY <3>1, <3>2
  <2> QED BY <1>0, <1>0a, <1>0b, <2>1, <2>4, <2>5, MemoryForward DEF Running
<1>13. CASE WriterStep \/ WriterFails
  <2>1. \A i : StatusOf(i)' = StatusOf(i) /\ UNCHANGED <<active, archive, pc, job, life>> /\ Running
    BY <1>13 DEF WriterStep, WriterFails, WriterTakes, WriterExits, WriterSnapshots, WriterReplaces,
                 WriterDone, WriterDumps, StatusOf, Running
  <2>2. pc'.loop = "update" => StatusOf(job.id)' # "none" BY <2>1 DEF BackInv, StatusOf
  <2>3. CASE writer' # "dump" /\ UNCHANGED file BY <2>1, <2>2, <2>3 DEF BackInv
  <2>4. CASE WriterSnapshots
    <3>1. Current' = Current /\ todo' = Records(Current) /\ UNCHANGED file /\ \A i \in Ids : tmp'[i] = "none"
      BY <2>4 DEF WriterSnapshots, Current, NoRecord
    <3>2. \A i \in Ids : NotAhead(tmp'[i], StatusOf(i)) BY <1>0c, <3>1, NotAheadFacts
    <3>3. \A i \in Ids : Current = "active" /\ file["archive"][i] # "none" => i \notin todo'
      BY <1>0, <2>1, <3>1, ArchivedHasLeft DEF Records
    <3> QED BY <2>1, <2>2, <3>1, <3>2, <3>3 DEF BackInv
  <2>5. ASSUME NEW i \in Ids, WriterDumps(i) PROVE BackInv'
    <3>1. /\ Current' = Current /\ UNCHANGED <<file, writer>> /\ writer = "dump" /\ i \in todo
          /\ todo' = todo \ {i} /\ \A k \in Ids : tmp'[k] = IF k = i THEN StatusOf(i) ELSE tmp[k]
      BY <1>0, <2>5 DEF WriterDumps, Current, TypeOK
    <3>2. NotAhead(StatusOf(i), StatusOf(i)) BY <1>0c, NotAheadFacts
    <3>3. NotAhead(file["active"][i], StatusOf(i)) BY <2>1 DEF BackInv, Shards
    <3> QED BY <2>1, <2>2, <3>1, <3>2, <3>3 DEF BackInv
  <2>6. CASE WriterReplaces
    <3>1. /\ writer = "dump" /\ writer' = "next" /\ file' = [file EXCEPT ![Current] = tmp] /\ Current \in Shards
      BY <2>6 DEF WriterReplaces, Current, Shards
    <3>2. \A s \in Shards : file'[s] = IF s = Current THEN tmp ELSE file[s] BY <1>0, <3>1 DEF TypeOK
    <3>3. \A i \in Ids, s \in Shards : NotAhead(file'[s][i], StatusOf(i))
      BY <2>1, <3>1, <3>2 DEF BackInv
    <3>4. ASSUME NEW i \in Ids, file'["archive"][i] # "none"
          PROVE  NotAhead(file'["active"][i], file'["archive"][i])
      <4>1. CASE Current = "active"
        <5>1. file'["active"] = tmp /\ file'["archive"] = file["archive"] BY <3>2, <4>1 DEF Shards
        <5>2. tmp[i] = "none" /\ file["archive"][i] \in Status
          BY <1>0, <3>1, <3>4, <4>1, <5>1 DEF BackInv, TypeOK, Shards
        <5> QED BY <5>1, <5>2, NotAheadFacts
      <4>2. CASE Current = "archive"
        <5>1. file'["archive"] = tmp /\ file'["active"] = file["active"] BY <3>2, <4>2 DEF Shards
        <5> QED BY <3>1, <3>4, <4>2, <5>1 DEF BackInv
      <4> QED BY <3>1, <4>1, <4>2 DEF Shards
    <3> QED BY <2>1, <2>2, <3>1, <3>3, <3>4 DEF BackInv
  <2>7. CASE WriterExits \/ WriterDone \/ WriterFails \/ \E n \in 1..Len(queue) : WriterTakes(n)
    BY <2>3, <2>7 DEF WriterExits, WriterDone, WriterFails, WriterTakes
  <2> QED BY <1>13, <2>4, <2>5, <2>6, <2>7 DEF WriterStep
<1>14. CASE UNCHANGED vars BY <1>1, <1>14 DEF vars, Running
<1> QED BY <1>2, <1>3, <1>4, <1>5, <1>6, <1>7, <1>8, <1>9, <1>10, <1>11, <1>12, <1>13, <1>14
  DEF Next, LoopContinues, SweeperContinues

\* The status the life cycle sees.
Seen == [i \in Ids |-> IF Running THEN StatusOf(i) ELSE Loaded(i)]

LEMMA SeenAt == \A i \in Ids : Seen[i] = IF Running THEN StatusOf(i) ELSE Loaded(i)
BY DEF Seen

\* A step that changes neither memory nor files, nor whether the process
\* runs, is no step of the life cycle.
LEMMA SeenStutters ==
  ASSUME UNCHANGED <<active, archive, file, legacy>>, Running' <=> Running
  PROVE  UNCHANGED <<Seen, Running>>
<1>1. \A i : StatusOf(i)' = StatusOf(i) /\ Loaded(i)' = Loaded(i) BY DEF StatusOf, Loaded
<1>2. Running' = Running BY DEF Running
<1> QED BY <1>1, <1>2 DEF Seen

LEMMA StepOfLifecycle ==
  ASSUME IInv, FinalInv, UniqueInv, BackInv, [Next]_vars
  PROVE  [Lifecycle!Next]_(Lifecycle!vars)
<1> USE DEF memory, threads, writing, disk, rooms, process
<1>0. TypeOK /\ IssuedInv /\ JobInv BY DEF IInv
<1>0a. TypeOK' BY NextIInv DEF IInv
<1>0b. \A i \in Ids : StatusOf(i) \in Status /\ Loaded(i) \in Status BY <1>0, StatusType
<1>0c. \A i \in Ids : Seen[i] = IF Running THEN StatusOf(i) ELSE Loaded(i) BY SeenAt
<1>0d. Seen' = [i \in Ids |-> IF Running' THEN StatusOf(i)' ELSE Loaded(i)'] BY DEF Seen
<1>0e. ASSUME UNCHANGED <<Seen, Running>> PROVE [Lifecycle!Next]_(Lifecycle!vars)
  <2>1. Lifecycle!vars' = Lifecycle!vars BY <1>0e DEF Lifecycle!vars, Seen, Running
  <2> QED BY <2>1
<1>1. CASE UNCHANGED <<active, archive, file, legacy>> /\ (Running' <=> Running)
  BY <1>0e, <1>1, SeenStutters
<1>2. CASE Start
  <2>1. ~Running /\ Running' BY <1>2 DEF Start, Running
  <2>2. \A i \in Ids : StatusOf(i)' = Loaded(i) BY <1>0, <1>2, StartLoads
  <2>3. Seen' = Seen BY <1>0d, <2>1, <2>2 DEF Seen
  <2>4. Lifecycle!Begin BY <2>1, <2>3 DEF Lifecycle!Begin, Seen, Running
  <2> QED BY <2>4 DEF Lifecycle!Next
<1>3. CASE Crash \/ StopEnd
  <2>1. Running /\ ~Running' /\ UNCHANGED <<file, legacy>> BY <1>3 DEF Crash, StopEnd, Running
  <2>2. \A i : Loaded(i)' = Loaded(i) BY <2>1 DEF Loaded
  <2>3. Seen' \in [Ids -> Status] /\ \A i \in Ids : Seen'[i] = Loaded(i) BY <1>0b, <1>0d, <2>1, <2>2
  <2>4. \A i \in Ids : NotAhead(Seen'[i], Seen[i])
    BY <1>0, <1>0c, <2>1, <2>3, LoadedNotAhead
  <2>5. Lifecycle!End
    BY <2>1, <2>3, <2>4 DEF Lifecycle!End, Lifecycle!Status, Lifecycle!Terminal, Lifecycle!Answers,
                            Status, Terminal, NotAhead, Seen, Running
  <2> QED BY <2>5 DEF Lifecycle!Next
<1>4. ASSUME NEW i \in Ids, CreateInvitation(i) PROVE Lifecycle!Issue(i)
  <2>1. Running /\ Running' = Running /\ UNCHANGED archive /\ active' = active \cup {i} /\ i \notin issued
    BY <1>4 DEF CreateInvitation, LoopReady, Up, Running
  <2>2. Seen[i] = "none" BY <1>0, <1>0c, <2>1, UnissuedUnknown
  <2>3. \A k \in Ids : StatusOf(k)' = IF k = i THEN "pending" ELSE StatusOf(k) BY <2>1 DEF StatusOf
  <2>4. Seen' = [Seen EXCEPT ![i] = "pending"] BY <1>0d, <2>1, <2>3 DEF Seen
  <2> QED BY <2>1, <2>2, <2>4 DEF Lifecycle!Issue, Seen, Running
<1>5. CASE UpdateStatus
  <2>1. /\ Running /\ Running' = Running /\ pc.loop = "update"
        /\ active' = active \ {job.id} /\ archive' = [archive EXCEPT ![job.id] = job.to]
    BY <1>5 DEF UpdateStatus, LoopAt, Up, Running
  <2>2. job.id \in Ids /\ job.to \in Terminal BY <1>0, <2>1 DEF JobInv, TypeOK
  <2>3. StatusOf(job.id) \in {"pending", "expired"}
    BY <1>0b, <2>1, <2>2 DEF StatusOf, BackInv, FinalInv, Status, Terminal
  <2>4. \A k \in Ids : archive'[k] = IF k = job.id THEN job.to ELSE archive[k]
    BY <1>0, <2>1, <2>2 DEF TypeOK
  <2>5. \A k \in Ids : StatusOf(k)' = IF k = job.id THEN job.to ELSE StatusOf(k)
    BY <2>1, <2>4 DEF StatusOf
  <2>6. Seen' = [Seen EXCEPT ![job.id] = job.to] BY <1>0d, <2>1, <2>5 DEF Seen
  <2>7. Seen[job.id] \in {"pending", "expired"} BY <1>0c, <2>1, <2>2, <2>3
  <2>8. CASE job.to # "expired"
    <3>1. job.to \in Lifecycle!Answers BY <2>2, <2>8 DEF Terminal, Lifecycle!Answers
    <3>2. Lifecycle!Answer(job.id) BY <2>1, <2>6, <2>7, <3>1 DEF Lifecycle!Answer, Seen, Running
    <3> QED BY <2>2, <3>2 DEF Lifecycle!Next
  <2>9. CASE job.to = "expired" /\ Seen[job.id] = "pending"
    <3>1. Seen' = [k \in Ids |-> IF k \in {job.id} THEN "expired" ELSE Seen[k]]
      BY <2>2, <2>6, <2>9 DEF Seen
    <3>2. Lifecycle!Expire({job.id}) BY <2>1, <2>9, <3>1 DEF Lifecycle!Expire, Seen, Running
    <3> QED BY <2>2, <3>2 DEF Lifecycle!Next
  <2>10. CASE job.to = "expired" /\ Seen[job.id] = "expired"
    <3>1. Seen' = Seen BY <2>2, <2>6, <2>10 DEF Seen
    <3> QED BY <1>0e, <2>1, <3>1
  <2> QED BY <2>7, <2>8, <2>9, <2>10
<1>6. CASE Sweep
  <2>1. /\ Running /\ Running' = Running /\ active' = active \ Overdue /\ Overdue \subseteq active
        /\ archive' = [i \in Ids |-> IF i \in Overdue THEN "expired" ELSE archive[i]]
    BY <1>6 DEF Sweep, Overdue, Up, Running
  <2>2. \A k \in Ids : StatusOf(k)' = IF k \in Overdue THEN "expired" ELSE StatusOf(k)
    BY <2>1 DEF StatusOf
  <2>3. Overdue \in SUBSET Ids BY <1>0, <2>1 DEF TypeOK
  <2>4. \A k \in Overdue : Seen[k] = "pending" BY <1>0c, <2>1, <2>3 DEF StatusOf
  <2>5. Seen' = [k \in Ids |-> IF k \in Overdue THEN "expired" ELSE Seen[k]]
    BY <1>0d, <2>1, <2>2 DEF Seen
  <2>6. Lifecycle!Expire(Overdue) BY <2>1, <2>4, <2>5 DEF Lifecycle!Expire, Seen, Running
  <2> QED BY <2>3, <2>6 DEF Lifecycle!Next
<1>7. CASE WriterReplaces
  <2>1. Running /\ Running' /\ \A i : StatusOf(i)' = StatusOf(i)
    BY <1>7 DEF WriterReplaces, Running, StatusOf
  <2>2. Seen' = Seen /\ Running' = Running BY <1>0d, <2>1, <1>7 DEF Seen, WriterReplaces, Running
  <2> QED BY <1>0e, <2>2
<1>8. CASE \/ StopBegin \/ PutQueued \/ UpdateQueuesActive \/ UpdateQueuesArchive \/ AcceptJoins
           \/ RoomOpens \/ RoomCloses \/ RoomDropped \/ SweeperContinues \/ UNCHANGED vars
           \/ \E i \in Ids : AcceptChecked(i) \/ RejectChecked(i) \/ TimePasses(i)
           \/ \E u \in Users : MemberLeaves(u)
  BY <1>1, <1>8 DEF StopBegin, PutQueued, UpdateQueuesActive, UpdateQueuesArchive, AcceptJoins, RoomOpens,
       RoomCloses, RoomDropped, SweeperContinues, SweepQueuesActive, SweepQueuesArchive, vars,
       AcceptChecked, RejectChecked, TimePasses, MemberLeaves, Running, Up
<1>9. CASE \/ WriterExits \/ WriterSnapshots \/ WriterDone \/ WriterFails
           \/ \E n \in 1..Len(queue) : WriterTakes(n)
           \/ \E i \in Ids : WriterDumps(i)
  BY <1>1, <1>9 DEF WriterExits, WriterSnapshots, WriterDone, WriterFails, WriterTakes, WriterDumps, Running
<1> QED BY <1>2, <1>3, <1>4, <1>5, <1>6, <1>7, <1>8, <1>9
  DEF Next, LoopContinues, WriterStep, Lifecycle!Next

\* What the store knows of an invitation while the process runs, and would
\* load while it does not, goes through the life cycle that
\* InvitationLifecycle describes, whatever the sweeper, the handlers, the
\* writer and the crashes do in between.
THEOREM StoreImplementsLifecycle == Spec => ImplementsLifecycle
<1>1. Init => Lifecycle!Init
  <2> SUFFICES ASSUME Init PROVE Lifecycle!Init OBVIOUS
  <2>1. ~Running BY DEF Init, Running
  <2>2. \A i \in Ids : Loaded(i) = Legacy[i] BY DEF Init, Loaded, NoRecord, Shards
  <2>3. Seen = Legacy BY <2>1, <2>2, LegacyType DEF Seen
  <2> QED BY <2>1, <2>3 DEF Lifecycle!Init, Seen, Running
<1>2. IInv /\ FinalInv /\ UniqueInv /\ BackInv /\ [Next]_vars => [Lifecycle!Next]_(Lifecycle!vars)
  BY StepOfLifecycle
<1> QED BY <1>1, <1>2, InitIInv, NextIInv, InitFinal, NextFinal, InitUnique, NextUnique,
           InitBack, NextBack, PTL DEF Spec, ImplementsLifecycle, Lifecycle!Spec

=============================================================================
