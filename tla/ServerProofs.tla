---------------------------- MODULE ServerProofs ----------------------------
(***************************************************************************)
(* Proofs about two more parts of the chat server: its translations, for    *)
(* any requests, rooms, sources, languages and concurrent starts, and its   *)
(* connection to the main server, for any number of room changes and lost   *)
(* connections.                                                             *)
(***************************************************************************)
EXTENDS Translations, SyncClient, TLAPS

-----------------------------------------------------------------------------
(* Translations                                                            *)

\* A request that is not in the table has left no trace.
UnknownInv ==
  /\ \A i \in Ids \ issued : status[i] = "none"
  /\ \A i \in Ids : status[i] = "none" => since[i] = 0 /\ i \notin aged /\ i \notin running
  /\ \A i \in Ids : status[i] # "none" => key[i] \in Keys

\* A slot names a request of its own room, source and language.
SlotInv == \A k \in Keys : slot[k] # None => status[slot[k]] # "none" /\ key[slot[k]] = k

\* While a start sleeps, its slot has no process but that of a translation
\* started during the sleep, which cannot have timed out yet.
SleepInv ==
  \A h \in Handlers : handler[h] # None /\ slot[handler[h]] \in running =>
    LET i == slot[handler[h]] IN Active(i) /\ since[i] = 0 /\ i \notin aged

\* The inductive invariant.
IInv == TypeOK /\ UnknownInv /\ SlotInv /\ ActiveIsInSlot /\ ProcessIsInSlot /\ SleepInv

\* What the assumption on the constants says of the keys.
LEMMA ConstantFacts == MaxTicks \in Nat /\ None \notin Ids /\ None \notin Keys
BY TranslationsAssumption DEF Keys

\* No request is known at the start.
LEMMA InitIInv == Init => IInv
<1> SUFFICES ASSUME Init PROVE IInv OBVIOUS
<1> USE ConstantFacts DEF Init, Active
<1>1. TypeOK
  <2>1. slot \in [Keys -> Ids \cup {None}] OBVIOUS
  <2>2. key \in [Ids -> Keys \cup {None}] OBVIOUS
  <2>3. handler \in [Handlers -> Keys \cup {None}] OBVIOUS
  <2>4. byStream \in [SourceStreams -> Ids \cup {None}] OBVIOUS
  <2>5. since \in [Ids -> 0..MaxTicks]
    <3>1. 0 \in 0..MaxTicks BY ONLY ConstantFacts
    <3> QED BY <3>1
  <2>6. status \in [Ids -> {"none", "active", "stopped"}] OBVIOUS
  <2> QED BY <2>1, <2>2, <2>3, <2>4, <2>5, <2>6 DEF TypeOK
<1>2. UnknownInv /\ SlotInv /\ ActiveIsInSlot BY DEF UnknownInv, SlotInv, ActiveIsInSlot
<1>3. ProcessIsInSlot /\ SleepInv BY DEF ProcessIsInSlot, SleepInv
<1> QED BY <1>1, <1>2, <1>3 DEF IInv

\* Stopping a request and its process keeps everything but SleepInv of the
\* handlers that begin to sleep.
LEMMA StopKeeps ==
  ASSUME IInv, NEW i \in Ids, StopService(i), MarkStopped(i),
         UNCHANGED <<slot, key, issued, clocks, handler>>
  PROVE  IInv'
<1> USE ConstantFacts DEF IInv, StopService, MarkStopped, clocks
<1>1. TypeOK' BY DEF TypeOK
<1>2. UnknownInv' BY DEF TypeOK, UnknownInv
<1>3. SlotInv'
  <2>1. \A j \in Ids : status'[j] = "none" <=> status[j] = "none" BY DEF TypeOK
  <2>2. \A k \in Keys : slot[k] \in Ids \cup {None} BY DEF TypeOK
  <2> QED BY <2>1, <2>2 DEF SlotInv
<1>4. ActiveIsInSlot' BY DEF TypeOK, ActiveIsInSlot, Active
<1>5. ProcessIsInSlot' BY DEF ProcessIsInSlot
<1>6. SleepInv' BY DEF TypeOK, SleepInv, Active
<1> QED BY <1>1, <1>2, <1>3, <1>4, <1>5, <1>6

\* Creating a translation for a slot keeps the tables consistent, provided no
\* process runs for a stopped request of the slot.
LEMMA CreateKeeps ==
  ASSUME IInv, NEW i \in Ids, NEW k \in Keys, Create(i, k),
         slot[k] # None /\ slot[k] \in running => Active(slot[k]),
         UNCHANGED clocks,
         \A h \in Handlers : handler'[h] \in {handler[h], None},
         handler' \in [Handlers -> Keys \cup {None}]
  PROVE  IInv'
<1> USE ConstantFacts DEF IInv, clocks
<1>0. i \notin issued /\ issued' = issued \cup {i} /\ status[i] = "none"
      /\ since[i] = 0 /\ i \notin aged /\ i \notin running
  BY DEF Create, UnknownInv
<1>1. CASE slot[k] # None /\ Active(slot[k])
  <2>1. UNCHANGED <<slot, status, key, running, ending, byStream>> BY <1>1 DEF Create, processes
  <2>2. TypeOK' BY <1>0, <2>1 DEF TypeOK
  <2>3. UnknownInv' /\ SlotInv' /\ ActiveIsInSlot' /\ ProcessIsInSlot'
    BY <1>0, <2>1 DEF UnknownInv, SlotInv, ActiveIsInSlot, ProcessIsInSlot, Active
  <2>4. SleepInv' BY <2>1 DEF SleepInv, Active
  <2> QED BY <2>2, <2>3, <2>4
<1>2. CASE ~(slot[k] # None /\ Active(slot[k]))
  <2>1. /\ slot' = [slot EXCEPT ![k] = i]
        /\ status' = [status EXCEPT ![i] = "active"]
        /\ key' = [key EXCEPT ![i] = k]
        /\ running' \in {running, running \cup {i}}
        /\ byStream' \in {byStream, [byStream EXCEPT ![SourceStream(k)] = i]}
        /\ ending' = ending
    BY <1>2 DEF Create, AddRequest, StartService, processes
  <2>2. TypeOK'
    <3>1. slot' \in [Keys -> Ids \cup {None}] BY <2>1 DEF TypeOK
    <3>2. key' \in [Ids -> Keys \cup {None}] BY <2>1 DEF TypeOK
    <3>3. status' \in [Ids -> {"none", "active", "stopped"}] BY <2>1 DEF TypeOK
    <3>4. byStream' \in [SourceStreams -> Ids \cup {None}] /\ running' \subseteq Ids /\ ending' \subseteq Ids
      BY <2>1 DEF TypeOK, SourceStreams, SourceStream, Keys
    <3> QED BY <1>0, <3>1, <3>2, <3>3, <3>4 DEF TypeOK
  <2>3. UnknownInv' BY <1>0, <2>1 DEF TypeOK, UnknownInv
  <2>4. SlotInv' BY <1>0, <2>1 DEF TypeOK, SlotInv
  <2>5. ActiveIsInSlot'
    <3> SUFFICES ASSUME NEW j \in Ids, status'[j] = "active" PROVE slot'[key'[j]] = j
      BY DEF ActiveIsInSlot, Active
    <3>1. CASE j = i BY <2>1, <3>1 DEF TypeOK
    <3>2. CASE j # i
      <4>1. status[j] = "active" /\ key'[j] = key[j] BY <2>1, <3>2 DEF TypeOK
      <4>2. slot[key[j]] = j /\ key[j] \in Keys BY <4>1 DEF ActiveIsInSlot, Active, UnknownInv
      <4>3. key[j] # k BY <1>2, <4>1, <4>2 DEF Active
      <4> QED BY <2>1, <4>1, <4>2, <4>3 DEF TypeOK
    <3> QED BY <3>1, <3>2
  <2>6. ProcessIsInSlot'
    <3> SUFFICES ASSUME NEW j \in running' PROVE slot'[key'[j]] = j BY DEF ProcessIsInSlot
    <3>1. CASE j = i BY <2>1, <3>1 DEF TypeOK
    <3>2. CASE j # i
      <4>1. j \in running /\ j \in Ids /\ key'[j] = key[j] BY <2>1, <3>2 DEF TypeOK
      <4>2. slot[key[j]] = j /\ key[j] \in Keys BY <4>1 DEF ProcessIsInSlot, UnknownInv
      <4>3. key[j] # k BY <1>2, <4>1, <4>2
      <4> QED BY <2>1, <4>1, <4>2, <4>3 DEF TypeOK
    <3> QED BY <3>1, <3>2
  <2>7. SleepInv'
    <3> SUFFICES ASSUME NEW h \in Handlers, handler'[h] # None, slot'[handler'[h]] \in running'
                 PROVE  LET j == slot'[handler'[h]]
                        IN status'[j] = "active" /\ since'[j] = 0 /\ j \notin aged'
      BY DEF SleepInv, Active
    <3>1. handler'[h] = handler[h] /\ handler[h] \in Keys BY DEF TypeOK
    <3>2. CASE handler[h] = k BY <1>0, <2>1, <3>1, <3>2 DEF TypeOK
    <3>3. CASE handler[h] # k
      <4>1. slot'[handler[h]] = slot[handler[h]] BY <2>1, <3>1, <3>3 DEF TypeOK
      <4>2. slot[handler[h]] # i BY <1>0, <3>1 DEF SlotInv, TypeOK
      <4>3. slot[handler[h]] \in running BY <2>1, <3>1, <4>1, <4>2
      <4>4. LET j == slot[handler[h]] IN Active(j) /\ since[j] = 0 /\ j \notin aged
        BY <3>1, <4>3 DEF SleepInv
      <4> QED BY <2>1, <3>1, <4>1, <4>2, <4>4 DEF Active, TypeOK
    <3> QED BY <3>2, <3>3
  <2> QED BY <2>2, <2>3, <2>4, <2>5, <2>6, <2>7
<1> QED BY <1>1, <1>2

LEMMA NextIInv == IInv /\ [Next]_vars => IInv'
<1> SUFFICES ASSUME IInv, [Next]_vars PROVE IInv' OBVIOUS
<1> USE ConstantFacts
<1>1. ASSUME NEW h \in Handlers, NEW i \in Ids, NEW k \in Keys, StartFirst(h, i, k) PROVE IInv'
  <2>1. handler' \in [Handlers -> Keys \cup {None}] BY <1>1 DEF StartFirst, IInv, TypeOK
  <2> QED BY <1>1, <2>1, CreateKeeps DEF StartFirst
<1>2. ASSUME NEW h \in Handlers, NEW k \in Keys, StartReplaces(h, k) PROVE IInv'
  <2> DEFINE old == slot[k]
  <2>1. /\ old \in Ids /\ StopService(old) /\ MarkStopped(old)
        /\ handler' = [handler EXCEPT ![h] = k]
        /\ UNCHANGED <<slot, key, issued, since, aged>>
    BY <1>2 DEF StartReplaces, IInv, TypeOK, clocks
  <2> HIDE DEF old
  <2> USE <2>1 DEF IInv, StopService, MarkStopped
  <2>2. TypeOK' BY DEF TypeOK
  <2>3. UnknownInv' BY DEF TypeOK, UnknownInv
  <2>4. SlotInv'
    <3>1. \A j \in Ids : status'[j] = "none" <=> status[j] = "none" BY DEF TypeOK
    <3>2. \A l \in Keys : slot[l] \in Ids \cup {None} BY DEF TypeOK
    <3> QED BY <3>1, <3>2 DEF SlotInv
  <2>5. ActiveIsInSlot' BY DEF TypeOK, ActiveIsInSlot, Active
  <2>6. ProcessIsInSlot' BY DEF ProcessIsInSlot
  <2>7. SleepInv' BY DEF TypeOK, SleepInv, Active, old
  <2> QED BY <2>2, <2>3, <2>4, <2>5, <2>6, <2>7
<1>3. ASSUME NEW h \in Handlers, NEW i \in Ids, StartWakes(h, i) PROVE IInv'
  <2>1. handler[h] \in Keys BY <1>3 DEF StartWakes, IInv, TypeOK
  <2>2. slot[handler[h]] \in running => Active(slot[handler[h]])
    BY <1>3 DEF StartWakes, IInv, SleepInv
  <2>3. /\ handler' \in [Handlers -> Keys \cup {None}]
        /\ \A g \in Handlers : handler'[g] \in {handler[g], None}
    BY <1>3 DEF StartWakes, IInv, TypeOK
  <2> QED BY <1>3, <2>1, <2>2, <2>3, CreateKeeps DEF StartWakes
<1>4. ASSUME NEW i \in Ids, Stop(i) PROVE IInv'
  BY <1>4, StopKeeps DEF Stop
<1>5. ASSUME NEW s \in SourceStreams, Unpublish(s) PROVE IInv'
  <2>1. byStream[s] \in Ids BY <1>5 DEF Unpublish, IInv, TypeOK
  <2> QED BY <1>5, <2>1, StopKeeps DEF Unpublish
<1>6. ASSUME NEW i \in Ids, HeartbeatArrives(i) PROVE IInv'
  <2> USE <1>6 DEF HeartbeatArrives, requests, processes, IInv
  <2>1. TypeOK'
    <3>1. 0 \in 0..MaxTicks OBVIOUS
    <3>2. since' \in [Ids -> 0..MaxTicks] BY <3>1 DEF TypeOK
    <3> QED BY <3>2 DEF TypeOK
  <2>2. UnknownInv' BY DEF TypeOK, UnknownInv
  <2>3. SleepInv' BY DEF TypeOK, SleepInv, Active
  <2> QED BY <2>1, <2>2, <2>3 DEF SlotInv, ActiveIsInSlot, ProcessIsInSlot, Active
<1>7. CASE Tick
  <2> USE <1>7 DEF Tick, requests, processes, IInv
  <2>1. TypeOK'
    <3>1. \A i \in Ids : since[i] \in 0..MaxTicks BY DEF TypeOK
    <3>2. since' \in [Ids -> 0..MaxTicks] BY <3>1
    <3> QED BY <3>2 DEF TypeOK
  <2>2. UnknownInv' BY DEF TypeOK, UnknownInv, Active
  <2>3. SleepInv' BY DEF SleepInv
  <2> QED BY <2>1, <2>2, <2>3 DEF SlotInv, ActiveIsInSlot, ProcessIsInSlot, Active
<1>8. ASSUME NEW i \in Ids, BecomesAged(i) PROVE IInv'
  <2> USE <1>8 DEF BecomesAged, requests, processes, IInv
  <2>1. TypeOK' BY DEF TypeOK
  <2>2. UnknownInv' BY DEF TypeOK, UnknownInv, Active
  <2>3. SleepInv' BY DEF SleepInv
  <2> QED BY <2>1, <2>2, <2>3 DEF SlotInv, ActiveIsInSlot, ProcessIsInSlot, Active
<1>9. ASSUME NEW i \in Ids, ProcessExits(i) PROVE IInv'
  <2> USE <1>9 DEF ProcessExits, requests, clocks, IInv
  <2>1. TypeOK' BY DEF TypeOK
  <2>2. UnknownInv' /\ ProcessIsInSlot' BY DEF UnknownInv, ProcessIsInSlot
  <2>3. SleepInv' BY DEF SleepInv, Active
  <2> QED BY <2>1, <2>2, <2>3 DEF SlotInv, ActiveIsInSlot, Active
<1>10. CASE Cleanup
  <2>1. /\ status' \in [Ids -> {"none", "active", "stopped"}]
        /\ \A i \in Ids : status'[i] # status[i] =>
             status'[i] = "stopped" /\ status[i] = "active" /\ (Silent(i) \/ i \in aged)
        /\ UNCHANGED <<slot, key, issued, since, aged, running, ending, byStream, handler>>
    BY <1>10 DEF Cleanup, IInv, TypeOK, Active, clocks, processes
  <2> USE <2>1 DEF IInv
  <2>2. TypeOK' BY DEF TypeOK
  <2>3. UnknownInv' BY DEF UnknownInv
  <2>4. SlotInv'
    <3>1. \A i \in Ids : status'[i] = "none" => status[i] = "none" OBVIOUS
    <3>2. \A k \in Keys : slot[k] \in Ids \cup {None} BY DEF TypeOK
    <3> QED BY <3>1, <3>2 DEF SlotInv
  <2>5. ActiveIsInSlot' /\ ProcessIsInSlot' BY DEF ActiveIsInSlot, ProcessIsInSlot, Active
  <2>6. SleepInv'
    <3> SUFFICES ASSUME NEW h \in Handlers, handler[h] # None, slot[handler[h]] \in running
                 PROVE  LET i == slot[handler[h]]
                        IN status'[i] = "active" /\ since[i] = 0 /\ i \notin aged
      BY DEF SleepInv, Active
    <3>1. LET i == slot[handler[h]] IN Active(i) /\ since[i] = 0 /\ i \notin aged BY DEF SleepInv
    <3>2. slot[handler[h]] \in Ids BY DEF TypeOK
    <3>3. ~ Silent(slot[handler[h]])
      <4>1. since[slot[handler[h]]] = 0 BY <3>1
      <4> QED BY ONLY <4>1 DEF Silent, RequesterTimeout
    <3> QED BY <3>1, <3>2, <3>3 DEF Active
  <2> QED BY <2>2, <2>3, <2>4, <2>5, <2>6
<1>11. CASE UNCHANGED vars
  <2> USE <1>11 DEF vars, IInv
  <2>1. TypeOK' BY DEF TypeOK
  <2> QED BY <2>1 DEF UnknownInv, SlotInv, ActiveIsInSlot, ProcessIsInSlot, SleepInv, Active
<1> QED BY <1>1, <1>2, <1>3, <1>4, <1>5, <1>6, <1>6, <1>7, <1>8, <1>9, <1>10, <1>11 DEF Next

THEOREM Invariance == Spec => []IInv
BY InitIInv, NextIInv, PTL DEF Spec

\* Every variable keeps its type.
THEOREM TranslationTypeCorrect == Spec => []TypeOK
<1>1. IInv => TypeOK BY DEF IInv
<1> QED BY <1>1, Invariance, PTL

\* The active translation of a room, source and language is the one its slot
\* names.
THEOREM OneActivePerSlot == Spec => []ActiveIsInSlot
<1>1. IInv => ActiveIsInSlot BY DEF IInv
<1> QED BY <1>1, Invariance, PTL

\* A process that was not told to end is one that the next start of its slot
\* tells to end (start_translation).
THEOREM NoProcessIsLost == Spec => []ProcessIsInSlot
<1>1. IInv => ProcessIsInSlot BY DEF IInv
<1> QED BY <1>1, Invariance, PTL

\* Whatever the rooms, starts, stops and shutdowns that take their time, two
\* processes that publish one translation stream work for different rooms, or
\* one of them was told to end.
THEOREM StreamIsSharedAcrossRooms == Spec => []OneFeederPerRoom
<1>1. IInv => OneFeederPerRoom
  <2> SUFFICES ASSUME IInv, NEW i \in running, NEW j \in running,
                      StreamName(key[i]) = StreamName(key[j]), key[i][1] = key[j][1]
               PROVE  i = j
    BY DEF OneFeederPerRoom
  <2>1. i \in Ids /\ j \in Ids BY DEF IInv, TypeOK
  <2>2. key[i] \in Keys /\ key[j] \in Keys BY <2>1 DEF IInv, UnknownInv
  <2>3. key[i] = key[j] BY <2>2 DEF Keys, StreamName
  <2> QED BY <2>3 DEF IInv, ProcessIsInSlot
<1> QED BY <1>1, Invariance, PTL

-----------------------------------------------------------------------------
(* Synchronisation with the main server                                    *)

\* After stop nothing sets the event again, and stop comes once, after start.
StopIsOver ==
  /\ connected => shouldRun
  /\ run = "off" => ~shouldRun /\ stopping = "no"

\* No socket ever carries auth.
NeverAuthenticated == ~authSent

SyncInv == SyncTypeOK /\ ConnectedHasSocket /\ StopIsOver /\ NeverAuthenticated

LEMMA TaskFacts == Periodic \in Tasks /\ NoRooms \in RoomStates /\ 0 \in 0..MaxLosses
  BY ConstantsAssumption, SMT DEF Periodic, Tasks, NoRooms, RoomStates

\* The initial state satisfies the invariant.
LEMMA SyncInitHolds == SyncInit => SyncInv
<1> SUFFICES ASSUME SyncInit PROVE SyncInv
  OBVIOUS
<1>1. task \in [Tasks -> {"idle", "waiting", "collecting", "read"}]  BY DEF SyncInit
<1>2. snap \in [Tasks -> RoomStates]  BY TaskFacts DEF SyncInit
<1>3. SyncTypeOK  BY <1>1, <1>2, TaskFacts DEF SyncInit, SyncTypeOK
<1> QED  BY <1>3 DEF SyncInit, SyncInv, ConnectedHasSocket, StopIsOver, NeverAuthenticated

\* The steps of the connection preserve the types.
LEMMA ConnectionTyped ==
  ASSUME SyncTypeOK, StopIsOver,
         \/ Start \/ Turn \/ Wake \/ Connect \/ ConnectFails \/ LinkDies
         \/ RecvEnds \/ Closed \/ StopBegins \/ StopEnds
  PROVE  SyncTypeOK'
<1> USE DEF reports, SyncTypeOK
<1>1. CASE Start        BY <1>1, TaskFacts DEF Start, StopIsOver
<1>2. CASE Turn         BY <1>2 DEF Turn
<1>3. CASE Wake         BY <1>3 DEF Wake
<1>4. CASE Connect      BY <1>4 DEF Connect
<1>5. CASE ConnectFails
  <2>1. losses' \in 0..MaxLosses  BY <1>5, ConstantsAssumption DEF ConnectFails
  <2> QED  BY <1>5, <2>1 DEF ConnectFails
<1>6. CASE LinkDies
  <2>1. losses' \in 0..MaxLosses  BY <1>6, ConstantsAssumption DEF LinkDies
  <2> QED  BY <1>6, <2>1 DEF LinkDies
<1>7. CASE RecvEnds     BY <1>7 DEF RecvEnds
<1>8. CASE Closed       BY <1>8 DEF Closed
<1>9. CASE StopBegins   BY <1>9, TaskFacts DEF StopBegins
<1>10. CASE StopEnds    BY <1>10 DEF StopEnds
<1> QED  BY <1>1, <1>2, <1>3, <1>4, <1>5, <1>6, <1>7, <1>8, <1>9, <1>10

\* So do the changes of the rooms.
LEMMA ChangesTyped ==
  ASSUME SyncTypeOK, ReportedChange \/ SilentChange \/ Command
  PROVE  SyncTypeOK'
<1>1. rooms \in RoomStates  BY DEF SyncTypeOK
<1>2. ASSUME rooms.version < MaxChanges
      PROVE  rooms.version + 1 \in 0..MaxChanges /\ rooms.version + 1 \in Tasks
  BY <1>1, <1>2, ConstantsAssumption DEF RoomStates, Tasks
<1>3. CASE ReportedChange
  <2>1. rooms' \in RoomStates  BY <1>2, <1>3 DEF ReportedChange, RoomStates
  <2>2. task' \in [Tasks -> {"idle", "waiting", "collecting", "read"}]
    BY <1>2, <1>3 DEF ReportedChange, SyncTypeOK
  <2> QED  BY <1>3, <2>1, <2>2 DEF ReportedChange, SyncTypeOK, connection
<1>4. CASE SilentChange
  <2>1. rooms' \in RoomStates  BY <1>1, <1>2, <1>4 DEF SilentChange, RoomStates
  <2> QED  BY <1>4, <2>1 DEF SilentChange, SyncTypeOK, connection, reports
<1>5. CASE Command
  <2>1. rooms' \in RoomStates  BY <1>2, <1>5 DEF Command, RoomStates
  <2> QED  BY <1>5, <2>1 DEF Command, SyncTypeOK, connection, reports
<1> QED  BY <1>3, <1>4, <1>5

\* And the reports.
LEMMA ReportTyped ==
  ASSUME SyncTypeOK, NEW t \in Tasks, Report(t)
  PROVE  SyncTypeOK'
<1>1. Rest(t) \in {"idle", "waiting"}  BY DEF Rest
<1>2. CASE Due(t)      BY <1>1, <1>2 DEF Due, SyncTypeOK, connection
<1>3. CASE Collect(t)  BY <1>3 DEF Collect, SyncTypeOK, connection
<1>4. CASE Send(t)
  <2>1. reported' \in RoomStates  BY <1>4 DEF Send, SyncTypeOK
  <2> QED  BY <1>1, <1>4, <2>1 DEF Send, SyncTypeOK, connection
<1> QED  BY <1>2, <1>3, <1>4 DEF Report

\* Reports and changes leave the connection alone.
LEMMA ConnectionUntouched ==
  ASSUME ReportedChange \/ SilentChange \/ Command \/ \E t \in Tasks : Report(t)
  PROVE  UNCHANGED connection
  BY DEF ReportedChange, SilentChange, Command, Report, Due, Collect, Send

\* Every step preserves the invariant.
LEMMA SyncStepHolds == SyncInv /\ [SyncNext]_syncVars => SyncInv'
<1> SUFFICES ASSUME SyncInv, [SyncNext]_syncVars PROVE SyncInv'
  OBVIOUS
<1>1. SyncTypeOK'
  <2>1. CASE UNCHANGED syncVars  BY <2>1 DEF SyncInv, SyncTypeOK, syncVars, connection, reports
  <2>2. CASE SyncNext  BY <2>2, ConnectionTyped, ChangesTyped, ReportTyped DEF SyncInv, SyncNext
  <2> QED  BY <2>1, <2>2
<1>2. (ConnectedHasSocket /\ StopIsOver /\ NeverAuthenticated)'
  <2> USE DEF SyncInv, ConnectedHasSocket, StopIsOver, NeverAuthenticated, SyncTypeOK
  <2>1. CASE UNCHANGED connection  BY <2>1 DEF connection
  <2>2. CASE Start         BY <2>2 DEF Start
  <2>3. CASE Turn          BY <2>3 DEF Turn
  <2>4. CASE Wake          BY <2>4 DEF Wake
  <2>5. CASE Connect       BY <2>5, <1>1 DEF Connect, SyncTypeOK
  <2>6. CASE ConnectFails  BY <2>6 DEF ConnectFails
  <2>7. CASE LinkDies      BY <2>7 DEF LinkDies
  <2>8. CASE RecvEnds      BY <2>8 DEF RecvEnds
  <2>9. CASE Closed        BY <2>9 DEF Closed
  <2>10. CASE StopBegins   BY <2>10 DEF StopBegins
  <2>11. CASE StopEnds     BY <2>11 DEF StopEnds
  <2> QED
    BY <2>1, <2>2, <2>3, <2>4, <2>5, <2>6, <2>7, <2>8, <2>9, <2>10, <2>11, ConnectionUntouched
    DEF SyncNext, syncVars
<1> QED  BY <1>1, <1>2 DEF SyncInv

\* The inductive invariant holds in every reachable state.
THEOREM SyncInvariance == SyncSpec => []SyncInv
  BY SyncInitHolds, SyncStepHolds, PTL DEF SyncSpec

\* Every variable of the client keeps its type.
THEOREM SyncTypeCorrect == SyncSpec => []SyncTypeOK
  BY SyncInvariance, PTL DEF SyncInv

\* _connected (sync_client.py:269-302) is never set without a socket.
THEOREM ConnectedHasItsSocket == SyncSpec => []ConnectedHasSocket
  BY SyncInvariance, PTL DEF SyncInv

\* _send_auth (sync_client.py:329-342) is called before _connected is set, so
\* _send_json drops it: no connection is ever authenticated.
THEOREM AuthNeverSent == SyncSpec => []NeverAuthenticated
  BY SyncInvariance, PTL DEF SyncInv
=============================================================================
