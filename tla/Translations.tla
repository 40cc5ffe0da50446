----------------------------- MODULE Translations -----------------------------
(***************************************************************************)
(* The live translations of the rooms as server_fastapi.py runs them:      *)
(* TranslationManager's two tables, the operating system processes that    *)
(* translate, the handlers that start and stop them, the unpublish hook     *)
(* and the heartbeat checker.                                               *)
(*                                                                          *)
(* A handler is atomic up to its asyncio.sleep(1), which gives the process  *)
(* it has told to end the time to do so.  The process leaves its loop,      *)
(* stops its ffmpegs and disconnects before it is gone, which may take      *)
(* longer.  Time is counted in ticks of 20 s; the one second of a start is  *)
(* over before the next tick.                                               *)
(* The puller functions of TranslationManager have no caller on this server *)
(* and are left out.                                                        *)
(***************************************************************************)
EXTENDS Integers, FiniteSets

CONSTANTS Ids,       \* request ids, each handed out once
          Rooms,
          Sources,   \* speaking users
          Langs,     \* target languages
          Handlers,  \* concurrent POST /translation/start
          MaxTicks,  \* where since[] stops counting
          None

ASSUME TranslationsAssumption ==
  /\ MaxTicks \in Nat
  /\ None \notin Ids /\ None \notin Rooms \X Sources \X Langs

Keys == Rooms \X Sources \X Langs

\* The name under which SRS knows the speaker, and the name of the translated
\* stream, which has no room in it.
SourceStreams == Rooms \X Sources
SourceStream(k) == <<k[1], k[2]>>
StreamName(k) == <<k[2], k[3]>>

RequesterTimeout == 2   \* first tick after requester_heartbeat_timeout, 30 s

VARIABLES slot,       \* _requests: per room, source and language
          key,        \* the room, source and language of a request
          status,     \* status of a request, "none" when _requests_by_id lacks it
          since,      \* ticks since its last requester heartbeat, or its creation
          aged,       \* requests created more than source_stream_timeout ago
          issued,     \* ids that start_translation has returned
          running,    \* requests whose process runs and was not told to end;
                      \* translation_processes names these and those that
                      \* have exited by themselves
          ending,     \* requests whose process was told to end and still runs
          byStream,   \* translation_processes_by_stream
          handler     \* the key a sleeping start will start, or None

vars == <<slot, key, status, since, aged, issued, running, ending, byStream,
          handler>>
requests  == <<slot, key, status, issued>>
clocks    == <<since, aged>>
processes == <<running, ending, byStream>>

Init ==
  /\ slot = [k \in Keys |-> None]
  /\ key = [i \in Ids |-> None]
  /\ status = [i \in Ids |-> "none"]
  /\ since = [i \in Ids |-> 0]
  /\ aged = {}
  /\ issued = {}
  /\ running = {}
  /\ ending = {}
  /\ byStream = [s \in SourceStreams |-> None]
  /\ handler = [h \in Handlers |-> None]

Active(i) == status[i] = "active"

\* Bound of the model: a start leaves a fresh id for every sleeping handler.
IdsLeft == Cardinality(Ids \ issued) > Cardinality({h \in Handlers : handler[h] # None})

-----------------------------------------------------------------------------
(* Starting and stopping *)

\* stop_translation_service: SIGTERM to the process kept for the request, and
\* both process tables forget it.  The process still feeds its stream then.
StopService(i) ==
  /\ running' = running \ {i}
  /\ ending' = ending \cup ({i} \cap running)
  /\ byStream' = [s \in SourceStreams |-> IF byStream[s] = i THEN None ELSE byStream[s]]

\* stop_translation_by_request: nothing happens for an unknown id.
MarkStopped(i) ==
  status' = IF status[i] = "none" THEN status ELSE [status EXCEPT ![i] = "stopped"]

\* add_request replaces a stopped request of the slot and leaves its id known.
AddRequest(i, k) ==
  /\ slot' = [slot EXCEPT ![k] = i]
  /\ status' = [status EXCEPT ![i] = "active"]
  /\ key' = [key EXCEPT ![i] = k]

\* start_translation_service: Popen may fail, and then nothing is recorded.
StartService(i, k) ==
  \/ /\ running' = running \cup {i}
     /\ byStream' = [byStream EXCEPT ![SourceStream(k)] = i]
     /\ UNCHANGED ending
  \/ UNCHANGED processes

\* Mutant: the slot is overwritten though its translation is active.
CreateAlways(i, k) ==
  /\ i \notin issued
  /\ issued' = issued \cup {i}
  /\ AddRequest(i, k) /\ StartService(i, k)

\* TranslationManager.start_translation and the start of the process.  A slot
\* that is active again makes add_request return False; its result is ignored,
\* no process starts, and the fresh id is returned all the same.
Create(i, k) ==
  /\ i \notin issued
  /\ issued' = issued \cup {i}
  /\ IF slot[k] # None /\ Active(slot[k])
     THEN UNCHANGED <<slot, status, key, processes>>
     ELSE AddRequest(i, k) /\ StartService(i, k)

\* POST /translation/start for a slot that has never been used.
StartFirst(h, i, k) ==
  /\ IdsLeft
  /\ handler[h] = None
  /\ slot[k] = None
  /\ Create(i, k)
  /\ UNCHANGED <<clocks, handler>>

\* Mutant: only an active old translation is stopped.
StartReplacesActive(h, k) ==
  /\ IdsLeft
  /\ handler[h] = None
  /\ slot[k] # None
  /\ IF Active(slot[k])
     THEN StopService(slot[k]) /\ MarkStopped(slot[k])
     ELSE UNCHANGED <<processes, status>>
  /\ handler' = [handler EXCEPT ![h] = k]
  /\ UNCHANGED <<slot, key, issued, clocks>>

\* Otherwise the old translation, active or not, is stopped first, and the
\* handler sleeps.
StartReplaces(h, k) ==
  /\ IdsLeft
  /\ handler[h] = None
  /\ slot[k] # None
  /\ StopService(slot[k]) /\ MarkStopped(slot[k])
  /\ handler' = [handler EXCEPT ![h] = k]
  /\ UNCHANGED <<slot, key, issued, clocks>>

StartWakes(h, i) ==
  /\ handler[h] # None
  /\ Create(i, handler[h])
  /\ handler' = [handler EXCEPT ![h] = None]
  /\ UNCHANGED <<clocks>>

\* POST /translation/stop, by id or by the slot's current id.
Stop(i) ==
  /\ i \in issued
  /\ StopService(i) /\ MarkStopped(i)
  /\ UNCHANGED <<slot, key, issued, clocks, handler>>

\* POST /translation/heartbeat; a stopped request takes it too.
HeartbeatArrives(i) ==
  /\ status[i] # "none"
  /\ since' = [since EXCEPT ![i] = 0]
  /\ UNCHANGED <<requests, aged, processes, handler>>

-----------------------------------------------------------------------------
(* Hooks, clocks, processes *)

\* A source stops.  SRS posts no stream_key, and the hook it is configured to
\* call looks after players only; the hook that is given a stream_key stops the
\* one request kept for the stream.  on_publish changes nothing.
Unpublish(s) ==
  /\ byStream[s] # None
  /\ StopService(byStream[s]) /\ MarkStopped(byStream[s])
  /\ UNCHANGED <<slot, key, issued, clocks, handler>>

\* External: 20 seconds pass.
Tick ==
  /\ \A h \in Handlers : handler[h] = None
  /\ \E i \in Ids : Active(i) /\ since[i] < MaxTicks
  /\ since' = [i \in Ids |-> IF Active(i) /\ since[i] < MaxTicks THEN since[i] + 1 ELSE since[i]]
  /\ UNCHANGED <<requests, aged, processes, handler>>

\* External: half an hour has passed since the request was created.
BecomesAged(i) ==
  /\ Active(i)
  /\ \A h \in Handlers : handler[h] = None
  /\ i \notin aged
  /\ aged' = aged \cup {i}
  /\ UNCHANGED <<requests, since, processes, handler>>

\* External: a translation process ends by itself, and the tables keep it, or
\* is through with the shutdown it was told to make.
ProcessExits(i) ==
  /\ i \in running \cup ending
  /\ running' = running \ {i}
  /\ ending' = ending \ {i}
  /\ UNCHANGED <<requests, clocks, byStream, handler>>

\* Mutant: only a request whose process was started can time out.
SilentWhenRunning(i) == i \in running /\ since[i] >= RequesterTimeout

Silent(i) == since[i] >= RequesterTimeout

\* check_and_cleanup.  source_stream_active is never set on this server, so
\* the source timeout runs from the creation; and no stop callback is
\* registered, so no process is stopped.
Cleanup ==
  LET expired == {i \in Ids : Active(i) /\ (Silent(i) \/ i \in aged)}
  IN /\ expired # {}
     /\ status' = [i \in Ids |-> IF i \in expired THEN "stopped" ELSE status[i]]
     /\ UNCHANGED <<slot, key, issued, clocks, processes, handler>>

-----------------------------------------------------------------------------
Next ==
  \/ \E h \in Handlers, i \in Ids, k \in Keys : StartFirst(h, i, k)
  \/ \E h \in Handlers, k \in Keys : StartReplaces(h, k)
  \/ \E h \in Handlers, i \in Ids : StartWakes(h, i)
  \/ \E i \in Ids : Stop(i) \/ HeartbeatArrives(i) \/ BecomesAged(i) \/ ProcessExits(i)
  \/ \E s \in SourceStreams : Unpublish(s)
  \/ Tick \/ Cleanup

Spec == Init /\ [][Next]_vars

\* The checker is a thread that looks every ten seconds, time goes on, and
\* asyncio resumes a handler whose sleep is over.
Fairness == WF_vars(Cleanup) /\ WF_vars(Tick)
            /\ \A h \in Handlers : WF_vars(\E i \in Ids : StartWakes(h, i))

FairSpec == Spec /\ Fairness

-----------------------------------------------------------------------------
(* What must hold *)

TypeOK ==
  /\ slot \in [Keys -> Ids \cup {None}]
  /\ key \in [Ids -> Keys \cup {None}]
  /\ status \in [Ids -> {"none", "active", "stopped"}]
  /\ since \in [Ids -> 0..MaxTicks]
  /\ aged \subseteq Ids /\ issued \subseteq Ids
  /\ running \subseteq Ids /\ ending \subseteq Ids
  /\ byStream \in [SourceStreams -> Ids \cup {None}]
  /\ handler \in [Handlers -> Keys \cup {None}]

\* However starts, stops, timeouts and wake-ups interleave, the active request
\* of a room, source and language is the one the slot names, hence the only one.
ActiveIsInSlot == \A i \in Ids : Active(i) => slot[key[i]] = i

\* A process that nobody told to end is never out of reach: its request, active
\* or timed out, is the one its slot names, so that the next start of the slot
\* stops it (start_translation: kill the old translation).
ProcessIsInSlot == \A i \in running : slot[key[i]] = i

\* Two processes feed one translation stream, which is named after source and
\* language alone (translation_manager.py: stream_name), only when they work for
\* different rooms or when one of them was told to end: the one second that
\* start_translation gives the old process may be too short for it.
OneFeederPerRoom ==
  \A i, j \in running \cup ending :
    /\ i # j
    /\ StreamName(key[i]) = StreamName(key[j])
    => key[i][1] # key[j][1] \/ i \in ending \/ j \in ending

\* The request of a client that sends no more heartbeats stops being active,
\* whatever starts and stops go on around it (check_and_cleanup), unless a
\* heartbeat comes after all.  Its process is another matter: nothing tells it
\* to end before the next start or stop of its slot.
SilentIsInactive ==
  \A i \in Ids : Active(i) /\ since[i] > 0 ~> ~Active(i) \/ since[i] = 0
=============================================================================
