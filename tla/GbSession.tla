------------------------------ MODULE GbSession -------------------------------
(***************************************************************************)
(* A GB28181 device at the SRS server.  It opens TCP connections for SIP    *)
(* (SrsGbSipTcpConn) and for its media (SrsGbMediaTcpConn); its first       *)
(* REGISTER makes a session (SrsGbSession), which drives its state every    *)
(* 300 ms from the states of the two transports it has at that time, invites *)
(* the device, invites it again when the media is gone, and ends when the    *)
(* device says goodbye or does not answer.  It interrupts its transports; the *)
(* coroutine of the resource manager frees it later, and until then a        *)
(* REGISTER or a packet with its SSRC still finds it.                        *)
(*                                                                          *)
(* The transports have raw pointers to the session; a session is named by   *)
(* the number of sessions there have been, 0 is none.  What a transport does *)
(* through the pointer of a freed session is undefined; its own state goes   *)
(* on as if the session were still there.                                   *)
(***************************************************************************)
EXTENDS Naturals

CONSTANTS
  Sips, Medias,   \* the TCP connections of the device
  None,           \* no connection
  MaxSessions,    \* bound: sessions of the device
  MaxTimeout      \* SRS_GB_MAX_TIMEOUT

ASSUME GbAssumption ==
  /\ None \notin Sips \cup Medias /\ Sips \cap Medias = {}
  /\ MaxSessions \in Nat /\ MaxTimeout \in Nat

VARIABLES
  ses,    \* the session: state_, its transports, nn_timeout_, reinviting_starttime_
  made,   \* how many sessions there have been
  sip,    \* each SIP connection: its receiver, state_ and session_
  media,  \* each media connection: its coroutine, connected_, session_, interrupted
  left    \* history: the connections whose session took another one in their place,
          \* or had ended when it took them: no session is going to interrupt them

vars == <<ses, made, sip, media, left>>

NoSession == [st |-> "none", sip |-> None, media |-> None, nn |-> 0,
              invited |-> FALSE, waits |-> FALSE]
Init ==
  /\ ses = NoSession /\ made = 0
  /\ sip = [c \in Sips |-> [at |-> "new", st |-> "init", session |-> 0]]
  /\ media = [m \in Medias |-> [at |-> "new", connected |-> FALSE, session |-> 0,
                                interrupted |-> FALSE]]
  /\ left = {}

Current == IF ses.st = "none" THEN 0 ELSE made

Alive == ses.st \in {"init", "connecting", "established"}
\* A session takes connection c in place of the connection it had.
Takes(c, had) == left' = left \cup ({had} \ {None}) \cup (IF Alive THEN {} ELSE {c})

\* SrsGbSipTcpConn::is_registered and the transports of the session.
Registered == {"registered", "inviting", "trying", "reinviting", "stable"}
SipState == sip[ses.sip].st
MediaUp == ses.media # None /\ media[ses.media].connected
-----------------------------------------------------------------------------
(* SIP.                                                                    *)

\* What a device may send: a REGISTER with an expiry or without, a heartbeat, the
\* answers to INVITE, BYE and the answer to BYE.
Messages == {"register", "unregister", "message", "trying", "invite_ok", "bye", "bye_ok"}

\* SrsGbSipTcpConn::drive_state, also of the INVITE the server sends.
Driven(st, m) ==
  CASE st = "init" /\ m = "register"                          -> "registered"
    [] st \in {"init", "stable"} /\ m = "unregister"          -> "bye"
    [] st = "init" /\ m = "message"                           -> "stable"
    [] st = "registered" /\ m = "invite"                      -> "inviting"
    [] st = "inviting" /\ m = "trying"                        -> "trying"
    [] st \in {"inviting", "trying"} /\ m = "invite_ok"       -> "stable"
    [] st = "stable" /\ m = "bye"                             -> "bye"
    [] st = "reinviting" /\ m = "bye_ok"                      -> "inviting"
    [] OTHER -> st

SipConnects(c) ==
  /\ sip[c].at = "new"
  /\ sip' = [sip EXCEPT ![c].at = "open"]
  /\ UNCHANGED <<ses, made, media, left>>

\* on_sip_message of a connection that has its session.
OnSip(c, m) ==
  /\ sip[c].at = "open" /\ sip[c].session # 0
  /\ sip' = [sip EXCEPT ![c].st = Driven(@, m)]
  /\ UNCHANGED <<ses, made, media, left>>

\* Mutant: the state of the former connection is not loaded.
BindsAfresh(c, m) ==
  /\ sip[c].at = "open" /\ sip[c].session = 0 /\ m \in {"register", "unregister"}
  /\ ses.st # "none"
  /\ ses' = [ses EXCEPT !.sip = c]
  /\ sip' = [sip EXCEPT ![c].session = made, ![c].st = Driven("init", m)]
  /\ Takes(c, ses.sip) /\ UNCHANGED <<made, media>>

\* bind_session: a REGISTER on a new connection makes a session, or takes over
\* the one there is, which may have ended, and the state of its SIP connection,
\* which goes on as it is.
Binds(c, m) ==
  /\ sip[c].at = "open" /\ sip[c].session = 0 /\ m \in {"register", "unregister"}
  /\ ses.st # "none"
  /\ ses' = [ses EXCEPT !.sip = c]
  /\ sip' = [sip EXCEPT ![c].session = made, ![c].st = Driven(SipState, m)]
  /\ Takes(c, ses.sip) /\ UNCHANGED <<made, media>>

Creates(c, m) ==
  /\ sip[c].at = "open" /\ sip[c].session = 0 /\ m \in {"register", "unregister"}
  /\ ses.st = "none" /\ made < MaxSessions
  /\ made' = made + 1
  /\ ses' = [NoSession EXCEPT !.st = "init", !.sip = c]
  /\ sip' = [sip EXCEPT ![c].session = made', ![c].st = Driven("init", m)]
  /\ UNCHANGED <<media, left>>

\* The receiver ends with the connection, and nobody is told.
SipCloses(c) ==
  /\ sip[c].at = "open"
  /\ sip' = [sip EXCEPT ![c].at = "closed"]
  /\ UNCHANGED <<ses, made, media, left>>
-----------------------------------------------------------------------------
(* Media.                                                                  *)

MediaConnects(m) ==
  /\ media[m].at = "new"
  /\ media' = [media EXCEPT ![m].at = "open"]
  /\ UNCHANGED <<ses, made, sip, left>>

\* bind_session: the first packet with the SSRC of the INVITE.
MediaBinds(m) ==
  /\ media[m].at = "open" /\ media[m].session = 0 /\ ses.invited
  /\ media' = [media EXCEPT ![m].session = made]
  /\ ses' = [ses EXCEPT !.media = m]
  /\ Takes(m, ses.media) /\ UNCHANGED <<made, sip>>

\* on_ps_pack hands the pack to the muxer of the session, which may wait for the
\* RTMP server it publishes to.
MediaPack(m) ==
  /\ media[m].at = "open" /\ media[m].session # 0
  /\ media' = [media EXCEPT ![m].connected = TRUE, ![m].at = "muxing"]
  /\ UNCHANGED <<ses, made, sip, left>>

\* An interrupt ends one such wait, and the loop when the pack is done.
MediaPacked(m) ==
  /\ media[m].at = "muxing"
  /\ media' = [media EXCEPT ![m].at = IF media[m].interrupted THEN "closed" ELSE "open",
                           ![m].connected = ~media[m].interrupted]
  /\ UNCHANGED <<ses, made, sip, left>>

MediaCloses(m) ==
  /\ media[m].at = "open"
  /\ media' = [media EXCEPT ![m].at = "closed", ![m].connected = FALSE]
  /\ UNCHANGED <<ses, made, sip, left>>
-----------------------------------------------------------------------------
(* The session, every 300 ms.  It first looks whether the device said bye.  *)

Drives(st) == ses.st = st /\ SipState # "bye"
\* What follows in the same call when the session has become connecting.
Connected(s, sipst) == s = "connecting" /\ sipst = "stable" /\ MediaUp

\* In the initial state: a device without media is invited, which in the state
\* of a registered SIP connection makes it inviting.
Invites ==
  LET invited == IF MediaUp THEN SipState ELSE Driven(SipState, "invite") IN
  /\ Drives("init") /\ SipState \in Registered
  /\ ses' = [ses EXCEPT !.st = IF Connected("connecting", invited) THEN "established"
                               ELSE "connecting",
                        !.invited = @ \/ ~MediaUp]
  /\ sip' = [sip EXCEPT ![ses.sip].st = invited]
  /\ UNCHANGED <<made, media, left>>

Establishes ==
  /\ Drives("connecting") /\ Connected("connecting", SipState)
  /\ ses' = [ses EXCEPT !.st = "established"]
  /\ UNCHANGED <<made, sip, media, left>>

\* Back to the start, with the SIP connection as it was after REGISTER.
Again(s) ==
  /\ ses' = [s EXCEPT !.st = "init"]
  /\ sip' = [sip EXCEPT ![ses.sip].st = "registered"]
  /\ UNCHANGED <<made, media, left>>

\* connecting_timeout_ has passed.  The count is never reset.
TimesOut ==
  /\ Drives("connecting") /\ ses.nn <= MaxTimeout
  /\ Again([ses EXCEPT !.nn = @ + 1])

\* The media of an established session is gone: it waits, and then starts again.
MissesMedia ==
  /\ Drives("established") /\ ~MediaUp /\ ~ses.waits
  /\ ses' = [ses EXCEPT !.waits = TRUE]
  /\ UNCHANGED <<made, sip, media, left>>

Reinvites ==
  /\ Drives("established") /\ ~MediaUp /\ ses.waits
  /\ Again([ses EXCEPT !.waits = FALSE])

\* Mutant: the media connection of a session that ends is left alone.
EndedSipOnly ==
  /\ ses' = [ses EXCEPT !.st = "ended"]
  /\ sip' = [sip EXCEPT ![ses.sip].at = "closed"]
  /\ UNCHANGED <<made, media, left>>

\* The end of cycle interrupts the transports the session has: what reads ends,
\* what waits in the muxer ends after it.
Ended ==
  /\ ses' = [ses EXCEPT !.st = "ended"]
  /\ sip' = [sip EXCEPT ![ses.sip].at = "closed"]
  /\ media' = [m \in Medias |->
       IF m # ses.media THEN media[m]
       ELSE IF media[m].at = "muxing" THEN [media[m] EXCEPT !.interrupted = TRUE]
       ELSE [media[m] EXCEPT !.at = "closed", !.connected = FALSE]]
  /\ UNCHANGED <<made, left>>

SaidBye == Alive /\ SipState = "bye" /\ Ended
\* No free SSRC for the INVITE, or no SDP.
InviteFails ==
  Drives("init") /\ SipState \in Registered /\ ~MediaUp /\ Ended
\* Mutant: the session tries for ever.
NeverGivesUp == Drives("connecting") /\ ses.nn > MaxTimeout /\ Again(ses)
GivesUp == Drives("connecting") /\ ses.nn > MaxTimeout /\ Ended

\* The coroutine of the manager frees the executor of the session, then the
\* session, which nobody can find any more.
Disposed ==
  /\ ses.st = "ended"
  /\ ses' = NoSession
  /\ UNCHANGED <<made, sip, media, left>>
-----------------------------------------------------------------------------
Drive ==
  \/ Invites \/ Establishes \/ TimesOut \/ MissesMedia \/ Reinvites
  \/ SaidBye \/ InviteFails \/ GivesUp
Next ==
  \/ \E c \in Sips :
       \/ SipConnects(c) \/ SipCloses(c)
       \/ \E m \in Messages : OnSip(c, m) \/ Binds(c, m) \/ Creates(c, m)
  \/ \E m \in Medias :
       MediaConnects(m) \/ MediaBinds(m) \/ MediaPack(m) \/ MediaPacked(m) \/ MediaCloses(m)
  \/ Drive \/ Disposed

Spec == Init /\ [][Next]_vars

\* The coroutine of the session runs every 300 ms and time passes; the one of the
\* manager is signalled when there is something to free.
FairSpec == Spec /\ WF_vars(Drive) /\ WF_vars(Disposed)
-----------------------------------------------------------------------------
(* Properties.                                                             *)

\* The state keeps its types.
SipConn == [at : {"new", "open", "closed"}, st : Registered \cup {"init", "bye"},
            session : 0..MaxSessions]
MediaConn == [at : {"new", "open", "muxing", "closed"}, connected : BOOLEAN,
              session : 0..MaxSessions, interrupted : BOOLEAN]
TypeOK ==
  /\ ses \in [st : {"none", "init", "connecting", "established", "ended"},
              sip : Sips \cup {None}, media : Medias \cup {None},
              nn : 0..(MaxTimeout + 1), invited : BOOLEAN, waits : BOOLEAN]
  /\ made \in 0..MaxSessions
  /\ sip \in [Sips -> SipConn] /\ media \in [Medias -> MediaConn]
  /\ left \subseteq Sips \cup Medias

SipInUse(c) == sip[c].at = "open"
MediaInUse(m) == media[m].at \in {"open", "muxing"}

\* "Session always lives longer than SIP and media, and session will dispose SIP
\* and media when session disposed" (srs_app_gb28181.hpp:93), where it is so: a
\* connection in use that has the pointer of a freed session was left behind for
\* another one, was taken by a session that had ended, or is still inside the
\* muxer, where its interrupt reached it.
SessionOutlives ==
  /\ \A c \in Sips : SipInUse(c) => sip[c].session \in {0, Current} \/ c \in left
  /\ \A m \in Medias :
       MediaInUse(m) =>
         \/ media[m].session \in {0, Current} \/ m \in left
         \/ media[m].at = "muxing" /\ media[m].interrupted

\* An established session was invited and answered, also after its media is gone:
\* a SIP connection taken over goes on in the state of the former one.
EstablishedIsAnswered ==
  ses.st = "established" /\ ses.sip # None => SipState \in {"stable", "bye"}

\* A device that has gone without a word is forgotten in the end, whatever state
\* its session was in.
GoneIsDisposed ==
  (\A c \in Sips : ~SipInUse(c)) /\ (\A m \in Medias : ~MediaInUse(m))
    ~> ses.st = "none" \/ (\E c \in Sips : SipInUse(c)) \/ (\E m \in Medias : MediaInUse(m))
=============================================================================
