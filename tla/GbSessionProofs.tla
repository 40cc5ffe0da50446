--------------------------- MODULE GbSessionProofs -----------------------------
(***************************************************************************)
(* Proofs about the sessions of a GB28181 device, for any sets of           *)
(* connections, any number of sessions and any limit on timeouts.           *)
(***************************************************************************)
EXTENDS GbSession, TLAPS

SipStates == Registered \cup {"init", "bye"}
Session ==
  [st : {"none", "init", "connecting", "established", "ended"},
   sip : Sips \cup {None}, media : Medias \cup {None},
   nn : 0..(MaxTimeout + 1), invited : BOOLEAN, waits : BOOLEAN]

\* There is a session as long as it is not freed, and it has a SIP connection.
SessionIs ==
  /\ ses.st = "none" => ~ses.invited
  /\ ses.st # "none" => made > 0 /\ ses.sip \in Sips /\ sip[ses.sip].session = made

\* A connection is bound by what it receives.
NewIsUnbound ==
  /\ \A c \in Sips : sip[c].at = "new" => sip[c].session = 0
  /\ \A m \in Medias : media[m].at = "new" => media[m].session = 0

\* A connection that is in use and bound was left behind, is the one of a session
\* that is alive, or has its interrupt.
SipHeld ==
  \A c \in Sips : SipInUse(c) /\ sip[c].session # 0 =>
    c \in left \/ (Alive /\ c = ses.sip /\ sip[c].session = made)
MediaHeld ==
  \A m \in Medias : MediaInUse(m) /\ media[m].session # 0 =>
    \/ m \in left
    \/ Alive /\ m = ses.media /\ media[m].session = made
    \/ media[m].at = "muxing" /\ media[m].interrupted

IInv ==
  TypeOK /\ SessionIs /\ NewIsUnbound /\ SipHeld /\ MediaHeld /\ EstablishedIsAnswered

LEMMA HeldOutlives == IInv => SessionOutlives
BY GbAssumption DEF IInv, TypeOK, SipHeld, MediaHeld, SessionOutlives, Current, Alive

\* The state of a SIP connection stays a state, and what follows an answered
\* INVITE is that or a bye.
LEMMA DrivenIs ==
  ASSUME NEW st \in SipStates, NEW m
  PROVE  /\ Driven(st, m) \in SipStates
         /\ st \in {"stable", "bye"} => Driven(st, m) \in {"stable", "bye"}
BY DEF SipStates, Registered, Driven

LEMMA InitIInv == Init => IInv
<1> SUFFICES ASSUME Init PROVE IInv OBVIOUS
<1> USE GbAssumption DEF Init, NoSession
<1>1. TypeOK
  <2>1. sip \in [Sips -> SipConn] BY DEF SipConn
  <2>2. media \in [Medias -> MediaConn] BY DEF MediaConn
  <2>3. ses \in Session BY DEF Session
  <2> QED BY <2>1, <2>2, <2>3 DEF TypeOK, Session
<1>2. SessionIs /\ NewIsUnbound BY DEF SessionIs, NewIsUnbound
<1>3. SipHeld /\ MediaHeld BY DEF SipHeld, MediaHeld, SipInUse, MediaInUse
<1>4. EstablishedIsAnswered BY DEF EstablishedIsAnswered
<1> QED BY <1>1, <1>2, <1>3, <1>4 DEF IInv

-----------------------------------------------------------------------------
(* SIP.                                                                    *)

\* What a step on a SIP connection c leaves as it is.
LEMMA SipChanged ==
  ASSUME IInv, NEW c \in Sips, NEW r \in SipConn, sip' = [sip EXCEPT ![c] = r]
  PROVE  /\ sip' \in [Sips -> SipConn] /\ sip'[c] = r
         /\ \A d \in Sips \ {c} : sip'[d] = sip[d]
BY DEF IInv, TypeOK

LEMMA MediaChanged ==
  ASSUME IInv, NEW m \in Medias, NEW r \in MediaConn, media' = [media EXCEPT ![m] = r]
  PROVE  /\ media' \in [Medias -> MediaConn] /\ media'[m] = r
         /\ \A d \in Medias \ {m} : media'[d] = media[d]
BY DEF IInv, TypeOK

\* A connection that opens, closes or changes its state without being bound.
LEMMA SipKeeps ==
  ASSUME IInv, NEW c \in Sips, NEW r \in SipConn, sip' = [sip EXCEPT ![c] = r],
         UNCHANGED <<ses, made, media, left>>, r.session = sip[c].session,
         r.st = sip[c].st \/ (sip[c].st \in {"stable", "bye"} => r.st \in {"stable", "bye"}),
         r.at # "new", r.at = "open" => sip[c].at \in {"new", "open"}
  PROVE  IInv'
<1> USE DEF IInv
<1>1. /\ sip' \in [Sips -> SipConn] /\ sip'[c] = r
      /\ \A d \in Sips \ {c} : sip'[d] = sip[d]
  BY SipChanged
<1>2. TypeOK' BY <1>1 DEF TypeOK
<1>3. SessionIs' BY <1>1 DEF SessionIs
<1>4. NewIsUnbound' BY <1>1 DEF NewIsUnbound
<1>5. SipHeld' BY <1>1 DEF SipHeld, SipInUse, Alive, NewIsUnbound
<1>6. MediaHeld' BY DEF MediaHeld, MediaInUse, Alive
<1>7. EstablishedIsAnswered' BY <1>1 DEF EstablishedIsAnswered, SipState, SessionIs
<1> QED BY <1>2, <1>3, <1>4, <1>5, <1>6, <1>7

LEMMA SipStep ==
  ASSUME IInv, NEW c \in Sips, NEW m \in Messages,
         SipConnects(c) \/ SipCloses(c) \/ OnSip(c, m)
  PROVE  IInv'
<1>1. sip[c] \in SipConn BY DEF IInv, TypeOK
<1>2. CASE SipConnects(c)
  <2> DEFINE r == [sip[c] EXCEPT !.at = "open"]
  <2>1. sip' = [sip EXCEPT ![c] = r] /\ UNCHANGED <<ses, made, media, left>> /\ sip[c].at = "new"
    BY <1>2 DEF SipConnects
  <2>2. r \in SipConn /\ r.session = sip[c].session /\ r.st = sip[c].st /\ r.at = "open"
    BY <1>1 DEF SipConn
  <2> QED BY <2>1, <2>2, SipKeeps
<1>3. CASE SipCloses(c)
  <2> DEFINE r == [sip[c] EXCEPT !.at = "closed"]
  <2>1. sip' = [sip EXCEPT ![c] = r] /\ UNCHANGED <<ses, made, media, left>>
    BY <1>3 DEF SipCloses
  <2>2. r \in SipConn /\ r.session = sip[c].session /\ r.st = sip[c].st /\ r.at = "closed"
    BY <1>1 DEF SipConn
  <2> QED BY <2>1, <2>2, SipKeeps
<1>4. CASE OnSip(c, m)
  <2> DEFINE r == [sip[c] EXCEPT !.st = Driven(sip[c].st, m)]
  <2>1. sip' = [sip EXCEPT ![c] = r] /\ UNCHANGED <<ses, made, media, left>> /\ sip[c].at = "open"
    BY <1>4 DEF OnSip
  <2>2. sip[c].st \in SipStates BY <1>1 DEF SipConn, SipStates
  <2>3. /\ Driven(sip[c].st, m) \in SipStates
        /\ sip[c].st \in {"stable", "bye"} => Driven(sip[c].st, m) \in {"stable", "bye"}
    BY <2>2, DrivenIs
  <2>4. r \in SipConn /\ r.session = sip[c].session /\ r.st = Driven(sip[c].st, m) /\ r.at = sip[c].at
    BY <1>1, <2>3 DEF SipConn, SipStates
  <2> HIDE DEF r
  <2> QED BY <2>1, <2>3, <2>4, SipKeeps
<1> QED BY <1>2, <1>3, <1>4

LEMMA BindsKeeps ==
  ASSUME IInv, NEW c \in Sips, NEW m \in Messages, Binds(c, m)
  PROVE  IInv'
<1> USE DEF IInv
<1> DEFINE st == Driven(SipState, m)
           r  == [sip[c] EXCEPT !.session = made, !.st = st]
<1>1. /\ sip[c] \in SipConn /\ sip[c].at = "open" /\ sip[c].session = 0 /\ ses.st # "none"
      /\ ses' = [ses EXCEPT !.sip = c] /\ sip' = [sip EXCEPT ![c] = r]
      /\ UNCHANGED <<made, media>>
  BY DEF Binds, TypeOK
<1>2. SipState \in SipStates BY <1>1 DEF SessionIs, SipState, TypeOK, SipConn, SipStates
<1>3. st \in SipStates /\ (SipState \in {"stable", "bye"} => st \in {"stable", "bye"})
  BY <1>2, DrivenIs
<1>4. r \in SipConn /\ r.at = "open" /\ r.session = made /\ r.st = st
  BY <1>1, <1>3 DEF SipConn, SipStates, TypeOK
<1>5. ses' \in Session /\ ses'.sip = c /\ ses'.st = ses.st /\ ses'.media = ses.media
      /\ ses'.invited = ses.invited
  BY <1>1 DEF TypeOK, Session
<1> HIDE DEF r, st
<1>6. /\ sip' \in [Sips -> SipConn] /\ sip'[c] = r
      /\ \A d \in Sips \ {c} : sip'[d] = sip[d]
  BY <1>1, <1>4, SipChanged
<1>7. /\ ses.sip \in left' \/ ses.sip = None
      /\ \A x \in left : x \in left'
      /\ ~Alive => c \in left'
      /\ left' \subseteq Sips \cup Medias
  BY DEF Binds, Takes, TypeOK
<1>8. TypeOK' BY <1>1, <1>5, <1>6, <1>7 DEF TypeOK, Session
<1>9. SessionIs' /\ NewIsUnbound'
  BY <1>1, <1>4, <1>5, <1>6 DEF SessionIs, NewIsUnbound
<1>10. SipHeld'
  BY <1>1, <1>4, <1>5, <1>6, <1>7, GbAssumption DEF SipHeld, SipInUse, Alive
<1>11. MediaHeld' BY <1>1, <1>5, <1>7 DEF MediaHeld, MediaInUse, Alive
<1>12. EstablishedIsAnswered'
  BY <1>1, <1>3, <1>4, <1>5, <1>6, GbAssumption DEF EstablishedIsAnswered, SipState, SessionIs
<1> QED BY <1>8, <1>9, <1>10, <1>11, <1>12

LEMMA CreatesKeeps ==
  ASSUME IInv, NEW c \in Sips, NEW m \in Messages, Creates(c, m)
  PROVE  IInv'
<1> USE DEF IInv
<1> DEFINE st == Driven("init", m)
           r  == [sip[c] EXCEPT !.session = made + 1, !.st = st]
<1>0. sip[c] \in SipConn /\ made \in Nat BY DEF TypeOK
<1>1. /\ sip[c] \in SipConn /\ sip[c].at = "open" /\ sip[c].session = 0 /\ ses.st = "none"
      /\ made' = made + 1 /\ made' \in 0..MaxSessions /\ made' > 0
      /\ ses' = [NoSession EXCEPT !.st = "init", !.sip = c] /\ sip' = [sip EXCEPT ![c] = r]
      /\ UNCHANGED <<media, left>>
  <2>1. made < MaxSessions /\ made' = made + 1 BY DEF Creates
  <2>2. made' \in 0..MaxSessions /\ made' > 0 BY <2>1, <1>0, GbAssumption
  <2>3. sip' = [sip EXCEPT ![c] = r] BY <2>1 DEF Creates
  <2> QED BY <2>1, <2>2, <2>3, <1>0 DEF Creates
<1>2. st \in SipStates BY DrivenIs DEF SipStates
<1>3. r \in SipConn /\ r.at = "open" /\ r.session = made'
  BY <1>1, <1>2 DEF SipConn, SipStates
<1>4. ses' \in Session /\ ses'.sip = c /\ ses'.st = "init" /\ ses'.media = None
      /\ ~ses'.invited
  <2>1. NoSession \in Session BY GbAssumption DEF NoSession, Session
  <2> QED BY <1>1, <2>1 DEF NoSession, Session
<1> HIDE DEF r, st
<1>5. /\ sip' \in [Sips -> SipConn] /\ sip'[c] = r
      /\ \A d \in Sips \ {c} : sip'[d] = sip[d]
  BY <1>1, <1>3, SipChanged
<1>6. TypeOK' BY <1>1, <1>4, <1>5 DEF TypeOK, Session
<1>7. SessionIs' /\ NewIsUnbound'
  BY <1>1, <1>3, <1>4, <1>5 DEF SessionIs, NewIsUnbound
<1>8. SipHeld' BY <1>1, <1>3, <1>4, <1>5 DEF SipHeld, SipInUse, Alive
<1>9. MediaHeld' BY <1>1, <1>4 DEF MediaHeld, MediaInUse, Alive
<1>10. EstablishedIsAnswered' BY <1>4 DEF EstablishedIsAnswered
<1> QED BY <1>6, <1>7, <1>8, <1>9, <1>10

-----------------------------------------------------------------------------
(* Media.                                                                  *)

\* A connection that opens, closes or carries a pack without being bound.
LEMMA MediaKeeps ==
  ASSUME IInv, NEW m \in Medias, NEW r \in MediaConn, media' = [media EXCEPT ![m] = r],
         UNCHANGED <<ses, made, sip, left>>, r.session = media[m].session, r.at # "new",
         r.at \in {"open", "muxing"} =>
           \/ media[m].at = "new"
           \/ MediaInUse(m) /\ (media[m].at = "muxing" => ~media[m].interrupted)
  PROVE  IInv'
<1> USE DEF IInv
<1>1. /\ media' \in [Medias -> MediaConn] /\ media'[m] = r
      /\ \A d \in Medias \ {m} : media'[d] = media[d]
  BY MediaChanged
<1>2. TypeOK' BY <1>1 DEF TypeOK
<1>3. SessionIs' /\ NewIsUnbound' BY <1>1 DEF SessionIs, NewIsUnbound
<1>4. SipHeld' BY DEF SipHeld, SipInUse, Alive
<1>5. MediaHeld' BY <1>1 DEF MediaHeld, MediaInUse, Alive, NewIsUnbound
<1>6. EstablishedIsAnswered' BY DEF EstablishedIsAnswered, SipState
<1> QED BY <1>2, <1>3, <1>4, <1>5, <1>6

LEMMA MediaBindsKeeps ==
  ASSUME IInv, NEW m \in Medias, MediaBinds(m)
  PROVE  IInv'
<1> USE DEF IInv
<1> DEFINE r == [media[m] EXCEPT !.session = made]
<1>1. /\ media[m] \in MediaConn /\ media[m].at = "open" /\ media[m].session = 0 /\ ses.invited
      /\ media' = [media EXCEPT ![m] = r] /\ ses' = [ses EXCEPT !.media = m]
      /\ UNCHANGED <<made, sip>>
  BY DEF MediaBinds, TypeOK
<1>2. r \in MediaConn /\ r.at = "open" /\ r.session = made BY <1>1 DEF MediaConn, TypeOK
<1>3. ses' \in Session /\ ses'.sip = ses.sip /\ ses'.st = ses.st /\ ses'.media = m
      /\ ses'.invited = ses.invited
  BY <1>1 DEF TypeOK, Session
<1> HIDE DEF r
<1>4. /\ media' \in [Medias -> MediaConn] /\ media'[m] = r
      /\ \A d \in Medias \ {m} : media'[d] = media[d]
  BY <1>1, <1>2, MediaChanged
<1>5. /\ ses.media \in left' \/ ses.media = None
      /\ \A x \in left : x \in left'
      /\ ~Alive => m \in left'
      /\ left' \subseteq Sips \cup Medias
  BY DEF MediaBinds, Takes, TypeOK
<1>6. TypeOK' BY <1>1, <1>3, <1>4, <1>5 DEF TypeOK, Session
<1>7. SessionIs' /\ NewIsUnbound'
  BY <1>1, <1>2, <1>3, <1>4 DEF SessionIs, NewIsUnbound
<1>8. SipHeld' BY <1>1, <1>3, <1>5 DEF SipHeld, SipInUse, Alive
<1>9. MediaHeld'
  BY <1>1, <1>2, <1>3, <1>4, <1>5, GbAssumption DEF MediaHeld, MediaInUse, Alive
<1>10. EstablishedIsAnswered' BY <1>1, <1>3 DEF EstablishedIsAnswered, SipState
<1> QED BY <1>6, <1>7, <1>8, <1>9, <1>10

LEMMA MediaStep ==
  ASSUME IInv, NEW m \in Medias,
         MediaConnects(m) \/ MediaBinds(m) \/ MediaPack(m) \/ MediaPacked(m) \/ MediaCloses(m)
  PROVE  IInv'
<1>1. media[m] \in MediaConn BY DEF IInv, TypeOK
<1>2. CASE MediaConnects(m)
  <2> DEFINE r == [media[m] EXCEPT !.at = "open"]
  <2>1. media' = [media EXCEPT ![m] = r] /\ UNCHANGED <<ses, made, sip, left>> /\ media[m].at = "new"
    BY <1>2 DEF MediaConnects
  <2>2. r \in MediaConn /\ r.session = media[m].session /\ r.at = "open" BY <1>1 DEF MediaConn
  <2> QED BY <2>1, <2>2, MediaKeeps
<1>3. CASE MediaPack(m)
  <2> DEFINE r == [media[m] EXCEPT !.connected = TRUE, !.at = "muxing"]
  <2>1. media' = [media EXCEPT ![m] = r] /\ UNCHANGED <<ses, made, sip, left>> /\ media[m].at = "open"
    BY <1>3 DEF MediaPack
  <2>2. r \in MediaConn /\ r.session = media[m].session /\ r.at = "muxing"
    BY <1>1 DEF MediaConn
  <2> HIDE DEF r
  <2> QED BY <2>1, <2>2, MediaKeeps DEF MediaInUse
<1>4. CASE MediaPacked(m)
  <2> DEFINE r == [media[m] EXCEPT !.at = IF media[m].interrupted THEN "closed" ELSE "open",
                                   !.connected = ~media[m].interrupted]
  <2>1. media' = [media EXCEPT ![m] = r] /\ UNCHANGED <<ses, made, sip, left>> /\ media[m].at = "muxing"
    BY <1>4 DEF MediaPacked
  <2>2. /\ r \in MediaConn /\ r.session = media[m].session
        /\ r.at = IF media[m].interrupted THEN "closed" ELSE "open"
    BY <1>1 DEF MediaConn
  <2> HIDE DEF r
  <2> QED BY <2>1, <2>2, MediaKeeps DEF MediaInUse
<1>5. CASE MediaCloses(m)
  <2> DEFINE r == [media[m] EXCEPT !.at = "closed", !.connected = FALSE]
  <2>1. media' = [media EXCEPT ![m] = r] /\ UNCHANGED <<ses, made, sip, left>>
    BY <1>5 DEF MediaCloses
  <2>2. r \in MediaConn /\ r.session = media[m].session /\ r.at = "closed" BY <1>1 DEF MediaConn
  <2> HIDE DEF r
  <2> QED BY <2>1, <2>2, MediaKeeps
<1> QED BY <1>2, <1>3, <1>4, <1>5, MediaBindsKeeps

-----------------------------------------------------------------------------
(* The session.                                                            *)

\* A step that drives the session and its SIP connection keeps their bond.
LEMMA DriveKeeps ==
  ASSUME IInv, NEW s \in Session, NEW st \in SipStates,
         Alive, ses' = s, s.st \in {"init", "connecting", "established"},
         s.sip = ses.sip, s.media = ses.media,
         sip' = [sip EXCEPT ![ses.sip].st = st], UNCHANGED <<made, media, left>>,
         s.st = "established" => st \in {"stable", "bye"}
  PROVE  IInv'
<1> USE DEF IInv
<1> DEFINE r == [sip[ses.sip] EXCEPT !.st = st]
<1>1. ses.sip \in Sips /\ sip[ses.sip] \in SipConn BY DEF SessionIs, TypeOK, Alive
<1>2. r \in SipConn /\ r.at = sip[ses.sip].at /\ r.session = sip[ses.sip].session /\ r.st = st
      /\ sip' = [sip EXCEPT ![ses.sip] = r]
  BY <1>1 DEF SipConn, SipStates
<1> HIDE DEF r
<1>3. /\ sip' \in [Sips -> SipConn] /\ sip'[ses.sip] = r
      /\ \A d \in Sips \ {ses.sip} : sip'[d] = sip[d]
  BY <1>1, <1>2, SipChanged
<1>4. TypeOK' BY <1>3 DEF TypeOK, Session
<1>5. NewIsUnbound' BY <1>1, <1>2, <1>3 DEF NewIsUnbound
<1>6. SessionIs' BY <1>1, <1>2, <1>3 DEF SessionIs, Alive
<1>7. SipHeld' BY <1>1, <1>2, <1>3 DEF SipHeld, SipInUse, Alive
<1>8. MediaHeld' BY DEF MediaHeld, MediaInUse, Alive
<1>9. EstablishedIsAnswered' BY <1>1, <1>2, <1>3 DEF EstablishedIsAnswered, SipState
<1> QED BY <1>4, <1>5, <1>6, <1>7, <1>8, <1>9

LEMMA EndedKeeps == ASSUME IInv, Alive, Ended PROVE IInv'
<1> USE DEF IInv
<1> DEFINE r == [sip[ses.sip] EXCEPT !.at = "closed"]
<1>1. ses.sip \in Sips /\ sip[ses.sip] \in SipConn BY DEF SessionIs, TypeOK, Alive
<1>2. r \in SipConn /\ r.at = "closed" /\ r.session = sip[ses.sip].session
      /\ sip' = [sip EXCEPT ![ses.sip] = r]
  BY <1>1 DEF SipConn, Ended
<1> HIDE DEF r
<1>3. /\ sip' \in [Sips -> SipConn] /\ sip'[ses.sip] = r
      /\ \A d \in Sips \ {ses.sip} : sip'[d] = sip[d]
  BY <1>1, <1>2, SipChanged
<1>4. /\ media' \in [Medias -> MediaConn]
      /\ \A d \in Medias \ {ses.media} : media'[d] = media[d]
      /\ ses.media \in Medias =>
           \/ media'[ses.media].at = "closed"
           \/ media'[ses.media].at = "muxing" /\ media'[ses.media].interrupted
  <2>1. \A d \in Medias : media[d] \in MediaConn BY DEF TypeOK
  <2>2. \A d \in Medias :
          /\ [media[d] EXCEPT !.interrupted = TRUE] \in MediaConn
          /\ [media[d] EXCEPT !.interrupted = TRUE].interrupted
          /\ [media[d] EXCEPT !.interrupted = TRUE].at = media[d].at
    BY <2>1 DEF MediaConn
  <2>3. \A d \in Medias :
          /\ [media[d] EXCEPT !.at = "closed", !.connected = FALSE] \in MediaConn
          /\ [media[d] EXCEPT !.at = "closed", !.connected = FALSE].at = "closed"
    BY <2>1 DEF MediaConn
  <2> QED BY <2>1, <2>2, <2>3 DEF Ended
<1>5. ses' = [ses EXCEPT !.st = "ended"] /\ UNCHANGED <<made, left>> BY DEF Ended
<1>6. ses' \in Session /\ ses'.st = "ended" /\ ses'.sip = ses.sip BY <1>5 DEF TypeOK, Session
<1>7. TypeOK' BY <1>3, <1>4, <1>5, <1>6 DEF TypeOK, Session
<1>8. SessionIs' /\ NewIsUnbound'
  BY <1>1, <1>2, <1>3, <1>4, <1>5, <1>6 DEF SessionIs, NewIsUnbound, Alive
<1>9. SipHeld' BY <1>2, <1>3, <1>5, <1>6 DEF SipHeld, SipInUse
<1>10. MediaHeld' BY <1>4, <1>5, <1>6 DEF MediaHeld, MediaInUse
<1>11. EstablishedIsAnswered' BY <1>6 DEF EstablishedIsAnswered
<1> QED BY <1>7, <1>8, <1>9, <1>10, <1>11

LEMMA DisposedKeeps == ASSUME IInv, Disposed PROVE IInv'
<1> USE DEF IInv
<1>1. ses.st = "ended" /\ ses' = NoSession /\ UNCHANGED <<made, sip, media, left>>
  BY DEF Disposed
<1>2. NoSession \in Session /\ NoSession.st = "none" /\ ~NoSession.invited
  BY GbAssumption DEF NoSession, Session
<1>3. TypeOK' BY <1>1, <1>2 DEF TypeOK, Session
<1>4. SessionIs' /\ NewIsUnbound' BY <1>1, <1>2 DEF SessionIs, NewIsUnbound
<1>5. SipHeld' /\ MediaHeld'
  BY <1>1, <1>2 DEF SipHeld, MediaHeld, SipInUse, MediaInUse, Alive
<1>6. EstablishedIsAnswered' BY <1>1, <1>2 DEF EstablishedIsAnswered
<1> QED BY <1>3, <1>4, <1>5, <1>6

LEMMA DriveStep == ASSUME IInv, Drive PROVE IInv'
<1>0. ses \in Session /\ (ses.st # "none" => ses.sip \in Sips /\ sip[ses.sip] \in SipConn)
  BY DEF IInv, TypeOK, Session, SessionIs
<1>a. ASSUME Alive PROVE SipState \in SipStates /\ sip = [sip EXCEPT ![ses.sip].st = SipState]
  BY <1>0, <1>a DEF Alive, SipState, SipConn, SipStates, IInv, TypeOK
<1>1. CASE Invites
  <2> DEFINE st == IF MediaUp THEN SipState ELSE Driven(SipState, "invite")
             s  == [ses EXCEPT !.st = IF Connected("connecting", st) THEN "established"
                                      ELSE "connecting",
                               !.invited = ses.invited \/ ~MediaUp]
  <2>1. ses.st = "init" /\ Alive BY <1>1 DEF Invites, Drives, Alive
  <2>2. ses' = s /\ sip' = [sip EXCEPT ![ses.sip].st = st] /\ UNCHANGED <<made, media, left>>
    BY <1>1 DEF Invites
  <2>3. st \in SipStates BY <2>1, <1>a, DrivenIs
  <2>4. (MediaUp \in BOOLEAN) /\ (ses.invited \/ ~MediaUp) \in BOOLEAN
    BY <1>0 DEF Session, MediaUp, IInv, TypeOK, MediaConn
  <2>5. s \in Session /\ s.st \in {"connecting", "established"} /\ s.sip = ses.sip /\ s.media = ses.media
        /\ (s.st = "established" => st \in {"stable", "bye"})
    BY <1>0, <2>4 DEF Session, Connected
  <2> HIDE DEF s, st
  <2> QED BY <2>1, <2>2, <2>3, <2>5, DriveKeeps
<1>2. CASE Establishes
  <2> DEFINE s == [ses EXCEPT !.st = "established"]
  <2>1. Alive /\ ses' = s /\ UNCHANGED <<made, sip, media, left>> /\ SipState = "stable"
    BY <1>2 DEF Establishes, Drives, Connected, Alive
  <2>2. s \in Session /\ s.st = "established" /\ s.sip = ses.sip /\ s.media = ses.media
    BY <1>0 DEF Session
  <2> HIDE DEF s
  <2> QED BY <2>1, <2>2, <1>a, DriveKeeps
<1>3. CASE MissesMedia
  <2> DEFINE s == [ses EXCEPT !.waits = TRUE]
  <2>1. ses.st = "established" /\ Alive /\ ses' = s /\ UNCHANGED <<made, sip, media, left>>
    BY <1>3 DEF MissesMedia, Drives, Alive
  <2>2. s \in Session /\ s.st = ses.st /\ s.sip = ses.sip /\ s.media = ses.media
    BY <1>0 DEF Session
  <2>3. SipState \in {"stable", "bye"}
    BY <1>0, <2>1, GbAssumption DEF IInv, EstablishedIsAnswered
  <2> HIDE DEF s
  <2> QED BY <2>1, <2>2, <2>3, <1>a, DriveKeeps
<1>4. CASE TimesOut
  <2> DEFINE s == [ses EXCEPT !.nn = ses.nn + 1, !.st = "init"]
  <2>1. ses.nn + 1 \in 0..(MaxTimeout + 1) BY <1>0, <1>4, GbAssumption DEF TimesOut, Session
  <2>2. /\ Alive /\ ses' = s /\ sip' = [sip EXCEPT ![ses.sip].st = "registered"]
        /\ UNCHANGED <<made, media, left>>
    BY <1>0, <1>4 DEF TimesOut, Again, Drives, Alive, Session
  <2>3. s \in Session /\ s.st = "init" /\ s.sip = ses.sip /\ s.media = ses.media
    BY <1>0, <2>1 DEF Session
  <2> HIDE DEF s
  <2> QED BY <2>2, <2>3, DriveKeeps DEF SipStates, Registered
<1>6. CASE Reinvites
  <2> DEFINE s == [ses EXCEPT !.waits = FALSE, !.st = "init"]
  <2>1. /\ Alive /\ ses' = s /\ sip' = [sip EXCEPT ![ses.sip].st = "registered"]
        /\ UNCHANGED <<made, media, left>>
    BY <1>0, <1>6 DEF Reinvites, Again, Drives, Alive, Session
  <2>2. s \in Session /\ s.st = "init" /\ s.sip = ses.sip /\ s.media = ses.media
    BY <1>0 DEF Session
  <2> HIDE DEF s
  <2> QED BY <2>1, <2>2, DriveKeeps DEF SipStates, Registered
<1>5. CASE SaidBye \/ InviteFails \/ GivesUp
  BY <1>5, EndedKeeps DEF SaidBye, InviteFails, GivesUp, Drives, Alive
<1> QED BY <1>1, <1>2, <1>3, <1>4, <1>5, <1>6 DEF Drive

-----------------------------------------------------------------------------
(* Every step keeps the invariant.                                         *)

LEMMA NextIInv == ASSUME IInv, [Next]_vars PROVE IInv'
<1>1. CASE UNCHANGED vars
  <2>1. TypeOK' /\ SessionIs' /\ NewIsUnbound'
    BY <1>1 DEF vars, IInv, TypeOK, SessionIs, NewIsUnbound
  <2>2. SipHeld' /\ MediaHeld' /\ EstablishedIsAnswered'
    BY <1>1 DEF vars, IInv, SipHeld, MediaHeld, EstablishedIsAnswered, SipInUse, MediaInUse,
                Alive, SipState
  <2> QED BY <2>1, <2>2 DEF IInv
<1>2. ASSUME NEW c \in Sips, SipConnects(c) \/ SipCloses(c) PROVE IInv'
  BY <1>2, SipStep DEF Messages
<1> QED BY <1>1, <1>2, SipStep, BindsKeeps, CreatesKeeps, MediaStep, DriveStep, DisposedKeeps DEF Next

\* Every step of every device keeps the types, the bonds between a session and its
\* connections and the properties below, with any number of connections in use.
THEOREM GbInvariant == Spec => []IInv
<1>1. IInv /\ [Next]_vars => IInv' BY NextIInv
<1> QED BY InitIInv, <1>1, PTL DEF Spec

\* What has the pointer of a freed session (srs_app_gb28181.hpp:93) was left behind,
\* came too late, or has its interrupt (SrsGbSession::cycle).
THEOREM GbSessionOutlives == Spec => []SessionOutlives
BY GbInvariant, HeldOutlives, PTL

\* An established session was answered, over whatever connection
\* (SrsGbSipTcpConn::bind_session).
THEOREM GbEstablishedIsAnswered == Spec => []EstablishedIsAnswered
<1>1. IInv => EstablishedIsAnswered BY DEF IInv
<1> QED BY GbInvariant, <1>1, PTL
=============================================================================
