------------------------------ MODULE ChatRoom ------------------------------
(***************************************************************************)
(* One voice room of the chat server: the Room record of user_manager.py,  *)
(* its members, and the REST handlers and main-server commands that change *)
(* them.                                                                    *)
(*                                                                          *)
(* UserManager methods run under one lock and a handler yields the event   *)
(* loop only at an await, so a handler without an await between its check  *)
(* and its update is one action.  Closing a room is the exception: the     *)
(* owner check, the question to SRS, the broadcast and close_room are       *)
(* separated by awaits, and are steps of their own here.                    *)
(*                                                                          *)
(* Left out: room names and times, the write-only stream map and knock      *)
(* table, and the messages that follow a change (ChatSockets has those).    *)
(***************************************************************************)
EXTENDS Integers, FiniteSets

CONSTANTS Users,        \* user ids
          NoUser,       \* the empty owner_id
          MaxMembers,   \* Room.max_members
          Resources,    \* what can keep a room busy, of {"play", "publish"}
          SrsMayFail    \* whether the SRS API may be unreachable

ASSUME ChatRoomAssumption ==
  /\ NoUser \notin Users
  /\ MaxMembers \in Nat \ {0}
  /\ IsFiniteSet(Users)
  /\ SrsMayFail \in BOOLEAN

VARIABLES room,     \* the Room record; status "absent" when _rooms has no entry
          member,   \* Room.members; role "none" when the user is not in it
          busy,     \* streams and players that exist in SRS
          closer    \* the DELETE handler in progress

vars == <<room, member, busy, closer>>

UserRole   == {"owner", "admin", "member", "guest"}
UserStatus == {"normal", "muted", "mic_off"}
RoomStatus == {"active", "closed"}

User == [role : UserRole \cup {"none"}, status : UserStatus, publish : BOOLEAN]
Room == [owner : Users \cup {NoUser}, ownerStatus : {"online", "offline"},
         status : RoomStatus \cup {"absent"}, allowSpeak : BOOLEAN]

Stranger == [role |-> "none", status |-> "normal", publish |-> TRUE]
Absent   == [owner |-> NoUser, ownerStatus |-> "online", status |-> "absent",
             allowSpeak |-> TRUE]
NoCloser == [stage |-> "idle", op |-> NoUser]

Fresh(role)   == [Stranger EXCEPT !.role = role]
NewRoom(u)    == [Absent EXCEPT !.owner = u, !.status = "active"]
Exists        == room.status # "absent"
Members       == {u \in Users : member[u].role # "none"}
Others(owner) == Members \ {owner}

Init ==
  /\ room = Absent
  /\ member = [u \in Users |-> Stranger]
  /\ busy = {}
  /\ closer = NoCloser

-----------------------------------------------------------------------------
(* Permissions *)

CanManageMembers(op) == Exists /\ member[op].role \in {"owner", "admin"}

CanKick(op, u) ==
  /\ Exists
  /\ op # u
  /\ \/ op = room.owner
     \/ member[op].role = "admin" /\ member[u].role = "member"

\* The condition under which a read of the room would rewrite its owner.
NeedsRepair == /\ Exists
               /\ room.owner \notin Members
               /\ Members # {} \/ room.owner # NoUser

-----------------------------------------------------------------------------
(* Membership *)

CreateRoom(u) ==
  /\ ~Exists
  /\ room' = NewRoom(u)
  /\ member' = [member EXCEPT ![u] = Fresh("owner")]
  /\ UNCHANGED <<busy, closer>>

\* Mutant: the limit is compared with > instead of >=.
JoinRoomOneMore(u, role) ==
  /\ room.status # "closed"
  /\ \/ /\ ~Exists
        /\ room' = NewRoom(u)
        /\ member' = [member EXCEPT ![u] = Fresh("owner")]
     \/ /\ Exists /\ u \notin Members
        /\ Cardinality(Members) <= MaxMembers
        /\ member' = [member EXCEPT ![u] = Fresh(role)]
        /\ UNCHANGED room

\* join_room: the first user of a room that does not exist owns it, a member
\* only refreshes, a newcomer gets the role it asked for.
JoinRoom(u, role) ==
  /\ room.status # "closed"
  /\ \/ /\ ~Exists
        /\ room' = NewRoom(u)
        /\ member' = [member EXCEPT ![u] = Fresh("owner")]
     \/ /\ Exists /\ u \in Members
        /\ room' = [room EXCEPT !.ownerStatus = IF u = room.owner THEN "online" ELSE @]
        /\ UNCHANGED member
     \/ /\ Exists /\ u \notin Members
        /\ Cardinality(Members) < MaxMembers
        /\ member' = [member EXCEPT ![u] = Fresh(role)]
        /\ UNCHANGED room

\* POST /join.  A share link and an accepted invitation also end in
\* join_room, with role "member".
Join(u, role) == JoinRoom(u, role) /\ UNCHANGED <<busy, closer>>

\* POST /knock/accept: only the owner, with the role named in the request.
\* The knock table is popped and never consulted.
KnockAccept(op, u, role) ==
  /\ Exists
  /\ op = room.owner
  /\ JoinRoom(u, role)
  /\ UNCHANGED <<busy, closer>>

\* Mutant: the owner's record goes like any other.
LeaveRoomAll(u) ==
  /\ Exists
  /\ u \in Members
  /\ member' = [member EXCEPT ![u] = Stranger]
  /\ UNCHANGED room

\* leave_room: the owner's record stays as a placeholder.
LeaveRoom(u) ==
  /\ Exists
  /\ u \in Members
  /\ \/ /\ u = room.owner
        /\ room' = [room EXCEPT !.ownerStatus = "offline"]
        /\ UNCHANGED member
     \/ /\ u # room.owner
        /\ member' = [member EXCEPT ![u] = Stranger]
        /\ UNCHANGED room

\* POST /leave, and the main server's kick_user, which checks nothing.
Leave(u) == LeaveRoom(u) /\ UNCHANGED <<busy, closer>>

KickMember(op, u) ==
  /\ CanKick(op, u)
  /\ LeaveRoom(u)
  /\ UNCHANGED <<busy, closer>>

\* update_user_role: the owner keeps its role, and naming a new owner demotes
\* the old one to member.
UpdateUserRole(u, role) ==
  /\ ~(u = room.owner /\ role # "owner")
  /\ IF role = "owner" /\ u # room.owner
     THEN /\ member' = [member EXCEPT ![u].role = role, ![room.owner].role = "member"]
          /\ room' = [room EXCEPT !.owner = u]
     ELSE /\ member' = [member EXCEPT ![u].role = role]
          /\ UNCHANGED room

SetMemberRole(op, u, role) ==
  /\ Exists
  /\ op = room.owner
  /\ u \in Members
  /\ UpdateUserRole(u, role)
  /\ UNCHANGED <<busy, closer>>

-----------------------------------------------------------------------------
(* Muting.  The main server's mute_user and unmute_user have the effect of   *)
(* the owner's MuteMember and UnmuteMember.                                  *)

Silence(u, status) ==
  /\ u \in Members
  /\ u # room.owner
  /\ member' = [member EXCEPT ![u].status = status, ![u].publish = FALSE]

MuteMember(op, u) ==
  /\ CanManageMembers(op)
  /\ Silence(u, "muted")
  /\ UNCHANGED <<room, busy, closer>>

DisableMic(op, u) ==
  /\ CanManageMembers(op)
  /\ Silence(u, "mic_off")
  /\ UNCHANGED <<room, busy, closer>>

\* unmute_user and enable_mic are the same update: each also undoes the other's.
UnmuteMember(op, u) ==
  /\ CanManageMembers(op)
  /\ u \in Members
  /\ member' = [member EXCEPT ![u].status = "normal", ![u].publish = TRUE]
  /\ UNCHANGED <<room, busy, closer>>

\* Mutant: mute_all does not spare the owner.
MuteAllOwnerToo(op) ==
  /\ CanManageMembers(op)
  /\ room' = [room EXCEPT !.allowSpeak = FALSE]
  /\ member' = [u \in Users |->
                  IF u \in Members
                  THEN [member[u] EXCEPT !.status = "muted", !.publish = FALSE]
                  ELSE member[u]]
  /\ UNCHANGED <<busy, closer>>

MuteAll(op) ==
  /\ CanManageMembers(op)
  /\ room' = [room EXCEPT !.allowSpeak = FALSE]
  /\ member' = [u \in Users |->
                  IF u \in Others(room.owner)
                  THEN [member[u] EXCEPT !.status = "muted", !.publish = FALSE]
                  ELSE member[u]]
  /\ UNCHANGED <<busy, closer>>

UnmuteAll(op) ==
  /\ CanManageMembers(op)
  /\ room' = [room EXCEPT !.allowSpeak = TRUE]
  /\ member' = [u \in Users |->
                  IF member[u].status = "muted"
                  THEN [member[u] EXCEPT !.status = "normal", !.publish = TRUE]
                  ELSE member[u]]
  /\ UNCHANGED <<busy, closer>>

-----------------------------------------------------------------------------
(* Closing *)

\* DELETE /room up to its first await: the owner check, and the look at the
\* players and translations.  A busy room ends in 409 and changes nothing.
DeleteBegins(op) ==
  /\ closer = NoCloser
  /\ Exists
  /\ op = room.owner
  /\ "play" \notin busy
  /\ closer' = [closer EXCEPT !.stage = "listing", !.op = op]
  /\ UNCHANGED <<room, member, busy>>

\* SRS answers that somebody publishes: 409.
DeleteRefused ==
  /\ closer.stage = "listing"
  /\ "publish" \in busy
  /\ closer' = NoCloser
  /\ UNCHANGED <<room, member, busy>>

\* SRS lists no publisher, or cannot be asked, which _srs_list_streams turns
\* into an empty list; the handler goes on to the broadcast.
DeleteBroadcasts ==
  /\ closer.stage = "listing"
  /\ "publish" \notin busy \/ SrsMayFail
  /\ closer' = [closer EXCEPT !.stage = "broadcast"]
  /\ UNCHANGED <<room, member, busy>>

\* After the broadcast: the sockets still listed are told again and closed.
DeleteCloses ==
  /\ closer.stage = "broadcast"
  /\ closer' = [closer EXCEPT !.stage = "told"]
  /\ UNCHANGED <<room, member, busy>>

\* Mutant: the members stay in the closed room.
CloseRoomKeeps ==
  /\ room' = [room EXCEPT !.status = "closed", !.ownerStatus = "offline"]
  /\ UNCHANGED member

CloseRoom ==
  /\ room' = [room EXCEPT !.status = "closed", !.ownerStatus = "offline"]
  /\ member' = [u \in Users |-> IF u \in Others(room.owner) THEN Stranger ELSE member[u]]

\* After the last await: the player table entry is dropped and the room closed,
\* whatever it has become meanwhile.
DeleteEnds ==
  /\ closer.stage = "told"
  /\ IF Exists THEN CloseRoom ELSE UNCHANGED <<room, member>>
  /\ busy' = busy \ {"play"}
  /\ closer' = NoCloser

\* The main server's close_room command: the room is forgotten.
DropRoom ==
  /\ Exists
  /\ room' = Absent
  /\ member' = [u \in Users |-> Stranger]
  /\ UNCHANGED <<busy, closer>>

\* SRS hooks and streams: something starts or stops.
StreamChanges(r) ==
  /\ busy' = IF r \in busy THEN busy \ {r} ELSE busy \cup {r}
  /\ UNCHANGED <<room, member, closer>>

-----------------------------------------------------------------------------
Next ==
  \/ \E u \in Users : CreateRoom(u) \/ Leave(u)
  \/ \E u \in Users, role \in UserRole : Join(u, role)
  \/ \E op, u \in Users, role \in UserRole :
        KnockAccept(op, u, role) \/ SetMemberRole(op, u, role)
  \/ \E op, u \in Users :
        KickMember(op, u) \/ MuteMember(op, u) \/ DisableMic(op, u) \/ UnmuteMember(op, u)
  \/ \E op \in Users : MuteAll(op) \/ UnmuteAll(op) \/ DeleteBegins(op)
  \/ DeleteRefused \/ DeleteBroadcasts \/ DeleteCloses \/ DeleteEnds \/ DropRoom
  \/ \E r \in Resources : StreamChanges(r)

Spec == Init /\ [][Next]_vars

-----------------------------------------------------------------------------
(* What must hold *)

\* The room, its members and the handler in progress have their types.
TypeOK ==
  /\ room \in Room
  /\ member \in [Users -> User]
  /\ busy \subseteq Resources
  /\ closer \in [stage : {"idle", "listing", "broadcast", "told"},
                 op : Users \cup {NoUser}]

\* _repair_room_if_needed (user_manager.py:116) finds nothing to repair: every
\* existing room has its recorded owner among its members with role owner,
\* through transfers, departures, kicks, closing and re-creation.
OwnerIsAnchored ==
  Exists => /\ room.owner \in Members
            /\ member[room.owner].role = "owner"
            /\ ~NeedsRepair

\* can_publish reads publish_allowed while clients are shown status: the two
\* agree for every member after any mix of mute, mic and room-wide switches.
PublishMatchesStatus ==
  \A u \in Members : member[u].publish <=> member[u].status = "normal"

\* No way into the room (join, knock, share, re-creation) exceeds max_members.
WithinCapacity == Cardinality(Members) <= MaxMembers

\* close_room leaves the owner alone in the room and nobody gets in again.
ClosedHoldsOnlyOwner == room.status = "closed" => Members = {room.owner}

\* A closed room stays closed, with the same owner, until it is forgotten.
ClosedIsFinal ==
  [][room.status = "closed" => \/ room'.status = "absent"
                               \/ room'.status = "closed" /\ room'.owner = room.owner]_vars

\* Nobody silences the room's owner (user_manager.py: mute_user, disable_mic,
\* mute_all); its status only changes by becoming normal.
OwnerNeverSilenced ==
  [][room.owner \in Users /\ room'.owner = room.owner =>
       member'[room.owner].status \in {member[room.owner].status, "normal"}]_vars
=============================================================================
