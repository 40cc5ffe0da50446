--------------------------- MODULE ChatRoomProofs ---------------------------
(***************************************************************************)
(* Proofs about one chat room, for any finite set of users and any limit.  *)
(***************************************************************************)
EXTENDS ChatRoom, FiniteSetTheorems, TLAPS

\* The recorded owner is a member with role owner.
Anchored == Exists => /\ room.owner \in Users
                      /\ member[room.owner].role = "owner"

\* A room that does not exist has no member records.
Empty == ~Exists => \A u \in Users : member[u].role = "none"

\* Status and publish flag agree, for strangers too.
Agree == \A u \in Users : member[u].publish <=> member[u].status = "normal"

\* A closed room has no record but the owner's.
Alone == room.status = "closed" => \A u \in Users \ {room.owner} : member[u].role = "none"

\* What every operation on the room keeps.
RoomType == room \in Room /\ member \in [Users -> User]
RoomInv  == RoomType /\ Anchored /\ Empty /\ Agree /\ Alone

\* The inductive invariant.
IInv == TypeOK /\ RoomInv /\ WithinCapacity

LEMMA MembersFinite == IsFiniteSet(Members) /\ Cardinality(Members) \in Nat
BY ChatRoomAssumption, FS_Subset, FS_CardinalityType DEF Members

\* The inductive invariant gives the properties of the specification.
LEMMA InvImplies ==
  ASSUME IInv
  PROVE  OwnerIsAnchored /\ PublishMatchesStatus /\ ClosedHoldsOnlyOwner
<1> USE DEF IInv, RoomInv, Members
<1>1. OwnerIsAnchored BY DEF OwnerIsAnchored, Anchored, NeedsRepair
<1>2. PublishMatchesStatus BY DEF PublishMatchesStatus, Agree
<1>3. ClosedHoldsOnlyOwner BY DEF ClosedHoldsOnlyOwner, Alone, Anchored, Exists
<1> QED BY <1>1, <1>2, <1>3

-----------------------------------------------------------------------------
(* Operations of the user manager keep RoomInv *)

LEMMA CreateKeeps ==
  ASSUME RoomInv, NEW u \in Users, ~Exists,
         room' = NewRoom(u), member' = [member EXCEPT ![u] = Fresh("owner")]
  PROVE  RoomInv' /\ Members' = {u}
<1> USE ChatRoomAssumption DEF RoomInv, RoomType, NewRoom, Absent, Fresh, Stranger, Room, User,
        UserRole, UserStatus, RoomStatus
<1>1. RoomType' OBVIOUS
<1>2. Anchored' /\ Empty' BY DEF Anchored, Empty, Exists
<1>3. Agree' BY DEF Agree
<1>4. Alone' BY DEF Alone
<1>5. Members' = {u} BY DEF Members, Empty
<1> QED BY <1>1, <1>2, <1>3, <1>4, <1>5

LEMMA JoinKeeps ==
  ASSUME RoomInv, WithinCapacity, NEW u \in Users, NEW role \in UserRole, JoinRoom(u, role)
  PROVE  RoomInv' /\ WithinCapacity'
<1> USE DEF RoomInv, RoomType
<1>1. CASE ~Exists
  <2>1. room' = NewRoom(u) /\ member' = [member EXCEPT ![u] = Fresh("owner")]
    BY <1>1 DEF JoinRoom
  <2>2. RoomInv' /\ Members' = {u} BY <1>1, <2>1, CreateKeeps
  <2> QED BY <2>2, FS_Singleton, ChatRoomAssumption DEF WithinCapacity
<1>2. CASE Exists /\ u \in Members
  <2>1. /\ room' = [room EXCEPT !.ownerStatus = IF u = room.owner THEN "online" ELSE @]
        /\ member' = member
    BY <1>2 DEF JoinRoom
  <2>2. RoomInv' BY <2>1 DEF Room, Anchored, Empty, Agree, Alone, Exists
  <2> QED BY <2>1, <2>2 DEF WithinCapacity, Members
<1>3. CASE Exists /\ u \notin Members
  <2>1. /\ room' = room
        /\ member' = [member EXCEPT ![u] = Fresh(role)]
        /\ Cardinality(Members) < MaxMembers
        /\ room.status # "closed"
    BY <1>3 DEF JoinRoom
  <2>2. u # room.owner BY <1>3 DEF Anchored, Members
  <2>3. RoomType' BY <2>1 DEF Fresh, Stranger, User, UserRole, UserStatus
  <2>4. Anchored' /\ Empty' /\ Agree' /\ Alone'
    BY <1>3, <2>1, <2>2 DEF Anchored, Empty, Agree, Alone, Exists, Fresh, Stranger
  <2>5. Members' = Members \cup {u}
    BY <2>1 DEF Members, Fresh, Stranger, UserRole
  <2>6. Cardinality(Members') = Cardinality(Members) + 1
    BY <1>3, <2>5, MembersFinite, FS_AddElement
  <2>7. WithinCapacity'
    BY <2>1, <2>6, MembersFinite, ChatRoomAssumption DEF WithinCapacity
  <2> QED BY <2>3, <2>4, <2>7
<1> QED BY <1>1, <1>2, <1>3

\* Fewer members stay within the limit.
LEMMA ShrinkKeepsCapacity ==
  ASSUME WithinCapacity, Members' \subseteq Members
  PROVE  WithinCapacity'
<1>1. Cardinality(Members') <= Cardinality(Members) BY MembersFinite, FS_Subset
<1>2. Cardinality(Members') \in Nat BY MembersFinite, FS_Subset, FS_CardinalityType
<1> QED BY <1>1, <1>2, MembersFinite, ChatRoomAssumption DEF WithinCapacity

LEMMA LeaveKeeps ==
  ASSUME RoomInv, NEW u \in Users, LeaveRoom(u)
  PROVE  RoomInv' /\ Members' \subseteq Members
<1> USE DEF RoomInv, RoomType
<1>1. CASE u = room.owner
  <2>1. room' = [room EXCEPT !.ownerStatus = "offline"] /\ member' = member
    BY <1>1 DEF LeaveRoom
  <2> QED BY <2>1 DEF Room, Anchored, Empty, Agree, Alone, Exists, Members
<1>2. CASE u # room.owner
  <2>1. room' = room /\ member' = [member EXCEPT ![u] = Stranger] /\ Exists
    BY <1>2 DEF LeaveRoom
  <2>2. RoomType' BY <2>1 DEF Stranger, User, UserStatus
  <2>3. Anchored' /\ Empty' /\ Agree' /\ Alone'
    BY <1>2, <2>1 DEF Anchored, Empty, Agree, Alone, Exists, Stranger
  <2>4. Members' \subseteq Members BY <2>1 DEF Members, Stranger
  <2> QED BY <2>2, <2>3, <2>4
<1> QED BY <1>1, <1>2

LEMMA RoleKeeps ==
  ASSUME RoomInv, NEW u \in Users, NEW role \in UserRole,
         Exists, u \in Members, UpdateUserRole(u, role)
  PROVE  RoomInv' /\ Members' \subseteq Members
<1> USE DEF RoomInv, RoomType
<1>1. CASE role = "owner" /\ u # room.owner
  <2>1. /\ member' = [member EXCEPT ![u].role = role, ![room.owner].role = "member"]
        /\ room' = [room EXCEPT !.owner = u]
    BY <1>1 DEF UpdateUserRole
  <2>2. room.owner \in Users /\ member[room.owner].role = "owner" BY DEF Anchored
  <2>3. room.status # "closed" BY <1>1 DEF Alone, Members
  <2>4. RoomType' BY <2>1, <2>2 DEF Room, User, UserRole
  <2>5. Anchored' /\ Empty' /\ Agree' /\ Alone'
    BY <1>1, <2>1, <2>2, <2>3 DEF Anchored, Empty, Agree, Alone, Exists, Room, User
  <2>6. Members' \subseteq Members BY <2>1, <2>2 DEF Members, User
  <2> QED BY <2>4, <2>5, <2>6
<1>2. CASE ~(role = "owner" /\ u # room.owner)
  <2>1. /\ room' = room
        /\ member' = [member EXCEPT ![u].role = role]
        /\ u = room.owner => role = "owner"
    BY <1>2 DEF UpdateUserRole
  <2>2. RoomType' BY <2>1 DEF User
  <2>3. Anchored' /\ Empty' /\ Agree'
    BY <2>1 DEF Anchored, Empty, Agree, Exists, User
  <2>4. Alone' BY <2>1 DEF Alone, Members, User
  <2>5. Members' \subseteq Members BY <2>1 DEF Members, User
  <2> QED BY <2>2, <2>3, <2>4, <2>5
<1> QED BY <1>1, <1>2

\* Muting and unmuting change no role.
LEMMA MuteKeeps ==
  ASSUME RoomInv, NEW op \in Users, NEW u \in Users,
         \/ MuteMember(op, u) \/ DisableMic(op, u) \/ UnmuteMember(op, u)
         \/ MuteAll(op) \/ UnmuteAll(op)
  PROVE  RoomInv' /\ Members' = Members
<1> USE DEF RoomInv, RoomType
<1>1. /\ RoomType' /\ Agree'
      /\ room'.owner = room.owner /\ room'.status = room.status
      /\ \A v \in Users : member'[v].role = member[v].role
  <2>1. CASE MuteMember(op, u)
    BY <2>1 DEF MuteMember, Silence, User, UserStatus, Agree
  <2>2. CASE DisableMic(op, u)
    BY <2>2 DEF DisableMic, Silence, User, UserStatus, Agree
  <2>3. CASE UnmuteMember(op, u)
    BY <2>3 DEF UnmuteMember, User, UserStatus, Agree
  <2>4. CASE MuteAll(op)
    BY <2>4 DEF MuteAll, Room, User, UserStatus, Agree
  <2>5. CASE UnmuteAll(op)
    BY <2>5 DEF UnmuteAll, Room, User, UserStatus, Agree
  <2> QED BY <2>1, <2>2, <2>3, <2>4, <2>5
<1>2. Anchored' /\ Empty' /\ Alone' BY <1>1 DEF Anchored, Empty, Alone, Exists
<1>3. Members' = Members BY <1>1 DEF Members
<1> QED BY <1>1, <1>2, <1>3

LEMMA CloseKeeps ==
  ASSUME RoomInv, Exists, CloseRoom
  PROVE  RoomInv' /\ Members' \subseteq Members
<1> USE DEF RoomInv, RoomType, CloseRoom
<1>1. RoomType' BY DEF Room, RoomStatus, User, UserStatus, Stranger
<1>2. /\ room'.owner = room.owner /\ room'.status = "closed"
      /\ \A v \in Users : member'[v] = IF v \in Others(room.owner) THEN Stranger ELSE member[v]
  BY DEF Room
<1>3. Anchored' /\ Empty' BY <1>2 DEF Anchored, Empty, Exists, Others
<1>4. Agree' BY <1>2 DEF Agree, Stranger
<1>5. Alone' BY <1>2 DEF Alone, Others, Members, Stranger
<1>6. Members' \subseteq Members BY <1>2 DEF Members, Stranger
<1> QED BY <1>1, <1>3, <1>4, <1>5, <1>6

LEMMA DropKeeps ==
  ASSUME RoomInv, DropRoom
  PROVE  RoomInv' /\ Members' \subseteq Members
<1> USE DEF RoomInv, RoomType, DropRoom, Absent, Stranger
<1>1. RoomType' BY DEF Room, User, UserStatus
<1>2. Anchored' /\ Empty' /\ Agree' /\ Alone' BY DEF Anchored, Empty, Agree, Alone, Exists
<1>3. Members' \subseteq Members BY DEF Members
<1> QED BY <1>1, <1>2, <1>3

-----------------------------------------------------------------------------
(* The inductive invariant *)

LEMMA InitIInv == Init => IInv
<1> SUFFICES ASSUME Init PROVE IInv OBVIOUS
<1> USE ChatRoomAssumption DEF Init, Absent, Stranger, NoCloser
<1>1. TypeOK BY DEF TypeOK, Room, User, UserStatus
<1>2. RoomInv
  BY <1>1 DEF TypeOK, RoomInv, RoomType, Anchored, Empty, Agree, Alone, Exists
<1>3. Members = {} BY DEF Members
<1>4. WithinCapacity BY <1>3, FS_EmptySet DEF WithinCapacity
<1> QED BY <1>1, <1>2, <1>4 DEF IInv

\* Steps that leave the room alone.
LEMMA RoomUnchanged ==
  ASSUME IInv, UNCHANGED <<room, member>>
  PROVE  RoomInv' /\ WithinCapacity'
BY DEF IInv, RoomInv, RoomType, Anchored, Empty, Agree, Alone, Exists, WithinCapacity, Members

\* The types of the remaining variables.
Rest == /\ busy \subseteq Resources
        /\ closer \in [stage : {"idle", "listing", "broadcast", "told"},
                       op : Users \cup {NoUser}]

LEMMA TypeParts == TypeOK <=> RoomType /\ Rest
BY DEF TypeOK, RoomType, Rest

LEMMA NextIInv == IInv /\ [Next]_vars => IInv'
<1> SUFFICES ASSUME IInv, [Next]_vars PROVE RoomInv' /\ WithinCapacity' /\ Rest'
  BY DEF IInv, RoomInv, TypeOK, RoomType, Rest
<1>r. RoomInv /\ WithinCapacity /\ Rest /\ RoomType BY TypeParts DEF IInv
<1>1. ASSUME NEW u \in Users, CreateRoom(u) PROVE RoomInv' /\ WithinCapacity' /\ Rest'
  <2>1. RoomInv' /\ Members' = {u} BY <1>1, <1>r, CreateKeeps DEF CreateRoom
  <2>2. WithinCapacity' BY <2>1, FS_Singleton, ChatRoomAssumption DEF WithinCapacity
  <2>3. Rest' BY <1>1, <1>r DEF CreateRoom, Rest
  <2> QED BY <2>1, <2>2, <2>3
<1>2. ASSUME NEW op \in Users, NEW u \in Users, NEW role \in UserRole,
             Join(u, role) \/ KnockAccept(op, u, role)
      PROVE  RoomInv' /\ WithinCapacity' /\ Rest'
  <2>1. JoinRoom(u, role) /\ UNCHANGED <<busy, closer>> BY <1>2 DEF Join, KnockAccept
  <2>2. Rest' BY <2>1, <1>r DEF JoinRoom, Rest
  <2> QED BY <2>1, <2>2, <1>r, JoinKeeps
<1>3. ASSUME NEW op \in Users, NEW u \in Users, Leave(u) \/ KickMember(op, u)
      PROVE  RoomInv' /\ WithinCapacity' /\ Rest'
  <2>1. LeaveRoom(u) /\ UNCHANGED <<busy, closer>> BY <1>3 DEF Leave, KickMember
  <2>2. Rest' BY <2>1, <1>r DEF LeaveRoom, Rest
  <2>3. RoomInv' /\ Members' \subseteq Members BY <2>1, <1>r, LeaveKeeps
  <2> QED BY <2>2, <2>3, <1>r, ShrinkKeepsCapacity
<1>4. ASSUME NEW op \in Users, NEW u \in Users, NEW role \in UserRole, SetMemberRole(op, u, role)
      PROVE  RoomInv' /\ WithinCapacity' /\ Rest'
  <2>1. RoomInv' /\ Members' \subseteq Members BY <1>4, <1>r, RoleKeeps DEF SetMemberRole
  <2>2. Rest' BY <1>4, <1>r DEF SetMemberRole, Rest
  <2> QED BY <2>1, <2>2, <1>r, ShrinkKeepsCapacity
<1>5. ASSUME NEW op \in Users, NEW u \in Users,
             \/ MuteMember(op, u) \/ DisableMic(op, u) \/ UnmuteMember(op, u)
             \/ MuteAll(op) \/ UnmuteAll(op)
      PROVE  RoomInv' /\ WithinCapacity' /\ Rest'
  <2>1. RoomInv' /\ Members' = Members BY <1>5, <1>r, MuteKeeps
  <2>2. UNCHANGED <<busy, closer>>
    BY <1>5 DEF MuteMember, DisableMic, UnmuteMember, MuteAll, UnmuteAll
  <2> QED BY <2>1, <2>2, <1>r, ShrinkKeepsCapacity DEF Rest
<1>6. ASSUME NEW op \in Users, DeleteBegins(op) PROVE RoomInv' /\ WithinCapacity' /\ Rest'
  <2>1. Rest' BY <1>6, <1>r DEF DeleteBegins, Rest
  <2> QED BY <1>6, <2>1, RoomUnchanged DEF DeleteBegins
<1>7. CASE DeleteRefused \/ DeleteBroadcasts \/ DeleteCloses
  <2>1. Rest'
    <3>1. CASE DeleteRefused BY <1>r, <3>1 DEF DeleteRefused, Rest, NoCloser
    <3>2. CASE DeleteBroadcasts BY <1>r, <3>2 DEF DeleteBroadcasts, Rest
    <3>3. CASE DeleteCloses BY <1>r, <3>3 DEF DeleteCloses, Rest
    <3> QED BY <1>7, <3>1, <3>2, <3>3
  <2> QED BY <1>7, <2>1, RoomUnchanged DEF DeleteRefused, DeleteBroadcasts, DeleteCloses
<1>8. CASE DeleteEnds
  <2>1. Rest' BY <1>8, <1>r DEF DeleteEnds, CloseRoom, Rest, NoCloser
  <2>2. CASE Exists
    <3>1. RoomInv' /\ Members' \subseteq Members BY <1>8, <2>2, <1>r, CloseKeeps DEF DeleteEnds
    <3> QED BY <2>1, <3>1, <1>r, ShrinkKeepsCapacity
  <2>3. CASE ~Exists BY <1>8, <2>1, <2>3, RoomUnchanged DEF DeleteEnds
  <2> QED BY <2>2, <2>3
<1>9. CASE DropRoom
  <2>1. RoomInv' /\ Members' \subseteq Members BY <1>9, <1>r, DropKeeps
  <2>2. Rest' BY <1>9, <1>r DEF DropRoom, Rest
  <2> QED BY <2>1, <2>2, <1>r, ShrinkKeepsCapacity
<1>10. ASSUME NEW r \in Resources, StreamChanges(r) PROVE RoomInv' /\ WithinCapacity' /\ Rest'
  <2>1. Rest' BY <1>10, <1>r DEF StreamChanges, Rest
  <2> QED BY <1>10, <2>1, RoomUnchanged DEF StreamChanges
<1>11. CASE UNCHANGED vars
  <2>1. Rest' BY <1>11, <1>r DEF vars, Rest
  <2> QED BY <1>11, <2>1, RoomUnchanged DEF vars
<1> QED BY <1>1, <1>2, <1>3, <1>4, <1>5, <1>6, <1>7, <1>8, <1>9, <1>10, <1>11 DEF Next

THEOREM Invariance == Spec => []IInv
BY InitIInv, NextIInv, PTL DEF Spec

-----------------------------------------------------------------------------
(* Results *)

\* Every variable keeps its type.
THEOREM RoomTypeCorrect == Spec => []TypeOK
<1>1. IInv => TypeOK BY DEF IInv
<1> QED BY <1>1, Invariance, PTL

\* An existing room always has its recorded owner as a member with role owner,
\* so _repair_room_if_needed never rewrites a room.
THEOREM OwnerNeverLost == Spec => []OwnerIsAnchored
BY InvImplies, Invariance, PTL

\* The publish flag and the displayed status never disagree.
THEOREM PublishFollowsStatus == Spec => []PublishMatchesStatus
BY InvImplies, Invariance, PTL

\* No sequence of joins, knocks and transfers exceeds max_members.
THEOREM NeverOverfull == Spec => []WithinCapacity
<1>1. IInv => WithinCapacity BY DEF IInv
<1> QED BY <1>1, Invariance, PTL

\* A closed room holds its owner and nobody else.
THEOREM ClosedStaysEmpty == Spec => []ClosedHoldsOnlyOwner
BY InvImplies, Invariance, PTL

\* A closed room is never reopened and never changes hands.
THEOREM ClosedNeverReopens == Spec => ClosedIsFinal
<1> DEFINE Final == room.status = "closed" => \/ room'.status = "absent"
                                              \/ room'.status = "closed" /\ room'.owner = room.owner
<1>1. IInv /\ [Next]_vars => [Final]_vars
  <2> SUFFICES ASSUME IInv, Next, room.status = "closed" PROVE Final OBVIOUS
  <2> USE DEF IInv, TypeOK, RoomInv, Room, Absent
  <2>1. ASSUME NEW op \in Users, NEW u \in Users, NEW role \in UserRole, SetMemberRole(op, u, role)
        PROVE  Final
    <3>1. u = room.owner BY <2>1 DEF SetMemberRole, Alone, Members
    <3> QED BY <2>1, <3>1 DEF SetMemberRole, UpdateUserRole
  <2>2. ASSUME NEW op \in Users, NEW u \in Users,
               Leave(u) \/ KickMember(op, u)
        PROVE  Final
    BY <2>2 DEF Leave, KickMember, LeaveRoom
  <2>3. ASSUME NEW op \in Users, NEW u \in Users,
               \/ MuteMember(op, u) \/ DisableMic(op, u) \/ UnmuteMember(op, u)
               \/ MuteAll(op) \/ UnmuteAll(op)
        PROVE  Final
    BY <2>3 DEF MuteMember, DisableMic, UnmuteMember, MuteAll, UnmuteAll
  <2>4. ASSUME NEW op \in Users, NEW u \in Users, NEW role \in UserRole,
               CreateRoom(u) \/ Join(u, role) \/ KnockAccept(op, u, role)
        PROVE  Final
    BY <2>4 DEF CreateRoom, Join, KnockAccept, JoinRoom, Exists
  <2>5. CASE DeleteEnds BY <2>5 DEF DeleteEnds, CloseRoom
  <2>6. CASE DropRoom BY <2>6 DEF DropRoom
  <2>7. CASE DeleteRefused \/ DeleteBroadcasts \/ DeleteCloses
    BY <2>7 DEF DeleteRefused, DeleteBroadcasts, DeleteCloses
  <2>8. ASSUME NEW op \in Users, DeleteBegins(op) PROVE Final BY <2>8 DEF DeleteBegins
  <2>9. ASSUME NEW r \in Resources, StreamChanges(r) PROVE Final BY <2>9 DEF StreamChanges
  <2> QED BY <2>1, <2>2, <2>3, <2>4, <2>5, <2>6, <2>7, <2>8, <2>9 DEF Next, UserRole
<1>2. ClosedIsFinal <=> [][Final]_vars BY DEF ClosedIsFinal
<1> QED BY <1>1, <1>2, Invariance, PTL DEF Spec

\* Whoever owns the room before and after a step is not silenced by it.
THEOREM OwnerKeepsVoice == Spec => OwnerNeverSilenced
<1> DEFINE Kept == room.owner \in Users /\ room'.owner = room.owner =>
                     member'[room.owner].status \in {member[room.owner].status, "normal"}
<1>1. IInv /\ [Next]_vars => [Kept]_vars
  <2> SUFFICES ASSUME IInv, Next, room.owner \in Users, room'.owner = room.owner
               PROVE  member'[room.owner].status \in {member[room.owner].status, "normal"}
    OBVIOUS
  <2> USE DEF IInv, RoomInv, RoomType, User
  <2>1. ASSUME NEW op \in Users, NEW u \in Users, NEW role \in UserRole,
               SetMemberRole(op, u, role) \/ Join(u, role) \/ KnockAccept(op, u, role)
        PROVE  member'[room.owner].status \in {member[room.owner].status, "normal"}
    <3>1. CASE SetMemberRole(op, u, role) BY <3>1 DEF SetMemberRole, UpdateUserRole
    <3>2. CASE JoinRoom(u, role) BY <3>2 DEF JoinRoom, Fresh, Stranger
    <3> QED BY <2>1, <3>1, <3>2 DEF Join, KnockAccept
  <2>2. ASSUME NEW op \in Users, NEW u \in Users, CreateRoom(u) \/ Leave(u) \/ KickMember(op, u)
        PROVE  member'[room.owner].status \in {member[room.owner].status, "normal"}
    BY <2>2 DEF CreateRoom, Leave, KickMember, LeaveRoom, Fresh, Stranger
  <2>3. ASSUME NEW op \in Users, NEW u \in Users,
               MuteMember(op, u) \/ DisableMic(op, u) \/ UnmuteMember(op, u)
        PROVE  member'[room.owner].status \in {member[room.owner].status, "normal"}
    BY <2>3 DEF MuteMember, DisableMic, UnmuteMember, Silence
  <2>4. ASSUME NEW op \in Users, MuteAll(op) \/ UnmuteAll(op)
        PROVE  member'[room.owner].status \in {member[room.owner].status, "normal"}
    <3>1. CASE MuteAll(op) BY <3>1 DEF MuteAll, Others
    <3>2. CASE UnmuteAll(op) BY <3>2 DEF UnmuteAll
    <3> QED BY <2>4, <3>1, <3>2
  <2>5. CASE DeleteEnds \/ DropRoom
    BY <2>5 DEF DeleteEnds, CloseRoom, DropRoom, Others, Stranger
  <2>6. CASE DeleteRefused \/ DeleteBroadcasts \/ DeleteCloses
    BY <2>6 DEF DeleteRefused, DeleteBroadcasts, DeleteCloses
  <2>7. ASSUME NEW op \in Users, DeleteBegins(op)
        PROVE  member'[room.owner].status \in {member[room.owner].status, "normal"}
    BY <2>7 DEF DeleteBegins
  <2>8. ASSUME NEW r \in Resources, StreamChanges(r)
        PROVE  member'[room.owner].status \in {member[room.owner].status, "normal"}
    BY <2>8 DEF StreamChanges
  <2> QED BY <2>1, <2>2, <2>3, <2>4, <2>5, <2>6, <2>7, <2>8 DEF Next
<1>2. OwnerNeverSilenced <=> [][Kept]_vars BY DEF OwnerNeverSilenced
<1> QED BY <1>1, <1>2, Invariance, PTL DEF Spec
=============================================================================
