---------------------------- MODULE GroupsProofs ----------------------------
(* Proofs about one group: its types, that an admin remains, that rows and  *)
(* rights follow membership, that the lockdown asked for holds, and that an *)
(* undisturbed vote counts once.                                           *)
EXTENDS Groups, FiniteSetTheorems, TLAPS

Ops == {"join", "leave", "role", "channel", "enter", "post", "enable", "vote", "earn",
        "profile"}

(* A request that is on its way to a step has the fields of its operation.  *)
LEMMA RequestKinds ==
  ASSUME NEW c \in Requests
  PROVE  /\ c.op \in Ops /\ c.user \in Users /\ c # Idle
         /\ c.op = "join" => c \in JoinCalls
         /\ c.op = "leave" => c \in LeaveCalls
         /\ c.op = "role" => c \in RoleCalls
         /\ c.op = "channel" => c \in ChannelCalls
         /\ c.op = "enter" => c \in EnterCalls
         /\ c.op = "post" => c \in PostCalls
         /\ c.op = "enable" => c \in EnableCalls
         /\ c.op = "vote" => c \in VoteCalls
         /\ c.op = "earn" => c \in EarnCalls
         /\ c.op = "profile" => c \in ProfileCalls
<1>1. c.op \in Ops /\ c.user \in Users
  BY DEF Ops, Requests, JoinCalls, LeaveCalls, RoleCalls, ChannelCalls, EnterCalls, PostCalls,
         EnableCalls, VoteCalls, EarnCalls, ProfileCalls
<1>2. c # Idle
  BY <1>1 DEF Idle, Ops
<1> QED
  BY <1>1, <1>2 DEF Requests, JoinCalls, LeaveCalls, RoleCalls, ChannelCalls, EnterCalls,
         PostCalls, EnableCalls, VoteCalls, EarnCalls, ProfileCalls

LEMMA Busy ==
  ASSUME TypeOK, NEW k \in Calls, call[k] # Idle
  PROVE  call[k] \in Requests
  BY DEF TypeOK

(* Beginning a request, and ending one, keeps the requests typed.           *)
LEMMA BeginTypes ==
  ASSUME TypeOK, NEW k \in Calls, NEW c \in Requests, Begin(k, c)
  PROVE  /\ call' \in [Calls -> Requests \cup {Idle}]
         /\ begun' \in 0..MaxCalls /\ clash' \subseteq Users \X {"seat", "vote"}
<1>1. call' \in [Calls -> Requests \cup {Idle}]
  BY DEF TypeOK, Begin
<1>2. begun' \in 0..MaxCalls
  BY BoundAssumption DEF TypeOK, Begin
<1>3. <<c.user, What(c.op)>> \in Users \X {"seat", "vote"}
  BY RequestKinds DEF What
<1>4. clash' \subseteq Users \X {"seat", "vote"}
  BY <1>3 DEF TypeOK, Begin
<1> QED BY <1>1, <1>2, <1>4

LEMMA DoneTypes ==
  ASSUME TypeOK, NEW k \in Calls, Done(k)
  PROVE  call' \in [Calls -> Requests \cup {Idle}]
  BY DEF TypeOK, Done

LEMMA ChangeTypes ==
  ASSUME TypeOK, NEW k \in Calls, NEW c \in Requests, call' = [call EXCEPT ![k] = c]
  PROVE  call' \in [Calls -> Requests \cup {Idle}]
  BY DEF TypeOK

(* Going on to another step of the same request.                           *)
LEMMA GoTypes ==
  ASSUME TypeOK, NEW k \in Calls, call[k] # Idle, NEW at, Go(k, at),
         \/ call[k].op \in {"join", "post"} /\ at = "write"
         \/ call[k].op = "leave" /\ at = "list"
         \/ call[k].op = "role" /\ at \in {"strip", "revoke", "save"}
         \/ call[k].op = "channel" /\ at = "admin"
         \/ call[k].op = "vote" /\ at \in {"log", "insert"}
         \/ call[k].op = "earn" /\ at = "log"
  PROVE  call' \in [Calls -> Requests \cup {Idle}]
<1> DEFINE c == [call[k] EXCEPT !.at = at]
<1>1. call[k] \in Requests
  BY Busy
<1>2. CASE call[k].op = "join" /\ at = "write"
  <2>1. call[k] \in JoinCalls BY <1>1, <1>2, RequestKinds
  <2>2. c \in JoinCalls BY <2>1, <1>2 DEF JoinCalls
  <2> QED BY <2>2, ChangeTypes DEF Go, Requests
<1>3. CASE call[k].op = "post" /\ at = "write"
  <2>1. call[k] \in PostCalls BY <1>1, <1>3, RequestKinds
  <2>2. c \in PostCalls BY <2>1, <1>3 DEF PostCalls
  <2> QED BY <2>2, ChangeTypes DEF Go, Requests
<1>4. CASE call[k].op = "leave" /\ at = "list"
  <2>1. call[k] \in LeaveCalls BY <1>1, <1>4, RequestKinds
  <2>2. c \in LeaveCalls BY <2>1, <1>4 DEF LeaveCalls
  <2> QED BY <2>2, ChangeTypes DEF Go, Requests
<1>5. CASE call[k].op = "role" /\ at \in {"strip", "revoke", "save"}
  <2>1. call[k] \in RoleCalls BY <1>1, <1>5, RequestKinds
  <2>2. c \in RoleCalls BY <2>1, <1>5 DEF RoleCalls
  <2> QED BY <2>2, ChangeTypes DEF Go, Requests
<1>6. CASE call[k].op = "channel" /\ at = "admin"
  <2>1. call[k] \in ChannelCalls BY <1>1, <1>6, RequestKinds
  <2>2. c \in ChannelCalls BY <2>1, <1>6 DEF ChannelCalls
  <2> QED BY <2>2, ChangeTypes DEF Go, Requests
<1>7. CASE call[k].op = "vote" /\ at \in {"log", "insert"}
  <2>1. call[k] \in VoteCalls BY <1>1, <1>7, RequestKinds
  <2>2. c \in VoteCalls BY <2>1, <1>7 DEF VoteCalls
  <2> QED BY <2>2, ChangeTypes DEF Go, Requests
<1>8. CASE call[k].op = "earn" /\ at = "log"
  <2>1. call[k] \in EarnCalls BY <1>1, <1>8, RequestKinds
  <2>2. c \in EarnCalls BY <2>1, <1>8 DEF EarnCalls
  <2> QED BY <2>2, ChangeTypes DEF Go, Requests
<1> QED BY <1>2, <1>3, <1>4, <1>5, <1>6, <1>7, <1>8
---------------------------------------------------------------------------
(* The requests begin with all their fields.                               *)
LEMMA RequestTypes ==
  ASSUME TypeOK, NEW k \in Calls, Request(k)
  PROVE  TypeOK'
<1> USE DEF seats, rooms, lockdown, polls
<1>1. ASSUME NEW u \in Users, JoinFind(k, u) PROVE TypeOK'
  <2>1. [op |-> "join", user |-> u, at |-> "gate", lock |-> 0] \in Requests
    BY DEF Requests, JoinCalls
  <2> QED BY <1>1, <2>1, BeginTypes DEF JoinFind, TypeOK
<1>2. ASSUME NEW u \in Users, LeaveFind(k, u) PROVE TypeOK'
  <2>1. member[u].row \in Nat \ {0}
    BY <1>2 DEF LeaveFind, IsMember, TypeOK, Seats
  <2>2. [op |-> "leave", user |-> u, at |-> "remove", row |-> member[u].row, seen |-> {}]
          \in Requests
    BY <2>1 DEF Requests, LeaveCalls
  <2> QED BY <1>2, <2>2, BeginTypes DEF LeaveFind, TypeOK
<1>3. ASSUME NEW u \in Users, NEW role \in Roles, RoleFind(k, u, role) PROVE TypeOK'
  <2> DEFINE c == [op |-> "role", user |-> u, row |-> member[u].row, role |-> role,
                   then |-> AfterCount(member[u].role, role), seen |-> {},
                   at |-> IF member[u].role = "admin" /\ role # "admin" THEN "count"
                          ELSE AfterCount(member[u].role, role)]
  <2>1. member[u].row \in Nat \ {0}
    BY <1>3 DEF RoleFind, IsMember, TypeOK, Seats
  <2>2. AfterCount(member[u].role, role) \in {"strip", "save"}
    BY DEF AfterCount
  <2>3. c \in RoleCalls
    BY <2>1, <2>2 DEF RoleCalls
  <2>4. c \in Requests
    BY <2>3 DEF Requests
  <2>5. Begin(k, c) /\ UNCHANGED <<seats, rooms, lockdown, polls>>
    BY <1>3 DEF RoleFind, RoleBegin
  <2> QED BY <2>4, <2>5, BeginTypes DEF TypeOK
<1>4. ASSUME NEW u \in Users, NEW c \in Channels, NEW type \in {"group", "broadcast"},
             ChannelCheck(k, u, c, type)
      PROVE  TypeOK'
  <2>1. [op |-> "channel", user |-> u, channel |-> c, type |-> type, at |-> "save"] \in Requests
    BY DEF Requests, ChannelCalls
  <2> QED BY <1>4, <2>1, BeginTypes DEF ChannelCheck, TypeOK
<1>5. ASSUME NEW u \in Users, NEW c \in Channels, EnterCheck(k, u, c) PROVE TypeOK'
  <2>1. [op |-> "enter", user |-> u, channel |-> c, at |-> "write"] \in Requests
    BY DEF Requests, EnterCalls
  <2> QED BY <1>5, <2>1, BeginTypes DEF EnterCheck, TypeOK
<1>6. ASSUME NEW u \in Users, NEW c \in Channels, PostCheck(k, u, c) PROVE TypeOK'
  <2>1. [op |-> "post", user |-> u, channel |-> c, at |-> "gate", lock |-> 0] \in Requests
    BY DEF Requests, PostCalls
  <2> QED BY <1>6, <2>1, BeginTypes DEF PostCheck, TypeOK
<1>7. ASSUME NEW u \in Users, NEW p \in Proposals, VoteFind(k, u, p) PROVE TypeOK'
  <2>1. [op |-> "vote", user |-> u, proposal |-> p, at |-> "load", score |-> 0] \in Requests
    BY DEF Requests, VoteCalls
  <2> QED BY <1>7, <2>1, BeginTypes DEF VoteFind, VoteBegin, TypeOK
<1>8. ASSUME NEW u \in Users, NEW mode \in Modes, EnableFind(k, u, mode) PROVE TypeOK'
  <2>1. {l.id : l \in locks} \in SUBSET Nat
    BY DEF TypeOK, Locks
  <2>2. [op |-> "enable", user |-> u, mode |-> mode, at |-> "save",
         found |-> {l.id : l \in locks}] \in EnableCalls
    BY <2>1 DEF EnableCalls
  <2>3. [op |-> "enable", user |-> u, mode |-> mode, at |-> "save",
         found |-> {l.id : l \in locks}] \in Requests
    BY <2>2 DEF Requests
  <2>4. relocked' \in BOOLEAN
    BY <1>8 DEF EnableFind, TypeOK
  <2> QED BY <1>8, <2>3, <2>4, BeginTypes DEF EnableFind, TypeOK
<1>9. ASSUME NEW u \in Users, EarnFind(k, u) PROVE TypeOK'
  <2>1. [op |-> "earn", user |-> u, at |-> "load", score |-> 0] \in Requests
    BY DEF Requests, EarnCalls
  <2> QED BY <1>9, <2>1, BeginTypes DEF EarnFind, TypeOK
<1>10. ASSUME NEW u \in Users, ProfileFind(k, u) PROVE TypeOK'
  <2>1. [op |-> "profile", user |-> u, at |-> "store", score |-> score[u]] \in Requests
    BY DEF Requests, ProfileCalls, TypeOK
  <2> QED BY <1>10, <2>1, BeginTypes DEF ProfileFind, TypeOK
<1> QED BY <1>1, <1>2, <1>3, <1>4, <1>5, <1>6, <1>7, <1>8, <1>9, <1>10 DEF Request
---------------------------------------------------------------------------
(* Every await of a request keeps the types.                               *)
LEMMA AwaitTypes ==
  ASSUME TypeOK, NEW k \in Calls, Await(k)
  PROVE  TypeOK'
<1> USE DEF seats, rooms, lockdown, polls
<1>0. call[k] # Idle /\ call[k] \in Requests
  <2>1. call[k] # Idle
    BY DEF Await, GetLockdown, ClearLockdown, JoinInsert, LeaveRemove, LeaveList, LeaveRows,
       RoleCount, RoleList, RoleRevoke, RoleSave, ChannelSave, ChannelAdmin, RowInsert,
       EnableSave, ReputationLoad, ReputationScore, ReputationLog, VoteInsert, ProfileSave, At
  <2> QED BY <2>1, Busy, SMTT(40)
<1>u. call[k].user \in Users
  BY <1>0, RequestKinds
<1>1. CASE GetLockdown(k)
  <2>1. call[k].op \in {"join", "post"}
    BY <1>0, <1>1, RequestKinds DEF GetLockdown, JoinCalls, LeaveCalls, RoleCalls, ChannelCalls,
       EnterCalls, PostCalls, EnableCalls, VoteCalls, EarnCalls, ProfileCalls, Ops
  <2>2. ASSUME NEW l \in locks,
               call' = [call EXCEPT ![k] = [@ EXCEPT !.at = "clear", !.lock = l.id]]
        PROVE  call' \in [Calls -> Requests \cup {Idle}]
    <3>1. l.id \in Nat BY DEF TypeOK, Locks
    <3>2. call[k] \in JoinCalls \/ call[k] \in PostCalls BY <1>0, <2>1, RequestKinds
    <3>3. [call[k] EXCEPT !.at = "clear", !.lock = l.id] \in JoinCalls \cup PostCalls
      BY <3>1, <3>2 DEF JoinCalls, PostCalls
    <3>4. [call[k] EXCEPT !.at = "clear", !.lock = l.id] \in Requests
      BY <3>3 DEF Requests
    <3> QED BY <2>2, <3>4, ChangeTypes
  <2>3. call' \in [Calls -> Requests \cup {Idle}]
    BY <1>0, <1>1, <2>1, <2>2, GoTypes, DoneTypes DEF GetLockdown
  <2>4. relocked' \in BOOLEAN
    BY <1>1 DEF GetLockdown, TypeOK
  <2> QED BY <1>1, <2>3, <2>4 DEF GetLockdown, TypeOK
<1>2. CASE ClearLockdown(k)
  <2>1. call[k].op \in {"join", "post"}
    BY <1>0, <1>2, RequestKinds DEF ClearLockdown, JoinCalls, LeaveCalls, RoleCalls,
       ChannelCalls, EnterCalls, PostCalls, EnableCalls, VoteCalls, EarnCalls, ProfileCalls, Ops
  <2> QED BY <1>0, <1>2, <2>1, GoTypes DEF ClearLockdown, TypeOK
<1>3. CASE JoinInsert(k)
  <2>1. joined + 1 \in Nat \ {0} BY DEF TypeOK
  <2>2. [role |-> "member", row |-> joined + 1] \in Seats
    BY <2>1 DEF Seats, Roles
  <2>3. /\ member \in [Users -> Seats \cup {NoSeat}] /\ joined \in Nat
        /\ \A u \in Users : member[u].row \in Nat /\ member[u].row <= joined
    BY DEF TypeOK, Seats, NoSeat
  <2>4. CASE UNCHANGED seats
    BY <1>3, <2>3, <2>4, DoneTypes DEF JoinInsert, TypeOK, seats
  <2>5. CASE /\ joined' = joined + 1
             /\ member' = [member EXCEPT ![call[k].user] = [role |-> "member", row |-> joined']]
             /\ UNCHANGED <<gone, unguarded>>
    <3>1. member' \in [Users -> Seats \cup {NoSeat}] /\ joined' \in Nat
      BY <2>1, <2>2, <2>3, <2>5
    <3>2. ASSUME NEW u \in Users PROVE member'[u].row <= joined'
      <4>1. member'[u] = IF u = call[k].user THEN [role |-> "member", row |-> joined + 1]
                         ELSE member[u]
        BY <2>3, <2>5
      <4> QED BY <2>3, <2>5, <4>1
    <3> QED BY <1>3, <2>5, <3>1, <3>2, DoneTypes DEF JoinInsert, TypeOK
  <2> QED BY <1>3, <2>4, <2>5 DEF JoinInsert
<1>4. CASE LeaveRemove(k)
  <2>1. /\ member' \in [Users -> Seats \cup {NoSeat}]
        /\ \A u \in Users : member'[u].row <= joined
    BY <1>4, <1>u, SMTT(40) DEF LeaveRemove, TypeOK, NoSeat
  <2>2. unguarded' \subseteq {"leaving", "removal", "demotion"}
    BY <1>4 DEF LeaveRemove, Unguard, TypeOK
  <2> QED BY <1>0, <1>4, <2>1, <2>2, GoTypes DEF LeaveRemove, TypeOK, At
<1>5. CASE LeaveList(k)
  <2>1. call[k] \in LeaveCalls
    BY <1>0, <1>5, RequestKinds DEF LeaveList, At
  <2>2. [call[k] EXCEPT !.at = "rows", !.seen = Created] \in LeaveCalls
    BY <2>1 DEF LeaveCalls, Created
  <2>3. [call[k] EXCEPT !.at = "rows", !.seen = Created] \in Requests
    BY <2>2 DEF Requests
  <2>4. call' \in [Calls -> Requests \cup {Idle}]
    BY <1>5, <2>3, ChangeTypes, DoneTypes DEF LeaveList
  <2> QED BY <1>5, <2>4 DEF LeaveList, TypeOK
<1>6. CASE LeaveRows(k)
  <2>1. channelRole' \in [Channels -> [Users -> {"none", "member", "admin"}]]
    BY <1>6, <1>u DEF LeaveRows, TypeOK
  <2> QED BY <1>6, <2>1, DoneTypes DEF LeaveRows, TypeOK
<1>7. CASE RoleCount(k)
  <2>1. call[k] \in RoleCalls
    BY <1>0, <1>7, RequestKinds DEF RoleCount, At
  <2>2. call[k].then \in {"strip", "save"}
    BY <2>1 DEF RoleCalls
  <2>3. call' \in [Calls -> Requests \cup {Idle}]
    BY <1>0, <1>7, <2>2, GoTypes, DoneTypes DEF RoleCount, At
  <2> QED BY <1>7, <2>3 DEF RoleCount, TypeOK
<1>8. CASE RoleList(k)
  <2> DEFINE c == [call[k] EXCEPT !.seen = Broadcasts,
                                  !.at = IF Broadcasts = {} THEN "save" ELSE "revoke"]
  <2>1. call[k] \in RoleCalls
    BY <1>0, <1>8, RequestKinds DEF RoleList, At
  <2>2. c \in RoleCalls
    BY <2>1 DEF RoleCalls, Broadcasts
  <2>3. c \in Requests
    BY <2>2 DEF Requests
  <2>4. call' = [call EXCEPT ![k] = c]
    BY <1>8 DEF RoleList
  <2> QED BY <1>8, <2>3, <2>4, ChangeTypes DEF RoleList, TypeOK
<1>9. CASE RoleRevoke(k)
  <2>1. channelRole' \in [Channels -> [Users -> {"none", "member", "admin"}]]
    BY <1>9, <1>u DEF RoleRevoke, TypeOK
  <2> QED BY <1>0, <1>9, <2>1, GoTypes DEF RoleRevoke, TypeOK, At
<1>10. CASE RoleSave(k)
  <2>1. call[k] \in RoleCalls
    BY <1>0, <1>10, RequestKinds DEF RoleSave, At
  <2>2. call[k].role \in Roles /\ call[k].row \in Nat \ {0}
    BY <2>1 DEF RoleCalls
  <2>3. ASSUME member[call[k].user].row = call[k].row
        PROVE  [member[call[k].user] EXCEPT !.role = call[k].role] \in Seats
    BY <1>u, <2>2, <2>3 DEF TypeOK, Seats, NoSeat
  <2>4. /\ member' \in [Users -> Seats \cup {NoSeat}]
        /\ \A u \in Users : member'[u].row = member[u].row
    <3> DEFINE seat == [member[call[k].user] EXCEPT !.role = call[k].role]
    <3>1. \/ member' = member
          \/ /\ member[call[k].user].row = call[k].row
             /\ member' = [member EXCEPT ![call[k].user] = seat]
      BY <1>10 DEF RoleSave
    <3>2. /\ seat.row = member[call[k].user].row
          /\ member[call[k].user].row = call[k].row => seat \in Seats
      BY <1>u, <2>3 DEF TypeOK, Seats, NoSeat
    <3> HIDE DEF seat
    <3>3. member \in [Users -> Seats \cup {NoSeat}]
      BY DEF TypeOK
    <3>4. CASE member' = [member EXCEPT ![call[k].user] = seat]
               /\ member[call[k].user].row = call[k].row
      BY <1>u, <3>2, <3>3, <3>4
    <3> QED BY <3>1, <3>3, <3>4
  <2>5. unguarded' \subseteq {"leaving", "removal", "demotion"}
    BY <1>10 DEF RoleSave, Unguard, TypeOK
  <2> QED BY <1>10, <2>4, <2>5, DoneTypes DEF RoleSave, TypeOK
<1>11. CASE ChannelSave(k)
  <2>1. call[k] \in ChannelCalls
    BY <1>0, <1>11, RequestKinds DEF ChannelSave, At
  <2>2. kind' \in [Channels -> {"none", "group", "broadcast"}]
    BY <1>11, <2>1 DEF ChannelSave, TypeOK, ChannelCalls
  <2>3. call' \in [Calls -> Requests \cup {Idle}]
    BY <1>0, <1>11, GoTypes, DoneTypes DEF ChannelSave, At
  <2> QED BY <1>11, <2>2, <2>3 DEF ChannelSave, TypeOK
<1>12. CASE ChannelAdmin(k)
  <2>1. call[k] \in ChannelCalls
    BY <1>0, <1>12, RequestKinds DEF ChannelAdmin, At
  <2>2. channelRole' \in [Channels -> [Users -> {"none", "member", "admin"}]]
    BY <1>12, <1>u, <2>1 DEF ChannelAdmin, TypeOK, ChannelCalls
  <2> QED BY <1>12, <2>2, DoneTypes DEF ChannelAdmin, TypeOK
<1>13. CASE RowInsert(k)
  <2>1. call[k] \in EnterCalls \/ call[k] \in PostCalls
    BY <1>0, <1>13, RequestKinds DEF RowInsert, At
  <2>2. call[k].channel \in Channels
    BY <2>1 DEF EnterCalls, PostCalls
  <2>3. channelRole' \in [Channels -> [Users -> {"none", "member", "admin"}]]
    BY <1>13, <1>u, <2>2 DEF RowInsert, TypeOK
  <2> QED BY <1>13, <2>3, DoneTypes DEF RowInsert, TypeOK
<1>14. CASE EnableSave(k)
  <2>1. call[k] \in EnableCalls
    BY <1>0, <1>14, RequestKinds DEF EnableSave, At
  <2>2. call[k].mode \in Modes
    BY <2>1 DEF EnableCalls
  <2>3. CASE call[k].found = {}
    <3>1. NewLock(k) \in Locks /\ issued + 1 \in Nat
      BY <2>2 DEF NewLock, Locks, TypeOK
    <3> QED BY <1>14, <2>2, <2>3, <3>1, DoneTypes DEF EnableSave, TypeOK
  <2>4. CASE call[k].found # {}
    <3>1. \A l \in locks : l \in Locks /\ [l EXCEPT !.mode = call[k].mode, !.due = FALSE] \in Locks
      BY <2>2 DEF TypeOK, Locks
    <3>2. locks' \subseteq Locks
      BY <1>14, <2>4, <3>1 DEF EnableSave
    <3> QED BY <1>14, <2>2, <2>4, <3>2, DoneTypes DEF EnableSave, TypeOK
  <2> QED BY <2>3, <2>4
<1>15. CASE ReputationLoad(k)
  <2> DEFINE c == [call[k] EXCEPT !.at = "score", !.score = score[call[k].user]]
  <2>1. call[k] \in VoteCalls \/ call[k] \in EarnCalls
    BY <1>0, <1>15, RequestKinds DEF ReputationLoad, At
  <2>2. c \in VoteCalls \/ c \in EarnCalls
    BY <1>u, <2>1 DEF VoteCalls, EarnCalls, TypeOK
  <2>3. c \in Requests
    BY <2>2 DEF Requests
  <2>4. call' = [call EXCEPT ![k] = c]
    BY <1>15 DEF ReputationLoad
  <2> QED BY <1>15, <2>3, <2>4, ChangeTypes DEF ReputationLoad, TypeOK
<1>16. CASE ReputationScore(k)
  <2>1. call[k] \in VoteCalls \/ call[k] \in EarnCalls
    BY <1>0, <1>16, RequestKinds DEF ReputationScore, At
  <2>2. call[k].score + 1 \in Nat
    BY <2>1 DEF VoteCalls, EarnCalls
  <2>3. call' \in [Calls -> Requests \cup {Idle}]
    BY <1>0, <1>16, GoTypes DEF ReputationScore, At
  <2> QED BY <1>16, <1>u, <2>2, <2>3 DEF ReputationScore, TypeOK
<1>17. CASE ReputationLog(k)
  <2>1. logs' \in [Users -> Nat] /\ earned' \in [Users -> Nat]
    BY <1>17, <1>u DEF ReputationLog, TypeOK
  <2>2. call' \in [Calls -> Requests \cup {Idle}]
    BY <1>0, <1>17, GoTypes, DoneTypes DEF ReputationLog, At
  <2> QED BY <1>17, <2>1, <2>2 DEF ReputationLog, TypeOK
<1>18. CASE VoteInsert(k)
  <2>1. call[k] \in VoteCalls
    BY <1>0, <1>18, RequestKinds DEF VoteInsert, At
  <2>2. <<call[k].user, call[k].proposal>> \in Users \X Proposals
    BY <1>u, <2>1 DEF VoteCalls
  <2> QED BY <1>18, <2>2, DoneTypes DEF VoteInsert, TypeOK
<1>19. CASE ProfileSave(k)
  <2>1. call[k] \in ProfileCalls
    BY <1>0, <1>19, RequestKinds DEF ProfileSave, At
  <2>2. call[k].score \in Nat
    BY <2>1 DEF ProfileCalls
  <2>3. score' \in [Users -> Nat] /\ logs' \in [Users -> Nat]
    BY <1>19, <1>u, <2>2 DEF ProfileSave, TypeOK
  <2> QED BY <1>19, <2>3, DoneTypes DEF ProfileSave, TypeOK
<1> QED BY <1>1, <1>2, <1>3, <1>4, <1>5, <1>6, <1>7, <1>8, <1>9, <1>10, <1>11, <1>12, <1>13,
       <1>14, <1>15, <1>16, <1>17, <1>18, <1>19 DEF Await
---------------------------------------------------------------------------
LEMMA InitTypes == Init => TypeOK
<1> SUFFICES ASSUME Init PROVE TypeOK
  OBVIOUS
<1>1. \A u \in Users : Founded[u] \in Seats \cup {NoSeat} /\ Founded[u].row <= 1
  BY DEF Founded, Seats, NoSeat, Roles
<1>2. member \in [Users -> Seats \cup {NoSeat}] /\ \A u \in Users : member[u].row <= 1
  BY <1>1 DEF Init, Founded
<1>3. score \in [Users -> Nat] /\ logs \in [Users -> Nat] /\ earned \in [Users -> Nat]
  BY DEF Init
<1>4. channelRole \in [Channels -> [Users -> {"none", "member", "admin"}]]
  BY DEF Init
<1>5. kind \in [Channels -> {"none", "group", "broadcast"}]
  BY DEF Init
<1>6. call \in [Calls -> Requests \cup {Idle}]
  BY DEF Init
<1>7. begun \in 0..MaxCalls
  BY BoundAssumption DEF Init
<1>8. joined \in Nat /\ \A u \in Users : member[u].row <= joined
  BY <1>2 DEF Init
<1>9. /\ locks \subseteq Locks /\ issued \in Nat
      /\ ordered \in Modes \cup {"none"} /\ relocked \in BOOLEAN
      /\ votes \subseteq Users \X Proposals /\ clash \subseteq Users \X {"seat", "vote"}
      /\ gone \subseteq Users /\ unguarded \subseteq {"leaving", "removal", "demotion"}
  BY DEF Init
<1> QED BY <1>2, <1>3, <1>4, <1>5, <1>6, <1>7, <1>8, <1>9 DEF TypeOK

LEMMA StepTypes == TypeOK /\ [Next]_vars => TypeOK'
<1> SUFFICES ASSUME TypeOK, [Next]_vars PROVE TypeOK'
  OBVIOUS
<1> USE DEF seats, rooms, lockdown, polls
<1>1. ASSUME NEW k \in Calls, Stop(k) PROVE TypeOK'
  <2>1. call[k].user \in Users
    BY <1>1, Busy, RequestKinds DEF Stop
  <2>2. clash' \subseteq Users \X {"seat", "vote"}
    BY <1>1, <2>1 DEF Stop, What, TypeOK
  <2> QED BY <1>1, <2>2, DoneTypes DEF Stop, TypeOK
<1>2. ASSUME NEW u \in Users, NEW c \in Channels, LeaveChannel(u, c) PROVE TypeOK'
  BY <1>2 DEF LeaveChannel, TypeOK
<1>3. CASE ResolveLockdown
  BY <1>3 DEF ResolveLockdown, TypeOK
<1>4. ASSUME NEW l \in locks, ComesDue(l) PROVE TypeOK'
  <2>1. [l EXCEPT !.due = TRUE] \in Locks
    BY DEF TypeOK, Locks
  <2> QED BY <1>4, <2>1 DEF ComesDue, TypeOK
<1>5. CASE UNCHANGED vars
  BY <1>5 DEF vars, TypeOK
<1>6. ASSUME NEW u \in Users, Purge(u) PROVE TypeOK'
  <2>1. /\ member' \in [Users -> Seats \cup {NoSeat}]
        /\ \A v \in Users : member'[v].row <= joined
    BY <1>6 DEF Purge, TypeOK, NoSeat
  <2>2. channelRole' \in [Channels -> [Users -> {"none", "member", "admin"}]]
    BY <1>6 DEF Purge, TypeOK
  <2>3. gone' \subseteq Users /\ unguarded' \subseteq {"leaving", "removal", "demotion"}
    BY <1>6 DEF Purge, Unguard, TypeOK
  <2> QED BY <1>6, <2>1, <2>2, <2>3 DEF Purge, TypeOK
<1> QED BY <1>1, <1>2, <1>3, <1>4, <1>5, <1>6, RequestTypes, AwaitTypes DEF Next

(* Memberships, channels, lockdowns, votes and requests keep their types,  *)
(* for every number of users, requests, channels and proposals.            *)
THEOREM GroupTypes == Spec => []TypeOK
  BY InitTypes, StepTypes, PTL DEF Spec
---------------------------------------------------------------------------
(* A step of a request keeps its operation and its user, or ends it; only   *)
(* votes, other events and saves of a user touch scores and votes.         *)
LEMMA AwaitKeeps ==
  ASSUME TypeOK, NEW k \in Calls, Await(k)
  PROVE  /\ call[k] # Idle /\ clash' = clash
         /\ \A j \in Calls \ {k} : call'[j] = call[j]
         /\ \/ call'[k] = Idle
            \/ call'[k].op = call[k].op /\ call'[k].user = call[k].user
         /\ \/ ReputationLoad(k) \/ ReputationScore(k) \/ ReputationLog(k) \/ VoteInsert(k)
            \/ ProfileSave(k)
            \/ call[k].op \notin Points \cup {"profile"} /\ UNCHANGED polls
         /\ gone' = gone
<1> DEFINE Kept == /\ \A j \in Calls \ {k} : call'[j] = call[j]
                   /\ \/ call'[k] = Idle
                      \/ call'[k].op = call[k].op /\ call'[k].user = call[k].user
<1> USE DEF seats, rooms, lockdown, polls, At, Points
<1>0. call[k] # Idle
  BY DEF Await, GetLockdown, ClearLockdown, JoinInsert, LeaveRemove, LeaveList, LeaveRows,
         RoleCount, RoleList, RoleRevoke, RoleSave, ChannelSave, ChannelAdmin, RowInsert,
         EnableSave, ReputationLoad, ReputationScore, ReputationLog, VoteInsert, ProfileSave
<1>u. call[k] \in Requests /\ call \in [Calls -> Requests \cup {Idle}]
  BY <1>0, Busy DEF TypeOK
<1>v. /\ call[k].op \in {"vote", "earn"} => call[k].at \in {"load", "score", "log", "insert"}
      /\ call[k].op = "profile" => call[k].at = "store"
  BY <1>u, RequestKinds DEF VoteCalls, EarnCalls, ProfileCalls
<1>w. call[k] \in [DOMAIN call[k] -> UNION {{call[k][f]} : f \in DOMAIN call[k]}]
      /\ {"op", "user"} \subseteq DOMAIN call[k]
  BY <1>u DEF Requests, JoinCalls, LeaveCalls, RoleCalls, ChannelCalls, EnterCalls, PostCalls,
         EnableCalls, VoteCalls, EarnCalls, ProfileCalls
<1>d. Done(k) => Kept
  BY <1>u DEF Done
<1>g. ASSUME NEW at, Go(k, at) PROVE Kept
  <2>1. call'[k] = [call[k] EXCEPT !.at = at] /\ \A j \in Calls \ {k} : call'[j] = call[j]
    BY <1>g, <1>u DEF Go
  <2>2. call'[k].op = call[k].op /\ call'[k].user = call[k].user
    BY <2>1, <1>w
  <2> QED BY <2>1, <2>2
<1>1. CASE GetLockdown(k)
  <2>1. ASSUME NEW l \in locks,
               call' = [call EXCEPT ![k] = [@ EXCEPT !.at = "clear", !.lock = l.id]]
        PROVE  Kept
    <3>1. call'[k] = [call[k] EXCEPT !.at = "clear", !.lock = l.id]
          /\ \A j \in Calls \ {k} : call'[j] = call[j]
      BY <2>1, <1>u
    <3>2. call'[k].op = call[k].op /\ call'[k].user = call[k].user
      BY <3>1, <1>w
    <3> QED BY <3>1, <3>2
  <2>2. Kept
    BY <1>1, <1>d, <1>g, <2>1 DEF GetLockdown
  <2> QED BY <1>0, <1>v, <1>1, <2>2 DEF GetLockdown
<1>2. CASE ClearLockdown(k)
  BY <1>0, <1>v, <1>2, <1>g DEF ClearLockdown
<1>3. CASE JoinInsert(k)
  BY <1>0, <1>3, <1>d, <1>g DEF JoinInsert
<1>4. CASE LeaveRemove(k)
  BY <1>0, <1>4, <1>d, <1>g DEF LeaveRemove
<1>5. CASE LeaveList(k)
  <2>1. ASSUME call' = [call EXCEPT ![k] = [@ EXCEPT !.at = "rows", !.seen = Created]]
        PROVE  Kept
    BY <2>1, <1>u, <1>w
  <2> QED BY <1>0, <1>5, <1>d, <2>1 DEF LeaveList
<1>6. CASE LeaveRows(k)
  BY <1>0, <1>6, <1>d, <1>g DEF LeaveRows
<1>7. CASE RoleCount(k)
  BY <1>0, <1>7, <1>d, <1>g DEF RoleCount
<1>8. CASE RoleList(k)
  <2>1. call'[k].op = call[k].op /\ call'[k].user = call[k].user
    BY <1>8, <1>u, <1>w DEF RoleList
  <2> QED BY <1>0, <1>u, <1>8, <2>1 DEF RoleList
<1>9. CASE RoleRevoke(k)
  BY <1>0, <1>9, <1>d, <1>g DEF RoleRevoke
<1>10. CASE RoleSave(k)
  BY <1>0, <1>10, <1>d, <1>g DEF RoleSave
<1>11. CASE ChannelSave(k)
  BY <1>0, <1>11, <1>d, <1>g DEF ChannelSave
<1>12. CASE ChannelAdmin(k)
  BY <1>0, <1>12, <1>d, <1>g DEF ChannelAdmin
<1>13. CASE RowInsert(k)
  BY <1>0, <1>13, <1>d, <1>g DEF RowInsert
<1>14. CASE EnableSave(k)
  BY <1>0, <1>14, <1>d, <1>g DEF EnableSave
<1>15. CASE ReputationLoad(k)
  <2>1. call'[k].op = call[k].op /\ call'[k].user = call[k].user
    BY <1>15, <1>u, <1>w DEF ReputationLoad
  <2> QED BY <1>0, <1>u, <1>15, <2>1 DEF ReputationLoad
<1>16. CASE ReputationScore(k)
  BY <1>0, <1>16, <1>d, <1>g DEF ReputationScore
<1>17. CASE ReputationLog(k)
  BY <1>0, <1>17, <1>d, <1>g DEF ReputationLog
<1>18. CASE VoteInsert(k)
  BY <1>0, <1>18, <1>d, <1>g DEF VoteInsert
<1>19. CASE ProfileSave(k)
  BY <1>0, <1>19, <1>d DEF ProfileSave
<1> QED BY <1>1, <1>2, <1>3, <1>4, <1>5, <1>6, <1>7, <1>8, <1>9, <1>10, <1>11, <1>12, <1>13,
       <1>14, <1>15, <1>16, <1>17, <1>18, <1>19 DEF Await

(* What a request that begins leaves alone, and what it begins with.        *)
LEMMA RequestKeeps ==
  ASSUME TypeOK, NEW k \in Calls, Request(k)
  PROVE  /\ call[k] = Idle /\ UNCHANGED <<seats, polls>>
         /\ Begin(k, call'[k])
         /\ call'[k].op \in {"leave", "role"} => ~Owns(call'[k].user)
         /\ call'[k].op = "role" /\ call'[k].role # "admin" /\ call'[k].at # "count"
              => member[call'[k].user].role # "admin"
         /\ call'[k].op \in Points => call'[k].at = "load"
         /\ call'[k].op = "vote" => <<call'[k].user, call'[k].proposal>> \notin votes
         /\ call'[k].op = "profile" => call'[k].score = score[call'[k].user]
<1> DEFINE Begun(j) ==
         /\ call[j] = Idle /\ UNCHANGED <<seats, polls>>
         /\ Begin(j, call'[j])
         /\ call'[j].op \in {"leave", "role"} => ~Owns(call'[j].user)
         /\ call'[j].op = "role" /\ call'[j].role # "admin" /\ call'[j].at # "count"
              => member[call'[j].user].role # "admin"
         /\ call'[j].op \in Points => call'[j].at = "load"
         /\ call'[j].op = "vote" => <<call'[j].user, call'[j].proposal>> \notin votes
         /\ call'[j].op = "profile" => call'[j].score = score[call'[j].user]
<1> USE DEF Points
<1>0. ASSUME NEW c, Begin(k, c) PROVE call[k] = Idle /\ call'[k] = c
  BY <1>0 DEF Begin, TypeOK
<1>1. ASSUME NEW u \in Users, JoinFind(k, u) PROVE Begun(k)
  BY <1>0, <1>1 DEF JoinFind
<1>2. ASSUME NEW u \in Users, LeaveFind(k, u) PROVE Begun(k)
  BY <1>0, <1>2 DEF LeaveFind
<1>3. ASSUME NEW u \in Users, NEW role \in Roles, RoleFind(k, u, role) PROVE Begun(k)
  BY <1>0, <1>3 DEF RoleFind, RoleBegin
<1>4. ASSUME NEW u \in Users, NEW c \in Channels, NEW type \in {"group", "broadcast"},
             ChannelCheck(k, u, c, type)
      PROVE  Begun(k)
  BY <1>0, <1>4 DEF ChannelCheck
<1>5. ASSUME NEW u \in Users, NEW c \in Channels, EnterCheck(k, u, c) \/ PostCheck(k, u, c)
      PROVE  Begun(k)
  BY <1>0, <1>5 DEF EnterCheck, PostCheck
<1>6. ASSUME NEW u \in Users, NEW p \in Proposals, VoteFind(k, u, p) PROVE Begun(k)
  BY <1>0, <1>6 DEF VoteFind, VoteBegin
<1>7. ASSUME NEW u \in Users, NEW mode \in Modes, EnableFind(k, u, mode) PROVE Begun(k)
  BY <1>0, <1>7 DEF EnableFind
<1>8. ASSUME NEW u \in Users, EarnFind(k, u) PROVE Begun(k)
  BY <1>0, <1>8 DEF EarnFind
<1>9. ASSUME NEW u \in Users, ProfileFind(k, u) PROVE Begun(k)
  BY <1>0, <1>9 DEF ProfileFind
<1> QED BY <1>1, <1>2, <1>3, <1>4, <1>5, <1>6, <1>7, <1>8, <1>9 DEF Request
---------------------------------------------------------------------------
(* While the owner's account is there the owner is an admin, and no leaving *)
(* or change of role is about them.  In a group without an owner, a change  *)
(* of role that is past its count leaves an admin beside the one it is      *)
(* about, as long as no admin went that the count did not guard.           *)
OwnerInv ==
    Owner \notin gone =>
      /\ member[Owner] = [role |-> "admin", row |-> 1]
      /\ \A k \in Calls : call[k] # Idle /\ call[k].op \in {"leave", "role"}
                            => call[k].user # Owner

CountInv ==
    unguarded = {} =>
      /\ Admins # {}
      /\ Owner \in gone => \A k \in Calls : Demoting(k) => Admins \ {call[k].user} # {}

AdminInv == TypeOK /\ OwnerInv /\ CountInv

LEMMA AdminStart == Init => AdminInv
<1> SUFFICES ASSUME Init PROVE AdminInv
  OBVIOUS
<1>1. member[Owner] = [role |-> "admin", row |-> 1]
  BY OwnerAssumption DEF Init, Founded
<1>2. gone = {} /\ \A k \in Calls : call[k] = Idle
  BY DEF Init
<1>3. Owner \in Admins
  BY <1>1, OwnerAssumption DEF Admins
<1> QED BY <1>1, <1>2, <1>3, InitTypes DEF AdminInv, OwnerInv, CountInv

(* No step takes the owner's role away but the purge of their account.      *)
LEMMA OwnerStep ==
  ASSUME TypeOK, OwnerInv, [Next]_vars
  PROVE  OwnerInv'
<1> USE DEF seats, rooms, lockdown, polls
<1>t. TypeOK'
  BY StepTypes
<1>c. call \in [Calls -> Requests \cup {Idle}] /\ member \in [Users -> Seats \cup {NoSeat}]
  BY DEF TypeOK
<1>1. ASSUME NEW k \in Calls, Request(k) PROVE OwnerInv'
  BY <1>1, <1>c, RequestKeeps DEF Begin, OwnerInv, Owns
<1>2. ASSUME NEW k \in Calls, Await(k), Owner \notin gone PROVE OwnerInv'
  <2>1. \A j \in Calls : call'[j] # Idle /\ call'[j].op \in {"leave", "role"}
                           => call'[j].user # Owner
    BY <1>2, AwaitKeeps DEF OwnerInv
  <2>2. member'[Owner] = member[Owner]
    <3>1. CASE JoinInsert(k)
      BY <3>1, <1>2, <1>c, OwnerAssumption DEF JoinInsert, OwnerInv, IsMember, NoSeat
    <3>2. CASE LeaveRemove(k)
      <4>1. call[k].user # Owner
        BY <3>2, <1>2 DEF LeaveRemove, OwnerInv, At
      <4>2. member' = member \/ member' = [member EXCEPT ![call[k].user] = NoSeat]
        BY <3>2 DEF LeaveRemove
      <4> QED BY <4>1, <4>2, <1>c, OwnerAssumption
    <3>3. CASE RoleSave(k)
      <4>1. call[k].user # Owner
        BY <3>3, <1>2 DEF RoleSave, OwnerInv, At
      <4>2. member' = member \/ member' = [member EXCEPT ![call[k].user].role = call[k].role]
        BY <3>3 DEF RoleSave
      <4> QED BY <4>1, <4>2, <1>c, OwnerAssumption
    <3>4. CASE UNCHANGED member
      BY <3>4
    <3> QED BY <1>2, <3>1, <3>2, <3>3, <3>4
         DEF Await, GetLockdown, ClearLockdown, LeaveList, LeaveRows, RoleCount, RoleList,
             RoleRevoke, ChannelSave, ChannelAdmin, RowInsert, EnableSave, ReputationLoad,
             ReputationScore, ReputationLog, VoteInsert, ProfileSave
  <2> QED BY <1>2, <2>1, <2>2, AwaitKeeps DEF OwnerInv
<1>3. ASSUME NEW k \in Calls, Await(k), Owner \in gone PROVE OwnerInv'
  BY <1>3, AwaitKeeps DEF OwnerInv
<1>4. ASSUME NEW k \in Calls, Stop(k) PROVE OwnerInv'
  BY <1>4, <1>c DEF Stop, Done, OwnerInv
<1>5. ASSUME NEW u \in Users, NEW c \in Channels, LeaveChannel(u, c) PROVE OwnerInv'
  BY <1>5 DEF LeaveChannel, OwnerInv
<1>6. CASE ResolveLockdown
  BY <1>6 DEF ResolveLockdown, OwnerInv
<1>7. ASSUME NEW l \in locks, ComesDue(l) PROVE OwnerInv'
  BY <1>7 DEF ComesDue, OwnerInv
<1>8. ASSUME NEW u \in Users, Purge(u) PROVE OwnerInv'
  BY <1>8, <1>c, OwnerAssumption DEF Purge, OwnerInv
<1>9. CASE UNCHANGED vars
  BY <1>9 DEF vars, OwnerInv
<1> QED BY <1>1, <1>2, <1>3, <1>4, <1>5, <1>6, <1>7, <1>8, <1>9 DEF Next

(* Who is an admin after the seat of a user was changed.                    *)
LEMMA AdminsAfter ==
  ASSUME TypeOK, NEW u \in Users, NEW seat, member' = [member EXCEPT ![u] = seat]
  PROVE  Admins' = IF seat.role = "admin" THEN Admins \cup {u} ELSE Admins \ {u}
  BY DEF TypeOK, Admins

(* A count of two admins leaves one beside any user.                        *)
LEMMA CountedTwo ==
  ASSUME NEW u \in Users, ~(Cardinality(Admins) <= 1)
  PROVE  Admins \ {u} # {}
<1> SUFFICES ASSUME Admins \ {u} = {} PROVE FALSE
  OBVIOUS
<1>1. Admins = {} \/ Admins = {u}
  OBVIOUS
<1>2. Cardinality({}) = 0 /\ Cardinality({u}) = 1
  BY FS_EmptySet, FS_Singleton
<1> QED BY <1>1, <1>2

(* A change of role is past its count only if it was, or counted two.       *)
LEMMA DemotingKept ==
  ASSUME TypeOK, NEW k \in Calls, Await(k), NEW j \in Calls, Demoting(j)'
  PROVE  /\ call'[j].user = call[j].user
         /\ Demoting(j) \/ (j = k /\ RoleCount(k) /\ ~(Cardinality(Admins) <= 1))
<1> USE DEF At
<1>1. /\ call[k] # Idle /\ \A i \in Calls \ {k} : call'[i] = call[i]
      /\ call'[k] = Idle \/ (call'[k].op = call[k].op /\ call'[k].user = call[k].user)
      /\ call \in [Calls -> Requests \cup {Idle}] /\ call[k] \in Requests
  BY AwaitKeeps, Busy DEF TypeOK
<1>2. CASE j # k
  BY <1>1, <1>2 DEF Demoting
<1>3. CASE j = k
  <2>1. call'[k] # Idle /\ call[k].op = "role" /\ call'[k].user = call[k].user
    BY <1>1, <1>3 DEF Demoting
  <2>2. call[k] \in RoleCalls
    BY <1>1, <2>1, RequestKinds
  <2>3. ASSUME NEW at, Go(k, at) PROVE call'[k].role = call[k].role
    BY <1>1, <2>2, <2>3 DEF Go, RoleCalls
  <2>4. CASE RoleCount(k)
    <3>1. ~(Cardinality(Admins) <= 1)
      BY <1>1, <2>1, <2>4 DEF RoleCount, Done
    <3> QED BY <1>3, <2>1, <2>4, <3>1
  <2>5. CASE RoleList(k)
    <3>1. call'[k].role = call[k].role /\ call[k].at = "strip"
      BY <1>1, <2>2, <2>5 DEF RoleList, RoleCalls
    <3> QED BY <1>1, <1>3, <2>1, <3>1 DEF Demoting
  <2>6. CASE RoleRevoke(k)
    BY <1>1, <1>3, <2>1, <2>3, <2>6 DEF RoleRevoke, Demoting
  <2>7. CASE RoleSave(k)
    BY <1>1, <2>1, <2>7 DEF RoleSave, Done
  <2>8. ~GetLockdown(k) /\ ~ClearLockdown(k)
    BY <2>1, <2>2 DEF GetLockdown, ClearLockdown, RoleCalls
  <2> QED BY <2>1, <2>4, <2>5, <2>6, <2>7, <2>8
       DEF Await, JoinInsert, LeaveRemove, LeaveList, LeaveRows, ChannelSave, ChannelAdmin,
           RowInsert, EnableSave, ReputationLoad, ReputationScore, ReputationLog, VoteInsert,
           ProfileSave
<1> QED BY <1>2, <1>3

(* Every await of a request leaves an admin beside whoever a counted change *)
(* of role is about.                                                       *)
LEMMA CountAwaits ==
  ASSUME TypeOK, OwnerInv, CountInv, TypeOK', OwnerInv', NEW k \in Calls, Await(k)
  PROVE  CountInv'
<1> SUFFICES ASSUME unguarded' = {}
             PROVE  /\ Admins' # {}
                    /\ Owner \in gone' =>
                         \A j \in Calls : Demoting(j)' => Admins' \ {call'[j].user} # {}
  BY DEF CountInv
<1> USE DEF At
<1>1. /\ call[k] # Idle /\ gone' = gone /\ call[k] \in Requests /\ call[k].user \in Users
      /\ call \in [Calls -> Requests \cup {Idle}] /\ member \in [Users -> Seats \cup {NoSeat}]
  BY AwaitKeeps, Busy, RequestKinds DEF TypeOK
<1>2. CASE Owner \notin gone
  <2>1. Owner \in Admins'
    BY <1>1, <1>2, OwnerAssumption DEF OwnerInv, Admins
  <2> QED BY <1>1, <1>2, <2>1
<1>3. CASE Owner \in gone
  <2>1. ASSUME Admins' = Admins, unguarded' = unguarded
        PROVE  /\ Admins' # {}
               /\ \A j \in Calls : Demoting(j)' => Admins' \ {call'[j].user} # {}
    <3>1. ASSUME NEW j \in Calls, Demoting(j)' PROVE Admins' \ {call'[j].user} # {}
      <4>1. CASE Demoting(j)
        BY <1>3, <2>1, <3>1, <4>1, DemotingKept DEF CountInv
      <4>2. CASE j = k /\ RoleCount(k) /\ ~(Cardinality(Admins) <= 1)
        <5>1. call[j].user \in Users
          BY <1>1, <4>2
        <5> QED BY <2>1, <3>1, <4>2, <5>1, DemotingKept, CountedTwo
      <4> QED BY <3>1, <4>1, <4>2, DemotingKept
    <3> QED BY <2>1, <3>1 DEF CountInv
  <2>2. CASE UNCHANGED <<member, unguarded>>
    BY <1>1, <2>1, <2>2 DEF Admins
  <2>3. CASE JoinInsert(k)
    <3>1. CASE IsMember(call[k].user)
      BY <2>2, <2>3, <3>1 DEF JoinInsert, seats
    <3>2. CASE ~IsMember(call[k].user)
      <4>1. call[k].user \notin Admins
        BY <3>2 DEF IsMember, NoSeat, Admins
      <4>2. Admins' = Admins
        BY <1>1, <2>3, <3>2, <4>1, AdminsAfter DEF JoinInsert
      <4> QED BY <1>1, <2>1, <2>3, <3>2, <4>2 DEF JoinInsert
    <3> QED BY <3>1, <3>2
  <2>4. CASE LeaveRemove(k) /\ member[call[k].user].row = call[k].row
    <3> DEFINE u == call[k].user
    <3>1. Admins' = Admins \ {u}
      BY <1>1, <2>4, AdminsAfter DEF LeaveRemove, NoSeat
    <3>2. Unguard(u, "leaving", Admins = {u}, Calls)
      BY <2>4 DEF LeaveRemove
    <3>3. CASE u \notin Admins
      <4>1. unguarded' = unguarded
        BY <3>2, <3>3 DEF Unguard
      <4> QED BY <1>1, <2>1, <3>1, <3>3, <4>1
    <3>4. CASE u \in Admins
      <4>1. Admins # {u} /\ ~\E j \in Calls : Demoting(j)
        BY <1>3, <3>2, <3>4 DEF Unguard
      <4>2. ~\E j \in Calls : Demoting(j)'
        <5>1. ~RoleCount(k)
          BY <2>4 DEF RoleCount, LeaveRemove
        <5> QED BY <4>1, <5>1, DemotingKept
      <4> QED BY <3>1, <3>4, <4>1, <4>2
    <3> QED BY <3>3, <3>4
  <2>5. CASE RoleSave(k) /\ member[call[k].user].row = call[k].row
    <3> DEFINE u == call[k].user
    <3>0. call[k] \in RoleCalls /\ call[k].at = "save" /\ call'[k] = Idle
      BY <1>1, <2>5, RequestKinds DEF RoleSave, Done
    <3>a. member' = [member EXCEPT ![u] = [member[u] EXCEPT !.role = call[k].role]]
      BY <2>5 DEF RoleSave
    <3>b. [member[u] EXCEPT !.role = call[k].role].role = call[k].role
      BY <1>1 DEF Seats, NoSeat
    <3>c. ~Demoting(k)' /\ ~RoleCount(k)
      BY <3>0 DEF Demoting, RoleCount
    <3>d. \A j \in Calls : Demoting(j)' => Demoting(j) /\ j # k /\ call'[j].user = call[j].user
      <4> SUFFICES ASSUME NEW j \in Calls, Demoting(j)'
                   PROVE  Demoting(j) /\ j # k /\ call'[j].user = call[j].user
        OBVIOUS
      <4>1. j # k
        BY <3>c
      <4> QED BY <4>1, DemotingKept
    <3>1. CASE call[k].role = "admin"
      <4>1. Admins' = Admins \cup {u} /\ unguarded' = unguarded
        BY <1>1, <2>5, <3>a, <3>b, <3>1, AdminsAfter DEF RoleSave
      <4> QED BY <1>1, <1>3, <3>d, <4>1 DEF CountInv
    <3>2. CASE call[k].role # "admin"
      <4>1. Admins' = Admins \ {u}
        BY <1>1, <3>a, <3>b, <3>2, AdminsAfter
      <4>2. Unguard(u, "demotion", FALSE, Calls \ {k}) /\ Demoting(k)
        BY <2>5, <3>0, <3>2 DEF RoleSave, Demoting
      <4>3. CASE u \notin Admins
        <5>1. unguarded' = unguarded
          BY <4>2, <4>3 DEF Unguard
        <5> QED BY <1>1, <2>1, <4>1, <4>3, <5>1
      <4>4. CASE u \in Admins
        <5>1. unguarded = {} /\ ~\E j \in Calls \ {k} : Demoting(j)
          BY <1>3, <4>2, <4>4 DEF Unguard
        <5>2. Admins \ {u} # {}
          BY <1>3, <4>2, <5>1 DEF CountInv
        <5> QED BY <3>d, <4>1, <5>1, <5>2
      <4> QED BY <4>3, <4>4
    <3> QED BY <3>1, <3>2
  <2>6. \/ UNCHANGED <<member, unguarded>> \/ JoinInsert(k)
        \/ (LeaveRemove(k) \/ RoleSave(k)) /\ member[call[k].user].row = call[k].row
    BY DEF Await, GetLockdown, ClearLockdown, LeaveRemove, LeaveList, LeaveRows, RoleCount,
         RoleList, RoleRevoke, RoleSave, ChannelSave, ChannelAdmin, RowInsert, EnableSave,
         ReputationLoad, ReputationScore, ReputationLog, VoteInsert, ProfileSave, seats
  <2> QED BY <2>2, <2>3, <2>4, <2>5, <2>6
<1> QED BY <1>2, <1>3

(* The purge of an admin leaves another, or counts as unguarded.            *)
LEMMA CountPurged ==
  ASSUME TypeOK, OwnerInv, CountInv, TypeOK', OwnerInv', NEW u \in Users, Purge(u)
  PROVE  CountInv'
<1> SUFFICES ASSUME unguarded' = {}
             PROVE  /\ Admins' # {}
                    /\ Owner \in gone' =>
                         \A j \in Calls : Demoting(j)' => Admins' \ {call'[j].user} # {}
  BY DEF CountInv
<1>0. /\ gone' = gone \cup {u} /\ call' = call /\ member' = [member EXCEPT ![u] = NoSeat]
      /\ Unguard(u, "removal", Admins = {u}, Calls)
  BY DEF Purge
<1>a. NoSeat.role # "admin"
  BY DEF NoSeat
<1>1. /\ gone' = gone \cup {u} /\ call' = call /\ Admins' = Admins \ {u}
      /\ Unguard(u, "removal", Admins = {u}, Calls)
  BY <1>0, <1>a, AdminsAfter
<1>2. \A j \in Calls : Demoting(j)' <=> Demoting(j)
  BY <1>1 DEF Demoting
<1>3. unguarded = {}
  BY <1>1 DEF Unguard
<1>4. CASE Owner \notin gone'
  BY <1>4, OwnerAssumption DEF OwnerInv, Admins
<1>5. CASE Owner \in gone' /\ u \in Admins
  BY <1>1, <1>2, <1>5 DEF Unguard
<1>6. CASE Owner \in gone' /\ u \notin Admins
  <2>1. Owner \in gone
    BY <1>1, <1>6, OwnerAssumption DEF OwnerInv, Admins
  <2> QED BY <1>1, <1>2, <1>3, <1>6, <2>1 DEF CountInv
<1> QED BY <1>4, <1>5, <1>6

LEMMA AdminStep == AdminInv /\ [Next]_vars => AdminInv'
<1> SUFFICES ASSUME AdminInv, [Next]_vars PROVE CountInv'
  BY StepTypes, OwnerStep DEF AdminInv
<1> USE DEF seats, rooms, lockdown, polls
<1>t. TypeOK /\ OwnerInv /\ CountInv /\ TypeOK' /\ OwnerInv'
      /\ call \in [Calls -> Requests \cup {Idle}]
  BY StepTypes, OwnerStep DEF AdminInv, TypeOK
<1>1. ASSUME NEW k \in Calls, Request(k) PROVE CountInv'
  <2>1. /\ UNCHANGED <<member, gone, unguarded>> /\ Begin(k, call'[k])
        /\ call'[k].op = "role" /\ call'[k].role # "admin" /\ call'[k].at # "count"
             => member[call'[k].user].role # "admin"
    BY <1>1, <1>t, RequestKeeps
  <2>2. \A j \in Calls \ {k} : call'[j] = call[j]
    BY <2>1, <1>t DEF Begin
  <2>3. Admins' = Admins
    BY <2>1 DEF Admins
  <2>4. \A j \in Calls \ {k} : Demoting(j)' <=> Demoting(j)
    BY <2>2 DEF Demoting
  <2>5. Demoting(k)' => call'[k].user \notin Admins
    BY <2>1 DEF Demoting, Admins
  <2> QED BY <1>t, <2>1, <2>2, <2>3, <2>4, <2>5 DEF CountInv
<1>2. ASSUME NEW k \in Calls, Await(k) PROVE CountInv'
  BY <1>2, <1>t, CountAwaits
<1>3. ASSUME NEW u \in Users, Purge(u) PROVE CountInv'
  BY <1>3, <1>t, CountPurged
<1>4. ASSUME UNCHANGED <<member, gone, unguarded>>,
             \A j \in Calls : call'[j] = Idle \/ call'[j] = call[j]
      PROVE  CountInv'
  <2>1. Admins' = Admins
    BY <1>4 DEF Admins
  <2>2. \A j \in Calls : Demoting(j)' => Demoting(j) /\ call'[j] = call[j]
    BY <1>4 DEF Demoting
  <2> QED BY <1>t, <1>4, <2>1, <2>2 DEF CountInv
<1>5. ASSUME NEW k \in Calls, Stop(k) PROVE CountInv'
  BY <1>4, <1>5, <1>t DEF Stop, Done
<1>6. CASE \E v \in Users, c \in Channels : LeaveChannel(v, c)
  BY <1>4, <1>6 DEF LeaveChannel
<1>7. CASE ResolveLockdown
  BY <1>4, <1>7 DEF ResolveLockdown
<1>8. CASE \E l \in locks : ComesDue(l)
  BY <1>4, <1>8 DEF ComesDue
<1>9. CASE UNCHANGED vars
  BY <1>4, <1>9 DEF vars
<1> QED BY <1>1, <1>2, <1>3, <1>5, <1>6, <1>7, <1>8, <1>9 DEF Next

(* "A group must keep at least one admin": while it has an owner the        *)
(* owner's role cannot be changed and the owner cannot leave, whatever      *)
(* requests overlap; without one, a demotion counted two admins, and the    *)
(* last admin goes only if one left or was purged as the last, or went      *)
(* while a change of a role was past its count.                            *)
THEOREM AnAdminRemains == Spec => []AdminKept
<1>1. AdminInv => AdminKept
  BY DEF AdminInv, CountInv, AdminKept
<1> QED BY <1>1, AdminStart, AdminStep, PTL DEF Spec
---------------------------------------------------------------------------
(* What an undisturbed user's points are worth at every await of a vote or  *)
(* another event, and what a save of the user has loaded.                  *)
VotesOf(u) == {p \in Proposals : <<u, p>> \in votes}
VotedBy(u) == Cardinality(VotesOf(u))
Worth(u) == VotedBy(u) + earned[u]
Earns(k, u) == call[k] # Idle /\ call[k].op \in Points /\ call[k].user = u
Saves(k, u) == call[k] # Idle /\ call[k].op = "profile" /\ call[k].user = u

AtStage(k, u) ==
    /\ call[k].op = "vote" => call[k].proposal \notin VotesOf(u)
    /\ call[k].at \in {"load", "score"} => score[u] = Worth(u) /\ logs[u] = Worth(u)
    /\ call[k].at = "score" => call[k].score = score[u]
    /\ call[k].at = "log" => score[u] = Worth(u) + 1 /\ logs[u] = Worth(u)
    /\ call[k].at = "insert" => score[u] = Worth(u) + 1 /\ logs[u] = Worth(u) + 1

Quiet(u) ==
    /\ \A j, k \in Calls : Earns(j, u) /\ Earns(k, u) => j = k
    /\ \A k \in Calls : Earns(k, u) => AtStage(k, u)
    /\ ~Earning(u) => score[u] = Worth(u) /\ logs[u] = Worth(u)
    /\ \A k \in Calls : Saves(k, u) => ~Earning(u) /\ call[k].score = score[u]

VoteInv == TypeOK /\ \A u \in Users : u \in gone \/ <<u, "vote">> \in clash \/ Quiet(u)

(* The votes of a user are a finite set, and one more vote adds one.        *)
LEMMA VotesFinite ==
  ASSUME NEW u \in Users
  PROVE  IsFiniteSet(VotesOf(u)) /\ VotedBy(u) \in Nat
<1>1. VotesOf(u) \subseteq Proposals
  BY DEF VotesOf
<1>2. IsFiniteSet(VotesOf(u))
  BY <1>1, ProposalsAssumption, FS_Subset
<1> QED BY <1>2, FS_CardinalityType DEF VotedBy

LEMMA OneMoreVote ==
  ASSUME NEW u \in Users, NEW p \in Proposals, <<u, p>> \notin votes,
         votes' = votes \cup {<<u, p>>}
  PROVE  VotedBy(u)' = VotedBy(u) + 1
<1>1. VotesOf(u)' = VotesOf(u) \cup {p}
  BY DEF VotesOf
<1>2. p \notin VotesOf(u)
  BY DEF VotesOf
<1>3. Cardinality(VotesOf(u) \cup {p}) = Cardinality(VotesOf(u)) + 1
  BY <1>2, VotesFinite, FS_AddElement
<1> QED BY <1>1, <1>3 DEF VotedBy

LEMMA EarningIs == ASSUME NEW u PROVE Earning(u) <=> \E k \in Calls : Earns(k, u)
  BY DEF Earning, Earns, Points, Idle

(* A user whose votes and points no step touches stays quiet.               *)
LEMMA StaysQuiet ==
  ASSUME NEW u \in Users, Quiet(u), score'[u] = score[u], logs'[u] = logs[u],
         VotesOf(u)' = VotesOf(u), earned'[u] = earned[u],
         \A k \in Calls : Earns(k, u)' <=> Earns(k, u),
         \A k \in Calls : Earns(k, u) => call'[k] = call[k],
         \A k \in Calls : Saves(k, u)' => Saves(k, u) /\ call'[k] = call[k]
  PROVE  Quiet(u)'
<1>1. Worth(u)' = Worth(u)
  BY DEF Worth, VotedBy
<1>2. Earning(u)' <=> Earning(u)
  <2>1. Earning(u)' <=> \E k \in Calls : Earns(k, u)'
    BY DEF Earning, Earns, Points, Idle
  <2> QED BY <2>1, EarningIs
<1>3. \A k \in Calls : Earns(k, u) => AtStage(k, u)'
  BY <1>1 DEF Quiet, AtStage
<1> QED BY <1>1, <1>2, <1>3 DEF Quiet

LEMMA VoteStart == Init => VoteInv
<1> SUFFICES ASSUME Init, NEW u \in Users PROVE Quiet(u)
  BY InitTypes DEF VoteInv
<1>1. VotesOf(u) = {}
  BY DEF Init, VotesOf
<1>2. VotedBy(u) = 0
  BY <1>1, FS_EmptySet DEF VotedBy
<1>3. score[u] = 0 /\ logs[u] = 0 /\ earned[u] = 0 /\ \A k \in Calls : call[k] = Idle
  BY DEF Init
<1> QED BY <1>2, <1>3 DEF Quiet, Worth, Earns, Saves

(* Two writers of a user's points disturb each other.                       *)
LEMMA PointsDisturb ==
  ASSUME NEW a, NEW b,
         \/ a \in Points /\ b \in Points \cup {"profile"}
         \/ b \in Points /\ a \in Points \cup {"profile"}
  PROVE  {a, b} \in Disturb
<1>1. /\ {"vote", "vote"} = {"vote"} /\ {"earn", "earn"} = {"earn"}
      /\ {"earn", "vote"} = {"vote", "earn"} /\ {"profile", "vote"} = {"vote", "profile"}
      /\ {"profile", "earn"} = {"earn", "profile"}
  OBVIOUS
<1>2. {{"vote"}, {"earn"}, {"vote", "earn"}, {"vote", "profile"}, {"earn", "profile"}}
        \subseteq Disturb
  BY DEF Disturb
<1> QED BY <1>1, <1>2 DEF Points

(* A writer of points that begins while another of the user is on its way   *)
(* is a clash.                                                             *)
LEMMA VoteBegins ==
  ASSUME VoteInv, NEW k \in Calls, Request(k), TypeOK', NEW u \in Users, u \notin gone,
         <<u, "vote">> \notin clash'
  PROVE  Quiet(u)'
<1> USE DEF polls
<1>0. /\ call[k] = Idle /\ UNCHANGED <<score, logs, votes, earned>> /\ Begin(k, call'[k])
      /\ call'[k].op \in Points => call'[k].at = "load"
      /\ call'[k].op = "vote" => <<call'[k].user, call'[k].proposal>> \notin votes
      /\ call'[k].op = "profile" => call'[k].score = score[call'[k].user]
  BY RequestKeeps DEF VoteInv
<1>1. \A j \in Calls \ {k} : call'[j] = call[j]
  BY <1>0 DEF Begin, VoteInv, TypeOK
<1>2. <<u, "vote">> \notin clash
  BY <1>0 DEF Begin
<1>3. Quiet(u)
  BY <1>2 DEF VoteInv
<1>4. VotesOf(u)' = VotesOf(u) /\ VotedBy(u)' = VotedBy(u) /\ Worth(u)' = Worth(u)
  BY <1>0 DEF VotesOf, VotedBy, Worth
<1>5. ASSUME NEW j \in Calls, call[j] # Idle, call[j].user = u, call'[k].user = u,
             {call[j].op, call'[k].op} \in Disturb, call'[k].op \in Points \cup {"profile"}
      PROVE  FALSE
  BY <1>0, <1>5 DEF Begin, What
<1>6. Earning(u)' <=> \E j \in Calls : Earns(j, u)'
  BY DEF Earning, Earns, Points, Idle
<1>7. CASE Earns(k, u)'
  <2>1. call'[k] # Idle /\ call'[k].op \in Points /\ call'[k].user = u
    BY <1>7 DEF Earns
  <2>2. \A j \in Calls : ~Earns(j, u) /\ ~Saves(j, u)
    BY <1>5, <2>1, PointsDisturb DEF Earns, Saves
  <2>3. \A j \in Calls : (Earns(j, u)' => j = k) /\ ~Saves(j, u)'
    BY <1>1, <2>1, <2>2 DEF Earns, Saves, Points
  <2>4. score'[u] = Worth(u)' /\ logs'[u] = Worth(u)'
    BY <1>0, <1>3, <1>4, <2>2, EarningIs DEF Quiet
  <2>5. AtStage(k, u)'
    BY <1>0, <2>1, <2>4 DEF AtStage, VotesOf
  <2>6. Earning(u)'
    BY <1>6, <1>7
  <2> QED BY <2>3, <2>5, <2>6 DEF Quiet
<1>8. CASE Saves(k, u)'
  <2>1. call'[k] # Idle /\ call'[k].op = "profile" /\ call'[k].user = u
    BY <1>8 DEF Saves
  <2>2. \A j \in Calls : ~Earns(j, u)
    BY <1>5, <2>1, PointsDisturb DEF Earns
  <2>3. \A j \in Calls : ~Earns(j, u)'
    BY <1>1, <2>1, <2>2 DEF Earns, Points
  <2>4. score'[u] = Worth(u)' /\ logs'[u] = Worth(u)'
    BY <1>0, <1>3, <1>4, <2>2, EarningIs DEF Quiet
  <2>5. ASSUME NEW j \in Calls, Saves(j, u)' PROVE call'[j].score = score'[u]
    <3>1. CASE j = k
      BY <1>0, <2>1, <3>1
    <3>2. CASE j # k
      BY <1>0, <1>1, <1>3, <2>5, <3>2 DEF Quiet, Saves
    <3> QED BY <3>1, <3>2
  <2> QED BY <1>6, <2>3, <2>4, <2>5 DEF Quiet
<1>9. CASE ~Earns(k, u)' /\ ~Saves(k, u)'
  <2>1. \A j \in Calls : /\ Earns(j, u)' <=> Earns(j, u)
                         /\ Earns(j, u) => call'[j] = call[j]
                         /\ Saves(j, u)' => Saves(j, u) /\ call'[j] = call[j]
    BY <1>0, <1>1, <1>9 DEF Earns, Saves
  <2> QED BY <1>0, <1>3, <1>4, <2>1, StaysQuiet
<1> QED BY <1>7, <1>8, <1>9

(* Each await of an undisturbed event moves it on by one stage.             *)
LEMMA VoteMoves ==
  ASSUME VoteInv, NEW k \in Calls, Await(k), NEW u \in Users, Earns(k, u), Quiet(u)
  PROVE  Quiet(u)'
<1> USE DEF polls, At
<1>0. /\ \A j \in Calls \ {k} : call'[j] = call[j]
      /\ ReputationLoad(k) \/ ReputationScore(k) \/ ReputationLog(k) \/ VoteInsert(k)
      /\ call'[k] = Idle \/ (call'[k].op = call[k].op /\ call'[k].user = call[k].user)
  <2>1. ~ProfileSave(k)
    BY DEF ProfileSave, Earns, Points
  <2> QED BY <2>1, AwaitKeeps DEF VoteInv, Earns
<1>1. /\ call[k] \in VoteCalls \/ call[k] \in EarnCalls
      /\ call \in [Calls -> Requests \cup {Idle}]
      /\ score \in [Users -> Nat] /\ logs \in [Users -> Nat] /\ earned \in [Users -> Nat]
  BY Busy, RequestKinds DEF VoteInv, TypeOK, Earns, Points
<1>2. call[k].user = u /\ AtStage(k, u) /\ \A j \in Calls : Earns(j, u) => j = k
  BY DEF Quiet, Earns
<1>3. \A j \in Calls : Earns(j, u)' => j = k
  BY <1>0, <1>2 DEF Earns
<1>4. VotedBy(u) \in Nat /\ Worth(u) \in Nat
  BY <1>1, VotesFinite DEF Worth
<1>s. \A j \in Calls : ~Saves(j, u)'
  <2>1. \A j \in Calls : ~Saves(j, u)
    BY EarningIs DEF Quiet
  <2> QED BY <1>0, <2>1 DEF Saves, Earns, Points
<1>5. ASSUME NEW at, call'[k] = [call[k] EXCEPT !.at = at]
      PROVE  /\ call'[k].at = at /\ call'[k].op = call[k].op
             /\ call'[k].op = "vote" => call'[k].proposal = call[k].proposal
             /\ call'[k].score = call[k].score /\ call'[k] # Idle
  BY <1>1, <1>5 DEF VoteCalls, EarnCalls, Idle
<1>6. ASSUME call'[k] # Idle, AtStage(k, u)' PROVE Quiet(u)'
  <2>1. Earns(k, u)'
    BY <1>0, <1>2, <1>6 DEF Earns
  <2>2. Earning(u)'
    BY <2>1 DEF Earning, Earns
  <2> QED BY <1>3, <1>s, <1>6, <2>2 DEF Quiet
<1>7. CASE ReputationLoad(k)
  <2>1. call'[k] = [call[k] EXCEPT !.at = "score", !.score = score[u]]
    BY <1>1, <1>2, <1>7 DEF ReputationLoad
  <2>2. /\ call'[k].at = "score" /\ call'[k].op = call[k].op
        /\ call'[k].op = "vote" => call'[k].proposal = call[k].proposal
        /\ call'[k].score = score[u] /\ call'[k] # Idle
    BY <1>1, <2>1 DEF VoteCalls, EarnCalls, Idle
  <2>3. VotesOf(u)' = VotesOf(u) /\ Worth(u)' = Worth(u) /\ UNCHANGED <<score, logs>>
    BY <1>7 DEF ReputationLoad, VotesOf, VotedBy, Worth
  <2>4. AtStage(k, u)'
    BY <1>2, <1>7, <2>2, <2>3 DEF AtStage, ReputationLoad
  <2> QED BY <1>6, <2>2, <2>4
<1>8. CASE ReputationScore(k)
  <2>1. call'[k] = [call[k] EXCEPT !.at = "log"]
    BY <1>1, <1>8 DEF ReputationScore, Go
  <2>2. VotesOf(u)' = VotesOf(u) /\ Worth(u)' = Worth(u) /\ logs' = logs
    BY <1>8 DEF ReputationScore, VotesOf, VotedBy, Worth
  <2>3. score'[u] = Worth(u) + 1
    BY <1>1, <1>2, <1>8 DEF ReputationScore, AtStage
  <2>4. AtStage(k, u)'
    BY <1>2, <1>5, <1>8, <2>1, <2>2, <2>3 DEF AtStage, ReputationScore
  <2> QED BY <1>5, <1>6, <2>1, <2>4
<1>9. CASE ReputationLog(k)
  <2>1. VotesOf(u)' = VotesOf(u) /\ VotedBy(u)' = VotedBy(u) /\ score' = score
    BY <1>9 DEF ReputationLog, VotesOf, VotedBy
  <2>2. /\ score[u] = Worth(u) + 1 /\ logs'[u] = Worth(u) + 1
    BY <1>1, <1>2, <1>4, <1>9 DEF ReputationLog, AtStage
  <2>3. CASE call[k].op = "vote"
    <3>1. call'[k] = [call[k] EXCEPT !.at = "insert"] /\ Worth(u)' = Worth(u)
      BY <1>1, <1>9, <2>1, <2>3 DEF ReputationLog, Go, Worth
    <3>2. AtStage(k, u)'
      BY <1>2, <1>5, <1>9, <2>1, <2>2, <3>1 DEF AtStage
    <3> QED BY <1>5, <1>6, <3>1, <3>2
  <2>4. CASE call[k].op # "vote"
    <3>1. call'[k] = Idle
      BY <1>1, <1>9, <2>4 DEF ReputationLog, Done
    <3>2. earned'[u] = earned[u] + 1
      BY <1>1, <1>2, <1>9, <2>4 DEF ReputationLog
    <3>3. Worth(u)' = Worth(u) + 1
      BY <1>1, <1>4, <2>1, <3>2 DEF Worth
    <3>4. \A j \in Calls : ~Earns(j, u)'
      BY <1>3, <3>1 DEF Earns
    <3> QED BY <1>s, <2>1, <2>2, <3>3, <3>4 DEF Quiet
  <2> QED BY <2>3, <2>4
<1>10. CASE VoteInsert(k)
  <2>0. call[k].proposal \in Proposals /\ call[k].op = "vote"
    BY <1>1, <1>10 DEF VoteInsert, VoteCalls, EarnCalls
  <2>1. call'[k] = Idle
    BY <1>1, <1>10 DEF VoteInsert, Done
  <2>2. <<u, call[k].proposal>> \notin votes
    BY <1>2, <2>0 DEF AtStage, VotesOf
  <2>3. VotedBy(u)' = VotedBy(u) + 1
    BY <1>2, <1>10, <2>0, <2>2, OneMoreVote DEF VoteInsert
  <2>4. Worth(u)' = Worth(u) + 1
    BY <1>1, <1>4, <1>10, <2>3 DEF Worth, VoteInsert
  <2>5. UNCHANGED <<score, logs>> /\ score[u] = Worth(u) + 1 /\ logs[u] = Worth(u) + 1
    BY <1>2, <1>10 DEF VoteInsert, AtStage
  <2>6. \A j \in Calls : ~Earns(j, u)'
    BY <1>3, <2>1 DEF Earns
  <2> QED BY <1>s, <2>4, <2>5, <2>6 DEF Quiet
<1> QED BY <1>0, <1>7, <1>8, <1>9, <1>10

(* An await of another user's event, or of none, leaves a user quiet; and   *)
(* so does a save of the user, which loaded the score there is.            *)
LEMMA VoteOfOthers ==
  ASSUME VoteInv, NEW k \in Calls, Await(k), NEW u \in Users, ~Earns(k, u), Quiet(u)
  PROVE  Quiet(u)'
<1> USE DEF polls, At
<1>0. /\ call[k] # Idle /\ \A j \in Calls \ {k} : call'[j] = call[j]
      /\ \/ ReputationLoad(k) \/ ReputationScore(k) \/ ReputationLog(k) \/ VoteInsert(k)
         \/ ProfileSave(k)
         \/ call[k].op \notin Points \cup {"profile"} /\ UNCHANGED polls
      /\ call'[k] = Idle \/ (call'[k].op = call[k].op /\ call'[k].user = call[k].user)
  BY AwaitKeeps DEF VoteInv
<1>1. /\ score \in [Users -> Nat] /\ logs \in [Users -> Nat] /\ earned \in [Users -> Nat]
      /\ call \in [Calls -> Requests \cup {Idle}]
  BY DEF VoteInv, TypeOK
<1>2. /\ score'[u] = score[u] /\ logs'[u] = logs[u] /\ VotesOf(u)' = VotesOf(u)
      /\ earned'[u] = earned[u] /\ ~Saves(k, u)'
  <2>1. CASE call[k].op \notin Points \cup {"profile"} /\ UNCHANGED polls
    BY <1>0, <2>1 DEF VotesOf, Saves
  <2>2. CASE ReputationLoad(k)
    BY <1>0, <2>2 DEF ReputationLoad, VotesOf, Saves
  <2>3. CASE ReputationScore(k)
    BY <1>0, <1>1, <2>3 DEF ReputationScore, VotesOf, Earns, Saves, Points
  <2>4. CASE ReputationLog(k)
    <3>1. call[k].user # u
      BY <2>4 DEF ReputationLog, Earns, Points
    <3> QED BY <1>0, <1>1, <2>4, <3>1 DEF ReputationLog, VotesOf, Saves
  <2>5. CASE VoteInsert(k)
    BY <1>0, <2>5 DEF VoteInsert, VotesOf, Earns, Saves, Points
  <2>6. CASE ProfileSave(k)
    <3>0. call'[k] = Idle
      BY <1>1, <2>6 DEF ProfileSave, Done
    <3>1. CASE call[k].user # u
      BY <1>1, <2>6, <3>0, <3>1 DEF ProfileSave, VotesOf, Saves
    <3>2. CASE call[k].user = u
      <4>1. ~Earning(u) /\ call[k].score = score[u]
        BY <1>0, <2>6, <3>2 DEF Quiet, Saves, ProfileSave
      <4>2. score[u] = logs[u]
        BY <4>1 DEF Quiet
      <4>3. score'[u] = score[u] /\ logs'[u] = logs[u]
        BY <1>1, <2>6, <3>2, <4>1, <4>2 DEF ProfileSave
      <4> QED BY <2>6, <3>0, <4>3 DEF ProfileSave, VotesOf, Saves
    <3> QED BY <3>1, <3>2
  <2> QED BY <1>0, <2>1, <2>2, <2>3, <2>4, <2>5, <2>6
<1>3. ~Earns(k, u)'
  BY <1>0 DEF Earns
<1>4. \A j \in Calls : /\ Earns(j, u)' <=> Earns(j, u)
                       /\ Earns(j, u) => call'[j] = call[j]
                       /\ Saves(j, u)' => Saves(j, u) /\ call'[j] = call[j]
  BY <1>0, <1>2, <1>3 DEF Earns, Saves
<1> QED BY <1>2, <1>4, StaysQuiet

LEMMA VoteStep == VoteInv /\ [Next]_vars => VoteInv'
<1> SUFFICES ASSUME VoteInv, [Next]_vars, NEW u \in Users, u \notin gone',
                    <<u, "vote">> \notin clash'
             PROVE  Quiet(u)'
  BY StepTypes DEF VoteInv
<1> USE DEF seats, rooms, lockdown, polls
<1>t. TypeOK /\ TypeOK' /\ call \in [Calls -> Requests \cup {Idle}]
  BY StepTypes DEF VoteInv, TypeOK
<1>1. ASSUME NEW k \in Calls, Request(k) PROVE Quiet(u)'
  BY <1>1, <1>t, VoteBegins, RequestKeeps
<1>2. ASSUME NEW k \in Calls, Await(k) PROVE Quiet(u)'
  <2>1. Quiet(u)
    BY <1>2, <1>t, AwaitKeeps DEF VoteInv
  <2> QED BY <1>2, <2>1, VoteMoves, VoteOfOthers
<1>3. ASSUME NEW k \in Calls, Stop(k) PROVE Quiet(u)'
  <2>1. Quiet(u) /\ ~Earns(k, u)
    BY <1>3 DEF Stop, What, Earns, VoteInv
  <2>2. call'[k] = Idle /\ \A j \in Calls \ {k} : call'[j] = call[j]
    BY <1>3, <1>t DEF Stop, Done
  <2>3. /\ VotesOf(u)' = VotesOf(u) /\ score'[u] = score[u] /\ logs'[u] = logs[u]
        /\ earned'[u] = earned[u]
    BY <1>3 DEF Stop, VotesOf
  <2>4. \A j \in Calls : /\ Earns(j, u)' <=> Earns(j, u)
                         /\ Earns(j, u) => call'[j] = call[j]
                         /\ Saves(j, u)' => Saves(j, u) /\ call'[j] = call[j]
    BY <2>1, <2>2 DEF Earns, Saves
  <2> QED BY <2>1, <2>3, <2>4, StaysQuiet
<1>4. ASSUME UNCHANGED <<score, logs, earned, call, clash>>, VotesOf(u)' = VotesOf(u),
             u \notin gone
      PROVE  Quiet(u)'
  <2>1. \A j \in Calls : /\ Earns(j, u)' <=> Earns(j, u)
                         /\ Earns(j, u) => call'[j] = call[j]
                         /\ Saves(j, u)' => Saves(j, u) /\ call'[j] = call[j]
    BY <1>4 DEF Earns, Saves
  <2> QED BY <1>4, <2>1, StaysQuiet DEF VoteInv
<1>5. CASE \E v \in Users, c \in Channels : LeaveChannel(v, c)
  BY <1>4, <1>5 DEF LeaveChannel, VotesOf
<1>6. CASE ResolveLockdown
  BY <1>4, <1>6 DEF ResolveLockdown, VotesOf
<1>7. CASE \E l \in locks : ComesDue(l)
  BY <1>4, <1>7 DEF ComesDue, VotesOf
<1>8. CASE UNCHANGED vars
  BY <1>4, <1>8 DEF vars, VotesOf
<1>9. ASSUME NEW v \in Users, Purge(v) PROVE Quiet(u)'
  <2>1. u # v /\ u \notin gone
    BY <1>9 DEF Purge
  <2>2. VotesOf(u)' = VotesOf(u)
    BY <1>9, <2>1 DEF Purge, VotesOf
  <2> QED BY <1>4, <1>9, <2>1, <2>2 DEF Purge
<1> QED BY <1>1, <1>2, <1>3, <1>5, <1>6, <1>7, <1>8, <1>9 DEF Next

(* A vote is worth its points once, in the score and in the log, beside the *)
(* points of other events, for every number of users, requests and          *)
(* proposals, unless two writers of the user's reputation overlapped or one *)
(* stopped half way.                                                       *)
THEOREM VotesCountOnce == Spec => []VoteCounted
<1>1. VoteInv => VoteCounted
  BY DEF VoteInv, VoteCounted, Quiet, Worth, VotedBy, VotesOf
<1> QED BY <1>1, VoteStart, VoteStep, PTL DEF Spec
---------------------------------------------------------------------------
(* While the calls that write the lockdown have not overlapped there is one *)
(* row at most; it has the mode that was asked for, or its time is over;    *)
(* enableLockdown has found the row there is; and who is about to remove a *)
(* row has seen that it is over.                                           *)
Locking(k) == At(k, "enable", "save")
Clearing(k) == call[k] # Idle /\ call[k].at = "clear"

Orderly ==
    /\ \A l, m \in locks : l = m
    /\ \A l \in locks : IF l.due THEN ordered = "none" ELSE ordered = l.mode
    /\ locks = {} => ordered = "none"
    /\ \A k \in Calls : Locking(k) => call[k].found = {l.id : l \in locks}
    /\ \A j, k \in Calls : Locking(j) /\ Locking(k) => j = k
    /\ \A k \in Calls : Clearing(k) =>
         /\ \A l \in locks : l.due
         /\ \A j \in Calls : ~Locking(j)

LockInv == TypeOK /\ (relocked \/ Orderly)

(* The rows and the calls that write them, unchanged.                      *)
LEMMA OrderlyKept ==
  ASSUME Orderly, UNCHANGED <<locks, ordered>>,
         \A j \in Calls : Locking(j)' => Locking(j) /\ call'[j] = call[j],
         \A j \in Calls : Clearing(j)' => Clearing(j)
  PROVE  Orderly'
  BY DEF Orderly

(* The awaits that have nothing to do with a lockdown.                     *)
LEMMA AwaitUnlocked ==
  ASSUME TypeOK, NEW k \in Calls, Await(k)
  PROVE  \/ GetLockdown(k) \/ ClearLockdown(k) \/ EnableSave(k)
         \/ /\ UNCHANGED lockdown
            /\ ~Locking(k)' /\ ~Clearing(k)'
<1> USE DEF At
<1>1. call[k] # Idle /\ call[k] \in Requests /\ call \in [Calls -> Requests \cup {Idle}]
      /\ (call'[k] = Idle \/ call'[k].op = call[k].op)
  BY AwaitKeeps, Busy DEF TypeOK
<1>2. ASSUME Done(k) PROVE ~Locking(k)' /\ ~Clearing(k)'
  BY <1>1, <1>2 DEF Done, Locking, Clearing
<1>3. ASSUME NEW at, Go(k, at), at # "clear", call[k].op # "enable"
      PROVE  ~Locking(k)' /\ ~Clearing(k)'
  <2>1. DOMAIN call[k] = DOMAIN [call[k] EXCEPT !.at = at] /\ "at" \in DOMAIN call[k]
    BY <1>1 DEF Requests, JoinCalls, LeaveCalls, RoleCalls, ChannelCalls, EnterCalls, PostCalls,
           EnableCalls, VoteCalls, EarnCalls, ProfileCalls
  <2>2. call'[k].at = at
    BY <1>1, <1>3, <2>1 DEF Go
  <2> QED BY <1>1, <1>3, <2>2 DEF Locking, Clearing
<1>4. ASSUME call[k].op = "role", RoleCount(k) PROVE call[k].then # "clear"
  BY <1>1, <1>4, RequestKinds DEF RoleCalls
<1>5. ASSUME LeaveList(k) PROVE ~Locking(k)' /\ ~Clearing(k)'
  <2>1. CASE Done(k)
    BY <2>1, <1>2
  <2>2. CASE call' = [call EXCEPT ![k] = [@ EXCEPT !.at = "rows", !.seen = Created]]
    <3>1. call'[k].at = "rows"
      BY <1>1, <1>5, <2>2, RequestKinds DEF LeaveList, LeaveCalls
    <3> QED BY <1>1, <1>5, <3>1 DEF LeaveList, Locking, Clearing
  <2> QED BY <1>5, <2>1, <2>2 DEF LeaveList
<1>6. ASSUME RoleList(k) PROVE ~Locking(k)' /\ ~Clearing(k)'
  <2>1. call'[k].at \in {"save", "revoke"}
    BY <1>1, <1>6, RequestKinds DEF RoleList, RoleCalls
  <2> QED BY <1>1, <1>6, <2>1 DEF RoleList, Locking, Clearing
<1>7. ASSUME ReputationLoad(k) PROVE ~Locking(k)' /\ ~Clearing(k)'
  <2>1. call'[k].at = "score"
    BY <1>1, <1>7, RequestKinds DEF ReputationLoad, VoteCalls, EarnCalls
  <2> QED BY <1>1, <1>7, <2>1 DEF ReputationLoad, Locking, Clearing
<1> QED
  BY <1>2, <1>3, <1>4, <1>5, <1>6, <1>7
  DEF Await, JoinInsert, LeaveRemove, LeaveList, LeaveRows, RoleCount, RoleList, RoleRevoke,
      RoleSave, ChannelSave, ChannelAdmin, RowInsert, ReputationLoad, ReputationScore,
      ReputationLog, VoteInsert, ProfileSave

LEMMA LockAwaits ==
  ASSUME TypeOK, Orderly, NEW k \in Calls, Await(k), ~relocked'
  PROVE  Orderly'
<1> USE DEF lockdown
<1>1. /\ call[k] # Idle /\ call[k] \in Requests /\ call \in [Calls -> Requests \cup {Idle}]
      /\ \A j \in Calls \ {k} : call'[j] = call[j]
      /\ call'[k] = Idle \/ call'[k].op = call[k].op
  BY AwaitKeeps, Busy DEF TypeOK
<1>2. \A j \in Calls \ {k} : /\ Locking(j)' <=> Locking(j)
                             /\ Clearing(j)' <=> Clearing(j)
  BY <1>1 DEF Locking, Clearing, At
<1>3. CASE UNCHANGED lockdown /\ ~Locking(k)' /\ ~Clearing(k)'
  BY <1>1, <1>2, <1>3, OrderlyKept
<1>4. CASE GetLockdown(k)
  <2>1. call[k].op \in {"join", "post"} /\ ~Locking(k) /\ ~Locking(k)'
    BY <1>1, <1>4, RequestKinds DEF GetLockdown, JoinCalls, LeaveCalls, RoleCalls, ChannelCalls,
       EnterCalls, PostCalls, EnableCalls, VoteCalls, EarnCalls, ProfileCalls, Ops, Locking, At
  <2>2. call[k] \in JoinCalls \/ call[k] \in PostCalls
    BY <1>1, <2>1, RequestKinds
  <2>3. CASE Go(k, "write") \/ Done(k)
    <3>1. ~Clearing(k)'
      BY <1>1, <2>2, <2>3 DEF Go, Done, Clearing, JoinCalls, PostCalls
    <3> QED BY <1>1, <1>2, <1>4, <2>1, <3>1, OrderlyKept DEF GetLockdown
  <2>4. ASSUME NEW l \in locks, l.due,
               relocked' = (relocked \/ \E j \in Calls : At(j, "enable", "save"))
        PROVE  Orderly'
    <3>1. \A j \in Calls : ~Locking(j) /\ ~Locking(j)'
      BY <1>2, <2>1, <2>4 DEF Locking
    <3>2. \A m \in locks : m.due
      BY <2>4 DEF Orderly
    <3> QED BY <1>4, <3>1, <3>2 DEF GetLockdown, Orderly
  <2> QED BY <1>4, <2>3, <2>4 DEF GetLockdown
<1>5. CASE ClearLockdown(k)
  <2>1. Clearing(k) /\ \A j \in Calls : ~Locking(j)
    BY <1>5 DEF ClearLockdown, Clearing, Orderly
  <2>2. call[k].op # "enable"
    BY <1>1, <1>5, RequestKinds DEF ClearLockdown, EnableCalls
  <2>3. \A j \in Calls : ~Locking(j)'
    BY <1>1, <1>2, <2>1, <2>2 DEF Locking, At
  <2>4. ordered = "none" /\ locks' \subseteq locks /\ \A l \in locks : l.due
    BY <1>5, <2>1 DEF ClearLockdown, Orderly
  <2>5. ordered' = "none"
    BY <1>5, <2>4 DEF ClearLockdown
  <2> QED BY <2>3, <2>4, <2>5 DEF Orderly
<1>6. CASE EnableSave(k)
  <2>1. Locking(k) /\ call[k].found = {l.id : l \in locks}
    BY <1>6 DEF EnableSave, Locking, Orderly
  <2>2. call'[k] = Idle /\ ~Locking(k)' /\ ~Clearing(k)'
    BY <1>1, <1>6 DEF EnableSave, Done, Locking, Clearing, At
  <2>3. \A j \in Calls : ~Locking(j)' /\ ~Clearing(j)'
    BY <1>2, <2>1, <2>2 DEF Orderly
  <2>4. call[k].mode \in Modes /\ ordered' = call[k].mode
    BY <1>1, <1>6, RequestKinds DEF EnableSave, EnableCalls, At
  <2>5. \E l : locks' = {l} /\ l.mode = call[k].mode /\ l.due = FALSE
    <3>1. CASE locks = {}
      <4>1. locks' = {NewLock(k)}
        BY <1>6, <2>1, <3>1 DEF EnableSave
      <4>2. NewLock(k).mode = call[k].mode /\ NewLock(k).due = FALSE
        BY DEF NewLock
      <4> QED BY <4>1, <4>2
    <3>2. CASE locks # {}
      <4>1. PICK l \in locks : TRUE
        BY <3>2
      <4>2. locks = {l} /\ call[k].found = {l.id}
        BY <2>1, <4>1 DEF Orderly
      <4>3. locks' = {[l EXCEPT !.mode = call[k].mode, !.due = FALSE]}
        BY <1>6, <4>2 DEF EnableSave
      <4>4. l \in Locks
        BY <4>1 DEF TypeOK
      <4> DEFINE m == [l EXCEPT !.mode = call[k].mode, !.due = FALSE]
      <4>5. m.mode = call[k].mode /\ m.due = FALSE
        BY <4>4 DEF Locks
      <4> QED BY <4>3, <4>5
    <3> QED BY <3>1, <3>2
  <2> QED BY <2>3, <2>4, <2>5 DEF Orderly
<1> QED BY <1>3, <1>4, <1>5, <1>6, AwaitUnlocked

LEMMA LockRequests ==
  ASSUME TypeOK, Orderly, NEW k \in Calls, Request(k), ~relocked'
  PROVE  Orderly'
<1> USE DEF seats, rooms, lockdown, polls
<1>a. call[k] = Idle /\ Begin(k, call'[k])
  BY RequestKeeps
<1>0. call[k] = Idle /\ Begin(k, call'[k]) /\ \A j \in Calls \ {k} : call'[j] = call[j]
  BY <1>a DEF Begin, TypeOK
<1>1. \A j \in Calls \ {k} : /\ Locking(j)' <=> Locking(j)
                             /\ Clearing(j)' <=> Clearing(j)
  BY <1>0 DEF Locking, Clearing, At
<1>2. ~Locking(k) /\ ~Clearing(k)
  BY <1>0 DEF Locking, Clearing, At
<1>b. ASSUME NEW c, Begin(k, c) PROVE call'[k] = c
  BY <1>b DEF Begin, TypeOK
<1>3. CASE \E u \in Users, mode \in Modes : EnableFind(k, u, mode)
  <2>1. PICK u \in Users, mode \in Modes : EnableFind(k, u, mode)
    BY <1>3
  <2>2. /\ call'[k] = [op |-> "enable", user |-> u, mode |-> mode, at |-> "save",
                       found |-> {l.id : l \in locks}]
        /\ UNCHANGED <<locks, ordered>>
    BY <2>1, <1>b DEF EnableFind
  <2>3. \A j \in Calls : ~Locking(j) /\ ~Clearing(j)
    BY <1>2, <2>1 DEF EnableFind, Locking, Clearing, At
  <2>4. \A j \in Calls : ~Clearing(j)' /\ (Locking(j)' => j = k)
    BY <1>1, <2>2, <2>3 DEF Clearing
  <2> QED BY <2>2, <2>4 DEF Orderly
<1>4. ASSUME UNCHANGED lockdown, call'[k].op # "enable", call'[k].at # "clear"
      PROVE  Orderly'
  <2>1. ~Locking(k)' /\ ~Clearing(k)'
    BY <1>4 DEF Locking, Clearing, At
  <2> QED BY <1>0, <1>1, <1>4, <2>1, OrderlyKept
<1>5. ASSUME NEW u \in Users, JoinFind(k, u) PROVE Orderly'
  BY <1>b, <1>4, <1>5 DEF JoinFind
<1>6. ASSUME NEW u \in Users, LeaveFind(k, u) PROVE Orderly'
  BY <1>b, <1>4, <1>6 DEF LeaveFind
<1>7. ASSUME NEW u \in Users, NEW role \in Roles, RoleFind(k, u, role) PROVE Orderly'
  <2>1. call'[k].op = "role" /\ call'[k].at \in {"count", "strip", "save"}
    BY <1>b, <1>7 DEF RoleFind, RoleBegin, AfterCount
  <2> QED BY <1>4, <1>7, <2>1 DEF RoleFind, RoleBegin
<1>8. ASSUME NEW u \in Users, NEW c \in Channels, NEW type \in {"group", "broadcast"},
             ChannelCheck(k, u, c, type)
      PROVE  Orderly'
  BY <1>b, <1>4, <1>8 DEF ChannelCheck
<1>9. ASSUME NEW u \in Users, NEW c \in Channels, EnterCheck(k, u, c) \/ PostCheck(k, u, c)
      PROVE  Orderly'
  BY <1>b, <1>4, <1>9 DEF EnterCheck, PostCheck
<1>10. ASSUME NEW u \in Users, NEW p \in Proposals, VoteFind(k, u, p) PROVE Orderly'
  BY <1>b, <1>4, <1>10 DEF VoteFind, VoteBegin
<1>11. ASSUME NEW u \in Users, EarnFind(k, u) \/ ProfileFind(k, u) PROVE Orderly'
  BY <1>b, <1>4, <1>11 DEF EarnFind, ProfileFind
<1> QED BY <1>3, <1>5, <1>6, <1>7, <1>8, <1>9, <1>10, <1>11 DEF Request

LEMMA LockStart == Init => LockInv
<1> SUFFICES ASSUME Init PROVE Orderly
  BY InitTypes DEF LockInv
<1>1. \A k \in Calls : ~Locking(k) /\ ~Clearing(k)
  BY DEF Init, Locking, Clearing, At
<1> QED BY <1>1 DEF Init, Orderly

LEMMA LockStep == LockInv /\ [Next]_vars => LockInv'
<1> SUFFICES ASSUME LockInv, [Next]_vars, ~relocked' PROVE Orderly'
  BY StepTypes DEF LockInv
<1> USE DEF seats, rooms, lockdown, polls
<1>t. TypeOK /\ call \in [Calls -> Requests \cup {Idle}] /\ locks \subseteq Locks
  BY DEF LockInv, TypeOK
<1>1. ASSUME NEW k \in Calls, Request(k) PROVE Orderly'
  <2>1. ~relocked
    BY <1>1 DEF Request, JoinFind, LeaveFind, RoleFind, RoleBegin, ChannelCheck, EnterCheck,
                PostCheck, VoteFind, VoteBegin, EnableFind, EarnFind, ProfileFind
  <2> QED BY <1>1, <2>1, LockRequests DEF LockInv
<1>2. ASSUME NEW k \in Calls, Await(k) PROVE Orderly'
  <2>1. ~relocked
    BY <1>t, <1>2, AwaitUnlocked DEF GetLockdown, ClearLockdown, EnableSave
  <2> QED BY <1>2, <2>1, LockAwaits DEF LockInv
<1>3. ASSUME NEW k \in Calls, Stop(k) PROVE Orderly'
  <2>1. call'[k] = Idle /\ \A j \in Calls \ {k} : call'[j] = call[j]
    BY <1>3, <1>t DEF Stop, Done
  <2>2. ~Locking(k)' /\ ~Clearing(k)'
    BY <2>1 DEF Locking, Clearing, At
  <2>3. Orderly /\ UNCHANGED <<locks, ordered>>
    BY <1>3 DEF Stop, LockInv
  <2>4. \A j \in Calls \ {k} : /\ Locking(j)' <=> Locking(j)
                               /\ Clearing(j)' <=> Clearing(j)
    BY <2>1 DEF Locking, Clearing, At
  <2> QED BY <2>1, <2>2, <2>3, <2>4, OrderlyKept
<1>4. ASSUME UNCHANGED <<lockdown, call>> PROVE Orderly'
  BY <1>4, OrderlyKept DEF LockInv, Locking, Clearing, At
<1>5. CASE ResolveLockdown
  <2>1. Orderly /\ (\A j \in Calls : ~Locking(j)) /\ UNCHANGED call
    BY <1>5 DEF ResolveLockdown, LockInv, Locking
  <2>2. locks' = {} /\ ordered' = "none"
    BY <1>5, <2>1 DEF ResolveLockdown, Orderly
  <2>3. \A j \in Calls : ~Locking(j)'
    BY <2>1 DEF Locking, At
  <2> QED BY <2>2, <2>3 DEF Orderly
<1>6. ASSUME NEW l \in locks, ComesDue(l) PROVE Orderly'
  <2>1. Orderly /\ UNCHANGED call /\ ordered' = "none"
    BY <1>6 DEF ComesDue, LockInv
  <2>2. locks = {l} /\ locks' = {[l EXCEPT !.due = TRUE]}
    BY <1>6, <2>1 DEF ComesDue, Orderly
  <2>3. [l EXCEPT !.due = TRUE].due = TRUE /\ [l EXCEPT !.due = TRUE].id = l.id
    BY <1>t DEF Locks
  <2>4. {m.id : m \in locks'} = {m.id : m \in locks}
    BY <2>2, <2>3
  <2>5. \A j \in Calls : /\ Locking(j)' <=> Locking(j)
                         /\ Clearing(j)' <=> Clearing(j)
    BY <2>1 DEF Locking, Clearing, At
  <2> QED BY <2>1, <2>2, <2>3, <2>4, <2>5 DEF Orderly
<1> QED BY <1>1, <1>2, <1>3, <1>4, <1>5, <1>6 DEF Next, LeaveChannel, Purge, vars

(* The lockdown in force is the one an admin asked for last, until its time *)
(* is over, for every number of requests: unless calls that write it        *)
(* overlapped.                                                             *)
THEOREM LockdownStays == Spec => []LockdownHolds
<1>1. LockInv => LockdownHolds
  <2> SUFFICES ASSUME LockInv, ~relocked
               PROVE  {l.mode : l \in {x \in locks : ~x.due}} = {ordered} \ {"none"}
    BY DEF LockdownHolds
  <2>1. CASE locks = {}
    BY <2>1 DEF LockInv, Orderly
  <2>2. ASSUME NEW l \in locks
        PROVE  {x.mode : x \in {y \in locks : ~y.due}} = {ordered} \ {"none"}
    <3>1. locks = {l} /\ l.mode \in Modes
      BY DEF LockInv, Orderly, TypeOK, Locks
    <3>2. CASE l.due
      BY <3>1, <3>2 DEF LockInv, Orderly
    <3>3. CASE ~l.due
      BY <3>1, <3>3 DEF LockInv, Orderly, Modes
    <3> QED BY <3>2, <3>3
  <2> QED BY <2>1, <2>2
<1> QED BY <1>1, LockStart, LockStep, PTL DEF Spec
---------------------------------------------------------------------------
(* Rows are of channels there are, and rights of broadcast channels; two    *)
(* creations do not meet on a channel; a demotion to member strips first.   *)
InRooms ==
    \A c \in Channels, u \in Users :
        /\ channelRole[c][u] # "none" => kind[c] # "none"
        /\ channelRole[c][u] = "admin" => kind[c] = "broadcast"

Creates(k, c) == At(k, "channel", "save") /\ call[k].channel = c

KnowsRoom(k) ==
    /\ \A c \in Channels : Creates(k, c) => kind[c] = "none"
    /\ At(k, "channel", "admin") => kind[call[k].channel] = "broadcast"
    /\ call[k] # Idle /\ call[k].op \in {"enter", "post"} => kind[call[k].channel] # "none"
    /\ At(k, "role", "count") /\ call[k].role = "member" => call[k].then = "strip"

RoomInv ==
    /\ InRooms
    /\ \A k \in Calls : KnowsRoom(k)
    /\ \A j, k \in Calls : \A c \in Channels : Creates(j, c) /\ Creates(k, c) => j = k

(* What a request keeps when it goes on to another step.                   *)
LEMMA GoFields ==
  ASSUME TypeOK, NEW k \in Calls, call[k] # Idle, NEW at, Go(k, at)
  PROVE  /\ call'[k].at = at /\ call'[k] # Idle
         /\ call'[k].op = call[k].op /\ call'[k].user = call[k].user
         /\ call[k].op \in {"channel", "enter", "post"} => call'[k].channel = call[k].channel
         /\ call[k].op \in {"leave", "role"} => call'[k].seen = call[k].seen
         /\ call[k].op = "role" => /\ call'[k].role = call[k].role /\ call'[k].then = call[k].then
                                   /\ call'[k].row = call[k].row
<1>1. call[k] \in Requests /\ call'[k] = [call[k] EXCEPT !.at = at]
  BY Busy DEF Go, TypeOK
<1>2. CASE call[k] \in JoinCalls
  BY <1>1, <1>2 DEF JoinCalls, Idle
<1>3. CASE call[k] \in LeaveCalls
  BY <1>1, <1>3 DEF LeaveCalls, Idle
<1>4. CASE call[k] \in RoleCalls
  BY <1>1, <1>4 DEF RoleCalls, Idle
<1>5. CASE call[k] \in ChannelCalls
  BY <1>1, <1>5 DEF ChannelCalls, Idle
<1>6. CASE call[k] \in EnterCalls \/ call[k] \in PostCalls
  BY <1>1, <1>6 DEF EnterCalls, PostCalls, Idle
<1>7. CASE call[k] \in EnableCalls \/ call[k] \in VoteCalls
  BY <1>1, <1>7 DEF EnableCalls, VoteCalls, Idle
<1>8. CASE call[k] \in EarnCalls \/ call[k] \in ProfileCalls
  BY <1>1, <1>8 DEF EarnCalls, ProfileCalls, Idle
<1> QED BY <1>1, <1>2, <1>3, <1>4, <1>5, <1>6, <1>7, <1>8 DEF Requests

(* A request that begins leaves the rooms and the other requests alone.    *)
LEMMA RequestFrame ==
  ASSUME TypeOK, NEW k \in Calls, Request(k)
  PROVE  /\ UNCHANGED rooms /\ call[k] = Idle /\ Begin(k, call'[k])
         /\ \A j \in Calls \ {k} : call'[j] = call[j]
<1>1. UNCHANGED rooms
  BY DEF rooms, Request, JoinFind, LeaveFind, RoleFind, RoleBegin, ChannelCheck, EnterCheck,
         PostCheck, VoteFind, VoteBegin, EnableFind, EarnFind, ProfileFind
<1>2. call[k] = Idle /\ Begin(k, call'[k])
  BY RequestKeeps
<1>3. \A j \in Calls \ {k} : call'[j] = call[j]
  BY <1>2 DEF Begin, TypeOK
<1> QED BY <1>1, <1>2, <1>3

(* What it was checked for when it began.                                  *)
Admitted(k) ==
    /\ call[k].op = "channel" => /\ call[k].at = "save" /\ kind[call[k].channel] = "none"
                                 /\ \A j \in Calls \ {k} : ~Creates(j, call[k].channel)
                                 /\ \/ member[call[k].user].role \in {"admin", "moderator"}
                                    \/ Owns(call[k].user)
    /\ call[k].op \in {"enter", "post"} => /\ kind[call[k].channel] # "none"
                                           /\ IsMember(call[k].user)
    /\ call[k].op = "leave" => call[k].at = "remove"
    /\ call[k].op = "role" =>
         /\ call[k].at \in {"count", "strip", "save"}
         /\ call[k].role = "member" /\ call[k].at = "count" => call[k].then = "strip"
         /\ call[k].role = "member" /\ call[k].at = "save" =>
              member[call[k].user].role \notin {"admin", "moderator"}

LEMMA RequestAdmits ==
  ASSUME TypeOK, NEW k \in Calls, Request(k)
  PROVE  Admitted(k)'
<1> USE DEF seats, rooms
<1>0. /\ UNCHANGED <<member, kind, gone>>
      /\ \A j \in Calls \ {k} : call'[j] = call[j]
  BY RequestKeeps, RequestFrame
<1>b. ASSUME NEW c, Begin(k, c) PROVE call'[k] = c
  BY <1>b DEF Begin, TypeOK
<1>1. ASSUME call'[k].op \notin {"channel", "enter", "post", "leave", "role"} PROVE Admitted(k)'
  BY <1>1 DEF Admitted
<1>2. CASE \E u \in Users : JoinFind(k, u)
  BY <1>b, <1>1, <1>2 DEF JoinFind
<1>3. CASE \E u \in Users : LeaveFind(k, u)
  BY <1>b, <1>3 DEF LeaveFind, Admitted
<1>4. ASSUME NEW u \in Users, NEW role \in Roles, RoleFind(k, u, role) PROVE Admitted(k)'
  <2>1. call'[k] = [op |-> "role", user |-> u, row |-> member[u].row, role |-> role,
                    then |-> AfterCount(member[u].role, role), seen |-> {},
                    at |-> IF member[u].role = "admin" /\ role # "admin" THEN "count"
                           ELSE AfterCount(member[u].role, role)]
    BY <1>b, <1>4 DEF RoleFind, RoleBegin
  <2>2. member[u] \in Seats
    BY <1>4 DEF RoleFind, IsMember, TypeOK
  <2> QED BY <1>0, <2>1, <2>2 DEF Admitted, AfterCount, Seats, Roles
<1>5. ASSUME NEW u \in Users, NEW c \in Channels, NEW type \in {"group", "broadcast"},
             ChannelCheck(k, u, c, type)
      PROVE  Admitted(k)'
  <2>1. call'[k] = [op |-> "channel", user |-> u, channel |-> c, type |-> type, at |-> "save"]
    BY <1>b, <1>5 DEF ChannelCheck
  <2>2. \A j \in Calls \ {k} : ~Creates(j, c)'
    BY <1>0, <1>5 DEF ChannelCheck, Creates, At
  <2> QED BY <1>0, <1>5, <2>1, <2>2 DEF Admitted, ChannelCheck, Creates, At, Owns
<1>6. ASSUME NEW u \in Users, NEW c \in Channels, EnterCheck(k, u, c) \/ PostCheck(k, u, c)
      PROVE  Admitted(k)'
  <2>1. /\ call'[k].op \in {"enter", "post"} /\ call'[k].user = u /\ call'[k].channel = c
        /\ kind[c] # "none" /\ IsMember(u)
    BY <1>b, <1>6 DEF EnterCheck, PostCheck, Created
  <2> QED BY <1>0, <2>1 DEF Admitted, IsMember
<1>7. CASE \E u \in Users : \E p \in Proposals : VoteFind(k, u, p)
  BY <1>b, <1>1, <1>7 DEF VoteFind, VoteBegin
<1>8. CASE \E u \in Users : \E mode \in Modes : EnableFind(k, u, mode)
  BY <1>b, <1>1, <1>8 DEF EnableFind
<1>9. CASE \E u \in Users : EarnFind(k, u) \/ ProfileFind(k, u)
  BY <1>b, <1>1, <1>9 DEF EarnFind, ProfileFind
<1> QED BY <1>2, <1>3, <1>4, <1>5, <1>6, <1>7, <1>8, <1>9 DEF Request

LEMMA RoomStart == Init => RoomInv
<1> SUFFICES ASSUME Init PROVE RoomInv
  OBVIOUS
<1>1. \A k \in Calls : call[k] = Idle
  BY DEF Init
<1>2. InRooms
  BY DEF Init, InRooms
<1>3. \A k \in Calls : KnowsRoom(k)
  BY <1>1 DEF KnowsRoom, Creates, At
<1> QED BY <1>1, <1>2, <1>3 DEF RoomInv, Creates, At

(* A request keeps what it knows of rooms that stay.                       *)
LEMMA KnowsKept ==
  ASSUME NEW j \in Calls, KnowsRoom(j), UNCHANGED kind,
         call'[j] = call[j] \/ call'[j] = Idle
  PROVE  KnowsRoom(j)' /\ \A c \in Channels : Creates(j, c)' => Creates(j, c)
  BY DEF KnowsRoom, Creates, At

LEMMA RoomRequests ==
  ASSUME TypeOK, RoomInv, NEW k \in Calls, Request(k)
  PROVE  RoomInv'
<1> USE DEF rooms
<1>0. /\ UNCHANGED <<kind, channelRole>>
      /\ \A j \in Calls \ {k} : call'[j] = call[j]
      /\ Admitted(k)'
  BY RequestFrame, RequestAdmits
<1>1. KnowsRoom(k)'
  BY <1>0 DEF Admitted, KnowsRoom, Creates, At
<1>2. \A j \in Calls \ {k} : KnowsRoom(j)'
  BY <1>0, KnowsKept DEF RoomInv
<1>3. ASSUME NEW i \in Calls, NEW j \in Calls, NEW c \in Channels, Creates(i, c)', Creates(j, c)'
      PROVE  i = j
  BY <1>0, <1>3 DEF RoomInv, Admitted, Creates, At
<1> QED BY <1>0, <1>1, <1>2, <1>3 DEF RoomInv, InRooms

(* One request goes on, and the rows change as the rooms allow.            *)
LEMMA RoomMoves ==
  ASSUME RoomInv, NEW k \in Calls, UNCHANGED kind, InRooms',
         \A j \in Calls \ {k} : call'[j] = call[j],
         \/ call'[k] = Idle
         \/ /\ call'[k].op # "channel"
            /\ call'[k].op \in {"enter", "post"} =>
                 call'[k].channel = call[k].channel /\ kind[call[k].channel] # "none"
            /\ call'[k].op = "role" => call'[k].at # "count"
  PROVE  RoomInv'
<1>1. KnowsRoom(k)' /\ \A c \in Channels : ~Creates(k, c)'
  BY DEF KnowsRoom, Creates, At
<1>2. \A j \in Calls \ {k} : KnowsRoom(j)' /\ \A c \in Channels : Creates(j, c)' => Creates(j, c)
  BY KnowsKept DEF RoomInv
<1> QED BY <1>1, <1>2 DEF RoomInv

LEMMA RoomAwaits ==
  ASSUME TypeOK, TypeOK', RoomInv, NEW k \in Calls, Await(k)
  PROVE  RoomInv'
<1> USE DEF seats, rooms, At
<1>0. /\ call[k] # Idle /\ call[k] \in Requests /\ call \in [Calls -> Requests \cup {Idle}]
      /\ \A j \in Calls \ {k} : call'[j] = call[j]
  BY AwaitKeeps, Busy DEF TypeOK
<1>u. call[k].user \in Users
  BY <1>0, RequestKinds
<1>d. ASSUME Done(k), UNCHANGED kind, InRooms' PROVE RoomInv'
  <2>1. call'[k] = Idle
    BY <1>0, <1>d DEF Done
  <2> QED BY <1>0, <1>d, <2>1, RoomMoves
<1>g. ASSUME NEW at, Go(k, at), UNCHANGED kind, InRooms', call[k].op # "channel",
             call[k].op = "role" => at # "count"
      PROVE  RoomInv'
  <2>1. /\ call'[k].op = call[k].op /\ call'[k].at = at
        /\ call[k].op \in {"enter", "post"} =>
             call'[k].channel = call[k].channel /\ kind[call[k].channel] # "none"
    BY <1>0, <1>g, GoFields DEF RoomInv, KnowsRoom
  <2> QED BY <1>0, <1>g, <2>1, RoomMoves
<1>r. UNCHANGED rooms => InRooms' /\ UNCHANGED kind
  BY DEF RoomInv, InRooms
<1>1. CASE GetLockdown(k)
  <2>1. call[k] \in JoinCalls \/ call[k] \in PostCalls
    BY <1>0, <1>1, RequestKinds DEF GetLockdown, JoinCalls, LeaveCalls, RoleCalls, ChannelCalls,
       EnterCalls, PostCalls, EnableCalls, VoteCalls, EarnCalls, ProfileCalls, Ops
  <2>2. call[k].op \in {"join", "post"}
    BY <2>1 DEF JoinCalls, PostCalls
  <2>3. ASSUME NEW l, call' = [call EXCEPT ![k] = [@ EXCEPT !.at = "clear", !.lock = l]]
        PROVE  RoomInv'
    <3>1. call'[k].op = call[k].op
          /\ (call[k].op = "post" => call'[k].channel = call[k].channel)
      BY <1>0, <2>1, <2>3 DEF JoinCalls, PostCalls
    <3>2. call[k].op = "post" => kind[call[k].channel] # "none"
      BY <1>0 DEF RoomInv, KnowsRoom
    <3> QED BY <1>0, <1>1, <1>r, <2>2, <3>1, <3>2, RoomMoves DEF GetLockdown
  <2> QED BY <1>1, <1>d, <1>g, <1>r, <2>2, <2>3 DEF GetLockdown
<1>2. CASE ClearLockdown(k)
  <2>1. call[k].op \in {"join", "post"}
    BY <1>0, <1>2, RequestKinds DEF ClearLockdown, JoinCalls, LeaveCalls, RoleCalls,
       ChannelCalls, EnterCalls, PostCalls, EnableCalls, VoteCalls, EarnCalls, ProfileCalls, Ops
  <2> QED BY <1>2, <1>g, <1>r, <2>1 DEF ClearLockdown
<1>3. CASE JoinInsert(k) \/ RoleSave(k) \/ EnableSave(k) \/ VoteInsert(k) \/ ProfileSave(k)
  BY <1>3, <1>d, <1>r DEF JoinInsert, RoleSave, EnableSave, VoteInsert, ProfileSave
<1>4. CASE LeaveRemove(k) \/ ReputationScore(k) \/ ReputationLog(k)
  BY <1>4, <1>d, <1>g, <1>r DEF LeaveRemove, ReputationScore, ReputationLog
<1>5. CASE LeaveList(k)
  <2>1. CASE Done(k)
    BY <1>5, <1>d, <1>r, <2>1 DEF LeaveList
  <2>2. CASE call' = [call EXCEPT ![k] = [@ EXCEPT !.at = "rows", !.seen = Created]]
    <3>1. call'[k].op = "leave"
      BY <1>0, <1>5, <2>2, RequestKinds DEF LeaveList, LeaveCalls
    <3> QED BY <1>0, <1>5, <1>r, <3>1, RoomMoves DEF LeaveList
  <2> QED BY <1>5, <2>1, <2>2 DEF LeaveList
<1>6. CASE LeaveRows(k)
  <2>1. \A c \in Channels, u \in Users : channelRole'[c][u] \in {channelRole[c][u], "none"}
    BY <1>6, <1>u DEF LeaveRows, TypeOK
  <2>2. InRooms' /\ UNCHANGED kind
    BY <1>6, <2>1 DEF LeaveRows, RoomInv, InRooms
  <2> QED BY <1>6, <1>d, <2>2 DEF LeaveRows
<1>7. CASE RoleCount(k)
  <2>1. call[k].then # "count"
    BY <1>0, <1>7, RequestKinds DEF RoleCount, RoleCalls
  <2> QED BY <1>7, <1>d, <1>g, <1>r, <2>1 DEF RoleCount
<1>8. CASE RoleList(k)
  <2>1. call'[k].op = "role" /\ call'[k].at # "count"
    BY <1>0, <1>8, RequestKinds DEF RoleList, RoleCalls
  <2> QED BY <1>0, <1>8, <1>r, <2>1, RoomMoves DEF RoleList
<1>9. CASE RoleRevoke(k)
  <2>1. \A c \in Channels, u \in Users : channelRole'[c][u] \in {channelRole[c][u], "none"}
    BY <1>9, <1>u DEF RoleRevoke, TypeOK
  <2>2. InRooms' /\ UNCHANGED kind
    BY <1>9, <2>1 DEF RoleRevoke, RoomInv, InRooms
  <2> QED BY <1>9, <1>g, <2>2 DEF RoleRevoke
<1>10. CASE ChannelSave(k)
  <2> DEFINE new == call[k].channel
  <2>1. call[k] \in ChannelCalls /\ new \in Channels /\ Creates(k, new)
    BY <1>0, <1>10, RequestKinds DEF ChannelSave, Creates, ChannelCalls
  <2>2. /\ kind[new] = "none" /\ kind'[new] = call[k].type
        /\ \A c \in Channels \ {new} : kind'[c] = kind[c]
        /\ \A c \in Channels : kind[c] # "none" => kind'[c] = kind[c]
    BY <1>10, <2>1 DEF ChannelSave, RoomInv, KnowsRoom, TypeOK
  <2>3. InRooms'
    BY <1>10, <2>1, <2>2 DEF ChannelSave, RoomInv, InRooms
  <2>4. ASSUME NEW j \in Calls \ {k}
        PROVE  KnowsRoom(j)' /\ \A c \in Channels : Creates(j, c)' => Creates(j, c)
    <3>1. call'[j] = call[j] /\ KnowsRoom(j) /\ ~Creates(j, new)
      BY <1>0, <2>1 DEF RoomInv
    <3>2. call[j] # Idle /\ call[j].op \in {"channel", "enter", "post"} =>
            call[j].channel \in Channels
      BY Busy, RequestKinds DEF ChannelCalls, EnterCalls, PostCalls
    <3>3. \A c \in Channels : Creates(j, c)' => Creates(j, c) /\ kind'[c] = "none"
      BY <2>2, <3>1 DEF Creates, KnowsRoom
    <3>4. At(j, "channel", "admin")' => kind'[call'[j].channel] = "broadcast"
      BY <2>2, <3>1, <3>2 DEF KnowsRoom
    <3>5. call'[j] # Idle /\ call'[j].op \in {"enter", "post"} => kind'[call'[j].channel] # "none"
      BY <2>2, <3>1, <3>2 DEF KnowsRoom
    <3>6. At(j, "role", "count")' /\ call'[j].role = "member" => call'[j].then = "strip"
      BY <3>1 DEF KnowsRoom
    <3> QED BY <3>3, <3>4, <3>5, <3>6 DEF KnowsRoom
  <2>5. KnowsRoom(k)' /\ \A c \in Channels : ~Creates(k, c)'
    <3>1. CASE call[k].type = "broadcast" /\ Go(k, "admin")
      <4>1. call'[k].at = "admin" /\ call'[k].op = "channel" /\ call'[k].channel = new
        BY <1>0, <1>10, <3>1, GoFields DEF ChannelSave
      <4> QED BY <2>2, <3>1, <4>1 DEF KnowsRoom, Creates
    <3>2. CASE Done(k)
      <4>1. call'[k] = Idle
        BY <1>0, <3>2 DEF Done
      <4> QED BY <4>1 DEF KnowsRoom, Creates
    <3> QED BY <1>10, <3>1, <3>2 DEF ChannelSave
  <2> QED BY <2>3, <2>4, <2>5 DEF RoomInv
<1>11. CASE ChannelAdmin(k)
  <2>1. call[k].channel \in Channels /\ kind[call[k].channel] = "broadcast"
    BY <1>0, <1>11, RequestKinds DEF ChannelAdmin, ChannelCalls, RoomInv, KnowsRoom
  <2>2. \A c \in Channels, u \in Users :
          channelRole'[c][u] = channelRole[c][u] \/ c = call[k].channel
    BY <1>11, <1>u, <2>1 DEF ChannelAdmin, TypeOK
  <2>3. InRooms' /\ UNCHANGED kind
    BY <1>11, <2>1, <2>2 DEF ChannelAdmin, RoomInv, InRooms
  <2> QED BY <1>11, <1>d, <2>3 DEF ChannelAdmin
<1>12. CASE RowInsert(k)
  <2>1. call[k].channel \in Channels /\ kind[call[k].channel] # "none"
    BY <1>0, <1>12, RequestKinds DEF RowInsert, EnterCalls, PostCalls, RoomInv, KnowsRoom
  <2>2. \A c \in Channels, u \in Users :
          \/ channelRole'[c][u] = channelRole[c][u]
          \/ c = call[k].channel /\ channelRole'[c][u] = "member"
    BY <1>12, <1>u, <2>1 DEF RowInsert, TypeOK
  <2>3. InRooms' /\ UNCHANGED kind
    BY <1>12, <2>1, <2>2 DEF RowInsert, RoomInv, InRooms
  <2> QED BY <1>12, <1>d, <2>3 DEF RowInsert
<1>13. CASE ReputationLoad(k)
  <2>1. call'[k].op \in {"vote", "earn"}
    BY <1>0, <1>13, RequestKinds DEF ReputationLoad, VoteCalls, EarnCalls
  <2> QED BY <1>0, <1>13, <1>r, <2>1, RoomMoves DEF ReputationLoad
<1> QED BY <1>1, <1>2, <1>3, <1>4, <1>5, <1>6, <1>7, <1>8, <1>9, <1>10, <1>11, <1>12, <1>13
        DEF Await

LEMMA RoomStep ==
  ASSUME TypeOK, TypeOK', RoomInv, [Next]_vars
  PROVE  RoomInv'
<1> USE DEF rooms, seats
<1>t. call \in [Calls -> Requests \cup {Idle}]
  BY DEF TypeOK
<1>1. ASSUME NEW k \in Calls, Stop(k) PROVE RoomInv'
  <2>1. call'[k] = Idle /\ \A j \in Calls \ {k} : call'[j] = call[j]
    BY <1>1, <1>t DEF Stop, Done
  <2>2. InRooms' /\ UNCHANGED kind
    BY <1>1 DEF Stop, RoomInv, InRooms
  <2> QED BY <2>1, <2>2, RoomMoves
<1>2. ASSUME UNCHANGED <<kind, call>>, InRooms' PROVE RoomInv'
  <2>1. \A j \in Calls : KnowsRoom(j)' /\ \A c \in Channels : Creates(j, c)' => Creates(j, c)
    BY <1>2, KnowsKept DEF RoomInv
  <2> QED BY <1>2, <2>1 DEF RoomInv
<1>3. ASSUME NEW u \in Users, NEW c \in Channels, LeaveChannel(u, c) PROVE RoomInv'
  <2>1. \A d \in Channels, v \in Users : channelRole'[d][v] \in {channelRole[d][v], "none"}
    BY <1>3 DEF LeaveChannel, TypeOK
  <2>2. InRooms'
    BY <1>3, <2>1 DEF LeaveChannel, RoomInv, InRooms
  <2> QED BY <1>2, <1>3, <2>2 DEF LeaveChannel
<1>4. CASE UNCHANGED <<rooms, call>>
  <2>1. InRooms'
    BY <1>4 DEF RoomInv, InRooms
  <2> QED BY <1>2, <1>4, <2>1
<1>5. ASSUME NEW u \in Users, Purge(u) PROVE RoomInv'
  <2>1. \A d \in Channels, v \in Users : channelRole'[d][v] \in {channelRole[d][v], "none"}
    BY <1>5 DEF Purge, TypeOK
  <2>2. InRooms'
    BY <1>5, <2>1 DEF Purge, RoomInv, InRooms
  <2> QED BY <1>2, <1>5, <2>2 DEF Purge
<1> QED BY <1>1, <1>3, <1>4, <1>5, RoomRequests, RoomAwaits
     DEF Next, ResolveLockdown, ComesDue, vars
---------------------------------------------------------------------------
(* What a user's requests rely on as long as none disturbs another: a       *)
(* leaving knows the rows there are, a demotion the rights there are, a     *)
(* creation the role that allows it, an entry the membership.              *)
Of(k, u) == call[k] # Idle /\ call[k].user = u
Rightless(u) == \A c \in Channels : channelRole[c][u] # "admin"
Rowless(u) == \A c \in Channels : channelRole[c][u] = "none"
Leads(u) == member[u].role \in {"admin", "moderator"}

Relies(k, u) ==
    /\ At(k, "leave", "rows") =>
         \A c \in Channels : channelRole[c][u] # "none" => c \in call[k].seen
    /\ At(k, "role", "revoke") =>
         \A c \in Channels : channelRole[c][u] = "admin" => c \in call[k].seen
    /\ At(k, "role", "save") /\ call[k].role = "member" => Rightless(u) \/ Leaving(u)
    /\ call[k].op = "channel" => Leads(u)
    /\ call[k].op \in {"enter", "post"} => IsMember(u)

SeatPairs == {{"leave", "channel"}, {"role", "channel"}, {"leave", "enter"}, {"leave", "post"}}
Apart(j, k) == {call[j].op, call[k].op} \notin SeatPairs

Seated(u) ==
    /\ \A j, k \in Calls : Of(j, u) /\ Of(k, u) => Apart(j, k)
    /\ \A k \in Calls : Of(k, u) => Relies(k, u)
    /\ Leads(u) \/ Rightless(u) \/ Leaving(u)
    /\ IsMember(u) \/ Rowless(u) \/ Leaving(u)

SeatInv == TypeOK /\ OwnerInv /\ RoomInv /\ \A u \in Users : <<u, "seat">> \in clash \/ Seated(u)

(* A user whom a step does not concern stays seated.                       *)
LEMMA SeatedKept ==
  ASSUME NEW u \in Users, Seated(u), member'[u] = member[u],
         \A c \in Channels : channelRole'[c][u] = channelRole[c][u],
         \A j \in Calls : Of(j, u)' <=> Of(j, u),
         \A j \in Calls : Of(j, u) => call'[j] = call[j]
  PROVE  Seated(u)'
<1>1. Leaving(u)' <=> Leaving(u)
  <2>1. Leaving(u) <=> \E j \in Calls : Of(j, u) /\ call[j].op = "leave" /\ call[j].at # "remove"
    BY DEF Leaving, Of, Idle
  <2>2. Leaving(u)' <=> \E j \in Calls : Of(j, u)' /\ call'[j].op = "leave"
                                         /\ call'[j].at # "remove"
    BY DEF Leaving, Of, Idle
  <2> QED BY <2>1, <2>2
<1>2. /\ Rightless(u)' <=> Rightless(u)
      /\ Rowless(u)' <=> Rowless(u)
      /\ Leads(u)' <=> Leads(u)
      /\ IsMember(u)' <=> IsMember(u)
  BY DEF Rightless, Rowless, Leads, IsMember
<1>3. \A j \in Calls : Of(j, u) => Relies(j, u)'
  BY <1>1, <1>2 DEF Seated, Relies, At
<1>4. \A j, k \in Calls : Of(j, u) /\ Of(k, u) => Apart(j, k)'
  BY DEF Seated, Apart
<1> QED BY <1>1, <1>2, <1>3, <1>4 DEF Seated

(* Which requests are not under way beside each other for an undisturbed    *)
(* user.                                                                   *)
LEMMA ApartPairs ==
  ASSUME NEW j \in Calls, NEW k \in Calls, Apart(j, k)
  PROVE  /\ call[j].op = "leave" => call[k].op \notin {"channel", "enter", "post"}
         /\ call[j].op = "role" => call[k].op # "channel"
         /\ call[j].op = "channel" => call[k].op \notin {"leave", "role"}
         /\ call[j].op \in {"enter", "post"} => call[k].op # "leave"
<1>1. {"channel", "leave"} = {"leave", "channel"} /\ {"channel", "role"} = {"role", "channel"}
      /\ {"enter", "leave"} = {"leave", "enter"} /\ {"post", "leave"} = {"leave", "post"}
  OBVIOUS
<1> QED BY <1>1 DEF Apart, SeatPairs

(* A request of the user goes on: what it may change, and what it must      *)
(* leave true.                                                             *)
LEMMA SeatedMoves ==
  ASSUME NEW u \in Users, Seated(u), NEW k \in Calls, Of(k, u),
         \A j \in Calls \ {k} : call'[j] = call[j],
         \/ call'[k] = Idle
         \/ call'[k].op = call[k].op /\ call'[k].user = u /\ Relies(k, u)',
         \A c \in Channels : channelRole'[c][u] # "none" /\ channelRole[c][u] = "none" =>
             call[k].op \in {"channel", "enter", "post"},
         \A c \in Channels : channelRole'[c][u] = "admin" /\ channelRole[c][u] # "admin" =>
             call[k].op = "channel",
         IsMember(u) /\ ~IsMember(u)' => call[k].op = "leave",
         Leads(u) /\ ~Leads(u)' => call[k].op \in {"leave", "role"},
         Leaving(u) => Rowless(u)' \/ Leaving(u)',
         Leads(u)' \/ Rightless(u)' \/ Leaving(u)',
         IsMember(u)' \/ Rowless(u)' \/ Leaving(u)'
  PROVE  Seated(u)'
<1>1. \A j \in Calls : Of(j, u)' => Of(j, u)
  BY DEF Of
<1>2. \A i, j \in Calls : Of(i, u)' /\ Of(j, u)' => Apart(i, j)'
  <2> SUFFICES ASSUME NEW i \in Calls, NEW j \in Calls, Of(i, u)', Of(j, u)' PROVE Apart(i, j)'
    OBVIOUS
  <2>1. call'[i].op = call[i].op /\ call'[j].op = call[j].op
    BY DEF Of
  <2>2. Apart(i, j)
    BY <1>1 DEF Seated
  <2> QED BY <2>1, <2>2 DEF Apart
<1>3. Rowless(u)' => Rightless(u)'
  BY DEF Rowless, Rightless
<1>4. ASSUME NEW j \in Calls, j # k, Of(j, u)' PROVE Relies(j, u)'
  <2>1. call'[j] = call[j] /\ Of(j, u) /\ Relies(j, u) /\ Apart(j, k)
    BY <1>1, <1>4 DEF Seated
  <2>2. At(j, "leave", "rows")' =>
          \A c \in Channels : channelRole'[c][u] # "none" => c \in call'[j].seen
    BY <2>1, ApartPairs DEF Relies, At
  <2>3. At(j, "role", "revoke")' =>
          \A c \in Channels : channelRole'[c][u] = "admin" => c \in call'[j].seen
    BY <2>1, ApartPairs DEF Relies, At
  <2>4. At(j, "role", "save")' /\ call'[j].role = "member" => Rightless(u)' \/ Leaving(u)'
    <3>1. call[j].op = "role" /\ Rightless(u) => Rightless(u)'
      BY <2>1, ApartPairs DEF Rightless
    <3> QED BY <1>3, <2>1, <3>1 DEF Relies, At
  <2>5. call'[j].op = "channel" => Leads(u)'
    BY <2>1, ApartPairs DEF Relies
  <2>6. call'[j].op \in {"enter", "post"} => IsMember(u)'
    BY <2>1, ApartPairs DEF Relies
  <2> QED BY <2>2, <2>3, <2>4, <2>5, <2>6 DEF Relies
<1>5. \A j \in Calls : Of(j, u)' => Relies(j, u)'
  BY <1>4 DEF Of
<1> QED BY <1>2, <1>5 DEF Seated

(* An await that changes neither memberships nor rows.                     *)
LEMMA SeatedGoesOn ==
  ASSUME TypeOK, NEW u \in Users, Seated(u), NEW k \in Calls, Of(k, u), call[k].op # "leave",
         \A j \in Calls \ {k} : call'[j] = call[j], UNCHANGED <<member, channelRole>>,
         \/ call'[k] = Idle
         \/ /\ call'[k].op = call[k].op /\ call'[k].user = u
            /\ call[k].op = "role" => Relies(k, u)'
  PROVE  Seated(u)'
<1>1. Leaving(u)' <=> Leaving(u)
  BY DEF Leaving, Idle
<1>2. /\ Rightless(u)' <=> Rightless(u)
      /\ Rowless(u)' <=> Rowless(u)
      /\ Leads(u)' <=> Leads(u)
      /\ IsMember(u)' <=> IsMember(u)
  BY DEF Rightless, Rowless, Leads, IsMember
<1>3. ASSUME call'[k] # Idle, call[k].op # "role" PROVE Relies(k, u)'
  BY <1>2, <1>3 DEF Relies, Seated, At
<1>4. \/ call'[k] = Idle
      \/ call'[k].op = call[k].op /\ call'[k].user = u /\ Relies(k, u)'
  BY <1>3
<1> QED BY <1>1, <1>2, <1>4, SeatedMoves DEF Seated

LEMMA SeatedAwaits ==
  ASSUME TypeOK, RoomInv, NEW u \in Users, Seated(u), NEW k \in Calls, Await(k), Of(k, u)
  PROVE  Seated(u)'
<1> USE DEF seats, rooms, At
<1>t. TypeOK
  OBVIOUS
<1>0. /\ call[k] # Idle /\ call[k] \in Requests /\ call \in [Calls -> Requests \cup {Idle}]
      /\ call[k].user = u /\ Relies(k, u)
      /\ \A j \in Calls \ {k} : call'[j] = call[j]
      /\ call'[k] = Idle \/ (call'[k].op = call[k].op /\ call'[k].user = call[k].user)
  BY <1>t, AwaitKeeps, Busy DEF TypeOK, Of, Seated
<1>c. /\ channelRole \in [Channels -> [Users -> {"none", "member", "admin"}]]
      /\ member \in [Users -> Seats \cup {NoSeat}]
  BY <1>t DEF TypeOK
<1>d. Done(k) => call'[k] = Idle
  BY <1>0 DEF Done
<1>s. ASSUME UNCHANGED <<member, channelRole>>, call[k].op \notin {"leave", "role"} \/ Done(k),
             call[k].op # "leave"
      PROVE  Seated(u)'
  BY <1>0, <1>t, <1>d, <1>s, SeatedGoesOn
(* Rows that only go, while whether the user is leaving stays the same.    *)
<1>f. ASSUME call[k].op # "leave" PROVE Leaving(u)' <=> Leaving(u)
  BY <1>0, <1>f DEF Leaving, Idle
<1>1. CASE GetLockdown(k) \/ ClearLockdown(k)
  <2>1. call[k].op \in {"join", "post"}
    BY <1>0, <1>1, RequestKinds DEF GetLockdown, ClearLockdown, JoinCalls, LeaveCalls, RoleCalls,
       ChannelCalls, EnterCalls, PostCalls, EnableCalls, VoteCalls, EarnCalls, ProfileCalls, Ops
  <2> QED BY <1>1, <1>s, <2>1 DEF GetLockdown, ClearLockdown
<1>2. CASE JoinInsert(k)
  <2>1. call[k].op = "join" /\ call'[k] = Idle /\ UNCHANGED channelRole
    BY <1>2, <1>d DEF JoinInsert
  <2>2. /\ member'[u] = member[u] \/ (~IsMember(u) /\ IsMember(u)')
        /\ Leads(u) => Leads(u)'
    BY <1>0, <1>c, <1>2 DEF JoinInsert, IsMember, NoSeat, Leads
  <2>3. Rightless(u)' <=> Rightless(u)
    BY <2>1 DEF Rightless
  <2>4. Rowless(u)' <=> Rowless(u)
    BY <2>1 DEF Rowless
  <2>5. IsMember(u) => IsMember(u)'
    BY <2>2 DEF IsMember
  <2> QED BY <1>0, <1>f, <2>1, <2>2, <2>3, <2>4, <2>5, SeatedMoves DEF Seated, Of
<1>3. CASE LeaveRemove(k)
  <2>1. call'[k].at = "list" /\ call'[k].op = "leave" /\ call'[k].user = u /\ call'[k] # Idle
    BY <1>0, <1>t, <1>3, GoFields DEF LeaveRemove
  <2>2. Leaving(u)' /\ Relies(k, u)'
    BY <2>1 DEF Leaving, Relies
  <2>3. UNCHANGED channelRole
    BY <1>3 DEF LeaveRemove
  <2> QED BY <1>0, <1>3, <2>1, <2>2, <2>3, SeatedMoves DEF LeaveRemove, Of
<1>4. CASE LeaveList(k)
  <2>0. call[k] \in LeaveCalls /\ UNCHANGED <<member, channelRole, kind>>
        /\ call[k].op = "leave"
    BY <1>0, <1>4, RequestKinds DEF LeaveList
  <2>1. CASE Created = {} /\ Done(k)
    <3>1. Rowless(u)'
      BY <2>0, <2>1 DEF Rowless, Created, RoomInv, InRooms
    <3>2. Rightless(u)' /\ (Leads(u)' <=> Leads(u)) /\ (IsMember(u)' <=> IsMember(u))
      BY <2>0, <3>1 DEF Rightless, Rowless, Leads, IsMember
    <3> QED BY <1>0, <1>d, <2>0, <2>1, <3>1, <3>2, SeatedMoves DEF Of
  <2>2. CASE call' = [call EXCEPT ![k] = [@ EXCEPT !.at = "rows", !.seen = Created]]
    <3>1. call'[k].at = "rows" /\ call'[k].op = "leave" /\ call'[k].user = u
          /\ call'[k].seen = Created
      BY <1>0, <2>0, <2>2 DEF LeaveCalls
    <3>2. \A c \in Channels : channelRole'[c][u] # "none" => c \in Created
      BY <2>0 DEF RoomInv, InRooms, Created
    <3>3. Leaving(u)' /\ Relies(k, u)'
      BY <3>1, <3>2 DEF Leaving, Relies
    <3>4. (Leads(u)' <=> Leads(u)) /\ (IsMember(u)' <=> IsMember(u))
      BY <2>0 DEF Leads, IsMember
    <3> QED BY <1>0, <2>0, <3>1, <3>3, <3>4, SeatedMoves DEF Of
  <2> QED BY <1>4, <2>1, <2>2 DEF LeaveList
<1>5. CASE LeaveRows(k)
  <2>1. call[k].op = "leave" /\ call'[k] = Idle /\ UNCHANGED member
    BY <1>5, <1>d DEF LeaveRows
  <2>2. Rowless(u)'
    BY <1>0, <1>c, <1>5 DEF LeaveRows, Rowless, Relies
  <2>3. Rightless(u)' /\ (Leads(u)' <=> Leads(u)) /\ (IsMember(u)' <=> IsMember(u))
    BY <2>1, <2>2 DEF Rightless, Rowless, Leads, IsMember
  <2> QED BY <1>0, <2>1, <2>2, <2>3, SeatedMoves DEF Of, Rowless
<1>6. CASE RoleCount(k)
  <2>1. call[k].op = "role" /\ UNCHANGED <<member, channelRole>>
    BY <1>6 DEF RoleCount
  <2>2. CASE Done(k)
    BY <1>s, <2>1, <2>2
  <2>3. CASE Go(k, call[k].then)
    <3>1. call'[k].at = call[k].then /\ call'[k].role = call[k].role /\ call'[k].op = "role"
      BY <1>0, <1>t, <2>1, <2>3, GoFields
    <3>2. call[k].role = "member" => call[k].then = "strip"
      BY <1>0, <1>6 DEF RoleCount, RoomInv, KnowsRoom
    <3>3. call[k].then \in {"strip", "save"}
      BY <1>0, <2>1, RequestKinds DEF RoleCalls
    <3>4. Relies(k, u)'
      BY <3>1, <3>2, <3>3 DEF Relies
    <3> QED BY <1>0, <1>t, <2>1, <3>4, SeatedGoesOn
  <2> QED BY <1>6, <2>2, <2>3 DEF RoleCount
<1>7. CASE RoleList(k)
  <2>1. call[k].op = "role" /\ UNCHANGED <<member, channelRole, kind>>
    BY <1>7 DEF RoleList
  <2>2. /\ call'[k].op = "role" /\ call'[k].seen = Broadcasts
        /\ call'[k].at = IF Broadcasts = {} THEN "save" ELSE "revoke"
    BY <1>0, <1>7, <2>1, RequestKinds DEF RoleList, RoleCalls
  <2>3. \A c \in Channels : channelRole'[c][u] = "admin" => c \in Broadcasts
    BY <2>1 DEF RoomInv, InRooms, Broadcasts
  <2>4. Relies(k, u)'
    BY <2>2, <2>3 DEF Relies, Rightless
  <2> QED BY <1>0, <1>t, <2>1, <2>4, SeatedGoesOn
<1>8. CASE RoleRevoke(k)
  <2>1. call[k].op = "role" /\ UNCHANGED member /\ call'[k].at = "save" /\ call'[k].op = "role"
    BY <1>0, <1>t, <1>8, GoFields DEF RoleRevoke
  <2>2. \A c \in Channels : channelRole'[c][u] \in {channelRole[c][u], "none"}
                            /\ channelRole'[c][u] # "admin"
    BY <1>0, <1>c, <1>8 DEF RoleRevoke, Relies
  <2>3. Rightless(u)' /\ (Rowless(u) => Rowless(u)') /\ Relies(k, u)'
    BY <2>1, <2>2 DEF Rightless, Rowless, Relies
  <2>4. (Leads(u)' <=> Leads(u)) /\ (IsMember(u)' <=> IsMember(u))
    BY <2>1 DEF Leads, IsMember
  <2> QED BY <1>0, <1>f, <2>1, <2>2, <2>3, <2>4, SeatedMoves DEF Of, Seated
<1>9. CASE RoleSave(k)
  <2>1. call[k].op = "role" /\ call'[k] = Idle /\ UNCHANGED channelRole
    BY <1>9, <1>d DEF RoleSave
  <2>2. call[k].row \in Nat \ {0} /\ call[k].role \in Roles
    BY <1>0, <2>1, RequestKinds DEF RoleCalls
  <2>3. \/ member'[u] = member[u]
        \/ IsMember(u) /\ member'[u] = [member[u] EXCEPT !.role = call[k].role]
    <3>1. call[k].user = u
      BY <1>0, <1>9 DEF Of
    <3>2. \/ member' = member
          \/ /\ member[u].row = call[k].row
             /\ member' = [member EXCEPT ![u] = [member[u] EXCEPT !.role = call[k].role]]
      BY <1>9, <3>1 DEF RoleSave
    <3>3. member[u].row = call[k].row => IsMember(u)
      BY <2>2 DEF IsMember, NoSeat
    <3> QED BY <1>c, <3>2, <3>3
  <2>4. \/ member'[u] = member[u]
        \/ IsMember(u) /\ IsMember(u)' /\ member'[u].role = call[k].role
    BY <1>c, <2>2, <2>3 DEF IsMember, Seats, NoSeat, Roles
  <2>5. Rightless(u)' <=> Rightless(u)
    BY <2>1 DEF Rightless
  <2>6. Rowless(u)' <=> Rowless(u)
    BY <2>1 DEF Rowless
  <2>7. Leads(u)' \/ Rightless(u)' \/ Leaving(u)'
    <3>1. CASE member'[u] = member[u]
      BY <1>f, <2>1, <2>5, <3>1 DEF Leads, Seated
    <3>2. CASE member'[u].role = call[k].role
      BY <1>0, <1>9, <1>f, <2>1, <2>2, <2>5, <3>2 DEF RoleSave, Relies, Leads, Roles
    <3> QED BY <2>4, <3>1, <3>2
  <2>8. IsMember(u)' <=> IsMember(u)
    BY <2>4 DEF IsMember
  <2> QED BY <1>0, <1>f, <2>1, <2>6, <2>7, <2>8, SeatedMoves DEF Of, Seated
<1>10. CASE ChannelSave(k)
  <2>1. call[k].op = "channel" /\ UNCHANGED <<member, channelRole>>
    BY <1>10 DEF ChannelSave
  <2> QED BY <1>s, <2>1
<1>11. CASE ChannelAdmin(k)
  <2>1. call[k].op = "channel" /\ call'[k] = Idle /\ UNCHANGED member /\ Leads(u)
    BY <1>0, <1>11, <1>d DEF ChannelAdmin, Relies
  <2>2. Leads(u)' /\ IsMember(u)'
    BY <2>1 DEF Leads, IsMember, NoSeat
  <2> QED BY <1>0, <1>f, <2>1, <2>2, SeatedMoves DEF Of
<1>12. CASE RowInsert(k)
  <2>1. call[k].op \in {"enter", "post"} /\ call'[k] = Idle /\ UNCHANGED member /\ IsMember(u)
    BY <1>0, <1>12, <1>d DEF RowInsert, Relies
  <2>2. call[k].channel \in Channels
    BY <1>0, <2>1, RequestKinds DEF EnterCalls, PostCalls
  <2>3. \A c \in Channels : channelRole'[c][u] = channelRole[c][u] \/ channelRole'[c][u] = "member"
    BY <1>0, <1>c, <1>12, <2>2 DEF RowInsert
  <2>4. (Rightless(u) => Rightless(u)') /\ (Leads(u)' <=> Leads(u)) /\ IsMember(u)'
    BY <2>1, <2>3 DEF Rightless, Leads, IsMember
  <2> QED BY <1>0, <1>f, <2>1, <2>3, <2>4, SeatedMoves DEF Of, Seated
<1>13. CASE \/ EnableSave(k) \/ ReputationLoad(k) \/ ReputationScore(k) \/ ReputationLog(k)
            \/ VoteInsert(k) \/ ProfileSave(k)
  BY <1>13, <1>s DEF EnableSave, ReputationLoad, ReputationScore, ReputationLog, VoteInsert,
                      ProfileSave
<1> QED BY <1>1, <1>2, <1>3, <1>4, <1>5, <1>6, <1>7, <1>8, <1>9, <1>10, <1>11, <1>12, <1>13
        DEF Await

(* An await is about its own user.                                         *)
LEMMA SeatedBesideAwaits ==
  ASSUME TypeOK, NEW u \in Users, Seated(u), NEW k \in Calls, Await(k), ~Of(k, u)
  PROVE  Seated(u)'
<1> USE DEF seats, rooms, At
<1>0. /\ call[k] # Idle /\ call[k] \in Requests /\ call[k].user # u
      /\ \A j \in Calls \ {k} : call'[j] = call[j]
      /\ call'[k] = Idle \/ (call'[k].op = call[k].op /\ call'[k].user = call[k].user)
  BY AwaitKeeps, Busy DEF Of
<1>c. /\ channelRole \in [Channels -> [Users -> {"none", "member", "admin"}]]
      /\ member \in [Users -> Seats \cup {NoSeat}]
  BY SMTT(40) DEF TypeOK
<1>1. member'[u] = member[u]
  BY <1>0, <1>c, ZenonT(60) DEF Await, GetLockdown, ClearLockdown, JoinInsert, LeaveRemove, LeaveList,
     LeaveRows, RoleCount, RoleList, RoleRevoke, RoleSave, ChannelSave, ChannelAdmin, RowInsert,
     EnableSave, ReputationLoad, ReputationScore, ReputationLog, VoteInsert, ProfileSave
<1>2. \A c \in Channels : channelRole'[c][u] = channelRole[c][u]
  <2>1. CASE UNCHANGED channelRole
    BY <2>1
  <2>2. CASE LeaveRows(k) \/ RoleRevoke(k)
    BY <1>0, <1>c, <2>2 DEF LeaveRows, RoleRevoke
  <2>3. CASE ChannelAdmin(k) \/ RowInsert(k)
    <3>1. call[k].channel \in Channels
      BY <1>0, <2>3, RequestKinds DEF ChannelAdmin, RowInsert, ChannelCalls, EnterCalls, PostCalls
    <3> QED BY <1>0, <1>c, <2>3, <3>1 DEF ChannelAdmin, RowInsert
  <2> QED BY <2>1, <2>2, <2>3 DEF Await, GetLockdown, ClearLockdown, JoinInsert, LeaveRemove,
     LeaveList, RoleCount, RoleList, RoleSave, ChannelSave, EnableSave, ReputationLoad,
     ReputationScore, ReputationLog, VoteInsert, ProfileSave
<1>3. \A j \in Calls : (Of(j, u)' <=> Of(j, u)) /\ (Of(j, u) => call'[j] = call[j])
  BY <1>0 DEF Of
<1> QED BY <1>1, <1>2, <1>3, SeatedKept

(* A request that begins beside one that it disturbs is a clash.           *)
LEMMA SeatedRequests ==
  ASSUME TypeOK, OwnerInv, NEW u \in Users, Seated(u), NEW k \in Calls, Request(k),
         <<u, "seat">> \notin clash'
  PROVE  Seated(u)'
<1> USE DEF seats, rooms
<1>t. TypeOK
  OBVIOUS
<1>0. /\ UNCHANGED <<member, kind, channelRole, gone>>
      /\ call[k] = Idle /\ Begin(k, call'[k]) /\ Admitted(k)'
      /\ \A j \in Calls \ {k} : call'[j] = call[j]
  BY <1>t, RequestKeeps, RequestFrame, RequestAdmits
<1>1. CASE ~Of(k, u)'
  BY <1>0, <1>1, SeatedKept DEF Of
<1>2. CASE Of(k, u)'
  <2>1. Leaving(u)' <=> Leaving(u)
    BY <1>0 DEF Leaving, Admitted, Idle
  <2>2. /\ Rightless(u)' <=> Rightless(u)
        /\ Rowless(u)' <=> Rowless(u)
        /\ Leads(u)' <=> Leads(u)
        /\ IsMember(u)' <=> IsMember(u)
    BY <1>0 DEF Rightless, Rowless, Leads, IsMember
  <2>3. Relies(k, u)'
    <3>1. Owns(u)' => Leads(u)'
      BY <1>0 DEF OwnerInv, Leads, Owns
    <3> QED BY <1>0, <1>2, <2>1, <2>2, <3>1 DEF Admitted, Relies, At, Of, Seated, Leads, IsMember
  <2>4. \A j \in Calls \ {k} : Of(j, u)' => Relies(j, u)'
    BY <1>0, <2>1, <2>2 DEF Relies, Seated, Of, At
  <2>5. ASSUME NEW j \in Calls, j # k, Of(j, u)' PROVE Apart(j, k)' /\ Apart(k, j)'
    <3>1. call[j] # Idle /\ call[j].user = u /\ call'[j] = call[j]
      BY <1>0, <2>5 DEF Of
    <3>2. SeatPairs \subseteq Disturb
      BY DEF SeatPairs, Disturb
    <3>3. {call[j].op, call'[k].op} \in SeatPairs => What(call'[k].op) = "seat"
      BY DEF SeatPairs, What, Points
    <3>5. {call[j].op, call'[k].op} \notin SeatPairs
      BY <1>0, <1>2, <3>1, <3>2, <3>3 DEF Begin, Of
    <3>4. {call'[k].op, call'[j].op} = {call'[j].op, call'[k].op}
      OBVIOUS
    <3> QED BY <3>1, <3>4, <3>5 DEF Apart
  <2>6. Apart(k, k)'
    BY DEF Apart, SeatPairs
  <2>7. \A i, j \in Calls \ {k} : Of(i, u)' /\ Of(j, u)' => Apart(i, j)'
    BY <1>0 DEF Seated, Of, Apart
  <2> QED BY <2>1, <2>2, <2>3, <2>4, <2>5, <2>6, <2>7 DEF Seated
<1> QED BY <1>1, <1>2

LEMMA SeatStart == Init => SeatInv
<1> SUFFICES ASSUME Init, NEW u \in Users PROVE Seated(u)
  BY AdminStart, RoomStart DEF SeatInv, AdminInv
<1>1. \A k \in Calls : ~Of(k, u)
  BY DEF Init, Of
<1>2. Rightless(u) /\ Rowless(u)
  BY DEF Init, Rightless, Rowless
<1> QED BY <1>1, <1>2 DEF Seated

LEMMA SeatStep == SeatInv /\ [Next]_vars => SeatInv'
<1> SUFFICES ASSUME SeatInv, [Next]_vars PROVE SeatInv'
  OBVIOUS
<1> USE DEF seats, rooms
<1>t. OwnerInv' /\ TypeOK /\ TypeOK' /\ RoomInv'
  BY StepTypes, OwnerStep, RoomStep DEF SeatInv
<1>c. call \in [Calls -> Requests \cup {Idle}]
  BY <1>t DEF TypeOK
<1> SUFFICES ASSUME NEW u \in Users, <<u, "seat">> \notin clash' PROVE Seated(u)'
  BY <1>t DEF SeatInv
<1>1. ASSUME NEW k \in Calls, Request(k) PROVE Seated(u)'
  <2>1. <<u, "seat">> \notin clash
    BY <1>1, <1>t, RequestFrame DEF Begin
  <2> QED BY <1>1, <2>1, SeatedRequests DEF SeatInv
<1>2. ASSUME NEW k \in Calls, Await(k) PROVE Seated(u)'
  <2>1. Seated(u)
    BY <1>2, <1>t, AwaitKeeps DEF SeatInv
  <2> QED BY <1>2, <1>t, <2>1, SeatedAwaits, SeatedBesideAwaits DEF SeatInv
<1>3. ASSUME NEW k \in Calls, Stop(k) PROVE Seated(u)'
  <2>1. call[k] # Idle /\ call'[k] = Idle /\ \A j \in Calls \ {k} : call'[j] = call[j]
    BY <1>3, <1>c DEF Stop, Done
  <2>2. UNCHANGED <<member, channelRole>> /\ Seated(u)
    BY <1>3 DEF Stop, SeatInv
  <2>3. CASE Of(k, u)
    <3>1. call[k].op # "leave"
      BY <1>3, <2>3 DEF Stop, Of, What, Points
    <3> QED BY <1>t, <2>1, <2>2, <2>3, <3>1, SeatedGoesOn
  <2>4. CASE ~Of(k, u)
    BY <2>1, <2>2, <2>4, SeatedKept DEF Of
  <2> QED BY <2>3, <2>4
<1>4. ASSUME NEW v \in Users, NEW c \in Channels, LeaveChannel(v, c) PROVE Seated(u)'
  <2>1. /\ Seated(u) /\ UNCHANGED <<member, call>>
        /\ \A d \in Channels : channelRole'[d][u] \in {channelRole[d][u], "none"}
    BY <1>4, <1>t DEF LeaveChannel, SeatInv, TypeOK
  <2>2. /\ Rightless(u) => Rightless(u)'
        /\ Rowless(u) => Rowless(u)'
        /\ Leads(u)' <=> Leads(u)
        /\ IsMember(u)' <=> IsMember(u)
        /\ Leaving(u)' <=> Leaving(u)
    BY <2>1 DEF Rightless, Rowless, Leads, IsMember, Leaving
  <2>3. \A j \in Calls : Of(j, u)' => Relies(j, u)'
    BY <2>1, <2>2 DEF Relies, Seated, Of, At
  <2> QED BY <2>1, <2>2, <2>3 DEF Seated, Of, Apart
<1>5. CASE UNCHANGED <<member, channelRole, call, clash>>
  BY <1>5, SeatedKept DEF SeatInv, Of
<1>6. ASSUME NEW v \in Users, Purge(v) PROVE Seated(u)'
  <2>1. /\ Seated(u) /\ UNCHANGED call /\ \A j \in Calls : Of(j, u)' <=> Of(j, u)
    BY <1>6 DEF Purge, SeatInv, Of
  <2>2. CASE u # v
    <3>1. member'[u] = member[u] /\ \A c \in Channels : channelRole'[c][u] = channelRole[c][u]
      BY <1>6, <1>t, <2>2 DEF Purge, TypeOK
    <3> QED BY <2>1, <3>1, SeatedKept
  <2>3. CASE u = v
    <3>1. Rowless(u)' /\ Rightless(u)' /\ ~Leads(u)'
      BY <1>6, <1>t, <2>3 DEF Purge, TypeOK, Rowless, Rightless, Leads, NoSeat
    <3>2. \A j \in Calls : Of(j, u) => call[j].op \in {"role", "earn"}
      BY <1>6, <2>3 DEF Purge, Of
    <3>3. \A j \in Calls : Of(j, u)' => Relies(j, u)'
      BY <2>1, <3>1, <3>2 DEF Relies, Rightless, At
    <3> QED BY <2>1, <3>1, <3>3 DEF Seated, Apart
  <2> QED BY <2>2, <2>3
<1> QED BY <1>1, <1>2, <1>3, <1>4, <1>5, <1>6 DEF Next, ResolveLockdown, ComesDue, vars

(* "channel-admin must not outlive the group role that granted it", and     *)
(* leaving "also drops every channel membership": for every number of       *)
(* users, channels and requests, unless two requests on the user that       *)
(* disturb each other overlapped or a leaving stopped half way.            *)
THEOREM RowsFollow == Spec => []RowsFollowMembers
<1>1. SeatInv => RowsFollowMembers
  BY DEF SeatInv, Seated, RowsFollowMembers, RightsFollowRole, RowsOfMembers, Leads, Rightless,
         Rowless
<1> QED BY <1>1, SeatStart, SeatStep, PTL DEF Spec
=============================================================================
