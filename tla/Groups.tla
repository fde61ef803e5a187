------------------------------- MODULE Groups -------------------------------
(***************************************************************************)
(* One private group (groups.service.ts) after createGroup: its memberships *)
(* and roles, its channels and their member rows, its lockdown rows, the    *)
(* votes on its proposals with the reputation that they and other events    *)
(* earn, and the purge of deactivated accounts, which may take its owner.   *)
(*                                                                         *)
(* No call locks anything and none runs in a transaction: each is a         *)
(* sequence of awaits, so Calls of them interleave at every await that      *)
(* reads or writes what another writes.  A find followed by a write of that *)
(* row by its id is one step where nothing in between can change what the   *)
(* write does (leaveChannel, resolveLockdown, the implicit channel row).    *)
(***************************************************************************)
EXTENDS Integers, FiniteSets

CONSTANTS
  Users, Owner,      \* the users; the one who created the group
  Channels,          \* ids of channels that may be created
  Proposals,         \* the active proposals of the group
  Calls,             \* requests in flight
  MaxCalls, MaxLocks \* bounds: requests begun, lockdown rows inserted

ASSUME OwnerAssumption == Owner \in Users
ASSUME ProposalsAssumption == IsFiniteSet(Proposals)
ASSUME BoundAssumption == MaxCalls \in Nat /\ MaxLocks \in Nat

VARIABLES
  member,       \* [Users -> [role, row]]: the membership and the id of its row
  joined,       \* membership rows inserted so far
  gone,         \* users whose account was purged
  unguarded,    \* how an admin went, in a group without an owner, that the
                \*   count of admins did not guard (see Unguard)
  kind,         \* [Channels -> "none" | "group" | "broadcast"]
  channelRole,  \* [Channels -> [Users -> "none" | "member" | "admin"]]
  locks,        \* the lockdown rows of the group: [id, mode, due]
  issued,       \* lockdown rows inserted so far
  score, logs,  \* [Users -> points and log rows], an event for a point
  votes,        \* the rows of vote: <<user, proposal>>
  earned,       \* [Users -> events other than votes whose points were added]
  call,         \* what each request is doing
  begun,        \* requests begun
  clash,        \* <<user, what>>: calls on the user that disturb each other
                \*   overlapped, or one of them stopped half way
  ordered,      \* the mode that the last enableLockdown or resolve asked for
  relocked      \* calls that write the lockdown overlapped

seats == <<member, joined, gone, unguarded>>
rooms == <<kind, channelRole>>
lockdown == <<locks, issued, ordered, relocked>>
polls == <<score, logs, votes, earned>>
vars == <<seats, rooms, lockdown, polls, call, begun, clash>>

Roles == {"admin", "moderator", "member"}
Modes == {"approval", "mute_new", "full"}
Seats == [role: Roles, row: Nat \ {0}]
NoSeat == [role |-> "none", row |-> 0]
Locks == [id: Nat, mode: Modes, due: BOOLEAN]

(* What a request keeps between two of its awaits.                         *)
JoinCalls == [op: {"join"}, user: Users, at: {"gate", "clear", "write"}, lock: Nat]
LeaveCalls == [op: {"leave"}, user: Users, at: {"remove", "list", "rows"}, row: Nat \ {0},
               seen: SUBSET Channels]
RoleCalls == [op: {"role"}, user: Users, at: {"count", "strip", "revoke", "save"},
              row: Nat \ {0}, role: Roles, then: {"strip", "save"}, seen: SUBSET Channels]
ChannelCalls == [op: {"channel"}, user: Users, channel: Channels,
                 type: {"group", "broadcast"}, at: {"save", "admin"}]
EnterCalls == [op: {"enter"}, user: Users, channel: Channels, at: {"write"}]
PostCalls == [op: {"post"}, user: Users, channel: Channels, at: {"gate", "clear", "write"},
              lock: Nat]
EnableCalls == [op: {"enable"}, user: Users, mode: Modes, at: {"save"}, found: SUBSET Nat]
VoteCalls == [op: {"vote"}, user: Users, proposal: Proposals,
              at: {"load", "score", "log", "insert"}, score: Nat]
EarnCalls == [op: {"earn"}, user: Users, at: {"load", "score", "log"}, score: Nat]
ProfileCalls == [op: {"profile"}, user: Users, at: {"store"}, score: Nat]
Requests == JoinCalls \cup LeaveCalls \cup RoleCalls \cup ChannelCalls \cup EnterCalls
            \cup PostCalls \cup EnableCalls \cup VoteCalls \cup EarnCalls \cup ProfileCalls
Idle == [op |-> "idle"]

Created == {c \in Channels : kind[c] # "none"}
Broadcasts == {c \in Channels : kind[c] = "broadcast"}
IsMember(u) == member[u] # NoSeat
Admins == {u \in Users : member[u].role = "admin"}
Owns(u) == u = Owner /\ Owner \notin gone

At(k, op, at) == call[k] # Idle /\ call[k].op = op /\ call[k].at = at
Go(k, at) == call' = [call EXCEPT ![k] = [@ EXCEPT !.at = at]]
Done(k) == call' = [call EXCEPT ![k] = Idle]

(* Pairs of calls on one user that can undo each other's work: what leaving *)
(* or a demotion takes away while the other hands it out, and two writers   *)
(* of the user's reputation.                                                *)
Points == {"vote", "earn"}
Disturb == {{"leave", "channel"}, {"role", "channel"}, {"leave", "enter"}, {"leave", "post"},
            {"vote"}, {"earn"}, {"vote", "earn"}, {"vote", "profile"}, {"earn", "profile"}}
What(op) == IF op \in Points \cup {"profile"} THEN "vote" ELSE "seat"

Begin(k, c) ==
    /\ call[k] = Idle /\ begun < MaxCalls
    /\ begun' = begun + 1
    /\ call' = [call EXCEPT ![k] = c]
    /\ clash' = IF \E j \in Calls : call[j] # Idle /\ call[j].user = c.user
                                    /\ {call[j].op, c.op} \in Disturb
                THEN clash \cup {<<c.user, What(c.op)>>} ELSE clash

---------------------------------------------------------------------------
(* createGroup has saved the group and its owner's membership.             *)
Founded == [u \in Users |-> IF u = Owner THEN [role |-> "admin", row |-> 1] ELSE NoSeat]

Init ==
    /\ member = Founded /\ joined = 1 /\ gone = {} /\ unguarded = {}
    /\ kind = [c \in Channels |-> "none"]
    /\ channelRole = [c \in Channels |-> [u \in Users |-> "none"]]
    /\ locks = {} /\ issued = 0 /\ ordered = "none" /\ relocked = FALSE
    /\ score = [u \in Users |-> 0] /\ logs = score /\ votes = {} /\ earned = score
    /\ call = [k \in Calls |-> Idle] /\ begun = 0 /\ clash = {}

---------------------------------------------------------------------------
(* joinGroup: somebody who has no membership yet.                          *)
JoinFind(k, u) ==
    /\ ~IsMember(u) /\ u \notin gone
    /\ Begin(k, [op |-> "join", user |-> u, at |-> "gate", lock |-> 0])
    /\ UNCHANGED <<seats, rooms, lockdown, polls>>

(* What a lockdown in force lets through: a join only if it mutes the new,  *)
(* a post unless it mutes the new and the author is one of them.            *)
Admits(op, mode) == op = "post" \/ mode = "mute_new"
Refuses(op, mode) == (op = "join") = (mode # "mute_new")

(* getLockdown, in joinGroup and in addMessage: one row, if there is any;  *)
(* one that is over is to be removed.                                      *)
GetLockdown(k) ==
    /\ call[k] # Idle /\ call[k].at = "gate"
    /\ IF locks = {} THEN Go(k, "write") /\ UNCHANGED relocked
       ELSE \E l \in locks :
              \/ /\ l.due
                 /\ call' = [call EXCEPT ![k] = [@ EXCEPT !.at = "clear", !.lock = l.id]]
                 /\ relocked' = (relocked \/ \E j \in Calls : At(j, "enable", "save"))
              \/ ~l.due /\ Admits(call[k].op, l.mode) /\ Go(k, "write") /\ UNCHANGED relocked
              \/ ~l.due /\ Refuses(call[k].op, l.mode) /\ Done(k) /\ UNCHANGED relocked
    /\ UNCHANGED <<seats, rooms, locks, issued, ordered, polls, begun, clash>>

ClearLockdown(k) ==
    /\ call[k] # Idle /\ call[k].at = "clear"
    /\ locks' = {l \in locks : l.id # call[k].lock}
    /\ Go(k, "write")
    /\ UNCHANGED <<seats, rooms, issued, ordered, relocked, polls, begun, clash>>

(* The unique index refuses a second membership.                           *)
JoinInsert(k) ==
    /\ At(k, "join", "write")
    /\ LET u == call[k].user IN
       IF IsMember(u) THEN UNCHANGED seats
       ELSE /\ joined' = joined + 1
            /\ member' = [member EXCEPT ![u] = [role |-> "member", row |-> joined']]
            /\ UNCHANGED <<gone, unguarded>>
    /\ Done(k)
    /\ UNCHANGED <<rooms, lockdown, polls, begun, clash>>

---------------------------------------------------------------------------
(* What "A group must keep at least one admin" rests on in a group without *)
(* an owner is the count of a demotion.  It does not guard an admin who     *)
(* leaves or is purged as the last one, nor one who goes while a change of  *)
(* a role is past its count.                                                *)
Demoting(j) == /\ call[j] # Idle /\ call[j].op = "role" /\ call[j].role # "admin"
               /\ call[j].at # "count"
Unguard(u, why, last, others) ==
    unguarded' = IF /\ Owner \in gone \cup {u} /\ u \in Admins
                    /\ last \/ \E j \in others : Demoting(j)
                 THEN unguarded \cup {why} ELSE unguarded

(* leaveGroup: not the owner, if the group has one.                        *)
LeaveFind(k, u) ==
    /\ IsMember(u) /\ ~Owns(u)
    /\ Begin(k, [op |-> "leave", user |-> u, at |-> "remove", row |-> member[u].row,
                 seen |-> {}])
    /\ UNCHANGED <<seats, rooms, lockdown, polls>>

LeaveRemove(k) ==
    /\ At(k, "leave", "remove")
    /\ LET u == call[k].user IN
       IF member[u].row = call[k].row
       THEN /\ member' = [member EXCEPT ![u] = NoSeat]
            /\ Unguard(u, "leaving", Admins = {u}, Calls)
       ELSE UNCHANGED <<member, unguarded>>
    /\ Go(k, "list")
    /\ UNCHANGED <<joined, gone, rooms, lockdown, polls, begun, clash>>

LeaveList(k) ==
    /\ At(k, "leave", "list")
    /\ IF Created = {} THEN Done(k)
       ELSE call' = [call EXCEPT ![k] = [@ EXCEPT !.at = "rows", !.seen = Created]]
    /\ UNCHANGED <<seats, rooms, lockdown, polls, begun, clash>>

(* Variant: only the rights in broadcast channels are dropped.             *)
LeaveBroadcasts(k) ==
    /\ At(k, "leave", "rows")
    /\ channelRole' = [c \in Channels |->
         IF c \in call[k].seen \cap Broadcasts
         THEN [channelRole[c] EXCEPT ![call[k].user] = "none"] ELSE channelRole[c]]
    /\ Done(k)
    /\ UNCHANGED <<seats, kind, lockdown, polls, begun, clash>>

LeaveRows(k) ==
    /\ At(k, "leave", "rows")
    /\ channelRole' = [c \in Channels |->
         IF c \in call[k].seen THEN [channelRole[c] EXCEPT ![call[k].user] = "none"]
         ELSE channelRole[c]]
    /\ Done(k)
    /\ UNCHANGED <<seats, kind, lockdown, polls, begun, clash>>

---------------------------------------------------------------------------
(* updateMemberRole by an admin (GroupRoleGuard), and what it does next.   *)
AfterCount(was, role) == IF was # "member" /\ role = "member" THEN "strip" ELSE "save"

RoleBegin(k, u, role) ==
    /\ Admins # {}
    /\ Begin(k, [op |-> "role", user |-> u, row |-> member[u].row, role |-> role,
                 then |-> AfterCount(member[u].role, role), seen |-> {},
                 at |-> IF member[u].role = "admin" /\ role # "admin" THEN "count"
                        ELSE AfterCount(member[u].role, role)])
    /\ UNCHANGED <<seats, rooms, lockdown, polls>>

(* Variant: the owner's role may be changed, too.                          *)
RoleAnyone(k, u, role) == IsMember(u) /\ RoleBegin(k, u, role)
(* Variant: nobody looks whether the user is a member.                     *)
RoleStranger(k, u, role) == ~Owns(u) /\ RoleBegin(k, u, role)
RoleFind(k, u, role) == IsMember(u) /\ ~Owns(u) /\ RoleBegin(k, u, role)

(* "A group must keep at least one admin."                                 *)
RoleCount(k) ==
    /\ At(k, "role", "count")
    /\ IF Cardinality(Admins) <= 1 THEN Done(k) ELSE Go(k, call[k].then)
    /\ UNCHANGED <<seats, rooms, lockdown, polls, begun, clash>>

(* revokeBroadcastChannelAdmins: the broadcast channels, then the rows.    *)
RoleList(k) ==
    /\ At(k, "role", "strip")
    /\ call' = [call EXCEPT ![k] = [@ EXCEPT !.seen = Broadcasts,
                                             !.at = IF Broadcasts = {} THEN "save" ELSE "revoke"]]
    /\ UNCHANGED <<seats, rooms, lockdown, polls, begun, clash>>

(* Variant: the revocation is left out.                                    *)
RevokeNothing(k) ==
    /\ At(k, "role", "revoke")
    /\ Go(k, "save")
    /\ UNCHANGED <<seats, rooms, lockdown, polls, begun, clash>>

RoleRevoke(k) ==
    /\ At(k, "role", "revoke")
    /\ LET u == call[k].user IN
       channelRole' = [c \in Channels |->
         IF c \in call[k].seen /\ channelRole[c][u] = "admin"
         THEN [channelRole[c] EXCEPT ![u] = "none"] ELSE channelRole[c]]
    /\ Go(k, "save")
    /\ UNCHANGED <<seats, kind, lockdown, polls, begun, clash>>

(* A row that was removed meanwhile is inserted again with neither user nor *)
(* group (the relations were not loaded), so it is nobody's membership.     *)
RoleSave(k) ==
    /\ At(k, "role", "save")
    /\ LET u == call[k].user IN
       IF member[u].row = call[k].row
       THEN /\ member' = [member EXCEPT ![u].role = call[k].role]
            /\ IF call[k].role = "admin" THEN UNCHANGED unguarded
               ELSE Unguard(u, "demotion", FALSE, Calls \ {k})
       ELSE UNCHANGED <<member, unguarded>>
    /\ Done(k)
    /\ UNCHANGED <<joined, gone, rooms, lockdown, polls, begun, clash>>

---------------------------------------------------------------------------
(* createChannel: an admin, a moderator or the owner.                      *)
ChannelCheck(k, u, c, type) ==
    /\ member[u].role \in {"admin", "moderator"} \/ Owns(u)
    /\ kind[c] = "none" /\ \A j \in Calls : ~(At(j, "channel", "save") /\ call[j].channel = c)
    /\ Begin(k, [op |-> "channel", user |-> u, channel |-> c, type |-> type, at |-> "save"])
    /\ UNCHANGED <<seats, rooms, lockdown, polls>>

ChannelSave(k) ==
    /\ At(k, "channel", "save")
    /\ kind' = [kind EXCEPT ![call[k].channel] = call[k].type]
    /\ IF call[k].type = "broadcast" THEN Go(k, "admin") ELSE Done(k)
    /\ UNCHANGED <<seats, channelRole, lockdown, polls, begun, clash>>

(* The unique index refuses a second row of the creator.                   *)
ChannelAdmin(k) ==
    /\ At(k, "channel", "admin")
    /\ LET c == call[k].channel IN
       channelRole' = IF channelRole[c][call[k].user] = "none"
                      THEN [channelRole EXCEPT ![c][call[k].user] = "admin"] ELSE channelRole
    /\ Done(k)
    /\ UNCHANGED <<seats, kind, lockdown, polls, begun, clash>>

(* joinChannel: assertCanReadChannel, for a member of the group.           *)
EnterCheck(k, u, c) ==
    /\ c \in Created /\ IsMember(u)
    /\ Begin(k, [op |-> "enter", user |-> u, channel |-> c, at |-> "write"])
    /\ UNCHANGED <<seats, rooms, lockdown, polls>>

(* addMessage in a regular channel: the membership, the lockdown, the row. *)
PostCheck(k, u, c) ==
    /\ kind[c] = "group" /\ IsMember(u)
    /\ Begin(k, [op |-> "post", user |-> u, channel |-> c, at |-> "gate", lock |-> 0])
    /\ UNCHANGED <<seats, rooms, lockdown, polls>>

RowInsert(k) ==
    /\ At(k, "enter", "write") \/ At(k, "post", "write")
    /\ LET c == call[k].channel IN
       channelRole' = IF channelRole[c][call[k].user] = "none"
                      THEN [channelRole EXCEPT ![c][call[k].user] = "member"] ELSE channelRole
    /\ Done(k)
    /\ UNCHANGED <<seats, kind, lockdown, polls, begun, clash>>

LeaveChannel(u, c) ==
    /\ channelRole[c][u] # "none"
    /\ channelRole' = [channelRole EXCEPT ![c][u] = "none"]
    /\ UNCHANGED <<seats, kind, lockdown, polls, call, begun, clash>>

---------------------------------------------------------------------------
(* enableLockdown: the row there is, if any, then its update or a new row. *)
EnableFind(k, u, mode) ==
    /\ u \in Admins
    /\ Begin(k, [op |-> "enable", user |-> u, mode |-> mode, at |-> "save",
                 found |-> {l.id : l \in locks}])
    /\ issued < MaxLocks
    /\ relocked' = (relocked \/ \E j \in Calls : call[j] # Idle
                                  /\ (At(j, "enable", "save") \/ call[j].at = "clear"))
    /\ UNCHANGED <<seats, rooms, locks, issued, ordered, polls>>

NewLock(k) == [id |-> issued + 1, mode |-> call[k].mode, due |-> FALSE]

(* Variant: every lockdown is a row of its own.                            *)
EnableInsert(k) ==
    /\ At(k, "enable", "save")
    /\ locks' = locks \cup {NewLock(k)} /\ issued' = issued + 1
    /\ ordered' = call[k].mode
    /\ Done(k)
    /\ UNCHANGED <<seats, rooms, relocked, polls, begun, clash>>

(* A row that is gone comes back without its group: it locks nothing.      *)
EnableSave(k) ==
    /\ At(k, "enable", "save")
    /\ IF call[k].found = {} THEN locks' = locks \cup {NewLock(k)} /\ issued' = issued + 1
       ELSE /\ \E id \in call[k].found :
                  locks' = {IF l.id = id THEN [l EXCEPT !.mode = call[k].mode, !.due = FALSE]
                            ELSE l : l \in locks}
            /\ UNCHANGED issued
    /\ ordered' = call[k].mode
    /\ Done(k)
    /\ UNCHANGED <<seats, rooms, relocked, polls, begun, clash>>

(* resolveLockdown removes one row.                                        *)
ResolveLockdown ==
    /\ Admins # {}
    /\ \E l \in locks : locks' = locks \ {l}
    /\ ordered' = "none"
    /\ relocked' = (relocked \/ \E j \in Calls : At(j, "enable", "save"))
    /\ UNCHANGED <<seats, rooms, issued, polls, call, begun, clash>>

(* The time activeUntil of a row passes.                                   *)
ComesDue(l) ==
    /\ ~l.due
    /\ locks' = (locks \ {l}) \cup {[l EXCEPT !.due = TRUE]}
    /\ ordered' = "none"
    /\ UNCHANGED <<seats, rooms, issued, relocked, polls, call, begun, clash>>

---------------------------------------------------------------------------
VoteBegin(k, u, p) ==
    /\ IsMember(u)
    /\ Begin(k, [op |-> "vote", user |-> u, proposal |-> p, at |-> "load", score |-> 0])
    /\ UNCHANGED <<seats, rooms, lockdown, polls>>

(* vote: a member who has not voted yet.                                   *)
VoteFind(k, u, p) == <<u, p>> \notin votes /\ VoteBegin(k, u, p)

(* Any other event that addReputation is called for: a proposal, a post, a *)
(* like, a comment, a tip, a share.                                         *)
EarnFind(k, u) ==
    /\ u \notin gone
    /\ Begin(k, [op |-> "earn", user |-> u, at |-> "load", score |-> 0])
    /\ UNCHANGED <<seats, rooms, lockdown, polls>>

(* addReputation: the row, its new score, the log.                         *)
ReputationLoad(k) ==
    /\ At(k, "vote", "load") \/ At(k, "earn", "load")
    /\ call' = [call EXCEPT ![k] = [@ EXCEPT !.at = "score", !.score = score[call[k].user]]]
    /\ UNCHANGED <<seats, rooms, lockdown, polls, begun, clash>>

ReputationScore(k) ==
    /\ At(k, "vote", "score") \/ At(k, "earn", "score")
    /\ score' = [score EXCEPT ![call[k].user] = call[k].score + 1]
    /\ Go(k, "log")
    /\ UNCHANGED <<seats, rooms, lockdown, logs, votes, earned, begun, clash>>

ReputationLog(k) ==
    /\ At(k, "vote", "log") \/ At(k, "earn", "log")
    /\ logs' = [logs EXCEPT ![call[k].user] = @ + 1]
    /\ IF call[k].op = "vote" THEN Go(k, "insert") /\ UNCHANGED earned
       ELSE Done(k) /\ earned' = [earned EXCEPT ![call[k].user] = @ + 1]
    /\ UNCHANGED <<seats, rooms, lockdown, score, votes, begun, clash>>

(* The unique index refuses a second vote, after its points.               *)
VoteInsert(k) ==
    /\ At(k, "vote", "insert")
    /\ votes' = votes \cup {<<call[k].user, call[k].proposal>>}
    /\ Done(k)
    /\ UNCHANGED <<seats, rooms, lockdown, score, logs, earned, begun, clash>>

(* A save of the user's row that was loaded before: the eager relation with *)
(* the reputation cascades, so the score is saved as it was loaded, and the *)
(* user without a reputation then is one again.                             *)
ProfileFind(k, u) ==
    /\ u \notin gone
    /\ Begin(k, [op |-> "profile", user |-> u, at |-> "store", score |-> score[u]])
    /\ UNCHANGED <<seats, rooms, lockdown, polls>>

ProfileSave(k) ==
    /\ At(k, "profile", "store")
    /\ score' = [score EXCEPT ![call[k].user] = call[k].score]
    /\ logs' = [logs EXCEPT ![call[k].user] = IF call[k].score = 0 THEN 0 ELSE @]
    /\ Done(k)
    /\ UNCHANGED <<seats, rooms, lockdown, votes, earned, begun, clash>>

---------------------------------------------------------------------------
(* purgeExpiredDeactivatedAccounts removes the row of a user deactivated    *)
(* long ago, of whom no request is left: the rows that cascade go with it,  *)
(* and the owner of the group becomes null.                                 *)
Purge(u) ==
    /\ u \notin gone
    /\ \A j \in Calls : call[j] # Idle /\ call[j].user = u => call[j].op \in {"role", "earn"}
    /\ gone' = gone \cup {u}
    /\ Unguard(u, "removal", Admins = {u}, Calls)
    /\ member' = [member EXCEPT ![u] = NoSeat]
    /\ channelRole' = [c \in Channels |-> [channelRole[c] EXCEPT ![u] = "none"]]
    /\ votes' = {v \in votes : v[1] # u}
    /\ UNCHANGED <<joined, kind, lockdown, score, logs, earned, call, begun, clash>>

(* An await of a call fails, or its process stops: no more of it happens.  *)
Stop(k) ==
    /\ call[k] # Idle
    /\ Done(k)
    /\ clash' = IF call[k].op \in Points \cup {"leave"}
                THEN clash \cup {<<call[k].user, What(call[k].op)>>} ELSE clash
    /\ UNCHANGED <<seats, rooms, lockdown, polls, begun>>

Request(k) ==
    \/ \E u \in Users :
         \/ JoinFind(k, u)
         \/ LeaveFind(k, u)
         \/ \E role \in Roles : RoleFind(k, u, role)
         \/ \E c \in Channels, type \in {"group", "broadcast"} : ChannelCheck(k, u, c, type)
         \/ \E c \in Channels : EnterCheck(k, u, c) \/ PostCheck(k, u, c)
         \/ \E p \in Proposals : VoteFind(k, u, p)
         \/ EarnFind(k, u) \/ ProfileFind(k, u)
         \/ \E mode \in Modes : EnableFind(k, u, mode)

Await(k) ==
    \/ GetLockdown(k) \/ ClearLockdown(k) \/ JoinInsert(k)
    \/ LeaveRemove(k) \/ LeaveList(k) \/ LeaveRows(k)
    \/ RoleCount(k) \/ RoleList(k) \/ RoleRevoke(k) \/ RoleSave(k)
    \/ ChannelSave(k) \/ ChannelAdmin(k) \/ RowInsert(k)
    \/ EnableSave(k)
    \/ ReputationLoad(k) \/ ReputationScore(k) \/ ReputationLog(k)
    \/ VoteInsert(k) \/ ProfileSave(k)

Next ==
    \/ \E k \in Calls : Request(k) \/ Await(k) \/ Stop(k)
    \/ \E u \in Users, c \in Channels : LeaveChannel(u, c)
    \/ \E u \in Users : Purge(u)
    \/ ResolveLockdown
    \/ \E l \in locks : ComesDue(l)

Spec == Init /\ [][Next]_vars

---------------------------------------------------------------------------
Earning(u) == \E k \in Calls : call[k].op \in Points /\ call[k].user = u

Leaving(u) == \E k \in Calls : call[k].op = "leave" /\ call[k].user = u /\ call[k].at # "remove"

(* Every variable has its type, and a role goes with a membership row.     *)
TypeOK ==
    /\ member \in [Users -> Seats \cup {NoSeat}] /\ joined \in Nat
    /\ gone \subseteq Users /\ unguarded \subseteq {"leaving", "removal", "demotion"}
    /\ \A u \in Users : member[u].row <= joined
    /\ kind \in [Channels -> {"none", "group", "broadcast"}]
    /\ channelRole \in [Channels -> [Users -> {"none", "member", "admin"}]]
    /\ locks \subseteq Locks /\ issued \in Nat
    /\ ordered \in Modes \cup {"none"} /\ relocked \in BOOLEAN
    /\ score \in [Users -> Nat] /\ logs \in [Users -> Nat]
    /\ votes \subseteq Users \X Proposals /\ earned \in [Users -> Nat]
    /\ call \in [Calls -> Requests \cup {Idle}]
    /\ begun \in 0..MaxCalls /\ clash \subseteq Users \X {"seat", "vote"}

(* "A group must keep at least one admin" (updateMemberRole).  While the    *)
(* group has an owner no leaving and no change of roles takes the last one, *)
(* although the count and the save are two awaits; without an owner, only   *)
(* after the last admin left or was purged, or an admin went while a change *)
(* of a role was past its count.                                            *)
AdminKept == Admins # {} \/ unguarded # {}

(* "A group must keep at least one admin": what the count of admins in      *)
(* updateMemberRole promises of demotions, in a group without an owner too. *)
DemotionsKeepAnAdmin == Admins # {} \/ unguarded \cap {"leaving", "removal"} # {}

(* "channel-admin must not outlive the group role that granted it": a right *)
(* in a broadcast channel belongs to an admin or a moderator of the group,  *)
(* unless leaving or a demotion overlapped with the channel's creation or   *)
(* leaving stopped half way.                                                *)
RightsFollowRole ==
    \A u \in Users : <<u, "seat">> \in clash
        \/ member[u].role \in {"admin", "moderator"}
        \/ \A c \in Channels : channelRole[c][u] # "admin"
        \/ Leaving(u)

(* "Leaving the group also drops every channel membership inside it": the   *)
(* rows of a channel are of members, under the same exceptions.             *)
RowsOfMembers ==
    \A u \in Users : <<u, "seat">> \in clash
        \/ IsMember(u) \/ \A c \in Channels : channelRole[c][u] = "none"
        \/ Leaving(u)

(* Rows and rights inside the group follow the membership and its role.     *)
RowsFollowMembers == RightsFollowRole /\ RowsOfMembers

(* The lockdown in force is the one an admin asked for last, until its time *)
(* is over: a join that finds an older one over and removes it, or a second *)
(* enableLockdown, disturbs that only if it overlaps.                       *)
LockdownHolds ==
    relocked \/ {l.mode : l \in {x \in locks : ~x.due}} = {ordered} \ {"none"}

(* A vote is worth its points once, in the score and in the log, beside the *)
(* points of other events (addReputation reads the row that all of them     *)
(* write, awaits, and saves it): unless, on one user, two of these          *)
(* overlapped, one overlapped with a save of the user's row, or stopped     *)
(* half way.                                                                *)
VoteCounted ==
    \A u \in Users \ gone : <<u, "vote">> \in clash \/ Earning(u)
        \/ /\ score[u] = Cardinality({p \in Proposals : <<u, p>> \in votes}) + earned[u]
           /\ logs[u] = score[u]
=============================================================================
