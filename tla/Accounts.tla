------------------------------ MODULE Accounts ------------------------------
(***************************************************************************)
(* What users.service.ts keeps between users, beside the wallet of their   *)
(* rows: who follows, blocks, mutes whom, and the requests to follow a     *)
(* private account.                                                        *)
(*                                                                         *)
(* Every handler loads a user with some of its relations, changes a list   *)
(* and saves the whole entity.  TypeORM then reads the relations again and *)
(* inserts and deletes the rows in which the entity differs, whoever wrote *)
(* them, together with the columns that differ: each of these saves is one *)
(* of Wallet's saves of a stale user.                                      *)
(***************************************************************************)
EXTENDS Wallet

CONSTANTS
    Lists,        \* relations a user keeps of others, beside those it follows
    Private,      \* users whose profilePrivacy is not PUBLIC
    Requests,     \* ids of follow requests
    Pairs,        \* bound of the model: who may do something about whom
    First,        \* bound of the model: the links there may be at the beginning
    MaxCalls      \* bound of the model: requests of any kind

ASSUME ListsAssumption == "blocked" \in Lists /\ "follows" \notin Lists
ASSUME PairsAssumption == Pairs \subseteq Users \X Users /\ Private \subseteq Users
ASSUME FirstAssumption ==
    \A before \in First :
        /\ before \subseteq ({"follows"} \cup Lists) \X Users \X Users
        /\ \A a, b \in Users : <<"blocked", a, b>> \in before =>
             <<"follows", a, b>> \notin before /\ <<"follows", b, a>> \notin before
ASSUME CallsAssumption == MaxCalls \in Nat
ASSUME NoneIsNoRequest == None \notin Requests \cup (Users \X Users)

VARIABLES
    links,        \* rows of the junction tables: <<table, owner, other>>
    request,      \* request[r]: <<requester, recipient>>, or None
    job,          \* job[w]: the relation request of worker w
    asked,        \* history: the links as the writes that succeeded asked for
    mixed,        \* history: links that were written while another held a copy
    crossed,      \* history: pairs of whom a block met a copy of a follow
    calls         \* requests so far

graph == <<links, request, job, asked, mixed, crossed, calls>>
accountVars == <<vars, graph>>

Link == ({"follows"} \cup Lists) \X Users \X Users

Follows(a, b) == <<"follows", a, b>>
Blocks(a, b) == <<"blocked", a, b>>

(* What a request asks of the junction tables: the rows to add and to drop *)
(* and all rows of the relations it loads, which its save will rewrite.    *)
Changes == [user: Users, other: Users, add: SUBSET Link, drop: SUBSET Link, scope: SUBSET Link]

(* The rows of a relation that user a owns, and those that name it.        *)
Own(table, a) == {<<table, a, b>> : b \in Users}
Inverse(table, a) == {<<table, b, a>> : b \in Users}

FollowChange(a, b) ==
    [user |-> a, other |-> b, add |-> {Follows(a, b)}, drop |-> {}, scope |-> Own("follows", a)]

UnfollowChange(a, b) ==
    [user |-> a, other |-> b, add |-> {}, drop |-> {Follows(a, b)}, scope |-> Own("follows", a)]

(* Variant: whoever is blocked is unfollowed, but goes on following.       *)
EnlistChangeOneWay(table, a, b) ==
    [user |-> a, other |-> b, add |-> {<<table, a, b>>},
     drop |-> IF table = "blocked" THEN {Follows(a, b)} ELSE {},
     scope |-> Own(table, a) \cup IF table = "blocked" THEN Own("follows", a) ELSE {}]

(* mute, restrict, addFavorite; and block, which drops the follows both    *)
(* ways and so loads and saves both relations.                             *)
EnlistChange(table, a, b) ==
    LET severs == table = "blocked"
    IN  [user |-> a, other |-> b, add |-> {<<table, a, b>>},
         drop |-> IF severs THEN {Follows(a, b), Follows(b, a)} ELSE {},
         scope |-> Own(table, a) \cup
                   IF severs THEN Own("follows", a) \cup Inverse("follows", a) ELSE {}]

DelistChange(table, a, b) ==
    [user |-> a, other |-> b, add |-> {}, drop |-> {<<table, a, b>>}, scope |-> Own(table, a)]

JobSteps == {"none", "theirs", "ours", "loading", "saving", "writing",
             "accepted", "finding", "inserting"}

NoChange == [user |-> None, other |-> None, add |-> {}, drop |-> {}, scope |-> {}]

NoJob == [step |-> "none", change |-> NoChange, held |-> {}, known |-> {}, request |-> None]

Job(step, change, r) ==
    [step |-> step, change |-> change, held |-> {}, known |-> {}, request |-> r]

AccountsInit ==
    /\ Init
    /\ links \in First /\ asked = links
    /\ mixed = {} /\ crossed = {}
    /\ request = [r \in Requests |-> None]
    /\ job = [w \in Workers |-> NoJob]
    /\ calls = 0

Free(w) == pc[w] = "idle" /\ job[w].step = "none"
Call(w) == Free(w) /\ calls < MaxCalls /\ calls' = calls + 1
Start(w, j) == job' = [job EXCEPT ![w] = j]
Leave(w) == job' = [job EXCEPT ![w] = NoJob]
At(w, s) == job[w].step = s

history == <<asked, mixed, crossed>>

---------------------------------------------------------------------------
(* follow: whether either blocks the other is asked twice, with an await   *)
(* after each, before the follower is loaded.                              *)
Follow(w, a, b) ==
    /\ Call(w)
    /\ Start(w, Job("theirs", FollowChange(a, b), None))
    /\ UNCHANGED <<vars, links, request, history>>

Check(w, step, next, owner, other) ==
    /\ At(w, step)
    /\ job' = [job EXCEPT ![w] = IF Blocks(owner, other) \in links THEN NoJob
                                 ELSE [@ EXCEPT !.step = next]]
    /\ UNCHANGED <<vars, links, request, history, calls>>

CheckTheirs(w) ==
    Check(w, "theirs", "ours", job[w].change.other, job[w].change.user)

CheckOurs(w) ==
    Check(w, "ours", "loading", job[w].change.user, job[w].change.other)

(* After the save, or without one, acceptFollowRequest deletes its request.*)
Return(w, j) ==
    job' = [job EXCEPT ![w] = IF j.request = None THEN NoJob
                              ELSE [NoJob EXCEPT !.step = "accepted", !.request = j.request]]

(* Nothing to do: every handler looks for its row in the list it loaded.   *)
Needless(change) ==
    IF change.add # {} THEN change.add \subseteq links ELSE change.drop \cap links = {}

(* Variant: the list starts empty, as if its relation had not been loaded. *)
LoadLinksBare(w, j) ==
    /\ IF Needless(j.change)
       THEN Return(w, j) /\ UNCHANGED vars
       ELSE /\ ConnectAccountLoad(w, j.change.user)
            /\ Start(w, [j EXCEPT !.step = "saving", !.held = j.change.add])
    /\ UNCHANGED <<links, request, history>>

(* The user is loaded with its relations, and the list changed in memory.  *)
LoadLinks(w, j) ==
    /\ IF Needless(j.change)
       THEN Return(w, j) /\ UNCHANGED vars
       ELSE /\ ConnectAccountLoad(w, j.change.user)
            /\ Start(w, [j EXCEPT !.step = "saving",
                 !.held = ((links \cap j.change.scope) \ j.change.drop) \cup j.change.add])
    /\ UNCHANGED <<links, request, history>>

LoadFollower(w) ==
    /\ At(w, "loading")
    /\ LoadLinks(w, job[w])
    /\ UNCHANGED calls

(* unfollow, by the follower or by the one it follows.                     *)
Unfollow(w, a, b) == Call(w) /\ LoadLinks(w, Job("loading", UnfollowChange(a, b), None))

(* block, mute, restrict, addFavorite.                                     *)
Enlist(w, table, a, b) ==
    /\ a # b \/ table = "favorites"
    /\ Call(w) /\ LoadLinks(w, Job("loading", EnlistChange(table, a, b), None))

(* unblock, unmute, unrestrict, removeFavorite.                            *)
Delist(w, table, a, b) ==
    Call(w) /\ LoadLinks(w, Job("loading", DelistChange(table, a, b), None))

---------------------------------------------------------------------------
(* save: the relations are read again with the row ...                     *)
ReloadLinks(w) ==
    /\ At(w, "saving")
    /\ SaveReload(w)
    /\ job' = [job EXCEPT ![w].step = "writing", ![w].known = links \cap job[w].change.scope]
    /\ UNCHANGED <<links, request, history, calls>>

Holds(w) == job[w].step \in {"saving", "writing"}

(* History: rows that this write decides and that others hold a copy of.   *)
Overtaken(w, decided) ==
    {l \in decided : \E x \in Workers \ {w} : Holds(x) /\ l \in job[x].change.scope}

(* What a request will still write, whatever the others do: follow l,      *)
(* although a has blocked by now, for it holds a copy of the list or has   *)
(* asked a already ...                                                     *)
MayFollow(x, l, a) ==
    \/ Holds(x) /\ l \in job[x].held
    \/ At(x, "loading") /\ l \in job[x].change.add
    \/ At(x, "ours") /\ l \in job[x].change.add /\ job[x].change.other = a

(* ... or block l, beside a follow that its own reload will not find.      *)
MayBlock(x, l, follow) ==
    /\ Holds(x) /\ l \in job[x].held
    /\ ~(At(x, "saving") /\ follow \in job[x].change.drop)

(* History: pairs of whom a block is written while a follow may still come *)
(* from another request, or the other way round.                           *)
Crossed(w, adds) ==
    {p \in Users \X Users :
        \E x \in Workers \ {w}, f \in {Follows(p[1], p[2]), Follows(p[2], p[1])} :
            \/ Blocks(p[1], p[2]) \in adds /\ MayFollow(x, f, p[1])
            \/ f \in adds /\ MayBlock(x, Blocks(p[1], p[2]), f)}

(* ... and one transaction writes the difference, unless a row it inserts  *)
(* is there already (the primary key of a junction table).                 *)
WriteLinks(w) ==
    LET j == job[w]
        adds == j.held \ j.known
        drops == j.known \ j.held
    IN  /\ At(w, "writing")
        /\ IF AddressTaken(w) \/ adds \cap links # {}
           THEN /\ ~Locked(target[w])
                /\ Crash(w) /\ Leave(w)
                /\ UNCHANGED <<links, history>>
           ELSE /\ SaveWrite(w)
                /\ links' = (links \ drops) \cup adds
                /\ Return(w, j)
                /\ asked' = (asked \ j.change.drop) \cup j.change.add
                /\ mixed' = mixed \cup
                     Overtaken(w, adds \cup drops \cup j.change.add \cup j.change.drop)
                /\ crossed' = crossed \cup Crossed(w, adds)
        /\ UNCHANGED <<request, calls>>

---------------------------------------------------------------------------
(* createFollowRequest: a public account is followed at once.              *)
Ask(w, a, b) ==
    /\ Call(w)
    /\ Start(w, Job(IF b \in Private THEN "finding" ELSE "theirs", FollowChange(a, b), None))
    /\ UNCHANGED <<vars, links, request, history>>

Asked(a, b) == \E r \in Requests : request[r] = <<a, b>>

FindRequest(w) ==
    /\ At(w, "finding")
    /\ job' = [job EXCEPT ![w] =
         IF Asked(@.change.user, @.change.other) THEN NoJob ELSE [@ EXCEPT !.step = "inserting"]]
    /\ UNCHANGED <<vars, links, request, history, calls>>

InsertRequest(w) ==
    /\ At(w, "inserting")
    /\ \E r \in Requests :
         /\ request[r] = None
         /\ request' = [request EXCEPT ![r] = <<job[w].change.user, job[w].change.other>>]
    /\ Leave(w)
    /\ UNCHANGED <<vars, links, history, calls>>

(* acceptFollowRequest, which follows and then deletes the request.        *)
Accept(w, r) ==
    /\ request[r] # None
    /\ Call(w)
    /\ Start(w, Job("theirs", FollowChange(request[r][1], request[r][2]), r))
    /\ UNCHANGED <<vars, links, request, history>>

DeleteRequest(w) ==
    /\ At(w, "accepted")
    /\ request' = [request EXCEPT ![job[w].request] = None]
    /\ Leave(w)
    /\ UNCHANGED <<vars, links, history, calls>>

(* denyFollowRequest and cancelFollowRequest: one row found and deleted.   *)
Withdraw(r) ==
    /\ request[r] # None
    /\ request' = [request EXCEPT ![r] = None]
    /\ UNCHANGED <<vars, links, job, history, calls>>

---------------------------------------------------------------------------
(* A wallet request of Wallet, by a worker that has no relation request.   *)
WalletBegins(w) ==
    /\ Call(w)
    /\ \/ \E u \in Users, d \in Deltas : MovementLock(w, u, d)
       \/ \E u \in Users, a \in Addresses : ConnectLoad(w, u, a)
       \/ \E u \in Users : Disconnect(w, u) \/ NftLoad(w, u) \/ ConnectAccountLoad(w, u)
    /\ UNCHANGED <<links, request, job, history>>

WalletContinues(w) ==
    /\ job[w].step = "none"
    /\ \/ MovementCommit(w) \/ MovementRollback(w)
       \/ ConnectCheck(w) \/ \E owned \in BOOLEAN : NftAnswer(w, owned)
       \/ SaveReload(w) \/ SaveWrite(w)
    /\ UNCHANGED graph

(* A replica stops.                                                        *)
Stop(w) ==
    /\ ~Free(w)
    /\ IF pc[w] = "idle" THEN UNCHANGED vars ELSE Crash(w)
    /\ Leave(w)
    /\ UNCHANGED <<links, request, history, calls>>

RelationBegins(w) ==
    \E p \in Pairs :
        \/ Follow(w, p[1], p[2]) \/ Unfollow(w, p[1], p[2]) \/ Ask(w, p[1], p[2])
        \/ \E table \in Lists : Enlist(w, table, p[1], p[2]) \/ Delist(w, table, p[1], p[2])

RelationContinues(w) ==
    \/ CheckTheirs(w) \/ CheckOurs(w) \/ LoadFollower(w)
    \/ ReloadLinks(w) \/ WriteLinks(w)
    \/ FindRequest(w) \/ InsertRequest(w) \/ DeleteRequest(w)

AccountsNext ==
    \/ \E w \in Workers :
          \/ WalletBegins(w) \/ WalletContinues(w)
          \/ RelationBegins(w) \/ RelationContinues(w)
          \/ \E r \in Requests : Accept(w, r)
          \/ Stop(w)
    \/ \E r \in Requests : Withdraw(r)

AccountsSpec == AccountsInit /\ [][AccountsNext]_accountVars

---------------------------------------------------------------------------
Jobs == [step: JobSteps, change: Changes \cup {NoChange},
         held: SUBSET Link, known: SUBSET Link, request: Requests \cup {None}]

GraphTypeOK ==
    /\ links \subseteq Link /\ asked \subseteq Link /\ mixed \subseteq Link
    /\ crossed \subseteq Users \X Users
    /\ request \in [Requests -> (Users \X Users) \cup {None}]
    /\ job \in [Workers -> Jobs]
    /\ calls \in 0..MaxCalls

Standing(w) ==
    /\ Holds(w) => pc[w] = job[w].step /\ target[w] = job[w].change.user
    /\ job[w].step \notin {"none", "saving", "writing"} => pc[w] = "idle"

(* Every variable has the shape the code gives it, and a request that      *)
(* holds a user with its relations is in the middle of one of Wallet's.    *)
AccountsTypeOK == TypeOK /\ GraphTypeOK /\ \A w \in Workers : Standing(w)

(* block: "Remove relationships: following, followers".  Whoever blocks    *)
(* does not follow and is not followed by the one it blocked, whatever     *)
(* lists other requests held meanwhile, unless one of them still held the  *)
(* follow, or the block, when the other was written.                       *)
BlockSevers ==
    \A a, b \in Users :
        Blocks(a, b) \in links /\ <<a, b>> \notin crossed
            => Follows(a, b) \notin links /\ Follows(b, a) \notin links

(* A row of a relation is there exactly if the last request about it that  *)
(* succeeded asked for it: a save never takes a row back or away that no   *)
(* other request wrote while the save held its copy.                       *)
LinksAsAsked == \A l \in Link \ mixed : l \in links <=> l \in asked
=============================================================================
