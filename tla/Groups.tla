------------------------------- MODULE Groups -------------------------------
(***************************************************************************)
(* The groups of players on the server: the route (groups.ts) over its     *)
(* store (dynamoGroupStore.ts), and the departure a deleted account owes   *)
(* every group it was in (accountLink.ts, purge.ts).                       *)
(*                                                                         *)
(* A membership is two items, one under the group and one under the        *)
(* player, and who may do what hangs on a third, the group's.  A request   *)
(* is a process that reads them one after the other and commits in one     *)
(* transaction, over the group's version it decided on.                    *)
(*                                                                         *)
(* When a member joined is left out: where the store orders members by it, *)
(* to hand a group over to the oldest, any of them may be that one.        *)
(***************************************************************************)
EXTENDS Naturals, FiniteSets

CONSTANTS
    Players,       \* accounts
    GroupIds,      \* group ids, created or yet to be
    Requests,      \* request slots, each serves one request
    None,
    Starts,        \* what is stored and asked when a run begins
    MembersMax,    \* GROUP_MEMBERS_MAX
    GroupsMax,     \* GROUPS_MAX
    Attempts,      \* CONFLICT_RETRY_ATTEMPTS
    Passes,        \* LEAVE_ALL_MAX_PASSES
    MaxConflicts   \* bound: transactions cancelled by contention alone

VARIABLES
    job,        \* what each request asks: constant along a behaviour
    live,       \* the account items
    group,      \* the group items
    memberRow,  \* the membership items under each group
    playerRow,  \* the membership items under each player
    req,        \* what each request holds in memory
    conflicts   \* transactions cancelled by contention so far

items == <<live, group, memberRow, playerRow>>
vars == <<job, items, req, conflicts>>

NoGroup == [owner |-> None, version |-> 0]

(* What a request asks: create, join or leave a group, perhaps naming a    *)
(* successor, remove a member, or delete the account.                      *)
Jobs ==
    [op : {"none", "create", "join", "leave", "remove", "delete"}, who : Players,
     group : GroupIds, successor : Players \cup {None}, member : Players \cup {None}]

ASSUME NoneAssumption == None \notin Players \cup GroupIds /\ IsFiniteSet(Players)

(* A run begins with groups as the store leaves them; an id is minted for  *)
(* one creation, and nobody removes themselves.                            *)
ASSUME StartsAssumption ==
    \A s \in Starts :
        /\ s.job \in [Requests -> Jobs]
        /\ s.group \in [GroupIds -> [owner : Players \cup {None}, version : Nat]]
        /\ s.members \in [GroupIds -> SUBSET Players]
        /\ \A g \in GroupIds :
            IF s.group[g].owner = None THEN s.group[g] = NoGroup /\ s.members[g] = {}
            ELSE s.group[g].owner \in s.members[g]
        /\ \A r \in Requests :
            /\ s.job[r].op = "remove" => s.job[r].member \in Players \ {s.job[r].who}
            /\ s.job[r].op = "create" =>
                /\ s.group[s.job[r].group].owner = None
                /\ \A q \in Requests \ {r} :
                    ~(s.job[q].op = "create" /\ s.job[q].group = s.job[r].group)

Exists(g) == group[g].owner # None

(* What a request holds: the group as it read it, the members it saw, and  *)
(* in a departure the groups left to leave and the pass it is in.          *)
Idle == [pc |-> "idle", target |-> None, read |-> NoGroup, others |-> {}, todo |-> {},
         tries |-> 0, answer |-> "none"]

Pcs == {"idle", "count", "create", "check", "room", "join", "read", "members",
        "commit", "delete", "list", "next", "done"}

(* The items have their shapes, a group that does not exist has no version *)
(* left, and a request is somewhere in its handler.                        *)
TypeOK ==
    /\ live \in SUBSET Players
    /\ group \in [GroupIds -> [owner : Players \cup {None}, version : Nat]]
    /\ memberRow \in [GroupIds -> SUBSET Players]
    /\ playerRow \in [Players -> SUBSET GroupIds]
    /\ \A g \in GroupIds : ~Exists(g) => group[g] = NoGroup
    /\ DOMAIN req = Requests
    /\ \A r \in Requests :
        /\ req[r].pc \in Pcs
        /\ req[r].target \in GroupIds \cup {None}
        /\ req[r].others \in SUBSET Players
        /\ req[r].todo \in SUBSET GroupIds
    /\ conflicts \in 0..MaxConflicts

Init ==
    /\ \E s \in Starts :
        /\ job = s.job
        /\ group = s.group
        /\ memberRow = s.members
        /\ playerRow = [p \in Players |-> {g \in GroupIds : p \in s.members[g]}]
    /\ live = Players
    /\ req = [r \in Requests |-> Idle]
    /\ conflicts = 0

-----------------------------------------------------------------------------
Who(r) == job[r].who
At(r, pc) == req[r].pc = pc
Become(r, q) == req' = [req EXCEPT ![r] = q]
Goto(r, pc) == Become(r, [req[r] EXCEPT !.pc = pc])
Answer(r, a) == Become(r, [Idle EXCEPT !.pc = "done", !.answer = a])

FirstStep(op) ==
    CASE op = "create" -> "count"
      [] op = "join" -> "check"
      [] op \in {"leave", "remove"} -> "read"
      [] op = "delete" -> "delete"

(* A request authenticates: its account exists at that moment.             *)
Arrive(r) ==
    /\ At(r, "idle")
    /\ job[r].op # "none"
    /\ Who(r) \in live
    /\ Become(r, [Idle EXCEPT !.pc = FirstStep(job[r].op), !.target = job[r].group])
    /\ UNCHANGED <<job, items, conflicts>>

(* Both membership items of p in g are put, or deleted.                    *)
PutRows(g, p) ==
    /\ memberRow' = [memberRow EXCEPT ![g] = @ \cup {p}]
    /\ playerRow' = [playerRow EXCEPT ![p] = @ \cup {g}]

(* Mutant: the item under the group is left behind.                        *)
DeleteRows_Half(g, p) ==
    /\ UNCHANGED memberRow
    /\ playerRow' = [playerRow EXCEPT ![p] = @ \ {g}]

DeleteRows(g, p) ==
    /\ memberRow' = [memberRow EXCEPT ![g] = @ \ {p}]
    /\ playerRow' = [playerRow EXCEPT ![p] = @ \ {g}]

(* Mutant: the account is not asserted by the transaction that joins.      *)
AccountStands_Unchecked(p) == TRUE

AccountStands(p) == p \in live

(* The limit is counted before the transaction.                            *)
CountMine(r) ==
    /\ At(r, "count")
    /\ IF Cardinality(playerRow[Who(r)]) >= GroupsMax
       THEN Answer(r, "group_limit")
       ELSE Goto(r, "create")
    /\ UNCHANGED <<job, items, conflicts>>

(* One transaction: the account, a new group, its creator's membership.    *)
Create(r) ==
    /\ At(r, "create")
    /\ IF AccountStands(Who(r))
       THEN /\ group' = [group EXCEPT ![job[r].group] = [owner |-> Who(r), version |-> 0]]
            /\ PutRows(job[r].group, Who(r))
            /\ Answer(r, "created")
       ELSE Answer(r, "gone") /\ UNCHANGED <<group, memberRow, playerRow>>
    /\ UNCHANGED <<job, live, conflicts>>

CheckJoin(r) ==
    /\ At(r, "check")
    /\ LET g == job[r].group IN
        IF ~Exists(g) THEN Answer(r, "unknown_group")
        ELSE IF g \in playerRow[Who(r)] THEN Answer(r, "already")
        ELSE Goto(r, "room")
    /\ UNCHANGED <<job, items, conflicts>>

CheckRoom(r) ==
    /\ At(r, "room")
    /\ IF Cardinality(memberRow[job[r].group]) >= MembersMax THEN Answer(r, "group_full")
       ELSE IF Cardinality(playerRow[Who(r)]) >= GroupsMax THEN Answer(r, "group_limit")
       ELSE Goto(r, "join")
    /\ UNCHANGED <<job, items, conflicts>>

(* Mutant: a join leaves the group's version alone.                        *)
Joined_SameVersion(g) == UNCHANGED group

Joined(g) == group' = [group EXCEPT ![g].version = @ + 1]

(* One transaction: the account, the group and its version, the rows.      *)
Join(r) ==
    /\ At(r, "join")
    /\ LET g == job[r].group IN
        IF AccountStands(Who(r)) /\ Exists(g) /\ g \notin playerRow[Who(r)]
        THEN Joined(g) /\ PutRows(g, Who(r)) /\ Answer(r, "joined")
        ELSE /\ Answer(r, CASE ~AccountStands(Who(r)) -> "gone"
                            [] AccountStands(Who(r)) /\ ~Exists(g) -> "unknown_group"
                            [] OTHER -> "already")
             /\ UNCHANGED <<group, memberRow, playerRow>>
    /\ UNCHANGED <<job, live, conflicts>>

-----------------------------------------------------------------------------
(* Leaving and removing.  The group is read first, then its members.       *)
Departing(r) == job[r].op = "delete"

(* The member that goes: the caller, or the one its owner removes.         *)
Leaver(r) == IF job[r].op = "remove" THEN job[r].member ELSE Who(r)

ReadGroup(r) ==
    /\ At(r, "read")
    /\ LET g == req[r].target
           q == [req[r] EXCEPT !.read = group[g]]
       IN  IF job[r].op = "remove"
           THEN IF ~Exists(g) THEN Answer(r, "unknown_group")
                ELSE IF group[g].owner # Who(r) THEN Answer(r, "not_creator")
                ELSE Become(r, [q EXCEPT !.pc = "commit"])
           ELSE IF ~Exists(g) THEN
                IF Departing(r) THEN Become(r, [q EXCEPT !.pc = "commit"])
                                ELSE Answer(r, "listed")
           ELSE Become(r, [q EXCEPT !.pc = "members"])
    /\ UNCHANGED <<job, items, conflicts>>

(* successionFor: an owner who leaves two or more behind names one of      *)
(* them, a player who can no longer be asked hands over to the oldest.     *)
ReadMembers(r) ==
    /\ At(r, "members")
    /\ LET here == memberRow[req[r].target]
           others == here \ {Who(r)}
       IN  IF ~Departing(r) /\ Who(r) \notin here THEN Answer(r, "listed")
           ELSE IF /\ ~Departing(r)
                   /\ req[r].read.owner = Who(r)
                   /\ Cardinality(others) > 1
                   /\ job[r].successor \notin others
           THEN Answer(r, "successor_required")
           ELSE Become(r, [req[r] EXCEPT !.pc = "commit", !.others = others])
    /\ UNCHANGED <<job, items, conflicts>>

(* Mutant: the transaction does not compare the group's version.           *)
SnapshotStands_Any(r) == Exists(req[r].target) <=> req[r].read.owner # None

(* The group is what was read, or still gone if it was.                    *)
SnapshotStands(r) ==
    IF req[r].read.owner = None THEN ~Exists(req[r].target)
    ELSE Exists(req[r].target) /\ group[req[r].target].version = req[r].read.version

Successors(r) ==
    IF Departing(r) \/ Cardinality(req[r].others) = 1 THEN req[r].others
    ELSE {job[r].successor}

(* What the transaction makes of the group item.                           *)
GroupAfter(r) ==
    LET g == group[req[r].target]
        next == [g EXCEPT !.version = @ + 1]
    IN  IF req[r].read.owner = None THEN {NoGroup}
        ELSE IF job[r].op = "remove" THEN {next}
        ELSE IF req[r].others = {} THEN {NoGroup}
        ELSE IF req[r].read.owner # Who(r) THEN {next}
        ELSE {[next EXCEPT !.owner = p] : p \in Successors(r)}

(* A departure goes on to the next group it listed; a refusal is left for  *)
(* the next pass.                                                          *)
OnwardFrom(r) == [req[r] EXCEPT !.pc = "next", !.read = NoGroup, !.others = {},
                                !.todo = @ \ {req[r].target}, !.target = None]

Commit(r) ==
    /\ At(r, "commit")
    /\ SnapshotStands(r)
    /\ \E after \in GroupAfter(r) : group' = [group EXCEPT ![req[r].target] = after]
    /\ DeleteRows(req[r].target, Leaver(r))
    /\ IF Departing(r) THEN Become(r, OnwardFrom(r)) ELSE Answer(r, "left")
    /\ UNCHANGED <<job, live, conflicts>>

(* The snapshot changed, or the transaction lost to another: the route     *)
(* reads everything again, so many times.                                  *)
Retried(r) ==
    IF Departing(r) THEN OnwardFrom(r)
    ELSE IF req[r].tries + 1 < Attempts
    THEN [Idle EXCEPT !.pc = "read", !.target = job[r].group, !.tries = req[r].tries + 1]
    ELSE [Idle EXCEPT !.pc = "done", !.answer = "failed"]

Refused(r) ==
    /\ At(r, "commit")
    /\ ~SnapshotStands(r)
    /\ Become(r, Retried(r))
    /\ UNCHANGED <<job, items, conflicts>>

Conflict(r) ==
    /\ At(r, "commit")
    /\ conflicts < MaxConflicts
    /\ conflicts' = conflicts + 1
    /\ Become(r, Retried(r))
    /\ UNCHANGED <<job, items>>

-----------------------------------------------------------------------------
(* The account is deleted, and owes its groups a departure.                *)
DeleteAccount(r) ==
    /\ At(r, "delete")
    /\ live' = live \ {Who(r)}
    /\ Goto(r, "list")
    /\ UNCHANGED <<job, group, memberRow, playerRow, conflicts>>

(* leaveAll: pass after pass, until a pass lists nothing.  One that does   *)
(* not converge throws, and the job starts it over later.                  *)
ListMine(r) ==
    /\ At(r, "list")
    /\ LET mine == playerRow[Who(r)] IN
        IF req[r].tries = Passes THEN Become(r, [req[r] EXCEPT !.tries = 0])
        ELSE IF mine = {} THEN Answer(r, "departed")
        ELSE Become(r, [req[r] EXCEPT !.pc = "next", !.todo = mine, !.tries = @ + 1])
    /\ UNCHANGED <<job, items, conflicts>>

NextGroup(r) ==
    /\ At(r, "next")
    /\ IF req[r].todo = {} THEN Goto(r, "list")
       ELSE \E g \in req[r].todo : Become(r, [req[r] EXCEPT !.pc = "read", !.target = g])
    /\ UNCHANGED <<job, items, conflicts>>

Departure(r) ==
    /\ Departing(r)
    /\ \/ ListMine(r) \/ NextGroup(r)
       \/ ReadGroup(r) \/ ReadMembers(r) \/ Commit(r) \/ Refused(r)

Step(r) ==
    \/ Arrive(r)
    \/ CountMine(r) \/ Create(r) \/ CheckJoin(r) \/ CheckRoom(r) \/ Join(r)
    \/ ReadGroup(r) \/ ReadMembers(r) \/ Commit(r) \/ Refused(r) \/ Conflict(r)
    \/ DeleteAccount(r) \/ ListMine(r) \/ NextGroup(r)

Next == \E r \in Requests : Step(r)

Spec == Init /\ [][Next]_vars

(* A departure is a queued job: cut off, it is taken up again.  Of every   *)
(* other request nothing is assumed.                                       *)
FairSpec == Spec /\ \A r \in Requests : WF_vars(Departure(r))

-----------------------------------------------------------------------------
(* A group is owned by one of its members, whatever joins, leaves,         *)
(* handovers and removals race (groupStore.ts, successionFor): nobody is   *)
(* left in a group that no one can hand over or remove from.               *)
OwnerIsMember ==
    \A g \in GroupIds : Exists(g) => group[g].owner \in memberRow[g]

(* The two items of a membership come and go together, and never outlive   *)
(* the group: the last one out takes the group along, and a join that      *)
(* commits first keeps it.                                                 *)
RowsArePaired ==
    \A g \in GroupIds, p \in Players :
        /\ p \in memberRow[g] <=> g \in playerRow[p]
        /\ g \in playerRow[p] => Exists(g)

(* A departure that converged is final: the account is in no group then,   *)
(* and joins none later, though its join was under way (groupStore.ts).    *)
DepartedForGood ==
    \A r \in Requests : req[r].answer = "departed" =>
        /\ playerRow[Who(r)] = {}
        /\ \A g \in GroupIds : Who(r) \notin memberRow[g]

(* Nobody is removed by a player who is not the owner at that moment, even *)
(* one who was when it asked (groups.ts, the authorizing version).         *)
RemovalIsOwners ==
    [][\A r \in Requests :
        job[r].op = "remove" /\ req'[r].answer = "left" /\ req[r].answer # "left" =>
            group[job[r].group].owner = Who(r)]_vars

(* A deleted account leaves every group in the end, though others join and *)
(* leave at the same time and refuse it pass after pass.                   *)
DepartureConverges ==
    \A r \in Requests :
        At(r, "list") ~> \A g \in GroupIds : Who(r) \notin memberRow[g]

=============================================================================
