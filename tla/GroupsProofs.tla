---------------------------- MODULE GroupsProofs ----------------------------
(***************************************************************************)
(* What is proved of Groups for every value of its constants: the rows of  *)
(* a membership are paired, a group is owned by one of its members, a      *)
(* departure is final, and nobody but the owner removes.                   *)
(***************************************************************************)
EXTENDS Groups, FiniteSetTheorems, TLAPS

-----------------------------------------------------------------------------
(* The inductive invariant.                                                *)

Answers ==
    {"none", "group_limit", "gone", "created", "unknown_group", "already", "group_full",
     "joined", "not_creator", "listed", "successor_required", "left", "failed", "departed"}

GroupItems == [owner : Players \cup {None}, version : Nat]

Memory ==
    [pc : Pcs, target : GroupIds \cup {None}, read : GroupItems, others : SUBSET Players,
     todo : SUBSET GroupIds, tries : Nat, answer : Answers]

Types ==
    /\ job \in [Requests -> Jobs]
    /\ live \in SUBSET Players
    /\ group \in [GroupIds -> GroupItems]
    /\ memberRow \in [GroupIds -> SUBSET Players]
    /\ playerRow \in [Players -> SUBSET GroupIds]
    /\ req \in [Requests -> Memory]
    /\ conflicts \in Nat
    /\ \A g \in GroupIds : ~Exists(g) => group[g] = NoGroup

(* What the jobs of a run have in common, from StartsAssumption.           *)
JobFacts ==
    \A r \in Requests :
        /\ job[r].op = "remove" => job[r].member \in Players \ {Who(r)}
        /\ job[r].op = "create" =>
            \A q \in Requests \ {r} :
                ~(job[q].op = "create" /\ job[q].group = job[r].group)

Deciding(q) == q.pc \in {"members", "commit"}

(* Each operation goes its own way.                                        *)
Way(r, q) ==
    /\ q.pc \in {"count", "create"} => job[r].op = "create"
    /\ q.pc \in {"check", "room", "join"} => job[r].op = "join"
    /\ q.pc \in {"list", "next", "delete"} => Departing(r)
    /\ q.pc \in {"read", "members", "commit"} =>
        /\ job[r].op \in {"leave", "remove", "delete"}
        /\ q.target \in GroupIds
        /\ ~Departing(r) => q.target = job[r].group
    /\ q.pc = "members" => job[r].op # "remove"

(* A group still to be created exists nowhere, and in no snapshot.         *)
Uncreated(r) ==
    job[r].op = "create" /\ req[r].pc # "done" =>
        /\ group[job[r].group] = NoGroup
        /\ \A s \in Requests :
            Deciding(req[s]) /\ req[s].target = job[r].group => req[s].read.owner = None

(* A group at the version that was read is as it was read, and so are its  *)
(* members.                                                                *)
Snapshot(r, q) ==
    Deciding(q) /\ q.read.owner # None /\ Exists(q.target) =>
        /\ q.read.version <= group[q.target].version
        /\ q.read.version = group[q.target].version =>
            /\ group[q.target].owner = q.read.owner
            /\ q.pc = "commit" /\ job[r].op # "remove" =>
                    q.others = memberRow[q.target] \ {Who(r)}

(* What a request decided, it may do.                                      *)
Decided(r, q) ==
    /\ q.pc = "members" => q.read.owner # None
    /\ q.pc = "commit" =>
        /\ job[r].op = "remove" => q.read.owner = Who(r)
        /\ ~Departing(r) => q.read.owner # None
        /\ job[r].op = "leave" /\ q.read.owner = Who(r) =>
                ~(Cardinality(q.others) > 1) \/ job[r].successor \in q.others

(* Who departs is gone before it looks for its groups.                     *)
Gone(r, q) ==
    /\ Departing(r) /\ q.pc \notin {"idle", "delete"} => Who(r) \notin live
    /\ q.answer = "departed" => Departing(r) /\ q.pc = "done" /\ playerRow[Who(r)] = {}

Truth(r, q) == Way(r, q) /\ Snapshot(r, q) /\ Decided(r, q) /\ Gone(r, q)

Inv ==
    /\ Types /\ JobFacts
    /\ RowsArePaired
    /\ OwnerIsMember
    /\ \A r \in Requests : Uncreated(r) /\ Truth(r, req[r])

-----------------------------------------------------------------------------
(* A fresh request, and one that has answered, are typed.                  *)
LEMMA IdleTyped ==
    /\ Idle \in Memory
    /\ \A a \in Answers : [Idle EXCEPT !.pc = "done", !.answer = a] \in Memory
<1>1. Idle \in Memory
  <2>1. NoGroup \in GroupItems
    BY DEF NoGroup, GroupItems
  <2>2. "idle" \in Pcs
    BY DEF Pcs
  <2>3. "none" \in Answers
    BY DEF Answers
  <2> QED
    BY <2>1, <2>2, <2>3 DEF Idle, Memory
<1>2. ASSUME NEW a \in Answers PROVE [Idle EXCEPT !.pc = "done", !.answer = a] \in Memory
  BY <1>1 DEF Memory, Pcs
<1> QED
  BY <1>1, <1>2

(* The types of what a request asks and holds.                             *)
LEMMA RequestTyped ==
    ASSUME Types, NEW r \in Requests
    PROVE  /\ Who(r) \in Players
           /\ job[r].group \in GroupIds
           /\ req[r] \in Memory
BY DEF Types, Jobs, Who

(* A request that leaves the store alone, and holds what is true of it:    *)
(* a snapshot it newly holds is of the group as it is.                     *)
LEMMA QuietStep ==
    ASSUME Inv, NEW r \in Requests, NEW q \in Memory, Become(r, q),
           UNCHANGED <<job, items>>, conflicts' \in Nat,
           req[r].pc # "done",
           Truth(r, q),
           Deciding(q) => \/ q.read = group[q.target]
                          \/ Deciding(req[r]) /\ q.read = req[r].read /\ q.target = req[r].target
    PROVE  Inv'
<1> USE DEF items, Become
<1>1. Types' /\ JobFacts'
  BY DEF Inv, Types, JobFacts, Exists, Who
<1>2. RowsArePaired' /\ OwnerIsMember'
  BY DEF Inv, RowsArePaired, OwnerIsMember, Exists
<1>3. req'[r] = q /\ \A s \in Requests \ {r} : req'[s] = req[s]
  BY DEF Inv, Types
<1>4. ASSUME NEW s \in Requests PROVE Truth(s, req[s])'
  <2>1. Truth(s, req'[s])
    BY <1>3 DEF Inv
  <2> QED
    BY <2>1 DEF Truth, Way, Snapshot, Decided, Gone, Exists, Who, Departing
<1>5. ASSUME NEW s \in Requests PROVE Uncreated(s)'
  <2> SUFFICES ASSUME job[s].op = "create", req'[s].pc # "done"
               PROVE  /\ group[job[s].group] = NoGroup
                      /\ \A u \in Requests :
                            Deciding(req'[u]) /\ req'[u].target = job[s].group
                                => req'[u].read.owner = None
    BY DEF Uncreated, Deciding
  <2>1. Uncreated(s) /\ req[s].pc # "done"
    BY <1>3 DEF Inv
  <2> QED
    BY <1>3, <2>1 DEF Uncreated, NoGroup
<1> QED
  BY <1>1, <1>2, <1>4, <1>5 DEF Inv

(* A request that answers and leaves the store alone.                      *)
LEMMA AnswerStep ==
    ASSUME Inv, NEW r \in Requests, NEW a \in Answers, a # "departed", ~Departing(r),
           req[r].pc # "done", Answer(r, a), UNCHANGED <<job, items, conflicts>>
    PROVE  Inv'
<1> DEFINE q == [Idle EXCEPT !.pc = "done", !.answer = a]
<1>1. q \in Memory /\ q.pc = "done" /\ q.answer = a
  BY IdleTyped DEF Idle
<1>2. Become(r, q)
  BY DEF Answer
<1>3. Truth(r, q)
  BY <1>1 DEF Truth, Way, Snapshot, Decided, Gone, Deciding
<1> QED
  BY <1>1, <1>2, <1>3, QuietStep DEF Deciding, Inv, Types

-----------------------------------------------------------------------------
(* The steps that read.                                                    *)

LEMMA ArriveStep == ASSUME Inv, NEW r \in Requests, Arrive(r) PROVE Inv'
<1> DEFINE q == [Idle EXCEPT !.pc = FirstStep(job[r].op), !.target = job[r].group]
<1>1. job[r].op \in {"create", "join", "leave", "remove", "delete"}
  BY DEF Arrive, Inv, Types, Jobs
<1>2. q \in Memory /\ q.pc = FirstStep(job[r].op) /\ q.target = job[r].group /\ q.answer = "none"
  BY <1>1, IdleTyped, RequestTyped DEF Inv, Idle, FirstStep, Memory, Pcs
<1>3. Truth(r, q)
  BY <1>1, <1>2, RequestTyped
     DEF Truth, Way, Snapshot, Decided, Gone, Deciding, FirstStep, Departing, Inv
<1>4. Become(r, q) /\ req[r].pc # "done" /\ ~Deciding(q) /\ UNCHANGED <<job, items, conflicts>>
  <2>1. req[r].pc = "idle"
    BY DEF Arrive, At
  <2>2. Become(r, q) /\ UNCHANGED <<job, items, conflicts>>
    BY DEF Arrive
  <2>3. ~Deciding(q)
    BY <1>1, <1>2 DEF Deciding, FirstStep
  <2> QED
    BY <2>1, <2>2, <2>3
<1> QED
  BY <1>2, <1>3, <1>4, QuietStep DEF Inv, Types

(* Going on to a step that decides nothing, in the same way.               *)
LEMMA GotoStep ==
    ASSUME Inv, NEW r \in Requests, NEW pc \in {"create", "room", "join"}, Goto(r, pc),
           pc = "create" <=> req[r].pc = "count",
           pc \in {"room", "join"} <=> req[r].pc \in {"check", "room"},
           UNCHANGED <<job, items, conflicts>>
    PROVE  Inv'
<1> DEFINE q == [req[r] EXCEPT !.pc = pc]
<1>1. q \in Memory /\ q.pc = pc /\ q.answer = req[r].answer
  BY RequestTyped DEF Inv, Memory, Pcs
<1>2. Truth(r, req[r])
  BY DEF Inv
<1>3. Truth(r, q)
  BY <1>1, <1>2 DEF Truth, Way, Snapshot, Decided, Gone, Deciding, Departing
<1> QED
  BY <1>1, <1>3, QuietStep DEF Goto, Deciding, Inv, Types

LEMMA CountStep == ASSUME Inv, NEW r \in Requests, CountMine(r) PROVE Inv'
<1>1. ~Departing(r)
  BY DEF CountMine, At, Inv, Truth, Way, Departing
<1>2. CASE Answer(r, "group_limit")
  <2>1. req[r].pc # "done" /\ UNCHANGED <<job, items, conflicts>> /\ "group_limit" \in Answers
    BY DEF CountMine, At, Answers
  <2> QED
    BY <1>1, <1>2, <2>1, AnswerStep
<1>3. CASE Goto(r, "create")
  BY <1>3, GotoStep DEF CountMine, At
<1> QED
  BY <1>2, <1>3 DEF CountMine

LEMMA CheckStep == ASSUME Inv, NEW r \in Requests, CheckJoin(r) \/ CheckRoom(r) PROVE Inv'
<1>1. ~Departing(r)
  BY DEF CheckJoin, CheckRoom, At, Inv, Truth, Way, Departing
<1>2. ASSUME NEW a \in {"unknown_group", "already", "group_full", "group_limit"}, Answer(r, a)
      PROVE  Inv'
  <2>1. req[r].pc # "done" /\ UNCHANGED <<job, items, conflicts>> /\ a \in Answers /\ a # "departed"
    BY DEF CheckJoin, CheckRoom, At, Answers
  <2> QED
    BY <1>1, <1>2, <2>1, AnswerStep
<1>3. ASSUME NEW pc \in {"room", "join"}, Goto(r, pc) PROVE Inv'
  BY <1>3, GotoStep DEF CheckJoin, CheckRoom, At
<1> QED
  BY <1>2, <1>3 DEF CheckJoin, CheckRoom

LEMMA ReadGroupStep == ASSUME Inv, NEW r \in Requests, ReadGroup(r) PROVE Inv'
<1> DEFINE g == req[r].target
           q == [req[r] EXCEPT !.read = group[g]]
<1>1. /\ req[r] \in Memory /\ req[r].pc = "read" /\ Truth(r, req[r])
      /\ g \in GroupIds /\ group[g] \in GroupItems
      /\ UNCHANGED <<job, items, conflicts>>
  BY RequestTyped DEF ReadGroup, At, Inv, Types, Truth, Way
<1>2. ASSUME NEW a \in {"unknown_group", "not_creator", "listed"}, ~Departing(r), Answer(r, a)
      PROVE  Inv'
  <2>1. a \in Answers /\ a # "departed" /\ req[r].pc # "done"
    BY <1>1 DEF Answers
  <2> QED
    BY <1>1, <1>2, <2>1, AnswerStep
<1>3. ASSUME NEW pc \in {"members", "commit"}, Become(r, [q EXCEPT !.pc = pc]),
             pc = "members" => job[r].op # "remove" /\ Exists(g),
             pc = "commit" => \/ job[r].op = "remove" /\ Exists(g) /\ group[g].owner = Who(r)
                              \/ Departing(r) /\ ~Exists(g)
      PROVE  Inv'
  <2> DEFINE u == [q EXCEPT !.pc = pc]
  <2>1. /\ u \in Memory /\ u.pc = pc /\ u.read = group[g] /\ u.target = g
        /\ u.answer = req[r].answer /\ u.others = req[r].others
    BY <1>1 DEF Memory, Pcs
  <2>2. Way(r, u)
    BY <1>1, <1>3, <2>1 DEF Truth, Way
  <2>3. Snapshot(r, u)
    BY <1>1, <1>3, <2>1 DEF Snapshot, Exists, GroupItems, Departing
  <2>4. Decided(r, u)
    BY <1>1, <1>3, <2>1 DEF Decided, Exists, Departing
  <2>5. Gone(r, u)
    BY <1>1, <1>3, <2>1 DEF Gone, Truth, Departing
  <2> QED
    BY <1>1, <1>3, <2>1, <2>2, <2>3, <2>4, <2>5, QuietStep DEF Truth, Inv, Types
<1>4. CASE job[r].op = "remove"
  BY <1>2, <1>3, <1>4 DEF ReadGroup, Departing
<1>5. CASE job[r].op # "remove"
  BY <1>2, <1>3, <1>5 DEF ReadGroup
<1> QED
  BY <1>4, <1>5

LEMMA ReadMembersStep == ASSUME Inv, NEW r \in Requests, ReadMembers(r) PROVE Inv'
<1> DEFINE g == req[r].target
           others == memberRow[g] \ {Who(r)}
           u == [req[r] EXCEPT !.pc = "commit", !.others = others]
<1>1. /\ req[r] \in Memory /\ req[r].pc = "members" /\ Truth(r, req[r])
      /\ g \in GroupIds /\ others \in SUBSET Players
      /\ UNCHANGED <<job, items, conflicts>>
  BY RequestTyped DEF ReadMembers, At, Inv, Types, Truth, Way
<1>2. ASSUME NEW a \in {"successor_required", "listed"}, ~Departing(r), Answer(r, a)
      PROVE  Inv'
  <2>1. a \in Answers /\ a # "departed" /\ req[r].pc # "done"
    BY <1>1 DEF Answers
  <2> QED
    BY <1>1, <1>2, <2>1, AnswerStep
<1>3. CASE Become(r, u) /\ ~(/\ ~Departing(r)
                             /\ req[r].read.owner = Who(r)
                             /\ Cardinality(others) > 1
                             /\ job[r].successor \notin others)
  <2>1. /\ u \in Memory /\ u.pc = "commit" /\ u.read = req[r].read /\ u.target = g
        /\ u.answer = req[r].answer /\ u.others = others
    BY <1>1 DEF Memory, Pcs
  <2>2. Way(r, u)
    BY <1>1, <2>1 DEF Truth, Way
  <2>3. Snapshot(r, u)
    BY <1>1, <2>1 DEF Truth, Snapshot, Deciding
  <2>4. Decided(r, u)
    BY <1>1, <1>3, <2>1 DEF Decided, Truth, Way, Departing
  <2>5. Gone(r, u)
    BY <1>1, <2>1 DEF Gone, Truth
  <2> QED
    BY <1>1, <1>3, <2>1, <2>2, <2>3, <2>4, <2>5, QuietStep DEF Truth, Deciding, Inv, Types
<1> QED
  BY <1>2, <1>3 DEF ReadMembers

LEMMA RetriedStep == ASSUME Inv, NEW r \in Requests, Refused(r) \/ Conflict(r) PROVE Inv'
<1>1. /\ req[r] \in Memory /\ req[r].pc = "commit" /\ Truth(r, req[r])
      /\ req[r].target \in GroupIds /\ Become(r, Retried(r))
      /\ UNCHANGED <<job, items>> /\ conflicts' \in Nat
  BY RequestTyped DEF Refused, Conflict, At, Inv, Types, Truth, Way
<1>2. CASE Departing(r)
  <2> DEFINE u == OnwardFrom(r)
  <2>1. u \in Memory /\ u.pc = "next" /\ u.answer = req[r].answer
    BY <1>1 DEF OnwardFrom, Memory, Pcs, GroupItems, NoGroup
  <2>2. Truth(r, u)
    BY <1>1, <1>2, <2>1 DEF Truth, Way, Snapshot, Decided, Gone, Deciding
  <2> QED
    BY <1>1, <1>2, <2>1, <2>2, QuietStep DEF Retried, Deciding
<1>3. CASE ~Departing(r) /\ req[r].tries + 1 < Attempts
  <2> DEFINE u == [Idle EXCEPT !.pc = "read", !.target = job[r].group,
                               !.tries = req[r].tries + 1]
  <2>1. u \in Memory /\ u.pc = "read" /\ u.answer = "none" /\ u.target = job[r].group
    <3>1. Idle \in Memory /\ Idle.answer = "none"
      BY IdleTyped DEF Idle
    <3>2. job[r].group \in GroupIds /\ req[r].tries + 1 \in Nat
      BY <1>1, RequestTyped DEF Inv, Memory
    <3> QED
      BY <3>1, <3>2 DEF Memory, Pcs
  <2>2. Truth(r, u)
    BY <1>1, <1>3, <2>1, RequestTyped DEF Truth, Way, Snapshot, Decided, Gone, Deciding, Inv
  <2> QED
    BY <1>1, <1>3, <2>1, <2>2, QuietStep DEF Retried, Deciding
<1>4. CASE ~Departing(r) /\ ~(req[r].tries + 1 < Attempts)
  <2> DEFINE u == [Idle EXCEPT !.pc = "done", !.answer = "failed"]
  <2>1. u \in Memory /\ u.pc = "done" /\ u.answer = "failed"
    BY IdleTyped DEF Idle, Answers
  <2>2. Truth(r, u)
    BY <1>4, <2>1 DEF Truth, Way, Snapshot, Decided, Gone, Deciding
  <2> QED
    BY <1>1, <1>4, <2>1, <2>2, QuietStep DEF Retried, Deciding
<1> QED
  BY <1>2, <1>3, <1>4

LEMMA ListStep == ASSUME Inv, NEW r \in Requests, ListMine(r) \/ NextGroup(r) PROVE Inv'
<1>1. /\ req[r] \in Memory /\ req[r].pc \in {"list", "next"} /\ Truth(r, req[r])
      /\ Departing(r) /\ Who(r) \notin live /\ Who(r) \in Players
      /\ playerRow[Who(r)] \in SUBSET GroupIds
      /\ UNCHANGED <<job, items, conflicts>> /\ conflicts' \in Nat
  BY RequestTyped DEF ListMine, NextGroup, At, Inv, Types, Truth, Way, Gone
<1>2. ASSUME NEW u \in Memory, Become(r, u), u.pc \in {"list", "next", "read"},
             u.pc = "read" => u.target \in GroupIds, u.answer = req[r].answer
      PROVE  Inv'
  <2>1. Truth(r, u)
    BY <1>1, <1>2 DEF Truth, Way, Snapshot, Decided, Gone, Deciding, Departing
  <2> QED
    BY <1>1, <1>2, <2>1, QuietStep DEF Deciding
<1>3. CASE playerRow[Who(r)] = {} /\ Answer(r, "departed")
  <2> DEFINE u == [Idle EXCEPT !.pc = "done", !.answer = "departed"]
  <2>1. u \in Memory /\ u.pc = "done" /\ u.answer = "departed"
    BY IdleTyped DEF Idle, Answers
  <2>2. Truth(r, u)
    BY <1>1, <1>3, <2>1 DEF Truth, Way, Snapshot, Decided, Gone, Deciding
  <2> QED
    BY <1>1, <1>3, <2>1, <2>2, QuietStep DEF Answer, Deciding
<1>4. CASE Become(r, [req[r] EXCEPT !.tries = 0])
  <2>1. [req[r] EXCEPT !.tries = 0] \in Memory
    BY <1>1 DEF Memory
  <2> QED
    BY <1>1, <1>2, <1>4, <2>1 DEF ListMine, NextGroup, At, Memory
<1>5. ASSUME NEW m \in SUBSET GroupIds, NEW k \in Nat,
             Become(r, [req[r] EXCEPT !.pc = "next", !.todo = m, !.tries = k])
      PROVE  Inv'
  <2>1. [req[r] EXCEPT !.pc = "next", !.todo = m, !.tries = k] \in Memory
    BY <1>1 DEF Memory, Pcs
  <2> QED
    BY <1>1, <1>2, <1>5, <2>1 DEF Memory
<1>6. CASE Goto(r, "list")
  <2>1. [req[r] EXCEPT !.pc = "list"] \in Memory
    BY <1>1 DEF Memory, Pcs
  <2> QED
    BY <1>1, <1>2, <1>6, <2>1 DEF Memory, Goto
<1>7. ASSUME NEW g \in req[r].todo, Become(r, [req[r] EXCEPT !.pc = "read", !.target = g])
      PROVE  Inv'
  <2>1. g \in GroupIds
    BY <1>1, <1>7 DEF Memory
  <2>2. [req[r] EXCEPT !.pc = "read", !.target = g] \in Memory
    BY <1>1, <2>1 DEF Memory, Pcs
  <2> QED
    BY <1>1, <1>2, <1>7, <2>1, <2>2 DEF Memory
<1>8. req[r].tries + 1 \in Nat
  BY <1>1 DEF Memory
<1> QED
  BY <1>1, <1>3, <1>4, <1>5, <1>6, <1>7, <1>8 DEF ListMine, NextGroup

-----------------------------------------------------------------------------
(* The steps that write.  A write to one group leaves every other request's *)
(* snapshot true if it moves the group's version, ends the group, or is the *)
(* first of it.                                                            *)
LEMMA WriteStep ==
    ASSUME Inv, NEW r \in Requests, NEW q \in Memory, Become(r, q), ~Deciding(q),
           Way(r, q), q.answer # "departed",
           Departing(r) /\ q.pc \notin {"idle", "delete"} => Who(r) \notin live',
           req[r].pc # "done", job' = job, conflicts' \in Nat,
           live' \in SUBSET live,
           NEW g \in GroupIds, NEW after \in GroupItems,
           group' \in [GroupIds -> GroupItems], group'[g] = after,
           \A h \in GroupIds \ {g} : group'[h] = group[h], after.owner = None => after = NoGroup,
           memberRow' \in [GroupIds -> SUBSET Players],
           playerRow' \in [Players -> SUBSET GroupIds],
           \A h \in GroupIds \ {g} : memberRow'[h] = memberRow[h],
           RowsArePaired', OwnerIsMember',
           \A s \in Requests \ {r} :
               Departing(s) /\ req[s].answer = "departed" => playerRow'[Who(s)] = {},
           \/ after = NoGroup
           \/ Exists(g) /\ after.version > group[g].version
           \/ \A s \in Requests \ {r} :
                Deciding(req[s]) /\ req[s].target = g => req[s].read.owner = None,
           \A s \in Requests \ {r} :
               job[s].op = "create" /\ job[s].group = g => after = NoGroup \/ req[s].pc = "done",
           job[r].op = "create" => q.pc = "done"
    PROVE  Inv'
<1> USE DEF Become
<1>1. /\ req'[r] = q /\ \A s \in Requests \ {r} : req'[s] = req[s]
      /\ group'[g] = after /\ \A h \in GroupIds \ {g} : group'[h] = group[h]
      /\ group[g] \in GroupItems
  BY DEF Inv, Types
<1>2. Types'
  BY <1>1 DEF Inv, Types, Exists
<1>3. JobFacts'
  BY DEF Inv, JobFacts, Who
<1>4. ASSUME NEW s \in Requests \ {r} PROVE Truth(s, req[s])'
  <2>1. Truth(s, req[s]) /\ req'[s] = req[s] /\ req[s] \in Memory
    BY <1>1 DEF Inv, Types
  <2>2. Way(s, req[s])'
    BY <2>1 DEF Truth, Way, Departing
  <2>3. Snapshot(s, req[s])'
    <3>1. CASE req[s].target # g
      BY <1>1, <2>1, <3>1 DEF Truth, Snapshot, Exists, Deciding, Way, Who
    <3>2. CASE req[s].target = g
      <4> SUFFICES ASSUME Deciding(req[s]), req[s].read.owner # None, Exists(g)'
                   PROVE  /\ req[s].read.version <= group'[g].version
                          /\ req[s].read.version # group'[g].version
        BY <2>1, <3>2 DEF Snapshot, Deciding, Exists
      <4>1. after # NoGroup
        BY <1>1 DEF Exists, NoGroup
      <4>2. Exists(g) /\ after.version > group[g].version
        BY <4>1, <3>2
      <4>3. req[s].read.version <= group[g].version
        BY <2>1, <3>2, <4>2 DEF Truth, Snapshot
      <4> QED
        BY <1>1, <2>1, <4>2, <4>3 DEF GroupItems, Memory
    <3> QED
      BY <3>1, <3>2
  <2>4. Decided(s, req[s])'
    BY <2>1 DEF Truth, Decided, Departing, Who
  <2>5. Gone(s, req[s])'
    BY <2>1 DEF Truth, Gone, Departing, Who
  <2> QED
    BY <2>2, <2>3, <2>4, <2>5 DEF Truth
<1>5. ASSUME NEW s \in Requests PROVE Uncreated(s)'
  <2> SUFFICES ASSUME job[s].op = "create", req'[s].pc # "done"
               PROVE  /\ group'[job[s].group] = NoGroup
                      /\ \A u \in Requests :
                            Deciding(req'[u]) /\ req'[u].target = job[s].group
                                => req'[u].read.owner = None
    BY DEF Uncreated, Deciding
  <2>1. s # r /\ req[s].pc # "done" /\ Uncreated(s) /\ job[s].group \in GroupIds
    BY <1>1, RequestTyped DEF Inv
  <2>2. group'[job[s].group] = NoGroup
    BY <1>1, <2>1 DEF Uncreated
  <2>3. ASSUME NEW u \in Requests, Deciding(req'[u]), req'[u].target = job[s].group
        PROVE  req'[u].read.owner = None
    <3>1. u # r /\ req'[u] = req[u]
      BY <1>1, <2>3
    <3> QED
      BY <2>1, <2>3, <3>1 DEF Uncreated
  <2> QED
    BY <2>2, <2>3
<1>6. Truth(r, req[r])'
  <2>1. Way(r, q)'
    BY DEF Way, Departing
  <2>2. Truth(r, q)'
    BY <2>1 DEF Truth, Snapshot, Decided, Gone, Deciding, Departing, Who
  <2> QED
    BY <1>1, <2>2 DEF Truth, Way, Snapshot, Decided, Gone, Deciding
<1> QED
  BY <1>2, <1>3, <1>4, <1>5, <1>6 DEF Inv

LEMMA CreateStep == ASSUME Inv, NEW r \in Requests, Create(r) PROVE Inv'
<1> DEFINE g == job[r].group
           w == Who(r)
           after == [owner |-> w, version |-> 0]
           u == [Idle EXCEPT !.pc = "done", !.answer = "created"]
<1>1. /\ req[r] \in Memory /\ req[r].pc = "create" /\ job[r].op = "create"
      /\ g \in GroupIds /\ w \in Players /\ ~Departing(r)
      /\ UNCHANGED <<job, live, conflicts>>
  BY RequestTyped DEF Create, At, Inv, Truth, Way, Departing
<1>2. CASE ~AccountStands(w)
  <2>1. Answer(r, "gone") /\ UNCHANGED <<job, items, conflicts>> /\ "gone" \in Answers
    BY <1>1, <1>2 DEF Create, items, Answers
  <2> QED
    BY <1>1, <2>1, AnswerStep
<1>3. CASE AccountStands(w)
  <2>1. /\ group' = [group EXCEPT ![g] = after] /\ Become(r, u)
        /\ memberRow' = [memberRow EXCEPT ![g] = @ \cup {w}]
        /\ playerRow' = [playerRow EXCEPT ![w] = @ \cup {g}]
    BY <1>3 DEF Create, PutRows, Answer
  <2>2. u \in Memory /\ u.pc = "done" /\ u.answer = "created"
    BY IdleTyped DEF Idle, Answers
  <2>3. Way(r, u) /\ u.answer # "departed"
    BY <2>2 DEF Way
  <2>4. after \in GroupItems /\ after.owner # None
    BY <1>1, NoneAssumption DEF GroupItems
  <2>5. /\ group[g] = NoGroup
        /\ \A s \in Requests \ {r} :
            Deciding(req[s]) /\ req[s].target = g => req[s].read.owner = None
    BY <1>1 DEF Inv, Uncreated
  <2>6. /\ memberRow' \in [GroupIds -> SUBSET Players]
        /\ playerRow' \in [Players -> SUBSET GroupIds]
        /\ group' \in [GroupIds -> GroupItems] /\ group'[g] = after
        /\ \A h \in GroupIds \ {g} : memberRow'[h] = memberRow[h] /\ group'[h] = group[h]
    BY <1>1, <2>1, <2>4 DEF Inv, Types
  <2>7. RowsArePaired'
    BY <1>1, <2>1, <2>4, <2>6 DEF Inv, Types, RowsArePaired, Exists
  <2>8. OwnerIsMember'
    BY <1>1, <2>1, <2>6 DEF Inv, Types, OwnerIsMember, Exists
  <2>9. \A s \in Requests \ {r} :
            Departing(s) /\ req[s].answer = "departed" => playerRow'[Who(s)] = {}
    <3> TAKE s \in Requests \ {r}
    <3> HAVE Departing(s) /\ req[s].answer = "departed"
    <3>1. Who(s) \notin live /\ playerRow[Who(s)] = {} /\ Who(s) \in Players
      BY RequestTyped DEF Inv, Truth, Gone
    <3>2. Who(s) # w
      BY <1>3, <3>1 DEF AccountStands
    <3> QED
      BY <2>1, <2>6, <3>1, <3>2 DEF Inv, Types
  <2>10. \A s \in Requests \ {r} :
            job[s].op = "create" /\ job[s].group = g => after = NoGroup \/ req[s].pc = "done"
    BY <1>1 DEF Inv, JobFacts
  <2>11. ~Deciding(u) /\ live' \in SUBSET live /\ conflicts' \in Nat /\ req[r].pc # "done"
    BY <1>1, <2>2 DEF Deciding, Inv, Types
  <2> HIDE DEF after, u
  <2> QED
    BY <1>1, <2>1, <2>2, <2>3, <2>4, <2>5, <2>6, <2>7, <2>8, <2>9, <2>10, <2>11, WriteStep
<1> QED
  BY <1>2, <1>3

LEMMA JoinStep == ASSUME Inv, NEW r \in Requests, Join(r) PROVE Inv'
<1> DEFINE g == job[r].group
           w == Who(r)
           after == [group[g] EXCEPT !.version = @ + 1]
           u == [Idle EXCEPT !.pc = "done", !.answer = "joined"]
<1>1. /\ req[r] \in Memory /\ req[r].pc = "join" /\ job[r].op = "join"
      /\ g \in GroupIds /\ w \in Players /\ ~Departing(r) /\ group[g] \in GroupItems
      /\ UNCHANGED <<job, live, conflicts>>
  BY RequestTyped DEF Join, At, Inv, Types, Truth, Way, Departing
<1>2. CASE ~(AccountStands(w) /\ Exists(g) /\ g \notin playerRow[w])
  <2>1. /\ \E a \in {"gone", "unknown_group", "already"} : Answer(r, a)
        /\ UNCHANGED <<job, items, conflicts>>
    BY <1>1, <1>2 DEF Join, items
  <2> QED
    BY <1>1, <2>1, AnswerStep DEF Answers
<1>3. CASE AccountStands(w) /\ Exists(g) /\ g \notin playerRow[w]
  <2>1. /\ group' = [group EXCEPT ![g] = after] /\ Become(r, u)
        /\ memberRow' = [memberRow EXCEPT ![g] = @ \cup {w}]
        /\ playerRow' = [playerRow EXCEPT ![w] = @ \cup {g}]
    BY <1>3 DEF Join, Joined, PutRows, Answer
  <2>2. u \in Memory /\ u.pc = "done" /\ u.answer = "joined"
    BY IdleTyped DEF Idle, Answers
  <2>3. Way(r, u) /\ u.answer # "departed"
    BY <2>2 DEF Way
  <2>4. /\ after \in GroupItems /\ after.owner # None
        /\ after.owner = group[g].owner /\ after.version > group[g].version
    BY <1>1, <1>3 DEF GroupItems, Exists
  <2>5. /\ memberRow' \in [GroupIds -> SUBSET Players]
        /\ playerRow' \in [Players -> SUBSET GroupIds]
        /\ group' \in [GroupIds -> GroupItems] /\ group'[g] = after
        /\ \A h \in GroupIds \ {g} : memberRow'[h] = memberRow[h] /\ group'[h] = group[h]
    BY <1>1, <2>1, <2>4 DEF Inv, Types
  <2>6. RowsArePaired'
    BY <1>1, <2>1, <2>4, <2>5 DEF Inv, Types, RowsArePaired, Exists
  <2>7. OwnerIsMember'
    BY <1>1, <1>3, <2>1, <2>4, <2>5 DEF Inv, Types, OwnerIsMember, Exists
  <2>8. \A s \in Requests \ {r} :
            Departing(s) /\ req[s].answer = "departed" => playerRow'[Who(s)] = {}
    <3> TAKE s \in Requests \ {r}
    <3> HAVE Departing(s) /\ req[s].answer = "departed"
    <3>1. Who(s) \notin live /\ playerRow[Who(s)] = {} /\ Who(s) \in Players
      BY RequestTyped DEF Inv, Truth, Gone
    <3>2. Who(s) # w
      BY <1>3, <3>1 DEF AccountStands
    <3> QED
      BY <2>1, <2>5, <3>1, <3>2 DEF Inv, Types
  <2>9. \A s \in Requests \ {r} :
            job[s].op = "create" /\ job[s].group = g => after = NoGroup \/ req[s].pc = "done"
    BY <1>3 DEF Inv, Uncreated, Exists, NoGroup
  <2>10. ~Deciding(u) /\ live' \in SUBSET live /\ conflicts' \in Nat /\ req[r].pc # "done"
    BY <1>1, <2>2 DEF Deciding, Inv, Types
  <2> HIDE DEF after, u
  <2> QED
    BY <1>1, <1>3, <2>1, <2>2, <2>3, <2>4, <2>5, <2>6, <2>7, <2>8, <2>9, <2>10, WriteStep
<1> QED
  BY <1>2, <1>3

LEMMA DeleteStep == ASSUME Inv, NEW r \in Requests, DeleteAccount(r) PROVE Inv'
<1> DEFINE u == [req[r] EXCEPT !.pc = "list"]
<1> USE DEF items
<1>1. /\ req[r] \in Memory /\ req[r].pc = "delete" /\ job[r].op = "delete"
      /\ Truth(r, req[r]) /\ Become(r, u) /\ live' = live \ {Who(r)}
      /\ UNCHANGED <<job, group, memberRow, playerRow, conflicts>>
  BY RequestTyped DEF DeleteAccount, At, Goto, Inv, Truth, Way, Departing
<1>2. u \in Memory /\ u.pc = "list" /\ u.answer = req[r].answer
  BY <1>1 DEF Memory, Pcs
<1>3. req'[r] = u /\ \A s \in Requests \ {r} : req'[s] = req[s]
  BY <1>1 DEF Become, Inv, Types
<1>4. Types' /\ JobFacts' /\ RowsArePaired' /\ OwnerIsMember'
  BY <1>1, <1>2, <1>3
     DEF Inv, Types, JobFacts, RowsArePaired, OwnerIsMember, Exists, Who, Become
<1>5. ASSUME NEW s \in Requests PROVE Truth(s, req[s])'
  <2>1. CASE s = r
    BY <1>1, <1>2, <1>3, <2>1 DEF Truth, Way, Snapshot, Decided, Gone, Deciding, Departing, Who
  <2>2. CASE s # r
    <3>1. Truth(s, req[s]) /\ req'[s] = req[s]
      BY <1>3, <2>2 DEF Inv
    <3> QED
      BY <1>1, <3>1 DEF Truth, Way, Snapshot, Decided, Gone, Exists, Who, Departing
  <2> QED
    BY <2>1, <2>2
<1>6. ASSUME NEW s \in Requests PROVE Uncreated(s)'
  <2>1. Uncreated(s) /\ (job[s].op = "create" => s # r)
    BY <1>1 DEF Inv
  <2> QED
    BY <1>1, <1>2, <1>3, <2>1, ZenonT(60) DEF Uncreated, Deciding
<1> QED
  BY <1>4, <1>5, <1>6 DEF Inv

(* Who takes a group over stays in it.                                     *)
LEMMA HeirStays ==
    ASSUME Inv, NEW r \in Requests, req[r].pc = "commit", job[r].op # "remove",
           req[r].read.owner = Who(r), req[r].others # {}
    PROVE  Successors(r) \in SUBSET req[r].others
<1>1. IsFiniteSet(req[r].others)
  BY NoneAssumption, RequestTyped, FS_Subset DEF Inv, Memory
<1>2. Cardinality(req[r].others) \in Nat /\ Cardinality(req[r].others) # 0
  BY <1>1, FS_EmptySet, FS_CardinalityType
<1>3. CASE ~(Departing(r) \/ Cardinality(req[r].others) = 1)
  <2>1. Cardinality(req[r].others) > 1
    BY <1>2, <1>3
  <2>2. job[r].op = "leave"
    BY <1>3 DEF Inv, Truth, Way, Departing
  <2>3. job[r].successor \in req[r].others
    BY <2>1, <2>2 DEF Inv, Truth, Decided
  <2> QED
    BY <1>3, <2>3 DEF Successors
<1> QED
  BY <1>3 DEF Successors

(* What a request decided on a group still at its version.                 *)
LEMMA StandingSnapshot ==
    ASSUME Inv, NEW r \in Requests, req[r].pc = "commit", SnapshotStands(r),
           req[r].read.owner # None
    PROVE  /\ Exists(req[r].target)
           /\ group[req[r].target].owner = req[r].read.owner
           /\ job[r].op # "remove" =>
                req[r].others = memberRow[req[r].target] \ {Who(r)}
<1>1. Truth(r, req[r]) /\ Deciding(req[r])
  BY DEF Inv, Deciding
<1>2. Snapshot(r, req[r])
  BY <1>1 DEF Truth
<1>3. Exists(req[r].target) /\ group[req[r].target].version = req[r].read.version
  BY DEF SnapshotStands
<1> QED
  BY <1>1, <1>2, <1>3 DEF Snapshot

(* What a commit makes of the group: it is as it was a version later, its  *)
(* owner staying or a member that stays taking over; or nobody stays.      *)
LEMMA AfterCommit ==
    ASSUME Inv, NEW r \in Requests, Commit(r), NEW after \in GroupAfter(r)
    PROVE  LET g == req[r].target
               stay == memberRow[g] \ {Leaver(r)}
           IN  /\ after \in GroupItems
               /\ \/ after = NoGroup /\ stay = {}
                  \/ /\ Exists(g) /\ after.version > group[g].version
                     /\ after.owner \in stay
<1> DEFINE g == req[r].target
           stay == memberRow[g] \ {Leaver(r)}
           next == [group[g] EXCEPT !.version = @ + 1]
<1>1. /\ req[r] \in Memory /\ req[r].pc = "commit" /\ Truth(r, req[r]) /\ SnapshotStands(r)
      /\ g \in GroupIds /\ group[g] \in GroupItems /\ Who(r) \in Players
      /\ memberRow[g] \in SUBSET Players
  BY RequestTyped DEF Commit, At, Inv, Types, Truth, Way
<1>2. NoGroup \in GroupItems
  BY DEF NoGroup, GroupItems
<1>3. /\ next \in GroupItems /\ next.version > group[g].version
      /\ next.owner = group[g].owner
  BY <1>1 DEF GroupItems
<1>4. CASE req[r].read.owner = None
  <2>1. after = NoGroup /\ ~Exists(g)
    BY <1>1, <1>4 DEF GroupAfter, SnapshotStands
  <2>2. memberRow[g] = {}
    BY <1>1, <2>1 DEF Inv, RowsArePaired
  <2> QED
    BY <1>2, <2>1, <2>2
<1>5. CASE req[r].read.owner # None
  <2>1. /\ Exists(g) /\ group[g].owner = req[r].read.owner
        /\ job[r].op # "remove" => req[r].others = memberRow[g] \ {Who(r)}
    BY <1>1, <1>5, StandingSnapshot
  <2>2. group[g].owner \in memberRow[g]
    BY <1>1, <2>1 DEF Inv, OwnerIsMember
  <2>3. CASE job[r].op = "remove"
    <3>1. after = next
      BY <1>5, <2>3 DEF GroupAfter
    <3>2. Leaver(r) # Who(r) /\ req[r].read.owner = Who(r)
      BY <1>1, <2>3 DEF Inv, JobFacts, Leaver, Truth, Decided
    <3> QED
      BY <1>3, <2>1, <2>2, <3>1, <3>2
  <2>4. CASE job[r].op # "remove" /\ req[r].others = {}
    BY <1>2, <1>5, <2>1, <2>4 DEF GroupAfter, Leaver
  <2>5. CASE job[r].op # "remove" /\ req[r].others # {} /\ req[r].read.owner # Who(r)
    <3>1. after = next
      BY <1>5, <2>5 DEF GroupAfter
    <3> QED
      BY <1>3, <2>1, <2>2, <2>5, <3>1 DEF Leaver
  <2>6. CASE job[r].op # "remove" /\ req[r].others # {} /\ req[r].read.owner = Who(r)
    <3>1. PICK p \in Successors(r) : after = [next EXCEPT !.owner = p]
      BY <1>5, <2>6 DEF GroupAfter
    <3>2. p \in stay
      BY <1>1, <2>1, <2>6, <3>1, HeirStays DEF Leaver
    <3>3. after \in GroupItems /\ after.owner = p /\ after.version = next.version
      BY <1>1, <1>3, <3>1, <3>2 DEF GroupItems
    <3> QED
      BY <1>3, <2>1, <3>2, <3>3
  <2> QED
    BY <2>3, <2>4, <2>5, <2>6
<1> QED
  BY <1>4, <1>5

LEMMA CommitStep == ASSUME Inv, NEW r \in Requests, Commit(r) PROVE Inv'
<1> DEFINE g == req[r].target
           p == Leaver(r)
           onward == OnwardFrom(r)
           left == [Idle EXCEPT !.pc = "done", !.answer = "left"]
<1>1. /\ req[r] \in Memory /\ req[r].pc = "commit" /\ Truth(r, req[r])
      /\ g \in GroupIds /\ job' = job /\ live' = live /\ conflicts' = conflicts
      /\ DeleteRows(g, p)
  BY RequestTyped DEF Commit, At, Inv, Types, Truth, Way
<1>2. p \in Players
  BY RequestTyped DEF Leaver, Inv, JobFacts
<1>3. PICK after \in GroupAfter(r) : group' = [group EXCEPT ![g] = after]
  BY DEF Commit
<1>4. /\ after \in GroupItems
      /\ \/ after = NoGroup /\ memberRow[g] \ {p} = {}
         \/ /\ Exists(g) /\ after.version > group[g].version
            /\ after.owner \in memberRow[g] \ {p}
  BY <1>3, AfterCommit
<1>5. after.owner = None => after = NoGroup
  BY <1>1, <1>4, NoneAssumption DEF Inv, Types
<1>6. /\ memberRow' \in [GroupIds -> SUBSET Players]
      /\ playerRow' \in [Players -> SUBSET GroupIds]
      /\ group' \in [GroupIds -> GroupItems] /\ group'[g] = after
      /\ \A h \in GroupIds \ {g} : memberRow'[h] = memberRow[h] /\ group'[h] = group[h]
  BY <1>1, <1>2, <1>3, <1>4 DEF DeleteRows, Inv, Types
<1>7. RowsArePaired'
  <2>1. memberRow'[g] = memberRow[g] \ {p} /\ playerRow'[p] = playerRow[p] \ {g}
    BY <1>1, <1>2 DEF DeleteRows, Inv, Types
  <2>2. \A h \in Players \ {p} : playerRow'[h] = playerRow[h]
    BY <1>1, <1>2 DEF DeleteRows, Inv, Types
  <2> SUFFICES ASSUME NEW h \in GroupIds, NEW m \in Players
               PROVE  /\ m \in memberRow'[h] <=> h \in playerRow'[m]
                      /\ h \in playerRow'[m] => group'[h].owner # None
    BY DEF RowsArePaired, Exists
  <2>3. /\ m \in memberRow[h] <=> h \in playerRow[m]
        /\ h \in playerRow[m] => group[h].owner # None
    BY DEF Inv, RowsArePaired, Exists
  <2>4. CASE h # g
    BY <1>6, <2>1, <2>2, <2>3, <2>4
  <2>5. CASE h = g
    <3>1. m \in memberRow'[g] <=> g \in playerRow'[m]
      BY <2>1, <2>2, <2>3, <2>5
    <3>2. m \in memberRow'[g] => after # NoGroup
      BY <1>4, <2>1, <2>3, <2>5, NoneAssumption DEF NoGroup, Inv, Types
    <3> QED
      BY <1>5, <1>6, <2>5, <3>1, <3>2
  <2> QED
    BY <2>4, <2>5
<1>8. OwnerIsMember'
  <2>1. memberRow'[g] = memberRow[g] \ {p}
    BY <1>1, <1>2 DEF DeleteRows, Inv, Types
  <2>2. after = NoGroup \/ after.owner \in memberRow'[g]
    BY <1>4, <2>1
  <2> QED
    BY <1>6, <2>2 DEF OwnerIsMember, Exists, Inv, NoGroup
<1>9. \A s \in Requests \ {r} :
          Departing(s) /\ req[s].answer = "departed" => playerRow'[Who(s)] = {}
  <2> TAKE s \in Requests \ {r}
  <2> HAVE Departing(s) /\ req[s].answer = "departed"
  <2>1. playerRow[Who(s)] = {} /\ Who(s) \in Players
    BY RequestTyped DEF Inv, Truth, Gone
  <2> QED
    BY <1>1, <1>2, <2>1 DEF DeleteRows, Inv, Types
<1>10. \A s \in Requests \ {r} :
          job[s].op = "create" /\ job[s].group = g => after = NoGroup \/ req[s].pc = "done"
  BY <1>4 DEF Inv, Uncreated, Exists, NoGroup
<1>11. /\ after = NoGroup \/ (Exists(g) /\ after.version > group[g].version)
       /\ live' \in SUBSET live /\ conflicts' \in Nat /\ req[r].pc # "done"
       /\ job[r].op # "create"
  <2>1. after = NoGroup \/ (Exists(g) /\ after.version > group[g].version)
    BY <1>4
  <2>2. live' \in SUBSET live /\ conflicts' \in Nat
    BY <1>1 DEF Inv, Types
  <2>3. req[r].pc # "done" /\ job[r].op # "create"
    BY <1>1 DEF Truth, Way
  <2> QED
    BY <2>1, <2>2, <2>3
<1>12. CASE Departing(r)
  <2>1. onward \in Memory /\ onward.pc = "next" /\ onward.answer = req[r].answer
    BY <1>1 DEF OnwardFrom, Memory, Pcs, GroupItems, NoGroup
  <2>2. /\ Way(r, onward) /\ onward.answer # "departed" /\ Who(r) \notin live'
        /\ ~Deciding(onward) /\ Become(r, onward)
    BY <1>1, <1>12, <2>1 DEF Truth, Way, Gone, Deciding, Commit
  <2> HIDE DEF onward
  <2> QED
    BY <1>1, <1>4, <1>5, <1>6, <1>7, <1>8, <1>9, <1>10, <1>11, <2>1, <2>2, WriteStep
<1>13. CASE ~Departing(r)
  <2>1. left \in Memory /\ left.pc = "done" /\ left.answer = "left"
    BY IdleTyped DEF Idle, Answers
  <2>2. /\ Way(r, left) /\ left.answer # "departed" /\ ~Deciding(left) /\ Become(r, left)
    BY <1>13, <2>1 DEF Way, Deciding, Commit, Answer
  <2> HIDE DEF left
  <2> QED
    BY <1>1, <1>4, <1>5, <1>6, <1>7, <1>8, <1>9, <1>10, <1>11, <1>13, <2>1, <2>2, WriteStep
<1> QED
  BY <1>12, <1>13

-----------------------------------------------------------------------------
(* The invariant, for every number of players, groups and requests, and    *)
(* every contents a run may begin with.                                    *)

LEMMA Begins == Init => Inv
<1> SUFFICES ASSUME Init PROVE Inv
  OBVIOUS
<1>1. PICK s \in Starts :
        /\ job = s.job /\ group = s.group /\ memberRow = s.members
        /\ playerRow = [p \in Players |-> {g \in GroupIds : p \in s.members[g]}]
  BY DEF Init
<1>2. /\ job \in [Requests -> Jobs]
      /\ group \in [GroupIds -> GroupItems]
      /\ memberRow \in [GroupIds -> SUBSET Players]
      /\ \A g \in GroupIds :
            IF group[g].owner = None THEN group[g] = NoGroup /\ memberRow[g] = {}
            ELSE group[g].owner \in memberRow[g]
  BY <1>1, StartsAssumption DEF GroupItems
<1>3. \A r \in Requests :
        /\ job[r].op = "remove" => job[r].member \in Players \ {job[r].who}
        /\ job[r].op = "create" =>
            /\ group[job[r].group].owner = None
            /\ \A q \in Requests \ {r} :
                ~(job[q].op = "create" /\ job[q].group = job[r].group)
  BY <1>1, StartsAssumption
<1>4. /\ live = Players /\ conflicts = 0 /\ req = [r \in Requests |-> Idle]
      /\ Idle.pc = "idle" /\ Idle.answer = "none"
  BY DEF Init, Idle
<1>5. Types
  BY <1>1, <1>2, <1>4, IdleTyped DEF Types, Exists
<1>6. JobFacts
  BY <1>3 DEF JobFacts, Who
<1>7. RowsArePaired
  BY <1>1, <1>2 DEF RowsArePaired, Exists
<1>8. OwnerIsMember
  BY <1>2 DEF OwnerIsMember, Exists
<1>9. ASSUME NEW r \in Requests PROVE Truth(r, req[r])
  BY <1>4 DEF Truth, Way, Snapshot, Decided, Gone, Deciding
<1>10. ASSUME NEW r \in Requests PROVE Uncreated(r)
  BY <1>2, <1>3, <1>4 DEF Uncreated, Deciding, Jobs
<1> QED
  BY <1>5, <1>6, <1>7, <1>8, <1>9, <1>10 DEF Inv

LEMMA Keeps == Inv /\ [Next]_vars => Inv'
<1> SUFFICES ASSUME Inv, [Next]_vars PROVE Inv'
  OBVIOUS
<1>1. CASE UNCHANGED vars
  BY <1>1 DEF vars, items, Inv, Types, JobFacts, RowsArePaired, OwnerIsMember, Uncreated,
              Truth, Way, Snapshot, Decided, Gone, Deciding, Departing, Who, Exists
<1>2. ASSUME NEW r \in Requests, Step(r) PROVE Inv'
  BY <1>2, ArriveStep, CountStep, CreateStep, CheckStep, JoinStep, ReadGroupStep,
     ReadMembersStep, CommitStep, RetriedStep, DeleteStep, ListStep DEF Step
<1> QED
  BY <1>1, <1>2 DEF Next

THEOREM GroupsInvariance == Spec => []Inv
BY Begins, Keeps, PTL DEF Spec

(* A group is owned by one of its members.                                 *)
THEOREM OwnersAreMembers == Spec => []OwnerIsMember
<1>1. Inv => OwnerIsMember
  BY DEF Inv
<1> QED
  BY <1>1, GroupsInvariance, PTL

(* The two items of a membership come and go together.                     *)
THEOREM MembershipsArePaired == Spec => []RowsArePaired
<1>1. Inv => RowsArePaired
  BY DEF Inv
<1> QED
  BY <1>1, GroupsInvariance, PTL

(* A departure that converged is final.                                    *)
THEOREM DeparturesAreFinal == Spec => []DepartedForGood
<1>1. ASSUME Inv PROVE DepartedForGood
  <2> SUFFICES ASSUME NEW r \in Requests, req[r].answer = "departed"
               PROVE  /\ playerRow[Who(r)] = {}
                      /\ \A g \in GroupIds : Who(r) \notin memberRow[g]
    BY DEF DepartedForGood
  <2>1. playerRow[Who(r)] = {} /\ Who(r) \in Players
    BY <1>1, RequestTyped DEF Inv, Truth, Gone
  <2> QED
    BY <1>1, <2>1 DEF Inv, RowsArePaired
<1> QED
  BY <1>1, GroupsInvariance, PTL

(* Only its own steps change what a request holds.                         *)
LEMMA StepsAlone ==
    ASSUME Inv, NEW s \in Requests, Step(s), NEW r \in Requests \ {s}
    PROVE  req'[r] = req[r]
<1>1. \A q : Become(s, q) => req'[r] = req[r]
  BY DEF Become, Inv, Types
<1>2. \A pc : Goto(s, pc) => req'[r] = req[r]
  BY <1>1 DEF Goto
<1>3. \A a : Answer(s, a) => req'[r] = req[r]
  BY <1>1 DEF Answer
<1>4. CASE Arrive(s) \/ CountMine(s) \/ Create(s) \/ CheckJoin(s) \/ CheckRoom(s)
  BY <1>1, <1>2, <1>3, <1>4 DEF Arrive, CountMine, Create, CheckJoin, CheckRoom
<1>5. CASE Join(s) \/ Commit(s) \/ Refused(s) \/ Conflict(s) \/ DeleteAccount(s)
  BY <1>1, <1>2, <1>3, <1>5 DEF Join, Commit, Refused, Conflict, DeleteAccount
<1>6. CASE ReadGroup(s) \/ ReadMembers(s)
  BY <1>1, <1>3, <1>6 DEF ReadGroup, ReadMembers
<1>7. CASE ListMine(s) \/ NextGroup(s)
  BY <1>1, <1>2, <1>3, <1>7 DEF ListMine, NextGroup
<1> QED
  BY <1>4, <1>5, <1>6, <1>7 DEF Step

(* Only a commit answers a removal with "left".                            *)
LEMMA RemovalCommits ==
    ASSUME Inv, NEW r \in Requests, Step(r), job[r].op = "remove", req'[r].answer = "left",
           req[r].answer # "left"
    PROVE  Commit(r)
<1>1. /\ req \in [Requests -> Memory] /\ req[r] \in Memory /\ ~Departing(r)
      /\ req[r].pc \in {"idle", "read", "commit", "done"}
  BY DEF Inv, Types, Truth, Way, Departing, Memory, Pcs
<1>2. Arrive(r) \/ ReadGroup(r) \/ Commit(r) \/ Refused(r) \/ Conflict(r)
  BY <1>1 DEF Step, At, CountMine, Create, CheckJoin, CheckRoom, Join, ReadMembers,
              DeleteAccount, ListMine, NextGroup
<1>3. Idle.answer = "none" /\ \A q : Become(r, q) => req'[r] = q
  BY <1>1 DEF Idle, Become
<1>4. ~Arrive(r)
  <2>1. [Idle EXCEPT !.pc = FirstStep(job[r].op), !.target = job[r].group].answer = "none"
    BY DEF Idle
  <2> QED
    BY <1>3, <2>1 DEF Arrive
<1>5. ~ReadGroup(r)
  <2>1. \A a \in {"unknown_group", "not_creator"} : ~Answer(r, a)
    BY <1>3 DEF Answer, Idle
  <2>2. [[req[r] EXCEPT !.read = group[req[r].target]] EXCEPT !.pc = "commit"].answer
            = req[r].answer
    BY <1>1 DEF Memory
  <2> QED
    BY <1>3, <2>1, <2>2 DEF ReadGroup
<1>6. ~(Refused(r) \/ Conflict(r))
  <2>1. Retried(r).answer \in {"none", "failed"}
    BY <1>1 DEF Retried, Idle
  <2> QED
    BY <1>3, <2>1 DEF Refused, Conflict
<1> QED
  BY <1>2, <1>4, <1>5, <1>6

(* Nobody is removed by a player who is not the owner at that moment.      *)
THEOREM RemovalsAreTheOwners == Spec => RemovalIsOwners
<1> DEFINE Kept == \A r \in Requests :
        job[r].op = "remove" /\ req'[r].answer = "left" /\ req[r].answer # "left" =>
            group[job[r].group].owner = Who(r)
<1>1. ASSUME Inv, [Next]_vars PROVE [Kept]_vars
  <2> SUFFICES ASSUME NEW r \in Requests, job[r].op = "remove", req'[r].answer = "left",
                      req[r].answer # "left", Next
               PROVE  group[job[r].group].owner = Who(r)
    BY <1>1
  <2>1. PICK s \in Requests : Step(s)
    BY DEF Next
  <2>2. s = r
    BY <1>1, <2>1, StepsAlone
  <2>3. Commit(r)
    BY <1>1, <2>1, <2>2, RemovalCommits
  <2>4. /\ req[r].pc = "commit" /\ SnapshotStands(r) /\ Truth(r, req[r])
        /\ req[r].target = job[r].group
    BY <1>1, <2>3 DEF Commit, At, Inv, Truth, Way, Departing
  <2>5. req[r].read.owner = Who(r) /\ req[r].read.owner # None
    BY <2>4 DEF Truth, Decided, Departing
  <2> QED
    BY <1>1, <2>4, <2>5, StandingSnapshot
<1> QED
  BY <1>1, GroupsInvariance, PTL DEF Spec, RemovalIsOwners

=============================================================================
